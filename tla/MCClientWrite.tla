---------------------------- MODULE MCClientWrite ----------------------------
EXTENDS ClientWrite, TLC

CONSTANTS r1, r2, r3, c1, c2

\* Two clients with a request each, and one client that sends its request again before the
\* first call has ended; r3 comes in through the logs of other leaders only.
ClientWorkloads == {c1 :> r1 @@ c2 :> r2, c1 :> r1 @@ c2 :> r1}
=============================================================================
