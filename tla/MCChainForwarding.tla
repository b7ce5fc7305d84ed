-------------------------- MODULE MCChainForwarding --------------------------
(* A small chain for TLC: leader, mentor, follower.  The mentor has the log of the *)
(* leader, or one that ends with an entry of an earlier term.                     *)
EXTENDS ChainForwarding

Start(leader, mentor) ==
  [n \in Nodes |-> CASE n = Leader -> leader [] n \in Mentors -> mentor [] OTHER -> <<>>]

MCStarts == {Start(<<2>>, <<2>>), Start(<<1, 2>>, <<1, 1>>)}
=============================================================================
