----------------------------- MODULE DurableLog -----------------------------
(***************************************************************************)
(* What the WAL promises the rest of the node: a gapless log of entries    *)
(* that is appended to at its end, cut at its end when a leader overwrites *)
(* it, loses a prefix to a snapshot, and after a crash still has all that  *)
(* was flushed.                                                            *)
(***************************************************************************)
EXTENDS Naturals, Functions

CONSTANT Term

VARIABLES
    entries,   \* the term of each entry of the log, by index
    durable,   \* the entries up to this index have been flushed
    covered    \* the entries up to this index are in a snapshot

vars == <<entries, durable, covered>>

Last == IF DOMAIN entries = {} THEN 0
        ELSE CHOOSE i \in DOMAIN entries : \A j \in DOMAIN entries : j <= i

UpTo(k) == {i \in DOMAIN entries : i <= k}
From(k) == {i \in DOMAIN entries : i >= k}

Init == DOMAIN entries = {} /\ durable = 0 /\ covered = 0

\* The first entry of an empty log may have any index.
AppendEntry ==
    \E i \in DOMAIN entries' \ DOMAIN entries :
        /\ entries'[i] \in Term
        /\ DOMAIN entries = {} \/ i = Last + 1
        /\ DOMAIN entries' = DOMAIN entries \cup {i}
        /\ entries = Restrict(entries', DOMAIN entries)
        /\ UNCHANGED <<durable, covered>>

Flush == durable' = Last /\ durable' > durable /\ UNCHANGED <<entries, covered>>

\* Before a suffix is overwritten it stops being durable.
GiveUpSuffix ==
    durable' \in Nat /\ durable' < durable /\ UNCHANGED <<entries, covered>>

\* A truncation or a crash takes entries that are not durable.
LoseSuffix ==
    /\ \E k \in 0..Last : k >= durable /\ entries' = Restrict(entries, UpTo(k))
    /\ UNCHANGED <<durable, covered>>

Snapshot == covered' \in Nat /\ covered' > covered /\ UNCHANGED <<entries, durable>>

\* Only entries that a snapshot covers leave the log at its beginning.
DropPrefix ==
    /\ \E k \in 1..(covered + 1) : entries' = Restrict(entries, From(k))
    /\ UNCHANGED <<durable, covered>>

Next == AppendEntry \/ Flush \/ GiveUpSuffix \/ LoseSuffix \/ Snapshot \/ DropPrefix

Spec == Init /\ [][Next]_vars

=============================================================================
