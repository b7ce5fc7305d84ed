----------------------------- MODULE MCTopology -----------------------------
EXTENDS Topology

\* An iteration order that differs from the order of the ids.
Descending == [n \in Node |-> 10 - n]
=============================================================================
