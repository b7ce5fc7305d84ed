--------------------------- MODULE MCRaftElection ---------------------------
EXTENDS RaftElection, TLC

\* Nodes that may start elections are interchangeable, and so are the others.
NodeSymmetry == {p \in Permutations(Server) : {p[n] : n \in Candidates} = Candidates}
=============================================================================
