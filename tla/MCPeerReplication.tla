-------------------------- MODULE MCPeerReplication --------------------------
EXTENDS PeerReplication, TLC

\* Logs before the election of term 3: the leader missed entries that terms 1 and 2 left
\* on its peers, or has entries of term 2 that they lack.
ShortLog == <<1>>
LongLog == <<1, 2>>
ShorterOrDiverged == {<<1>>, <<1, 1>>}

\* Logs that diverge from LongLog at the first, the second or the third entry, logs that
\* are shorter, and one whose first entry is missing.
Divergent == {<<>>, <<2>>, <<2, 2>>, <<1>>, <<1, 1>>, <<1, 1, 1>>, <<1, 2>>, <<0, 2>>}

PeerSymmetry == Permutations(Peers)
=============================================================================
