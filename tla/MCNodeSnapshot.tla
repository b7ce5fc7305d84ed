--------------------------- MODULE MCNodeSnapshot ---------------------------
(* Instances of NodeSnapshot.  Entries are numbers, tasks model values.    *)
EXTENDS NodeSnapshot

\* The steps that disturb a node are taken, what follows them is not explored: every
\* safety property speaks of a clean history and CommittedIsApplied of a node without
\* installs, which nothing disturbs.
Undisturbed == clean
=============================================================================
