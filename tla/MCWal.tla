------------------------------- MODULE MCWal -------------------------------
(* Instances of Wal: where a crash may strike, and what it takes.          *)
EXTENDS Wal
=============================================================================
