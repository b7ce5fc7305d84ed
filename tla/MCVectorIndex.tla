---------------------------- MODULE MCVectorIndex ----------------------------
(* A small vector index for TLC: four keys, of which two share a home cell. *)
EXTENDS VectorIndex

MCPayloads == {<<0, 0, 1>>, <<1, 1, 1>>, <<3, 3, 1>>, <<4, 7, 0>>, <<1, 7, 1>>}
=============================================================================
