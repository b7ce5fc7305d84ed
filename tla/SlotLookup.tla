----------------------------- MODULE SlotLookup -----------------------------
(***************************************************************************)
(* The open-addressing table that maps the keys of the vector index to     *)
(* graph slots: flat_hash_multi_set_gt of include/vector/index_plugins.hpp *)
(* as index_dense_gt instantiates it (slot_lookup_).                       *)
(*                                                                         *)
(* A table is a function from cell numbers to cells.  A cell is "empty",   *)
(* "live" or a tombstone ("deleted"); the two bit masks of a bucket header *)
(* are the state of its cells.  Keys are numbers and, as with the hash of  *)
(* the standard library for integers, a key hashes to itself.              *)
(***************************************************************************)
EXTENDS Naturals, Sequences, FiniteSetsExt, SequencesExt, Ranking

CONSTANT CellsPerBucket      \* slots_per_bucket(), 64 in the code

ASSUME BucketAssumption == CellsPerBucket \in {1, 2, 4, 8, 16, 32, 64}

EmptyCell == [use |-> "empty", key |-> 0, slot |-> 0]

EmptyTable(n) == [i \in 0 .. n - 1 |-> EmptyCell]

CellCount(t) == Cardinality(DOMAIN t)

LiveCells(t) == {i \in DOMAIN t : t[i].use = "live"}

HasEmpty(t) == \E i \in DOMAIN t : t[i].use = "empty"

\* The cells in the order in which linear probing visits them for key k.
Probe(t, k) == LET n == CellCount(t) IN [i \in 1 .. n |-> (k + i - 1) % n]

\* The part of the probe sequence before the first empty cell.
Chain(t, k) ==
  LET p == Probe(t, k)
      stops == {i \in DOMAIN p : t[p[i]].use = "empty"}
  IN  IF stops = {} THEN p ELSE SubSeq(p, 1, Min(stops) - 1)

HoldsKey(cell, k) == cell.use = "live" /\ cell.key = k

\* The live entries of key k in probe order: what find and erase visit.
Matches(t, k) == Only(Chain(t, k), {i \in DOMAIN t : HoldsKey(t[i], k)})

contains(t, k) == Matches(t, k) # <<>>

(***************************************************************************)
(* equal_range and the walk over it.  The end of the range is the first    *)
(* empty cell after the first match.  With no empty cell left, the search  *)
(* for the end stops at the home cell of the key: the range is empty when  *)
(* the first match is that very cell, and otherwise the iterator, which    *)
(* halts only on matches and empty cells, walks past its end for ever.     *)
(***************************************************************************)
equal_range(t, k) ==
  LET m == Matches(t, k)
  IN  IF m = <<>> THEN [ends |-> TRUE, cells |-> <<>>]
      ELSE IF HasEmpty(t) THEN [ends |-> TRUE, cells |-> m]
      ELSE [ends |-> m[1] = k % CellCount(t), cells |-> <<>>]

\* Mutant: an erased cell becomes empty, which cuts the chains through it.
EraseToEmpty(t, k) ==
  LET gone == ToSet(Matches(t, k))
  IN  [i \in DOMAIN t |-> IF i \in gone THEN EmptyCell ELSE t[i]]

erase(t, k) ==
  LET gone == ToSet(Matches(t, k))
  IN  [i \in DOMAIN t |-> IF i \in gone THEN [t[i] EXCEPT !.use = "deleted"] ELSE t[i]]

\* populate_slot at the first cell that is not live.
Place(t, key, slot) ==
  LET p == Probe(t, key)
      c == p[Min({i \in DOMAIN p : t[p[i]].use # "live"})]
  IN  [t EXCEPT ![c] = [use |-> "live", key |-> key, slot |-> slot]]

DoubledBelow(p, n) == IF p < n THEN 2 * p ELSE p

\* The smallest power of two that is at least n.
ceil2(n) ==
  LET power[i \in 0 .. n] == IF i = 0 THEN 1 ELSE DoubledBelow(power[i - 1], n)
  IN  power[n]

Rehashed(t, cell) == IF cell.use = "live" THEN Place(t, cell.key, cell.slot) ELSE t

\* The live cells in cell order are placed into a table without tombstones.
Rehash(t, n) ==
  LET table[i \in 0 .. CellCount(t)] ==
        IF i = 0 THEN EmptyTable(n) ELSE Rehashed(table[i - 1], t[i - 1])
  IN  table[CellCount(t)]

try_reserve(t, capacity) ==
  IF capacity * 3 <= CellCount(t) * 2 THEN t
  ELSE LET want    == ceil2((capacity * 3) \div 2)
           buckets == (want + CellsPerBucket - 1) \div CellsPerBucket
       IN  Rehash(t, buckets * CellsPerBucket)

\* The load that triggers growth counts live entries only, never tombstones.
try_emplace(t, key, slot) ==
  LET n == Cardinality(LiveCells(t))
      grown == IF n * 3 >= CellCount(t) * 2 THEN try_reserve(t, n + 1) ELSE t
  IN  Place(grown, key, slot)

(***************************************************************************)
(* What the table promises: every live entry is on the chain of its key,   *)
(* so that no empty cell hides it, and no two live cells hold one entry.   *)
(***************************************************************************)
ProbeReachable(t) ==
  \A i \in LiveCells(t) : i \in ToSet(Chain(t, t[i].key))

Entries(t) == {<<t[i].key, t[i].slot>> : i \in LiveCells(t)}
=============================================================================
