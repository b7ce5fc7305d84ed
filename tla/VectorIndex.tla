----------------------------- MODULE VectorIndex -----------------------------
(***************************************************************************)
(* The vector index of a node: VectorIndex (src/vector/vector_index.cpp)   *)
(* over index_dense_gt (include/vector/index_dense.hpp), its maintenance   *)
(* thread (src/vector/index_maintenance.cpp), and the snapshots saved from *)
(* it and loaded into it.                                                  *)
(*                                                                         *)
(* index is the installed index:                                           *)
(*   graph     the proximity graph with its vectors (HnswGraph)            *)
(*   lookup    slot_lookup_, the table from keys to slots (SlotLookup)     *)
(*   free      free_keys_, the ring of slots to reuse                      *)
(*   capacity  nodes_capacity_;  buffer  the nodes the allocation can hold *)
(*   deleted   deleted_count_                                              *)
(* content is the history the index is judged by: the last vector written  *)
(* successfully for each key.  Each operation of VectorIndex holds its     *)
(* mutex, so it is one step; Check reads its three numbers in three steps. *)
(* The steps after which the code can do anything (a walk without end, a   *)
(* write past a buffer, a worker on a destroyed index) end in a health     *)
(* other than "ok", in which the index takes no further step.              *)
(***************************************************************************)
EXTENDS HnswGraph, SlotLookup

CONSTANTS None,              \* a key without a vector, a snapshot that is not there
          Keys,              \* keys, numbers
          Payloads,          \* the writes offered: <<key, vector, level drawn for a new node>>
          InitialCapacity,   \* vector.initial_capacity
          BufferAlign,       \* nodes per 64-byte line of the allocator, 8 in the code
          DeletePercent,     \* compact_delete_ratio_threshold, in percent
          IsolatePercent,    \* isolate_fragmentation_threshold, in percent
          WordBits,          \* width of size_t
          MaxWrites, MaxChecks, MaxSaves

ASSUME IndexAssumption ==
  /\ Keys \subseteq Nat /\ IsFiniteSet(Keys) /\ FreeKey \notin Keys
  /\ \A p \in Payloads : p[1] \in Keys /\ p[2] \in Int /\ p[2] # None /\ p[3] \in Nat
  /\ InitialCapacity \in Nat \ {0} /\ BufferAlign \in Nat \ {0}

VARIABLES index, content,
          check,             \* the Check in progress: pc and what it has read
          worker,            \* state_ of IndexMaintenance and what its thread does next
          saved,             \* the saved snapshot and the content it was taken from
          health, history, used

indexVars == <<index, content, check, worker, saved, health, history, used>>

Vectors == {p[2] : p \in Payloads}

SizeMod == 2 ^ WordBits

Present == {k \in Keys : content[k] # None}
-----------------------------------------------------------------------------
(* index_dense_gt *)

\* size() counts the nodes that are not waiting in the free ring.
size(ix) == Size(ix.graph) - Len(ix.free)

\* ring_gt: the slots to reuse, first in first out.
push(ring, slots) == ring \o slots

try_pop(ring) == [slot |-> Head(ring), rest |-> Tail(ring)]

\* try_reserve: the lookup grows first and its cells become the node capacity.
reserve(ix, members) ==
  LET t == try_reserve(ix.lookup, members)
      n == CellCount(t)
  IN  IF n <= ix.capacity THEN [ix EXCEPT !.lookup = t]
      ELSE [ix EXCEPT !.lookup = t, !.capacity = n, !.buffer = n]

Create ==
  reserve([graph |-> EmptyGraph, lookup |-> EmptyTable(0), free |-> <<>>,
           capacity |-> 0, buffer |-> 0, deleted |-> 0], InitialCapacity)

\* remove: the slots of the key, in the order the lookup yields them, join the
\* free ring, their nodes lose their key and the entries their cells.
remove(ix, k) ==
  LET range == equal_range(ix.lookup, k)
      slots == [i \in DOMAIN range.cells |-> ix.lookup[range.cells[i]].slot]
      freed == ToSet(slots)
      Mark(s) == IF s \in freed THEN [ix.graph.nodes[s] EXCEPT !.key = FreeKey]
                                ELSE ix.graph.nodes[s]
  IN  [ends |-> range.ends, slots |-> slots,
       ix |-> IF slots = <<>> THEN ix
              ELSE [ix EXCEPT !.free = push(@, slots), !.lookup = erase(@, k),
                              !.graph.nodes = [s \in DOMAIN @ |-> Mark(s)]]]

\* add_: a free slot is reused before a new node is made.
ReuseNode(ix, k, v) ==
  LET free == try_pop(ix.free)
  IN  [ix EXCEPT !.free = free.rest, !.graph = update(@, free.slot, k, v),
                 !.lookup = try_emplace(@, k, free.slot)]

MakeNode(ix, k, v, level) ==
  [ix EXCEPT !.graph = add(@, k, v, level),
             !.lookup = try_emplace(@, k, Size(ix.graph))]

\* copy: nodes, vectors and ring are copied; the lookup is copied too, but a
\* clone is only saved, and a file has no lookup.
CloneUnderLock(ix) == [graph |-> ix.graph, free |-> ix.free]

\* save_to_stream: the nodes and vectors and, in the header, the removed entries.
SaveImage(ix) == [graph |-> ix.graph, count_deleted |-> Len(ix.free)]

\* The entry of one slot, unless its node is removed.
Reindexed(t, g, s) == IF s \in Freed(g) THEN t ELSE try_emplace(t, g.nodes[s].key, s)

\* Mutant: the loop over the slots starts at one.
ReindexFromOne(g, cells) ==
  LET table[i \in 0 .. Size(g)] ==
        IF i <= 1 THEN cells ELSE Reindexed(table[i - 1], g, i - 1)
  IN  [lookup |-> table[Size(g)], free |-> Ascending(Freed(g) \ {0})]

\* load_from_stream rebuilds the lookup and the free ring from the keys of the
\* nodes in slot order.
reindex_keys_(g, cells) ==
  LET table[i \in 0 .. Size(g)] ==
        IF i = 0 THEN cells ELSE Reindexed(table[i - 1], g, i - 1)
  IN  [lookup |-> table[Size(g)], free |-> Ascending(Freed(g))]

\* load_from_stream of the graph: an empty one is reset.
LoadGraph(g) == IF Size(g) = 0 THEN EmptyGraph ELSE g

LoadFromSnapshot(image) ==
  LET g     == LoadGraph(image.graph)
      total == Size(g)
      live  == total - Cardinality(Freed(g))
      keys  == reindex_keys_(g, try_reserve(EmptyTable(0), live))
      ix    == [graph |-> g, lookup |-> keys.lookup, free |-> keys.free,
                capacity |-> 0, buffer |-> 0, deleted |-> image.count_deleted]
  IN  reserve(ix, Max({InitialCapacity, total}))

-----------------------------------------------------------------------------
IndexInit ==
  /\ index = Create
  /\ content = [k \in Keys |-> None]
  /\ check = [pc |-> "off", total |-> 0, size |-> 0]
  /\ worker = [state |-> "idle", next |-> "none", orphan |-> FALSE]
  /\ saved = [file |-> None, content |-> content]
  /\ health = "ok"
  /\ history = [stale |-> FALSE, lost |-> FALSE, drift |-> FALSE]
  /\ used = [writes |-> 0, checks |-> 0, saves |-> 0]

\* The lookup led to a node of another key, or the free ring to a node in use:
\* what the write does is done to the wrong node.
WrongSlot(ix, k, slots) == \E i \in DOMAIN slots : ix.graph.nodes[slots[i]].key # k

WrongFree(ix) == ix.free # <<>> /\ ix.graph.nodes[Head(ix.free)].key # FreeKey

Stuck(why) ==
  /\ health' = why
  /\ UNCHANGED <<index, content, history>>

DeletedAfterAdd(n) == IF n > 0 THEN n - 1 ELSE n

\* The old vector is removed before the new one is added.  The add fails when
\* the key is still in the lookup, or no slot is free and the nodes are at
\* capacity; it writes past the buffer when the buffer is shorter than that.
Upsert(k, v, level) ==
  LET r    == remove(index, k)
      full == Size(r.ix.graph) >= r.ix.capacity
      gone == [r.ix EXCEPT !.deleted = @ + Len(r.slots)]
      wrong == WrongSlot(index, k, r.slots) \/ WrongFree(r.ix)
      Done(ix) == /\ index' = [ix EXCEPT !.deleted = DeletedAfterAdd(gone.deleted)]
                  /\ content' = [content EXCEPT ![k] = v]
                  /\ history' = [history EXCEPT !.lost = @ \/ wrong]
                  /\ UNCHANGED health
      Failed == index' = gone /\ UNCHANGED <<content, health, history>>
  IN  IF ~r.ends THEN Stuck("hung")
      ELSE IF contains(r.ix.lookup, k) THEN Failed
      ELSE IF r.ix.free # <<>> THEN Done(ReuseNode(gone, k, v))
      ELSE IF full THEN Failed
      ELSE IF Size(r.ix.graph) >= r.ix.buffer THEN Stuck("overrun")
      ELSE Done(MakeNode(gone, k, v, level))

Delete(k) ==
  LET r == remove(index, k)
      missed == r.slots = <<>> /\ contains(index.lookup, k)
  IN  IF ~r.ends THEN Stuck("hung")
      ELSE /\ index' = [r.ix EXCEPT !.deleted = @ + Len(r.slots)]
           /\ content' = [content EXCEPT ![k] = None]
           /\ history' = [history EXCEPT !.lost = @ \/ missed \/ WrongSlot(index, k, r.slots)]
           /\ UNCHANGED health

Write ==
  /\ health = "ok" /\ used.writes < MaxWrites
  /\ used' = [used EXCEPT !.writes = @ + 1]
  /\ \/ \E p \in Payloads : Upsert(p[1], p[2], p[3])
     \/ \E k \in Keys : Delete(k)
  /\ UNCHANGED <<check, worker, saved>>

\* What a client is answered: keys with their distances, closest first.
Search(ix, q, top_k) ==
  IF top_k = 0 \/ size(ix) = 0 THEN <<>>
  ELSE LET found == search(ix.graph, q, top_k)
       IN  [i \in DOMAIN found |-> [key |-> ix.graph.nodes[found[i].slot].key,
                                    dist |-> found[i].dist]]

-----------------------------------------------------------------------------
(* IndexMaintenance *)

TotalSlots(ix) == size(ix) + ix.deleted

\* MaybeRunIndexMaintenance and the first of the three reads of Check.
CheckTotal ==
  /\ health = "ok" /\ check.pc = "off" /\ used.checks < MaxChecks
  /\ used' = [used EXCEPT !.checks = @ + 1]
  /\ check' = [pc |-> "size", total |-> TotalSlots(index), size |-> 0]
  /\ UNCHANGED <<index, content, worker, saved, health, history>>

CheckSize ==
  /\ health = "ok" /\ check.pc = "size"
  /\ check' = [check EXCEPT !.pc = "decide", !.size = size(index)]
  /\ UNCHANGED <<index, content, worker, saved, health, history, used>>

Exceeds(part, total, percent) == total # 0 /\ part * 100 > total * percent

\* The difference of two sizes read apart wraps around when a write came between.
Holes == (check.total - check.size) % SizeMod

CheckDecide(overdue) ==
  LET job == IF Exceeds(index.deleted, check.total, DeletePercent) \/ overdue
             THEN "compacting"
             ELSE IF Exceeds(Holes, check.total, IsolatePercent) THEN "isolating"
             ELSE "idle"
  IN  /\ health = "ok" /\ check.pc = "decide"
      /\ check' = [check EXCEPT !.pc = "off", !.total = 0, !.size = 0]
      /\ worker' = IF worker.state # "idle" \/ job = "idle" THEN worker
                   ELSE [state |-> job, next |-> IF job = "isolating" THEN "isolate" ELSE "compact",
                         orphan |-> FALSE]
      /\ UNCHANGED <<index, content, saved, health, history, used>>

RoundUp(n) == ((n + BufferAlign - 1) \div BufferAlign) * BufferAlign

\* compact moves nodes and vectors; neither the lookup nor the free ring follows,
\* and the new buffer has room for the nodes there are.
Compacted(ix, order) ==
  [ix EXCEPT !.graph = compact(@, order),
             !.buffer = RoundUp(Size(ix.graph)), !.deleted = 0]

Compact(order) ==
  LET moved == order # [i \in 1 .. Size(index.graph) |-> i - 1]
  IN  /\ index' = Compacted(index, order)
      /\ history' = [history EXCEPT !.stale = @ \/ moved, !.drift = @ \/ index.free # <<>>]

Isolate == index' = [index EXCEPT !.graph = isolate(@)]

\* The thread keeps a bare reference to the index it was started for.
RunDangling ==
  /\ health = "ok" /\ worker.next \in {"isolate", "compact"} /\ worker.orphan
  /\ health' = "dangling"
  /\ UNCHANGED <<index, content, check, worker, saved, history, used>>

RunIsolate ==
  /\ health = "ok" /\ worker.next = "isolate" /\ ~worker.orphan
  /\ Isolate
  /\ worker' = [worker EXCEPT !.state = "compacting", !.next = "compact"]
  /\ UNCHANGED <<content, check, saved, health, history, used>>

RunCompact ==
  /\ health = "ok" /\ worker.next = "compact" /\ ~worker.orphan
  /\ \E order \in CompactOrders(index.graph) : Compact(order)
  /\ worker' = [worker EXCEPT !.next = "finish"]
  /\ UNCHANGED <<content, check, saved, health, used>>

RunFinish ==
  /\ health = "ok" /\ worker.next = "finish"
  /\ worker' = [state |-> "idle", next |-> "none", orphan |-> FALSE]
  /\ UNCHANGED <<index, content, check, saved, health, history, used>>

-----------------------------------------------------------------------------
(* Snapshots *)

\* SaveSnapshot clones the index under the lock; the file is written from the
\* clone, so nothing that happens meanwhile is in it.
SaveSnapshot ==
  /\ health = "ok" /\ used.saves < MaxSaves
  /\ used' = [used EXCEPT !.saves = @ + 1]
  /\ saved' = [file |-> SaveImage(CloneUnderLock(index)), content |-> content]
  /\ UNCHANGED <<index, content, check, worker, health, history>>

\* ReloadVectorIndex: the loaded index replaces the installed one, whatever the
\* maintenance thread is doing with that one.
Install ==
  /\ health = "ok" /\ saved.file # None
  /\ index' = LoadFromSnapshot(saved.file)
  /\ content' = saved.content
  /\ worker' = [worker EXCEPT !.orphan = worker.next # "none"]
  /\ history' = [history EXCEPT !.stale = FALSE, !.drift = FALSE]
  /\ UNCHANGED <<check, saved, health, used>>

IndexNext ==
  \/ Write
  \/ CheckTotal \/ CheckSize \/ \E overdue \in BOOLEAN : CheckDecide(overdue)
  \/ RunDangling \/ RunIsolate \/ RunCompact \/ RunFinish
  \/ SaveSnapshot \/ Install

IndexSpec == IndexInit /\ [][IndexNext]_indexVars
-----------------------------------------------------------------------------
IndexTypeOK ==
  /\ content \in [Keys -> Vectors \union {None}]
  /\ check.pc \in {"off", "size", "decide"}
  /\ worker.state \in {"idle", "isolating", "compacting"}
  /\ worker.next \in {"none", "isolate", "compact", "finish"}
  /\ health \in {"ok", "hung", "overrun", "dangling"}
  /\ index.deleted \in Nat
  /\ index.lookup \in [DOMAIN index.lookup -> [use : {"empty", "live", "deleted"},
                                               key : Keys \union {0}, slot : Nat]]

\* The graph never breaks what the assertions of index.hpp say of it: insertion,
\* reuse, isolation and compaction keep lists within their limits, without
\* self-loops, duplicates or links to missing levels, and the entry at the top.
GraphWellFormed == WellFormed(index.graph)

\* The comment in remove: an entry is removed when its slot is in the free ring,
\* missing in the lookup and marked in the graph.  The three agree until a
\* compaction moves a node, and agree again after a snapshot is loaded.
LookupAgrees ==
  ~history.stale /\ ~history.lost =>
    /\ Entries(index.lookup) =
         {<<index.graph.nodes[s].key, s>> : s \in DOMAIN index.graph.nodes \ Freed(index.graph)}
    /\ ToSet(index.free) = Freed(index.graph) /\ IsInjective(index.free)
    /\ ProbeReachable(index.lookup)

NodesOf(g, k) == {s \in DOMAIN g.nodes : g.nodes[s].key = k}

Faithful(g, c) ==
  /\ \A k \in Keys : c[k] = None => NodesOf(g, k) = {}
  /\ \A k \in Keys : c[k] # None => \E s \in DOMAIN g.nodes : NodesOf(g, k) = {s} /\ g.nodes[s].vec = c[k]

\* Upsert keeps only the latest vector of a key (the comment in Upsert): as long
\* as no write went to a wrong slot, each present key has exactly one node, with
\* the last vector written successfully, and an absent key has none, whatever
\* failed, was reused, isolated, compacted or loaded in between.
ContentMatches == ~history.lost => Faithful(index.graph, content)

\* A snapshot file, once loaded, holds the content at the time it was cloned and
\* a lookup that agrees with its nodes, also when the clone was taken from an
\* index whose lookup had been left behind by a compaction.
SnapshotRoundTrip ==
  (saved.file # None /\ ~history.lost) =>
    LET ix == LoadFromSnapshot(saved.file)
    IN  /\ Faithful(ix.graph, saved.content)
        /\ \A k \in Keys : contains(ix.lookup, k) <=> saved.content[k] # None
        /\ \A s \in ToSet(ix.free) : ix.graph.nodes[s].key = FreeKey

\* Whatever was cut off, an answer holds present keys only, none twice, each with
\* the distance of its current vector, closest first.
SearchSound ==
  ~history.lost =>
    \A q \in Vectors :
      LET r == Search(index, q, Cardinality(Keys))
      IN  /\ \A i \in DOMAIN r : r[i].key \in Present /\ r[i].dist = measure(q, content[r[i].key])
          /\ \A i, j \in DOMAIN r : i < j => r[i].key # r[j].key /\ r[i].dist <= r[j].dist

\* deleted_count_ is the number of slots waiting for reuse ("as long as a free
\* slot exists, add reuses one", Upsert) until a compaction that leaves the ring
\* alone resets it, and again after a snapshot is loaded.
DeletedCountMatches == ~history.drift /\ ~history.lost => index.deleted = Len(index.free)

\* Not upheld by the code (see README): kept to show what breaks.
NoEndlessWalk == health # "hung"
NoOverrun == health # "overrun"
WorkerTargetAlive == health # "dangling"
SearchComplete ==
  ~history.lost => \A q \in Vectors : Len(Search(index, q, Cardinality(Keys))) = Cardinality(Present)
=============================================================================
