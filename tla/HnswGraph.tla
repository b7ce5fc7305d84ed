------------------------------ MODULE HnswGraph ------------------------------
(***************************************************************************)
(* The proximity graph of include/vector/index.hpp (index_gt) as operators *)
(* on a value: insertion, reuse of a node, search, isolation, compaction.  *)
(*                                                                         *)
(* A graph is [nodes, entry, max_level]; nodes is a function from slots    *)
(* 0 .. n-1 to [key, level, vec, nbrs], nbrs[l] the neighbour list of the  *)
(* node at level l.  A vector is a number and the metric is the squared    *)
(* distance.  The node locks are left out: the vector index runs every     *)
(* operation that changes a graph under its exclusive lock.                *)
(*                                                                         *)
(* The loops of the code are functions of the number of rounds done, with  *)
(* a bound that no run of the loop exceeds: a loop that is over earlier    *)
(* leaves its state as it is.                                              *)
(***************************************************************************)
EXTENDS Integers, Sequences, FiniteSetsExt, SequencesExt, Ranking

CONSTANTS Connectivity,      \* config_.connectivity; the base level takes twice as many
          ExpansionAdd,      \* candidates kept while inserting
          ExpansionSearch,   \* candidates kept while searching
          FreeKey            \* free_key_: the key of a removed node

ASSUME GraphAssumption ==
  /\ Connectivity \in Nat \ {0, 1}
  /\ ExpansionAdd \in Nat \ {0}
  /\ ExpansionSearch \in Nat \ {0}

NoSlot == -1

EmptyGraph == [nodes |-> [s \in {} |-> 0], entry |-> 0, max_level |-> -1]

Size(g) == Cardinality(DOMAIN g.nodes)

connectivity_max(level) == IF level > 0 THEN Connectivity ELSE 2 * Connectivity

measure(a, b) == (a - b) * (a - b)

Candidate(g, q, slot) == [dist |-> measure(q, g.nodes[slot].vec), slot |-> slot]

neighbors_(g, slot, level) == g.nodes[slot].nbrs[level]

SetNeighbors(g, slot, level, list) == [g EXCEPT !.nodes[slot].nbrs[level] = list]

-----------------------------------------------------------------------------
(* The containers of the traversal: max_heap_gt and sorted_buffer_gt *)

\* sorted_buffer_gt::insert: before the equal ones, evicting beyond the limit.
TopInsert(top, c, limit) ==
  LET pos == Cardinality({i \in DOMAIN top : top[i].dist < c.dist}) + 1
  IN  IF pos > limit THEN top
      ELSE LET longer == InsertAt(top, pos, c)
           IN  IF Len(longer) > limit THEN SubSeq(longer, 1, limit) ELSE longer

\* The heap keyed by negated distance as the list of its elements in the order
\* they are popped; equal distances, which a heap leaves open, first in first out.
NextInsert(next, c) ==
  InsertAt(next, Cardinality({i \in DOMAIN next : next[i].dist <= c.dist}) + 1, c)

-----------------------------------------------------------------------------
(* Traversal *)

\* One pass over the neighbours: the first of the closest, if it is closer.
Closer(g, q, level, slot) ==
  LET list    == neighbors_(g, slot, level)
      Dist(s) == Candidate(g, q, s).dist
      closer  == {i \in DOMAIN list : Dist(list[i]) < Dist(slot)}
  IN  IF closer = {} THEN slot
      ELSE list[Min({i \in closer : \A j \in closer : Dist(list[i]) <= Dist(list[j])})]

\* Passes until nothing changes; each change moves to a node not seen before.
Greedy(g, q, level, slot) ==
  LET at[i \in 0 .. Size(g)] == IF i = 0 THEN slot ELSE Closer(g, q, level, at[i - 1])
  IN  at[Size(g)]

\* From begin_level down to the level above end_level.
search_for_one_(g, q, slot, begin_level, end_level) ==
  LET levels == IF begin_level > end_level THEN begin_level - end_level ELSE 0
      at[i \in 0 .. levels] ==
        IF i = 0 THEN slot ELSE Greedy(g, q, begin_level - i + 1, at[i - 1])
  IN  at[levels]

\* growing_hash_set_gt::set, which makes the set grow as it fills up.
SetVisited(visits, slot) == visits \union {slot}

\* One unvisited successor: queued when there is room or it is close enough,
\* and reported unless it is one of the banned slots.
Visit(g, q, limit, banned, s, slot) ==
  LET c == Candidate(g, q, slot)
      seen == [s EXCEPT !.visits = SetVisited(@, slot)]
  IN  IF slot \in s.visits THEN s
      ELSE IF Len(s.top) >= limit /\ c.dist >= s.radius THEN seen
      ELSE LET top == IF slot \in banned THEN s.top ELSE TopInsert(s.top, c, limit)
           IN  [next |-> NextInsert(s.next, c), visits |-> SetVisited(s.visits, slot),
                radius |-> IF top = <<>> THEN s.radius ELSE Last(top).dist, top |-> top]

VisitAll(g, q, limit, banned, s, list) ==
  LET at[i \in 0 .. Len(list)] ==
        IF i = 0 THEN s ELSE Visit(g, q, limit, banned, at[i - 1], list[i])
  IN  at[Len(list)]

\* One round: the closest of the queued is expanded, unless none is left or it
\* is too far.
Expand(g, q, level, limit, banned, s) ==
  IF s.next = <<>> \/ (Head(s.next).dist > s.radius /\ Len(s.top) = limit) THEN s
  ELSE VisitAll(g, q, limit, banned, [s EXCEPT !.next = Tail(@)],
                neighbors_(g, Head(s.next).slot, level))

\* No slot is queued twice, so there are at most as many rounds as nodes.
Traverse(g, q, level, limit, banned, s) ==
  LET at[i \in 0 .. Size(g)] ==
        IF i = 0 THEN s ELSE Expand(g, q, level, limit, banned, at[i - 1])
  IN  at[Size(g)].top

\* The start is always explored and reported unless it is banned.
TraverseFrom(g, q, start, level, limit, banned) ==
  LET c == Candidate(g, q, start)
  IN  Traverse(g, q, level, limit, banned,
               [next |-> <<c>>, visits |-> SetVisited({}, start), radius |-> c.dist,
                top  |-> IF start \in banned THEN <<>> ELSE <<c>>])

search_to_insert_(g, q, start, level) ==
  TraverseFrom(g, q, start, level, ExpansionAdd, {})

search_to_update_(g, q, start, updated, level) ==
  TraverseFrom(g, q, start, level, ExpansionAdd, {updated})

Freed(g) == {s \in DOMAIN g.nodes : g.nodes[s].key = FreeKey}

\* Mutant: the predicate that keeps removed nodes out of an answer is missing.
FindWithFreed(g, q, start, expansion) == TraverseFrom(g, q, start, 0, expansion, {})

search_to_find_in_base_(g, q, start, expansion) ==
  TraverseFrom(g, q, start, 0, expansion, Freed(g))

\* The candidates nearest to q among the nodes that are not freed, at most wanted.
search(g, q, wanted) ==
  IF wanted = 0 \/ Size(g) = 0 THEN <<>>
  ELSE LET start == search_for_one_(g, q, g.entry, g.max_level, 0)
           top   == search_to_find_in_base_(g, q, start, Max({ExpansionSearch, wanted}))
       IN  SubSeq(top, 1, Min({wanted, Len(top)}))

-----------------------------------------------------------------------------
(* Linking *)

\* inter_neighbor_distance_: the vector of the overridden slot is not stored yet.
VecOf(g, slot, override_slot, override) ==
  IF slot = override_slot THEN override ELSE g.nodes[slot].vec

\* Keeps a candidate unless it is closer to a kept one than to the centre.
Refined(g, needed, kept, c, override_slot, override) ==
  LET Vec(s) == VecOf(g, s, override_slot, override)
  IN  IF /\ Len(kept) < needed
         /\ \A i \in DOMAIN kept : measure(Vec(c.slot), Vec(kept[i].slot)) >= c.dist
      THEN Append(kept, c) ELSE kept

refine_(g, needed, top, override_slot, override) ==
  LET kept[i \in 0 .. Len(top)] ==
        IF i = 0 THEN <<>>
        ELSE Refined(g, needed, kept[i - 1], top[i], override_slot, override)
  IN  IF Len(top) < needed THEN top ELSE kept[Len(top)]

Slots(view) == [i \in DOMAIN view |-> view[i].slot]

form_links_to_closest_(g, slot, level, view) == SetNeighbors(g, slot, level, Slots(view))

\* A buffer without limit after cands were inserted one after the other: the
\* closest first, of equal ones the last.
Buffered(cands) ==
  LET all == DOMAIN cands
      Before(a, b) == \/ cands[a].dist < cands[b].dist
                      \/ cands[a].dist = cands[b].dist /\ a > b
      order == Ranked(all, {p \in all \X all : Before(p[1], p[2])})
  IN  [i \in DOMAIN order |-> cands[order[i]]]

\* Mutant: the check for a link that is there already is missing.
ReverseLinkTwice(g, new_slot, vec, level, close) ==
  LET list == neighbors_(g, close, level)
  IN  IF Len(list) >= connectivity_max(level) THEN list ELSE Append(list, new_slot)

\* The list of a neighbour with the link back; a full one is refined again with
\* the new node.
ReverseLink(g, new_slot, vec, level, close) ==
  LET list  == neighbors_(g, close, level)
      limit == connectivity_max(level)
      cvec  == g.nodes[close].vec
      cands == <<[dist |-> measure(vec, cvec), slot |-> new_slot]>>
                 \o [i \in DOMAIN list |-> Candidate(g, cvec, list[i])]
  IN  IF new_slot \in ToSet(list) THEN list
      ELSE IF Len(list) < limit THEN Append(list, new_slot)
      ELSE Slots(refine_(g, limit, Buffered(cands), new_slot, vec))

\* Each neighbour but the node itself links back; their lists do not depend on
\* one another.
form_reverse_links_(g, new_slot, vec, level, view) ==
  LET back == ToSet(Slots(view)) \ {new_slot}
      Linked(s) == [g.nodes[s] EXCEPT !.nbrs[level] = ReverseLink(g, new_slot, vec, level, s)]
  IN  [g EXCEPT !.nodes = [s \in DOMAIN g.nodes |-> IF s \in back THEN Linked(s) ELSE g.nodes[s]]]

\* One level: search, link to the closest, link back; the closest starts the next.
LinkLevel(s, slot, vec, level, updating) ==
  LET g    == s.graph
      top  == IF updating THEN search_to_update_(g, vec, s.closest, slot, level)
                          ELSE search_to_insert_(g, vec, s.closest, level)
      view == refine_(g, Connectivity, top, NoSlot, 0)
  IN  [graph   |-> form_reverse_links_(form_links_to_closest_(g, slot, level, view),
                                       slot, vec, level, view),
       closest |-> IF view = <<>> THEN s.closest ELSE view[1].slot]

\* From the given level down.
LinkDown(g, slot, vec, level, closest, updating) ==
  LET at[i \in 0 .. level + 1] ==
        IF i = 0 THEN [graph |-> g, closest |-> closest]
        ELSE LinkLevel(at[i - 1], slot, vec, level - i + 1, updating)
  IN  at[level + 1].graph

-----------------------------------------------------------------------------
(* The operations *)

NewNode(key, vec, level) ==
  [key |-> key, level |-> level, vec |-> vec, nbrs |-> [l \in 0 .. level |-> <<>>]]

\* The caller has checked the capacity; level is the outcome of choose_random_level_.
add(g, key, vec, level) ==
  LET n  == Size(g)
      g1 == [g EXCEPT !.nodes = [s \in 0 .. n |-> IF s = n THEN NewNode(key, vec, level)
                                                          ELSE g.nodes[s]]]
      closest == search_for_one_(g1, vec, g.entry, g.max_level, level)
      g2 == LinkDown(g1, n, vec, Min({level, g.max_level}), closest, FALSE)
  IN  IF n = 0 THEN [g1 EXCEPT !.entry = 0, !.max_level = level]
      ELSE IF level > g.max_level THEN [g2 EXCEPT !.entry = n, !.max_level = level]
      ELSE g2

\* Mutant: the reused node keeps the vector of the removed one.
UpdateKeyOnly(g, slot, key, vec) ==
  LET level == g.nodes[slot].level
      g1 == LinkDown(g, slot, vec, Min({level, g.max_level}), g.entry, TRUE)
  IN  [g1 EXCEPT !.nodes[slot].key = key]

\* The node keeps its level; the links of other nodes to it stay, and the new
\* vector is stored only after the links are formed.
update(g, slot, key, vec) ==
  LET level   == g.nodes[slot].level
      closest == IF level = g.max_level THEN g.entry
                 ELSE search_for_one_(g, vec, g.entry, g.max_level, level)
      g1 == LinkDown(g, slot, vec, Min({level, g.max_level}), closest, TRUE)
  IN  [g1 EXCEPT !.nodes[slot].key = key, !.nodes[slot].vec = vec]

\* Every link that leads to a removed node is erased; its own links stay.
isolate(g) ==
  LET kept == DOMAIN g.nodes \ Freed(g)
      Pruned(n) == [n EXCEPT !.nbrs = [l \in DOMAIN n.nbrs |-> Only(n.nbrs[l], kept)]]
  IN  [g EXCEPT !.nodes = [s \in DOMAIN g.nodes |-> Pruned(g.nodes[s])]]

\* The orders the sort may leave: slots by descending level and ascending cluster,
\* equal ones in any order, since std::sort is not stable.
CompactOrders(g) ==
  LET slots   == DOMAIN g.nodes
      level   == [s \in slots |-> g.nodes[s].level]
      cluster == [s \in slots |-> search_for_one_(g, g.nodes[s].vec, g.entry, g.max_level, 0)]
      Before(a, b) == \/ level[a] > level[b]
                      \/ level[a] = level[b] /\ cluster[a] < cluster[b]
  IN  {order \in Bijection(1 .. Size(g), slots) :
         \A i, j \in DOMAIN order : Before(order[i], order[j]) => i < j}

\* Nodes move to the position of their slot in the order and their links follow;
\* removed nodes are kept.
compact(g, order) ==
  LET New(old) == (CHOOSE i \in DOMAIN order : order[i] = old) - 1
      Moved(n) == [n EXCEPT !.nbrs = [l \in DOMAIN n.nbrs |->
                                        [i \in DOMAIN n.nbrs[l] |-> New(n.nbrs[l][i])]]]
  IN  [g EXCEPT !.nodes = [s \in DOMAIN g.nodes |-> Moved(g.nodes[order[s + 1]])],
                !.entry = IF Size(g) = 0 THEN @ ELSE New(@)]

-----------------------------------------------------------------------------
(***************************************************************************)
(* What the assertions of index.hpp say of a graph: lists within their     *)
(* limits, no self-loops, no duplicates, no link to a missing node or      *)
(* level, and an entry point on the highest level.                         *)
(***************************************************************************)
WellFormedList(g, slot, level) ==
  LET list == neighbors_(g, slot, level)
  IN  /\ Len(list) <= connectivity_max(level)
      /\ IsInjective(list)
      /\ \A s \in ToSet(list) : /\ s \in DOMAIN g.nodes \ {slot}
                                /\ g.nodes[s].level >= level

WellFormed(g) ==
  /\ \A s \in DOMAIN g.nodes : \A l \in 0 .. g.nodes[s].level : WellFormedList(g, s, l)
  /\ Size(g) > 0 => /\ g.entry \in DOMAIN g.nodes
                    /\ g.nodes[g.entry].level = g.max_level
                    /\ \A s \in DOMAIN g.nodes : g.nodes[s].level <= g.max_level
=============================================================================
