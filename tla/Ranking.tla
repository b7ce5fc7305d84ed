------------------------------- MODULE Ranking -------------------------------
(***************************************************************************)
(* Sequences taken from finite sets in a given order, as functions of      *)
(* values only: the order is a set of pairs, so that a fact about Ranked   *)
(* is stated once for every order it is used with.                         *)
(***************************************************************************)
EXTENDS Naturals, FiniteSets, Sequences

\* The elements of S by the number of elements that come before them.
Ranked(S, before) ==
  [i \in 1 .. Cardinality(S) |->
     CHOOSE x \in S : Cardinality({y \in S : <<y, x>> \in before}) = i - 1]

Ascending(S) == Ranked(S, {p \in S \X S : p[1] < p[2]})

\* The elements of s that are in S, in the order of s.
Only(s, S) ==
  LET at == Ascending({i \in DOMAIN s : s[i] \in S})
  IN  [j \in DOMAIN at |-> s[at[j]]]
=============================================================================
