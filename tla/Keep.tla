-------------------------------- MODULE Keep --------------------------------
(***************************************************************************)
(* The subsequence of a sequence at a chosen set of positions: what the    *)
(* Go idiom `next := q[:0]; for ... { if cond { next = append(next, x) }}` *)
(* leaves behind, and what a filtered `SELECT ... ORDER BY rowid` returns. *)
(* It is SelectSeq with the positions given as a set instead of a test,    *)
(* written without recursion so that the provers can reason about it.      *)
(***************************************************************************)
EXTENDS Naturals, Sequences, FiniteSets

\* The i-th smallest member of a finite set of positions.
Nth(K, i) == CHOOSE k \in K : Cardinality({j \in K : j < k}) = i - 1

Keep(s, K) == [i \in 1 .. Cardinality(K) |-> s[Nth(K, i)]]
=============================================================================
