----------------------------- MODULE Orderings ------------------------------
(***************************************************************************)
(* The elements of a finite set in their order, and the rows of a sequence *)
(* at some of its places: what sort_by returns, and a loop that passes     *)
(* rows over.  Both are said by places and not by recursion, so that what  *)
(* they return can be proved.                                              *)
(***************************************************************************)
EXTENDS Naturals, FiniteSets

(* R is a set of pairs, the lesser one first. *)
Ahead(S, R, x) == {y \in S : <<y, x>> \in R}

InOrder(S, R) ==
  [i \in 1 .. Cardinality(S) |-> CHOOSE x \in S : Cardinality(Ahead(S, R, x)) = i - 1]

Ascending(at) == {p \in at \X at : p[1] < p[2]}

Picked(rows, at) ==
  LET index == InOrder(at, Ascending(at))
  IN  [k \in 1 .. Cardinality(at) |-> rows[index[k]]]
=============================================================================
