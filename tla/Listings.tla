------------------------------ MODULE Listings ------------------------------
(***************************************************************************)
(* Arrays put in order.  What Array.prototype.sort returns for the         *)
(* elements of a set is said by ranks: the n-th element is the one that    *)
(* n - 1 others come before.  An order is a set of pairs.  (The library's  *)
(* SetToSortSeq and SelectSeq rest on operators the provers know nothing   *)
(* about.)                                                                 *)
(***************************************************************************)
EXTENDS Naturals, FiniteSets

Rank(S, before, x) == Cardinality({y \in S : <<y, x>> \in before})

Listed(S, before) ==
  [n \in 1..Cardinality(S) |-> CHOOSE x \in S : Rank(S, before, x) = n - 1]

(* The indexes of the elements that a filter keeps, in order.              *)
Ascending(indexes) ==
  Listed(indexes, {pair \in indexes \X indexes : pair[1] < pair[2]})

(* The elements of an array at these indexes.                              *)
Kept(seq, indexes) == [n \in 1..Cardinality(indexes) |-> seq[Ascending(indexes)[n]]]

(* Array.prototype.filter.                                                 *)
Filter(seq, Test(_)) == Kept(seq, {i \in DOMAIN seq : Test(seq[i])})
=============================================================================
