------------------------------ MODULE Sorting ------------------------------
(***************************************************************************)
(* Two of Python's list constructions as functions of an index, without    *)
(* recursion, so that what they return can be proved for every input:      *)
(* sorted() of a set of numbers, and a list comprehension with an "if".    *)
(***************************************************************************)
EXTENDS Integers, FiniteSets

(* sorted(): the i-th entry is the element with i - 1 smaller ones. *)
Sorted(S) ==
  [i \in 1 .. Cardinality(S) |->
     CHOOSE p \in S : Cardinality({q \in S : q < p}) = i - 1]

(* [x for x in s if ...]: s at the places where the condition holds, in    *)
(* their order.                                                            *)
Kept(s, places) == [i \in 1 .. Cardinality(places) |-> s[Sorted(places)[i]]]

=============================================================================
