----------------------------- MODULE MCSkipList -----------------------------
(* An instance of SkipList for TLC. *)
EXTENDS SkipList, TLC

CONSTANTS p1, p2, n1, n2, n3

TwoProcs  == {p1, p2}
SomeNodes == {n1, n2, n3}
Symmetry  == Permutations(TwoProcs) \cup Permutations(SomeNodes)
=============================================================================
