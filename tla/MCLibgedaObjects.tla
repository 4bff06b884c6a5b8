-------------------------- MODULE MCLibgedaObjects --------------------------
(* Small instances of LibgedaObjects for TLC.                              *)
EXTENDS LibgedaObjects, TLC

\* Two neighbours and the line over both.
MCLines == {<<0, 1>>, <<1, 2>>, <<0, 2>>}
Symmetry == Permutations(Objects)

\* Several nets and pins at a time, but one object of every other kind.
OneOfAKind ==
  \A k \in Kinds \ {"net", "pin"} : Cardinality({o \in Objects : kind[o] = k}) <= 1

\* Connections of one object at a time are out of date.
OneOutdated == Cardinality(moved \cup merged) <= 1
=============================================================================
