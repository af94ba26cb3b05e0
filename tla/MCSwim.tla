------------------------------- MODULE MCSwim -------------------------------
(* Instances of Swim for TLC.                                              *)
EXTENDS Swim, TLC

\* Sound for safety when all nodes have the same role.
Symmetry == Permutations(Node)
=============================================================================
