------------------------------ MODULE MCPhysFs ------------------------------
(* PhysFs and its refinement with few inodes and blocks. *)
EXTENDS PhysFsRefinement, TLC

Symmetry == Permutations(Names)
=============================================================================
