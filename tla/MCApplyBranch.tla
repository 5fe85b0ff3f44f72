---------------------------- MODULE MCApplyBranch ----------------------------
(***************************************************************************)
(* One repository with one or two files: sessions switch a file between 0   *)
(* and 1, the user writes 2.                                                *)
(***************************************************************************)
EXTENDS ApplyBranch, TLC

AllZero  == [f \in Files |-> 0]
Symmetry == Permutations(Files)
=============================================================================
