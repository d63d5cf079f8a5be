---------------------------- MODULE Dir_StackMC ----------------------------
(***************************************************************************)
(* Dir_Stack for TLC: directories are interchangeable.                     *)
(***************************************************************************)
EXTENDS Dir_Stack, TLC

Symmetry == Permutations(Dir)
=============================================================================
