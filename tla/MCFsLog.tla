------------------------------ MODULE MCFsLog ------------------------------
(* Model values for FsLogInv. *)
EXTENDS FsLogInv, TLC

ProcSymmetry == Permutations(Proc)
=============================================================================
