------------------------------- MODULE MCKlog -------------------------------
(* Small instances of the kernel log. *)
EXTENDS KlogInv
=============================================================================
