------------------------------- MODULE MCDrop -------------------------------
(* TLC instances of DropExec.                                               *)
EXTENDS DropInv, TLC

\* Interchangeable variables and values.
MCSymmetry == Permutations(Vars \ Params) \cup Permutations(Cells)
=============================================================================
