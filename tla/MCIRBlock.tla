----------------------------- MODULE MCIRBlock -----------------------------
(* Instances of IRBlock for TLC. *)
EXTENDS IRBlock, TLC

Symmetry == Permutations(Temps) \cup Permutations(Vars) \cup Permutations(Objects)

Signed == {IntVal(0, ""), IntVal(1, "i")}
SignedTypes == {"", "i"}
Flags == {BoolVal(TRUE), BoolVal(FALSE)}
Mixed == {IntVal(0, "u"), IntVal(1, "u"), BoolVal(TRUE)}
MixedTypes == {"", "u"}
=============================================================================
