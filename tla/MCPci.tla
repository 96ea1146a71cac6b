-------------------------------- MODULE MCPci --------------------------------
(***************************************************************************)
(* Instances of Pci for TLC: three devices, BARs of four bytes, and BAR    *)
(* values that are zero, unaligned, equal for two devices, or all ones.    *)
(* The devices differ in nothing, and only invariants are checked.         *)
(***************************************************************************)
EXTENDS Pci, TLC

MCBarVals == {0, 2, 4, 9, 15}
MCSymmetry == Permutations(Devs)
=============================================================================
