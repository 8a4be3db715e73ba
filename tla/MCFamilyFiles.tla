---------------------------- MODULE MCFamilyFiles ----------------------------
(***************************************************************************)
(* Instance of FamilyFiles.                                                *)
(***************************************************************************)
EXTENDS FamilyFiles, TLC

CONSTANTS k1, k2, d1, d2

CommandSymmetry == Permutations(Commands) \cup Permutations(Docs)
=============================================================================
