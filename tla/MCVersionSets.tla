--------------------------- MODULE MCVersionSets ---------------------------
(***************************************************************************)
(* Small instances of VersionSets for TLC.                                 *)
(***************************************************************************)
EXTENDS VersionSets, TLC

Symmetry == Permutations(Versions)
=============================================================================
