------------------------- MODULE MCInstanceVersion -------------------------
(***************************************************************************)
(* TLC's instances of InstanceVersion: two versions, two launches, a       *)
(* switch, a page that may save the settings, and the recovery at start.   *)
(***************************************************************************)
EXTENDS InstanceVersion

CONSTANTS a, b
=============================================================================
