----------------------------- MODULE MCDataMove -----------------------------
(***************************************************************************)
(* TLC's instances of DataMove: the default folder and two other places.   *)
(***************************************************************************)
EXTENDS DataMove, TLC

CONSTANTS d, t, u

Symmetry == Permutations({t, u})
=============================================================================
