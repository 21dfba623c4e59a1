----------------------------- MODULE MCGameLink -----------------------------
(***************************************************************************)
(* TLC's instances of GameLink: bytes from the host only, or from both.    *)
(***************************************************************************)
EXTENDS GameLink

FromHost == [s \in Sides |-> IF s = "host" THEN 2 ELSE 0]
OneEach == [s \in Sides |-> 1]
=============================================================================
