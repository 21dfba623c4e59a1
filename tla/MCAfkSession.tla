---------------------------- MODULE MCAfkSession ----------------------------
(***************************************************************************)
(* TLC's instances of AfkSession: one account.                             *)
(***************************************************************************)
EXTENDS AfkSession
=============================================================================
