-------------------------- MODULE MCLauncherTrash --------------------------
(***************************************************************************)
(* TLC's instances of LauncherTrash.                                       *)
(***************************************************************************)
EXTENDS LauncherTrash
=============================================================================
