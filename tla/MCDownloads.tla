----------------------------- MODULE MCDownloads -----------------------------
(***************************************************************************)
(* Instances of Downloads: a launch and a background preparation that want *)
(* the same file.                                                          *)
(***************************************************************************)
EXTENDS Downloads
=============================================================================
