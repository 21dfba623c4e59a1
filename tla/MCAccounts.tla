----------------------------- MODULE MCAccounts -----------------------------
(***************************************************************************)
(* Instances of Accounts: the ids of a profile and how many calls.         *)
(***************************************************************************)
EXTENDS Accounts

FewCalls == [op |-> 3, refresh |-> 2, fault |-> 1, stop |-> 1]
ListRefuses == [op |-> 3, refresh |-> 1, fault |-> 1, stop |-> 0]
NothingFails == [op |-> 2, refresh |-> 2, fault |-> 0, stop |-> 0]
=============================================================================
