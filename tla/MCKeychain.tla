----------------------------- MODULE MCKeychain -----------------------------
(***************************************************************************)
(* Instances of Keychain: two sessions of three parts, one of one part.    *)
(***************************************************************************)
EXTENDS Keychain

CONSTANTS long1, long2, short

ThreeSessions == {long1, long2, short}
MixedParts == [s \in ThreeSessions |-> IF s = short THEN 1 ELSE 3]
=============================================================================
