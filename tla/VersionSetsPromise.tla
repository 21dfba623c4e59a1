------------------------- MODULE VersionSetsPromise -------------------------
(***************************************************************************)
(* What the per-version sets promise (the module comment of sets.rs):      *)
(* every Minecraft version keeps its own mods/ and config/, a switch only  *)
(* changes which version is active, and the set of a version comes back    *)
(* exactly as it was left.                                                 *)
(***************************************************************************)
EXTENDS Naturals

CONSTANTS Versions, Dirs, NoFolder

Folder == [ver : Versions, dir : Dirs, n : Nat]

VARIABLES
    current,  \* the version the instance is on
    home,     \* the folders of every version's set, active or parked
    bin,      \* sets the cleanup took away
    used      \* every folder there ever was

vars == <<current, home, bin, used>>

Empty == [d \in Dirs |-> NoFolder]

Init ==
    /\ current \in Versions
    /\ home = [v \in Versions |-> Empty]
    /\ bin = {}
    /\ used = {}

\* A set without the folder d gets one that never was in another set.
Make(v, d) ==
    LET f == home'[v][d]
    IN  /\ home[v][d] = NoFolder
        /\ f \in Folder /\ f.ver = v /\ f.dir = d /\ f.n > 0 /\ f \notin used
        /\ home' = [home EXCEPT ![v][d] = f]
        /\ used' = used \cup {f}
        /\ UNCHANGED <<current, bin>>

\* The instance moves to a version whose set has a mods/ folder.
Switch(v) ==
    /\ v # current
    /\ home[v]["mods"] # NoFolder
    /\ current' = v
    /\ UNCHANGED <<home, bin, used>>

Discard(v) ==
    /\ v # current
    /\ home' = [home EXCEPT ![v] = Empty]
    /\ bin' = bin \cup {<<v, home[v]>>}
    /\ UNCHANGED <<current, used>>

BringBack(v) ==
    /\ v # current /\ home[v] = Empty
    /\ \E item \in bin :
          /\ item[1] = v
          /\ home' = [home EXCEPT ![v] = item[2]]
          /\ bin' \in {bin, bin \ {item}}
    /\ UNCHANGED <<current, used>>

Next == \E v \in Versions :
          \/ \E d \in Dirs : Make(v, d)
          \/ Switch(v) \/ Discard(v) \/ BringBack(v)

Spec == Init /\ [][Next]_vars
=============================================================================
