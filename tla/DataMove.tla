------------------------------ MODULE DataMove ------------------------------
(***************************************************************************)
(* Moving the data folder (crates/pl-data, relocate.rs) and the commands   *)
(* around it (the shell's data.rs, state.rs): copy and verify, mark the    *)
(* old folder, point at the new one, restart, and delete the old folders   *)
(* once a start ran from the new place.                                    *)
(*                                                                         *)
(* What a folder holds is the set of writes it has got.  The launcher and  *)
(* the computer may stop between any two steps; the disk of a place may be *)
(* away at a start.                                                        *)
(***************************************************************************)
EXTENDS Naturals, FiniteSets

CONSTANTS
    Places,      \* where the data folder may be; none is inside another
    Default,     \* the platform's default root
    NoPlace,     \* no folder: nothing runs, nothing marked
    NoFolder,    \* there is no such folder
    NoPointer,   \* there is no pointer file
    MaxWrites,   \* bound: writes
    MaxMoves,    \* bound: moves begun
    MaxCrashes,  \* bound: crashes
    MaxFailures, \* bound: copies and deletions that fail
    MaxMissing   \* bound: times a disk goes away

Writes == 1..MaxWrites
\* No old folder is listed twice, and their order plays no part.
Pointer == [root : Places, previous : SUBSET Places]

ASSUME PlaceAssumption == Default \in Places /\ NoPlace \notin Places
ASSUME NoneAssumption == (\A held \in SUBSET Writes : NoFolder # held) /\ NoPointer \notin Pointer
ASSUME BoundAssumption ==
    /\ MaxWrites \in Nat \ {0}
    /\ {MaxMoves, MaxCrashes, MaxFailures, MaxMissing} \subseteq Nat

VARIABLES
    data,      \* the writes in each place's folder
    partial,   \* folders half copied or half deleted
    marker,    \* .projects-moved.json: where each folder's data went
    pointer,   \* the pointer file
    here,      \* places whose disk is there
    root,      \* the folder the running launcher started from
    job,       \* the data job (one at a time) and its step
    target,    \* where the move goes
    created,   \* the move made its target's folder
    due,       \* this start still has to finish an earlier move
    doomed,    \* old folders the finish still has to delete
    waiting,   \* old folders it could not delete
    installing,\* a content job writes the data folder
    written,   \* writes so far
    unseen,    \* writes no check of the move can see (they keep a file's size,
               \* or come after the file was compared or after the last look),
               \* and those made in the default folder while the pointed one is
               \* away
    used       \* what the bounds count

diskVars == <<data, partial, marker, pointer, here>>
moveVars == <<target, created>>
finishVars == <<due, doomed, waiting>>
writeVars == <<written, unseen>>
vars == <<diskVars, root, job, moveVars, finishVars, installing, writeVars, used>>

Init ==
    /\ data = [p \in Places |-> IF p = Default THEN {1} ELSE NoFolder]
    /\ partial = {}
    /\ marker = [p \in Places |-> NoPlace]
    /\ pointer = NoPointer
    /\ here = Places
    /\ root = NoPlace
    /\ job = "none"
    /\ target = NoPlace /\ created = FALSE
    /\ due = FALSE /\ doomed = {} /\ waiting = {}
    /\ installing = FALSE
    /\ written = 1 /\ unseen = {}
    /\ used = [moves |-> 0, crashes |-> 0, failures |-> 0, missing |-> 0]

Exists(p) == p \in here /\ data[p] # NoFolder
Previous == IF pointer = NoPointer THEN {} ELSE pointer.previous
MoveRunning == job \in {"copying", "checking", "recopied", "copied", "marked", "switched"}
Count(what) == used' = [used EXCEPT ![what] = @ + 1]

-----------------------------------------------------------------------------
(***************************************************************************)
(* Starts: pointed_root and default_root; a missing folder is made.        *)
(***************************************************************************)
PointedRoot == IF pointer # NoPointer /\ Exists(pointer.root)
               THEN pointer.root ELSE Default

\* The launcher runs from the default folder because the pointed one is away.
Astray(r) == pointer # NoPointer /\ pointer.root # r

Start ==
    /\ root = NoPlace
    /\ root' = PointedRoot
    /\ due' = (pointer # NoPointer)
    /\ IF data[root'] # NoFolder
       THEN UNCHANGED <<data, writeVars>>
       ELSE /\ written < MaxWrites
            /\ written' = written + 1
            /\ data' = [data EXCEPT ![root'] = {written'}]
            /\ unseen' = IF Astray(root') THEN unseen \cup {written'} ELSE unseen
    /\ UNCHANGED <<partial, marker, pointer, here, job, moveVars, doomed, waiting,
                   installing, used>>

\* The launcher quits, restarts for the move or is killed; a power cut.
Stop ==
    /\ root' = NoPlace /\ job' = "none"
    /\ target' = NoPlace /\ created' = FALSE
    /\ due' = FALSE /\ doomed' = {} /\ waiting' = {}
    /\ installing' = FALSE
    /\ UNCHANGED <<diskVars, writeVars>>

Quit == root # NoPlace /\ job \in {"none", "switched"} /\ Stop /\ UNCHANGED used
Crash == /\ root # NoPlace /\ job \notin {"none", "switched"}
         /\ used.crashes < MaxCrashes /\ Count("crashes")
         /\ Stop

\* The disk of a moved folder is away at the next start, and comes back.
DiskGoes(p) ==
    /\ root = NoPlace /\ p \in here /\ p # Default
    /\ used.missing < MaxMissing /\ Count("missing")
    /\ here' = here \ {p}
    /\ UNCHANGED <<data, partial, marker, pointer, root, job, moveVars, finishVars,
                   installing, writeVars>>

DiskReturns(p) ==
    /\ p \notin here
    /\ here' = here \cup {p}
    /\ UNCHANGED <<data, partial, marker, pointer, root, job, moveVars, finishVars,
                   installing, writeVars, used>>

-----------------------------------------------------------------------------
(***************************************************************************)
(* What writes the data folder meanwhile.  A game is refused while a move  *)
(* runs and refuses the move; content jobs are only asked about.           *)
(***************************************************************************)
AddWrite(lost) ==
    /\ root # NoPlace /\ written < MaxWrites
    /\ written' = written + 1
    /\ data' = [data EXCEPT ![root] = @ \cup {written'}]
    /\ unseen' = IF lost \/ Astray(root) THEN unseen \cup {written'} ELSE unseen

GameWrites ==
    /\ ~MoveRunning
    /\ AddWrite(FALSE)
    /\ UNCHANGED <<partial, marker, pointer, here, root, job, moveVars, finishVars,
                   installing, used>>

InstallStarts ==
    /\ root # NoPlace /\ ~installing
    /\ installing' = TRUE
    /\ UNCHANGED <<diskVars, root, job, moveVars, finishVars, writeVars, used>>

\* verify compares paths and sizes, file by file.
Missed ==
    CASE job \in {"marked", "switched"} -> {TRUE}
      [] job \in {"checking", "recopied"} -> BOOLEAN
      [] OTHER -> {FALSE}

InstallWrites ==
    /\ installing
    /\ \E lost \in Missed : AddWrite(lost)
    /\ UNCHANGED <<partial, marker, pointer, here, root, job, moveVars, finishVars,
                   installing, used>>

\* A job that ends between the verification and the last look is not noticed.
InstallEnds ==
    /\ installing
    /\ installing' = FALSE
    /\ unseen' = IF job = "copied" THEN unseen \cup (data[root] \ data[target]) ELSE unseen
    /\ UNCHANGED <<diskVars, root, job, moveVars, finishVars, written, used>>

-----------------------------------------------------------------------------
(***************************************************************************)
(* data_move_start: resolve_target, copy_data_root, the last look,         *)
(* switch_root.                                                            *)
(***************************************************************************)
BeginMove(t) ==
    /\ root # NoPlace /\ job = "none" /\ ~installing
    /\ used.moves < MaxMoves /\ Count("moves")
    /\ t # root /\ t \in here
    /\ data[t] \in {NoFolder, {}} /\ t \notin partial
    /\ job' = "copying" /\ target' = t
    /\ created' = (data[t] = NoFolder)
    /\ data' = [data EXCEPT ![t] = {}]
    /\ partial' = partial \cup {t}
    /\ UNCHANGED <<marker, pointer, here, root, finishVars, installing, writeVars>>

CopyFiles ==
    /\ job = "copying"
    /\ data' = [data EXCEPT ![target] = data[root]]
    /\ job' = "checking"
    /\ UNCHANGED <<partial, marker, pointer, here, root, moveVars, finishVars,
                   installing, writeVars, used>>

\* discard_copy.
DropCopy ==
    /\ data' = [data EXCEPT ![target] = IF created THEN NoFolder ELSE {}]
    /\ partial' = partial \ {target}

EndMove == job' = "none" /\ target' = NoPlace /\ created' = FALSE

\* What verify finds.
Differ == data[root] \ (data[target] \cup unseen)

\* The files that differ are copied once more.
CopyDiffers ==
    /\ job = "checking" /\ Differ # {}
    /\ data' = [data EXCEPT ![target] = @ \cup Differ]
    /\ job' = "recopied"
    /\ UNCHANGED <<partial, marker, pointer, here, root, moveVars, finishVars,
                   installing, writeVars, used>>

\* (A mutant: what differs after the second pass is not looked at.)
CopyVerifiedOnce ==
    /\ job \in {"checking", "recopied"}
    /\ job = "checking" => Differ = {}
    /\ job' = "copied"
    /\ UNCHANGED <<diskVars, root, moveVars, finishVars, installing, writeVars, used>>

CopyVerified ==
    /\ job \in {"checking", "recopied"} /\ Differ = {}
    /\ job' = "copied"
    /\ UNCHANGED <<diskVars, root, moveVars, finishVars, installing, writeVars, used>>

\* Files still differ after the second pass; the disk is full; cancelled.
CopyFails ==
    /\ job \in {"copying", "checking", "recopied", "copied"}
    /\ DropCopy /\ EndMove
    /\ UNCHANGED <<marker, pointer, here, root, finishVars, installing, writeVars, used>>

\* (A mutant: no last look at what runs.)
MarkOldUnasked ==
    /\ job = "copied"
    /\ marker' = [marker EXCEPT ![root] = target]
    /\ job' = "marked"
    /\ UNCHANGED <<data, partial, pointer, here, root, moveVars, finishVars,
                   installing, writeVars, used>>

MarkOld ==
    /\ job = "copied" /\ ~installing
    /\ marker' = [marker EXCEPT ![root] = target]
    /\ job' = "marked"
    /\ UNCHANGED <<data, partial, pointer, here, root, moveVars, finishVars,
                   installing, writeVars, used>>

\* Folders of an earlier move that still wait to be deleted.
StillWaiting ==
    IF pointer # NoPointer /\ pointer.root = root
    THEN {p \in Previous : Exists(p) /\ p # root /\ p # target}
    ELSE {}

\* (A mutant: the folders of the earlier move are forgotten.)
PointForgetful ==
    /\ job = "marked"
    /\ pointer' = [root |-> target, previous |-> {root}]
    /\ partial' = partial \ {target}
    /\ job' = "switched"
    /\ UNCHANGED <<data, marker, here, root, moveVars, finishVars, installing,
                   writeVars, used>>

Point ==
    /\ job = "marked"
    /\ pointer' = [root |-> target, previous |-> {root} \cup StillWaiting]
    /\ partial' = partial \ {target}
    /\ job' = "switched"
    /\ UNCHANGED <<data, marker, here, root, moveVars, finishVars, installing,
                   writeVars, used>>

\* The marker is removed, if that does not fail as well.
PointFails ==
    /\ job = "marked" /\ used.failures < MaxFailures /\ Count("failures")
    /\ marker' \in {[marker EXCEPT ![root] = NoPlace], marker}
    /\ DropCopy /\ EndMove
    /\ UNCHANGED <<pointer, here, root, finishVars, installing, writeVars>>

-----------------------------------------------------------------------------
(***************************************************************************)
(* finish_pending_move: finish_move and settle_pointer.                    *)
(***************************************************************************)
\* The markers lead from p to the folder q, through old folders that are there.
LeadsTo(p, q) ==
    \E n \in 1..Cardinality(Previous) + 1 : \E at \in [0..n -> Places] :
        /\ at[0] = p /\ at[n] = q
        /\ \A i \in 0..n - 1 : Exists(at[i]) /\ marker[at[i]] = at[i + 1]
        /\ \A i \in 1..n - 1 : at[i] \in Previous

\* Another data job runs, nothing waits, or the pointed folder is away: the next
\* start tries again.
SkipFinish ==
    /\ due /\ due' = FALSE
    /\ job # "none" \/ Previous = {} \/ pointer.root # root
    /\ UNCHANGED <<diskVars, root, job, moveVars, doomed, waiting, installing,
                   writeVars, used>>

BeginFinish ==
    /\ due /\ due' = FALSE
    /\ job = "none"
    /\ Previous # {} /\ pointer.root = root
    /\ job' = "finishing"
    /\ doomed' = {p \in Previous : p # root /\ Exists(p) /\ LeadsTo(p, root)}
    /\ waiting' = {}
    /\ UNCHANGED <<diskVars, root, moveVars, installing, writeVars, used>>

DeleteOld(p) ==
    /\ job = "finishing" /\ p \in doomed
    /\ data' = [data EXCEPT ![p] = NoFolder]
    /\ marker' = [marker EXCEPT ![p] = NoPlace]
    /\ partial' = partial \ {p}
    /\ doomed' = doomed \ {p}
    /\ UNCHANGED <<pointer, here, root, job, moveVars, due, waiting, installing,
                   writeVars, used>>

\* A file in use stops the deletion where it is, with or without the marker.
DeleteFails(p) ==
    /\ job = "finishing" /\ p \in doomed
    /\ used.failures < MaxFailures /\ Count("failures")
    /\ data' = [data EXCEPT ![p] = {}]
    /\ partial' = partial \cup {p}
    /\ marker' \in {marker, [marker EXCEPT ![p] = NoPlace]}
    /\ doomed' = doomed \ {p}
    /\ waiting' = waiting \cup {p}
    /\ UNCHANGED <<pointer, here, root, job, moveVars, due, installing, writeVars>>

SettlePointer ==
    /\ job = "finishing" /\ doomed = {}
    /\ pointer' = IF waiting = {} /\ root = Default
                  THEN NoPointer
                  ELSE [pointer EXCEPT !.previous = @ \cap waiting]
    /\ job' = "none" /\ waiting' = {}
    /\ UNCHANGED <<data, partial, marker, here, root, moveVars, due, doomed, installing,
                   writeVars, used>>

-----------------------------------------------------------------------------

Next ==
    \/ Start \/ Quit \/ Crash
    \/ GameWrites \/ InstallStarts \/ InstallWrites \/ InstallEnds
    \/ CopyFiles \/ CopyDiffers \/ CopyVerified \/ CopyFails
    \/ MarkOld \/ Point \/ PointFails
    \/ SkipFinish \/ BeginFinish \/ SettlePointer
    \/ \E p \in Places : \/ DiskGoes(p) \/ DiskReturns(p) \/ BeginMove(p)
                         \/ DeleteOld(p) \/ DeleteFails(p)

Spec == Init /\ [][Next]_vars

-----------------------------------------------------------------------------

Jobs == {"none", "copying", "checking", "recopied", "copied", "marked", "switched",
         "finishing"}

\* Every variable keeps its type; a move has a target of its own.
TypeOK ==
    /\ data \in [Places -> (SUBSET Writes) \cup {NoFolder}]
    /\ partial \subseteq Places
    /\ marker \in [Places -> Places \cup {NoPlace}]
    /\ pointer \in Pointer \cup {NoPointer}
    /\ here \subseteq Places
    /\ root \in Places \cup {NoPlace}
    /\ job \in Jobs
    /\ target \in Places \cup {NoPlace}
    /\ MoveRunning <=> target # NoPlace
    /\ created \in BOOLEAN
    /\ due \in BOOLEAN /\ doomed \subseteq Places /\ waiting \subseteq Places
    /\ installing \in BOOLEAN
    /\ written \in Writes /\ unseen \subseteq Writes
    /\ used \in [moves : 0..MaxMoves, crashes : 0..MaxCrashes,
                 failures : 0..MaxFailures, missing : 0..MaxMissing]

\* Whatever stops, fails or is away, a write the move could see stays in some
\* folder (finish_move deletes only what was copied and verified); and TypeOK.
WritesKept ==
    /\ TypeOK
    /\ \A w \in 1..written \ unseen :
          \E p \in Places : data[p] # NoFolder /\ w \in data[p]

\* The launcher that starts from the pointed folder, no disk ever having been
\* away, has all its data there.
StartsWithEverything ==
    root # NoPlace /\ used.missing = 0 => 1..written \ unseen \subseteq data[root]

\* An old folder stays in the pointer until it is deleted, over any number of
\* moves ("two moves in a row leave no old folder behind"), as long as nothing
\* stops half-way, fails or is away.
Forgotten(p) == p \in Previous /\ Exists(p) /\ p \notin Previous' /\ data'[p] # NoFolder
OldFoldersRemembered ==
    [][(used.crashes = 0 /\ used.failures = 0 /\ used.missing = 0)
          => \A p \in Places : ~Forgotten(p)]_vars

\* "The folders it was moved away from until they are deleted": the same with
\* crashes and deletions that fail.
KeptUntilDeleted == [][\A p \in Places : ~Forgotten(p)]_vars

\* Nothing a content job writes is missed by the move ("the copy would miss what
\* they write, so it goes").
NothingMissed ==
    \A w \in 1..written : \E p \in Places : data[p] # NoFolder /\ w \in data[p]
=============================================================================
