---------------------------- MODULE VersionSets ----------------------------
(***************************************************************************)
(* The per-version sets of one game directory (crates/pl-content, sets.rs) *)
(* and the commands that drive them (the shell's versions.rs, cleanup.rs). *)
(*                                                                         *)
(* Every Minecraft version keeps its own mods/ and config/.  The active    *)
(* set lies in the game directory, the others are parked below .projects/. *)
(* A switch moves folders one rename at a time and keeps a journal, so     *)
(* that a crash or an I/O error between any two steps can be finished by a *)
(* later resume.  One action is one file-system step.                      *)
(*                                                                         *)
(* Durable: active, parked, aside, staging, activeState, parkedState,      *)
(* activeInfo, setFile, journal, mc, trash.  In memory: pc, todo, goal.    *)
(* Every operation runs under the instance lock and the switch lock, so    *)
(* one program counter is enough.                                          *)
(***************************************************************************)
EXTENDS Naturals, FiniteSets

CONSTANTS
    Versions,      \* Minecraft versions the instance can be on
    NoFolder,      \* "there is no such folder"
    NoState,       \* "there is no pack-state.json"
    NoVersion,     \* "no version": no active set.json, no switch being prepared
    NoJournal,     \* "there is no version-switch.json"
    MaxMade,       \* bound: folders ever made per version and name
    MaxInterrupts, \* bound: crashes and I/O errors
    MaxSwitches    \* bound: switches begun

\* PARKED_DIRS; COPIED_DIRS is {"config"}.
Dirs == {"mods", "config"}
Copied == {"config"}

(***************************************************************************)
(* A folder is known by the version it was made for, its name and a number *)
(* (the n-th one made).  Number 0 is a copy that was cut short.            *)
(***************************************************************************)
Folder == [ver : Versions, dir : Dirs, n : Nat]
MaybeFolder == Folder \cup {NoFolder}

(***************************************************************************)
(* The pack's records (pack-state.json, and the states in mod-sets.json,   *)
(* which are split the same way): the version they describe, the parked    *)
(* folders they have file records for, and whether they record files       *)
(* outside those folders (resource packs), which all versions share.       *)
(***************************************************************************)
PackState == [ver : Versions, dirs : SUBSET Dirs, shared : BOOLEAN]
MaybeState == PackState \cup {NoState}

Steps == {"park", "restore", "states", "finalize"}

Journal == [from : Versions, to : Versions, step : Steps, first : BOOLEAN,
            parkedState : MaybeState, activeState : MaybeState]

TrashItem == [ver : Versions, dirs : [Dirs -> MaybeFolder],
              aside : SUBSET Folder, file : {"none", "seeded", "parked"},
              state : MaybeState]

ASSUME NoneAssumption == /\ NoFolder \notin Folder
                         /\ NoState \notin PackState
                         /\ NoVersion \notin Versions
                         /\ NoJournal \notin Journal

ASSUME BoundAssumption == {MaxMade, MaxInterrupts, MaxSwitches} \subseteq Nat

VARIABLES
    active,       \* the folders in the game directory
    parked,       \* the folders of each parked set
    aside,        \* folders moved aside into each set's folder
    staging,      \* config.switch-copy
    activeState,  \* .projects/pack-state.json
    parkedState,  \* each parked set's pack-state.json
    activeInfo,   \* the version .projects/set.json names
    setFile,      \* each parked set's set.json: none, seeded (prepared) or parked
    journal,      \* .projects/version-switch.json
    mc,           \* the instance record's version (instance.json)
    trash,        \* version sets in the launcher's trash
    pc,           \* where the running operation is
    todo,         \* folders the running step has still to handle
    goal,         \* the version the running operation is for
    made,         \* how many folders were made, per version and name
    interrupts,   \* how many operations were cut short
    switches,     \* how many switches were begun
    awaited       \* history: what the target's set held when the journal of
                  \* the unfinished switch was written

folderVars == <<active, parked, aside, staging, made>>
recordVars == <<activeState, parkedState, activeInfo, setFile>>
runVars == <<pc, todo, goal>>
boundVars == <<interrupts, switches, awaited>>
vars == <<folderVars, recordVars, journal, mc, trash, runVars, boundVars>>

(***************************************************************************)
(* Reading the disk.                                                       *)
(***************************************************************************)
HasFolders(v) == \E d \in Dirs : parked[v][d] # NoFolder

\* parked_info(v) is Some.
HasParkedInfo(v) == setFile[v] # "none" \/ HasFolders(v)

\* The folder of a set that was there before the switch stays while its
\* folders are brought in, empty or not.
Emptied(v) == /\ journal # NoJournal
              /\ journal.to = v /\ ~journal.first
              /\ journal.step \in {"park", "restore"}

\* The set's folder exists (an empty one is left only inside a switch).
SetExists(v) == \/ HasParkedInfo(v) \/ Emptied(v)
                \/ parkedState[v] # NoState \/ aside[v] # {}

Returning(v) == HasParkedInfo(v) /\ setFile[v] # "seeded"

NoFolders == [d \in Dirs |-> NoFolder]

\* The next folder made for version v under the name d.
Fresh(v, d) == [ver |-> v, dir |-> d, n |-> made[v][d] + 1]
Torn(v, d) == [ver |-> v, dir |-> d, n |-> 0]

Count(v, d) == [made EXCEPT ![v][d] = @ + 1]

\* PARKED_DIRS in their order.
Turn == IF "mods" \in todo THEN "mods" ELSE "config"

(***************************************************************************)
(* split_states and PackState::switch_version: the records of the set that *)
(* is left, and those the target starts or continues with.                 *)
(***************************************************************************)
ParkedSplit(from) ==
    IF activeState = NoState
    THEN NoState
    ELSE [ver |-> from, dirs |-> activeState.dirs, shared |-> FALSE]

\* (A mutant: a returning set's records come back without the shared ones.)
ActiveSplitUnshared(to, returning) ==
    LET back == IF returning THEN parkedState[to] ELSE NoState
    IN  IF back # NoState THEN [back EXCEPT !.ver = to]
        ELSE IF activeState = NoState THEN NoState
        ELSE [activeState EXCEPT !.ver = to, !.dirs = @ \cap Copied]

ActiveSplit(to, returning) ==
    LET back == IF returning THEN parkedState[to] ELSE NoState
        own == IF back # NoState THEN back.dirs
               ELSE IF returning THEN {} ELSE activeState.dirs \cap Copied
    IN  IF activeState # NoState
        THEN [ver |-> to, dirs |-> own, shared |-> activeState.shared]
        ELSE IF back # NoState THEN [back EXCEPT !.ver = to] ELSE NoState

NewJournal(from, to) ==
    [from |-> from, to |-> to, step |-> "park", first |-> ~Returning(to),
     parkedState |-> ParkedSplit(from),
     activeState |-> ActiveSplit(to, Returning(to))]

-----------------------------------------------------------------------------

Init ==
    /\ active = [d \in Dirs |-> NoFolder]
    /\ parked = [v \in Versions |-> [d \in Dirs |-> NoFolder]]
    /\ aside = [v \in Versions |-> {}]
    /\ staging = NoFolder
    /\ activeState = NoState
    /\ parkedState = [v \in Versions |-> NoState]
    /\ activeInfo = NoVersion
    /\ setFile = [v \in Versions |-> "none"]
    /\ journal = NoJournal
    /\ mc \in Versions
    /\ trash = {}
    /\ pc = "idle" /\ todo = {} /\ goal = NoVersion
    /\ made = [v \in Versions |-> [d \in Dirs |-> 0]]
    /\ interrupts = 0 /\ switches = 0
    /\ awaited = NoFolders

Goto(label, dirs) == pc' = label /\ todo' = dirs /\ UNCHANGED goal

\* The launcher is between operations and no switch is unfinished.
AtRest == pc = "idle" /\ journal = NoJournal

(***************************************************************************)
(* Outside a switch: the game and the pack sync fill the active set, the   *)
(* launcher notes that it was played, mods are prepared for a version.     *)
(***************************************************************************)
MakeFolder(d) ==
    /\ AtRest
    /\ active[d] = NoFolder
    /\ made[mc][d] < MaxMade
    /\ active' = [active EXCEPT ![d] = Fresh(mc, d)]
    /\ made' = Count(mc, d)
    /\ UNCHANGED <<parked, aside, staging, recordVars, journal, mc, trash,
                   runVars, boundVars>>

SyncPack ==
    /\ AtRest
    /\ activeState' = [ver |-> mc, shared |-> TRUE,
                       dirs |-> {d \in Dirs : active[d] # NoFolder}]
    /\ UNCHANGED <<folderVars, parkedState, activeInfo, setFile, journal, mc,
                   trash, runVars, boundVars>>

RecordPlayed ==
    /\ AtRest
    /\ activeInfo' = mc
    /\ UNCHANGED <<folderVars, activeState, parkedState, setFile, journal, mc,
                   trash, runVars, boundVars>>

Prepare(v) ==
    /\ AtRest
    /\ v # mc
    /\ made[v]["mods"] < MaxMade
    /\ setFile' = [setFile EXCEPT ![v] = IF HasParkedInfo(v) THEN @ ELSE "seeded"]
    /\ pc' = "prepare" /\ goal' = v /\ UNCHANGED todo
    /\ UNCHANGED <<folderVars, activeState, parkedState, activeInfo, journal,
                   mc, trash, boundVars>>

PrepareMods ==
    /\ pc = "prepare"
    /\ IF parked[goal]["mods"] = NoFolder
       THEN /\ parked' = [parked EXCEPT ![goal]["mods"] = Fresh(goal, "mods")]
            /\ made' = Count(goal, "mods")
       ELSE UNCHANGED <<parked, made>>
    /\ pc' = "idle" /\ goal' = NoVersion /\ UNCHANGED todo
    /\ UNCHANGED <<active, aside, staging, recordVars, journal, mc, trash,
                   boundVars>>

(***************************************************************************)
(* begin: set leftovers of the version being left aside, write the journal *)
(***************************************************************************)
BeginSwitch(v) ==
    /\ AtRest
    /\ v # mc
    /\ \A d \in Dirs : parked[v][d] # NoFolder \/ made[v][d] < MaxMade
    /\ switches < MaxSwitches /\ switches' = switches + 1
    /\ pc' = "begin" /\ todo' = Dirs /\ goal' = v
    /\ UNCHANGED <<folderVars, recordVars, journal, mc, trash, interrupts, awaited>>

SetLeftoverAside ==
    /\ pc = "begin" /\ todo # {}
    /\ LET left == parked[mc][Turn]
       IN  IF left = NoFolder
           THEN UNCHANGED <<parked, aside>>
           ELSE /\ parked' = [parked EXCEPT ![mc][Turn] = NoFolder]
                /\ aside' = [aside EXCEPT ![mc] = @ \cup {left}]
    /\ Goto("begin", todo \ {Turn})
    /\ UNCHANGED <<active, staging, made, recordVars, journal, mc, trash,
                   boundVars>>

WriteJournal ==
    /\ pc = "begin" /\ todo = {}
    /\ journal' = NewJournal(mc, goal)
    /\ pc' = "park" /\ todo' = Dirs /\ goal' = NoVersion
    /\ awaited' = parked[goal]
    /\ UNCHANGED <<folderVars, recordVars, mc, trash, interrupts, switches>>

(***************************************************************************)
(* park: the active folders move into the leaving set's folder.            *)
(***************************************************************************)
ParkFolder ==
    /\ pc = "park" /\ todo # {}
    /\ IF active[Turn] # NoFolder /\ parked[journal.from][Turn] = NoFolder
       THEN /\ parked' = [parked EXCEPT ![journal.from][Turn] = active[Turn]]
            /\ active' = [active EXCEPT ![Turn] = NoFolder]
       ELSE UNCHANGED <<active, parked>>
    /\ Goto("park", todo \ {Turn})
    /\ UNCHANGED <<aside, staging, made, recordVars, journal, mc, trash,
                   boundVars>>

(***************************************************************************)
(* restore: the target's folders come in, or are started.                  *)
(***************************************************************************)
\* (A mutant: config/ is copied on every visit.)
AlwaysCopiesIn(d) == d \in Copied

CopiesIn(d) == journal.first /\ d \in Copied
ComesIn(d) == ~CopiesIn(d) /\ parked[journal.to][d] # NoFolder
\* (A mutant: a config/ that is there already is copied over.)
StartsCopyOver(d) == CopiesIn(d) /\ parked[journal.from][d] # NoFolder

StartsCopy(d) == /\ CopiesIn(d)
                 /\ active[d] = NoFolder
                 /\ parked[journal.from][d] # NoFolder
StartsEmpty(d) == /\ ~CopiesIn(d) /\ ~ComesIn(d)
                  /\ d = "mods" /\ active[d] = NoFolder

Restoring == pc = "restore" /\ todo # {}

\* A folder in the way moves aside into the leaving set's folder.
ClearTheWay ==
    /\ Restoring /\ ComesIn(Turn) /\ active[Turn] # NoFolder
    /\ aside' = [aside EXCEPT ![journal.from] = @ \cup {active[Turn]}]
    /\ active' = [active EXCEPT ![Turn] = NoFolder]
    /\ UNCHANGED <<parked, staging, made, recordVars, journal, mc, trash,
                   runVars, boundVars>>

BringIn ==
    /\ Restoring /\ ComesIn(Turn) /\ active[Turn] = NoFolder
    /\ active' = [active EXCEPT ![Turn] = parked[journal.to][Turn]]
    /\ parked' = [parked EXCEPT ![journal.to][Turn] = NoFolder]
    /\ Goto("restore", todo \ {Turn})
    /\ UNCHANGED <<aside, staging, made, recordVars, journal, mc, trash,
                   boundVars>>

\* (A mutant: what an earlier attempt left in the staging folder is used.)
StartCopyUsesStaging ==
    /\ Restoring /\ StartsCopy(Turn)
    /\ IF staging = NoFolder
       THEN staging' = Torn(journal.to, Turn) /\ Goto("copying", todo)
       ELSE UNCHANGED staging /\ Goto("copied", todo)
    /\ UNCHANGED <<active, parked, aside, made, recordVars, journal, mc, trash,
                   boundVars>>

\* Whatever an earlier attempt left in the staging folder is removed first.
StartCopy ==
    /\ Restoring /\ StartsCopy(Turn)
    /\ staging' = Torn(journal.to, Turn)
    /\ Goto("copying", todo)
    /\ UNCHANGED <<active, parked, aside, made, recordVars, journal, mc, trash,
                   boundVars>>

FinishCopy ==
    /\ pc = "copying"
    /\ staging' = Fresh(journal.to, Turn)
    /\ Goto("copied", todo)
    /\ UNCHANGED <<active, parked, aside, made, recordVars, journal, mc, trash,
                   boundVars>>

PlaceCopy ==
    /\ pc = "copied"
    /\ active' = [active EXCEPT ![Turn] = staging]
    /\ staging' = NoFolder
    /\ made' = Count(journal.to, Turn)
    /\ Goto("restore", todo \ {Turn})
    /\ UNCHANGED <<parked, aside, recordVars, journal, mc, trash, boundVars>>

StartEmpty ==
    /\ Restoring /\ StartsEmpty(Turn)
    /\ active' = [active EXCEPT ![Turn] = Fresh(journal.to, Turn)]
    /\ made' = Count(journal.to, Turn)
    /\ Goto("restore", todo \ {Turn})
    /\ UNCHANGED <<parked, aside, staging, recordVars, journal, mc, trash,
                   boundVars>>

NothingToRestore ==
    /\ Restoring
    /\ ~ComesIn(Turn) /\ ~StartsCopy(Turn) /\ ~StartsEmpty(Turn)
    /\ Goto("restore", todo \ {Turn})
    /\ UNCHANGED <<folderVars, recordVars, journal, mc, trash, boundVars>>

(***************************************************************************)
(* write_states: records and metadata of both sets, then the target's      *)
(* parked files go (remove_dir takes its folder when that leaves it empty) *)
(***************************************************************************)
\* (A mutant: the records are split again instead of taken from the journal.)
WriteParkedStateAnew ==
    /\ pc = "states"
    /\ parkedState' = [parkedState EXCEPT ![journal.from] = ParkedSplit(journal.from)]
    /\ Goto("parkedInfo", {})
    /\ UNCHANGED <<folderVars, activeState, activeInfo, setFile, journal, mc,
                   trash, boundVars>>

WriteParkedState ==
    /\ pc = "states"
    /\ parkedState' = [parkedState EXCEPT ![journal.from] = journal.parkedState]
    /\ Goto("parkedInfo", {})
    /\ UNCHANGED <<folderVars, activeState, activeInfo, setFile, journal, mc,
                   trash, boundVars>>

WriteParkedInfo ==
    /\ pc = "parkedInfo"
    /\ setFile' = [setFile EXCEPT ![journal.from] = "parked"]
    /\ Goto("activeState", {})
    /\ UNCHANGED <<folderVars, activeState, parkedState, activeInfo, journal,
                   mc, trash, boundVars>>

WriteActiveState ==
    /\ pc = "activeState"
    /\ activeState' = journal.activeState
    /\ Goto("activeInfo", {})
    /\ UNCHANGED <<folderVars, parkedState, activeInfo, setFile, journal, mc,
                   trash, boundVars>>

WriteActiveInfo ==
    /\ pc = "activeInfo"
    /\ activeInfo' = journal.to
    /\ Goto("dropState", {})
    /\ UNCHANGED <<folderVars, activeState, parkedState, setFile, journal, mc,
                   trash, boundVars>>

DropTargetState ==
    /\ pc = "dropState"
    /\ parkedState' = [parkedState EXCEPT ![journal.to] = NoState]
    /\ Goto("dropInfo", {})
    /\ UNCHANGED <<folderVars, activeState, activeInfo, setFile, journal, mc,
                   trash, boundVars>>

DropTargetInfo ==
    /\ pc = "dropInfo"
    /\ setFile' = [setFile EXCEPT ![journal.to] = "none"]
    /\ Goto("written", {})
    /\ UNCHANGED <<folderVars, activeState, parkedState, activeInfo, journal,
                   mc, trash, boundVars>>

(***************************************************************************)
(* run: a step that is complete moves the journal on.                      *)
(***************************************************************************)
Advance(from, step) ==
    /\ pc = from /\ todo = {}
    /\ journal' = [journal EXCEPT !.step = step]
    /\ Goto(step, IF step = "restore" THEN Dirs ELSE {})
    /\ UNCHANGED <<folderVars, recordVars, mc, trash, boundVars>>

SaveStep ==
    \/ Advance("park", "restore")
    \/ Advance("restore", "states")
    \/ Advance("written", "finalize")

\* finalize: the instance takes the version, then finish removes the journal.
UpdateInstance ==
    /\ pc = "finalize"
    /\ mc' = journal.to
    /\ Goto("finish", {})
    /\ UNCHANGED <<folderVars, recordVars, journal, trash, boundVars>>

Finish ==
    /\ pc = "finish"
    /\ journal' = NoJournal
    /\ Goto("idle", {})
    /\ awaited' = NoFolders
    /\ UNCHANGED <<folderVars, recordVars, mc, trash, interrupts, switches>>

(***************************************************************************)
(* A crash, a power cut or an I/O error ends the running operation where   *)
(* it is; resume goes on at the journal's step.                            *)
(***************************************************************************)
Interrupt ==
    /\ pc # "idle" /\ interrupts < MaxInterrupts
    /\ interrupts' = interrupts + 1
    /\ pc' = "idle" /\ todo' = {} /\ goal' = NoVersion
    /\ UNCHANGED <<folderVars, recordVars, journal, mc, trash, switches, awaited>>

\* (A mutant: the steps already done are done again.)
ResumeFromPark ==
    /\ pc = "idle" /\ journal # NoJournal
    /\ Goto("park", Dirs)
    /\ UNCHANGED <<folderVars, recordVars, journal, mc, trash, boundVars>>

\* (A mutant: a switch whose files are in place is not looked at again.)
ResumeUnlessWritten ==
    /\ pc = "idle" /\ journal # NoJournal /\ journal.step # "finalize"
    /\ Goto(journal.step, IF journal.step \in {"park", "restore"} THEN Dirs ELSE {})
    /\ UNCHANGED <<folderVars, recordVars, journal, mc, trash, boundVars>>

Resume ==
    /\ pc = "idle" /\ journal # NoJournal
    /\ Goto(journal.step, IF journal.step \in {"park", "restore"} THEN Dirs ELSE {})
    /\ UNCHANGED <<folderVars, recordVars, journal, mc, trash, boundVars>>

(***************************************************************************)
(* cleanup_remove_sets and the two commands that put a set back.           *)
(***************************************************************************)
Removable(v) ==
    /\ journal # NoJournal => v \notin {journal.from, journal.to}
    /\ activeInfo # v
    /\ SetExists(v)

Stale(v) == journal = NoJournal /\ activeInfo # v /\ HasParkedInfo(v)

RemoveSet(v) ==
    /\ pc = "idle"
    /\ v # mc /\ Stale(v) /\ Removable(v)
    /\ trash' = trash \cup {[ver |-> v, dirs |-> parked[v], aside |-> aside[v],
                             file |-> setFile[v], state |-> parkedState[v]]}
    /\ parked' = [parked EXCEPT ![v] = [d \in Dirs |-> NoFolder]]
    /\ aside' = [aside EXCEPT ![v] = {}]
    /\ setFile' = [setFile EXCEPT ![v] = "none"]
    /\ parkedState' = [parkedState EXCEPT ![v] = NoState]
    /\ UNCHANGED <<active, staging, made, activeState, activeInfo, journal, mc,
                   runVars, boundVars>>

\* (A mutant: only folders of the same name keep a set in the trash.)
PutSetBackUnlessFolders(t) ==
    /\ pc = "idle"
    /\ t.ver # mc /\ ~HasFolders(t.ver)
    /\ trash' = trash \ {t}
    /\ parked' = [parked EXCEPT ![t.ver] = t.dirs]
    /\ aside' = [aside EXCEPT ![t.ver] = t.aside]
    /\ setFile' = [setFile EXCEPT ![t.ver] = t.file]
    /\ parkedState' = [parkedState EXCEPT ![t.ver] = t.state]
    /\ UNCHANGED <<active, staging, made, activeState, activeInfo, journal, mc,
                   runVars, boundVars>>

PutSetBack(t) ==
    /\ pc = "idle"
    /\ t.ver # mc /\ ~SetExists(t.ver)
    /\ trash' = trash \ {t}
    /\ parked' = [parked EXCEPT ![t.ver] = t.dirs]
    /\ aside' = [aside EXCEPT ![t.ver] = t.aside]
    /\ setFile' = [setFile EXCEPT ![t.ver] = t.file]
    /\ parkedState' = [parkedState EXCEPT ![t.ver] = t.state]
    /\ UNCHANGED <<active, staging, made, activeState, activeInfo, journal, mc,
                   runVars, boundVars>>

\* cleanup_restore_sets ("Geri al") does not look for an unfinished switch.
UndoCleanup == \E t \in trash : PutSetBack(t)

\* instance_restore_trashed_set finishes it first.
RestoreTrashedSet == journal = NoJournal /\ \E t \in trash : PutSetBack(t)

\* pending: a journal that cannot be read (a damaged disk) is set aside.
SetJournalAside ==
    /\ pc = "idle" /\ journal # NoJournal
    /\ journal' = NoJournal
    /\ awaited' = NoFolders
    /\ UNCHANGED <<folderVars, recordVars, mc, trash, runVars, interrupts, switches>>

-----------------------------------------------------------------------------

Run == \/ SetLeftoverAside \/ WriteJournal
       \/ ParkFolder
       \/ ClearTheWay \/ BringIn \/ StartCopy \/ FinishCopy \/ PlaceCopy
       \/ StartEmpty \/ NothingToRestore
       \/ WriteParkedState \/ WriteParkedInfo \/ WriteActiveState
       \/ WriteActiveInfo \/ DropTargetState \/ DropTargetInfo
       \/ SaveStep \/ UpdateInstance \/ Finish

Use == \/ \E d \in Dirs : MakeFolder(d)
       \/ SyncPack \/ RecordPlayed
       \/ \E v \in Versions : Prepare(v) \/ BeginSwitch(v) \/ RemoveSet(v)
       \/ PrepareMods
       \/ RestoreTrashedSet

OrderlyNext == Use \/ Run \/ Interrupt \/ Resume

\* "Geri al" puts a set back whenever no operation runs, also between an
\* interrupted switch and its resume.
Next == OrderlyNext \/ UndoCleanup

Spec == Init /\ [][Next]_vars

\* The behaviours in which no set is put back into an unfinished switch.
OrderlySpec == Init /\ [][OrderlyNext]_vars

\* Every launcher start and every command resumes a pending switch; a running
\* one goes on.
Fairness == WF_vars(Run) /\ WF_vars(Resume)

FairSpec == OrderlySpec /\ Fairness

\* Also with journals a damaged disk made unreadable.
AnyNext == Next \/ SetJournalAside

AnySpec == Init /\ [][AnyNext]_vars

-----------------------------------------------------------------------------

PCs == Steps \cup {"idle", "prepare", "begin", "copying", "copied",
                   "parkedInfo", "activeState", "activeInfo", "dropState",
                   "dropInfo", "written", "finish"}

\* Every variable has the type of the file or field it stands for.
TypeOK ==
    /\ active \in [Dirs -> MaybeFolder]
    /\ parked \in [Versions -> [Dirs -> MaybeFolder]]
    /\ aside \in [Versions -> SUBSET Folder]
    /\ staging \in MaybeFolder
    /\ activeState \in MaybeState
    /\ parkedState \in [Versions -> MaybeState]
    /\ activeInfo \in Versions \cup {NoVersion}
    /\ setFile \in [Versions -> {"none", "seeded", "parked"}]
    /\ journal \in Journal \cup {NoJournal}
    /\ mc \in Versions
    /\ trash \in SUBSET TrashItem
    /\ pc \in PCs
    /\ todo \in SUBSET Dirs
    /\ goal \in Versions \cup {NoVersion}
    /\ pc \in {"begin", "prepare"} => goal \in Versions
    /\ pc \notin {"idle", "begin", "prepare"} => journal # NoJournal
    /\ made \in [Versions -> [Dirs -> Nat]]
    /\ interrupts \in Nat /\ switches \in Nat
    /\ awaited \in [Dirs -> MaybeFolder]

-----------------------------------------------------------------------------
(***************************************************************************)
(* Safety.                                                                 *)
(***************************************************************************)

\* Somewhere the player can still find it: in place, parked, aside, in the trash.
Kept(f) ==
    \/ \E d \in Dirs : active[d] = f
    \/ \E v \in Versions : f \in aside[v] \/ \E d \in Dirs : parked[v][d] = f
    \/ \E t \in trash : f \in t.aside \/ \E d \in Dirs : t.dirs[d] = f

\* "Nothing is deleted on the way": a folder that was ever made is still kept
\* somewhere, whatever was interrupted, put back or damaged (sets.rs, module
\* comment and pending()).
NothingLost ==
    \A v \in Versions, d \in Dirs : \A i \in 1..made[v][d] :
        Kept([ver |-> v, dir |-> d, n |-> i])

\* A version's folders are only ever found in its own set: whenever no switch
\* is unfinished the active set is the instance version's, whole, and it is
\* not parked at the same time (park, restore and their repetition).  It holds
\* under OrderlySpec and not under Spec: a set put back into an unfinished
\* switch may be the one being left or gone to.
EachToItsOwn ==
    journal = NoJournal =>
        \A d \in Dirs :
            /\ active[d] # NoFolder =>
                 active[d].ver = mc /\ active[d].dir = d /\ active[d].n > 0
            /\ \A v \in Versions : parked[v][d] # NoFolder =>
                 v # mc /\ parked[v][d].ver = v /\ parked[v][d].dir = d

\* When the files of a switch are in place the promise of the module comment
\* holds: mods/ is there, config/ was copied on a first visit when the leaving
\* set has one, nothing of the target stays parked, and the metadata says so
\* (under OrderlySpec: no set was put back into the switch); and TypeOK.
SwitchComplete ==
    TypeOK /\ ((journal # NoJournal /\ journal.step = "finalize") =>
        /\ active["mods"] # NoFolder
        /\ journal.first =>
             (active["config"] # NoFolder <=> parked[journal.from]["config"] # NoFolder)
        /\ ~SetExists(journal.to)
        /\ activeInfo = journal.to
        /\ setFile[journal.from] = "parked")

Describes(state, v, dirs) ==
    state # NoState => /\ state.ver = v
                       /\ \A d \in state.dirs : dirs[d] # NoFolder

\* The pack's records are about the set they lie beside: with no switch
\* unfinished, the active records name the instance's version and the folders
\* they have files in are there, and so for every parked set (write_states,
\* PackState::switch_version).  The next pack sync deletes by these records.
\* Under OrderlySpec, like EachToItsOwn.
RecordsMatchSets ==
    journal = NoJournal =>
        /\ Describes(activeState, mc, active)
        /\ \A v \in Versions : Describes(parkedState[v], v, parked[v])

\* Records of files all versions share, wherever the switch holds them.
SharedRecorded ==
    LET state == IF journal = NoJournal THEN activeState ELSE journal.activeState
    IN  state # NoState /\ state.shared

\* The records of shared files (resource packs) follow the active set through
\* every switch: no step of OrderlySpec ever forgets them.
SharedRecordsKept == [][SharedRecorded => SharedRecorded']_vars

\* "Brings the target's set back exactly" (sets.rs, module comment): the
\* folders that the target's set held when the switch wrote its journal are,
\* each of them, in the game directory when the switch ends; whatever was cut
\* short, put back from the trash meanwhile, or damaged before.
SetComesBackWhole ==
    [][(journal # NoJournal /\ journal' = NoJournal /\ mc = journal.to) =>
          \A d \in Dirs : awaited[d] # NoFolder => active[d] = awaited[d]]_vars

\* A switch that wrote its journal is finished, however often it is cut short.
SwitchFinishes == (journal # NoJournal) ~> (journal = NoJournal)

(***************************************************************************)
(* Refinement: the folders of a version's set, wherever they are.          *)
(***************************************************************************)
Home(v, d) ==
    IF parked[v][d] # NoFolder THEN parked[v][d]
    ELSE IF active[d] # NoFolder /\ active[d].ver = v THEN active[d]
    ELSE NoFolder

Promise == INSTANCE VersionSetsPromise WITH
    current <- mc,
    home <- [v \in Versions |-> [d \in Dirs |-> Home(v, d)]],
    bin <- {<<t.ver, t.dirs>> : t \in trash},
    used <- UNION {{[ver |-> v, dir |-> d, n |-> i] : i \in 1..made[v][d]} :
                     v \in Versions, d \in Dirs}

\* Every step of the switch machinery is a step of the promise or none: no
\* interruption makes a version's set change, vanish or show up elsewhere
\* (under OrderlySpec: a set put back into a switch takes its part in it).
KeepsPromise == Promise!Spec
=============================================================================
