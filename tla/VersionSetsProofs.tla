------------------------- MODULE VersionSetsProofs -------------------------
(***************************************************************************)
(* Proofs about VersionSets, for every set of versions and every bound.    *)
(***************************************************************************)
EXTENDS VersionSets, TLAPS

LEMMA EntryType ==
    ASSUME NEW S, NEW f \in [Versions -> [Dirs -> S]],
           NEW v \in Versions, NEW d \in Dirs, NEW x \in S
    PROVE  [f EXCEPT ![v][d] = x] \in [Versions -> [Dirs -> S]]
OBVIOUS

LEMMA EntryValue ==
    ASSUME NEW S, NEW f \in [Versions -> [Dirs -> S]],
           NEW v \in Versions, NEW d \in Dirs, NEW x,
           NEW w \in Versions, NEW e \in Dirs
    PROVE  /\ w = v /\ e = d => [f EXCEPT ![v][d] = x][w][e] = x
           /\ w # v \/ e # d => [f EXCEPT ![v][d] = x][w][e] = f[w][e]
OBVIOUS

LEMMA SplitTypes ==
    ASSUME TypeOK, NEW v \in Versions, NEW r \in BOOLEAN
    PROVE  ParkedSplit(v) \in MaybeState /\ ActiveSplit(v, r) \in MaybeState
<1>1. ParkedSplit(v) \in MaybeState
    BY DEF TypeOK, ParkedSplit, MaybeState, PackState, Dirs
<1>2. ActiveSplit(v, r) \in MaybeState
    <2> DEFINE back == IF r THEN parkedState[v] ELSE NoState
    <2>1. back \in MaybeState
        BY DEF TypeOK, MaybeState
    <2>2. back # NoState => /\ back.dirs \in SUBSET Dirs
                            /\ [back EXCEPT !.ver = v] \in PackState
        BY <2>1 DEF MaybeState, PackState
    <2>3. activeState # NoState => /\ activeState.dirs \in SUBSET Dirs
                                   /\ activeState.shared \in BOOLEAN
        BY DEF TypeOK, MaybeState, PackState
    <2> QED BY <2>1, <2>2, <2>3 DEF ActiveSplit, MaybeState, PackState
<1> QED BY <1>1, <1>2

LEMMA FolderTypes ==
    ASSUME TypeOK, NEW v \in Versions, NEW d \in Dirs
    PROVE  /\ Fresh(v, d) \in Folder /\ Torn(v, d) \in Folder
           /\ Count(v, d) \in [Versions -> [Dirs -> Nat]]
BY DEF TypeOK, Fresh, Torn, Count, Folder

LEMMA TypeStep == TypeOK /\ [AnyNext]_vars => TypeOK'
<1> SUFFICES ASSUME TypeOK, [AnyNext]_vars PROVE TypeOK'
    OBVIOUS
<1> USE DEF folderVars, recordVars, runVars, boundVars, PCs, Steps
<1>1. ASSUME NEW d \in Dirs, MakeFolder(d) PROVE TypeOK'
    BY <1>1, FolderTypes DEF TypeOK, MakeFolder, AtRest, MaybeFolder
<1>2. CASE SyncPack
    BY <1>2 DEF TypeOK, SyncPack, AtRest, MaybeState, PackState
<1>3. CASE RecordPlayed
    BY <1>3 DEF TypeOK, RecordPlayed, AtRest
<1>4. ASSUME NEW v \in Versions, Prepare(v) PROVE TypeOK'
    BY <1>4 DEF TypeOK, Prepare, AtRest
<1>5. CASE PrepareMods
    <2>1. goal \in Versions
        BY <1>5 DEF TypeOK, PrepareMods
    <2>2. Fresh(goal, "mods") \in Folder /\ Count(goal, "mods") \in [Versions -> [Dirs -> Nat]]
        BY <2>1, FolderTypes DEF Dirs
    <2>3. parked' \in [Versions -> [Dirs -> MaybeFolder]]
        <3>1. /\ parked \in [Versions -> [Dirs -> MaybeFolder]] /\ "mods" \in Dirs
              /\ Fresh(goal, "mods") \in MaybeFolder
            BY <2>2 DEF TypeOK, MaybeFolder, Dirs
        <3>2. [parked EXCEPT ![goal]["mods"] = Fresh(goal, "mods")]
                \in [Versions -> [Dirs -> MaybeFolder]]
            BY ONLY <2>1, <3>1, EntryType
        <3> QED BY <1>5, <3>1, <3>2 DEF PrepareMods
    <2>4. made' \in [Versions -> [Dirs -> Nat]]
        BY <1>5, <2>2 DEF TypeOK, PrepareMods
    <2> QED BY <1>5, <2>3, <2>4 DEF TypeOK, PrepareMods
<1>6. ASSUME NEW v \in Versions, BeginSwitch(v) PROVE TypeOK'
    BY <1>6 DEF TypeOK, BeginSwitch, AtRest
<1>7. CASE SetLeftoverAside
    <2>1. Turn \in Dirs
        BY DEF Turn, Dirs
    <2>2. parked[mc][Turn] \in MaybeFolder
        BY <2>1 DEF TypeOK
    <2>3. parked' \in [Versions -> [Dirs -> MaybeFolder]]
        <3>1. parked' = parked \/ parked' = [parked EXCEPT ![mc][Turn] = NoFolder]
            BY <1>7 DEF SetLeftoverAside
        <3>2. /\ parked \in [Versions -> [Dirs -> MaybeFolder]] /\ mc \in Versions
              /\ NoFolder \in MaybeFolder
            BY DEF TypeOK, MaybeFolder
        <3>3. [parked EXCEPT ![mc][Turn] = NoFolder] \in [Versions -> [Dirs -> MaybeFolder]]
            BY ONLY <2>1, <3>2, EntryType
        <3> QED BY <3>1, <3>2, <3>3
    <2>4. aside' \in [Versions -> SUBSET Folder]
        BY <1>7, <2>2 DEF TypeOK, SetLeftoverAside, MaybeFolder
    <2> QED BY <1>7, <2>3, <2>4 DEF TypeOK, SetLeftoverAside, Goto
<1>8. CASE WriteJournal
    <2>1. goal \in Versions /\ mc \in Versions /\ Returning(goal) \in BOOLEAN
        BY <1>8 DEF TypeOK, WriteJournal, Returning, HasParkedInfo, HasFolders
    <2>2. /\ ParkedSplit(mc) \in MaybeState
          /\ ActiveSplit(goal, Returning(goal)) \in MaybeState
        BY <2>1, SplitTypes
    <2>3. journal' \in Journal
        BY <1>8, <2>1, <2>2 DEF WriteJournal, NewJournal, Journal
    <2> QED BY <1>8, <2>3, NoneAssumption DEF TypeOK, WriteJournal
<1>9. CASE ParkFolder
    BY <1>9 DEF TypeOK, ParkFolder, Goto, Turn, Journal, Dirs, MaybeFolder
<1>10. CASE ClearTheWay
    BY <1>10 DEF TypeOK, ClearTheWay, Restoring, Turn, Journal, Dirs, MaybeFolder
<1>11. CASE BringIn
    BY <1>11 DEF TypeOK, BringIn, Restoring, Goto, Turn, Journal, Dirs, MaybeFolder
<1>12. CASE StartCopy
    BY <1>12, FolderTypes DEF TypeOK, StartCopy, Restoring, Goto, Turn, Journal, Dirs,
                 MaybeFolder
<1>13. CASE FinishCopy
    BY <1>13, FolderTypes DEF TypeOK, FinishCopy, Goto, Turn, Journal, Dirs, MaybeFolder
<1>14. CASE PlaceCopy
    BY <1>14, FolderTypes DEF TypeOK, PlaceCopy, Goto, Turn, Journal, Dirs, MaybeFolder
<1>15. CASE StartEmpty
    BY <1>15, FolderTypes DEF TypeOK, StartEmpty, Restoring, Goto, Turn, Journal, Dirs,
                 MaybeFolder
<1>16. CASE NothingToRestore
    BY <1>16 DEF TypeOK, NothingToRestore, Restoring, Goto, Turn, Dirs
<1>17. CASE WriteParkedState
    BY <1>17 DEF TypeOK, WriteParkedState, Goto, Journal
<1>18. CASE WriteParkedInfo
    BY <1>18 DEF TypeOK, WriteParkedInfo, Goto, Journal
<1>19. CASE WriteActiveState
    BY <1>19 DEF TypeOK, WriteActiveState, Goto, Journal
<1>20. CASE WriteActiveInfo
    BY <1>20 DEF TypeOK, WriteActiveInfo, Goto, Journal
<1>21. CASE DropTargetState
    BY <1>21 DEF TypeOK, DropTargetState, Goto, Journal, MaybeState
<1>22. CASE DropTargetInfo
    BY <1>22 DEF TypeOK, DropTargetInfo, Goto, Journal
<1>23. CASE SaveStep
    <2>1. PICK s \in Steps : /\ journal' = [journal EXCEPT !.step = s]
                             /\ pc' = s /\ todo' \in {{}, Dirs}
        BY <1>23 DEF SaveStep, Advance, Goto
    <2>2. journal \in Journal
        BY <1>23 DEF TypeOK, SaveStep, Advance
    <2>3. journal' \in Journal
        BY <2>1, <2>2 DEF Journal
    <2>4. UNCHANGED <<active, parked, aside, staging, made, activeState,
                      parkedState, activeInfo, setFile, mc, trash, goal,
                      interrupts, switches, awaited>>
        BY <1>23 DEF SaveStep, Advance, Goto
    <2> QED BY <2>1, <2>3, <2>4, NoneAssumption DEF TypeOK
<1>24. CASE UpdateInstance
    BY <1>24 DEF TypeOK, UpdateInstance, Goto, Journal
<1>25. CASE Finish
    BY <1>25 DEF TypeOK, Finish, Goto, NoFolders, MaybeFolder
<1>26. CASE Interrupt
    BY <1>26 DEF TypeOK, Interrupt
<1>27. CASE Resume
    BY <1>27 DEF TypeOK, Resume, Goto, Journal
<1>28. ASSUME NEW v \in Versions, RemoveSet(v) PROVE TypeOK'
    <2>1. [ver |-> v, dirs |-> parked[v], aside |-> aside[v],
           file |-> setFile[v], state |-> parkedState[v]] \in TrashItem
        BY <1>28 DEF TypeOK, TrashItem
    <2>2. trash' \in SUBSET TrashItem
        BY <1>28, <2>1 DEF TypeOK, RemoveSet
    <2>3. parked' \in [Versions -> [Dirs -> MaybeFolder]]
        BY <1>28 DEF TypeOK, RemoveSet, MaybeFolder
    <2>4. parkedState' \in [Versions -> MaybeState]
        BY <1>28 DEF TypeOK, RemoveSet, MaybeState
    <2>5. aside' \in [Versions -> SUBSET Folder]
        BY <1>28 DEF TypeOK, RemoveSet
    <2>6. setFile' \in [Versions -> {"none", "seeded", "parked"}]
        BY <1>28 DEF TypeOK, RemoveSet
    <2>7. UNCHANGED <<active, staging, made, activeState, activeInfo, journal,
                      mc, pc, todo, goal, interrupts, switches, awaited>>
        BY <1>28 DEF RemoveSet
    <2> QED BY <2>2, <2>3, <2>4, <2>5, <2>6, <2>7 DEF TypeOK
<1>29. ASSUME NEW t \in trash, PutSetBack(t) PROVE TypeOK'
    BY <1>29 DEF TypeOK, PutSetBack, TrashItem
<1>30. CASE SetJournalAside
    BY <1>30 DEF TypeOK, SetJournalAside, NoFolders, MaybeFolder
<1>31. CASE UNCHANGED vars
    BY <1>31 DEF TypeOK, vars
<1> QED
    BY <1>1, <1>2, <1>3, <1>4, <1>5, <1>6, <1>7, <1>8, <1>9, <1>10, <1>11, <1>12,
       <1>13, <1>14, <1>15, <1>16, <1>17, <1>18, <1>19, <1>20, <1>21, <1>22,
       <1>23, <1>24, <1>25, <1>26, <1>27, <1>28, <1>29, <1>30, <1>31
    DEF AnyNext, Next, OrderlyNext, Use, Run, UndoCleanup, RestoreTrashedSet

\* Every variable always has its type, whatever is interrupted, put back or
\* damaged.
THEOREM TypeCorrect == AnySpec => []TypeOK
<1>1. Init => TypeOK
    BY NoneAssumption DEF Init, NoFolders, TypeOK, MaybeFolder, MaybeState, PCs
<1> QED BY <1>1, TypeStep, PTL DEF AnySpec

(***************************************************************************)
(* Nothing is lost.  No step writes over a folder: a rename only goes      *)
(* where nothing is.  For the copy of config/ that needs to be known over  *)
(* three steps, which is what the strengthening says.                      *)
(***************************************************************************)
CopyUnderWay ==
    pc \in {"copying", "copied"} =>
        /\ todo # {} /\ active[Turn] = NoFolder
        /\ pc = "copied" => staging = Fresh(journal.to, Turn)

LostInv == TypeOK /\ CopyUnderWay /\ NothingLost

LEMMA TurnInDirs == Turn \in Dirs
BY DEF Turn, Dirs

LEMMA CopyStep == TypeOK /\ CopyUnderWay /\ [AnyNext]_vars => CopyUnderWay'
<1> SUFFICES ASSUME TypeOK, CopyUnderWay, [AnyNext]_vars PROVE CopyUnderWay'
    OBVIOUS
<1> USE DEF folderVars, recordVars, runVars, boundVars
<1>1. CASE StartCopy
    BY <1>1, TurnInDirs DEF StartCopy, Restoring, StartsCopy, CopyUnderWay, Goto, Turn
<1>2. CASE FinishCopy
    BY <1>2, TurnInDirs DEF FinishCopy, CopyUnderWay, Goto, Turn, Fresh
<1>3. CASE UNCHANGED vars
    BY <1>3 DEF vars, CopyUnderWay, Turn, Fresh
<1>4. CASE pc' \notin {"copying", "copied"}
    BY <1>4 DEF CopyUnderWay
<1>5. CASE UNCHANGED pc /\ pc = "idle"
    BY <1>5 DEF CopyUnderWay
<1>6. \/ StartCopy \/ FinishCopy \/ UNCHANGED vars
      \/ pc' \notin {"copying", "copied"} \/ (UNCHANGED pc /\ pc = "idle")
    <2>1. CASE Use \/ UndoCleanup \/ SetJournalAside
        BY <2>1 DEF Use, MakeFolder, SyncPack, RecordPlayed, Prepare, BeginSwitch,
               RemoveSet, PrepareMods, RestoreTrashedSet, UndoCleanup, PutSetBack,
               SetJournalAside, AtRest
    <2>2. CASE Interrupt
        BY <2>2 DEF Interrupt
    <2>3. CASE Resume
        BY <2>3 DEF Resume, Goto, TypeOK, Journal, Steps
    <2>4. CASE Run /\ ~StartCopy /\ ~FinishCopy
        BY <2>4 DEF Run, SetLeftoverAside, WriteJournal, ParkFolder, ClearTheWay,
               BringIn, PlaceCopy, StartEmpty, NothingToRestore, Restoring,
               WriteParkedState, WriteParkedInfo, WriteActiveState,
               WriteActiveInfo, DropTargetState, DropTargetInfo, SaveStep,
               Advance, UpdateInstance, Finish, Goto
    <2> QED BY <2>1, <2>2, <2>3, <2>4 DEF AnyNext, Next, OrderlyNext
<1> QED BY <1>1, <1>2, <1>3, <1>4, <1>5, <1>6

LEMMA KeptStep ==
    ASSUME TypeOK, CopyUnderWay, AnyNext, NEW f \in Folder, Kept(f)
    PROVE  Kept(f)'
<1> USE DEF folderVars, recordVars, runVars, boundVars
<1>0. f # NoFolder /\ Turn \in Dirs
    BY NoneAssumption, TurnInDirs
<1>1. CASE UNCHANGED <<active, parked, aside, trash>>
    BY <1>1 DEF Kept
<1>2. ASSUME NEW d \in Dirs, MakeFolder(d) PROVE Kept(f)'
    BY <1>0, <1>2 DEF MakeFolder, Kept, TypeOK
<1>3. CASE PrepareMods
    <2>1. UNCHANGED <<active, aside, trash>> /\ goal \in Versions
        BY <1>3 DEF PrepareMods, TypeOK
    <2>2. ASSUME NEW v \in Versions, NEW d \in Dirs, parked[v][d] = f
          PROVE  parked'[v][d] = f
        <3>1. "mods" \in Dirs /\ parked \in [Versions -> [Dirs -> MaybeFolder]]
            BY DEF TypeOK, Dirs
        <3>2. CASE parked' = parked
            BY <2>2, <3>2
        <3>3. CASE /\ parked[goal]["mods"] = NoFolder
                   /\ parked' = [parked EXCEPT ![goal]["mods"] = Fresh(goal, "mods")]
            <4>1. v # goal \/ d # "mods"
                BY <1>0, <2>2, <3>3
            <4> QED BY <2>1, <2>2, <3>1, <3>3, <4>1, EntryValue
        <3> QED BY <1>3, <3>2, <3>3 DEF PrepareMods
    <2> QED BY <2>1, <2>2 DEF Kept
<1>4. CASE SetLeftoverAside
    <2>1. UNCHANGED <<active, trash>> /\ mc \in Versions
        BY <1>4 DEF SetLeftoverAside, TypeOK
    <2>2. ASSUME NEW v \in Versions, f \in aside[v] PROVE f \in aside'[v]
        BY <1>4, <2>1, <2>2 DEF SetLeftoverAside, TypeOK
    <2>3. ASSUME NEW v \in Versions, NEW d \in Dirs, parked[v][d] = f
          PROVE  parked'[v][d] = f \/ f \in aside'[mc]
        <3>1. parked \in [Versions -> [Dirs -> MaybeFolder]]
            BY DEF TypeOK
        <3>2. CASE parked' = parked
            BY <2>3, <3>2
        <3>3. CASE /\ parked' = [parked EXCEPT ![mc][Turn] = NoFolder]
                   /\ aside' = [aside EXCEPT ![mc] = @ \cup {parked[mc][Turn]}]
            <4>1. CASE v = mc /\ d = Turn
                BY <2>1, <2>3, <3>3, <4>1 DEF TypeOK
            <4>2. CASE v # mc \/ d # Turn
                BY <1>0, <2>1, <2>3, <3>1, <3>3, <4>2, EntryValue
            <4> QED BY <4>1, <4>2
        <3> QED BY <1>4, <3>2, <3>3 DEF SetLeftoverAside
    <2> QED BY <2>1, <2>2, <2>3 DEF Kept
<1>5. CASE ParkFolder
    <2>1. UNCHANGED <<aside, trash>> /\ journal.from \in Versions
        BY <1>5 DEF ParkFolder, TypeOK, Journal
    <2>2. ASSUME NEW v \in Versions, NEW d \in Dirs, parked[v][d] = f
          PROVE  parked'[v][d] = f
        <3>1. parked \in [Versions -> [Dirs -> MaybeFolder]]
            BY DEF TypeOK
        <3>2. CASE parked' = parked
            BY <2>2, <3>2
        <3>3. CASE /\ parked[journal.from][Turn] = NoFolder
                   /\ parked' = [parked EXCEPT ![journal.from][Turn] = active[Turn]]
            <4>1. v # journal.from \/ d # Turn
                BY <1>0, <2>2, <3>3
            <4> QED BY <1>0, <2>1, <2>2, <3>1, <3>3, <4>1, EntryValue
        <3> QED BY <1>5, <3>2, <3>3 DEF ParkFolder
    <2>3. ASSUME NEW d \in Dirs, active[d] = f
          PROVE  active'[d] = f \/ parked'[journal.from][d] = f
        BY <1>0, <1>5, <2>1, <2>3 DEF ParkFolder, TypeOK
    <2> QED BY <2>1, <2>2, <2>3 DEF Kept
<1>6. CASE ClearTheWay
    <2>1. UNCHANGED <<parked, trash>> /\ journal.from \in Versions
        BY <1>6 DEF ClearTheWay, Restoring, TypeOK, Journal
    <2>2. ASSUME NEW v \in Versions, f \in aside[v] PROVE f \in aside'[v]
        BY <1>6, <2>1, <2>2 DEF ClearTheWay, TypeOK
    <2>3. ASSUME NEW d \in Dirs, active[d] = f
          PROVE  active'[d] = f \/ f \in aside'[journal.from]
        BY <1>0, <1>6, <2>1, <2>3 DEF ClearTheWay, TypeOK
    <2> QED BY <2>1, <2>2, <2>3 DEF Kept
<1>7. CASE BringIn
    <2>1. UNCHANGED <<aside, trash>> /\ journal.to \in Versions
        BY <1>7 DEF BringIn, Restoring, TypeOK, Journal
    <2>2. ASSUME NEW v \in Versions, NEW d \in Dirs, parked[v][d] = f
          PROVE  parked'[v][d] = f \/ active'[d] = f
        BY <1>0, <1>7, <2>1, <2>2 DEF BringIn, TypeOK
    <2>3. ASSUME NEW d \in Dirs, active[d] = f PROVE active'[d] = f
        BY <1>0, <1>7, <2>3 DEF BringIn, TypeOK
    <2> QED BY <2>1, <2>2, <2>3 DEF Kept
<1>8. CASE PlaceCopy \/ StartEmpty
    <2>1. UNCHANGED <<parked, aside, trash>>
        BY <1>8 DEF PlaceCopy, StartEmpty
    <2>2. ASSUME NEW d \in Dirs, active[d] = f PROVE active'[d] = f
        BY <1>0, <1>8, <2>2 DEF PlaceCopy, StartEmpty, StartsEmpty, CopyUnderWay, TypeOK
    <2> QED BY <2>1, <2>2 DEF Kept
<1>9. ASSUME NEW v \in Versions, RemoveSet(v) PROVE Kept(f)'
    <2> DEFINE t == [ver |-> v, dirs |-> parked[v], aside |-> aside[v],
                     file |-> setFile[v], state |-> parkedState[v]]
    <2>1. trash' = trash \cup {t} /\ UNCHANGED active
        BY <1>9 DEF RemoveSet
    <2>2. t.aside = aside[v] /\ t.dirs = parked[v]
        OBVIOUS
    <2>3. ASSUME NEW w \in Versions, f \in aside[w]
          PROVE  f \in aside'[w] \/ f \in t.aside
        BY <1>9, <2>2, <2>3 DEF RemoveSet, TypeOK
    <2>4. ASSUME NEW w \in Versions, NEW d \in Dirs, parked[w][d] = f
          PROVE  parked'[w][d] = f \/ t.dirs[d] = f
        BY <1>9, <2>2, <2>4 DEF RemoveSet, TypeOK
    <2> HIDE DEF t
    <2> QED BY <2>1, <2>3, <2>4 DEF Kept
<1>10. ASSUME NEW t \in trash, PutSetBack(t) PROVE Kept(f)'
    <2>1. t.ver \in Versions /\ UNCHANGED active /\ trash' = trash \ {t}
        BY <1>10 DEF PutSetBack, TypeOK, TrashItem
    <2>2. aside[t.ver] = {} /\ \A d \in Dirs : parked[t.ver][d] = NoFolder
        BY <1>10 DEF PutSetBack, SetExists, HasParkedInfo, HasFolders
    <2>3. aside'[t.ver] = t.aside /\ parked'[t.ver] = t.dirs
        BY <1>10, <2>1 DEF PutSetBack, TypeOK
    <2>4. \A w \in Versions : w # t.ver => /\ aside'[w] = aside[w]
                                           /\ parked'[w] = parked[w]
        BY <1>10, <2>1 DEF PutSetBack, TypeOK
    <2> QED BY <1>0, <2>1, <2>2, <2>3, <2>4 DEF Kept
<1> QED
    BY <1>1, <1>2, <1>3, <1>4, <1>5, <1>6, <1>7, <1>8, <1>9, <1>10
    DEF AnyNext, Next, OrderlyNext, Use, Run, SyncPack, RecordPlayed, Prepare, BeginSwitch,
        RestoreTrashedSet, UndoCleanup, SetJournalAside, WriteJournal, StartCopy,
        FinishCopy, NothingToRestore, WriteParkedState, WriteParkedInfo,
        WriteActiveState, WriteActiveInfo, DropTargetState, DropTargetInfo,
        SaveStep, Advance, UpdateInstance, Finish, Interrupt, Resume

\* A step makes no folder, or one that it puts where Kept finds it.
LEMMA MadeStep ==
    ASSUME TypeOK, CopyUnderWay, AnyNext
    PROVE  \/ made' = made
           \/ \E v \in Versions, d \in Dirs : \E f \in Folder :
                 f = Fresh(v, d) /\ made' = Count(v, d) /\ Kept(f)'
<1> USE DEF folderVars
<1>1. ASSUME NEW v \in Versions, NEW d \in Dirs, made' = Count(v, d),
             active'[d] = Fresh(v, d) \/ parked'[v][d] = Fresh(v, d)
      PROVE  \E f \in Folder : f = Fresh(v, d) /\ made' = Count(v, d) /\ Kept(f)'
    <2>1. PICK f \in Folder : f = Fresh(v, d)
        BY FolderTypes
    <2>2. active'[d] = f \/ parked'[v][d] = f
        BY <1>1, <2>1
    <2>3. Kept(f)'
        BY <2>2 DEF Kept
    <2> QED BY <1>1, <2>1, <2>3
<1>2. ASSUME NEW d \in Dirs, MakeFolder(d)
      PROVE  mc \in Versions /\ made' = Count(mc, d) /\ active'[d] = Fresh(mc, d)
    BY <1>2 DEF MakeFolder, TypeOK
<1>3. CASE PrepareMods /\ parked[goal]["mods"] = NoFolder
    <2>1. goal \in Versions /\ "mods" \in Dirs
        BY <1>3 DEF PrepareMods, TypeOK, Dirs
    <2>2. parked \in [Versions -> [Dirs -> MaybeFolder]]
        BY DEF TypeOK
    <2>3. parked' = [parked EXCEPT ![goal]["mods"] = Fresh(goal, "mods")]
        BY <1>3 DEF PrepareMods
    <2>4. parked'[goal]["mods"] = Fresh(goal, "mods")
        BY <2>1, <2>2, <2>3, EntryValue
    <2>5. made' = Count(goal, "mods")
        BY <1>3 DEF PrepareMods
    <2> QED BY <1>1, <2>1, <2>4, <2>5
<1>4. CASE PlaceCopy \/ StartEmpty
    <2>1. journal.to \in Versions /\ Turn \in Dirs
        BY <1>4, TurnInDirs DEF PlaceCopy, StartEmpty, Restoring, TypeOK, Journal
    <2>2. made' = Count(journal.to, Turn) /\ active'[Turn] = Fresh(journal.to, Turn)
        BY <1>4, <2>1 DEF PlaceCopy, StartEmpty, CopyUnderWay, TypeOK
    <2> QED BY <1>1, <2>1, <2>2
<1>5. \/ UNCHANGED made
      \/ \E d \in Dirs : MakeFolder(d)
      \/ PrepareMods /\ parked[goal]["mods"] = NoFolder
      \/ PlaceCopy \/ StartEmpty
    BY DEF AnyNext, Next, OrderlyNext, Use, Run, SyncPack, RecordPlayed, Prepare, BeginSwitch,
        PrepareMods, RemoveSet, PutSetBack, SetLeftoverAside, ParkFolder,
        ClearTheWay, BringIn, RestoreTrashedSet, UndoCleanup, SetJournalAside,
        WriteJournal, StartCopy, FinishCopy, NothingToRestore, WriteParkedState,
        WriteParkedInfo, WriteActiveState, WriteActiveInfo, DropTargetState,
        DropTargetInfo, SaveStep, Advance, UpdateInstance, Finish, Interrupt, Resume
<1> QED BY <1>1, <1>2, <1>3, <1>4, <1>5

\* Folders are never lost, whatever is interrupted, put back or damaged.
THEOREM FoldersKept == AnySpec => []NothingLost
<1>1. Init => LostInv
    <2>1. Init => TypeOK /\ CopyUnderWay
        BY NoneAssumption DEF Init, NoFolders, TypeOK, MaybeFolder, MaybeState, PCs, CopyUnderWay
    <2>2. Init => NothingLost
        BY DEF Init, NothingLost
    <2> QED BY <2>1, <2>2 DEF LostInv
<1>2. LostInv /\ [AnyNext]_vars => LostInv'
    <2> SUFFICES ASSUME LostInv, [AnyNext]_vars PROVE LostInv'
        OBVIOUS
    <2>1. TypeOK /\ CopyUnderWay /\ NothingLost
        BY DEF LostInv
    <2>2. TypeOK' /\ CopyUnderWay'
        BY <2>1, TypeStep, CopyStep
    <2>3. ASSUME NEW f \in Folder, Kept(f) PROVE Kept(f)'
        <3>1. CASE UNCHANGED vars
            BY <2>3, <3>1 DEF Kept, vars, folderVars
        <3> QED BY <2>1, <2>3, <3>1, KeptStep
    <2>4. ASSUME NEW v \in Versions, NEW d \in Dirs, NEW i \in 1..made'[v][d]
          PROVE  \E f \in Folder : f = [ver |-> v, dir |-> d, n |-> i] /\ Kept(f)'
        <3>1. made[v][d] \in Nat
            BY <2>1 DEF TypeOK
        <3>2. PICK f \in Folder : f = [ver |-> v, dir |-> d, n |-> i]
            <4>1. made'[v][d] \in Nat
                BY <2>2 DEF TypeOK
            <4>2. i \in Nat
                BY <2>4, <4>1
            <4> QED BY <4>2 DEF Folder
        <3>3. CASE i \in 1..made[v][d]
            <4>1. Kept(f)
                BY <2>1, <3>2, <3>3 DEF NothingLost
            <4> QED BY <2>3, <3>2, <4>1
        <3>4. CASE i \notin 1..made[v][d]
            <4>1. AnyNext
                BY <2>4, <3>4 DEF vars, folderVars
            <4>2. PICK w \in Versions, e \in Dirs : \E g \in Folder :
                      g = Fresh(w, e) /\ made' = Count(w, e) /\ Kept(g)'
                BY <2>1, <2>4, <3>4, <4>1, MadeStep
            <4>3. /\ made' = [made EXCEPT ![w][e] = made[w][e] + 1]
                  /\ made \in [Versions -> [Dirs -> Nat]]
                BY <2>1, <4>2 DEF Count, TypeOK
            <4>4. w = v /\ e = d
                BY <2>4, <3>4, <4>3, EntryValue
            <4>5. made'[v][d] = made[v][d] + 1
                BY <4>3, <4>4, EntryValue
            <4>6. i = made[v][d] + 1
                BY <2>4, <3>1, <3>4, <4>5
            <4> QED BY <3>2, <4>2, <4>4, <4>6 DEF Fresh
        <3> QED BY <3>3, <3>4
    <2>5. NothingLost'
        BY <2>4 DEF NothingLost, Kept
    <2> QED BY <2>2, <2>5 DEF LostInv
<1>3. LostInv => NothingLost
    BY DEF LostInv
<1> QED BY <1>1, <1>2, <1>3, PTL DEF AnySpec

(***************************************************************************)
(* The target's set comes back.  Each folder the set held when the journal *)
(* was written waits parked until restore brings it in, and is then where  *)
(* the game looks for it.  Nothing may come between: a set is not put back *)
(* over folders that wait, the copy of config/ is only made where none     *)
(* waits, and after restore no step touches the active folders.            *)
(***************************************************************************)
StepOf(p) ==
    CASE p = "park" -> "park"
      [] p \in {"restore", "copying", "copied"} -> "restore"
      [] p \in {"states", "parkedInfo", "activeState", "activeInfo",
                "dropState", "dropInfo", "written"} -> "states"
      [] OTHER -> "finalize"

LegFits ==
    /\ pc \in {"begin", "prepare"} => journal = NoJournal
    /\ pc = "begin" => goal # mc
    /\ journal # NoJournal =>
         /\ journal.from # journal.to
         /\ mc \in {journal.from, journal.to}
         /\ journal.step # "finalize" => mc = journal.from
         /\ pc # "idle" => journal.step = StepOf(pc)
         /\ pc \in {"copying", "copied"} => CopiesIn(Turn)

\* A prepared set has no config/, and what is left is parked, not prepared.
SeededFits ==
    /\ \A v \in Versions \ {mc} : setFile[v] = "seeded" => parked[v]["config"] = NoFolder
    /\ \A t \in trash : t.file = "seeded" => t.dirs["config"] = NoFolder
    /\ (/\ journal # NoJournal
        /\ \/ pc \in {"activeState", "activeInfo", "dropState", "dropInfo", "written"}
           \/ journal.step = "finalize")
         => setFile[journal.from] = "parked"

AwaitedAt(d) ==
    /\ journal.first /\ journal.step \in {"park", "restore"} =>
         setFile[journal.to] # "none"
    /\ journal.step = "park" => parked[journal.to][d] = awaited[d]
    /\ journal.step = "restore" =>
         \/ active[d] = awaited[d] /\ parked[journal.to][d] = NoFolder
         \/ (pc = "idle" \/ d \in todo) /\ parked[journal.to][d] = awaited[d]
    /\ journal.step \in {"states", "finalize"} => active[d] = awaited[d]

Awaiting ==
    journal # NoJournal =>
        /\ journal.first => awaited["config"] = NoFolder
        /\ \A d \in Dirs : awaited[d] # NoFolder => AwaitedAt(d)

WholeInv == TypeOK /\ CopyUnderWay /\ LegFits /\ SeededFits /\ Awaiting

LEMMA LegStep == TypeOK /\ LegFits /\ [AnyNext]_vars => LegFits'
<1> SUFFICES ASSUME TypeOK, LegFits, [AnyNext]_vars PROVE LegFits'
    OBVIOUS
<1> USE DEF folderVars, recordVars, runVars, boundVars
<1>1. CASE UNCHANGED <<journal, mc, pc, todo, goal>>
    BY <1>1 DEF LegFits, CopiesIn, Turn
<1>2. CASE Use
    <2>1. CASE PrepareMods
        BY <2>1 DEF PrepareMods, LegFits
    <2>2. ASSUME NEW v \in Versions, Prepare(v) \/ BeginSwitch(v) PROVE LegFits'
        BY <2>2 DEF Prepare, BeginSwitch, AtRest, LegFits
    <2> QED BY <1>1, <1>2, <2>1, <2>2
        DEF Use, MakeFolder, SyncPack, RecordPlayed, RemoveSet, RestoreTrashedSet,
            PutSetBack
<1>3. CASE UndoCleanup \/ UNCHANGED vars
    BY <1>1, <1>3 DEF UndoCleanup, PutSetBack, vars
<1>4. CASE Interrupt \/ SetJournalAside \/ Finish
    BY <1>4 DEF Interrupt, SetJournalAside, Finish, Goto, LegFits
<1>5. CASE Resume
    BY <1>5 DEF Resume, Goto, LegFits, StepOf, TypeOK, Journal, Steps
<1>6. CASE SetLeftoverAside \/ WriteJournal
    <2>1. CASE SetLeftoverAside
        BY <2>1 DEF SetLeftoverAside, Goto, LegFits
    <2>2. CASE WriteJournal
        BY <2>2 DEF WriteJournal, NewJournal, LegFits, StepOf
    <2> QED BY <1>6, <2>1, <2>2
<1>7. CASE SaveStep
    <2>1. PICK p \in {"park", "restore", "written"}, step \in {"restore", "states", "finalize"} :
             Advance(p, step)
        BY <1>7 DEF SaveStep
    <2>2. /\ journal' = [journal EXCEPT !.step = step] /\ pc' = step /\ mc' = mc
          /\ journal \in Journal /\ pc = p
        BY <2>1 DEF Advance, Goto, TypeOK
    <2>3. /\ journal'.from = journal.from /\ journal'.to = journal.to
          /\ journal'.step = step
        BY <2>2 DEF Journal
    <2>4. journal.step # "finalize" /\ journal # NoJournal
        BY <2>2, NoneAssumption DEF LegFits, StepOf
    <2>5. step = StepOf(step)
        BY DEF StepOf
    <2> QED BY <2>2, <2>3, <2>4, <2>5 DEF LegFits
<1>8. CASE UpdateInstance
    BY <1>8 DEF UpdateInstance, Goto, LegFits, StepOf
<1>9. CASE StartCopy \/ FinishCopy
    BY <1>9 DEF StartCopy, FinishCopy, StartsCopy, Restoring, Goto, LegFits, StepOf,
       CopiesIn, Turn
<1>10. CASE /\ Run /\ ~SetLeftoverAside /\ ~WriteJournal /\ ~SaveStep /\ ~UpdateInstance
            /\ ~Finish /\ ~StartCopy /\ ~FinishCopy
    <2>1. /\ UNCHANGED <<journal, mc>> /\ pc' \notin {"idle", "begin", "prepare"}
          /\ pc \notin {"idle", "begin", "prepare"}
          /\ StepOf(pc') = StepOf(pc) /\ pc' \notin {"copying", "copied"}
        BY <1>10 DEF Run, ParkFolder, ClearTheWay, BringIn, PlaceCopy, StartEmpty,
           NothingToRestore, Restoring, WriteParkedState, WriteParkedInfo,
           WriteActiveState, WriteActiveInfo, DropTargetState, DropTargetInfo, Goto,
           StepOf
    <2> QED BY <2>1 DEF LegFits
<1> QED
    BY <1>2, <1>3, <1>4, <1>5, <1>6, <1>7, <1>8, <1>9, <1>10
    DEF AnyNext, Next, OrderlyNext, Run

LEMMA SeededStep ==
    ASSUME TypeOK, LegFits, SeededFits, [AnyNext]_vars
    PROVE  SeededFits'
<1> USE DEF folderVars, recordVars, runVars, boundVars
<1>0. /\ parked \in [Versions -> [Dirs -> MaybeFolder]]
      /\ setFile \in [Versions -> {"none", "seeded", "parked"}] /\ mc \in Versions
    BY DEF TypeOK
<1>1. CASE /\ UNCHANGED <<parked, setFile, mc, trash, journal>>
           /\ pc' \in {"activeState", "activeInfo", "dropState", "dropInfo", "written"} =>
                pc \in {"activeState", "activeInfo", "dropState", "dropInfo", "written"}
    BY <1>1 DEF SeededFits
<1>2. ASSUME NEW v \in Versions, Prepare(v) PROVE SeededFits'
    <2>1. /\ UNCHANGED <<parked, trash, mc, journal>> /\ journal = NoJournal
          /\ \A w \in Versions : w # v => setFile'[w] = setFile[w]
          /\ setFile'[v] = setFile[v] \/ ~HasParkedInfo(v)
        BY <1>0, <1>2 DEF Prepare, AtRest
    <2> QED BY <1>0, <2>1 DEF SeededFits, HasParkedInfo, HasFolders, Dirs
<1>3. CASE PrepareMods \/ SetLeftoverAside \/ ParkFolder
    <2>1. CASE PrepareMods
        <3>1. /\ goal \in Versions /\ "mods" \in Dirs /\ UNCHANGED <<setFile, trash, mc, journal>>
              /\ journal = NoJournal
              /\ \/ parked' = parked
                 \/ parked' = [parked EXCEPT ![goal]["mods"] = Fresh(goal, "mods")]
            BY <2>1 DEF PrepareMods, TypeOK, Dirs, LegFits
        <3>2. \A v \in Versions : parked'[v]["config"] = parked[v]["config"]
            BY <1>0, <3>1, EntryValue DEF Dirs
        <3> QED BY <3>1, <3>2 DEF SeededFits
    <2>2. CASE SetLeftoverAside
        <3>1. /\ Turn \in Dirs /\ UNCHANGED <<setFile, trash, mc, journal>>
              /\ journal = NoJournal
              /\ parked' = parked \/ parked' = [parked EXCEPT ![mc][Turn] = NoFolder]
            BY <2>2, TurnInDirs DEF SetLeftoverAside, LegFits
        <3>2. \A v \in Versions : parked'[v]["config"] \in {parked[v]["config"], NoFolder}
            BY <1>0, <3>1, EntryValue DEF Dirs
        <3> QED BY <1>0, <3>1, <3>2 DEF SeededFits
    <2>3. CASE ParkFolder
        <3>1. /\ Turn \in Dirs /\ journal.from = mc /\ UNCHANGED <<setFile, trash, mc, journal>>
              /\ pc' = "park" /\ journal.step = "park"
              /\ parked' = parked \/ parked' = [parked EXCEPT ![mc][Turn] = active[Turn]]
            BY <2>3, TurnInDirs DEF ParkFolder, TypeOK, LegFits, StepOf, Goto
        <3>2. \A v \in Versions \ {mc}, d \in Dirs : parked'[v][d] = parked[v][d]
            BY <1>0, <3>1, EntryValue
        <3> QED BY <3>1, <3>2 DEF SeededFits, Dirs
    <2> QED BY <1>3, <2>1, <2>2, <2>3
<1>4. CASE BringIn
    <2>1. /\ journal.to \in Versions /\ Turn \in Dirs /\ UNCHANGED <<setFile, trash, mc, journal>>
          /\ pc' = "restore" /\ parked' = [parked EXCEPT ![journal.to][Turn] = NoFolder]
        BY <1>4, TurnInDirs DEF BringIn, Restoring, TypeOK, Journal, Goto
    <2>2. \A v \in Versions : parked'[v]["config"] \in {parked[v]["config"], NoFolder}
        BY <1>0, <2>1, EntryValue DEF Dirs
    <2> QED BY <2>1, <2>2 DEF SeededFits
<1>5. CASE WriteParkedInfo \/ DropTargetInfo
    <2>1. /\ journal \in Journal /\ journal # NoJournal /\ journal.from # journal.to
          /\ UNCHANGED <<parked, trash, mc, journal>>
        BY <1>5, NoneAssumption DEF WriteParkedInfo, DropTargetInfo, TypeOK, LegFits
    <2> QED BY <1>5, <2>1 DEF WriteParkedInfo, DropTargetInfo, SeededFits, TypeOK, Journal
<1>6. ASSUME NEW v \in Versions, RemoveSet(v) PROVE SeededFits'
    <2>1. /\ v # mc /\ journal = NoJournal /\ journal' = NoJournal /\ mc' = mc
          /\ parked'[v] = [d \in Dirs |-> NoFolder]
          /\ \A w \in Versions : /\ w # v => parked'[w] = parked[w]
                                 /\ setFile'[w] \in {setFile[w], "none"}
        BY <1>0, <1>6 DEF RemoveSet, Stale
    <2>2. \A t \in trash' : t \in trash \/ (t.file = setFile[v] /\ t.dirs = parked[v])
        <3>1. PICK item : item = [ver |-> v, dirs |-> parked[v], aside |-> aside[v],
                                  file |-> setFile[v], state |-> parkedState[v]]
            OBVIOUS
        <3>2. trash' = trash \cup {item}
            BY <1>6, <3>1 DEF RemoveSet
        <3>3. item.file = setFile[v] /\ item.dirs = parked[v]
            BY <3>1
        <3> QED BY <3>2, <3>3
    <2>3. /\ \A w \in Versions \ {mc} : setFile'[w] = "seeded" => parked'[w]["config"] = NoFolder
          /\ \A t \in trash' : t.file = "seeded" => t.dirs["config"] = NoFolder
        BY <2>1, <2>2 DEF SeededFits, Dirs
    <2> QED BY <2>1, <2>3 DEF SeededFits
<1>7. ASSUME NEW t \in trash, PutSetBack(t) PROVE SeededFits'
    <2>1. /\ t.ver \in Versions /\ trash' \subseteq trash
          /\ UNCHANGED <<journal, mc, pc>> /\ setFile[t.ver] = "none"
        BY <1>7 DEF PutSetBack, TypeOK, TrashItem, SetExists, HasParkedInfo
    <2>2. /\ parked'[t.ver] = t.dirs /\ setFile'[t.ver] = t.file
          /\ \A w \in Versions : w # t.ver => /\ parked'[w] = parked[w]
                                              /\ setFile'[w] = setFile[w]
        BY <1>0, <1>7, <2>1 DEF PutSetBack
    <2>3. /\ \A v \in Versions \ {mc} : setFile'[v] = "seeded" => parked'[v]["config"] = NoFolder
          /\ \A u \in trash' : u.file = "seeded" => u.dirs["config"] = NoFolder
        BY <2>1, <2>2 DEF SeededFits
    <2>4. journal # NoJournal => journal.from \in Versions
        BY DEF TypeOK, Journal
    <2> QED BY <2>1, <2>2, <2>3, <2>4 DEF SeededFits
<1>8. CASE WriteJournal
    <2>1. /\ UNCHANGED <<parked, setFile, trash, mc>> /\ pc' = "park"
          /\ journal'.step = "park"
        BY <1>8 DEF WriteJournal, NewJournal
    <2> QED BY <2>1 DEF SeededFits
<1>9. CASE SaveStep
    <2>1. /\ UNCHANGED <<parked, setFile, trash, mc>> /\ journal \in Journal /\ journal # NoJournal
          /\ pc' \notin {"activeState", "activeInfo", "dropState", "dropInfo", "written"}
          /\ journal' = [journal EXCEPT !.step = pc']
          /\ pc' = "finalize" => pc = "written"
        BY <1>9, NoneAssumption DEF SaveStep, Advance, Goto, TypeOK
    <2>2. journal'.from = journal.from /\ journal'.step = pc'
        BY <1>9, <2>1 DEF SaveStep, Advance, Goto, Journal
    <2> QED BY <2>1, <2>2 DEF SeededFits
<1>10. CASE UpdateInstance
    <2>1. /\ UNCHANGED <<parked, setFile, trash, journal>> /\ journal \in Journal
          /\ journal # NoJournal /\ journal.step = "finalize" /\ mc' = journal.to
          /\ pc' = "finish" /\ mc \in {journal.from, journal.to}
        BY <1>10, NoneAssumption DEF UpdateInstance, Goto, TypeOK, LegFits, StepOf
    <2>2. setFile[journal.from] = "parked"
        BY <2>1 DEF SeededFits
    <2> QED BY <2>1, <2>2 DEF SeededFits
<1>11. CASE Finish \/ SetJournalAside
    BY <1>11 DEF Finish, SetJournalAside, SeededFits
<1> QED
    BY <1>1, <1>2, <1>3, <1>4, <1>5, <1>6, <1>7, <1>8, <1>9, <1>10, <1>11
    DEF AnyNext, Next, OrderlyNext, Use, Run, MakeFolder, SyncPack, RecordPlayed,
        BeginSwitch, RestoreTrashedSet, UndoCleanup, ClearTheWay, StartCopy, FinishCopy,
        PlaceCopy, StartEmpty, NothingToRestore, Restoring, WriteParkedState,
        WriteActiveState, WriteActiveInfo, DropTargetState, Interrupt, Resume,
        Goto, vars, TypeOK, Journal, Steps

\* A set is put back neither over the set being left nor over one that waits.
LEMMA PutBackElsewhere ==
    ASSUME TypeOK, LegFits, SeededFits, Awaiting, journal # NoJournal,
           NEW t \in trash, PutSetBack(t), NEW d \in Dirs, awaited[d] # NoFolder,
           journal.step \in {"park", "restore"}
    PROVE  t.ver # journal.to
<1>1. SetExists(journal.to)
    <2>1. CASE journal.first
        BY <2>1 DEF Awaiting, AwaitedAt, SetExists, HasParkedInfo
    <2>2. CASE ~journal.first
        BY <2>2 DEF SetExists, Emptied
    <2> QED BY <2>1, <2>2
<1> QED BY <1>1 DEF PutSetBack

LEMMA AwaitingStep ==
    ASSUME TypeOK, CopyUnderWay, LegFits, SeededFits, Awaiting, [AnyNext]_vars
    PROVE  Awaiting'
<1> USE DEF folderVars, recordVars, runVars, boundVars
<1>0. /\ parked \in [Versions -> [Dirs -> MaybeFolder]]
      /\ active \in [Dirs -> MaybeFolder] /\ mc \in Versions
      /\ setFile \in [Versions -> {"none", "seeded", "parked"}]
      /\ Turn \in Dirs
      /\ journal # NoJournal => journal.from \in Versions /\ journal.to \in Versions
    BY TurnInDirs DEF TypeOK, Journal
<1>1. CASE /\ UNCHANGED <<journal, awaited, active>>
           /\ journal # NoJournal =>
                /\ parked'[journal.to] = parked[journal.to]
                /\ setFile'[journal.to] = setFile[journal.to]
                     \/ journal.step \in {"states", "finalize"}
           /\ pc' = "idle" \/ UNCHANGED <<pc, todo>> \/ todo' = Dirs
                \/ journal = NoJournal \/ journal.step # "restore"
    BY <1>1 DEF Awaiting, AwaitedAt
<1>2. CASE journal' = NoJournal
    BY <1>2 DEF Awaiting
<1>3. CASE WriteJournal
    <2>1. /\ goal \in Versions /\ goal # mc
          /\ journal'.to = goal /\ journal'.step = "park"
          /\ journal'.first = ~Returning(goal)
          /\ awaited' = parked[goal] /\ UNCHANGED <<parked, setFile>>
        BY <1>3 DEF WriteJournal, NewJournal, TypeOK, LegFits
    <2>2. journal'.first => awaited'["config"] = NoFolder
        <3>1. CASE setFile[goal] = "seeded"
            BY <1>0, <2>1, <3>1 DEF SeededFits
        <3>2. CASE ~HasParkedInfo(goal)
            BY <2>1, <3>2 DEF HasParkedInfo, HasFolders, Dirs
        <3> QED BY <2>1, <3>1, <3>2 DEF Returning
    <2>3. ASSUME NEW d \in Dirs, awaited'[d] # NoFolder, journal'.first
          PROVE  setFile[goal] # "none"
        BY <2>1, <2>3 DEF Returning, HasParkedInfo, HasFolders
    <2> QED BY <2>1, <2>2, <2>3 DEF Awaiting, AwaitedAt
<1>4. ASSUME NEW t \in trash, PutSetBack(t), journal # NoJournal PROVE Awaiting'
    <2>1. /\ UNCHANGED <<journal, awaited, active, pc, todo>> /\ t.ver \in Versions
          /\ \A w \in Versions : w # t.ver => /\ parked'[w] = parked[w]
                                              /\ setFile'[w] = setFile[w]
        BY <1>0, <1>4 DEF PutSetBack, TypeOK, TrashItem
    <2>2. CASE t.ver # journal.to
        BY <1>0, <1>1, <1>4, <2>1, <2>2
    <2>3. CASE t.ver = journal.to
        <3>1. ASSUME NEW d \in Dirs, awaited[d] # NoFolder
              PROVE  journal.step \notin {"park", "restore"}
            BY <1>4, <2>3, <3>1, PutBackElsewhere
        <3> QED BY <1>4, <2>1, <3>1 DEF Awaiting, AwaitedAt
    <2> QED BY <2>2, <2>3
<1>5. CASE ParkFolder
    <2>1. /\ journal # NoJournal /\ journal.step = "park" /\ journal.from # journal.to
          /\ parked' = parked \/ parked' = [parked EXCEPT ![journal.from][Turn] = active[Turn]]
          /\ UNCHANGED <<journal, awaited, setFile>>
        BY <1>5, NoneAssumption DEF ParkFolder, LegFits, StepOf, TypeOK
    <2>2. \A d \in Dirs : parked'[journal.to][d] = parked[journal.to][d]
        BY <1>0, <2>1, EntryValue
    <2> QED BY <1>0, <2>1, <2>2 DEF Awaiting, AwaitedAt
<1>6. CASE ClearTheWay \/ BringIn \/ StartCopy \/ FinishCopy \/ PlaceCopy \/ StartEmpty
             \/ NothingToRestore
    <2>1. /\ journal # NoJournal /\ journal.step = "restore"
          /\ pc # "idle" /\ pc' # "idle"
          /\ UNCHANGED <<journal, awaited, setFile>>
          /\ todo' = todo \/ todo' = todo \ {Turn}
        BY <1>6, NoneAssumption DEF ClearTheWay, BringIn, StartCopy, FinishCopy,
           PlaceCopy, StartEmpty, NothingToRestore, Restoring, Goto, LegFits, StepOf,
           TypeOK
    <2>2. \A d \in Dirs : d # Turn => /\ active'[d] = active[d]
                                      /\ parked'[journal.to][d] = parked[journal.to][d]
        BY <1>0, <1>6, <2>1 DEF ClearTheWay, BringIn, StartCopy, FinishCopy,
           PlaceCopy, StartEmpty, NothingToRestore
    <2>3. ASSUME awaited[Turn] # NoFolder
          PROVE  \/ /\ active'[Turn] = awaited[Turn]
                    /\ parked'[journal.to][Turn] = NoFolder
                 \/ todo' = todo /\ Turn \in todo /\ parked'[journal.to][Turn] = awaited[Turn]
        <3>1. ~CopiesIn(Turn)
            BY <2>1, <2>3 DEF CopiesIn, Copied, Awaiting
        <3>2. \/ active[Turn] = awaited[Turn] /\ parked[journal.to][Turn] = NoFolder
              \/ Turn \in todo /\ parked[journal.to][Turn] = awaited[Turn]
            BY <1>0, <2>1, <2>3 DEF Awaiting, AwaitedAt
        <3>3. CASE ClearTheWay
            BY <1>0, <2>3, <3>2, <3>3 DEF ClearTheWay, Restoring, ComesIn, TypeOK
        <3>4. CASE BringIn
            BY <1>0, <2>1, <2>3, <3>2, <3>4 DEF BringIn, Restoring, ComesIn
        <3>5. CASE StartCopy \/ FinishCopy \/ PlaceCopy
            BY <2>1, <3>1, <3>5 DEF StartCopy, StartsCopy, FinishCopy, PlaceCopy, LegFits
        <3>6. CASE StartEmpty \/ NothingToRestore
            BY <1>0, <2>3, <3>1, <3>2, <3>6 DEF StartEmpty, StartsEmpty,
               NothingToRestore, Restoring, ComesIn
        <3> QED BY <1>6, <3>3, <3>4, <3>5, <3>6
    <2> QED BY <1>0, <2>1, <2>2, <2>3 DEF Awaiting, AwaitedAt
<1>7. CASE SaveStep
    <2>1. PICK p \in {"park", "restore", "written"}, step \in {"restore", "states", "finalize"} :
             /\ Advance(p, step)
             /\ step = "restore" <=> p = "park"
             /\ step = "states" <=> p = "restore"
        BY <1>7 DEF SaveStep
    <2>2. /\ journal' = [journal EXCEPT !.step = step] /\ pc = p /\ todo = {}
          /\ step = "restore" => todo' = Dirs
          /\ journal \in Journal /\ journal # NoJournal
          /\ UNCHANGED <<active, parked, setFile, awaited>>
        BY <2>1, NoneAssumption DEF Advance, Goto, TypeOK
    <2>3. /\ journal'.to = journal.to /\ journal'.first = journal.first
          /\ journal'.step = step
        BY <2>2 DEF Journal
    <2>4. journal.step = StepOf(p)
        BY <2>2 DEF LegFits
    <2>5. ASSUME NEW d \in Dirs, awaited[d] # NoFolder PROVE AwaitedAt(d)'
        <3>1. AwaitedAt(d)
            BY <2>2, <2>5 DEF Awaiting
        <3>2. CASE step = "restore"
            BY <2>1, <2>2, <2>3, <2>4, <2>5, <3>1, <3>2 DEF AwaitedAt, StepOf
        <3>3. CASE step = "states"
            BY <2>1, <2>2, <2>3, <2>4, <2>5, <3>1, <3>3 DEF AwaitedAt, StepOf
        <3>4. CASE step = "finalize"
            BY <2>1, <2>2, <2>3, <2>4, <2>5, <3>1, <3>4 DEF AwaitedAt, StepOf
        <3> QED BY <3>2, <3>3, <3>4
    <2> QED BY <2>2, <2>3, <2>5 DEF Awaiting
<1>8. CASE WriteParkedInfo \/ DropTargetInfo
    <2>1. /\ journal # NoJournal /\ journal.step = "states"
          /\ UNCHANGED <<journal, awaited, active, parked>>
        BY <1>8, NoneAssumption DEF WriteParkedInfo, DropTargetInfo, LegFits, StepOf, TypeOK
    <2> QED BY <2>1 DEF Awaiting, AwaitedAt
<1>9. CASE journal = NoJournal /\ journal' = journal
    BY <1>9 DEF Awaiting
<1>10. CASE WriteParkedState \/ WriteActiveState \/ WriteActiveInfo \/ DropTargetState
              \/ UpdateInstance
    <2>1. /\ journal # NoJournal /\ journal.step # "restore"
          /\ UNCHANGED <<journal, awaited, active, parked, setFile>>
        BY <1>10, NoneAssumption DEF WriteParkedState, WriteActiveState, WriteActiveInfo,
           DropTargetState, UpdateInstance, LegFits, StepOf, TypeOK
    <2> QED BY <1>1, <2>1
<1>11. CASE Interrupt \/ Resume \/ UNCHANGED vars
    <2>1. CASE Interrupt
        BY <1>1, <2>1 DEF Interrupt
    <2>2. CASE Resume
        BY <1>1, <2>2 DEF Resume, Goto
    <2>3. CASE UNCHANGED vars
        BY <1>1, <2>3 DEF vars
    <2> QED BY <1>11, <2>1, <2>2, <2>3
<1>12. CASE Use \/ SetLeftoverAside
    <2>1. journal' = journal \/ \E t \in trash : journal = NoJournal /\ PutSetBack(t)
        BY <1>12 DEF Use, MakeFolder, SyncPack, RecordPlayed, Prepare, BeginSwitch,
           RemoveSet, PrepareMods, RestoreTrashedSet, SetLeftoverAside
    <2>2. journal = NoJournal
        BY <1>12 DEF Use, MakeFolder, SyncPack, RecordPlayed, Prepare, BeginSwitch,
           RemoveSet, Stale, PrepareMods, RestoreTrashedSet, SetLeftoverAside, AtRest,
           LegFits
    <2> QED BY <1>9, <2>1, <2>2 DEF PutSetBack
<1>13. CASE UndoCleanup
    BY <1>4, <1>9, <1>13 DEF UndoCleanup, PutSetBack
<1>14. CASE Finish \/ SetJournalAside
    BY <1>2, <1>14 DEF Finish, SetJournalAside
<1> QED
    BY <1>3, <1>5, <1>6, <1>7, <1>8, <1>10, <1>11, <1>12, <1>13, <1>14
    DEF AnyNext, Next, OrderlyNext, Run

\* What the target's set held when the switch wrote its journal is in place,
\* folder by folder, when the switch ends: whatever was interrupted at any
\* step, put back from the trash in between, or damaged before the switch.
THEOREM WholeSet == AnySpec => SetComesBackWhole
<1>1. Init => WholeInv
    <2>1. Init => TypeOK /\ CopyUnderWay
        BY NoneAssumption DEF Init, NoFolders, TypeOK, MaybeFolder, MaybeState, PCs,
           CopyUnderWay
    <2>2. Init => LegFits /\ SeededFits /\ Awaiting
        BY DEF Init, LegFits, SeededFits, Awaiting
    <2> QED BY <2>1, <2>2 DEF WholeInv
<1>2. WholeInv /\ [AnyNext]_vars => WholeInv'
    BY TypeStep, CopyStep, LegStep, SeededStep, AwaitingStep DEF WholeInv
<1>3. WholeInv /\ [AnyNext]_vars =>
        [(journal # NoJournal /\ journal' = NoJournal /\ mc = journal.to) =>
           \A d \in Dirs : awaited[d] # NoFolder => active[d] = awaited[d]]_vars
    <2> SUFFICES ASSUME WholeInv, journal # NoJournal, mc = journal.to,
                        NEW d \in Dirs, awaited[d] # NoFolder
                 PROVE  active[d] = awaited[d]
        OBVIOUS
    <2>1. journal.step = "finalize"
        BY DEF WholeInv, LegFits
    <2> QED BY <2>1 DEF WholeInv, Awaiting, AwaitedAt
<1> QED BY <1>1, <1>2, <1>3, PTL DEF AnySpec, SetComesBackWhole

(***************************************************************************)
(* Each to its own.  While a switch is unfinished the active folders belong *)
(* to the version left before the step Restore and to the target from it   *)
(* on; what the step has dealt with is where the step leaves it.           *)
(***************************************************************************)
Own(f, v, d) == f # NoFolder => f.ver = v /\ f.dir = d /\ f.n > 0

ParkedOwn ==
    \A v \in Versions :
        /\ \A d \in Dirs : Own(parked[v][d], v, d)
        /\ setFile[v] = "seeded" => parked[v]["config"] = NoFolder

TrashOwn ==
    \A t \in trash :
        /\ \A d \in Dirs : Own(t.dirs[d], t.ver, d)
        /\ t.file = "seeded" => t.dirs["config"] = NoFolder

AtRestOwn ==
    journal = NoJournal =>
        /\ pc \in {"idle", "begin", "prepare"}
        /\ pc # "idle" => goal # mc
        /\ setFile[mc] = "none"
        /\ \A d \in Dirs : Own(active[d], mc, d) /\ parked[mc][d] = NoFolder

UnderWay ==
    journal # NoJournal =>
        /\ journal.from # journal.to
        /\ pc \notin {"begin", "prepare"}
        /\ pc # "idle" => journal.step = StepOf(pc)
        /\ mc \in {journal.from, journal.to}
        /\ journal.step # "finalize" => mc = journal.from
        /\ pc = "finish" => mc = journal.to
        /\ setFile[journal.from] # "seeded"
        /\ pc = "written" \/ journal.step = "finalize" => setFile[journal.to] = "none"
        /\ journal.first => parked[journal.to]["config"] = NoFolder
        /\ pc \in {"copying", "copied"} => CopiesIn(Turn)

ActiveOwn ==
    journal # NoJournal => \A d \in Dirs :
        /\ journal.step = "park" =>
              /\ Own(active[d], journal.from, d)
              /\ active[d] # NoFolder => parked[journal.from][d] = NoFolder
              /\ pc = "park" /\ d \notin todo => active[d] = NoFolder
        /\ journal.step = "restore" =>
              /\ Own(active[d], journal.to, d)
              /\ active[d] # NoFolder => parked[journal.to][d] = NoFolder
              /\ pc # "idle" /\ d \notin todo => parked[journal.to][d] = NoFolder
        /\ journal.step \in {"states", "finalize"} =>
              /\ Own(active[d], journal.to, d)
              /\ parked[journal.to][d] = NoFolder

SetsInv == /\ TypeOK /\ CopyUnderWay /\ ParkedOwn /\ TrashOwn /\ AtRestOwn
           /\ UnderWay /\ ActiveOwn

\* The steps a switch takes between its journal and its end.
UnderWaySteps ==
    \/ ParkFolder
    \/ ClearTheWay \/ BringIn \/ StartCopy \/ FinishCopy \/ PlaceCopy
    \/ StartEmpty \/ NothingToRestore
    \/ WriteParkedState \/ WriteParkedInfo \/ WriteActiveState
    \/ WriteActiveInfo \/ DropTargetState \/ DropTargetInfo
    \/ SaveStep \/ UpdateInstance

AtRestSteps ==
    \/ \E d \in Dirs : MakeFolder(d)
    \/ SyncPack \/ RecordPlayed
    \/ \E v \in Versions : Prepare(v) \/ BeginSwitch(v) \/ RemoveSet(v)
    \/ RestoreTrashedSet

LEMMA StepKinds ==
    ASSUME SetsInv, [OrderlyNext]_vars
    PROVE  \/ journal = NoJournal /\ (AtRestSteps \/ SetLeftoverAside \/ PrepareMods)
           \/ journal = NoJournal /\ WriteJournal
           \/ journal # NoJournal /\ UnderWaySteps
           \/ journal # NoJournal /\ Finish
           \/ Interrupt
           \/ journal # NoJournal /\ Resume
           \/ UNCHANGED vars
<1>1. journal # NoJournal => pc \notin {"begin", "prepare"}
    BY DEF SetsInv, UnderWay
<1>2. journal = NoJournal => pc \in {"idle", "begin", "prepare"}
    BY DEF SetsInv, AtRestOwn
<1>3. CASE Use
    BY <1>1, <1>3 DEF Use, AtRestSteps, MakeFolder, SyncPack, RecordPlayed, Prepare,
       BeginSwitch, RemoveSet, RestoreTrashedSet, PrepareMods, AtRest, Stale
<1>4. CASE Run
    <2>1. CASE SetLeftoverAside \/ WriteJournal
        BY <1>1, <2>1 DEF SetLeftoverAside, WriteJournal
    <2>2. CASE UnderWaySteps \/ Finish
        BY <1>2, <2>2 DEF UnderWaySteps, ParkFolder, ClearTheWay, BringIn, StartCopy,
           FinishCopy, PlaceCopy, StartEmpty, NothingToRestore, Restoring,
           WriteParkedState, WriteParkedInfo, WriteActiveState, WriteActiveInfo,
           DropTargetState, DropTargetInfo, SaveStep, Advance, UpdateInstance, Finish
    <2> QED BY <1>4, <2>1, <2>2 DEF Run, UnderWaySteps
<1>5. CASE Resume
    BY <1>5 DEF Resume
<1> QED BY <1>3, <1>4, <1>5 DEF OrderlyNext

LEMMA ParkedStep ==
    ASSUME TypeOK, ParkedOwn, TrashOwn, UnderWay, ActiveOwn, [OrderlyNext]_vars
    PROVE  ParkedOwn'
<1> USE DEF folderVars, recordVars
<1>1. parked \in [Versions -> [Dirs -> MaybeFolder]]
    BY DEF TypeOK
<1>2. CASE UNCHANGED <<parked, setFile>>
    BY <1>2 DEF ParkedOwn
<1>3. ASSUME NEW v \in Versions, Prepare(v) PROVE ParkedOwn'
    <2>1. UNCHANGED parked /\ setFile' \in [Versions -> {"none", "seeded", "parked"}]
        BY <1>3 DEF Prepare, TypeOK
    <2>2. setFile'[v] = "seeded" => parked[v]["config"] = NoFolder
        BY <1>3 DEF Prepare, TypeOK, ParkedOwn, HasParkedInfo, HasFolders, Dirs
    <2>3. \A w \in Versions : w # v => setFile'[w] = setFile[w]
        BY <1>3 DEF Prepare, TypeOK
    <2> QED BY <2>1, <2>2, <2>3 DEF ParkedOwn
<1>4. CASE PrepareMods
    <2>1. CASE parked' = parked
        BY <1>4, <2>1 DEF PrepareMods, ParkedOwn
    <2>2. CASE parked' = [parked EXCEPT ![goal]["mods"] = Fresh(goal, "mods")]
        <3>1. goal \in Versions /\ "mods" \in Dirs /\ setFile' = setFile
            BY <1>4 DEF PrepareMods, TypeOK, Dirs
        <3>2. Own(Fresh(goal, "mods"), goal, "mods")
            BY <3>1 DEF Own, Fresh, TypeOK
        <3>3. ASSUME NEW v \in Versions, NEW d \in Dirs
              PROVE  /\ Own(parked'[v][d], v, d)
                     /\ d = "config" => parked'[v][d] = parked[v][d]
            BY <1>1, <2>2, <3>1, <3>2, EntryValue DEF ParkedOwn
        <3> QED BY <3>1, <3>3 DEF ParkedOwn, Dirs
    <2> QED BY <1>4, <2>1, <2>2 DEF PrepareMods
<1>5. CASE SetLeftoverAside
    <2>1. /\ mc \in Versions /\ Turn \in Dirs /\ setFile' = setFile
          /\ parked' = parked \/ parked' = [parked EXCEPT ![mc][Turn] = NoFolder]
        BY <1>5, TurnInDirs DEF SetLeftoverAside, TypeOK
    <2>2. \A v \in Versions, d \in Dirs : parked'[v][d] \in {parked[v][d], NoFolder}
        BY <1>1, <2>1, EntryValue
    <2> QED BY <2>1, <2>2 DEF ParkedOwn, Own, Dirs
<1>6. CASE ParkFolder
    <2>1. /\ journal \in Journal /\ journal.from \in Versions /\ Turn \in Dirs
          /\ setFile' = setFile
        BY <1>6, TurnInDirs DEF ParkFolder, TypeOK, Journal
    <2>2. setFile[journal.from] # "seeded" /\ Own(active[Turn], journal.from, Turn)
        BY <1>6, <2>1, NoneAssumption DEF ParkFolder, UnderWay, ActiveOwn, StepOf
    <2>3. parked' = parked \/ parked' = [parked EXCEPT ![journal.from][Turn] = active[Turn]]
        BY <1>6 DEF ParkFolder
    <2>4. ASSUME NEW v \in Versions, NEW d \in Dirs
          PROVE  \/ parked'[v][d] = parked[v][d]
                 \/ v = journal.from /\ d = Turn /\ parked'[v][d] = active[Turn]
        BY <1>1, <2>1, <2>3, EntryValue
    <2> QED BY <2>1, <2>2, <2>4 DEF ParkedOwn, Dirs
<1>7. CASE BringIn
    BY <1>7, TurnInDirs DEF BringIn, Restoring, ParkedOwn, Own, TypeOK, Journal
<1>8. CASE WriteParkedInfo \/ DropTargetInfo
    BY <1>8 DEF WriteParkedInfo, DropTargetInfo, ParkedOwn, TypeOK, Journal
<1>9. ASSUME NEW v \in Versions, RemoveSet(v) PROVE ParkedOwn'
    BY <1>9 DEF RemoveSet, ParkedOwn, Own, TypeOK
<1>10. ASSUME NEW t \in trash, PutSetBack(t) PROVE ParkedOwn'
    BY <1>10 DEF PutSetBack, ParkedOwn, TrashOwn, Own, TypeOK, TrashItem
<1> QED
    BY <1>2, <1>3, <1>4, <1>5, <1>6, <1>7, <1>8, <1>9, <1>10
    DEF vars, OrderlyNext, Use, Run, MakeFolder, SyncPack, RecordPlayed, BeginSwitch,
        RestoreTrashedSet, WriteJournal, ClearTheWay, StartCopy, FinishCopy,
        PlaceCopy, StartEmpty, NothingToRestore, WriteParkedState,
        WriteActiveState, WriteActiveInfo, DropTargetState, SaveStep, Advance,
        UpdateInstance, Finish, Interrupt, Resume

LEMMA TrashStep ==
    ASSUME TypeOK, ParkedOwn, TrashOwn, [OrderlyNext]_vars
    PROVE  TrashOwn'
<1>1. CASE UNCHANGED trash
    BY <1>1 DEF TrashOwn
<1>2. ASSUME NEW v \in Versions, RemoveSet(v) PROVE TrashOwn'
    BY <1>2 DEF RemoveSet, TrashOwn, ParkedOwn
<1>3. ASSUME NEW t \in trash, PutSetBack(t) PROVE TrashOwn'
    BY <1>3 DEF PutSetBack, TrashOwn
<1> QED
    BY <1>1, <1>2, <1>3
    DEF vars, OrderlyNext, Use, Run, MakeFolder, SyncPack, RecordPlayed, Prepare,
        BeginSwitch, PrepareMods, RestoreTrashedSet, SetLeftoverAside,
        WriteJournal, ParkFolder, ClearTheWay, BringIn, StartCopy, FinishCopy,
        PlaceCopy, StartEmpty, NothingToRestore, WriteParkedState,
        WriteParkedInfo, WriteActiveState, WriteActiveInfo, DropTargetState,
        DropTargetInfo, SaveStep, Advance, UpdateInstance, Finish, Interrupt,
        Resume

LEMMA AtRestStep ==
    ASSUME SetsInv, [OrderlyNext]_vars
    PROVE  AtRestOwn'
<1> SUFFICES ASSUME journal' = NoJournal PROVE AtRestOwn'
    BY DEF AtRestOwn
<1> USE DEF folderVars, recordVars, runVars
<1>0. /\ TypeOK /\ AtRestOwn /\ UnderWay /\ ActiveOwn /\ TrashOwn
      /\ parked \in [Versions -> [Dirs -> MaybeFolder]] /\ Turn \in Dirs
    BY TurnInDirs DEF SetsInv, TypeOK
<1>1. TypeOK'
    BY <1>0, TypeStep DEF AnyNext, Next
<1>2. pc' \in {"idle", "begin", "prepare"}
    BY <1>1 DEF TypeOK
<1>3. ASSUME NEW d \in Dirs, MakeFolder(d) PROVE AtRestOwn'
    BY <1>0, <1>3 DEF MakeFolder, AtRest, AtRestOwn, Own, Fresh, TypeOK
<1>4. CASE SyncPack \/ RecordPlayed
    BY <1>0, <1>4 DEF SyncPack, RecordPlayed, AtRest, AtRestOwn
<1>5. ASSUME NEW v \in Versions, Prepare(v) \/ BeginSwitch(v) PROVE AtRestOwn'
    BY <1>0, <1>5 DEF Prepare, BeginSwitch, AtRest, AtRestOwn, TypeOK
<1>6. CASE PrepareMods /\ journal = NoJournal
    <2>1. goal \in Versions /\ goal # mc /\ "mods" \in Dirs
        BY <1>0, <1>6 DEF PrepareMods, AtRestOwn, TypeOK, Dirs
    <2>2. \A d \in Dirs : parked'[mc][d] = parked[mc][d]
        BY <1>0, <1>6, <2>1, EntryValue DEF PrepareMods, TypeOK
    <2> QED BY <1>0, <1>6, <2>2 DEF PrepareMods, AtRestOwn
<1>7. CASE SetLeftoverAside /\ journal = NoJournal
    <2>1. \A d \in Dirs : parked'[mc][d] \in {parked[mc][d], NoFolder}
        BY <1>0, <1>7, EntryValue DEF SetLeftoverAside, TypeOK
    <2> QED BY <1>0, <1>7, <2>1 DEF SetLeftoverAside, Goto, AtRestOwn
<1>8. ASSUME NEW v \in Versions, RemoveSet(v) PROVE AtRestOwn'
    BY <1>0, <1>8 DEF RemoveSet, Stale, AtRestOwn, TypeOK
<1>9. CASE RestoreTrashedSet
    BY <1>0, <1>9 DEF RestoreTrashedSet, PutSetBack, AtRestOwn, TypeOK
<1>10. CASE Finish
    <2>1. journal \in Journal /\ journal.step = "finalize" /\ mc = journal.to
        BY <1>0, <1>10 DEF Finish, TypeOK, UnderWay, StepOf
    <2>2. setFile[mc] = "none"
        BY <1>0, <1>10, <2>1, NoneAssumption DEF UnderWay
    <2>3. \A d \in Dirs : Own(active[d], mc, d) /\ parked[mc][d] = NoFolder
        BY <1>0, <1>10, <2>1, NoneAssumption DEF ActiveOwn
    <2> QED BY <1>10, <2>2, <2>3 DEF Finish, Goto, AtRestOwn, Own
<1>11. CASE Interrupt
    BY <1>0, <1>11 DEF Interrupt, AtRestOwn
<1>12. CASE UNCHANGED vars
    BY <1>0, <1>12 DEF vars, AtRestOwn
<1>13. ~WriteJournal /\ ~(journal # NoJournal /\ UnderWaySteps) /\ ~(journal # NoJournal /\ Resume)
    BY <1>0, <1>1, <1>2 DEF WriteJournal, UnderWaySteps, ParkFolder, ClearTheWay,
       BringIn, StartCopy, FinishCopy, PlaceCopy, StartEmpty, NothingToRestore,
       WriteParkedState, WriteParkedInfo, WriteActiveState, WriteActiveInfo,
       DropTargetState, DropTargetInfo, SaveStep, Advance, UpdateInstance, Resume, Goto
<1> QED
    BY <1>3, <1>4, <1>5, <1>6, <1>7, <1>8, <1>9, <1>10, <1>11, <1>12, <1>13, StepKinds
    DEF AtRestSteps

LEMMA UnderWayStep ==
    ASSUME SetsInv, [OrderlyNext]_vars
    PROVE  UnderWay'
<1> SUFFICES ASSUME journal' # NoJournal PROVE UnderWay'
    BY DEF UnderWay
<1> USE DEF folderVars, recordVars, runVars
<1>0. /\ TypeOK /\ AtRestOwn /\ UnderWay /\ ActiveOwn /\ ParkedOwn
      /\ parked \in [Versions -> [Dirs -> MaybeFolder]] /\ Turn \in Dirs
    BY TurnInDirs DEF SetsInv, TypeOK
<1>1. journal # NoJournal => journal \in Journal /\ journal.from \in Versions /\ journal.to \in Versions
    BY <1>0 DEF TypeOK, Journal
<1>2. CASE WriteJournal /\ journal = NoJournal
    <2>1. /\ journal'.from = mc /\ journal'.to = goal /\ journal'.step = "park"
          /\ journal'.first = ~Returning(goal)
        BY <1>2 DEF WriteJournal, NewJournal
    <2>2. goal \in Versions /\ goal # mc /\ setFile[mc] = "none"
        BY <1>0, <1>2 DEF WriteJournal, AtRestOwn, TypeOK
    <2>3. journal'.first => parked[goal]["config"] = NoFolder
        BY <1>0, <2>1, <2>2 DEF Returning, HasParkedInfo, HasFolders, ParkedOwn, Dirs, TypeOK
    <2> QED BY <1>2, <2>1, <2>2, <2>3 DEF WriteJournal, UnderWay, StepOf
<1>3. CASE ParkFolder /\ journal # NoJournal
    <2>1. parked'[journal.to]["config"] = parked[journal.to]["config"]
        <3>1. parked' = parked \/ parked' = [parked EXCEPT ![journal.from][Turn] = active[Turn]]
            BY <1>3 DEF ParkFolder
        <3> QED BY <1>0, <1>1, <1>3, <3>1, EntryValue DEF UnderWay, Dirs
    <2> QED BY <1>0, <1>3, <2>1 DEF ParkFolder, Goto, UnderWay, StepOf
<1>4. CASE BringIn /\ journal # NoJournal
    <2>1. \A d \in Dirs : parked'[journal.to][d] \in {parked[journal.to][d], NoFolder}
        BY <1>0, <1>1, <1>4, EntryValue DEF BringIn
    <2> QED BY <1>0, <1>4, <2>1 DEF BringIn, Restoring, Goto, UnderWay, StepOf, Dirs
<1>5. CASE StartCopy /\ journal # NoJournal
    BY <1>0, <1>5 DEF StartCopy, Restoring, StartsCopy, Goto, UnderWay, StepOf, CopiesIn, Turn
<1>6. CASE FinishCopy /\ journal # NoJournal
    BY <1>0, <1>6 DEF FinishCopy, Goto, UnderWay, StepOf, CopiesIn, Turn
<1>7. CASE (PlaceCopy \/ ClearTheWay \/ StartEmpty \/ NothingToRestore) /\ journal # NoJournal
    BY <1>0, <1>7 DEF PlaceCopy, ClearTheWay, StartEmpty, NothingToRestore, Restoring,
       Goto, UnderWay, StepOf
<1>8. CASE /\ WriteParkedState \/ WriteParkedInfo \/ WriteActiveState \/ WriteActiveInfo
              \/ DropTargetState \/ DropTargetInfo
           /\ journal # NoJournal
    BY <1>0, <1>1, <1>8 DEF WriteParkedState, WriteParkedInfo, WriteActiveState,
       WriteActiveInfo, DropTargetState, DropTargetInfo, Goto, UnderWay, StepOf, TypeOK
<1>9. CASE SaveStep /\ journal # NoJournal
    <2>1. PICK p \in {"park", "restore", "written"}, s \in {"restore", "states", "finalize"} :
             /\ <<p, s>> \in {<<"park", "restore">>, <<"restore", "states">>,
                              <<"written", "finalize">>}
             /\ pc = p /\ pc' = s /\ journal' = [journal EXCEPT !.step = s]
             /\ UNCHANGED <<parked, setFile, mc>>
        BY <1>9 DEF SaveStep, Advance, Goto
    <2>2. /\ journal'.step = s /\ journal'.from = journal.from /\ journal'.to = journal.to
          /\ journal'.first = journal.first
        BY <1>1, <1>9, <2>1 DEF Journal
    <2> QED BY <1>0, <1>9, <2>1, <2>2 DEF UnderWay, StepOf
<1>10. CASE UpdateInstance /\ journal # NoJournal
    BY <1>0, <1>10 DEF UpdateInstance, Goto, UnderWay, StepOf
<1>11. CASE Interrupt
    BY <1>0, <1>11 DEF Interrupt, UnderWay
<1>12. CASE Resume /\ journal # NoJournal
    BY <1>0, <1>1, <1>12 DEF Resume, Goto, UnderWay, StepOf, Journal, Steps
<1>13. CASE UNCHANGED vars
    BY <1>0, <1>13 DEF vars, UnderWay, CopiesIn, Turn
<1>14. ~Finish /\ (journal = NoJournal => ~AtRestSteps /\ ~SetLeftoverAside /\ ~PrepareMods)
    BY DEF Finish, AtRestSteps, MakeFolder, SyncPack, RecordPlayed, Prepare,
       BeginSwitch, RemoveSet, RestoreTrashedSet, PutSetBack, SetLeftoverAside,
       PrepareMods
<1> QED
    BY <1>2, <1>3, <1>4, <1>5, <1>6, <1>7, <1>8, <1>9, <1>10, <1>11, <1>12, <1>13,
       <1>14, StepKinds
    DEF UnderWaySteps

LEMMA ActiveStep ==
    ASSUME SetsInv, [OrderlyNext]_vars
    PROVE  ActiveOwn'
<1> SUFFICES ASSUME journal' # NoJournal PROVE ActiveOwn'
    BY DEF ActiveOwn
<1> USE DEF folderVars, recordVars, runVars
<1>0. /\ TypeOK /\ AtRestOwn /\ UnderWay /\ ActiveOwn /\ ParkedOwn /\ CopyUnderWay
      /\ parked \in [Versions -> [Dirs -> MaybeFolder]] /\ Turn \in Dirs
      /\ active \in [Dirs -> MaybeFolder] /\ todo \in SUBSET Dirs
    BY TurnInDirs DEF SetsInv, TypeOK
<1>1. journal # NoJournal => /\ journal \in Journal /\ journal.from \in Versions
                             /\ journal.to \in Versions /\ journal.from # journal.to
    BY <1>0 DEF TypeOK, Journal, UnderWay
<1>2. CASE WriteJournal /\ journal = NoJournal
    <2>1. /\ journal'.from = mc /\ journal'.step = "park" /\ pc' = "park" /\ todo' = Dirs
          /\ UNCHANGED <<active, parked>>
        BY <1>2 DEF WriteJournal, NewJournal
    <2> QED BY <1>0, <1>2, <2>1 DEF AtRestOwn, ActiveOwn
<1>3. CASE ParkFolder /\ journal # NoJournal
    <2>1. /\ journal' = journal /\ journal.step = "park" /\ pc' = "park" /\ todo' = todo \ {Turn}
        BY <1>0, <1>3 DEF ParkFolder, Goto, UnderWay, StepOf
    <2>2. CASE UNCHANGED <<active, parked>>
        BY <1>0, <1>3, <2>1, <2>2 DEF ParkFolder, ActiveOwn
    <2>3. CASE /\ parked' = [parked EXCEPT ![journal.from][Turn] = active[Turn]]
               /\ active' = [active EXCEPT ![Turn] = NoFolder]
        <3>1. \A d \in Dirs : d # Turn => /\ active'[d] = active[d]
                                          /\ parked'[journal.from][d] = parked[journal.from][d]
            BY <1>0, <1>1, <1>3, <2>3, EntryValue
        <3>2. active'[Turn] = NoFolder
            BY <1>0, <2>3
        <3> QED BY <1>0, <1>3, <2>1, <3>1, <3>2 DEF ParkFolder, ActiveOwn, Own
    <2> QED BY <1>3, <2>2, <2>3 DEF ParkFolder
<1>4. CASE ClearTheWay /\ journal # NoJournal
    BY <1>0, <1>4 DEF ClearTheWay, Restoring, UnderWay, StepOf, ActiveOwn, Own
<1>5. CASE BringIn /\ journal # NoJournal
    <2>1. /\ journal' = journal /\ journal.step = "restore" /\ pc' = "restore"
          /\ todo' = todo \ {Turn}
        BY <1>0, <1>5 DEF BringIn, Restoring, Goto, UnderWay, StepOf
    <2>2. /\ parked'[journal.to][Turn] = NoFolder
          /\ active'[Turn] = parked[journal.to][Turn]
          /\ \A d \in Dirs : d # Turn => /\ active'[d] = active[d]
                                         /\ parked'[journal.to][d] = parked[journal.to][d]
        BY <1>0, <1>1, <1>5, EntryValue DEF BringIn
    <2>3. Own(parked[journal.to][Turn], journal.to, Turn)
        BY <1>0, <1>1, <1>5 DEF ParkedOwn
    <2> QED BY <1>0, <1>5, <2>1, <2>2, <2>3 DEF BringIn, Restoring, ActiveOwn, Own
<1>6. CASE (StartCopy \/ FinishCopy) /\ journal # NoJournal
    BY <1>0, <1>6 DEF StartCopy, FinishCopy, Restoring, Goto, UnderWay, StepOf, ActiveOwn
<1>7. CASE PlaceCopy /\ journal # NoJournal
    <2>1. /\ journal' = journal /\ journal.step = "restore" /\ pc' = "restore"
          /\ todo' = todo \ {Turn} /\ parked' = parked
          /\ active' = [active EXCEPT ![Turn] = Fresh(journal.to, Turn)]
        BY <1>0, <1>7 DEF PlaceCopy, Goto, UnderWay, StepOf, CopyUnderWay
    <2>2. parked[journal.to][Turn] = NoFolder
        BY <1>0, <1>7 DEF PlaceCopy, UnderWay, CopiesIn, Copied
    <2>3. Own(Fresh(journal.to, Turn), journal.to, Turn)
        BY <1>0, <1>1, <1>7 DEF Own, Fresh, TypeOK
    <2> QED BY <1>0, <1>7, <2>1, <2>2, <2>3 DEF PlaceCopy, ActiveOwn
<1>8. CASE StartEmpty /\ journal # NoJournal
    <2>1. /\ journal' = journal /\ journal.step = "restore" /\ pc' = "restore"
          /\ todo' = todo \ {Turn} /\ parked' = parked
          /\ active' = [active EXCEPT ![Turn] = Fresh(journal.to, Turn)]
        BY <1>0, <1>8 DEF StartEmpty, Restoring, Goto, UnderWay, StepOf
    <2>2. parked[journal.to][Turn] = NoFolder
        BY <1>8 DEF StartEmpty, StartsEmpty, ComesIn
    <2>3. Own(Fresh(journal.to, Turn), journal.to, Turn)
        BY <1>0, <1>1, <1>8 DEF Own, Fresh, TypeOK
    <2> QED BY <1>0, <1>8, <2>1, <2>2, <2>3 DEF StartEmpty, Restoring, ActiveOwn
<1>9. CASE NothingToRestore /\ journal # NoJournal
    <2>1. /\ journal' = journal /\ journal.step = "restore" /\ pc' = "restore" /\ pc = "restore"
          /\ todo' = todo \ {Turn} /\ UNCHANGED <<parked, active>>
        BY <1>0, <1>9 DEF NothingToRestore, Restoring, Goto, UnderWay, StepOf
    <2>2. parked[journal.to][Turn] = NoFolder
        BY <1>0, <1>9 DEF NothingToRestore, ComesIn, UnderWay, CopiesIn, Copied
    <2> QED BY <1>0, <1>9, <2>1, <2>2 DEF ActiveOwn
<1>10. CASE /\ WriteParkedState \/ WriteParkedInfo \/ WriteActiveState \/ WriteActiveInfo
               \/ DropTargetState \/ DropTargetInfo \/ UpdateInstance
            /\ journal # NoJournal
    <2>1. journal' = journal /\ UNCHANGED <<active, parked>> /\ journal.step \in {"states", "finalize"}
        BY <1>0, <1>10 DEF WriteParkedState, WriteParkedInfo, WriteActiveState,
           WriteActiveInfo, DropTargetState, DropTargetInfo, UpdateInstance, UnderWay, StepOf
    <2> QED BY <1>0, <1>10, <2>1 DEF ActiveOwn
<1>11. CASE SaveStep /\ journal # NoJournal
    <2>1. /\ journal'.from = journal.from /\ journal'.to = journal.to
          /\ UNCHANGED <<active, parked>> /\ todo = {}
        BY <1>1, <1>11 DEF SaveStep, Advance, Journal
    <2>2. CASE Advance("park", "restore")
        <3>1. /\ journal.step = "park" /\ journal'.step = "restore" /\ todo' = Dirs
              /\ \A d \in Dirs : active[d] = NoFolder
            BY <1>0, <1>1, <1>11, <2>1, <2>2
            DEF Advance, Goto, UnderWay, StepOf, ActiveOwn, Journal
        <3> QED BY <2>1, <3>1 DEF ActiveOwn, Own
    <2>3. CASE Advance("restore", "states") \/ Advance("written", "finalize")
        <3>1. /\ journal'.step \in {"states", "finalize"}
              /\ \A d \in Dirs : Own(active[d], journal.to, d) /\ parked[journal.to][d] = NoFolder
            BY <1>0, <1>1, <1>11, <2>1, <2>3
            DEF Advance, UnderWay, StepOf, ActiveOwn, Journal
        <3> QED BY <2>1, <3>1 DEF ActiveOwn, Own
    <2> QED BY <1>11, <2>2, <2>3 DEF SaveStep
<1>12. CASE Interrupt
    BY <1>0, <1>12 DEF Interrupt, ActiveOwn
<1>13. CASE Resume /\ journal # NoJournal
    BY <1>0, <1>1, <1>13 DEF Resume, Goto, ActiveOwn, Journal, Steps
<1>14. CASE UNCHANGED vars
    BY <1>0, <1>14 DEF vars, ActiveOwn
<1>15. ~Finish /\ (journal = NoJournal => ~AtRestSteps /\ ~SetLeftoverAside /\ ~PrepareMods)
    BY DEF Finish, AtRestSteps, MakeFolder, SyncPack, RecordPlayed, Prepare,
       BeginSwitch, RemoveSet, RestoreTrashedSet, PutSetBack, SetLeftoverAside,
       PrepareMods
<1> QED
    BY <1>2, <1>3, <1>4, <1>5, <1>6, <1>7, <1>8, <1>9, <1>10, <1>11, <1>12, <1>13,
       <1>14, <1>15, StepKinds
    DEF UnderWaySteps

LEMMA SetsAlways == OrderlySpec => []SetsInv
<1>1. Init => SetsInv
    <2>1. Init => TypeOK
        BY NoneAssumption DEF Init, NoFolders, TypeOK, MaybeFolder, MaybeState, PCs
    <2>2. Init => CopyUnderWay /\ ParkedOwn /\ TrashOwn /\ AtRestOwn /\ UnderWay /\ ActiveOwn
        BY DEF Init, CopyUnderWay, ParkedOwn, TrashOwn, AtRestOwn, UnderWay, ActiveOwn, Own, Dirs
    <2> QED BY <2>1, <2>2 DEF SetsInv
<1>2. SetsInv /\ [OrderlyNext]_vars => SetsInv'
    BY TypeStep, CopyStep, ParkedStep, TrashStep, AtRestStep, UnderWayStep, ActiveStep
    DEF SetsInv, AnyNext, Next
<1> QED BY <1>1, <1>2, PTL DEF OrderlySpec

\* Whenever no switch is unfinished, a version's folders are only found in its
\* own set, and the active one is whole: park and restore may be interrupted
\* and repeated at any step, as long as no set is put back into the switch.
THEOREM EachOwn == OrderlySpec => []EachToItsOwn
<1>1. SetsInv => EachToItsOwn
    BY DEF SetsInv, TypeOK, ParkedOwn, AtRestOwn, Own, EachToItsOwn
<1> QED BY <1>1, SetsAlways, PTL

(***************************************************************************)
(* What a switch leaves.  The steps of restore and of write_states are     *)
(* repeated after an interruption, so what they have done is told by the   *)
(* journal's step and, while the step runs, by what it has still to do.    *)
(***************************************************************************)
\* No leftover ever is in the way: nothing is moved aside but on a damaged disk.
AsideEmpty ==
    /\ \A v \in Versions : aside[v] = {}
    /\ \A t \in trash : t.aside = {}

\* The target's folders are there as far as restore has come.
PlacedInv ==
    journal # NoJournal =>
        /\ journal.step = "restore" =>
              /\ pc # "idle" /\ "mods" \notin todo => active["mods"] # NoFolder
              /\ journal.first =>
                    /\ active["config"] # NoFolder => parked[journal.from]["config"] # NoFolder
                    /\ pc # "idle" /\ "config" \notin todo /\ parked[journal.from]["config"] # NoFolder
                          => active["config"] # NoFolder
              /\ pc \in {"copying", "copied"} => parked[journal.from]["config"] # NoFolder
        /\ journal.step \in {"states", "finalize"} =>
              /\ active["mods"] # NoFolder
              /\ journal.first =>
                   (active["config"] # NoFolder <=> parked[journal.from]["config"] # NoFolder)

\* write_states has come to one of the labels, or is done.
Reached(labels) == pc \in labels \/ journal.step = "finalize"

WrittenInv ==
    journal # NoJournal =>
        /\ Reached({"parkedInfo", "activeState", "activeInfo", "dropState", "dropInfo", "written"})
              => parkedState[journal.from] = journal.parkedState
        /\ Reached({"activeState", "activeInfo", "dropState", "dropInfo", "written"})
              => setFile[journal.from] = "parked"
        /\ Reached({"activeInfo", "dropState", "dropInfo", "written"})
              => activeState = journal.activeState
        /\ Reached({"dropState", "dropInfo", "written"}) => activeInfo = journal.to
        /\ Reached({"dropInfo", "written"}) => parkedState[journal.to] = NoState

\* A folder of the version that is left, until park is done with it.
Left(d) ==
    \/ journal.step = "park" /\ active[d] # NoFolder
    \/ parked[journal.from][d] # NoFolder

\* The records in the journal are those of the folders that will be beside them.
JournalRecords ==
    /\ journal.parkedState # NoState =>
          journal.parkedState.ver = journal.from /\ \A d \in journal.parkedState.dirs : Left(d)
    /\ journal.activeState # NoState =>
          /\ journal.activeState.ver = journal.to
          /\ \A d \in journal.activeState.dirs :
                IF journal.first
                THEN d = "config" /\ Left(d)
                ELSE \/ parked[journal.to][d] # NoFolder
                     \/ journal.step # "park" /\ active[d] # NoFolder

RecordsInv ==
    /\ journal = NoJournal => Describes(activeState, mc, active)
    /\ journal # NoJournal => JournalRecords
    /\ \A v \in Versions :
          \/ journal # NoJournal /\ v \in {journal.from, journal.to}
          \/ Describes(parkedState[v], v, parked[v])
    /\ \A t \in trash : Describes(t.state, t.ver, t.dirs)

SwitchInv == SetsInv /\ AsideEmpty /\ PlacedInv /\ WrittenInv /\ RecordsInv

LEMMA WayIsClear == SetsInv => ~ClearTheWay
BY TurnInDirs
DEF SetsInv, TypeOK, UnderWay, ActiveOwn, StepOf, ClearTheWay, Restoring, ComesIn

LEMMA NoLeftover == SetsInv /\ SetLeftoverAside => journal = NoJournal /\ UNCHANGED <<parked, aside>>
<1> SUFFICES ASSUME SetsInv, SetLeftoverAside
             PROVE  journal = NoJournal /\ UNCHANGED <<parked, aside>>
    OBVIOUS
<1>1. journal = NoJournal
    BY DEF SetsInv, UnderWay, SetLeftoverAside
<1>2. parked[mc][Turn] = NoFolder
    BY <1>1, TurnInDirs DEF SetsInv, AtRestOwn
<1> QED BY <1>1, <1>2 DEF SetLeftoverAside

LEMMA AsideStep ==
    ASSUME SetsInv, AsideEmpty, [OrderlyNext]_vars
    PROVE  AsideEmpty'
<1> USE DEF folderVars
<1>1. CASE UNCHANGED <<aside, trash>>
    BY <1>1 DEF AsideEmpty
<1>2. CASE SetLeftoverAside
    BY <1>2, NoLeftover DEF SetLeftoverAside, AsideEmpty
<1>3. ASSUME NEW v \in Versions, RemoveSet(v) PROVE AsideEmpty'
    BY <1>3 DEF RemoveSet, AsideEmpty, SetsInv, TypeOK
<1>4. ASSUME NEW t \in trash, PutSetBack(t) PROVE AsideEmpty'
    BY <1>4 DEF PutSetBack, AsideEmpty, SetsInv, TypeOK
<1> QED
    BY <1>1, <1>2, <1>3, <1>4, WayIsClear
    DEF vars, OrderlyNext, Use, Run, MakeFolder, SyncPack, RecordPlayed, Prepare,
        BeginSwitch, PrepareMods, RestoreTrashedSet, WriteJournal, ParkFolder,
        BringIn, StartCopy, FinishCopy, PlaceCopy, StartEmpty, NothingToRestore,
        WriteParkedState, WriteParkedInfo, WriteActiveState, WriteActiveInfo,
        DropTargetState, DropTargetInfo, SaveStep, Advance, UpdateInstance, Finish,
        Interrupt, Resume

(***************************************************************************)
(* What a step of an unfinished switch does to the folders, as one of four *)
(* effects.                                                                *)
(***************************************************************************)
FoldersStay == UNCHANGED <<active, parked, made>>

FolderParked ==
    /\ journal.step = "park" /\ UNCHANGED <<journal, made>>
    /\ active[Turn] # NoFolder /\ parked[journal.from][Turn] = NoFolder
    /\ \A d \in Dirs : active'[d] = IF d = Turn THEN NoFolder ELSE active[d]
    /\ \A v \in Versions, d \in Dirs :
          parked'[v][d] = IF v = journal.from /\ d = Turn THEN active[d] ELSE parked[v][d]

FolderBrought ==
    /\ journal.step = "restore" /\ UNCHANGED <<journal, made>>
    /\ active[Turn] = NoFolder /\ parked[journal.to][Turn] # NoFolder
    /\ \A d \in Dirs :
          active'[d] = IF d = Turn THEN parked[journal.to][d] ELSE active[d]
    /\ \A v \in Versions, d \in Dirs :
          parked'[v][d] = IF v = journal.to /\ d = Turn THEN NoFolder ELSE parked[v][d]

FolderStarted ==
    /\ journal.step = "restore" /\ UNCHANGED <<journal, parked>>
    /\ active[Turn] = NoFolder /\ parked[journal.to][Turn] = NoFolder
    /\ made' = Count(journal.to, Turn)
    /\ \A d \in Dirs :
          active'[d] = IF d = Turn THEN Fresh(journal.to, d) ELSE active[d]

LEMMA FolderSteps ==
    ASSUME SetsInv, journal # NoJournal, UnderWaySteps
    PROVE  /\ FoldersStay \/ FolderParked \/ FolderBrought \/ FolderStarted
           /\ UNCHANGED trash
           /\ ~UpdateInstance => UNCHANGED mc
<1> USE DEF folderVars, recordVars, runVars
<1>0. /\ TypeOK /\ UnderWay /\ ActiveOwn /\ CopyUnderWay /\ Turn \in Dirs
      /\ parked \in [Versions -> [Dirs -> MaybeFolder]]
      /\ active \in [Dirs -> MaybeFolder]
      /\ journal.from \in Versions /\ journal.to \in Versions
    BY TurnInDirs DEF SetsInv, TypeOK, Journal
<1>1. CASE ParkFolder
    <2>1. journal.step = "park"
        BY <1>0, <1>1 DEF ParkFolder, UnderWay, StepOf
    <2>2. CASE UNCHANGED <<active, parked>>
        BY <1>1, <2>2 DEF ParkFolder, FoldersStay
    <2>3. CASE /\ active[Turn] # NoFolder /\ parked[journal.from][Turn] = NoFolder
               /\ parked' = [parked EXCEPT ![journal.from][Turn] = active[Turn]]
               /\ active' = [active EXCEPT ![Turn] = NoFolder]
        <3>1. \A v \in Versions, d \in Dirs :
                parked'[v][d] = IF v = journal.from /\ d = Turn THEN active[d] ELSE parked[v][d]
            BY <1>0, <2>3, EntryValue
        <3>2. \A d \in Dirs : active'[d] = IF d = Turn THEN NoFolder ELSE active[d]
            BY <1>0, <2>3
        <3> QED BY <1>1, <2>1, <2>3, <3>1, <3>2 DEF ParkFolder, FolderParked
    <2> QED BY <1>1, <2>2, <2>3 DEF ParkFolder
<1>2. CASE BringIn
    <2>1. journal.step = "restore"
        BY <1>0, <1>2 DEF BringIn, Restoring, UnderWay, StepOf
    <2>2. \A v \in Versions, d \in Dirs :
            parked'[v][d] = IF v = journal.to /\ d = Turn THEN NoFolder ELSE parked[v][d]
        BY <1>0, <1>2, EntryValue DEF BringIn
    <2>3. \A d \in Dirs :
            active'[d] = IF d = Turn THEN parked[journal.to][d] ELSE active[d]
        BY <1>0, <1>2 DEF BringIn
    <2> QED BY <1>2, <2>1, <2>2, <2>3 DEF BringIn, ComesIn, FolderBrought
<1>3. CASE PlaceCopy \/ StartEmpty
    <2>1. /\ journal.step = "restore" /\ parked[journal.to][Turn] = NoFolder
          /\ active[Turn] = NoFolder
        BY <1>0, <1>3 DEF PlaceCopy, StartEmpty, StartsEmpty, ComesIn, Restoring, UnderWay,
           StepOf, CopyUnderWay, CopiesIn, Copied
    <2>2. active' = [active EXCEPT ![Turn] = Fresh(journal.to, Turn)]
        BY <1>0, <1>3 DEF PlaceCopy, StartEmpty, CopyUnderWay
    <2>3. \A d \in Dirs : active'[d] = IF d = Turn THEN Fresh(journal.to, d) ELSE active[d]
        BY <1>0, <2>2
    <2> QED BY <1>3, <2>1, <2>3 DEF PlaceCopy, StartEmpty, FolderStarted
<1>4. CASE UNCHANGED <<active, parked, made, trash>>
    BY <1>4 DEF FoldersStay, UnderWaySteps, ParkFolder, ClearTheWay, BringIn, StartCopy,
       FinishCopy, PlaceCopy, StartEmpty, NothingToRestore, WriteParkedState,
       WriteParkedInfo, WriteActiveState, WriteActiveInfo, DropTargetState,
       DropTargetInfo, SaveStep, Advance
<1>5. UNCHANGED trash /\ (~UpdateInstance => UNCHANGED mc)
    BY DEF UnderWaySteps, ParkFolder, ClearTheWay, BringIn, StartCopy,
       FinishCopy, PlaceCopy, StartEmpty, NothingToRestore, WriteParkedState,
       WriteParkedInfo, WriteActiveState, WriteActiveInfo, DropTargetState,
       DropTargetInfo, SaveStep, Advance, UpdateInstance
<1>6. \/ ParkFolder \/ BringIn \/ PlaceCopy \/ StartEmpty
      \/ UNCHANGED <<active, parked, made, trash>>
    BY WayIsClear DEF UnderWaySteps, StartCopy, FinishCopy, NothingToRestore,
       WriteParkedState, WriteParkedInfo, WriteActiveState, WriteActiveInfo,
       DropTargetState, DropTargetInfo, SaveStep, Advance, UpdateInstance
<1> QED BY <1>1, <1>2, <1>3, <1>4, <1>5, <1>6

LEMMA PlacedStep ==
    ASSUME SetsInv, PlacedInv, [OrderlyNext]_vars
    PROVE  PlacedInv'
<1> SUFFICES ASSUME journal' # NoJournal PROVE PlacedInv'
    BY DEF PlacedInv
<1> USE DEF folderVars, recordVars, runVars
<1>0. /\ TypeOK /\ UnderWay /\ ActiveOwn /\ CopyUnderWay
      /\ active \in [Dirs -> MaybeFolder] /\ "mods" \in Dirs /\ "config" \in Dirs
      /\ parked \in [Versions -> [Dirs -> MaybeFolder]]
    BY DEF SetsInv, TypeOK, Dirs
<1>1. journal # NoJournal => /\ journal \in Journal /\ journal.from \in Versions
                             /\ journal.to \in Versions /\ journal.from # journal.to
    BY <1>0 DEF TypeOK, Journal, UnderWay
<1>2. Turn \in Dirs /\ \A d \in Dirs : d \in todo /\ d \notin todo \ {Turn} => d = Turn
    BY TurnInDirs
<1>3. CASE WriteJournal /\ journal = NoJournal
    BY <1>3 DEF WriteJournal, NewJournal, PlacedInv
<1>4. CASE ParkFolder /\ journal # NoJournal
    BY <1>0, <1>4 DEF ParkFolder, UnderWay, StepOf, PlacedInv
<1>5. CASE BringIn /\ journal # NoJournal
    <2>1. /\ journal' = journal /\ journal.step = "restore" /\ pc = "restore" /\ pc' = "restore"
          /\ todo' = todo \ {Turn}
        BY <1>0, <1>5 DEF BringIn, Restoring, Goto, UnderWay, StepOf
    <2>2. active'[Turn] # NoFolder /\ \A d \in Dirs : d # Turn => active'[d] = active[d]
        BY <1>0, <1>2, <1>5 DEF BringIn, ComesIn
    <2>3. \A d \in Dirs : parked'[journal.from][d] = parked[journal.from][d]
        BY <1>0, <1>1, <1>2, <1>5, EntryValue DEF BringIn
    <2>4. journal.first => Turn # "config"
        BY <1>5 DEF BringIn, ComesIn, CopiesIn, Copied
    <2> QED BY <1>0, <1>2, <1>5, <2>1, <2>2, <2>3, <2>4 DEF PlacedInv
<1>6. CASE StartCopy /\ journal # NoJournal
    <2>1. /\ journal' = journal /\ journal.step = "restore" /\ pc = "restore"
          /\ UNCHANGED <<active, parked, todo>>
        BY <1>0, <1>6 DEF StartCopy, Restoring, Goto, UnderWay, StepOf
    <2>2. parked[journal.from]["config"] # NoFolder
        BY <1>6 DEF StartCopy, StartsCopy, CopiesIn, Copied
    <2> QED BY <1>6, <2>1, <2>2 DEF PlacedInv
<1>7. CASE FinishCopy /\ journal # NoJournal
    BY <1>0, <1>7 DEF FinishCopy, Goto, UnderWay, StepOf, PlacedInv
<1>8. CASE PlaceCopy /\ journal # NoJournal
    <2>1. /\ journal' = journal /\ journal.step = "restore" /\ pc = "copied" /\ pc' = "restore"
          /\ UNCHANGED parked /\ todo' = todo \ {Turn}
        BY <1>0, <1>8 DEF PlaceCopy, Goto, UnderWay, StepOf
    <2>2. Turn = "config" /\ Fresh(journal.to, Turn) # NoFolder
        BY <1>0, <1>1, <1>2, <1>8, NoneAssumption, FolderTypes
        DEF PlaceCopy, UnderWay, CopiesIn, Copied
    <2>3. active'["config"] # NoFolder /\ active'["mods"] = active["mods"]
        BY <1>0, <1>8, <2>2 DEF PlaceCopy, CopyUnderWay
    <2>4. parked[journal.from]["config"] # NoFolder
        BY <1>8, <2>1 DEF PlacedInv
    <2> QED BY <1>0, <1>2, <1>8, <2>1, <2>2, <2>3, <2>4 DEF PlacedInv
<1>9. CASE StartEmpty /\ journal # NoJournal
    <2>1. /\ journal' = journal /\ journal.step = "restore" /\ pc = "restore" /\ pc' = "restore"
          /\ UNCHANGED parked /\ todo' = todo \ {Turn} /\ Turn = "mods"
        BY <1>0, <1>9 DEF StartEmpty, StartsEmpty, Restoring, Goto, UnderWay, StepOf
    <2>2. Fresh(journal.to, Turn) # NoFolder
        BY <1>0, <1>1, <1>2, <1>9, NoneAssumption, FolderTypes
    <2>3. active'["mods"] # NoFolder /\ active'["config"] = active["config"]
        BY <1>0, <1>9, <2>1, <2>2 DEF StartEmpty
    <2> QED BY <1>0, <1>2, <1>9, <2>1, <2>3 DEF PlacedInv
<1>10. CASE NothingToRestore /\ journal # NoJournal
    <2>1. /\ journal' = journal /\ journal.step = "restore" /\ pc = "restore" /\ pc' = "restore"
          /\ UNCHANGED <<active, parked>> /\ todo' = todo \ {Turn}
        BY <1>0, <1>10 DEF NothingToRestore, Restoring, Goto, UnderWay, StepOf
    <2>2. Turn = "mods" => active["mods"] # NoFolder
        BY <1>10 DEF NothingToRestore, StartsEmpty, CopiesIn, Copied
    <2>3. Turn = "config" /\ journal.first /\ parked[journal.from]["config"] # NoFolder
            => active["config"] # NoFolder
        BY <1>10 DEF NothingToRestore, StartsCopy, CopiesIn, Copied
    <2> QED BY <1>0, <1>2, <1>10, <2>1, <2>2, <2>3 DEF PlacedInv
<1>11. CASE /\ WriteParkedState \/ WriteParkedInfo \/ WriteActiveState \/ WriteActiveInfo
               \/ DropTargetState \/ DropTargetInfo \/ UpdateInstance
            /\ journal # NoJournal
    <2>1. /\ journal' = journal /\ UNCHANGED <<active, parked>>
          /\ journal.step \in {"states", "finalize"}
        BY <1>0, <1>11 DEF WriteParkedState, WriteParkedInfo, WriteActiveState,
           WriteActiveInfo, DropTargetState, DropTargetInfo, UpdateInstance, UnderWay, StepOf
    <2> QED BY <1>11, <2>1 DEF PlacedInv
<1>12. CASE SaveStep /\ journal # NoJournal
    <2>1. /\ journal'.from = journal.from /\ journal'.first = journal.first
          /\ UNCHANGED <<active, parked>> /\ todo = {}
        BY <1>1, <1>12 DEF SaveStep, Advance, Journal
    <2>2. CASE Advance("park", "restore")
        <3>1. /\ journal'.step = "restore" /\ todo' = Dirs /\ pc' = "restore"
              /\ \A d \in Dirs : active[d] = NoFolder
            BY <1>0, <1>1, <1>12, <2>1, <2>2
            DEF Advance, Goto, UnderWay, StepOf, ActiveOwn, Journal
        <3> QED BY <1>0, <2>1, <3>1 DEF PlacedInv
    <2>3. CASE Advance("restore", "states") \/ Advance("written", "finalize")
        <3>1. /\ journal'.step \in {"states", "finalize"}
              /\ journal.step \in {"restore", "states"} /\ pc # "idle"
              /\ journal.step = "restore" => pc = "restore"
            BY <1>0, <1>1, <1>12, <2>3 DEF Advance, UnderWay, StepOf, Journal
        <3> QED BY <1>0, <1>12, <2>1, <3>1 DEF PlacedInv
    <2> QED BY <1>12, <2>2, <2>3 DEF SaveStep
<1>13. CASE Interrupt
    BY <1>0, <1>13 DEF Interrupt, PlacedInv
<1>14. CASE Resume /\ journal # NoJournal
    BY <1>0, <1>1, <1>14 DEF Resume, Goto, PlacedInv, Journal, Steps
<1>15. CASE UNCHANGED vars
    BY <1>0, <1>15 DEF vars, PlacedInv
<1>16. ~Finish /\ (journal = NoJournal => ~AtRestSteps /\ ~SetLeftoverAside /\ ~PrepareMods)
    BY DEF Finish, AtRestSteps, MakeFolder, SyncPack, RecordPlayed, Prepare,
       BeginSwitch, RemoveSet, RestoreTrashedSet, PutSetBack, SetLeftoverAside,
       PrepareMods
<1> QED
    BY <1>3, <1>4, <1>5, <1>6, <1>7, <1>8, <1>9, <1>10, <1>11, <1>12, <1>13, <1>14,
       <1>15, <1>16, StepKinds, WayIsClear
    DEF UnderWaySteps

LEMMA WrittenStep ==
    ASSUME SetsInv, WrittenInv, [OrderlyNext]_vars
    PROVE  WrittenInv'
<1> SUFFICES ASSUME journal' # NoJournal PROVE WrittenInv'
    BY DEF WrittenInv
<1> USE DEF folderVars, recordVars, runVars
<1>0. /\ TypeOK /\ UnderWay
      /\ parkedState \in [Versions -> MaybeState]
      /\ setFile \in [Versions -> {"none", "seeded", "parked"}]
    BY DEF SetsInv, TypeOK
<1>1. journal # NoJournal => /\ journal \in Journal /\ journal.from \in Versions
                             /\ journal.to \in Versions /\ journal.from # journal.to
    BY <1>0 DEF TypeOK, Journal, UnderWay
<1>2. CASE WriteJournal /\ journal = NoJournal
    BY <1>2 DEF WriteJournal, NewJournal, WrittenInv, Reached
<1>3. CASE /\ ParkFolder \/ BringIn \/ StartCopy \/ FinishCopy \/ PlaceCopy \/ StartEmpty
              \/ NothingToRestore
           /\ journal # NoJournal
    <2>1. /\ journal' = journal /\ journal.step \in {"park", "restore"}
          /\ pc' \in {"park", "restore", "copying", "copied"}
        BY <1>0, <1>3 DEF ParkFolder, BringIn, StartCopy, FinishCopy, PlaceCopy, StartEmpty,
           NothingToRestore, Restoring, Goto, UnderWay, StepOf
    <2> QED BY <2>1 DEF WrittenInv, Reached
<1>4. CASE WriteParkedState /\ journal # NoJournal
    <2>1. journal' = journal /\ journal.step = "states" /\ pc' = "parkedInfo"
        BY <1>0, <1>4 DEF WriteParkedState, Goto, UnderWay, StepOf
    <2>2. parkedState'[journal.from] = journal.parkedState
        BY <1>0, <1>1, <1>4 DEF WriteParkedState
    <2> QED BY <2>1, <2>2 DEF WrittenInv, Reached
<1>5. CASE WriteParkedInfo /\ journal # NoJournal
    <2>1. /\ journal' = journal /\ journal.step = "states" /\ pc = "parkedInfo"
          /\ pc' = "activeState" /\ UNCHANGED parkedState
        BY <1>0, <1>5 DEF WriteParkedInfo, Goto, UnderWay, StepOf
    <2>2. setFile'[journal.from] = "parked"
        BY <1>0, <1>1, <1>5 DEF WriteParkedInfo
    <2> QED BY <1>5, <2>1, <2>2 DEF WrittenInv, Reached
<1>6. CASE (WriteActiveState \/ WriteActiveInfo) /\ journal # NoJournal
    BY <1>0, <1>6 DEF WriteActiveState, WriteActiveInfo, Goto, UnderWay, StepOf, WrittenInv, Reached
<1>7. CASE DropTargetState /\ journal # NoJournal
    <2>1. /\ journal' = journal /\ journal.step = "states" /\ pc = "dropState"
          /\ pc' = "dropInfo" /\ UNCHANGED <<setFile, activeState, activeInfo>>
        BY <1>0, <1>7 DEF DropTargetState, Goto, UnderWay, StepOf
    <2>2. /\ parkedState'[journal.from] = parkedState[journal.from]
          /\ parkedState'[journal.to] = NoState
        BY <1>0, <1>1, <1>7 DEF DropTargetState
    <2> QED BY <1>7, <2>1, <2>2 DEF WrittenInv, Reached
<1>8. CASE DropTargetInfo /\ journal # NoJournal
    <2>1. /\ journal' = journal /\ journal.step = "states" /\ pc = "dropInfo"
          /\ pc' = "written" /\ UNCHANGED <<parkedState, activeState, activeInfo>>
        BY <1>0, <1>8 DEF DropTargetInfo, Goto, UnderWay, StepOf
    <2>2. setFile'[journal.from] = setFile[journal.from]
        BY <1>0, <1>1, <1>8 DEF DropTargetInfo
    <2> QED BY <1>8, <2>1, <2>2 DEF WrittenInv, Reached
<1>9. CASE SaveStep /\ journal # NoJournal
    <2>1. /\ journal'.from = journal.from /\ journal'.to = journal.to
          /\ journal'.parkedState = journal.parkedState
          /\ journal'.activeState = journal.activeState
          /\ UNCHANGED <<parkedState, setFile, activeState, activeInfo>>
        BY <1>1, <1>9 DEF SaveStep, Advance, Journal
    <2>2. CASE Advance("park", "restore") \/ Advance("restore", "states")
        <3>1. journal'.step \in {"restore", "states"} /\ pc' \in {"restore", "states"}
            BY <1>1, <1>9, <2>2 DEF Advance, Goto, Journal
        <3> QED BY <3>1 DEF WrittenInv, Reached
    <2>3. CASE Advance("written", "finalize")
        <3>1. pc = "written"
            BY <2>3 DEF Advance
        <3> QED BY <1>9, <2>1, <3>1 DEF WrittenInv, Reached
    <2> QED BY <1>9, <2>2, <2>3 DEF SaveStep
<1>10. CASE UpdateInstance /\ journal # NoJournal
    BY <1>0, <1>10 DEF UpdateInstance, Goto, UnderWay, StepOf, WrittenInv, Reached
<1>11. CASE Interrupt
    BY <1>0, <1>11 DEF Interrupt, WrittenInv, Reached
<1>12. CASE Resume /\ journal # NoJournal
    BY <1>0, <1>1, <1>12 DEF Resume, Goto, WrittenInv, Reached, Journal, Steps
<1>13. CASE UNCHANGED vars
    BY <1>0, <1>13 DEF vars, WrittenInv, Reached
<1>14. ~Finish /\ (journal = NoJournal => ~AtRestSteps /\ ~SetLeftoverAside /\ ~PrepareMods)
    BY DEF Finish, AtRestSteps, MakeFolder, SyncPack, RecordPlayed, Prepare,
       BeginSwitch, RemoveSet, RestoreTrashedSet, PutSetBack, SetLeftoverAside,
       PrepareMods
<1> QED
    BY <1>2, <1>3, <1>4, <1>5, <1>6, <1>7, <1>8, <1>9, <1>10, <1>11, <1>12, <1>13,
       <1>14, StepKinds, WayIsClear
    DEF UnderWaySteps

\* What describes a set describes it still when folders are added to it.
LEMMA DescribesMore ==
    ASSUME NEW state, NEW v, NEW old, NEW new, Describes(state, v, old),
           state # NoState => state.dirs \subseteq Dirs,
           \A d \in Dirs : old[d] # NoFolder => new[d] # NoFolder
    PROVE  Describes(state, v, new)
BY DEF Describes

LEMMA StateDirs ==
    ASSUME TypeOK
    PROVE  /\ activeState # NoState => activeState.dirs \subseteq Dirs
           /\ \A v \in Versions : parkedState[v] # NoState => parkedState[v].dirs \subseteq Dirs
           /\ journal # NoJournal =>
                 /\ journal.parkedState # NoState => journal.parkedState.dirs \subseteq Dirs
                 /\ journal.activeState # NoState => journal.activeState.dirs \subseteq Dirs
<1>1. \A s \in MaybeState : s # NoState => s.dirs \subseteq Dirs
    BY DEF MaybeState, PackState
<1>2. activeState \in MaybeState /\ \A v \in Versions : parkedState[v] \in MaybeState
    BY DEF TypeOK
<1>3. journal # NoJournal => journal.parkedState \in MaybeState /\ journal.activeState \in MaybeState
    BY DEF TypeOK, Journal
<1> QED BY <1>1, <1>2, <1>3

\* The split of the records: each half names folders its set will have.
LEMMA SplitRecords ==
    ASSUME SetsInv, RecordsInv, journal = NoJournal, WriteJournal
    PROVE  JournalRecords'
<1>1. /\ TypeOK /\ goal \in Versions /\ mc \in Versions /\ goal # mc
      /\ UNCHANGED <<active, parked>>
    BY DEF SetsInv, TypeOK, AtRestOwn, WriteJournal, folderVars
<1>2. /\ journal'.from = mc /\ journal'.to = goal /\ journal'.step = "park"
      /\ journal'.first = ~Returning(goal)
      /\ journal'.parkedState = ParkedSplit(mc)
      /\ journal'.activeState = ActiveSplit(goal, Returning(goal))
    BY DEF WriteJournal, NewJournal
<1>3. /\ Describes(activeState, mc, active)
      /\ Describes(parkedState[goal], goal, parked[goal])
    BY <1>1 DEF RecordsInv
<1>4. ParkedSplit(mc) # NoState =>
        /\ ParkedSplit(mc).ver = mc
        /\ \A d \in ParkedSplit(mc).dirs : active[d] # NoFolder
    BY <1>3 DEF ParkedSplit, Describes
<1>5. CASE ~Returning(goal)
    <2> DEFINE state == ActiveSplit(goal, FALSE)
    <2>1. state # NoState => /\ activeState # NoState /\ state.ver = goal
                             /\ state.dirs = activeState.dirs \cap Copied
        BY DEF ActiveSplit
    <2>2. state # NoState => /\ state.ver = goal
                             /\ \A d \in state.dirs : d = "config" /\ active[d] # NoFolder
        BY <1>3, <2>1 DEF Describes, Copied
    <2>3. journal'.activeState = state /\ journal'.first
        BY <1>2, <1>5 DEF Returning, HasParkedInfo
    <2> HIDE DEF state
    <2> QED BY <1>1, <1>2, <1>4, <2>2, <2>3 DEF JournalRecords, Left
<1>6. CASE Returning(goal)
    <2> DEFINE state == ActiveSplit(goal, TRUE)
    <2>1. parkedState[goal] # NoState => parkedState[goal] \in PackState
        BY <1>1 DEF TypeOK, MaybeState
    <2>2. state # NoState =>
             /\ state.ver = goal
             /\ \/ state.dirs = {}
                \/ parkedState[goal] # NoState /\ state.dirs = parkedState[goal].dirs
        BY <2>1 DEF ActiveSplit, PackState
    <2>3. state # NoState => /\ state.ver = goal
                             /\ \A d \in state.dirs : parked[goal][d] # NoFolder
        BY <1>3, <2>2 DEF Describes
    <2>4. journal'.activeState = state /\ ~journal'.first
        BY <1>2, <1>6 DEF Returning, HasParkedInfo
    <2> HIDE DEF state
    <2> QED BY <1>1, <1>2, <1>4, <2>3, <2>4 DEF JournalRecords, Left
<1> QED BY <1>5, <1>6

\* The folders named in the journal stay where the steps look for them.
LEMMA JournalRecordsStep ==
    ASSUME SetsInv, JournalRecords, journal # NoJournal, UnderWaySteps
    PROVE  JournalRecords'
<1>0. /\ TypeOK /\ UnderWay /\ ActiveOwn /\ journal \in Journal
      /\ journal.from \in Versions /\ journal.to \in Versions /\ journal.from # journal.to
      /\ Turn \in Dirs /\ "config" \in Dirs
    BY TurnInDirs DEF SetsInv, TypeOK, Journal, UnderWay, Dirs
<1>1. /\ journal.parkedState # NoState => journal.parkedState.dirs \subseteq Dirs
      /\ journal.activeState # NoState => journal.activeState.dirs \subseteq Dirs
    BY <1>0, StateDirs
<1>2. /\ journal'.from = journal.from /\ journal'.to = journal.to
      /\ journal'.first = journal.first
      /\ journal'.parkedState = journal.parkedState
      /\ journal'.activeState = journal.activeState
      /\ journal.step # "park" => journal'.step # "park"
      /\ \/ journal'.step = journal.step
         \/ \A d \in Dirs : journal.step = "park" => active[d] = NoFolder /\ active'[d] = NoFolder
    <2>1. CASE SaveStep
        <3>1. PICK s \in {"restore", "states", "finalize"} :
                 journal' = [journal EXCEPT !.step = s] /\ UNCHANGED active
            BY <2>1 DEF SaveStep, Advance, folderVars
        <3>2. journal.step = "park" => pc = "park" /\ todo = {}
            BY <1>0, <2>1 DEF SaveStep, Advance, UnderWay, StepOf
        <3>3. \A d \in Dirs : journal.step = "park" => active[d] = NoFolder
            BY <1>0, <3>2 DEF ActiveOwn
        <3> QED BY <1>0, <3>1, <3>3 DEF Journal
    <2>2. CASE UNCHANGED journal
        BY <2>2
    <2> QED BY <2>1, <2>2 DEF UnderWaySteps, ParkFolder, ClearTheWay, BringIn, StartCopy,
           FinishCopy, PlaceCopy, StartEmpty, NothingToRestore, WriteParkedState,
           WriteParkedInfo, WriteActiveState, WriteActiveInfo, DropTargetState,
           DropTargetInfo, UpdateInstance
<1>3. \A d \in Dirs : Left(d) => Left(d)'
    <2>1. CASE FoldersStay
        BY <1>0, <1>2, <2>1 DEF FoldersStay, Left
    <2>2. CASE FolderParked
        BY <1>0, <2>2 DEF FolderParked, Left
    <2>3. CASE FolderBrought
        BY <1>0, <2>3 DEF FolderBrought, Left
    <2>4. CASE FolderStarted
        BY <1>0, <2>4 DEF FolderStarted, Left
    <2> QED BY <2>1, <2>2, <2>3, <2>4, FolderSteps
<1>4. \A d \in Dirs :
         \/ parked[journal.to][d] # NoFolder
         \/ journal.step # "park" /\ active[d] # NoFolder
         => \/ parked'[journal.to][d] # NoFolder
            \/ journal'.step # "park" /\ active'[d] # NoFolder
    <2>1. CASE FoldersStay
        BY <1>0, <1>2, <2>1 DEF FoldersStay
    <2>2. CASE FolderParked
        BY <1>0, <2>2 DEF FolderParked
    <2>3. CASE FolderBrought
        BY <1>0, <1>2, <2>3 DEF FolderBrought
    <2>4. CASE FolderStarted
        BY <1>0, <1>2, <2>4 DEF FolderStarted
    <2> QED BY <2>1, <2>2, <2>3, <2>4, FolderSteps
<1>5. journal.parkedState # NoState =>
        journal.parkedState.ver = journal.from /\ \A d \in journal.parkedState.dirs : Left(d)'
    BY <1>1, <1>3 DEF JournalRecords
<1>6. journal.activeState # NoState =>
        /\ journal.activeState.ver = journal.to
        /\ journal.first => \A d \in journal.activeState.dirs : d = "config" /\ Left(d)'
        /\ ~journal.first => \A d \in journal.activeState.dirs :
              \/ parked'[journal.to][d] # NoFolder
              \/ journal'.step # "park" /\ active'[d] # NoFolder
    BY <1>1, <1>3, <1>4 DEF JournalRecords
<1>7. journal'.parkedState # NoState =>
        /\ journal'.parkedState.ver = journal'.from
        /\ \A d \in journal'.parkedState.dirs : Left(d)'
    BY <1>2, <1>5
<1>8. journal'.activeState # NoState =>
        /\ journal'.activeState.ver = journal'.to
        /\ \A d \in journal'.activeState.dirs :
              IF journal'.first
              THEN d = "config" /\ Left(d)'
              ELSE \/ parked'[journal'.to][d] # NoFolder
                   \/ journal'.step # "park" /\ active'[d] # NoFolder
    BY <1>2, <1>6
<1> QED BY <1>7, <1>8 DEF JournalRecords

\* Until it ends, a switch keeps its journal, but for the step.
LEMMA JournalKept ==
    ASSUME SetsInv, journal # NoJournal, UnderWaySteps
    PROVE  /\ journal' # NoJournal
           /\ journal'.from = journal.from /\ journal'.to = journal.to
           /\ journal'.activeState = journal.activeState
<1>1. journal \in Journal
    BY DEF SetsInv, TypeOK
<1>2. journal' = journal \/ \E s \in Steps : journal' = [journal EXCEPT !.step = s]
    BY DEF UnderWaySteps, ParkFolder, ClearTheWay, BringIn, StartCopy, FinishCopy,
       PlaceCopy, StartEmpty, NothingToRestore, WriteParkedState, WriteParkedInfo,
       WriteActiveState, WriteActiveInfo, DropTargetState, DropTargetInfo, SaveStep,
       Advance, UpdateInstance, Steps
<1>3. /\ journal' \in Journal
      /\ journal'.from = journal.from /\ journal'.to = journal.to
      /\ journal'.activeState = journal.activeState
    BY <1>1, <1>2 DEF Journal
<1> QED BY <1>3, NoneAssumption

\* Only the two sets of the switch have their records written.
LEMMA OthersKeepRecords ==
    ASSUME SetsInv, journal # NoJournal, UnderWaySteps,
           NEW v \in Versions, v \notin {journal.from, journal.to}
    PROVE  /\ parkedState'[v] = parkedState[v]
           /\ \A d \in Dirs : parked'[v][d] = parked[v][d]
           /\ v \notin {journal'.from, journal'.to} /\ journal' # NoJournal
<1>0. /\ parkedState \in [Versions -> MaybeState] /\ journal \in Journal
      /\ journal.from \in Versions /\ journal.to \in Versions
    BY DEF SetsInv, TypeOK, Journal
<1>1. parkedState'[v] = parkedState[v]
    BY <1>0 DEF UnderWaySteps, ParkFolder, ClearTheWay, BringIn, StartCopy, FinishCopy,
       PlaceCopy, StartEmpty, NothingToRestore, WriteParkedState, WriteParkedInfo,
       WriteActiveState, WriteActiveInfo, DropTargetState, DropTargetInfo, SaveStep,
       Advance, UpdateInstance, recordVars
<1>2. \A d \in Dirs : parked'[v][d] = parked[v][d]
    BY <1>0, FolderSteps DEF FoldersStay, FolderParked, FolderBrought, FolderStarted
<1> QED BY <1>1, <1>2, JournalKept

\* When a switch ends, the journal's records lie beside the folders they name.
LEMMA EndRecords ==
    ASSUME SwitchInv, journal # NoJournal, Finish
    PROVE  /\ Describes(activeState, mc, active)
           /\ \A v \in Versions : Describes(parkedState[v], v, parked[v])
<1>0. /\ TypeOK /\ JournalRecords /\ journal.step = "finalize" /\ mc = journal.to
      /\ journal.from \in Versions /\ journal.to \in Versions
      /\ \A d \in Dirs : parked[journal.to][d] = NoFolder
      /\ "config" \in Dirs
    BY DEF SwitchInv, SetsInv, TypeOK, Journal, UnderWay, ActiveOwn, RecordsInv, Finish,
       StepOf, Dirs
<1>1. /\ parkedState[journal.from] = journal.parkedState
      /\ activeState = journal.activeState /\ parkedState[journal.to] = NoState
    BY <1>0 DEF SwitchInv, WrittenInv, Reached
<1>2. journal.first => (active["config"] # NoFolder <=> parked[journal.from]["config"] # NoFolder)
    BY <1>0 DEF SwitchInv, PlacedInv
<1>3. /\ journal.parkedState # NoState => journal.parkedState.dirs \subseteq Dirs
      /\ journal.activeState # NoState => journal.activeState.dirs \subseteq Dirs
    BY <1>0, StateDirs
<1>4. Describes(activeState, mc, active)
    BY <1>0, <1>1, <1>2, <1>3 DEF JournalRecords, Left, Describes
<1>5. Describes(parkedState[journal.from], journal.from, parked[journal.from])
    BY <1>0, <1>1, <1>3 DEF JournalRecords, Left, Describes
<1>6. Describes(parkedState[journal.to], journal.to, parked[journal.to])
    BY <1>1 DEF Describes
<1>7. ASSUME NEW v \in Versions, v \notin {journal.from, journal.to}
      PROVE  Describes(parkedState[v], v, parked[v])
    BY <1>7 DEF SwitchInv, RecordsInv
<1> QED BY <1>4, <1>5, <1>6, <1>7

LEMMA RecordsStep ==
    ASSUME SwitchInv, [OrderlyNext]_vars
    PROVE  RecordsInv'
<1> USE DEF folderVars, recordVars, runVars
<1>0. /\ SetsInv /\ TypeOK /\ RecordsInv
      /\ active \in [Dirs -> MaybeFolder]
      /\ parked \in [Versions -> [Dirs -> MaybeFolder]]
      /\ parkedState \in [Versions -> MaybeState]
    BY DEF SwitchInv, SetsInv, TypeOK
<1>1. /\ activeState # NoState => activeState.dirs \subseteq Dirs
      /\ \A v \in Versions : parkedState[v] # NoState => parkedState[v].dirs \subseteq Dirs
    BY <1>0, StateDirs
<1>2. ASSUME NEW d \in Dirs, MakeFolder(d) PROVE RecordsInv'
    <2>1. /\ journal = NoJournal /\ journal' = NoJournal
          /\ UNCHANGED <<activeState, parkedState, parked, mc, trash>>
        BY <1>2 DEF MakeFolder, AtRest
    <2>2. \A e \in Dirs : active[e] # NoFolder => active'[e] # NoFolder
        BY <1>0, <1>2 DEF MakeFolder
    <2>3. Describes(activeState, mc, active')
        BY <1>0, <1>1, <2>1, <2>2, DescribesMore DEF RecordsInv
    <2> QED BY <1>0, <2>1, <2>3 DEF RecordsInv
<1>3. CASE SyncPack
    <2>1. Describes(activeState', mc, active)
        BY <1>3 DEF SyncPack, Describes
    <2> QED BY <1>0, <1>3, <2>1 DEF SyncPack, AtRest, RecordsInv
<1>4. CASE UNCHANGED <<active, parked, activeState, parkedState, journal, mc, trash>>
    BY <1>0, <1>4 DEF RecordsInv, JournalRecords, Left, Describes
<1>5. CASE PrepareMods /\ journal = NoJournal
    <2>1. goal \in Versions /\ "mods" \in Dirs
        BY <1>0, <1>5 DEF PrepareMods, TypeOK, Dirs
    <2>2. \A v \in Versions, d \in Dirs : parked[v][d] # NoFolder => parked'[v][d] = parked[v][d]
        <3>1. CASE UNCHANGED parked
            BY <3>1
        <3>2. CASE /\ parked[goal]["mods"] = NoFolder
                   /\ parked' = [parked EXCEPT ![goal]["mods"] = Fresh(goal, "mods")]
            BY <1>0, <2>1, <3>2, EntryValue
        <3> QED BY <1>5, <3>1, <3>2 DEF PrepareMods
    <2>3. \A v \in Versions : Describes(parkedState[v], v, parked'[v])
        BY <1>0, <1>1, <1>5, <2>2, DescribesMore DEF RecordsInv
    <2> QED BY <1>0, <1>5, <2>3 DEF PrepareMods, RecordsInv
<1>6. ASSUME NEW v \in Versions, RemoveSet(v) PROVE RecordsInv'
    <2>1. /\ journal = NoJournal /\ journal' = NoJournal
          /\ UNCHANGED <<activeState, active, mc>>
        BY <1>6 DEF RemoveSet, Stale
    <2>2. /\ parkedState'[v] = NoState
          /\ \A w \in Versions : w # v => /\ parkedState'[w] = parkedState[w]
                                          /\ parked'[w] = parked[w]
        BY <1>0, <1>6 DEF RemoveSet
    <2>3. \A w \in Versions : Describes(parkedState'[w], w, parked'[w])
        BY <1>0, <2>1, <2>2 DEF RecordsInv, Describes
    <2>4. \A t \in trash' : Describes(t.state, t.ver, t.dirs)
        <3>1. Describes(parkedState[v], v, parked[v])
            BY <1>0, <2>1 DEF RecordsInv
        <3>2. \A t \in trash' : t \in trash \/ /\ t.state = parkedState[v] /\ t.ver = v
                                               /\ t.dirs = parked[v]
            BY <1>6 DEF RemoveSet
        <3> QED BY <1>0, <3>1, <3>2 DEF RecordsInv
    <2> QED BY <1>0, <2>1, <2>3, <2>4 DEF RecordsInv
<1>7. ASSUME NEW t \in trash, PutSetBack(t), journal = NoJournal PROVE RecordsInv'
    <2>1. /\ t.ver \in Versions /\ journal' = NoJournal /\ trash' \subseteq trash
          /\ UNCHANGED <<activeState, active, mc>>
        BY <1>0, <1>7 DEF PutSetBack, TypeOK, TrashItem
    <2>2. /\ parkedState'[t.ver] = t.state /\ parked'[t.ver] = t.dirs
          /\ \A w \in Versions : w # t.ver => /\ parkedState'[w] = parkedState[w]
                                              /\ parked'[w] = parked[w]
        BY <1>0, <1>7, <2>1 DEF PutSetBack
    <2>3. Describes(t.state, t.ver, t.dirs)
        BY <1>0, <1>7 DEF RecordsInv
    <2>4. \A w \in Versions : Describes(parkedState'[w], w, parked'[w])
        BY <1>0, <1>7, <2>2, <2>3 DEF RecordsInv
    <2> QED BY <1>0, <1>7, <2>1, <2>4 DEF RecordsInv
<1>8. CASE WriteJournal /\ journal = NoJournal
    <2>1. JournalRecords' /\ journal' # NoJournal
        <3>1. TypeOK'
            BY <1>0, TypeStep DEF AnyNext, Next
        <3>2. journal' # NoJournal
            BY <1>8, <3>1 DEF WriteJournal, TypeOK
        <3> QED BY <1>0, <1>8, <3>2, SplitRecords
    <2> QED BY <1>0, <1>8, <2>1 DEF WriteJournal, RecordsInv
<1>9. CASE UnderWaySteps /\ journal # NoJournal
    <2>1. JournalRecords' /\ journal' # NoJournal
        <3>1. JournalRecords'
            BY <1>0, <1>9, JournalRecordsStep DEF RecordsInv
        <3> QED BY <1>0, <1>9, <3>1, JournalKept
    <2>2. UNCHANGED trash
        BY <1>0, <1>9, FolderSteps
    <2>3. journal'.from = journal.from /\ journal'.to = journal.to
        BY <1>0, <1>9, JournalKept
    <2>4. ASSUME NEW v \in Versions, v \notin {journal.from, journal.to}
          PROVE  Describes(parkedState'[v], v, parked'[v])
        <3>1. Describes(parkedState[v], v, parked[v])
            BY <1>0, <1>9, <2>4 DEF RecordsInv
        <3>2. /\ parkedState'[v] = parkedState[v]
              /\ \A d \in Dirs : parked'[v][d] = parked[v][d]
            BY <1>0, <1>9, <2>4, OthersKeepRecords
        <3> QED BY <1>1, <3>1, <3>2, DescribesMore
    <2> QED BY <1>0, <1>9, <2>1, <2>2, <2>3, <2>4 DEF RecordsInv
<1>10. CASE Finish /\ journal # NoJournal
    <2>1. /\ journal' = NoJournal
          /\ UNCHANGED <<active, parked, activeState, parkedState, mc, trash>>
        BY <1>10 DEF Finish
    <2>2. /\ Describes(activeState, mc, active)
          /\ \A v \in Versions : Describes(parkedState[v], v, parked[v])
        BY <1>10, EndRecords
    <2> QED BY <1>0, <2>1, <2>2 DEF RecordsInv
<1>11. CASE Interrupt \/ Resume \/ UNCHANGED vars
    BY <1>4, <1>11 DEF Interrupt, Resume, Goto, vars
<1>12. CASE journal = NoJournal /\ (AtRestSteps \/ SetLeftoverAside)
    BY <1>0, <1>2, <1>3, <1>4, <1>6, <1>7, <1>12, NoLeftover
    DEF AtRestSteps, RecordPlayed, Prepare, BeginSwitch, RestoreTrashedSet, SetLeftoverAside
<1> QED BY <1>0, <1>5, <1>8, <1>9, <1>10, <1>11, <1>12, StepKinds

LEMMA SwitchAlways == OrderlySpec => []SwitchInv
<1>1. Init => AsideEmpty /\ PlacedInv /\ WrittenInv /\ RecordsInv
    BY DEF Init, AsideEmpty, PlacedInv, WrittenInv, RecordsInv, Describes
<1>2. SwitchInv /\ [OrderlyNext]_vars /\ SetsInv' => SwitchInv'
    BY AsideStep, PlacedStep, WrittenStep, RecordsStep DEF SwitchInv
<1>3. Init /\ SetsInv => SwitchInv
    BY <1>1 DEF SwitchInv
<1> QED BY <1>2, <1>3, SetsAlways, PTL DEF OrderlySpec

\* When the files of a switch are in place, mods/ is there, config/ was copied
\* on a first visit when the leaving set has one, the target has no parked set
\* left and the metadata of both sets says so; no set is put back into the
\* switch (OrderlySpec).
THEOREM CompleteSwitch == OrderlySpec => []SwitchComplete
<1>1. SwitchInv => SwitchComplete
    <2> SUFFICES ASSUME SwitchInv, journal # NoJournal, journal.step = "finalize"
                 PROVE  /\ active["mods"] # NoFolder
                        /\ journal.first =>
                             (active["config"] # NoFolder
                                <=> parked[journal.from]["config"] # NoFolder)
                        /\ ~SetExists(journal.to)
                        /\ activeInfo = journal.to
                        /\ setFile[journal.from] = "parked"
        BY DEF SwitchComplete, SwitchInv, SetsInv
    <2>1. journal.to \in Versions
        BY DEF SwitchInv, SetsInv, TypeOK, Journal
    <2>2. ~SetExists(journal.to)
        BY <2>1 DEF SwitchInv, SetsInv, UnderWay, ActiveOwn, AsideEmpty, WrittenInv,
           Reached, SetExists, Emptied, HasParkedInfo, HasFolders
    <2>3. /\ active["mods"] # NoFolder
          /\ journal.first =>
               (active["config"] # NoFolder <=> parked[journal.from]["config"] # NoFolder)
        BY DEF SwitchInv, PlacedInv
    <2>4. activeInfo = journal.to /\ setFile[journal.from] = "parked"
        BY DEF SwitchInv, WrittenInv, Reached
    <2> QED BY <2>2, <2>3, <2>4
<1> QED BY <1>1, SwitchAlways, PTL

\* With no switch unfinished, the pack's records name the version and folders
\* of the set they lie beside, the active one and every parked one; no set is
\* put back into a switch (OrderlySpec).
THEOREM TrueRecords == OrderlySpec => []RecordsMatchSets
<1>1. SwitchInv => RecordsMatchSets
    BY DEF SwitchInv, RecordsInv, RecordsMatchSets
<1> QED BY <1>1, SwitchAlways, PTL

\* The records of shared files follow the active set: the journal takes them
\* over, and what finish leaves active is what the journal holds; no set is
\* put back into a switch (OrderlySpec).
THEOREM SharedFollow == OrderlySpec => SharedRecordsKept
<1>1. SwitchInv /\ [OrderlyNext]_vars => [SharedRecorded => SharedRecorded']_vars
    <2> SUFFICES ASSUME SwitchInv, [OrderlyNext]_vars, SharedRecorded PROVE SharedRecorded'
        OBVIOUS
    <2> USE DEF folderVars, recordVars, runVars
    <2>0. SetsInv /\ TypeOK
        BY DEF SwitchInv, SetsInv
    <2>1. CASE journal = NoJournal /\ WriteJournal
        <3>1. goal \in Versions /\ activeState # NoState /\ activeState.shared
            BY <2>0, <2>1 DEF WriteJournal, TypeOK, SharedRecorded
        <3>2. journal'.activeState = ActiveSplit(goal, Returning(goal))
            BY <2>1 DEF WriteJournal, NewJournal
        <3>3. /\ journal'.activeState.shared
              /\ journal'.activeState \in PackState
            <4>1. ActiveSplit(goal, Returning(goal)).shared = activeState.shared
                BY <3>1 DEF ActiveSplit
            <4>2. ActiveSplit(goal, Returning(goal)) \in MaybeState
                BY <2>0, <3>1, SplitTypes DEF Returning, HasParkedInfo, HasFolders
            <4>3. ActiveSplit(goal, Returning(goal)) # NoState
                <5>1. ActiveSplit(goal, Returning(goal)) = [ver |-> goal,
                         dirs |-> ActiveSplit(goal, Returning(goal)).dirs, shared |-> activeState.shared]
                    BY <3>1 DEF ActiveSplit
                <5>2. activeState.shared \in BOOLEAN
                    BY <2>0, <3>1 DEF TypeOK, MaybeState, PackState
                <5>3. ActiveSplit(goal, Returning(goal)).dirs \in SUBSET Dirs
                    BY <2>0, <3>1 DEF ActiveSplit, TypeOK, MaybeState, PackState
                <5>4. ActiveSplit(goal, Returning(goal)) \in PackState
                    <6>1. \A ds \in SUBSET Dirs, b \in BOOLEAN :
                             [ver |-> goal, dirs |-> ds, shared |-> b] \in PackState
                        BY <3>1 DEF PackState
                    <6> QED BY <5>1, <5>2, <5>3, <6>1
                <5> QED BY <5>4, NoneAssumption
            <4> QED BY <3>1, <3>2, <4>1, <4>2, <4>3 DEF MaybeState
        <3>4. journal' # NoJournal
            BY <2>0, <2>1, TypeStep DEF WriteJournal, TypeOK, AnyNext, Next
        <3> QED BY <3>3, <3>4, NoneAssumption DEF SharedRecorded
    <2>2. CASE journal # NoJournal /\ UnderWaySteps
        <3>1. journal' # NoJournal /\ journal'.activeState = journal.activeState
            BY <2>0, <2>2, JournalKept
        <3> QED BY <2>2, <3>1 DEF SharedRecorded
    <2>3. CASE journal # NoJournal /\ Finish
        <3>1. activeState = journal.activeState
            BY <2>3 DEF SwitchInv, SetsInv, UnderWay, StepOf, WrittenInv, Reached, Finish
        <3> QED BY <2>3, <3>1 DEF Finish, SharedRecorded
    <2>4. CASE SyncPack
        <3>1. activeState' \in PackState
            BY <2>0, <2>4 DEF SyncPack, TypeOK, PackState
        <3>2. journal' = NoJournal /\ activeState'.shared
            BY <2>4 DEF SyncPack, AtRest
        <3>3. activeState' # NoState
            BY <3>1, NoneAssumption
        <3> QED BY <3>2, <3>3 DEF SharedRecorded
    <2>5. CASE UNCHANGED <<activeState, journal>>
        BY <2>5 DEF SharedRecorded
    <2>6. CASE journal = NoJournal /\ ~SyncPack /\ (AtRestSteps \/ SetLeftoverAside \/ PrepareMods)
        BY <2>5, <2>6 DEF AtRestSteps, MakeFolder, RecordPlayed, Prepare, BeginSwitch,
           RemoveSet, RestoreTrashedSet, PutSetBack, SetLeftoverAside, PrepareMods
    <2>7. CASE Interrupt \/ Resume \/ UNCHANGED vars
        BY <2>5, <2>7 DEF Interrupt, Resume, vars
    <2> QED BY <2>0, <2>1, <2>2, <2>3, <2>4, <2>6, <2>7, StepKinds
<1> QED BY <1>1, SwitchAlways, PTL DEF OrderlySpec, SharedRecordsKept

(***************************************************************************)
(* The promise.  Its variables, read off the disk.                         *)
(***************************************************************************)
SetsOf(p, a) ==
    [v \in Versions |-> [d \in Dirs |->
        IF p[v][d] # NoFolder THEN p[v][d]
        ELSE IF a[d] # NoFolder /\ a[d].ver = v THEN a[d]
        ELSE NoFolder]]
BinOf(items) == {<<t.ver, t.dirs>> : t \in items}
MadeFor(m, v, d) == {[ver |-> v, dir |-> d, n |-> i] : i \in 1..m[v][d]}
UsedOf(m) == UNION {MadeFor(m, v, d) : v \in Versions, d \in Dirs}

Mapped == [Promise!Next]_(Promise!vars)

LEMMA PromiseMeans ==
    ASSUME NEW v \in Versions
    PROVE  /\ \A d \in Dirs : Promise!Make(v, d) <=>
                /\ SetsOf(parked, active)[v][d] = NoFolder
                /\ SetsOf(parked', active')[v][d] \in Folder
                /\ SetsOf(parked', active')[v][d].ver = v
                /\ SetsOf(parked', active')[v][d].dir = d
                /\ SetsOf(parked', active')[v][d].n > 0
                /\ SetsOf(parked', active')[v][d] \notin UsedOf(made)
                /\ SetsOf(parked', active') =
                     [SetsOf(parked, active) EXCEPT ![v][d] = SetsOf(parked', active')[v][d]]
                /\ UsedOf(made') = UsedOf(made) \cup {SetsOf(parked', active')[v][d]}
                /\ UNCHANGED mc /\ BinOf(trash') = BinOf(trash)
           /\ Promise!Switch(v) <=>
                /\ v # mc /\ SetsOf(parked, active)[v]["mods"] # NoFolder
                /\ mc' = v
                /\ SetsOf(parked', active') = SetsOf(parked, active)
                /\ BinOf(trash') = BinOf(trash) /\ UsedOf(made') = UsedOf(made)
           /\ Promise!Discard(v) <=>
                /\ v # mc
                /\ SetsOf(parked', active') =
                     [SetsOf(parked, active) EXCEPT ![v] = [d \in Dirs |-> NoFolder]]
                /\ BinOf(trash') = BinOf(trash) \cup {<<v, SetsOf(parked, active)[v]>>}
                /\ UNCHANGED mc /\ UsedOf(made') = UsedOf(made)
           /\ Promise!BringBack(v) <=>
                /\ v # mc /\ SetsOf(parked, active)[v] = [d \in Dirs |-> NoFolder]
                /\ \E item \in BinOf(trash) :
                      /\ item[1] = v
                      /\ SetsOf(parked', active') = [SetsOf(parked, active) EXCEPT ![v] = item[2]]
                      /\ BinOf(trash') \in {BinOf(trash), BinOf(trash) \ {item}}
                /\ UNCHANGED mc /\ UsedOf(made') = UsedOf(made)
<1>1. SetsOf(parked, active) = [w \in Versions |-> [d \in Dirs |-> Home(w, d)]]
    BY DEF SetsOf, Home
<1>2. SetsOf(parked', active') = [w \in Versions |-> [d \in Dirs |-> Home(w, d)]]'
    BY DEF SetsOf, Home
<1>3. BinOf(trash) = {<<t.ver, t.dirs>> : t \in trash}
    BY DEF BinOf
<1>4. Folder = Promise!Folder
    BY DEF Folder, Promise!Folder
<1> QED
    BY <1>1, <1>2, <1>3, <1>4
    DEF Promise!Make, Promise!Switch, Promise!Discard, Promise!BringBack, Promise!Empty,
        BinOf, UsedOf, MadeFor

LEMMA PromiseSteps ==
    ASSUME NEW v \in Versions,
           \/ \E d \in Dirs : Promise!Make(v, d)
           \/ Promise!Switch(v) \/ Promise!Discard(v) \/ Promise!BringBack(v)
    PROVE  Mapped
BY DEF Mapped, Promise!Next

LEMMA PromiseStutters ==
    ASSUME UNCHANGED <<mc, trash, made>>, SetsOf(parked', active') = SetsOf(parked, active)
    PROVE  Mapped
<1>1. UNCHANGED [v \in Versions |-> [d \in Dirs |-> Home(v, d)]]
    BY DEF SetsOf, Home
<1>2. UNCHANGED Promise!vars
    BY <1>1 DEF Promise!vars
<1> QED BY <1>2 DEF Mapped

LEMMA SetEntry ==
    ASSUME NEW p, NEW a
    PROVE  /\ SetsOf(p, a) = [v \in Versions |-> [d \in Dirs |-> SetsOf(p, a)[v][d]]]
           /\ \A v \in Versions, d \in Dirs :
                 SetsOf(p, a)[v][d] = IF p[v][d] # NoFolder THEN p[v][d]
                                      ELSE IF a[d] # NoFolder /\ a[d].ver = v THEN a[d]
                                      ELSE NoFolder
BY DEF SetsOf

LEMMA SetsEqual ==
    ASSUME NEW p, NEW a, NEW q, NEW b,
           \A v \in Versions, d \in Dirs : SetsOf(q, b)[v][d] = SetsOf(p, a)[v][d]
    PROVE  SetsOf(q, b) = SetsOf(p, a)
BY DEF SetsOf

LEMMA SetsChanged ==
    ASSUME NEW v \in Versions, NEW d \in Dirs,
           \A w \in Versions, e \in Dirs : w # v \/ e # d => SetsOf(parked', active')[w][e] = SetsOf(parked, active)[w][e]
    PROVE  SetsOf(parked', active') = [SetsOf(parked, active) EXCEPT ![v][d] = SetsOf(parked', active')[v][d]]
<1>1. /\ SetsOf(parked, active) = [w \in Versions |-> [e \in Dirs |-> SetsOf(parked, active)[w][e]]]
      /\ SetsOf(parked', active') = [w \in Versions |-> [e \in Dirs |-> SetsOf(parked', active')[w][e]]]
    BY SetEntry
<1>2. \A w \in Versions, e \in Dirs : w # v \/ e # d => SetsOf(parked', active')[w][e] = SetsOf(parked, active)[w][e]
    OBVIOUS
<1>3. PICK f : f = SetsOf(parked, active)
    OBVIOUS
<1>4. PICK g : g = SetsOf(parked', active')
    OBVIOUS
<1>5. /\ f = [w \in Versions |-> [e \in Dirs |-> f[w][e]]]
      /\ g = [w \in Versions |-> [e \in Dirs |-> g[w][e]]]
      /\ \A w \in Versions, e \in Dirs : w # v \/ e # d => g[w][e] = f[w][e]
    BY <1>1, <1>2, <1>3, <1>4
<1>6. g = [f EXCEPT ![v][d] = g[v][d]]
    <2>1. DOMAIN f = Versions /\ DOMAIN f[v] = Dirs /\ DOMAIN g = Versions
        BY <1>5
    <2>2. \A w \in Versions : w # v => g[w] = f[w]
        BY <1>5
    <2>3. g[v] = [f[v] EXCEPT ![d] = g[v][d]]
        BY <1>5
    <2> QED BY <1>5, <2>1, <2>2, <2>3
<1> QED BY <1>3, <1>4, <1>6

LEMMA SetReplaced ==
    ASSUME NEW v \in Versions, NEW s,
           s = [d \in Dirs |-> s[d]],
           \A d \in Dirs : SetsOf(parked', active')[v][d] = s[d],
           \A w \in Versions, e \in Dirs : w # v => SetsOf(parked', active')[w][e] = SetsOf(parked, active)[w][e]
    PROVE  SetsOf(parked', active') = [SetsOf(parked, active) EXCEPT ![v] = s]
<1>1. /\ SetsOf(parked, active) = [w \in Versions |-> [e \in Dirs |-> SetsOf(parked, active)[w][e]]]
      /\ SetsOf(parked', active') = [w \in Versions |-> [e \in Dirs |-> SetsOf(parked', active')[w][e]]]
    BY SetEntry
<1>2. SetsOf(parked', active')[v] = s
    BY <1>1
<1>3. \A w \in Versions : w # v => SetsOf(parked', active')[w] = SetsOf(parked, active)[w]
    BY <1>1
<1> QED BY <1>1, <1>2, <1>3

LEMMA UsedBy ==
    ASSUME NEW m, NEW f
    PROVE  f \in UsedOf(m) <=> \E v \in Versions, d \in Dirs : \E i \in 1..m[v][d] :
                                  f = [ver |-> v, dir |-> d, n |-> i]
<1>1. f \in UsedOf(m) <=> \E v \in Versions, d \in Dirs : f \in MadeFor(m, v, d)
    BY DEF UsedOf
<1>2. \A v \in Versions, d \in Dirs :
        f \in MadeFor(m, v, d) <=> \E i \in 1..m[v][d] : f = [ver |-> v, dir |-> d, n |-> i]
    BY DEF MadeFor
<1> QED BY <1>1, <1>2

\* A folder that is made was never there before, and is from now on.
LEMMA UsedGrows ==
    ASSUME NEW v \in Versions, NEW d \in Dirs, made \in [Versions -> [Dirs -> Nat]],
           made' = Count(v, d)
    PROVE  /\ Fresh(v, d) \notin UsedOf(made)
           /\ UsedOf(made') = UsedOf(made) \cup {Fresh(v, d)}
<1>1. /\ made'[v][d] = made[v][d] + 1 /\ made[v][d] \in Nat
      /\ \A w \in Versions, e \in Dirs : w # v \/ e # d => made'[w][e] = made[w][e]
    BY EntryValue DEF Count
<1>2. Fresh(v, d) \notin UsedOf(made)
    <2> SUFFICES ASSUME NEW w \in Versions, NEW e \in Dirs, NEW i \in 1..made[w][e],
                        Fresh(v, d) = [ver |-> w, dir |-> e, n |-> i]
                 PROVE  FALSE
        BY UsedBy
    <2>1. w = v /\ e = d /\ i = made[v][d] + 1
        BY DEF Fresh
    <2> QED BY <1>1, <2>1
<1>3. ASSUME NEW f PROVE f \in UsedOf(made') <=> f \in UsedOf(made) \/ f = Fresh(v, d)
    <2>1. ASSUME f \in UsedOf(made') PROVE f \in UsedOf(made) \/ f = Fresh(v, d)
        <3>1. PICK w \in Versions, e \in Dirs : \E i \in 1..made'[w][e] :
                 f = [ver |-> w, dir |-> e, n |-> i]
            BY <2>1, UsedBy
        <3>2. PICK i \in 1..made'[w][e] : f = [ver |-> w, dir |-> e, n |-> i]
            BY <3>1
        <3>3. CASE i \in 1..made[w][e]
            <4>1. \E j \in 1..made[w][e] : f = [ver |-> w, dir |-> e, n |-> j]
                BY <3>2, <3>3
            <4> QED BY <4>1, UsedBy
        <3>4. CASE i \notin 1..made[w][e]
            <4>1. w = v /\ e = d
                BY <1>1, <3>2, <3>4
            <4>2. i = made[v][d] + 1
                <5>1. i \in 1..(made[v][d] + 1) /\ i \notin 1..made[v][d]
                    BY <1>1, <3>2, <3>4, <4>1
                <5> QED BY <1>1, <5>1
            <4> QED BY <3>2, <4>1, <4>2 DEF Fresh
        <3> QED BY <3>3, <3>4
    <2>2. ASSUME f \in UsedOf(made) PROVE f \in UsedOf(made')
        <3>1. PICK w \in Versions, e \in Dirs : \E i \in 1..made[w][e] :
                 f = [ver |-> w, dir |-> e, n |-> i]
            BY <2>2, UsedBy
        <3>2. PICK i \in 1..made[w][e] : f = [ver |-> w, dir |-> e, n |-> i]
            BY <3>1
        <3>3. i \in 1..made'[w][e]
            <4>1. CASE w = v /\ e = d
                BY <1>1, <3>2, <4>1
            <4>2. CASE w # v \/ e # d
                BY <1>1, <3>2, <4>2
            <4> QED BY <4>1, <4>2
        <3> QED BY <3>2, <3>3, UsedBy
    <2>3. ASSUME f = Fresh(v, d) PROVE f \in UsedOf(made')
        <3>1. made[v][d] + 1 \in 1..made'[v][d]
            BY <1>1
        <3>2. f = [ver |-> v, dir |-> d, n |-> made[v][d] + 1]
            BY <2>3 DEF Fresh
        <3> QED BY <3>1, <3>2, UsedBy
    <2> QED BY <2>1, <2>2, <2>3
<1> QED BY <1>2, <1>3

\* A step that starts one folder of one set keeps the promise.
LEMMA MakeMapped ==
    ASSUME TypeOK, NEW v \in Versions, NEW d \in Dirs,
           SetsOf(parked, active)[v][d] = NoFolder,
           SetsOf(parked', active')[v][d] = Fresh(v, d),
           \A w \in Versions, e \in Dirs : w # v \/ e # d =>
               SetsOf(parked', active')[w][e] = SetsOf(parked, active)[w][e],
           made' = Count(v, d), UNCHANGED <<mc, trash>>
    PROVE  Mapped
<1>1. made \in [Versions -> [Dirs -> Nat]]
    BY DEF TypeOK
<1>2. Fresh(v, d) \in Folder
    BY FolderTypes
<1>3. Fresh(v, d).ver = v /\ Fresh(v, d).dir = d /\ Fresh(v, d).n > 0
    BY <1>1 DEF Fresh
<1>4. /\ Fresh(v, d) \notin UsedOf(made)
      /\ UsedOf(made') = UsedOf(made) \cup {Fresh(v, d)}
    BY <1>1, UsedGrows
<1>5. SetsOf(parked', active') =
        [SetsOf(parked, active) EXCEPT ![v][d] = SetsOf(parked', active')[v][d]]
    BY SetsChanged
<1>6. BinOf(trash') = BinOf(trash)
    OBVIOUS
<1>7. Promise!Make(v, d)
    BY <1>2, <1>3, <1>4, <1>5, <1>6, PromiseMeans
<1> QED BY <1>7, PromiseSteps

LEMMA MakeFolderMapped ==
    ASSUME SetsInv, NEW d \in Dirs, MakeFolder(d)
    PROVE  Mapped
<1>1. /\ TypeOK /\ journal = NoJournal /\ mc \in Versions
      /\ active \in [Dirs -> MaybeFolder] /\ active[d] = NoFolder
      /\ parked[mc][d] = NoFolder /\ parked' = parked
      /\ active' = [active EXCEPT ![d] = Fresh(mc, d)]
      /\ made' = Count(mc, d) /\ UNCHANGED <<mc, trash>>
    BY DEF SetsInv, TypeOK, MakeFolder, AtRest, AtRestOwn
<1>2. Fresh(mc, d) # NoFolder /\ Fresh(mc, d).ver = mc
    BY <1>1, FolderTypes, NoneAssumption DEF Fresh
<1>3. /\ active'[d] = Fresh(mc, d)
      /\ \A e \in Dirs : e # d => active'[e] = active[e]
    BY <1>1
<1>4. SetsOf(parked, active)[mc][d] = NoFolder /\ SetsOf(parked', active')[mc][d] = Fresh(mc, d)
    BY <1>1, <1>2, <1>3 DEF SetsOf
<1>5. \A w \in Versions, e \in Dirs : w # mc \/ e # d =>
          SetsOf(parked', active')[w][e] = SetsOf(parked, active)[w][e]
    BY <1>1, <1>2, <1>3 DEF SetsOf
<1> QED BY <1>1, <1>4, <1>5, MakeMapped

LEMMA PrepareModsMapped ==
    ASSUME SetsInv, journal = NoJournal, PrepareMods
    PROVE  Mapped
<1>1. /\ TypeOK /\ goal \in Versions /\ goal # mc /\ "mods" \in Dirs
      /\ parked \in [Versions -> [Dirs -> MaybeFolder]]
      /\ Own(active["mods"], mc, "mods") /\ UNCHANGED <<active, mc, trash>>
    BY DEF SetsInv, TypeOK, PrepareMods, AtRestOwn, Dirs
<1>2. CASE UNCHANGED <<parked, made>>
    BY <1>1, <1>2, PromiseStutters
<1>3. CASE /\ parked[goal]["mods"] = NoFolder
           /\ parked' = [parked EXCEPT ![goal]["mods"] = Fresh(goal, "mods")]
           /\ made' = Count(goal, "mods")
    <2>1. Fresh(goal, "mods") # NoFolder
        BY <1>1, FolderTypes, NoneAssumption
    <2>2. /\ parked'[goal]["mods"] = Fresh(goal, "mods")
          /\ \A w \in Versions, e \in Dirs : w # goal \/ e # "mods" =>
                 parked'[w][e] = parked[w][e]
        BY <1>1, <1>3, EntryValue
    <2>3. /\ SetsOf(parked, active)[goal]["mods"] = NoFolder
          /\ SetsOf(parked', active')[goal]["mods"] = Fresh(goal, "mods")
        BY <1>1, <1>3, <2>1, <2>2 DEF Own, SetsOf
    <2>4. \A w \in Versions, e \in Dirs : w # goal \/ e # "mods" =>
              SetsOf(parked', active')[w][e] = SetsOf(parked, active)[w][e]
        BY <1>1, <2>2 DEF SetsOf
    <2> QED BY <1>1, <1>3, <2>3, <2>4, MakeMapped
<1> QED BY <1>2, <1>3 DEF PrepareMods

\* Parking a folder and bringing one in changes no set; starting one does.
LEMMA UnderWayMapped ==
    ASSUME SetsInv, journal # NoJournal, UnderWaySteps, ~UpdateInstance
    PROVE  Mapped
<1>0. /\ TypeOK /\ ActiveOwn /\ ParkedOwn /\ Turn \in Dirs
      /\ journal.from \in Versions /\ journal.to \in Versions
    BY TurnInDirs DEF SetsInv, TypeOK, Journal
<1>1. UNCHANGED <<mc, trash>>
    BY FolderSteps
<1>2. CASE FoldersStay
    BY <1>1, <1>2, PromiseStutters DEF FoldersStay
<1>3. CASE FolderParked
    <2>1. active[Turn].ver = journal.from
        BY <1>0, <1>3 DEF FolderParked, ActiveOwn, Own
    <2>2. \A w \in Versions, e \in Dirs :
              SetsOf(parked', active')[w][e] = SetsOf(parked, active)[w][e]
        BY <1>0, <1>3, <2>1, SetEntry DEF FolderParked
    <2>3. SetsOf(parked', active') = SetsOf(parked, active)
        BY <2>2, SetsEqual
    <2> QED BY <1>1, <1>3, <2>3, PromiseStutters DEF FolderParked
<1>4. CASE FolderBrought
    <2>1. parked[journal.to][Turn].ver = journal.to
        BY <1>0, <1>4 DEF FolderBrought, ParkedOwn, Own
    <2>2. \A w \in Versions, e \in Dirs :
              SetsOf(parked', active')[w][e] = SetsOf(parked, active)[w][e]
        BY <1>0, <1>4, <2>1, SetEntry DEF FolderBrought
    <2>3. SetsOf(parked', active') = SetsOf(parked, active)
        BY <2>2, SetsEqual
    <2> QED BY <1>1, <1>4, <2>3, PromiseStutters DEF FolderBrought
<1>5. CASE FolderStarted
    <2>1. Fresh(journal.to, Turn) # NoFolder /\ Fresh(journal.to, Turn).ver = journal.to
        BY <1>0, FolderTypes, NoneAssumption DEF Fresh
    <2>2. /\ SetsOf(parked, active)[journal.to][Turn] = NoFolder
          /\ SetsOf(parked', active')[journal.to][Turn] = Fresh(journal.to, Turn)
        BY <1>0, <1>5, <2>1, SetEntry DEF FolderStarted
    <2>3. \A w \in Versions, e \in Dirs : w # journal.to \/ e # Turn =>
              SetsOf(parked', active')[w][e] = SetsOf(parked, active)[w][e]
        BY <1>0, <1>5, <2>1, SetEntry DEF FolderStarted
    <2> QED BY <1>0, <1>1, <1>5, <2>2, <2>3, MakeMapped DEF FolderStarted
<1> QED BY <1>2, <1>3, <1>4, <1>5, FolderSteps

\* The instance takes the version whose folders are in place.
LEMMA UpdateMapped ==
    ASSUME SwitchInv, journal # NoJournal, UpdateInstance
    PROVE  Mapped
<1>1. /\ journal.to \in Versions /\ "mods" \in Dirs /\ journal.step = "finalize"
      /\ mc' = journal.to /\ UNCHANGED <<active, parked, made, trash>>
    BY DEF SwitchInv, SetsInv, TypeOK, Journal, UnderWay, StepOf, UpdateInstance,
       folderVars, Dirs
<1>2. CASE mc = journal.to
    BY <1>1, <1>2, PromiseStutters
<1>3. CASE mc # journal.to
    <2>1. active["mods"] # NoFolder /\ active["mods"].ver = journal.to
        BY <1>1 DEF SwitchInv, SetsInv, PlacedInv, ActiveOwn, Own
    <2>2. SetsOf(parked, active)[journal.to]["mods"] # NoFolder
        BY <1>1, <2>1, SetEntry
    <2>3. Promise!Switch(journal.to)
        BY <1>1, <1>3, <2>2, PromiseMeans
    <2> QED BY <1>1, <2>3, PromiseSteps
<1> QED BY <1>2, <1>3

\* A set at rest is the one that is parked.
LEMMA SetAtRest ==
    ASSUME SetsInv, journal = NoJournal, NEW v \in Versions, v # mc
    PROVE  /\ SetsOf(parked, active)[v] = parked[v]
           /\ \A q : \A d \in Dirs : SetsOf(q, active)[v][d] = q[v][d]
<1>1. \A d \in Dirs : Own(active[d], mc, d)
    BY DEF SetsInv, AtRestOwn
<1>2. \A q : \A d \in Dirs : SetsOf(q, active)[v][d] = q[v][d]
    BY <1>1, SetEntry DEF Own
<1>3. parked[v] = [d \in Dirs |-> parked[v][d]]
    BY DEF SetsInv, TypeOK
<1>4. SetsOf(parked, active)[v] = [d \in Dirs |-> SetsOf(parked, active)[v][d]]
    BY DEF SetsOf
<1> QED BY <1>2, <1>3, <1>4

LEMMA RemoveMapped ==
    ASSUME SetsInv, NEW v \in Versions, RemoveSet(v)
    PROVE  Mapped
<1> DEFINE none == [d \in Dirs |-> NoFolder]
<1>1. /\ journal = NoJournal /\ v # mc
      /\ parked \in [Versions -> [Dirs -> MaybeFolder]]
      /\ parked' = [parked EXCEPT ![v] = none]
      /\ UNCHANGED <<active, made, mc>>
    BY DEF SetsInv, TypeOK, RemoveSet, Stale
<1>2. /\ parked'[v] = none
      /\ \A w \in Versions : w # v => parked'[w] = parked[w]
    BY <1>1
<1>3. \A d \in Dirs : SetsOf(parked', active')[v][d] = none[d]
    <2>1. \A q : \A d \in Dirs : SetsOf(q, active)[v][d] = q[v][d]
        BY <1>1, SetAtRest
    <2>2. \A d \in Dirs : SetsOf(parked', active)[v][d] = parked'[v][d]
        BY <2>1
    <2> QED BY <1>1, <1>2, <2>2
<1>4. \A w \in Versions, d \in Dirs : w # v =>
          SetsOf(parked', active')[w][d] = SetsOf(parked, active)[w][d]
    BY <1>1, <1>2 DEF SetsOf
<1>5. SetsOf(parked', active') = [SetsOf(parked, active) EXCEPT ![v] = none]
    BY <1>3, <1>4, SetReplaced
<1>6. BinOf(trash') = BinOf(trash) \cup {<<v, parked[v]>>}
    <2>1. PICK t : t = [ver |-> v, dirs |-> parked[v], aside |-> aside[v],
                        file |-> setFile[v], state |-> parkedState[v]]
        OBVIOUS
    <2>2. trash' = trash \cup {t} /\ t.ver = v /\ t.dirs = parked[v]
        BY <2>1 DEF RemoveSet
    <2> QED BY <2>2 DEF BinOf
<1>7. SetsOf(parked, active)[v] = parked[v]
    BY <1>1, SetAtRest
<1>8. Promise!Discard(v)
    BY <1>1, <1>5, <1>6, <1>7, PromiseMeans
<1> QED BY <1>8, PromiseSteps

LEMMA PutBackMapped ==
    ASSUME SetsInv, journal = NoJournal, NEW t \in trash, PutSetBack(t)
    PROVE  Mapped
<1>1. /\ t.ver \in Versions /\ t.ver # mc /\ t.dirs \in [Dirs -> MaybeFolder]
      /\ parked \in [Versions -> [Dirs -> MaybeFolder]]
      /\ parked' = [parked EXCEPT ![t.ver] = t.dirs] /\ trash' = trash \ {t}
      /\ UNCHANGED <<active, made, mc>>
    BY DEF SetsInv, TypeOK, TrashItem, PutSetBack
<1>2. /\ parked'[t.ver] = t.dirs
      /\ \A w \in Versions : w # t.ver => parked'[w] = parked[w]
    BY <1>1
<1>3. \A d \in Dirs : SetsOf(parked', active')[t.ver][d] = t.dirs[d]
    <2>1. \A q : \A d \in Dirs : SetsOf(q, active)[t.ver][d] = q[t.ver][d]
        BY <1>1, SetAtRest
    <2>2. \A d \in Dirs : SetsOf(parked', active)[t.ver][d] = parked'[t.ver][d]
        BY <2>1
    <2> QED BY <1>1, <1>2, <2>2
<1>4. \A w \in Versions, d \in Dirs : w # t.ver =>
          SetsOf(parked', active')[w][d] = SetsOf(parked, active)[w][d]
    BY <1>1, <1>2 DEF SetsOf
<1>5. t.dirs = [d \in Dirs |-> t.dirs[d]]
    BY <1>1
<1>6. SetsOf(parked', active') = [SetsOf(parked, active) EXCEPT ![t.ver] = t.dirs]
    BY <1>1, <1>3, <1>4, <1>5, SetReplaced
<1>7. SetsOf(parked, active)[t.ver] = [d \in Dirs |-> NoFolder]
    <2>1. \A d \in Dirs : parked[t.ver][d] = NoFolder
        BY DEF PutSetBack, SetExists, HasParkedInfo, HasFolders
    <2>2. parked[t.ver] = [d \in Dirs |-> NoFolder]
        BY <1>1, <2>1
    <2> QED BY <1>1, <2>2, SetAtRest
<1>8. \E item \in BinOf(trash) :
         /\ item[1] = t.ver /\ item[2] = t.dirs
         /\ BinOf(trash') \in {BinOf(trash), BinOf(trash) \ {item}}
    <2>1. PICK item : item = <<t.ver, t.dirs>>
        OBVIOUS
    <2>2. item \in BinOf(trash) /\ item[1] = t.ver /\ item[2] = t.dirs
        BY <2>1 DEF BinOf
    <2>3. CASE \E u \in trash \ {t} : <<u.ver, u.dirs>> = item
        <3>1. BinOf(trash') = BinOf(trash)
            BY <1>1, <2>1, <2>3 DEF BinOf
        <3> QED BY <2>2, <3>1
    <2>4. CASE ~\E u \in trash \ {t} : <<u.ver, u.dirs>> = item
        <3>1. BinOf(trash') = BinOf(trash) \ {item}
            BY <1>1, <2>1, <2>4 DEF BinOf
        <3> QED BY <2>2, <3>1
    <2> QED BY <2>3, <2>4
<1>9. UsedOf(made') = UsedOf(made)
    BY <1>1
<1>10. Promise!BringBack(t.ver)
    <2>1. \E item \in BinOf(trash) :
             /\ item[1] = t.ver
             /\ SetsOf(parked', active') = [SetsOf(parked, active) EXCEPT ![t.ver] = item[2]]
             /\ BinOf(trash') \in {BinOf(trash), BinOf(trash) \ {item}}
        BY <1>6, <1>8
    <2> QED BY <1>1, <1>7, <1>9, <2>1, PromiseMeans
<1> QED BY <1>1, <1>10, PromiseSteps

\* Every step of the switch machinery, of the cleanup and of what puts a set
\* back is a step of the promise or none: no interruption makes a version's
\* set change, vanish or show up elsewhere, as long as no set is put back into
\* an unfinished switch (OrderlySpec).
THEOREM PromiseKept == OrderlySpec => KeepsPromise
<1>1. Init => Promise!Init
    <2> SUFFICES ASSUME Init PROVE Promise!Init
        OBVIOUS
    <2>1. mc \in Versions
        BY DEF Init
    <2>2. [v \in Versions |-> [d \in Dirs |-> Home(v, d)]] = [v \in Versions |-> Promise!Empty]
        BY DEF Init, Home, Promise!Empty
    <2>3. {<<t.ver, t.dirs>> : t \in trash} = {}
        BY DEF Init
    <2>4. UsedOf(made) = {}
        BY UsedBy DEF Init
    <2> QED BY <2>1, <2>2, <2>3, <2>4 DEF Promise!Init, UsedOf, MadeFor
<1>2. SwitchInv /\ [OrderlyNext]_vars => [Promise!Next]_(Promise!vars)
    <2> SUFFICES ASSUME SwitchInv, [OrderlyNext]_vars PROVE Mapped
        BY DEF Mapped
    <2>0. SetsInv
        BY DEF SwitchInv
    <2>1. ASSUME UNCHANGED <<active, parked, made, mc, trash>> PROVE Mapped
        BY <2>1, PromiseStutters
    <2>2. CASE journal = NoJournal /\ AtRestSteps
        BY <2>0, <2>1, <2>2, MakeFolderMapped, RemoveMapped, PutBackMapped
        DEF AtRestSteps, SyncPack, RecordPlayed, Prepare, BeginSwitch, RestoreTrashedSet,
            folderVars
    <2>3. CASE SetLeftoverAside
        BY <2>0, <2>1, <2>3, NoLeftover DEF SetLeftoverAside
    <2>4. CASE journal = NoJournal /\ PrepareMods
        BY <2>0, <2>4, PrepareModsMapped
    <2>5. CASE WriteJournal \/ Finish \/ Interrupt \/ Resume \/ UNCHANGED vars
        BY <2>1, <2>5 DEF WriteJournal, Finish, Interrupt, Resume, vars, folderVars
    <2>6. CASE journal # NoJournal /\ UnderWaySteps
        BY <2>0, <2>6, UnderWayMapped, UpdateMapped
    <2> QED BY <2>0, <2>2, <2>3, <2>4, <2>5, <2>6, StepKinds
<1> QED BY <1>1, <1>2, SwitchAlways, PTL DEF OrderlySpec, KeepsPromise, Promise!Spec
=============================================================================
