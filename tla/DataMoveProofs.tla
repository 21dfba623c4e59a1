---------------------------- MODULE DataMoveProofs ----------------------------
(***************************************************************************)
(* Proofs about DataMove, for any places and bounds: no write the move can *)
(* see is lost, a start from the pointed folder has everything as long as  *)
(* no disk is away, and, as long as nothing stops or fails either, no old  *)
(* folder is forgotten.                                                    *)
(***************************************************************************)
EXTENDS DataMove, FiniteSetTheorems, TLAPS

Seen == 1..written \ unseen
Holds(p, w) == data[p] # NoFolder /\ w \in data[p]

\* What is seen of the folder p is in the folder q.
Covered(p, q) == \A w \in Seen : Holds(p, w) => Holds(q, w)

Home == IF pointer = NoPointer THEN Default ELSE pointer.root

\* A move before its switch.
Moving == job \in {"copying", "checking", "recopied", "copied", "marked"}

\* Folders whose data went to the pointed one.
Behind == Previous \cup {Default}

\* Where the launcher runs, and what a job works on.
RunInv ==
    /\ root = NoPlace => job = "none" /\ ~installing
    /\ root # NoPlace => data[root] # NoFolder /\ (job = "switched" \/ root \in {Default, Home})
    /\ Moving => root # NoPlace /\ target # NoPlace /\ target # root
    /\ job = "switched" => /\ pointer # NoPointer /\ pointer.root = target
                           /\ root \in Previous /\ root # target
    /\ job = "finishing" => /\ pointer # NoPointer /\ pointer.root = root
                            /\ doomed \subseteq Previous \ {root}

\* A copy holds nothing of its own, and all that is seen of what was copied.
CopyInv ==
    /\ Moving => data[target] # NoFolder /\ Covered(target, root)
    /\ job = "copied" /\ ~installing => Covered(root, target)
    /\ job \in {"marked", "switched"} => Covered(root, target)

\* The folders behind the pointed one hold nothing it does not hold, also while
\* a launcher that runs astray moves its data there.
BehindInv ==
    pointer # NoPointer =>
        /\ \A p \in Behind : Covered(p, pointer.root)
        /\ Moving /\ target = pointer.root =>
               \A p \in Behind \ {target} : \A w \in Seen : ~Holds(p, w)

Kept == \A w \in Seen : \E p \in Places : Holds(p, w)

\* No folder holds a write that is still to come.
Past == \A p \in Places : \A w \in Writes : Holds(p, w) => w <= written

KeptInv == TypeOK /\ RunInv /\ CopyInv /\ BehindInv /\ Past /\ Kept

Uses == [moves : 0..MaxMoves, crashes : 0..MaxCrashes,
         failures : 0..MaxFailures, missing : 0..MaxMissing]
Folders == [Places -> (SUBSET Writes) \cup {NoFolder}]

-----------------------------------------------------------------------------
LEMMA Counted ==
  ASSUME used \in Uses,
         \/ used.moves < MaxMoves /\ Count("moves")
         \/ used.crashes < MaxCrashes /\ Count("crashes")
         \/ used.failures < MaxFailures /\ Count("failures")
         \/ used.missing < MaxMissing /\ Count("missing")
  PROVE  used' \in Uses
BY BoundAssumption DEF Uses, Count

LEMMA Pointed ==
  ASSUME TypeOK, pointer # NoPointer
  PROVE  pointer.root \in Places /\ pointer.previous \subseteq Places /\ Previous = pointer.previous
BY DEF TypeOK, Pointer, Previous

LEMMA PlaceFacts ==
  ASSUME TypeOK
  PROVE  /\ Default \in Places /\ Home \in Places /\ Previous \subseteq Places
         /\ data \in Folders /\ written \in Nat /\ unseen \subseteq Writes
         /\ root # NoPlace => root \in Places
         /\ target # NoPlace => target \in Places
         /\ PointedRoot \in Places
         /\ {} \in SUBSET Writes /\ {} # NoFolder
<1>1. Default \in Places /\ {} # NoFolder
  BY PlaceAssumption, NoneAssumption
<1>2. Home \in Places /\ Previous \subseteq Places /\ PointedRoot \in Places
  BY <1>1, Pointed DEF Home, Previous, PointedRoot
<1>3. written \in Nat
  BY DEF TypeOK, Writes
<1> QED  BY <1>1, <1>2, <1>3 DEF TypeOK, Folders

-----------------------------------------------------------------------------
(***************************************************************************)
(* Types.                                                                  *)
(***************************************************************************)
\* A job of the content writes what the move may see, or what it cannot.
LEMMA InstallAdds ==
  ASSUME InstallWrites
  PROVE  \E lost \in BOOLEAN : AddWrite(lost) /\ (job \in {"marked", "switched"} => lost)
<1>1. PICK lost \in Missed : AddWrite(lost)
  BY DEF InstallWrites
<1>2. lost \in BOOLEAN /\ (job \in {"marked", "switched"} => lost)
  BY DEF Missed
<1> QED  BY <1>1, <1>2

LEMMA WriteTypes ==
  ASSUME TypeOK, RunInv, NEW lost, AddWrite(lost)
  PROVE  data' \in Folders /\ written' \in Writes /\ unseen' \subseteq Writes
<1>1. root \in Places /\ data \in Folders /\ data[root] # NoFolder /\ written \in Writes
      /\ unseen \subseteq Writes
  BY DEF AddWrite, TypeOK, Folders, RunInv
<1>2. written' \in Writes
  BY <1>1, BoundAssumption DEF AddWrite, Writes
<1>3. data[root] \cup {written'} \in SUBSET Writes
  BY <1>1, <1>2 DEF Folders
<1>4. data' \in Folders
  BY <1>1, <1>3 DEF AddWrite, Folders
<1> QED  BY <1>1, <1>2, <1>4 DEF AddWrite

LEMMA StartTypes == ASSUME TypeOK, Start  PROVE TypeOK'
<1>1. root' \in Places /\ root' = PointedRoot
  BY PlaceFacts DEF Start
<1>2. data \in Folders /\ written \in Writes /\ unseen \subseteq Writes
  BY DEF TypeOK, Folders
<1>3. data' \in Folders /\ written' \in Writes /\ unseen' \subseteq Writes
  <2>1. CASE data[root'] # NoFolder
    <3>1. UNCHANGED <<data, written, unseen>>
      BY <2>1 DEF Start, writeVars
    <3> QED  BY <1>2, <3>1
  <2>2. CASE data[root'] = NoFolder
    <3>1. written' = written + 1 /\ written < MaxWrites
          /\ data' = [data EXCEPT ![root'] = {written'}] /\ unseen' \subseteq unseen \cup {written'}
      BY <2>2 DEF Start
    <3>2. written' \in Writes
      BY <1>2, <3>1, BoundAssumption DEF Writes
    <3> QED  BY <1>2, <3>1, <3>2 DEF Folders
  <2> QED  BY <2>1, <2>2
<1>4. due' \in BOOLEAN
  BY DEF Start
<1>5. UNCHANGED <<partial, marker, pointer, here, job, moveVars, doomed, waiting, installing, used>>
  BY DEF Start
<1> QED  BY <1>1, <1>3, <1>4, <1>5 DEF TypeOK, Folders, MoveRunning, moveVars

LEMMA StopTypes == ASSUME TypeOK, Quit \/ Crash  PROVE TypeOK'
<1>1. Stop /\ used' \in Uses
  BY Counted DEF Quit, Crash, TypeOK, Uses
<1> QED  BY <1>1, PlaceAssumption DEF Stop, TypeOK, diskVars, writeVars, MoveRunning, Jobs, Uses

LEMMA DiskTypes ==
  ASSUME TypeOK, NEW p \in Places, DiskGoes(p) \/ DiskReturns(p)
  PROVE  TypeOK'
<1>1. used' \in Uses
  BY Counted DEF DiskGoes, DiskReturns, TypeOK, Uses
<1>2. here' \subseteq Places
  BY DEF DiskGoes, DiskReturns, TypeOK
<1>3. UNCHANGED <<data, partial, marker, pointer, root, job, moveVars, finishVars, installing,
                  writeVars>>
  BY DEF DiskGoes, DiskReturns
<1> QED  BY <1>1, <1>2, <1>3 DEF TypeOK, Uses, moveVars, finishVars, writeVars, MoveRunning

LEMMA WorkTypes ==
  ASSUME TypeOK, RunInv, GameWrites \/ InstallStarts \/ InstallWrites \/ InstallEnds
  PROVE  TypeOK'
<1>1. data' \in Folders /\ written' \in Writes /\ unseen' \subseteq Writes
  <2>1. CASE GameWrites \/ InstallWrites
    <3>1. \E lost \in BOOLEAN : AddWrite(lost)
      BY <2>1, InstallAdds DEF GameWrites
    <3> QED  BY <3>1, WriteTypes
  <2>2. CASE InstallStarts
    BY <2>2 DEF InstallStarts, diskVars, writeVars, TypeOK, Folders
  <2>3. CASE InstallEnds
    <3>1. data' = data /\ written' = written
      BY <2>3 DEF InstallEnds, diskVars
    <3>2. job = "copied" => root # NoPlace
      BY DEF RunInv, Moving
    <3>3. ASSUME job = "copied"  PROVE data[root] \ data[target] \subseteq Writes
      <4>1. root \in Places /\ data[root] # NoFolder
        BY <3>2, <3>3 DEF RunInv, TypeOK
      <4> QED  BY <4>1 DEF TypeOK
    <3> QED  BY <2>3, <3>1, <3>3 DEF InstallEnds, TypeOK, Folders
  <2> QED  BY <2>1, <2>2, <2>3
<1>2. installing' \in BOOLEAN
  BY DEF GameWrites, InstallStarts, InstallWrites, InstallEnds, TypeOK
<1>3. UNCHANGED <<partial, marker, pointer, here, root, job, moveVars, finishVars, used>>
  BY DEF GameWrites, InstallStarts, InstallWrites, InstallEnds, diskVars
<1> QED  BY <1>1, <1>2, <1>3 DEF TypeOK, Folders, moveVars, finishVars, MoveRunning

LEMMA BeginTypes ==
  ASSUME TypeOK, NEW t \in Places, BeginMove(t)
  PROVE  TypeOK'
<1>1. used' \in Uses
  BY Counted DEF BeginMove, TypeOK, Uses
<1>2. data' \in Folders /\ created' \in BOOLEAN /\ partial' \subseteq Places
  BY PlaceFacts DEF BeginMove, TypeOK, Folders
<1>3. job' = "copying" /\ target' = t /\ t # NoPlace
  BY PlaceAssumption DEF BeginMove
<1>4. UNCHANGED <<marker, pointer, here, root, finishVars, installing, writeVars>>
  BY DEF BeginMove
<1> QED  BY <1>1, <1>2, <1>3, <1>4 DEF TypeOK, Folders, Uses, finishVars, writeVars, MoveRunning,
     Jobs

LEMMA CopyTypes ==
  ASSUME TypeOK, RunInv, CopyInv, CopyFiles \/ CopyDiffers \/ CopyVerified \/ MarkOld
  PROVE  TypeOK'
<1>1. /\ Moving /\ root \in Places /\ target \in Places
      /\ data[root] \in SUBSET Writes /\ data[target] \in SUBSET Writes
  <2>1. Moving /\ root \in Places /\ target \in Places
    BY DEF CopyFiles, CopyDiffers, CopyVerified, MarkOld, Moving, RunInv, TypeOK
  <2> QED  BY <2>1 DEF RunInv, CopyInv, TypeOK
<1>2. data' \in Folders
  BY <1>1 DEF CopyFiles, CopyDiffers, Differ, CopyVerified, MarkOld, diskVars, TypeOK, Folders
<1>3. unseen' \subseteq Writes
  BY <1>1 DEF CopyFiles, CopyDiffers, CopyVerified, MarkOld, writeVars, TypeOK
<1>4. marker' \in [Places -> Places \cup {NoPlace}]
  BY <1>1 DEF CopyFiles, CopyDiffers, CopyVerified, MarkOld, diskVars, TypeOK
<1>5. job' \in {"checking", "recopied", "copied", "marked"} /\ MoveRunning
  BY DEF CopyFiles, CopyDiffers, CopyVerified, MarkOld, MoveRunning
<1>6. UNCHANGED <<partial, pointer, here, root, target, created, finishVars, installing, written,
                  used>>
  BY DEF CopyFiles, CopyDiffers, CopyVerified, MarkOld, diskVars, moveVars, writeVars
<1> QED  BY <1>2, <1>3, <1>4, <1>5, <1>6 DEF TypeOK, Folders, finishVars, MoveRunning, Jobs

LEMMA DropTypes ==
  ASSUME TypeOK, RunInv, CopyFails \/ PointFails
  PROVE  TypeOK'
<1>1. Moving /\ root \in Places /\ target \in Places
  BY DEF CopyFails, PointFails, Moving, RunInv, TypeOK
<1>2. DropCopy /\ EndMove
  BY DEF CopyFails, PointFails
<1>3. data' \in Folders /\ partial' \subseteq Places
  BY <1>1, <1>2, PlaceFacts DEF DropCopy, Folders, TypeOK
<1>4. marker' \in [Places -> Places \cup {NoPlace}]
  BY DEF CopyFails, PointFails, TypeOK
<1>5. used' \in Uses
  BY Counted DEF CopyFails, PointFails, TypeOK, Uses
<1>6. UNCHANGED <<pointer, here, root, finishVars, installing, writeVars>>
  BY DEF CopyFails, PointFails
<1> QED  BY <1>2, <1>3, <1>4, <1>5, <1>6 DEF EndMove, TypeOK, Folders, Uses, finishVars, writeVars,
     MoveRunning, Jobs

LEMMA PointTypes == ASSUME TypeOK, RunInv, Point  PROVE TypeOK'
<1>1. root \in Places /\ target \in Places /\ job = "marked" /\ job' = "switched"
  BY DEF Point, Moving, RunInv, TypeOK
<1>2. pointer' \in Pointer
  BY <1>1, PlaceFacts DEF Point, Pointer, StillWaiting
<1>3. partial' \subseteq Places
  BY DEF Point, TypeOK
<1>4. UNCHANGED <<data, marker, here, root, moveVars, finishVars, installing, writeVars, used>>
  BY DEF Point
<1> QED  BY <1>1, <1>2, <1>3, <1>4 DEF TypeOK, moveVars, finishVars, writeVars, MoveRunning, Jobs

LEMMA FinishTypes == ASSUME TypeOK, RunInv, SkipFinish \/ BeginFinish \/ SettlePointer  PROVE TypeOK'
<1>1. pointer' \in Pointer \cup {NoPointer}
  <2>1. CASE SkipFinish \/ BeginFinish
    BY <2>1 DEF SkipFinish, BeginFinish, diskVars, TypeOK
  <2>2. CASE SettlePointer
    <3>1. pointer \in Pointer
      BY <2>2 DEF SettlePointer, RunInv, TypeOK
    <3>2. [pointer EXCEPT !.previous = @ \cap waiting] \in Pointer
      BY <3>1 DEF Pointer
    <3> QED  BY <2>2, <3>2 DEF SettlePointer
  <2> QED  BY <2>1, <2>2
<1>2. due' \in BOOLEAN /\ waiting' \subseteq Places /\ doomed' \subseteq Places
  BY PlaceFacts DEF SkipFinish, BeginFinish, SettlePointer, TypeOK
<1>3. job' \in Jobs /\ (MoveRunning' <=> MoveRunning)
  BY DEF SkipFinish, BeginFinish, SettlePointer, TypeOK, Jobs, MoveRunning
<1>4. UNCHANGED <<data, partial, marker, here, root, moveVars, installing, writeVars, used>>
  BY DEF SkipFinish, BeginFinish, SettlePointer, diskVars
<1> QED  BY <1>1, <1>2, <1>3, <1>4 DEF TypeOK, moveVars, writeVars

LEMMA DeleteTypes ==
  ASSUME TypeOK, NEW p \in Places, DeleteOld(p) \/ DeleteFails(p)
  PROVE  TypeOK'
<1>1. data' \in Folders /\ partial' \subseteq Places /\ marker' \in [Places -> Places \cup {NoPlace}]
  BY PlaceFacts DEF DeleteOld, DeleteFails, TypeOK, Folders
<1>2. used' \in Uses
  BY Counted DEF DeleteOld, DeleteFails, TypeOK, Uses
<1>3. doomed' \subseteq Places /\ waiting' \subseteq Places
  BY DEF DeleteOld, DeleteFails, TypeOK
<1>4. UNCHANGED <<pointer, here, root, job, moveVars, due, installing, writeVars>>
  BY DEF DeleteOld, DeleteFails
<1> QED  BY <1>1, <1>2, <1>3, <1>4 DEF TypeOK, Folders, Uses, moveVars, writeVars, MoveRunning

LEMMA TypeStep == ASSUME TypeOK, RunInv, CopyInv, [Next]_vars  PROVE TypeOK'
<1>1. CASE UNCHANGED vars
  BY <1>1 DEF vars, diskVars, moveVars, finishVars, writeVars, TypeOK, MoveRunning
<1>2. CASE Next
  BY <1>2, StartTypes, StopTypes, DiskTypes, WorkTypes, BeginTypes, CopyTypes, DropTypes,
     PointTypes, FinishTypes, DeleteTypes DEF Next
<1> QED  BY <1>1, <1>2

-----------------------------------------------------------------------------
(***************************************************************************)
(* Steps that leave every folder as it is.                                 *)
(***************************************************************************)
LEMMA Unwritten ==
  ASSUME data' = data, written' = written, unseen \subseteq unseen'
  PROVE  /\ Seen' \subseteq Seen
         /\ \A p : \A w : Holds(p, w)' <=> Holds(p, w)
         /\ \A p : \A q : Covered(p, q) => Covered(p, q)'
         /\ Past => Past'
         /\ Kept => Kept'
<1>1. Seen' \subseteq Seen
  BY DEF Seen
<1>2. \A p : \A w : Holds(p, w)' <=> Holds(p, w)
  BY DEF Holds
<1>3. \A p : \A q : Covered(p, q) => Covered(p, q)'
  BY <1>1, <1>2 DEF Covered
<1>4. Past => Past'
  BY <1>2 DEF Past
<1>5. Kept => Kept'
  BY <1>1, <1>2 DEF Kept
<1> QED  BY <1>1, <1>2, <1>3, <1>4, <1>5

LEMMA QuietStep ==
  ASSUME KeptInv, UNCHANGED <<data, pointer, root, job, target, written, installing, doomed>>,
         unseen \subseteq unseen'
  PROVE  RunInv' /\ CopyInv' /\ BehindInv' /\ Past' /\ Kept'
<1>1. RunInv'
  BY DEF KeptInv, RunInv, Moving, Home, Previous
<1>2. CopyInv'
  BY Unwritten DEF KeptInv, CopyInv, Moving
<1>3. BehindInv'
  BY Unwritten DEF KeptInv, BehindInv, Moving, Behind, Previous
<1> QED  BY <1>1, <1>2, <1>3, Unwritten DEF KeptInv

LEMMA DiskStep ==
  ASSUME KeptInv, NEW p \in Places, DiskGoes(p) \/ DiskReturns(p)
  PROVE  RunInv' /\ CopyInv' /\ BehindInv' /\ Past' /\ Kept'
<1>1. UNCHANGED <<data, pointer, root, job, target, written, unseen, installing, doomed>>
  BY DEF DiskGoes, DiskReturns, moveVars, finishVars, writeVars
<1> QED  BY <1>1, QuietStep

LEMMA StopStep ==
  ASSUME KeptInv, Quit \/ Crash
  PROVE  RunInv' /\ CopyInv' /\ BehindInv' /\ Past' /\ Kept'
<1>1. /\ UNCHANGED <<data, pointer, written, unseen>>
      /\ root' = NoPlace /\ job' = "none" /\ ~installing'
  BY DEF Quit, Crash, Stop, diskVars, writeVars
<1>2. RunInv' /\ CopyInv'
  BY <1>1 DEF RunInv, CopyInv, Moving
<1>3. BehindInv'
  BY <1>1, Unwritten DEF KeptInv, BehindInv, Moving, Behind, Previous
<1> QED  BY <1>1, <1>2, <1>3, Unwritten DEF KeptInv

LEMMA InstallStep ==
  ASSUME KeptInv, InstallStarts \/ InstallEnds
  PROVE  RunInv' /\ CopyInv' /\ BehindInv' /\ Past' /\ Kept'
<1>1. /\ UNCHANGED <<data, pointer, root, job, target, written, doomed>>
      /\ unseen \subseteq unseen' /\ root # NoPlace
  BY DEF InstallStarts, InstallEnds, diskVars, moveVars, finishVars, writeVars, KeptInv, RunInv
<1>2. RunInv'
  BY <1>1 DEF KeptInv, RunInv, Moving, Home, Previous
<1>3. ASSUME job = "copied", ~installing'  PROVE Covered(root, target)'
  <2>1. unseen' = unseen \cup (data[root] \ data[target])
    BY <1>3 DEF InstallStarts, InstallEnds
  <2>2. data[target] # NoFolder
    BY <1>3 DEF KeptInv, CopyInv, Moving
  <2> QED  BY <1>1, <2>1, <2>2 DEF Covered, Holds, Seen
<1>4. CopyInv'
  BY <1>1, <1>3, Unwritten DEF KeptInv, CopyInv, Moving
<1>5. BehindInv'
  BY <1>1, Unwritten DEF KeptInv, BehindInv, Moving, Behind, Previous
<1> QED  BY <1>1, <1>2, <1>4, <1>5, Unwritten DEF KeptInv

LEMMA VerifyStep ==
  ASSUME KeptInv, CopyVerified \/ MarkOld
  PROVE  RunInv' /\ CopyInv' /\ BehindInv' /\ Past' /\ Kept'
<1>1. /\ UNCHANGED <<data, pointer, root, target, written, installing, doomed>>
      /\ unseen \subseteq unseen' /\ Moving /\ job' \in {"copied", "marked"}
  BY DEF CopyVerified, MarkOld, diskVars, moveVars, finishVars, writeVars, Moving
<1>2. RunInv'
  BY <1>1 DEF KeptInv, RunInv, Moving, Home, Previous
<1>3. Covered(root, target)'
  <2>1. CASE CopyVerified
    <3>1. data[root] \subseteq data[target] \cup unseen
      BY <2>1 DEF CopyVerified, Differ
    <3>2. data[target] # NoFolder
      BY <1>1 DEF KeptInv, CopyInv
    <3> QED  BY <1>1, <3>1, <3>2 DEF Covered, Holds, Seen
  <2>2. CASE MarkOld
    <3>1. Covered(root, target)
      BY <2>2 DEF MarkOld, KeptInv, CopyInv
    <3> QED  BY <1>1, <3>1, Unwritten
  <2> QED  BY <2>1, <2>2
<1>4. CopyInv'
  BY <1>1, <1>3, Unwritten DEF KeptInv, CopyInv
<1>5. BehindInv'
  BY <1>1, Unwritten DEF KeptInv, BehindInv, Behind, Previous
<1> QED  BY <1>1, <1>2, <1>4, <1>5, Unwritten DEF KeptInv

LEMMA FinishStep ==
  ASSUME KeptInv, SkipFinish \/ BeginFinish
  PROVE  RunInv' /\ CopyInv' /\ BehindInv' /\ Past' /\ Kept'
<1>1. CASE SkipFinish
  BY <1>1, QuietStep DEF SkipFinish, diskVars, moveVars, writeVars
<1>2. CASE BeginFinish
  <2>1. /\ UNCHANGED <<data, pointer, root, target, written, unseen, installing>>
        /\ job' = "finishing" /\ root # NoPlace
        /\ pointer # NoPointer /\ pointer.root = root /\ doomed' \subseteq Previous \ {root}
    BY <1>2, Pointed, PlaceAssumption DEF BeginFinish, diskVars, moveVars, writeVars, Previous,
       KeptInv
  <2>2. RunInv'
    BY <2>1 DEF KeptInv, RunInv, Moving, Home, Previous
  <2>3. CopyInv' /\ BehindInv'
    BY <2>1, Unwritten DEF KeptInv, CopyInv, BehindInv, Moving, Behind, Previous
  <2> QED  BY <2>1, <2>2, <2>3, Unwritten DEF KeptInv
<1> QED  BY <1>1, <1>2

LEMMA SettleStep ==
  ASSUME KeptInv, SettlePointer
  PROVE  RunInv' /\ CopyInv' /\ BehindInv' /\ Past' /\ Kept'
<1>1. /\ UNCHANGED <<data, root, target, written, unseen, installing, doomed>>
      /\ job' = "none" /\ root # NoPlace
      /\ pointer # NoPointer /\ pointer.root = root /\ pointer \in Pointer
  BY DEF SettlePointer, moveVars, writeVars, KeptInv, RunInv, TypeOK
<1>2. \/ pointer' = NoPointer /\ root = Default
      \/ /\ pointer' = [pointer EXCEPT !.previous = @ \cap waiting]
         /\ pointer'.root = root /\ pointer' # NoPointer /\ Previous' \subseteq Previous
  <2>1. CASE pointer' = [pointer EXCEPT !.previous = @ \cap waiting]
    <3>1. pointer' \in Pointer /\ pointer'.root = root /\ pointer'.previous \subseteq pointer.previous
      BY <1>1, <2>1 DEF Pointer
    <3> QED  BY <1>1, <2>1, <3>1, NoneAssumption DEF Previous
  <2> QED  BY <2>1 DEF SettlePointer
<1>3. RunInv'
  BY <1>1, <1>2 DEF KeptInv, RunInv, Moving, Home
<1>4. CopyInv'
  BY <1>1 DEF CopyInv, Moving
<1>5. BehindInv'
  BY <1>1, <1>2, Unwritten DEF KeptInv, BehindInv, Moving, Behind
<1> QED  BY <1>1, <1>3, <1>4, <1>5, Unwritten DEF KeptInv

LEMMA PointStep ==
  ASSUME KeptInv, Point
  PROVE  RunInv' /\ CopyInv' /\ BehindInv' /\ Past' /\ Kept'
<1>1. /\ UNCHANGED <<data, root, target, written, unseen, installing, doomed>>
      /\ job = "marked" /\ job' = "switched" /\ root # NoPlace
      /\ root \in Places /\ target \in Places /\ target # root
  BY DEF Point, moveVars, finishVars, writeVars, KeptInv, RunInv, Moving, TypeOK
<1>2. /\ pointer' = [root |-> target, previous |-> {root} \cup StillWaiting]
      /\ pointer' # NoPointer /\ pointer'.root = target /\ Previous' = {root} \cup StillWaiting
  <2>1. pointer' = [root |-> target, previous |-> {root} \cup StillWaiting]
    BY DEF Point
  <2>2. pointer' \in Pointer
    BY <1>1, <2>1, PlaceFacts DEF KeptInv, Pointer, StillWaiting
  <2> QED  BY <2>1, <2>2, NoneAssumption DEF Previous
<1>3. RunInv'
  BY <1>1, <1>2 DEF KeptInv, RunInv, Moving
<1>4. Covered(root, target)
  BY <1>1 DEF KeptInv, CopyInv
<1>5. CopyInv'
  BY <1>1, <1>4, Unwritten DEF CopyInv, Moving
<1>6. \A p \in StillWaiting : Covered(p, root)
  BY DEF KeptInv, BehindInv, Behind, StillWaiting
<1>7. Default = root \/ Covered(Default, root)
  BY <1>1 DEF KeptInv, RunInv, BehindInv, Behind, Home
<1>8. \A p \in {root, Default} \cup StillWaiting : Covered(p, target)
  BY <1>4, <1>6, <1>7 DEF Covered
<1>9. BehindInv'
  BY <1>1, <1>2, <1>8, Unwritten DEF BehindInv, Moving, Behind
<1> QED  BY <1>1, <1>3, <1>5, <1>9, Unwritten DEF KeptInv

-----------------------------------------------------------------------------
(***************************************************************************)
(* Steps that write the folder the launcher runs from.                     *)
(***************************************************************************)
\* The launcher's folder r gets the next write.
Adds(r) ==
    /\ written' = written + 1
    /\ data' = [data EXCEPT ![r] = (IF data[r] = NoFolder THEN {} ELSE data[r]) \cup {written'}]

LEMMA Added ==
  ASSUME TypeOK, TypeOK', NEW r \in Places, Adds(r), Past,
         unseen' \in {unseen, unseen \cup {written'}}
  PROVE  /\ data'[r] # NoFolder
         /\ \A p \in Places : data[p] # NoFolder => data'[p] # NoFolder
         /\ Seen' \subseteq Seen \cup {written'}
         /\ unseen' = unseen \cup {written'} => Seen' \subseteq Seen
         /\ \A p \in Places : \A w \in Seen : Holds(p, w)' <=> Holds(p, w)
         /\ \A p \in Places : \A w : w = written' => (Holds(p, w)' <=> p = r)
         /\ Past'
<1>1. data \in Folders /\ written \in Nat /\ written' = written + 1 /\ written' \in Writes
  BY PlaceFacts DEF Adds, TypeOK
<1> DEFINE more == (IF data[r] = NoFolder THEN {} ELSE data[r]) \cup {written'}
<1>2. data' = [data EXCEPT ![r] = more] /\ data' \in Folders
  BY DEF Adds, TypeOK, Folders
<1>3. data'[r] = more /\ \A p \in Places \ {r} : data'[p] = data[p]
  BY <1>1, <1>2 DEF Folders
<1>4. more \in SUBSET Writes /\ more # NoFolder
  <2>1. more \in SUBSET Writes
    BY <1>1 DEF Folders
  <2> QED  BY <2>1, NoneAssumption
<1>5. \A p \in Places : \A w : w # written' => (Holds(p, w)' <=> Holds(p, w))
  <2> TAKE p \in Places
  <2> TAKE w
  <2> HAVE w # written'
  <2>1. CASE p = r
    BY <1>3, <1>4, <2>1 DEF Holds
  <2>2. CASE p # r
    BY <1>3, <2>2 DEF Holds
  <2> QED  BY <2>1, <2>2
<1>6. \A p \in Places : ~Holds(p, written')
  BY <1>1 DEF Past
<1>7. \A p \in Places : \A w : w = written' => (Holds(p, w)' <=> p = r)
  <2> TAKE p \in Places
  <2> TAKE w
  <2> HAVE w = written'
  <2>1. CASE p = r
    BY <1>3, <1>4, <2>1 DEF Holds
  <2>2. CASE p # r
    BY <1>3, <1>6, <2>2 DEF Holds
  <2> QED  BY <2>1, <2>2
<1>8. Seen' \subseteq Seen \cup {written'} /\ written' \notin Seen
  BY <1>1 DEF Seen
<1>9. unseen' = unseen \cup {written'} => Seen' \subseteq Seen
  BY <1>1, <1>8 DEF Seen
<1>10. Past'
  <2> SUFFICES ASSUME NEW p \in Places, NEW w \in Writes, Holds(p, w)'  PROVE w <= written'
    BY DEF Past
  <2>1. w \in Nat
    BY DEF Writes
  <2>2. CASE w = written'
    BY <1>1, <2>2
  <2>3. CASE w # written'
    BY <1>1, <1>5, <2>1, <2>3 DEF Past
  <2> QED  BY <2>2, <2>3
<1>11. data'[r] # NoFolder /\ \A p \in Places : data[p] # NoFolder => data'[p] # NoFolder
  BY <1>3, <1>4
<1>12. \A p \in Places : \A w \in Seen : Holds(p, w)' <=> Holds(p, w)
  BY <1>5, <1>8
<1> HIDE DEF more
<1> QED  BY <1>7, <1>8, <1>9, <1>10, <1>11, <1>12

\* What is seen of the write stands where it was made: nothing that was covered
\* is uncovered but by it.
LEMMA AddedCovers ==
  ASSUME TypeOK, TypeOK', NEW r \in Places, Adds(r), Past,
         unseen' \in {unseen, unseen \cup {written'}},
         NEW p \in Places, NEW q \in Places, Covered(p, q),
         p = r => q = r \/ unseen' = unseen \cup {written'}
  PROVE  Covered(p, q)'
<1> SUFFICES ASSUME NEW w \in Seen', Holds(p, w)'  PROVE Holds(q, w)'
  BY DEF Covered
<1>1. CASE w \in Seen
  <2>1. Holds(p, w)
    BY <1>1, Added
  <2>2. Holds(q, w)
    BY <1>1, <2>1 DEF Covered
  <2> QED  BY <1>1, <2>2, Added
<1>2. CASE w \notin Seen
  <2>1. w = written' /\ unseen' # unseen \cup {written'}
    BY <1>2, Added
  <2>2. p = r /\ q = r
    BY <2>1, Added
  <2> QED  BY <2>2
<1> QED  BY <1>1, <1>2

LEMMA AddedKept ==
  ASSUME TypeOK, TypeOK', NEW r \in Places, Adds(r), Past, Kept,
         unseen' \in {unseen, unseen \cup {written'}}
  PROVE  Kept'
<1> SUFFICES ASSUME NEW w \in Seen'  PROVE \E p \in Places : Holds(p, w)'
  BY DEF Kept
<1>1. CASE w \in Seen
  <2>1. PICK p \in Places : Holds(p, w)
    BY <1>1 DEF Kept
  <2> QED  BY <1>1, <2>1, Added
<1>2. CASE w \notin Seen
  <2>1. w = written'
    BY <1>2, Added
  <2> QED  BY <2>1, Added
<1> QED  BY <1>1, <1>2

LEMMA StartStep ==
  ASSUME KeptInv, TypeOK', Start
  PROVE  RunInv' /\ CopyInv' /\ BehindInv' /\ Past' /\ Kept'
<1>1. /\ root = NoPlace /\ root' = PointedRoot /\ root' \in Places /\ root' # NoPlace
      /\ job = "none" /\ ~installing
      /\ UNCHANGED <<pointer, job, target, doomed, installing>>
      /\ pointer # NoPointer => pointer.root \in Places /\ Behind \subseteq Places
  BY PlaceFacts, PlaceAssumption, Pointed DEF Start, KeptInv, RunInv, moveVars, Behind
<1>2. root' \in {Default, Home}
  BY <1>1 DEF PointedRoot, Home
<1>3. CopyInv'
  BY <1>1 DEF CopyInv, Moving
<1>4. CASE data[root'] # NoFolder
  <2>1. UNCHANGED <<data, written, unseen>>
    BY <1>4 DEF Start, writeVars
  <2>2. RunInv'
    BY <1>1, <1>2, <1>4, <2>1 DEF RunInv, Moving, Home
  <2>3. BehindInv'
    BY <1>1, <2>1, Unwritten DEF KeptInv, BehindInv, Moving, Behind, Previous
  <2> QED  BY <1>3, <2>1, <2>2, <2>3, Unwritten DEF KeptInv
<1>5. CASE data[root'] = NoFolder
  <2>1. /\ Adds(root') /\ unseen' \in {unseen, unseen \cup {written'}}
        /\ Astray(root') => unseen' = unseen \cup {written'}
    <3>1. /\ written' = written + 1 /\ data' = [data EXCEPT ![root'] = {written'}]
          /\ unseen' = IF Astray(root') THEN unseen \cup {written'} ELSE unseen
      BY <1>5 DEF Start
    <3>2. Adds(root')
      BY <1>5, <3>1 DEF Adds
    <3> QED  BY <3>1, <3>2
  <2>2. RunInv'
    BY <1>1, <1>2, <2>1, Added DEF KeptInv, RunInv, Moving, Home
  <2>3. ASSUME pointer # NoPointer, NEW p \in Behind  PROVE Covered(p, pointer.root)'
    <3>1. p = root' => pointer.root = root' \/ unseen' = unseen \cup {written'}
      BY <2>1, <2>3 DEF Astray
    <3>2. Covered(p, pointer.root) /\ pointer.root \in Places /\ p \in Places
      BY <1>1, <2>3 DEF KeptInv, BehindInv
    <3>3. TypeOK /\ Past
      BY DEF KeptInv
    <3>4. \A q \in Places : q = pointer.root => Covered(p, q)'
      BY <1>1, <2>1, <3>1, <3>2, <3>3, AddedCovers
    <3> QED  BY <1>1, <3>2, <3>4 DEF Covered, Holds
  <2>4. BehindInv'
    BY <1>1, <2>3 DEF BehindInv, Moving, Behind, Previous
  <2> QED  BY <1>1, <1>3, <2>1, <2>2, <2>4, Added, AddedKept DEF KeptInv
<1> QED  BY <1>4, <1>5

LEMMA WriteStep ==
  ASSUME KeptInv, TypeOK', GameWrites \/ InstallWrites
  PROVE  RunInv' /\ CopyInv' /\ BehindInv' /\ Past' /\ Kept'
<1>1. /\ root # NoPlace /\ root \in Places /\ data[root] # NoFolder
      /\ UNCHANGED <<pointer, root, job, target, doomed, installing>>
      /\ pointer # NoPointer => pointer.root \in Places /\ Behind \subseteq Places
  BY PlaceFacts, Pointed DEF GameWrites, InstallWrites, AddWrite, KeptInv, RunInv, moveVars,
     finishVars, Behind
<1>2. /\ Adds(root) /\ unseen' \in {unseen, unseen \cup {written'}}
      /\ Astray(root) => unseen' = unseen \cup {written'}
      /\ job \in {"marked", "switched"} => unseen' = unseen \cup {written'}
      /\ job = "copied" => installing
  <2>1. PICK lost \in BOOLEAN :
            AddWrite(lost) /\ (job \in {"marked", "switched"} => lost)
    BY InstallAdds DEF GameWrites, MoveRunning
  <2>2. job = "copied" => installing
    BY DEF GameWrites, InstallWrites, MoveRunning
  <2> QED  BY <1>1, <2>1, <2>2 DEF AddWrite, Adds
<1>3. TypeOK /\ Past /\ Kept
  BY DEF KeptInv
<1>4. RunInv'
  BY <1>1, <1>2, <1>3, Added DEF KeptInv, RunInv, Moving, Home, Previous
<1>5. CopyInv'
  <2>1. ASSUME Moving  PROVE data'[target] # NoFolder /\ Covered(target, root)'
    <3>1. target \in Places /\ target # root /\ data[target] # NoFolder /\ Covered(target, root)
      BY <2>1, PlaceFacts DEF KeptInv, RunInv, CopyInv
    <3> QED  BY <1>1, <1>2, <1>3, <3>1, Added, AddedCovers
  <2>2. ASSUME job \in {"marked", "switched"}  PROVE Covered(root, target)'
    <3>1. target \in Places /\ Covered(root, target)
      BY <2>2 DEF KeptInv, CopyInv, TypeOK, MoveRunning
    <3> QED  BY <1>1, <1>2, <1>3, <2>2, <3>1, AddedCovers
  <2> QED  BY <1>1, <1>2, <2>1, <2>2 DEF CopyInv, Moving
<1>6. BehindInv'
  <2>1. ASSUME pointer # NoPointer, NEW p \in Behind  PROVE Covered(p, pointer.root)'
    <3>1. p = root => pointer.root = root \/ unseen' = unseen \cup {written'}
      BY <1>2, <2>1 DEF Astray
    <3>2. Covered(p, pointer.root) /\ pointer.root \in Places /\ p \in Places
      BY <1>1, <2>1 DEF KeptInv, BehindInv
    <3>3. \A q \in Places : q = pointer.root => Covered(p, q)'
      BY <1>1, <1>2, <1>3, <3>1, <3>2, AddedCovers
    <3> QED  BY <1>1, <3>2, <3>3 DEF Covered, Holds
  <2>2. ASSUME pointer # NoPointer, Moving, target = pointer.root, NEW p \in Behind \ {target},
               NEW w \in Seen'
        PROVE  ~Holds(p, w)'
    <3>1. Astray(root)
      BY <2>2 DEF KeptInv, RunInv, Astray
    <3>2. w \in Seen
      BY <1>1, <1>2, <1>3, <3>1, Added
    <3> QED  BY <1>1, <1>2, <1>3, <2>2, <3>2, Added DEF KeptInv, BehindInv
  <2> QED  BY <1>1, <2>1, <2>2 DEF BehindInv, Moving, Behind, Previous
<1> QED  BY <1>1, <1>2, <1>3, <1>4, <1>5, <1>6, Added, AddedKept

-----------------------------------------------------------------------------
(***************************************************************************)
(* Steps that change one folder of a move or of its finish.                *)
(***************************************************************************)
LEMMA BeginStep ==
  ASSUME KeptInv, NEW t \in Places, BeginMove(t)
  PROVE  RunInv' /\ CopyInv' /\ BehindInv' /\ Past' /\ Kept'
<1>1. /\ UNCHANGED <<pointer, root, doomed, installing, written, unseen>>
      /\ root # NoPlace /\ job = "none" /\ job' = "copying" /\ target' = t /\ t # root
      /\ t # NoPlace /\ data[t] \in {NoFolder, {}}
  BY PlaceAssumption DEF BeginMove, finishVars, writeVars
<1>2. data' = [data EXCEPT ![t] = {}] /\ data \in Folders /\ {} # NoFolder
  BY PlaceFacts DEF BeginMove, KeptInv
<1>3. data'[t] = {} /\ \A p \in Places : p # t => data'[p] = data[p]
  BY <1>2 DEF Folders
<1>4. \A p \in Places : \A w : Holds(p, w)' <=> Holds(p, w)
  <2> TAKE p \in Places
  <2>1. CASE p = t
    BY <1>1, <1>3, <2>1 DEF Holds
  <2>2. CASE p # t
    BY <1>3, <2>2 DEF Holds
  <2> QED  BY <2>1, <2>2
<1>5. Seen' = Seen /\ \A p \in Places : \A q \in Places : Covered(p, q)' <=> Covered(p, q)
  BY <1>1, <1>4 DEF Covered, Seen
<1>6. RunInv'
  BY <1>1, <1>3, PlaceFacts DEF KeptInv, RunInv, Moving, Home
<1>7. \A w : ~Holds(t, w)
  BY <1>1 DEF Holds
<1>8. CopyInv'
  BY <1>1, <1>2, <1>3 DEF CopyInv, Covered, Holds
<1>9. BehindInv'
  <2> SUFFICES ASSUME pointer # NoPointer
               PROVE  /\ \A p \in Behind : Covered(p, pointer.root)'
                      /\ t = pointer.root => \A p \in Behind : \A w \in Seen : ~Holds(p, w)'
    BY <1>1, <1>5 DEF BehindInv, Behind, Previous, Covered, Holds
  <2>1. pointer.root \in Places /\ Behind \subseteq Places
    BY PlaceFacts, Pointed DEF KeptInv, Behind
  <2>2. \A p \in Behind : Covered(p, pointer.root)
    BY DEF KeptInv, BehindInv
  <2>3. t = pointer.root => \A p \in Behind : \A w \in Seen : ~Holds(p, w)
    BY <2>2, <1>7 DEF Covered
  <2> QED  BY <1>1, <1>4, <1>5, <2>1, <2>2, <2>3 DEF Covered
<1>10. Past' /\ Kept'
  BY <1>1, <1>4, <1>5 DEF KeptInv, Past, Kept
<1> QED  BY <1>6, <1>8, <1>9, <1>10

LEMMA CopyStep ==
  ASSUME KeptInv, CopyFiles \/ CopyDiffers
  PROVE  RunInv' /\ CopyInv' /\ BehindInv' /\ Past' /\ Kept'
<1>1. /\ UNCHANGED <<pointer, root, target, doomed, installing, written, unseen>>
      /\ Moving /\ job' \in {"checking", "recopied"}
  BY DEF CopyFiles, CopyDiffers, moveVars, finishVars, writeVars, Moving
<1>2. /\ root \in Places /\ target \in Places /\ target # root /\ root # NoPlace
      /\ data[root] # NoFolder /\ root \in {Default, Home} /\ Covered(target, root)
  BY <1>1, PlaceFacts DEF KeptInv, RunInv, CopyInv, Moving
<1>3. PICK held \in {data[root], data[target] \cup Differ} : data' = [data EXCEPT ![target] = held]
  BY DEF CopyFiles, CopyDiffers
<1>4. /\ data'[target] = held /\ held # NoFolder
      /\ \A p \in Places : p # target => data'[p] = data[p]
  <2>1. data \in Folders /\ data[target] # NoFolder
    BY <1>1, PlaceFacts DEF KeptInv, CopyInv
  <2>2. data[root] \subseteq Writes /\ data[target] \subseteq Writes
    BY <1>2, <2>1 DEF Folders
  <2>3. held \subseteq Writes
    BY <1>3, <2>2 DEF Differ
  <2> QED  BY <1>2, <1>3, <2>1, <2>3, NoneAssumption DEF Folders
<1>5. /\ \A w \in Seen : Holds(target, w)' <=> Holds(root, w)
      /\ \A w : Holds(target, w)' => Holds(root, w) \/ Holds(target, w)
      /\ \A w : \A p \in Places : p # target => (Holds(p, w)' <=> Holds(p, w))
  <2>1. \A w : Holds(target, w)' <=> w \in held
    BY <1>1, <1>4 DEF Holds
  <2>2. \A w \in Seen : w \in data[target] => w \in data[root]
    BY <1>1, <1>2 DEF Covered, Holds, KeptInv, CopyInv
  <2>3. \A w \in Seen : w \in held <=> w \in data[root]
    BY <1>3, <2>2 DEF Differ, Seen
  <2>4. data[target] # NoFolder
    BY <1>1 DEF KeptInv, CopyInv
  <2>5. \A w : w \in held => w \in data[root] \/ w \in data[target]
    BY <1>3 DEF Differ
  <2> QED  BY <1>2, <1>4, <2>1, <2>3, <2>4, <2>5 DEF Holds
<1>6. Seen' = Seen
  BY <1>1 DEF Seen
<1>7. RunInv'
  BY <1>1, <1>2, <1>4 DEF KeptInv, RunInv, Moving, Home
<1>8. CopyInv'
  <2>1. Covered(target, root)'
    BY <1>1, <1>2, <1>5, <1>6 DEF Covered
  <2> QED  BY <1>1, <1>2, <1>4, <2>1 DEF CopyInv
<1>9. BehindInv'
  <2> SUFFICES ASSUME pointer # NoPointer
               PROVE  /\ \A p \in Behind : Covered(p, pointer.root)'
                      /\ target = pointer.root =>
                            \A p \in Behind \ {target} : \A w \in Seen : ~Holds(p, w)'
    BY <1>1, <1>6 DEF BehindInv, Behind, Previous, Covered, Holds
  <2>0. pointer.root \in Places /\ Behind \subseteq Places
    BY PlaceFacts, Pointed DEF KeptInv, Behind
  <2>1. CASE target = pointer.root
    BY <1>1, <1>5, <1>6, <2>0, <2>1 DEF KeptInv, BehindInv, Covered
  <2>2. CASE target # pointer.root
    <3>1. root = pointer.root \/ Covered(root, pointer.root)
      BY <1>2 DEF KeptInv, BehindInv, Behind, Home
    <3>2. Covered(root, pointer.root)
      BY <3>1 DEF Covered
    <3> QED  BY <1>1, <1>5, <1>6, <2>0, <2>2, <3>2 DEF KeptInv, BehindInv, Covered
  <2> QED  BY <2>1, <2>2
<1>10. Past'
  <2> SUFFICES ASSUME NEW p \in Places, NEW w \in Writes, Holds(p, w)'  PROVE w <= written
    BY <1>1 DEF Past
  <2>1. \E q \in Places : Holds(q, w)
    <3>1. CASE p = target
      BY <1>1, <1>2, <1>5, <3>1 DEF Holds
    <3>2. CASE p # target
      BY <1>5, <3>2
    <3> QED  BY <3>1, <3>2
  <2> QED  BY <2>1 DEF KeptInv, Past
<1>11. Kept'
  BY <1>2, <1>5, <1>6 DEF KeptInv, Kept, Covered
<1> QED  BY <1>7, <1>8, <1>9, <1>10, <1>11

\* A folder whose data another one has may go, if nothing runs in it and it is
\* not the pointed one, or nothing points to it but the move that ends.
Drops(t) ==
    /\ data' \in {[data EXCEPT ![t] = NoFolder], [data EXCEPT ![t] = {}]}
    /\ UNCHANGED <<pointer, root, written, unseen, installing>>

LEMMA Dropped ==
  ASSUME data \in Folders, NEW t \in Places, Drops(t)
  PROVE  /\ Seen' = Seen
         /\ \A p \in Places : p # t => data'[p] = data[p]
         /\ \A w : /\ ~Holds(t, w)'
                   /\ \A p \in Places : p # t => (Holds(p, w)' <=> Holds(p, w))
<1>1. data'[t] \in {NoFolder, {}} /\ \A p \in Places : p # t => data'[p] = data[p]
  <2>1. CASE data' = [data EXCEPT ![t] = NoFolder]
    BY <2>1 DEF Folders
  <2>2. CASE data' = [data EXCEPT ![t] = {}]
    BY <2>2 DEF Folders
  <2> QED  BY <2>1, <2>2 DEF Drops
<1> QED  BY <1>1 DEF Drops, Holds, Seen

LEMMA DroppedKept ==
  ASSUME KeptInv, data \in Folders, NEW t \in Places, NEW r \in Places, t # r, Drops(t),
         Covered(t, r)
  PROVE  Past' /\ Kept'
<1>1. Past'
  <2> SUFFICES ASSUME NEW p \in Places, NEW w \in Writes, Holds(p, w)'  PROVE w <= written
    BY DEF Past, Drops
  <2> QED  BY Dropped DEF KeptInv, Past
<1>2. Kept'
  <2> SUFFICES ASSUME NEW w \in Seen  PROVE \E p \in Places : Holds(p, w)'
    BY Dropped DEF Kept
  <2>1. PICK p \in Places : Holds(p, w)
    BY DEF KeptInv, Kept
  <2>2. CASE p = t
    <3>1. Holds(r, w)
      BY <2>1, <2>2 DEF Covered
    <3> QED  BY <3>1, Dropped
  <2>3. CASE p # t
    BY <2>1, <2>3, Dropped
  <2> QED  BY <2>2, <2>3
<1> QED  BY <1>1, <1>2

LEMMA DropStep ==
  ASSUME KeptInv, CopyFails \/ PointFails
  PROVE  RunInv' /\ CopyInv' /\ BehindInv' /\ Past' /\ Kept'
<1>1. /\ Drops(target) /\ Moving /\ job' = "none"
      /\ UNCHANGED <<pointer, root, doomed, installing>>
  BY DEF CopyFails, PointFails, DropCopy, EndMove, Drops, finishVars, writeVars, Moving
<1>2. /\ root \in Places /\ target \in Places /\ target # root /\ root # NoPlace
      /\ data[root] # NoFolder /\ Covered(target, root) /\ data \in Folders
      /\ job # "switched" /\ root \in {Default, Home}
  BY <1>1, PlaceFacts DEF KeptInv, RunInv, CopyInv, Moving
<1>3. RunInv'
  BY <1>1, <1>2, Dropped DEF RunInv, Moving, Home
<1>4. CopyInv'
  BY <1>1 DEF CopyInv, Moving
<1>5. BehindInv'
  <2> SUFFICES ASSUME pointer # NoPointer, NEW p \in Behind
               PROVE  Covered(p, pointer.root)'
    BY <1>1 DEF BehindInv, Behind, Previous, Moving, Covered, Holds
  <2>1. Covered(p, pointer.root) /\ pointer.root \in Places /\ p \in Places
    BY PlaceFacts, Pointed DEF KeptInv, BehindInv, Behind
  <2>2. CASE target = pointer.root
    <3>1. p # target => \A w \in Seen : ~Holds(p, w)
      BY <1>1, <2>2 DEF KeptInv, BehindInv
    <3> QED  BY <1>1, <1>2, <2>1, <3>1, Dropped DEF Covered
  <2>3. CASE target # pointer.root
    BY <1>1, <1>2, <2>1, <2>3, Dropped DEF Covered
  <2> QED  BY <2>2, <2>3
<1> QED  BY <1>1, <1>2, <1>3, <1>4, <1>5, DroppedKept

LEMMA DeleteStep ==
  ASSUME KeptInv, NEW p \in Places, DeleteOld(p) \/ DeleteFails(p)
  PROVE  RunInv' /\ CopyInv' /\ BehindInv' /\ Past' /\ Kept'
<1>1. /\ Drops(p) /\ job = "finishing" /\ job' = "finishing" /\ doomed' \subseteq doomed
      /\ p \in doomed /\ UNCHANGED <<pointer, root, installing>>
  BY DEF DeleteOld, DeleteFails, Drops, writeVars
<1>2. /\ pointer # NoPointer /\ pointer.root = root /\ p \in Previous /\ p # root
      /\ root \in Places /\ data \in Folders /\ root # NoPlace
  BY <1>1, PlaceFacts, Pointed, PlaceAssumption DEF KeptInv, RunInv
<1>3. \A q \in Behind : q \in Places /\ Covered(q, root)
  BY <1>2, PlaceFacts DEF KeptInv, BehindInv, Behind
<1>4. RunInv'
  BY <1>1, <1>2, Dropped DEF KeptInv, RunInv, Moving, Home, Previous
<1>5. CopyInv'
  BY <1>1 DEF CopyInv, Moving
<1>6. BehindInv'
  <2> SUFFICES ASSUME NEW q \in Behind  PROVE Covered(q, root)'
    BY <1>1, <1>2 DEF BehindInv, Behind, Previous, Moving, Covered, Holds
  <2> QED  BY <1>2, <1>3, Dropped, <1>1 DEF Covered
<1> QED  BY <1>1, <1>2, <1>3, <1>4, <1>5, <1>6, DroppedKept DEF Behind

-----------------------------------------------------------------------------
(***************************************************************************)
(* The invariant.                                                          *)
(***************************************************************************)
LEMMA KeptAtFirst == Init => KeptInv
<1> SUFFICES ASSUME Init  PROVE KeptInv
  OBVIOUS
<1>1. 1 \in Writes /\ Writes \subseteq Nat
  BY BoundAssumption DEF Writes
<1>2. TypeOK
  <2>1. data \in Folders
    BY <1>1 DEF Init, Folders
  <2>2. used \in Uses
    BY BoundAssumption DEF Init, Uses
  <2> QED  BY <1>1, <2>1, <2>2 DEF Init, TypeOK, Folders, Uses, MoveRunning, Jobs
<1>3. RunInv /\ CopyInv /\ BehindInv
  BY PlaceAssumption DEF Init, RunInv, CopyInv, BehindInv, Moving
<1>4. \A p \in Places : \A w : Holds(p, w) <=> p = Default /\ w = 1
  BY <1>1, NoneAssumption DEF Init, Holds
<1>5. Seen = {1}
  BY DEF Init, Seen
<1>6. Past /\ Kept
  BY <1>4, <1>5, PlaceAssumption DEF Past, Kept, Init
<1> QED  BY <1>2, <1>3, <1>6 DEF KeptInv

LEMMA KeptStep == KeptInv /\ [Next]_vars => KeptInv'
<1> SUFFICES ASSUME KeptInv, [Next]_vars  PROVE KeptInv'
  OBVIOUS
<1>1. TypeOK'
  BY TypeStep DEF KeptInv
<1>2. RunInv' /\ CopyInv' /\ BehindInv' /\ Past' /\ Kept'
  <2>1. CASE UNCHANGED vars
    BY <2>1, QuietStep DEF vars, diskVars, moveVars, finishVars, writeVars
  <2>2. CASE Next
    <3>1. CASE Start \/ Quit \/ Crash \/ GameWrites \/ InstallStarts \/ InstallWrites \/ InstallEnds
      BY <1>1, <3>1, StartStep, StopStep, WriteStep, InstallStep
    <3>2. CASE CopyFiles \/ CopyDiffers \/ CopyVerified \/ CopyFails \/ MarkOld \/ Point \/ PointFails
      BY <3>2, CopyStep, VerifyStep, DropStep, PointStep
    <3>3. CASE SkipFinish \/ BeginFinish \/ SettlePointer
      BY <3>3, FinishStep, SettleStep
    <3>4. CASE \E p \in Places : \/ DiskGoes(p) \/ DiskReturns(p) \/ BeginMove(p)
                                 \/ DeleteOld(p) \/ DeleteFails(p)
      BY <3>4, DiskStep, BeginStep, DeleteStep
    <3> QED  BY <2>2, <3>1, <3>2, <3>3, <3>4 DEF Next
  <2> QED  BY <2>1, <2>2
<1> QED  BY <1>1, <1>2 DEF KeptInv

LEMMA KeptAlways == Spec => []KeptInv
BY KeptAtFirst, KeptStep, PTL DEF Spec

\* Whatever stops, fails or is away, and in whatever order the steps of a move,
\* its finish and the jobs meanwhile come: a write the move could see stays in some
\* folder, as finish_move deletes only what was copied and verified.
THEOREM KeepsWrites == Spec => []WritesKept
<1>1. KeptInv => WritesKept
  BY DEF KeptInv, WritesKept, Kept, Seen, Holds
<1> QED  BY <1>1, KeptAlways, PTL

-----------------------------------------------------------------------------
(***************************************************************************)
(* While no disk is away, the launcher runs from the pointed folder, and   *)
(* that folder has everything.                                             *)
(***************************************************************************)
All(p) == data[p] # NoFolder /\ \A w \in Seen : Holds(p, w)

HomeInv ==
    used.missing = 0 =>
        /\ here = Places
        /\ All(Home)
        /\ root # NoPlace => All(root) /\ (job = "switched" \/ root = Home)

LEMMA MissingCounted ==
  ASSUME used \in Uses, NEW what \in {"moves", "crashes", "failures"}, Count(what)
  PROVE  used'.missing = used.missing
BY DEF Uses, Count

\* A step that leaves the folders the launcher relies on.
LEMMA HomeHeld ==
  ASSUME HomeInv, used'.missing = used.missing,
         UNCHANGED <<pointer, here, root>>, Seen' \subseteq Seen,
         job' = "switched" \/ job # "switched",
         \A p \in {root, Home} : /\ data[p] # NoFolder => data'[p] # NoFolder
                                 /\ \A w \in Seen : Holds(p, w) => Holds(p, w)'
  PROVE  HomeInv'
<1>1. Home' = Home
  BY DEF Home
<1>2. ASSUME NEW p \in {root, Home}, All(p)  PROVE data'[p] # NoFolder /\ \A w \in Seen' : Holds(p, w)'
  BY <1>2 DEF All
<1>3. ASSUME used.missing = 0  PROVE All(Home)'
  BY <1>1, <1>2, <1>3 DEF HomeInv, All, Holds
<1>4. ASSUME used.missing = 0, root # NoPlace  PROVE All(root)'
  BY <1>2, <1>4 DEF HomeInv, All, Holds
<1> QED  BY <1>1, <1>3, <1>4 DEF HomeInv

LEMMA HomeQuiet ==
  ASSUME KeptInv, HomeInv, used'.missing = used.missing,
         UNCHANGED <<pointer, here, root, data, written>>, unseen \subseteq unseen',
         job' = "switched" \/ job # "switched"
  PROVE  HomeInv'
BY HomeHeld, Unwritten

LEMMA HomeRest ==
  ASSUME KeptInv, HomeInv,
         \/ InstallStarts \/ InstallEnds \/ CopyVerified \/ MarkOld \/ SkipFinish \/ BeginFinish
         \/ UNCHANGED vars
  PROVE  HomeInv'
<1>1. /\ UNCHANGED <<used, pointer, here, root, data, written>> /\ unseen \subseteq unseen'
      /\ job' = "switched" \/ job # "switched"
  BY DEF InstallStarts, InstallEnds, CopyVerified, MarkOld, SkipFinish, BeginFinish, vars,
     diskVars, moveVars, finishVars, writeVars
<1> QED  BY <1>1, HomeQuiet

LEMMA HomeStop ==
  ASSUME KeptInv, HomeInv, Quit \/ Crash
  PROVE  HomeInv'
<1>1. UNCHANGED <<data, pointer, here, written, unseen>> /\ root' = NoPlace
  BY DEF Quit, Crash, Stop, diskVars, writeVars
<1>2. used'.missing = used.missing
  BY MissingCounted DEF Quit, Crash, KeptInv, TypeOK, Uses
<1> QED  BY <1>1, <1>2 DEF HomeInv, All, Home, Holds, Seen

LEMMA HomeDisk ==
  ASSUME KeptInv, HomeInv, NEW p \in Places, DiskGoes(p) \/ DiskReturns(p)
  PROVE  HomeInv'
<1>1. CASE DiskGoes(p)
  <2>1. used'.missing # 0
    BY <1>1 DEF DiskGoes, Count, KeptInv, TypeOK
  <2> QED  BY <2>1 DEF HomeInv
<1>2. CASE DiskReturns(p)
  <2>1. used.missing # 0
    BY <1>2 DEF DiskReturns, HomeInv
  <2>2. used' = used
    BY <1>2 DEF DiskReturns
  <2> QED  BY <2>1, <2>2 DEF HomeInv
<1> QED  BY <1>1, <1>2

LEMMA HomeStart ==
  ASSUME KeptInv, HomeInv, Start
  PROVE  HomeInv'
<1>1. /\ UNCHANGED <<pointer, here, job, used>> /\ root' = PointedRoot /\ Home \in Places
      /\ pointer # NoPointer => pointer.root \in Places
  BY PlaceFacts, Pointed DEF Start, KeptInv
<1> SUFFICES ASSUME used.missing = 0  PROVE HomeInv'
  BY <1>1 DEF HomeInv
<1>2. here = Places /\ All(Home) /\ data[Home] # NoFolder
  BY DEF HomeInv, All
<1>3. root' = Home
  BY <1>1, <1>2 DEF PointedRoot, Home, Exists
<1>4. UNCHANGED <<data, written, unseen>>
  BY <1>2, <1>3 DEF Start, writeVars
<1> QED  BY <1>1, <1>2, <1>3, <1>4 DEF HomeInv, Home, All, Holds, Seen

LEMMA HomeWrites ==
  ASSUME KeptInv, TypeOK', HomeInv, GameWrites \/ InstallWrites
  PROVE  HomeInv'
<1>1. /\ root # NoPlace /\ root \in Places /\ Home \in Places /\ data[root] # NoFolder
      /\ UNCHANGED <<pointer, root, job, here, used>>
  BY PlaceFacts DEF GameWrites, InstallWrites, AddWrite, KeptInv, RunInv
<1>2. /\ Adds(root) /\ unseen' \in {unseen, unseen \cup {written'}}
      /\ job = "switched" => unseen' = unseen \cup {written'}
  <2>1. PICK lost \in BOOLEAN : AddWrite(lost) /\ (job \in {"marked", "switched"} => lost)
    BY InstallAdds DEF GameWrites, MoveRunning
  <2> QED  BY <1>1, <2>1 DEF AddWrite, Adds
<1>3. TypeOK /\ Past
  BY DEF KeptInv
<1> SUFFICES ASSUME used.missing = 0  PROVE HomeInv'
  BY <1>1 DEF HomeInv
<1>4. here = Places /\ All(Home) /\ All(root) /\ (job = "switched" \/ root = Home)
  BY <1>1 DEF HomeInv
<1>5. ASSUME NEW p \in {root, Home}  PROVE data'[p] # NoFolder /\ \A w \in Seen' : Holds(p, w)'
  <2>1. p \in Places /\ data'[p] # NoFolder
    BY <1>1, <1>2, <1>3, <1>4, Added DEF All
  <2>2. \A w \in Seen' : w \in Seen \/ (w = written' /\ job # "switched")
    BY <1>1, <1>2, <1>3, Added
  <2>3. \A w \in Seen : Holds(p, w)'
    BY <1>1, <1>2, <1>3, <1>4, <2>1, Added DEF All
  <2>4. \A w : w = written' => Holds(root, w)'
    <3>1. \A q \in Places : q = root => \A w : w = written' => Holds(q, w)'
      BY <1>1, <1>2, <1>3, Added
    <3> QED  BY <1>1, <3>1 DEF Holds
  <2>5. job # "switched" => p = root
    BY <1>4
  <2>6. job # "switched" => \A w : w = written' => Holds(p, w)'
    BY <1>1, <2>4, <2>5 DEF Holds
  <2> QED  BY <2>1, <2>2, <2>3, <2>6
<1>6. Home' = Home
  BY <1>1 DEF Home
<1>7. All(Home)' /\ All(root)'
  BY <1>1, <1>5, <1>6 DEF All, Holds
<1> QED  BY <1>1, <1>4, <1>6, <1>7 DEF HomeInv

\* The folder a move or its finish changes is not the one the launcher runs from.
LEMMA HomeMoves ==
  ASSUME KeptInv, HomeInv, NEW t \in Places, t # root, root # NoPlace,
         NEW held, data' = [data EXCEPT ![t] = held], job # "switched",
         UNCHANGED <<pointer, here, root, written, unseen>>, used'.missing = used.missing
  PROVE  HomeInv'
<1>1. data \in Folders /\ root \in Places /\ Seen' = Seen
  BY PlaceFacts DEF KeptInv, Seen
<1>2. data'[root] = data[root]
  BY <1>1 DEF Folders
<1>3. used.missing = 0 => root = Home
  BY DEF HomeInv
<1> QED  BY <1>1, <1>2, <1>3 DEF HomeInv, Home, All, Holds

LEMMA HomeChanges ==
  ASSUME KeptInv, HomeInv,
         \/ CopyFiles \/ CopyDiffers \/ CopyFails \/ PointFails
         \/ \E p \in Places : BeginMove(p) \/ DeleteOld(p) \/ DeleteFails(p)
  PROVE  HomeInv'
<1>1. used'.missing = used.missing
  BY MissingCounted DEF CopyFiles, CopyDiffers, CopyFails, PointFails, BeginMove, DeleteOld,
     DeleteFails, KeptInv, TypeOK, Uses
<1>2. CASE CopyFiles \/ CopyDiffers \/ CopyFails \/ PointFails
  <2>1. Moving /\ job # "switched" /\ UNCHANGED <<pointer, here, root, written, unseen>>
    BY <1>2 DEF CopyFiles, CopyDiffers, CopyFails, PointFails, writeVars, Moving
  <2>2. target \in Places /\ target # root /\ root # NoPlace
    BY <2>1, PlaceFacts DEF KeptInv, RunInv
  <2>3. \E held : data' = [data EXCEPT ![target] = held]
    BY <1>2 DEF CopyFiles, CopyDiffers, CopyFails, PointFails, DropCopy
  <2> QED  BY <1>1, <2>1, <2>2, <2>3, HomeMoves
<1>3. ASSUME NEW p \in Places, BeginMove(p) \/ DeleteOld(p) \/ DeleteFails(p)  PROVE HomeInv'
  <2>1. UNCHANGED <<pointer, here, root, written, unseen>> /\ \E held : data' = [data EXCEPT ![p] = held]
    BY <1>3 DEF BeginMove, DeleteOld, DeleteFails, writeVars
  <2>2. root # NoPlace /\ p # root /\ job # "switched"
    <3>1. CASE BeginMove(p)
      BY <3>1 DEF BeginMove
    <3>2. CASE DeleteOld(p) \/ DeleteFails(p)
      BY <3>2, Pointed, PlaceAssumption DEF DeleteOld, DeleteFails, KeptInv, RunInv
    <3> QED  BY <1>3, <3>1, <3>2
  <2> QED  BY <1>1, <2>1, <2>2, HomeMoves
<1> QED  BY <1>2, <1>3

LEMMA HomePoint ==
  ASSUME KeptInv, HomeInv, Point
  PROVE  HomeInv'
<1>1. /\ UNCHANGED <<data, here, root, written, unseen, used>> /\ job = "marked" /\ job' = "switched"
      /\ root # NoPlace /\ target \in Places
  BY PlaceFacts DEF Point, writeVars, KeptInv, RunInv, Moving
<1>2. Home' = target
  <2>1. pointer' = [root |-> target, previous |-> {root} \cup StillWaiting]
    BY DEF Point
  <2>2. pointer' \in Pointer
    BY <1>1, <2>1, PlaceFacts DEF KeptInv, Pointer, StillWaiting
  <2> QED  BY <2>1, <2>2, NoneAssumption DEF Home
<1>3. data[target] # NoFolder /\ Covered(root, target)
  BY <1>1 DEF KeptInv, CopyInv, Moving
<1> QED  BY <1>1, <1>2, <1>3 DEF HomeInv, All, Covered, Holds, Seen

LEMMA HomeSettles ==
  ASSUME KeptInv, HomeInv, SettlePointer
  PROVE  HomeInv'
<1>1. /\ UNCHANGED <<data, here, root, written, unseen, used>> /\ job' = "none"
      /\ pointer # NoPointer /\ pointer.root = root /\ root # NoPlace
  BY Pointed, PlaceAssumption DEF SettlePointer, writeVars, KeptInv, RunInv
<1>2. Home' = root /\ Home = root
  <2>1. [pointer EXCEPT !.previous = @ \cap waiting] \in Pointer
        /\ [pointer EXCEPT !.previous = @ \cap waiting].root = root
    BY <1>1 DEF KeptInv, TypeOK, Pointer
  <2> QED  BY <1>1, <2>1, NoneAssumption DEF SettlePointer, Home
<1> QED  BY <1>1, <1>2 DEF HomeInv, All, Holds, Seen

LEMMA HomeStep == KeptInv /\ HomeInv /\ [Next]_vars => HomeInv'
<1> SUFFICES ASSUME KeptInv, HomeInv, [Next]_vars  PROVE HomeInv'
  OBVIOUS
<1>1. TypeOK'
  BY TypeStep DEF KeptInv
<1>2. CASE UNCHANGED vars
  BY <1>2, HomeRest
<1>3. CASE Next
  <2>1. CASE Start \/ Quit \/ Crash \/ GameWrites \/ InstallStarts \/ InstallWrites \/ InstallEnds
    BY <1>1, <2>1, HomeStart, HomeStop, HomeWrites, HomeRest
  <2>2. CASE CopyFiles \/ CopyDiffers \/ CopyVerified \/ CopyFails \/ MarkOld \/ Point \/ PointFails
    BY <2>2, HomeChanges, HomeRest, HomePoint
  <2>3. CASE SkipFinish \/ BeginFinish \/ SettlePointer
    BY <2>3, HomeRest, HomeSettles
  <2>4. CASE \E p \in Places : \/ DiskGoes(p) \/ DiskReturns(p) \/ BeginMove(p)
                               \/ DeleteOld(p) \/ DeleteFails(p)
    BY <2>4, HomeDisk, HomeChanges
  <2> QED  BY <1>3, <2>1, <2>2, <2>3, <2>4 DEF Next
<1> QED  BY <1>2, <1>3

LEMMA HomeAlways == Spec => []HomeInv
<1>1. Init => HomeInv
  <2> SUFFICES ASSUME Init  PROVE HomeInv
    OBVIOUS
  <2>1. Seen = {1} /\ Home = Default /\ data[Default] = {1}
    BY PlaceAssumption DEF Init, Seen, Home
  <2>2. {1} # NoFolder
    BY NoneAssumption, BoundAssumption DEF Writes
  <2> QED  BY <2>1, <2>2 DEF Init, HomeInv, All, Holds
<1> QED  BY <1>1, HomeStep, KeptAlways, PTL DEF Spec

\* As long as no disk has been away, a start finds everything in the folder the
\* pointer names, wherever a move, its restart or its finish stopped or failed.
THEOREM FindsEverything == Spec => []StartsWithEverything
<1>1. HomeInv => StartsWithEverything
  BY DEF HomeInv, StartsWithEverything, All, Seen, Holds
<1> QED  BY <1>1, HomeAlways, PTL

-----------------------------------------------------------------------------
(***************************************************************************)
(* As long as nothing stops half-way, fails or is away, the markers lead   *)
(* from every old folder to the pointed one, over old folders, so that the *)
(* finish after the move deletes them all.                                 *)
(***************************************************************************)
Calm == used.crashes = 0 /\ used.failures = 0 /\ used.missing = 0

Trail(p, q, n, at) ==
    /\ at[0] = p /\ at[n] = q
    /\ \A i \in 0..n - 1 : at[i] \in Previous /\ marker[at[i]] = at[i + 1]

Trails(p) ==
    \E n \in 1..Cardinality(Previous) : \E at \in [0..n -> Places] : Trail(p, Home, n, at)

Old(p) == data[p] \notin {NoFolder, {}} /\ Trails(p)

HomePart == Home \notin Previous /\ data[Home] # {}
OldPart == job # "finishing" => \A p \in Previous : Old(p)
GonePart == job = "finishing" => waiting = {} /\ \A p \in Previous \ doomed : data[p] = NoFolder
MovePart == Moving => /\ target \notin Previous
                      /\ job # "copying" => data[target] # {}
                      /\ job = "marked" => marker[root] = target

OldInv ==
    /\ IsFiniteSet(Previous)
    /\ Calm => HomePart /\ OldPart /\ GonePart /\ MovePart

LEMMA CalmCounted ==
  ASSUME used \in Uses
  PROVE  /\ Count("moves") => (Calm' => Calm)
         /\ Count("crashes") => ~Calm'
         /\ Count("failures") => ~Calm'
         /\ Count("missing") => ~Calm'
BY DEF Uses, Count, Calm

\* What the other invariants say while all is calm.
LEMMA CalmFacts ==
  ASSUME KeptInv, HomeInv, OldInv, Calm
  PROVE  /\ here = Places /\ data[Home] \notin {NoFolder, {}} /\ Home \in Places
         /\ Home \notin Previous /\ Previous \subseteq Places /\ data \in Folders
         /\ root # NoPlace /\ job # "switched" => root = Home
         /\ Moving => root = Home /\ target \in Places /\ target # root /\ target \notin Previous
BY PlaceFacts DEF KeptInv, HomeInv, OldInv, Calm, HomePart, MovePart, All, RunInv, Moving

\* The trails stay while the pointer and the old folders' markers do.
LEMMA TrailsHeld ==
  ASSUME UNCHANGED pointer, \A p \in Previous : marker'[p] = marker[p]
  PROVE  \A p : Trails(p) => Trails(p)'
<1>1. Previous' = Previous /\ Home' = Home
  BY DEF Previous, Home
<1>2. \A p : \A n : \A at : Trail(p, Home, n, at) => Trail(p, Home, n, at)'
  BY <1>1 DEF Trail
<1> QED  BY <1>1, <1>2 DEF Trails

\* A step that leaves the pointer, and the old folders and their markers.
LEMMA OldHeld ==
  ASSUME OldInv, UNCHANGED pointer, Calm' => Calm,
         Calm => /\ \A p \in Previous : /\ marker'[p] = marker[p]
                                        /\ data[p] \notin {NoFolder, {}} => data'[p] \notin {NoFolder, {}}
                 /\ data'[Home] # {}
                 /\ job = "finishing" => job' = "finishing"
                 /\ GonePart'
                 /\ MovePart'
  PROVE  OldInv'
<1>1. Previous' = Previous /\ Home' = Home
  BY DEF Previous, Home
<1> SUFFICES ASSUME Calm  PROVE HomePart' /\ OldPart'
  BY <1>1 DEF OldInv
<1>2. HomePart'
  BY <1>1 DEF OldInv, HomePart
<1>3. ASSUME job' # "finishing", NEW p \in Previous  PROVE Old(p)'
  <2>1. Old(p)
    BY <1>3 DEF OldInv, OldPart
  <2>2. Trails(p)'
    BY <2>1, TrailsHeld DEF Old
  <2> QED  BY <1>3, <2>1, <2>2 DEF Old
<1> QED  BY <1>1, <1>2, <1>3 DEF OldPart

LEMMA OldQuiet ==
  ASSUME OldInv, KeptInv, HomeInv,
         \/ InstallStarts \/ InstallEnds \/ CopyVerified \/ SkipFinish
         \/ \E p \in Places : DiskReturns(p)
         \/ UNCHANGED vars
  PROVE  OldInv'
<1>1. /\ UNCHANGED <<used, pointer, data, marker, root, target, doomed, waiting>>
      /\ job' = job \/ (job \in {"checking", "recopied"} /\ job' = "copied")
  BY DEF InstallStarts, InstallEnds, CopyVerified, SkipFinish, DiskReturns, vars,
     diskVars, moveVars, finishVars, writeVars
<1>2. Calm' <=> Calm
  BY <1>1 DEF Calm
<1>3. ASSUME Calm  PROVE GonePart' /\ MovePart' /\ data'[Home] # {}
  BY <1>1, <1>3 DEF OldInv, GonePart, MovePart, HomePart, Moving, Previous
<1> QED  BY <1>1, <1>2, <1>3, OldHeld

\* Crashes, failures and disks that go away end the calm.
LEMMA OldUncalm ==
  ASSUME OldInv, KeptInv,
         \/ Crash \/ PointFails
         \/ \E p \in Places : DiskGoes(p) \/ DeleteFails(p)
  PROVE  OldInv' /\ UNCHANGED pointer
<1>1. ~Calm'
  BY CalmCounted DEF Crash, PointFails, DiskGoes, DeleteFails, KeptInv, TypeOK, Uses
<1>2. UNCHANGED pointer
  BY DEF Crash, Stop, PointFails, DiskGoes, DeleteFails, diskVars
<1> QED  BY <1>1, <1>2 DEF OldInv, Previous

LEMMA OldQuits ==
  ASSUME OldInv, KeptInv, HomeInv, Quit
  PROVE  OldInv'
<1>1. /\ UNCHANGED <<used, pointer, data, marker>>
      /\ job # "finishing" /\ job' = "none"
  BY DEF Quit, Stop, diskVars
<1>2. Calm' <=> Calm
  BY <1>1 DEF Calm
<1>3. Calm => GonePart' /\ MovePart' /\ data'[Home] # {}
  BY <1>1 DEF OldInv, HomePart, GonePart, MovePart, Moving
<1> QED  BY <1>1, <1>2, <1>3, OldHeld

LEMMA OldStart ==
  ASSUME OldInv, KeptInv, HomeInv, Start
  PROVE  OldInv'
<1>1. /\ UNCHANGED <<used, pointer, marker, job, doomed, waiting>> /\ job = "none" /\ root' = PointedRoot
  BY DEF Start, KeptInv, RunInv
<1>2. Calm' <=> Calm
  BY <1>1 DEF Calm
<1>3. ASSUME Calm  PROVE data' = data
  <2>1. root' = Home
    BY <1>1, <1>3, CalmFacts, Pointed DEF PointedRoot, Home, Exists, KeptInv
  <2> QED  BY <1>3, <2>1, CalmFacts DEF Start
<1>4. Calm => GonePart' /\ MovePart' /\ data'[Home] # {}
  BY <1>1, <1>3 DEF OldInv, HomePart, GonePart, MovePart, Moving
<1> QED  BY <1>1, <1>2, <1>3, <1>4, OldHeld

LEMMA OldWrites ==
  ASSUME OldInv, KeptInv, HomeInv, TypeOK', GameWrites \/ InstallWrites
  PROVE  OldInv'
<1>1. /\ UNCHANGED <<used, pointer, marker, job, root, target, doomed, waiting>>
      /\ data' = [data EXCEPT ![root] = @ \cup {written'}] /\ root \in Places /\ data \in Folders
      /\ data[root] # NoFolder /\ data' \in Folders
  BY PlaceFacts DEF GameWrites, InstallWrites, AddWrite, moveVars, finishVars, KeptInv, RunInv,
     TypeOK, Folders
<1>2. Calm' <=> Calm
  BY <1>1 DEF Calm
<1>3. \A p \in Places : p # root => data'[p] = data[p]
  BY <1>1 DEF Folders
<1>4. data'[root] \notin {NoFolder, {}}
  <2>1. data'[root] = data[root] \cup {written'}
    BY <1>1 DEF Folders
  <2>2. data'[root] \in SUBSET Writes
    <3>1. data'[root] \in (SUBSET Writes) \cup {NoFolder} /\ data[root] \in SUBSET Writes
      BY <1>1 DEF Folders
    <3>2. written' \in Writes
      BY DEF TypeOK
    <3> QED  BY <2>1, <3>1, <3>2
  <2> QED  BY <2>1, <2>2, NoneAssumption
<1>5. ASSUME Calm, job = "finishing"  PROVE root \notin Previous
  BY <1>5, CalmFacts, Pointed DEF KeptInv, RunInv, Home
<1>6. ASSUME Calm
      PROVE  /\ GonePart' /\ MovePart' /\ data'[Home] # {}
             /\ \A p \in Previous : data[p] \notin {NoFolder, {}} => data'[p] \notin {NoFolder, {}}
  <2>1. Previous \subseteq Places /\ Home \in Places /\ data[Home] # {}
        /\ (Moving => target \in Places /\ target # root)
    BY <1>6, CalmFacts
  <2>2. GonePart'
    BY <1>1, <1>3, <1>5, <1>6, <2>1 DEF OldInv, GonePart, Previous
  <2>3. MovePart'
    BY <1>1, <1>3, <1>6, <2>1 DEF OldInv, MovePart, Moving, Previous
  <2> QED  BY <1>3, <1>4, <2>1, <2>2, <2>3
<1> QED  BY <1>1, <1>2, <1>6, OldHeld

LEMMA OldBegins ==
  ASSUME OldInv, KeptInv, HomeInv, NEW t \in Places, BeginMove(t)
  PROVE  OldInv'
<1>1. /\ UNCHANGED <<pointer, marker, root, doomed, waiting>> /\ root # NoPlace
      /\ job = "none" /\ job' = "copying" /\ target' = t /\ t # root
      /\ data[t] \in {NoFolder, {}} /\ data' = [data EXCEPT ![t] = {}] /\ data \in Folders
  BY PlaceFacts DEF BeginMove, finishVars, KeptInv
<1>2. Calm' => Calm
  BY CalmCounted DEF BeginMove, KeptInv, TypeOK, Uses
<1>3. ASSUME Calm
      PROVE  /\ GonePart' /\ MovePart' /\ data'[Home] # {}
             /\ \A p \in Previous : data[p] \notin {NoFolder, {}} => data'[p] \notin {NoFolder, {}}
  <2>1. t \notin Previous
    BY <1>1, <1>3 DEF OldInv, OldPart, Old
  <2>2. Home # t /\ Home \in Places /\ data[Home] # {} /\ Previous \subseteq Places
    BY <1>1, <1>3, CalmFacts
  <2>3. GonePart' /\ MovePart'
    BY <1>1, <2>1 DEF GonePart, MovePart, Previous
  <2>4. \A p \in Places : p # t => data'[p] = data[p]
    BY <1>1 DEF Folders
  <2> QED  BY <2>1, <2>2, <2>3, <2>4
<1> QED  BY <1>1, <1>2, <1>3, OldHeld

LEMMA OldCopies ==
  ASSUME OldInv, KeptInv, HomeInv, CopyFiles \/ CopyDiffers \/ CopyFails
  PROVE  OldInv'
<1>1. /\ UNCHANGED <<used, pointer, marker, root, doomed, waiting>> /\ Moving
      /\ \/ job' = "none"
         \/ /\ job' \in {"checking", "recopied"} /\ target' = target
            /\ \/ data' = [data EXCEPT ![target] = data[root]]
               \/ job = "checking" /\ data' = [data EXCEPT ![target] = data[target] \cup Differ]
      /\ \E held : data' = [data EXCEPT ![target] = held]
  BY DEF CopyFiles, CopyDiffers, CopyFails, DropCopy, EndMove, moveVars, finishVars, Moving
<1>2. Calm' <=> Calm
  BY <1>1 DEF Calm
<1>3. ASSUME Calm
      PROVE  /\ GonePart' /\ MovePart' /\ data'[Home] # {}
             /\ \A p \in Previous : data[p] \notin {NoFolder, {}} => data'[p] \notin {NoFolder, {}}
  <2>1. /\ root = Home /\ target \in Places /\ target # root /\ target \notin Previous
        /\ data[Home] # {} /\ Home \in Places /\ Previous \subseteq Places /\ data \in Folders
    BY <1>1, <1>3, CalmFacts
  <2>2. \A p \in Places : p # target => data'[p] = data[p]
    BY <1>1, <2>1 DEF Folders
  <2>3. GonePart'
    BY <1>1 DEF GonePart
  <2>4. MovePart'
    <3>1. CASE job' = "none"
      BY <3>1 DEF MovePart, Moving
    <3>2. CASE job' # "none"
      <4>1. job' \in {"checking", "recopied"} /\ target' = target
        BY <1>1, <3>2
      <4>2. CASE data' = [data EXCEPT ![target] = data[root]]
        <5>1. data'[target] = data[root]
          BY <2>1, <4>2 DEF Folders
        <5> QED  BY <1>1, <2>1, <4>1, <5>1 DEF MovePart, Previous
      <4>3. CASE job = "checking" /\ data' = [data EXCEPT ![target] = data[target] \cup Differ]
        <5>1. data'[target] = data[target] \cup Differ
          BY <2>1, <4>3 DEF Folders
        <5>2. data[target] # {}
          BY <1>1, <1>3, <4>3 DEF OldInv, MovePart
        <5> QED  BY <1>1, <2>1, <4>1, <5>1, <5>2 DEF MovePart, Previous
      <4> QED  BY <1>1, <3>2, <4>2, <4>3
    <3> QED  BY <3>1, <3>2
  <2> QED  BY <2>1, <2>2, <2>3, <2>4
<1>4. job = "finishing" => job' = "finishing"
  BY <1>1 DEF Moving
<1> QED  BY <1>1, <1>2, <1>3, <1>4, OldHeld

LEMMA OldMarks ==
  ASSUME OldInv, KeptInv, HomeInv, MarkOld
  PROVE  OldInv'
<1>1. /\ UNCHANGED <<used, pointer, data, root, target, doomed, waiting>> /\ Moving
      /\ job = "copied" /\ job' = "marked" /\ marker' = [marker EXCEPT ![root] = target]
      /\ marker \in [Places -> Places \cup {NoPlace}]
  BY DEF MarkOld, moveVars, finishVars, Moving, KeptInv, TypeOK
<1>2. Calm' <=> Calm
  BY <1>1 DEF Calm
<1>3. ASSUME Calm
      PROVE  /\ GonePart' /\ MovePart' /\ data'[Home] # {}
             /\ \A p \in Previous : marker'[p] = marker[p]
  <2>1. /\ root = Home /\ Home \in Places /\ Home \notin Previous /\ Previous \subseteq Places
        /\ data[Home] # {}
    BY <1>1, <1>3, CalmFacts
  <2>2. marker'[root] = target /\ \A p \in Previous : marker'[p] = marker[p]
    BY <1>1, <2>1
  <2>3. GonePart'
    BY <1>1 DEF GonePart
  <2>4. MovePart'
    BY <1>1, <1>3, <2>2 DEF OldInv, MovePart, Previous
  <2> QED  BY <1>1, <2>1, <2>2, <2>3, <2>4
<1> QED  BY <1>1, <1>2, <1>3, OldHeld

\* The new pointer: the old folders that waited, and the one just moved from.
LEMMA PointsOn ==
  ASSUME KeptInv, Point
  PROVE  /\ UNCHANGED <<used, data, marker, root, target>> /\ job = "marked" /\ job' = "switched"
         /\ Moving /\ root # NoPlace
         /\ Home' = target /\ Previous' = {root} \cup StillWaiting /\ StillWaiting \subseteq Previous
<1>1. pointer' = [root |-> target, previous |-> {root} \cup StillWaiting]
  BY DEF Point
<1>2. root \in Places /\ target \in Places /\ root # NoPlace
  BY PlaceFacts DEF Point, KeptInv, RunInv, Moving
<1>3. pointer' \in Pointer
  BY <1>1, <1>2, PlaceFacts DEF KeptInv, Pointer, StillWaiting
<1> QED  BY <1>1, <1>2, <1>3, NoneAssumption DEF Home, Previous, Point, StillWaiting, moveVars, Moving

LEMMA CalmWaits ==
  ASSUME OldInv, KeptInv, HomeInv, Calm, Point
  PROVE  StillWaiting = Previous
<1>1. root = Home /\ Home \notin Previous /\ target \notin Previous /\ here = Places
      /\ Previous \subseteq Places
  BY PointsOn, CalmFacts
<1>2. \A p \in Previous : data[p] # NoFolder
  BY PointsOn DEF OldInv, OldPart, Old
<1>3. pointer = NoPointer => Previous = {}
  BY DEF Previous
<1>4. pointer # NoPointer => pointer.root = root
  BY <1>1 DEF Home
<1> QED  BY <1>1, <1>2, <1>3, <1>4 DEF StillWaiting, Exists

LEMMA TrailsExtended ==
  ASSUME IsFiniteSet(Previous), Previous \subseteq Places,
         root \in Places, root \notin Previous, Home = root, target \in Places,
         Previous' = Previous \cup {root}, Home' = target, marker' = marker,
         marker[root] = target,
         NEW p \in Previous', p \in Previous => Trails(p)
  PROVE  Trails(p)'
<1> DEFINE card == Cardinality(Previous)
<1>1. card \in Nat /\ Cardinality(Previous') = card + 1
  BY FS_CardinalityType, FS_AddElement
<1>2. CASE p = root
  <2>1. PICK at \in [0..1 -> Places] : at[0] = p /\ at[1] = target
    <3> WITNESS [i \in 0..1 |-> IF i = 0 THEN p ELSE target] \in [0..1 -> Places]
    <3> QED  OBVIOUS
  <2>2. \A i \in 0..1 - 1 : at[i] \in Previous' /\ marker'[at[i]] = at[i + 1]
    BY <1>2, <2>1
  <2>3. 1 \in 1..card + 1
    BY <1>1
  <2> HIDE DEF card
  <2>4. Trail(p, Home, 1, at)'
    BY <2>1, <2>2 DEF Trail
  <2> QED  BY <1>1, <2>1, <2>3, <2>4 DEF Trails
<1>3. CASE p \in Previous
  <2>1. PICK n \in 1..card : \E at \in [0..n -> Places] : Trail(p, Home, n, at)
    BY <1>3 DEF Trails
  <2>2. PICK at \in [0..n -> Places] : Trail(p, Home, n, at)
    BY <2>1
  <2>3. n \in Nat /\ n >= 1 /\ n + 1 \in 1..card + 1
    BY <1>1
  <2>4. PICK on \in [0..n + 1 -> Places] : /\ on[n + 1] = target
                                          /\ \A i \in 0..n : on[i] = at[i]
    <3> WITNESS [i \in 0..n + 1 |-> IF i = n + 1 THEN target ELSE at[i]] \in [0..n + 1 -> Places]
    <3> QED  BY <2>3
  <2>5. on[0] = p /\ on[n] = root
    BY <2>2, <2>3, <2>4 DEF Trail
  <2>6. ASSUME NEW i \in 0..n + 1 - 1  PROVE on[i] \in Previous' /\ marker'[on[i]] = on[i + 1]
    <3>1. CASE i = n
      BY <2>3, <2>4, <2>5, <3>1
    <3>2. CASE i # n
      <4>1. i \in 0..n - 1 /\ on[i] = at[i] /\ on[i + 1] = at[i + 1]
        BY <2>3, <2>4, <3>2
      <4> QED  BY <2>2, <4>1 DEF Trail
    <3> QED  BY <3>1, <3>2
  <2> HIDE DEF card
  <2>7. Trail(p, Home, n + 1, on)'
    BY <2>3, <2>4, <2>5, <2>6 DEF Trail
  <2> QED  BY <1>1, <2>3, <2>4, <2>7 DEF Trails
<1> QED  BY <1>2, <1>3

LEMMA OldPoints ==
  ASSUME OldInv, KeptInv, HomeInv, Point
  PROVE  OldInv' /\ (Calm => Previous \subseteq Previous')
<1>1. IsFiniteSet(Previous')
  BY PointsOn, FS_Subset, FS_AddElement DEF OldInv
<1>2. Calm' <=> Calm
  BY PointsOn DEF Calm
<1>3. GonePart' /\ MovePart'
  BY PointsOn DEF GonePart, MovePart, Moving
<1>4. ASSUME Calm  PROVE HomePart' /\ OldPart' /\ Previous \subseteq Previous'
  <2>1. /\ root = Home /\ Home \in Places /\ Home \notin Previous /\ data[Home] \notin {NoFolder, {}}
        /\ Previous \subseteq Places /\ target \in Places /\ target # root /\ target \notin Previous
    BY <1>4, PointsOn, CalmFacts
  <2>2. Previous' = Previous \cup {root}
    BY <1>4, PointsOn, CalmWaits
  <2>3. data[target] # {} /\ marker[root] = target
    BY <1>4, PointsOn DEF OldInv, MovePart
  <2>4. HomePart'
    BY <2>1, <2>2, <2>3, PointsOn DEF HomePart
  <2>5. ASSUME NEW p \in Previous'  PROVE Old(p)'
    <3>1. p \in Previous => Old(p)
      BY <1>4, PointsOn DEF OldInv, OldPart
    <3>2. data'[p] \notin {NoFolder, {}}
      BY <2>1, <2>2, <2>5, <3>1, PointsOn DEF Old
    <3>3. p \in Previous => Trails(p)
      BY <3>1 DEF Old
    <3>4. Trails(p)'
      BY <2>1, <2>2, <2>3, <3>3, PointsOn, TrailsExtended DEF OldInv
    <3> QED  BY <3>2, <3>4 DEF Old
  <2> QED  BY <2>2, <2>4, <2>5 DEF OldPart
<1> QED  BY <1>1, <1>2, <1>3, <1>4 DEF OldInv

LEMMA CalmLeads ==
  ASSUME OldInv, KeptInv, HomeInv, Calm, job # "finishing", NEW p \in Previous
  PROVE  Exists(p) /\ LeadsTo(p, Home)
<1>1. here = Places /\ Previous \subseteq Places /\ \A q \in Previous : Old(q)
  BY CalmFacts DEF OldInv, OldPart
<1>2. \A q \in Previous : Exists(q)
  BY <1>1 DEF Exists, Old
<1>3. Cardinality(Previous) \in Nat
  BY FS_CardinalityType DEF OldInv
<1>4. PICK n \in 1..Cardinality(Previous) : \E at \in [0..n -> Places] : Trail(p, Home, n, at)
  BY <1>1 DEF Old, Trails
<1>5. PICK at \in [0..n -> Places] : Trail(p, Home, n, at)
  BY <1>4
<1>6. n \in 1..Cardinality(Previous) + 1
  BY <1>3, <1>4
<1>7. \A i \in 0..n - 1 : at[i] \in Previous /\ Exists(at[i]) /\ marker[at[i]] = at[i + 1]
  BY <1>2, <1>5 DEF Trail
<1>8. \A i \in 1..n - 1 : at[i] \in Previous
  BY <1>7
<1> QED  BY <1>2, <1>5, <1>6, <1>7, <1>8 DEF LeadsTo, Trail

LEMMA OldFinishes ==
  ASSUME OldInv, KeptInv, HomeInv, BeginFinish
  PROVE  OldInv'
<1>1. /\ UNCHANGED <<used, pointer, data, marker>> /\ job = "none" /\ job' = "finishing"
      /\ pointer # NoPointer /\ pointer.root = root /\ waiting' = {}
      /\ doomed' = {p \in Previous : p # root /\ Exists(p) /\ LeadsTo(p, root)}
  BY DEF BeginFinish, diskVars, Previous
<1>2. Calm' <=> Calm
  BY <1>1 DEF Calm
<1>3. Calm => doomed' = Previous
  BY <1>1, CalmLeads, CalmFacts DEF Home
<1>4. Calm => GonePart'
  BY <1>1, <1>3 DEF GonePart, Previous
<1>5. Calm => data'[Home] # {}
  BY <1>1 DEF OldInv, HomePart
<1>6. MovePart'
  BY <1>1 DEF MovePart, Moving
<1> QED  BY <1>1, <1>2, <1>4, <1>5, <1>6, OldHeld

LEMMA OldDeletes ==
  ASSUME OldInv, KeptInv, HomeInv, NEW p \in Places, DeleteOld(p)
  PROVE  OldInv'
<1>1. /\ UNCHANGED <<used, pointer, root, waiting>> /\ job = "finishing" /\ job' = "finishing"
      /\ data' = [data EXCEPT ![p] = NoFolder] /\ doomed' = doomed \ {p} /\ p \in Previous
      /\ data \in Folders
  BY PlaceFacts DEF DeleteOld, KeptInv, RunInv
<1>2. Calm' <=> Calm
  BY <1>1 DEF Calm
<1>3. Previous' = Previous /\ Home' = Home
  BY <1>1 DEF Previous, Home
<1>4. data'[p] = NoFolder /\ \A q \in Places : q # p => data'[q] = data[q]
  BY <1>1 DEF Folders
<1>5. ASSUME Calm  PROVE GonePart' /\ HomePart'
  <2>1. Home # p /\ Home \in Places /\ Previous \subseteq Places /\ HomePart /\ GonePart
    BY <1>1, <1>5, CalmFacts DEF OldInv
  <2> QED  BY <1>1, <1>3, <1>4, <2>1 DEF HomePart, GonePart
<1>6. OldPart' /\ MovePart'
  BY <1>1 DEF OldPart, MovePart, Moving
<1> QED  BY <1>2, <1>3, <1>5, <1>6 DEF OldInv

LEMMA OldSettles ==
  ASSUME OldInv, KeptInv, HomeInv, SettlePointer
  PROVE  OldInv' /\ (Calm => \A p \in Previous : data[p] = NoFolder)
<1>1. /\ UNCHANGED <<used, data, marker>> /\ job = "finishing" /\ job' = "none" /\ doomed = {}
      /\ pointer # NoPointer /\ pointer.root = root /\ pointer \in Pointer
  BY DEF SettlePointer, KeptInv, RunInv, TypeOK
<1>2. Calm' <=> Calm
  BY <1>1 DEF Calm
<1>3. Home' = Home /\ Previous' \subseteq Previous \cap waiting
  <2>1. CASE pointer' = NoPointer /\ root = Default
    BY <1>1, <2>1 DEF Home, Previous
  <2>2. CASE pointer' = [pointer EXCEPT !.previous = @ \cap waiting]
    <3>1. pointer' \in Pointer /\ pointer'.root = root /\ pointer'.previous = pointer.previous \cap waiting
      BY <1>1, <2>2 DEF Pointer
    <3> QED  BY <1>1, <3>1, NoneAssumption DEF Home, Previous
  <2> QED  BY <2>1, <2>2 DEF SettlePointer
<1>4. IsFiniteSet(Previous')
  BY <1>3, FS_Subset DEF OldInv
<1>5. ASSUME Calm
      PROVE  HomePart' /\ OldPart' /\ \A p \in Previous : data[p] = NoFolder
  BY <1>1, <1>3, <1>5 DEF OldInv, HomePart, GonePart, OldPart
<1>6. GonePart' /\ MovePart'
  BY <1>1 DEF GonePart, MovePart, Moving
<1> QED  BY <1>2, <1>4, <1>5, <1>6 DEF OldInv

-----------------------------------------------------------------------------
LEMMA OldAtFirst == Init => OldInv
<1> SUFFICES ASSUME Init  PROVE OldInv
  OBVIOUS
<1>1. Previous = {} /\ Home = Default /\ data[Home] = {1} /\ job = "none"
  BY PlaceAssumption DEF Init, Previous, Home
<1> QED  BY <1>1, FS_EmptySet DEF OldInv, HomePart, OldPart, GonePart, MovePart, Moving

LEMMA OldStep ==
  KeptInv /\ HomeInv /\ OldInv /\ [Next]_vars => OldInv' /\ (Calm => \A p \in Places : ~Forgotten(p))
<1> SUFFICES ASSUME KeptInv, HomeInv, OldInv, [Next]_vars
             PROVE  OldInv' /\ (Calm => \A p \in Places : ~Forgotten(p))
  OBVIOUS
<1>1. TypeOK'
  BY TypeStep DEF KeptInv
<1>2. UNCHANGED pointer => \A p \in Places : ~Forgotten(p)
  BY DEF Forgotten, Previous
<1>3. CASE UNCHANGED vars
  BY <1>2, <1>3, OldQuiet DEF vars, diskVars
<1>4. CASE Start \/ Quit \/ Crash \/ GameWrites \/ InstallStarts \/ InstallWrites \/ InstallEnds
  <2>1. UNCHANGED pointer
    BY <1>4 DEF Start, Quit, Crash, Stop, GameWrites, InstallStarts, InstallWrites, InstallEnds,
       diskVars
  <2> QED  BY <1>1, <1>2, <1>4, <2>1, OldStart, OldQuits, OldUncalm, OldWrites, OldQuiet
<1>5. CASE CopyFiles \/ CopyDiffers \/ CopyVerified \/ CopyFails \/ MarkOld \/ PointFails
  <2>1. UNCHANGED pointer
    BY <1>5 DEF CopyFiles, CopyDiffers, CopyVerified, CopyFails, MarkOld, PointFails, diskVars
  <2> QED  BY <1>2, <1>5, <2>1, OldCopies, OldQuiet, OldMarks, OldUncalm
<1>6. CASE Point
  BY <1>6, OldPoints DEF Forgotten
<1>7. CASE SkipFinish \/ BeginFinish
  <2>1. UNCHANGED pointer
    BY <1>7 DEF SkipFinish, BeginFinish, diskVars
  <2> QED  BY <1>2, <1>7, <2>1, OldQuiet, OldFinishes
<1>8. CASE SettlePointer
  BY <1>8, OldSettles DEF Forgotten, Exists
<1>9. ASSUME NEW p \in Places,
             DiskGoes(p) \/ DiskReturns(p) \/ BeginMove(p) \/ DeleteOld(p) \/ DeleteFails(p)
      PROVE  OldInv' /\ UNCHANGED pointer
  <2>1. UNCHANGED pointer
    BY <1>9 DEF DiskGoes, DiskReturns, BeginMove, DeleteOld, DeleteFails
  <2> QED  BY <1>9, <2>1, OldUncalm, OldQuiet, OldBegins, OldDeletes
<1> QED  BY <1>2, <1>3, <1>4, <1>5, <1>6, <1>7, <1>8, <1>9 DEF Next

LEMMA OldAlways == Spec => []OldInv
BY OldAtFirst, OldStep, KeptAlways, HomeAlways, PTL DEF Spec

\* Over any number of moves, an old folder stays in the pointer until it is
\* deleted, as long as nothing stops half-way, fails or is away: switch_root keeps
\* those that still wait, and the markers lead finish_move from each of them home.
THEOREM RemembersOldFolders == Spec => OldFoldersRemembered
<1>1. KeptInv /\ HomeInv /\ OldInv /\ [Next]_vars
        => [(used.crashes = 0 /\ used.failures = 0 /\ used.missing = 0)
              => \A p \in Places : ~Forgotten(p)]_vars
  BY OldStep DEF Calm
<1> QED  BY <1>1, KeptAlways, HomeAlways, OldAlways, PTL DEF Spec, OldFoldersRemembered
=============================================================================
