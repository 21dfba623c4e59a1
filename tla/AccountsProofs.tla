--------------------------- MODULE AccountsProofs ---------------------------
(***************************************************************************)
(* Proofs about the accounts and the keychain their sessions lie in.       *)
(*                                                                         *)
(* About Keychain, for any sessions, sizes and bounds: the entries always  *)
(* hold one whole session or none, calls on them are calls on one          *)
(* register, and a load beside one of them reads what was stored, when the *)
(* keychain does not refuse a save or delete its first look at the head.   *)
(*                                                                         *)
(* About Accounts, which takes such calls for one step each, for any ids,  *)
(* refreshes and bounds: the account is listed once, one refresh at a time *)
(* asks Microsoft, and the list and the keychain keep in step.             *)
(***************************************************************************)
EXTENDS Accounts, Keychain, FiniteSetTheorems, TLAPS

-----------------------------------------------------------------------------
(***************************************************************************)
(* The keychain.                                                           *)
(***************************************************************************)
Pcs == {"idle", "write", "clean", "undo", "head", "chunks", "sweep"}
Writers ==
    [kind : Kinds, pc : Pcs,
     session : Sessions \cup {Nothing}, set : Sets, old : Heads,
     at : 1..MaxParts, upto : 1..MaxParts]
Chunked == [Sets -> [Chunks -> Sessions \cup {Nothing}]]
Lasts == [kind : Kinds, answer : {"none", "ok", "failed", "stopped"}]

EntriesOK == head \in Heads /\ chunk \in Chunked /\ writer \in Writers /\ last \in Lasts

\* What a writer w knows of the head h and the chunks c.
Apart(w, h) == h = NoHead \/ w.set # h.set
Knows(w, h, c) ==
    /\ w.pc = "idle" => w = IdleWriter
    /\ w.pc = "write" =>
        /\ w.kind = "save" /\ w.session \in Sessions /\ Apart(w, h)
        /\ w.upto = Parts[w.session] /\ (w.old = NoHead \/ w.old.set # w.set)
        /\ \A i \in Chunks : i < w.at => c[w.set][i] = w.session
    /\ w.pc = "clean" => w.kind = "save" /\ (w.upto = 1 \/ w.set # h.set)
    /\ w.pc = "undo" => w.kind = "save" /\ Apart(w, h)
    /\ w.pc \in {"head", "chunks", "sweep"} => w.kind = "delete" /\ w.session = Nothing
    /\ w.pc \in {"chunks", "sweep"} => h = NoHead

WholeWith(h, c) ==
    h # NoHead => \A i \in Chunks : i < Parts[h.session] => c[h.set][i] = h.session

KeyInv == EntriesOK /\ WholeWith(head, chunk) /\ Knows(writer, head, chunk)

-----------------------------------------------------------------------------
LEMMA HeadFacts ==
  ASSUME NEW h \in Heads
  PROVE  /\ h.set \in Sets /\ h.session \in Sessions \cup {Nothing}
         /\ PartsOf(h) \in 1..MaxParts
         /\ h # NoHead => h.session \in Sessions /\ PartsOf(h) = Parts[h.session]
         /\ h = NoHead => h.session = Nothing /\ PartsOf(h) = 1
         /\ NextSet(h) \in Sets
         /\ h # NoHead => NextSet(h) # h.set
BY PartsAssumption, NothingAssumption DEF Heads, NoHead, PartsOf, NextSet, Sets

LEMMA NewHead ==
  ASSUME NEW t \in Sets, NEW s \in Sessions
  PROVE  LET h == [set |-> t, session |-> s]
         IN h \in Heads /\ h # NoHead /\ h.set = t /\ h.session = s
BY NothingAssumption DEF Heads, NoHead

LEMMA WriterFields ==
  ASSUME NEW w \in Writers
  PROVE  /\ w.kind \in Kinds /\ w.session \in Sessions \cup {Nothing} /\ w.set \in Sets
         /\ w.old \in Heads /\ w.at \in 1..MaxParts /\ w.upto \in 1..MaxParts
         /\ MaxParts \in Nat
BY PartsAssumption DEF Writers

\* A chunk outside the set the head names changes.
LEMMA ChunkChanges ==
  ASSUME NEW c \in Chunked, NEW h \in Heads, WholeWith(h, c), NEW t \in Sets,
         NEW i \in Chunks, NEW s \in Sessions \cup {Nothing}, h = NoHead \/ t # h.set
  PROVE  /\ [c EXCEPT ![t][i] = s] \in Chunked
         /\ WholeWith(h, [c EXCEPT ![t][i] = s])
         /\ [c EXCEPT ![t][i] = s][t][i] = s
         /\ \A j \in Chunks : j # i => [c EXCEPT ![t][i] = s][t][j] = c[t][j]
BY HeadFacts DEF Chunked, WholeWith

LEMMA ChunkIndex ==
  ASSUME NEW w \in Writers, w.at < w.upto
  PROVE  w.at \in Chunks /\ w.at + 1 \in 1..MaxParts
BY WriterFields DEF Chunks

LEMMA ReturnKeeps ==
  ASSUME KeyInv, NEW answer \in {"ok", "failed", "stopped"}, Return(answer),
         head' = head, chunk' = chunk
  PROVE  KeyInv'
<1>1. IdleWriter \in Writers
  BY PartsAssumption DEF IdleWriter, Writers, Pcs, Kinds, Sets, Heads
<1>2. last' \in Lasts
  BY WriterFields DEF KeyInv, EntriesOK, Return, Lasts
<1>3. Knows(IdleWriter, head, chunk)
  BY DEF Knows, IdleWriter
<1> QED  BY <1>1, <1>2, <1>3 DEF KeyInv, EntriesOK, Return

\* The writer goes on, or begins; the entries stay.
LEMMA GoesOn ==
  ASSUME KeyInv, NEW w \in Writers, Knows(w, head, chunk), writer' = w,
         head' = head, chunk' = chunk, last' = last
  PROVE  KeyInv'
BY DEF KeyInv, EntriesOK

LEMMA InitKeyed == KeyInit => KeyInv
<1> SUFFICES ASSUME KeyInit  PROVE KeyInv
  OBVIOUS
<1>1. head \in Heads
  BY DEF KeyInit, Heads, Sets
<1>2. chunk = [t \in Sets |-> [i \in Chunks |->
          IF head # NoHead /\ t = head.set /\ i < Parts[head.session]
          THEN head.session ELSE Nothing]]
  BY DEF KeyInit
<1>3. chunk \in Chunked /\ WholeWith(head, chunk)
  BY <1>1, <1>2, HeadFacts DEF Chunked, WholeWith
<1>4. writer = IdleWriter /\ last \in Lasts
  BY DEF KeyInit, Lasts, Kinds
<1>5. IdleWriter \in Writers
  BY PartsAssumption DEF IdleWriter, Writers, Pcs, Kinds, Sets, Heads
<1>6. Knows(IdleWriter, head, chunk)
  BY DEF Knows, IdleWriter
<1> QED  BY <1>1, <1>3, <1>4, <1>5, <1>6 DEF KeyInv, EntriesOK

LEMMA BeginKeeps ==
  ASSUME KeyInv, "read" \notin Failing,
         BeginDelete \/ \E s \in Sessions : BeginSave(s)
  PROVE  KeyInv'
<1>1. head \in Heads /\ (\A h : Current(h) => h = head)
  BY DEF KeyInv, EntriesOK, Current
<1>2. CASE BeginDelete
  <2> DEFINE w == [kind |-> "delete", pc |-> "head", session |-> Nothing, set |-> head.set,
                   old |-> head, at |-> 1, upto |-> PartsOf(head)]
  <2>1. writer' = w /\ UNCHANGED <<head, chunk, last>>
    BY <1>1, <1>2 DEF BeginDelete
  <2>2. w \in Writers
    BY <1>1, HeadFacts, PartsAssumption DEF Writers, Pcs, Kinds
  <2>3. Knows(w, head, chunk)
    BY DEF Knows
  <2> QED  BY <2>1, <2>2, <2>3, GoesOn
<1>3. ASSUME NEW s \in Sessions, BeginSave(s)  PROVE KeyInv'
  <2> DEFINE w == [kind |-> "save", pc |-> "write", session |-> s, set |-> NextSet(head),
                   old |-> head, at |-> 1, upto |-> Parts[s]]
  <2>1. writer' = w /\ UNCHANGED <<head, chunk, last>>
    BY <1>1, <1>3 DEF BeginSave
  <2>2. w \in Writers
    BY <1>1, HeadFacts, PartsAssumption DEF Writers, Pcs, Kinds
  <2>3. Knows(w, head, chunk)
    <3>1. Apart(w, head) /\ (head = NoHead \/ head.set # NextSet(head))
      BY <1>1, HeadFacts DEF Apart
    <3>2. \A i \in Chunks : ~(i < 1)
      BY DEF Chunks
    <3> QED  BY <3>1, <3>2 DEF Knows
  <2> QED  BY <2>1, <2>2, <2>3, GoesOn
<1> QED  BY <1>2, <1>3

LEMMA WriteKeeps == ASSUME KeyInv, WriteChunk \/ WriteHead \/ WriteRefused  PROVE KeyInv'
<1> DEFINE t == writer.set
           s == writer.session
           i == writer.at
<1>1. /\ writer \in Writers /\ chunk \in Chunked /\ head \in Heads /\ last \in Lasts
      /\ WholeWith(head, chunk) /\ writer.pc = "write"
  BY DEF KeyInv, EntriesOK, WriteChunk, WriteHead, WriteRefused
<1>2. /\ writer.kind = "save" /\ s \in Sessions /\ Apart(writer, head)
      /\ writer.upto = Parts[s] /\ (writer.old = NoHead \/ writer.old.set # t)
      /\ \A j \in Chunks : j < i => chunk[t][j] = s
  BY <1>1 DEF KeyInv, Knows
<1>3. t \in Sets /\ i \in 1..MaxParts /\ writer.upto \in 1..MaxParts /\ writer.old \in Heads
      /\ MaxParts \in Nat
  BY <1>1, WriterFields
<1>4. CASE WriteChunk
  <2> DEFINE w == [writer EXCEPT !.at = i + 1]
             c == [chunk EXCEPT ![t][i] = s]
  <2>1. i < writer.upto /\ chunk' = c /\ writer' = w /\ UNCHANGED <<head, last>>
    BY <1>4 DEF WriteChunk
  <2>2. i \in Chunks /\ i + 1 \in 1..MaxParts
    BY <1>1, <2>1, ChunkIndex
  <2>3. /\ w \in Writers /\ w.pc = "write" /\ w.kind = "save" /\ w.session = s /\ w.set = t
        /\ w.upto = writer.upto /\ w.at = i + 1 /\ w.old = writer.old
    BY <1>1, <1>2, <2>2 DEF Writers
  <2>4. /\ c \in Chunked /\ WholeWith(head, c) /\ c[t][i] = s
        /\ \A j \in Chunks : j # i => c[t][j] = chunk[t][j]
    <3>1. head = NoHead \/ t # head.set
      BY <1>2 DEF Apart
    <3> HIDE DEF t, s, i
    <3> QED  BY <1>1, <1>2, <1>3, <2>2, <3>1, ChunkChanges
  <2> HIDE DEF w, c
  <2>5. Knows(w, head, c)
    <3>1. ASSUME NEW j \in Chunks, j < i + 1  PROVE c[t][j] = s
      BY <1>2, <1>3, <2>4, <3>1 DEF Chunks
    <3>2. Apart(w, head)
      BY <1>2, <2>3 DEF Apart
    <3> QED  BY <1>2, <2>3, <3>1, <3>2 DEF Knows
  <2> QED  BY <1>1, <2>1, <2>3, <2>4, <2>5 DEF KeyInv, EntriesOK
<1>5. CASE WriteHead
  <2> DEFINE h == [set |-> t, session |-> s]
             w == [writer EXCEPT !.pc = "clean", !.set = writer.old.set, !.at = 1,
                                 !.upto = PartsOf(writer.old)]
  <2>1. i = writer.upto /\ head' = h /\ writer' = w /\ UNCHANGED <<chunk, last>>
    BY <1>5 DEF WriteHead
  <2>2. h \in Heads /\ h # NoHead /\ h.set = t /\ h.session = s
    BY <1>2, <1>3, NewHead
  <2>3. WholeWith(h, chunk)
    BY <1>2, <2>1, <2>2 DEF WholeWith
  <2>4. /\ w \in Writers /\ w.pc = "clean" /\ w.kind = "save" /\ w.set = writer.old.set
        /\ w.upto = PartsOf(writer.old)
    <3>1. /\ "clean" \in Pcs /\ writer.old.set \in Sets /\ 1 \in 1..MaxParts
          /\ PartsOf(writer.old) \in 1..MaxParts
      BY <1>3, HeadFacts DEF Pcs
    <3> QED  BY <1>1, <1>2, <3>1 DEF Writers
  <2> HIDE DEF w, h
  <2>5. Knows(w, h, chunk)
    <3>1. w.upto = 1 \/ w.set # h.set
      BY <1>2, <1>3, <2>2, <2>4, HeadFacts
    <3> QED  BY <2>4, <3>1 DEF Knows
  <2> QED  BY <1>1, <2>1, <2>2, <2>3, <2>4, <2>5 DEF KeyInv, EntriesOK
<1>6. CASE WriteRefused
  <2> DEFINE w == [writer EXCEPT !.pc = "undo", !.at = 1, !.upto = i]
  <2>1. writer' = w /\ UNCHANGED <<head, chunk, last>>
    BY <1>6 DEF WriteRefused
  <2>2. w \in Writers /\ w.pc = "undo" /\ w.kind = "save" /\ w.set = t
    <3>1. "undo" \in Pcs /\ 1 \in 1..MaxParts
      BY <1>3 DEF Pcs
    <3> QED  BY <1>1, <1>2, <1>3, <3>1 DEF Writers
  <2> HIDE DEF w
  <2>3. Knows(w, head, chunk)
    BY <1>2, <2>2 DEF Knows, Apart
  <2> QED  BY <2>1, <2>2, <2>3, GoesOn
<1> QED  BY <1>4, <1>5, <1>6

LEMMA RemoveKeeps == ASSUME KeyInv, RemoveHead \/ RemoveChunk \/ LeaveChunk  PROVE KeyInv'
<1> DEFINE t == writer.set
           i == writer.at
           further == [writer EXCEPT !.at = i + 1]
<1>1. /\ writer \in Writers /\ chunk \in Chunked /\ head \in Heads /\ last \in Lasts
      /\ WholeWith(head, chunk) /\ Knows(writer, head, chunk)
  BY DEF KeyInv, EntriesOK
<1>2. t \in Sets /\ i \in 1..MaxParts /\ writer.upto \in 1..MaxParts /\ MaxParts \in Nat
  BY <1>1, WriterFields
<1>3. ASSUME i < writer.upto
      PROVE  /\ further \in Writers /\ further.pc = writer.pc /\ further.kind = writer.kind
             /\ further.session = writer.session /\ further.set = t /\ further.upto = writer.upto
             /\ i \in Chunks
  <2>1. i \in Chunks /\ i + 1 \in 1..MaxParts
    BY <1>1, <1>3, ChunkIndex
  <2> QED  BY <1>1, <2>1 DEF Writers
<1> HIDE DEF further
<1>4. CASE RemoveHead
  <2> DEFINE w == [writer EXCEPT !.pc = "chunks"]
  <2>1. writer.pc = "head" /\ head' = NoHead /\ writer' = w /\ UNCHANGED <<chunk, last>>
    BY <1>4 DEF RemoveHead
  <2>2. w \in Writers /\ w.pc = "chunks" /\ w.kind = writer.kind /\ w.session = writer.session
    BY <1>1 DEF Writers, Pcs
  <2> HIDE DEF w
  <2>3. Knows(w, NoHead, chunk)
    BY <1>1, <2>1, <2>2 DEF Knows
  <2>4. NoHead \in Heads /\ WholeWith(NoHead, chunk)
    BY DEF Heads, WholeWith
  <2> QED  BY <1>1, <2>1, <2>2, <2>3, <2>4 DEF KeyInv, EntriesOK
<1>5. CASE RemoveChunk
  <2> DEFINE c == [chunk EXCEPT ![t][i] = Nothing]
  <2>1. /\ writer.pc \in {"clean", "undo", "chunks"} /\ i < writer.upto
        /\ chunk' = c /\ writer' = further /\ UNCHANGED <<head, last>>
    BY <1>5 DEF RemoveChunk, further
  <2>2. head = NoHead \/ t # head.set
    BY <1>1, <1>2, <2>1 DEF Knows, Apart
  <2>3. c \in Chunked /\ WholeWith(head, c)
    BY <1>1, <1>2, <1>3, <2>1, <2>2, ChunkChanges
  <2> HIDE DEF c
  <2>4. Knows(further, head, c)
    BY <1>1, <1>3, <2>1 DEF Knows, Apart
  <2> QED  BY <1>1, <1>3, <2>1, <2>3, <2>4 DEF KeyInv, EntriesOK
<1>6. CASE LeaveChunk
  <2>1. /\ writer.pc \in {"clean", "undo"} /\ i < writer.upto
        /\ writer' = further /\ UNCHANGED <<head, chunk, last>>
    BY <1>6 DEF LeaveChunk, further
  <2>2. Knows(further, head, chunk)
    BY <1>1, <1>3, <2>1 DEF Knows, Apart
  <2> QED  BY <1>3, <2>1, <2>2, GoesOn
<1> QED  BY <1>4, <1>5, <1>6

LEMMA SweepKeeps == ASSUME KeyInv, BeginSweep \/ Sweep  PROVE KeyInv'
<1> DEFINE t == writer.set
           i == writer.at
<1>1. /\ writer \in Writers /\ chunk \in Chunked /\ head \in Heads /\ last \in Lasts
      /\ WholeWith(head, chunk) /\ Knows(writer, head, chunk)
  BY DEF KeyInv, EntriesOK
<1>2. t \in Sets /\ i \in 1..MaxParts /\ MaxParts \in Nat \ {0}
  BY <1>1, WriterFields, PartsAssumption
<1>3. writer.pc \in {"chunks", "sweep"}
  BY DEF BeginSweep, Sweep
<1>4. head = NoHead /\ writer.kind = "delete" /\ writer.session = Nothing
  BY <1>1, <1>3 DEF Knows
<1>5. ASSUME NEW w \in Writers, w.pc = "sweep", w.kind = writer.kind,
             w.session = writer.session, NEW c
      PROVE  Knows(w, head, c)
  BY <1>4, <1>5 DEF Knows
<1>6. CASE BeginSweep
  <2> DEFINE w == [writer EXCEPT !.pc = "sweep", !.set = "Legacy", !.at = 1]
  <2>1. writer' = w /\ UNCHANGED <<head, chunk, last>>
    BY <1>6 DEF BeginSweep
  <2>2. w \in Writers /\ w.pc = "sweep" /\ w.kind = writer.kind /\ w.session = writer.session
    <3>1. "sweep" \in Pcs /\ "Legacy" \in Sets /\ 1 \in 1..MaxParts
      BY <1>2 DEF Pcs, Sets
    <3> QED  BY <1>1, <3>1 DEF Writers
  <2> HIDE DEF w
  <2> QED  BY <1>5, <2>1, <2>2, GoesOn
<1>7. ASSUME Sweep, i \in Chunks, chunk[t][i] # Nothing  PROVE KeyInv'
  <2> DEFINE w == [writer EXCEPT !.at = i + 1]
             c == [chunk EXCEPT ![t][i] = Nothing]
  <2>1. chunk' = c /\ writer' = w /\ UNCHANGED <<head, last>> /\ writer.pc = "sweep"
    BY <1>7 DEF Sweep
  <2>2. i + 1 \in 1..MaxParts
    BY <1>2, <1>7 DEF Chunks
  <2>3. w \in Writers /\ w.pc = "sweep" /\ w.kind = writer.kind /\ w.session = writer.session
    BY <1>1, <2>1, <2>2 DEF Writers
  <2>4. c \in Chunked /\ WholeWith(head, c)
    BY <1>1, <1>2, <1>4, <1>7, ChunkChanges
  <2> HIDE DEF w, c
  <2> QED  BY <1>1, <1>5, <2>1, <2>3, <2>4 DEF KeyInv, EntriesOK
<1>8. ASSUME Sweep, ~(i \in Chunks /\ chunk[t][i] # Nothing)  PROVE KeyInv'
  <2> DEFINE w == [writer EXCEPT !.at = 1, !.set = IF t = "Legacy" THEN "A" ELSE "B"]
  <2>1. /\ UNCHANGED <<head, chunk>> /\ writer.pc = "sweep"
        /\ \/ Return("ok")
           \/ writer' = w /\ UNCHANGED last
    BY <1>8 DEF Sweep
  <2>2. w \in Writers /\ w.pc = "sweep" /\ w.kind = writer.kind /\ w.session = writer.session
    <3>1. 1 \in 1..MaxParts /\ (IF t = "Legacy" THEN "A" ELSE "B") \in Sets
      BY <1>2 DEF Sets
    <3> QED  BY <1>1, <2>1, <3>1 DEF Writers
  <2> HIDE DEF w
  <2> QED  BY <1>5, <2>1, <2>2, GoesOn, ReturnKeeps
<1> QED  BY <1>6, <1>7, <1>8 DEF BeginSweep, Sweep

LEMMA LastKeeps == ASSUME KeyInv, EndSave \/ RemoveRefused \/ StopLauncher  PROVE KeyInv'
<1>1. /\ \E answer \in {"ok", "failed", "stopped"} : Return(answer)
      /\ head' = head /\ chunk' = chunk
  BY DEF EndSave, RemoveRefused, StopLauncher
<1> QED  BY <1>1, ReturnKeeps

LEMMA KeyStep ==
  ASSUME KeyInv, "read" \notin Failing, [KeyNext]_keyVars
  PROVE  KeyInv'
<1>1. CASE Loads \/ UNCHANGED keyVars
  <2>1. UNCHANGED <<head, chunk, writer, last>>
    BY <1>1 DEF Loads, BeginLoad, ReadPart, ReadAgain, keyVars
  <2> QED  BY <2>1 DEF KeyInv, EntriesOK
<1>2. CASE Saves
  BY <1>2, BeginKeeps, WriteKeeps, RemoveKeeps, LastKeeps DEF Saves
<1>3. CASE Deletes
  BY <1>3, BeginKeeps, RemoveKeeps, SweepKeeps, LastKeeps DEF Deletes
<1>4. CASE RemoveChunk \/ StopLauncher
  BY <1>4, RemoveKeeps, LastKeeps
<1> QED  BY <1>1, <1>2, <1>3, <1>4 DEF KeyNext

LEMMA KeyAlways == ASSUME "read" \notin Failing  PROVE KeySpec => []KeyInv
<1>1. KeyInit => KeyInv
  BY InitKeyed
<1>2. KeyInv /\ [KeyNext]_keyVars => KeyInv'
  BY KeyStep
<1> QED  BY <1>1, <1>2, PTL DEF KeySpec

(* Whatever is refused and wherever the launcher ends, the session the     *)
(* head names is whole: a save works outside the set it is in (save).      *)
THEOREM StaysWhole == ASSUME "read" \notin Failing  PROVE KeySpec => []Whole
<1>1. KeyInv => Whole
  BY DEF KeyInv, WholeWith, Whole
<1> QED  BY <1>1, KeyAlways, PTL

-----------------------------------------------------------------------------
\* A call that answers is the register's Answer.
LEMMA Answers ==
  ASSUME NEW answer \in {"ok", "failed", "stopped"}, Return(answer), Stored' = Stored,
         Call # Register!Idle,
         answer = "ok" => Call.stage = "done",
         answer = "failed" => Call.kind = "delete" \/ Call.stage = "pending"
  PROVE  Register!Answer
<1>1. last'.answer = answer /\ Call' = Register!Idle
  BY DEF Return, Call, IdleWriter, Register!Idle
<1> QED  BY <1>1 DEF Register!Answer, Stored, Call

LEMMA RegisterStep ==
  ASSUME KeyInv, KeyInv', "read" \notin Failing, [KeyNext]_keyVars
  PROVE  [Register!Next]_<<Stored, Call, last.answer>>
<1>1. Stored = head.session /\ Stored' = head'.session
  BY DEF KeyInv, WholeWith, Whole, Stored
<1>2. /\ writer \in Writers /\ last \in Lasts /\ Knows(writer, head, chunk)
      /\ writer' \in Writers
  BY DEF KeyInv, EntriesOK
<1>3. ASSUME head' = head, last' = last, writer'.kind = writer.kind,
             writer'.session = writer.session,
             writer'.pc \in {"clean", "chunks", "sweep"} <=>
               writer.pc \in {"clean", "chunks", "sweep"}
      PROVE  UNCHANGED <<Stored, Call, last.answer>>
  BY <1>1, <1>3 DEF Call
<1>4. CASE (\E s \in Sessions : BeginSave(s)) \/ BeginDelete
  <2>1. Call = Register!Idle
    BY <1>2, <1>4 DEF BeginSave, BeginDelete, Knows, IdleWriter, Call, Register!Idle
  <2>2. Register!Begin
    BY <1>1, <1>4, <2>1 DEF BeginSave, BeginDelete, Call, Register!Begin
  <2> QED  BY <2>2 DEF Register!Next
<1>5. ASSUME writer.pc # "idle"
      PROVE  Call # Register!Idle
  <2>1. writer.kind \in {"save", "delete"}
    BY <1>2, <1>5 DEF Knows, Writers, Pcs
  <2> QED  BY <2>1 DEF Call, Register!Idle
<1>6. CASE WriteChunk \/ WriteRefused \/ RemoveChunk \/ LeaveChunk \/ BeginSweep
  BY <1>2, <1>3, <1>6 DEF WriteChunk, WriteRefused, RemoveChunk, LeaveChunk, BeginSweep, Writers
<1>7. CASE WriteHead \/ RemoveHead
  <2>1. Stored' = Call.wanted /\ last' = last
    BY <1>1, <1>2, <1>7 DEF WriteHead, RemoveHead, Call, Knows, NoHead
  <2>2. /\ Call # Register!Idle /\ Call.stage = "pending"
    BY <1>5, <1>7 DEF WriteHead, RemoveHead, Call
  <2>3. Call' = [Call EXCEPT !.stage = "done"]
    <3>1. /\ writer'.kind = writer.kind /\ writer'.session = writer.session
          /\ writer'.pc \in {"clean", "chunks", "sweep"}
      BY <1>2, <1>7 DEF WriteHead, RemoveHead, Writers
    <3> QED  BY <3>1 DEF Call
  <2> QED  BY <2>1, <2>2, <2>3 DEF Register!Next, Register!TakeEffect
<1>8. CASE EndSave \/ RemoveRefused \/ StopLauncher
  <2>1. PICK answer \in {"ok", "failed", "stopped"} :
          /\ Return(answer) /\ head' = head /\ writer.pc # "idle"
          /\ answer = "ok" => writer.pc = "clean"
          /\ answer = "failed" => writer.kind = "delete" \/ writer.pc = "undo"
    BY <1>2, <1>8 DEF EndSave, RemoveRefused, StopLauncher, Knows
  <2>2. answer = "ok" => Call.stage = "done"
    BY <2>1 DEF Call
  <2>3. answer = "failed" => Call.kind = "delete" \/ Call.stage = "pending"
    BY <2>1 DEF Call
  <2> QED  BY <1>1, <1>5, <2>1, <2>2, <2>3, Answers DEF Register!Next
<1>9. CASE Sweep
  <2>1. \/ /\ UNCHANGED <<head, last>> /\ writer'.kind = writer.kind
           /\ writer'.session = writer.session /\ writer'.pc = writer.pc
        \/ Return("ok") /\ head' = head /\ writer.pc = "sweep"
    BY <1>2, <1>9 DEF Sweep, Writers
  <2>2. writer.pc = "sweep" => Call.stage = "done"
    BY DEF Call
  <2> QED  BY <1>1, <1>3, <1>5, <2>1, <2>2, Answers DEF Register!Next
<1>10. CASE Loads \/ UNCHANGED keyVars
  BY <1>3, <1>10 DEF Loads, BeginLoad, ReadPart, ReadAgain, keyVars
<1> QED  BY <1>4, <1>6, <1>7, <1>8, <1>9, <1>10 DEF KeyNext, Saves, Deletes

(* What the store promises its callers it keeps through the entries: each  *)
(* call takes effect at the rewriting or removal of the head, or not at    *)
(* all, and the answer says which (save, delete).                          *)
THEOREM Implements == ASSUME "read" \notin Failing  PROVE KeySpec => IsRegister
<1>1. KeyInit => Register!Init
  <2> SUFFICES ASSUME KeyInit  PROVE Register!Init
    OBVIOUS
  <2>1. Stored \in Sessions \cup {Nothing}
    BY InitKeyed, HeadFacts DEF KeyInv, EntriesOK, WholeWith, Whole, Stored
  <2>2. Call = Register!Idle /\ last.answer = "none"
    BY DEF KeyInit, IdleWriter, Call, Register!Idle
  <2> QED  BY <2>1, <2>2 DEF Register!Init
<1>2. KeyInv /\ KeyInv' /\ [KeyNext]_keyVars => [Register!Next]_<<Stored, Call, last.answer>>
  BY RegisterStep
<1> QED  BY <1>1, <1>2, KeyAlways, PTL DEF KeySpec, IsRegister, Register!Spec

-----------------------------------------------------------------------------
Readers ==
    [pc : {"idle", "parts", "again", "done"}, head : Heads, at : 1..MaxParts,
     parts : SUBSET Sessions, attempt : 1..Attempts, result : Sessions \cup {Nothing, Damaged},
     seen : SUBSET (Sessions \cup {Nothing}), beside : Nat]

\* The head may still change under the writer w.
Switching(w) == w.pc \in {"write", "head"}

Follows(r, h) ==
    /\ r.head # NoHead /\ r.at <= PartsOf(r.head)
    /\ {h.session, r.head.session} \subseteq r.seen

\* The one call beside a load has not changed the head the load reads under,
\* or has, and then it can only remove that head's chunks, and not this again.
Undisturbed(r, h, c, w) ==
    /\ r.parts = {r.head.session}
    /\ r.beside = 0 => w.pc = "idle" /\ r.attempt = 1 /\ h = r.head
    /\ \/ h = r.head /\ r.pc = "parts" /\ (r.attempt = 1 \/ ~Switching(w))
       \/ /\ h # r.head /\ ~Switching(w) /\ r.attempt = 1
          /\ \A i \in Chunks :
                i < PartsOf(r.head) => c[r.head.set][i] \in {r.head.session, Nothing}

\* A load r under the head h and the writer w.
Reads(r, h, c, w) ==
    /\ r.pc \in {"parts", "again"} => Follows(r, h)
    /\ r.pc \in {"parts", "again"} /\ r.beside <= 1 => Undisturbed(r, h, c, w)
    /\ r.pc = "done" /\ r.beside <= 1 => r.result \in r.seen

ReadInv ==
    /\ reader \in Readers /\ calls \in 0..MaxCalls /\ reader.beside <= calls + 1
    /\ Reads(reader, head, chunk, writer)

-----------------------------------------------------------------------------
LEMMA ReaderFields ==
  ASSUME NEW r \in Readers
  PROVE  /\ r.pc \in {"idle", "parts", "again", "done"} /\ r.head \in Heads
         /\ r.at \in 1..MaxParts /\ r.parts \subseteq Sessions /\ r.attempt \in 1..Attempts
         /\ r.result \in Sessions \cup {Nothing, Damaged} /\ r.beside \in Nat
         /\ r.seen \subseteq Sessions \cup {Nothing}
         /\ MaxParts \in Nat /\ Attempts \in Nat \ {0} /\ MaxCalls \in Nat
BY PartsAssumption, BoundAssumption DEF Readers

\* The writer moves and the head stays; what it writes, it writes before it
\* has changed the head, and then it only removes.
LEMMA BesideKeeps ==
  ASSUME KeyInv, ReadInv, writer.pc # "idle", UNCHANGED <<head, reader, calls>>,
         Switching(writer') => Switching(writer),
         Switching(writer) \/ \A t \in Sets, i \in Chunks : chunk'[t][i] \in {chunk[t][i], Nothing}
  PROVE  ReadInv'
<1>1. reader \in Readers /\ Reads(reader, head, chunk, writer)
  BY DEF ReadInv
<1>2. reader.head.set \in Sets
  BY <1>1, ReaderFields, HeadFacts
<1>3. ASSUME Undisturbed(reader, head, chunk, writer)
      PROVE  Undisturbed(reader, head, chunk', writer')
  BY <1>2, <1>3 DEF Undisturbed
<1>4. Reads(reader, head, chunk', writer')
  BY <1>1, <1>3 DEF Reads
<1> QED  BY <1>1, <1>4 DEF ReadInv

LEMMA WriterSteps ==
  ASSUME KeyInv, ReadInv, \/ WriteChunk \/ WriteRefused \/ RemoveChunk \/ LeaveChunk
                          \/ EndSave \/ BeginSweep \/ Sweep \/ RemoveRefused
  PROVE  ReadInv'
<1>1. writer \in Writers /\ chunk \in Chunked
  BY DEF KeyInv, EntriesOK
<1>2. writer.pc # "idle" /\ UNCHANGED <<head, reader, calls>>
  BY DEF WriteChunk, WriteRefused, RemoveChunk, LeaveChunk, EndSave, BeginSweep, Sweep,
         RemoveRefused
<1>3. CASE WriteChunk
  BY <1>2, <1>3, BesideKeeps DEF WriteChunk, Switching
<1>4. CASE WriteRefused \/ LeaveChunk \/ BeginSweep
  <2>1. chunk' = chunk /\ ~Switching(writer')
    BY <1>1, <1>4 DEF WriteRefused, LeaveChunk, BeginSweep, Switching, Writers
  <2>2. \A t \in Sets, i \in Chunks : chunk'[t][i] \in {chunk[t][i], Nothing}
    BY <2>1
  <2> QED  BY <1>2, <2>1, <2>2, BesideKeeps
<1>5. CASE EndSave \/ RemoveRefused
  <2>1. chunk' = chunk /\ ~Switching(writer')
    BY <1>5 DEF EndSave, RemoveRefused, Return, IdleWriter, Switching
  <2>2. \A t \in Sets, i \in Chunks : chunk'[t][i] \in {chunk[t][i], Nothing}
    BY <2>1
  <2> QED  BY <1>2, <2>1, <2>2, BesideKeeps
<1>6. CASE RemoveChunk \/ Sweep
  <2>1. chunk' = chunk \/ chunk' = [chunk EXCEPT ![writer.set][writer.at] = Nothing]
    BY <1>6 DEF RemoveChunk, Sweep
  <2>2. \A t \in Sets, i \in Chunks : chunk'[t][i] \in {chunk[t][i], Nothing}
    BY <1>1, <2>1 DEF Chunked
  <2>3. ~Switching(writer')
    <3>1. writer.pc \in {"clean", "undo", "chunks", "sweep"}
      BY <1>6 DEF RemoveChunk, Sweep
    <3>2. writer' = IdleWriter \/ writer'.pc = writer.pc
      BY <1>1, <1>6 DEF RemoveChunk, Sweep, Return, Writers
    <3> QED  BY <3>1, <3>2 DEF IdleWriter, Switching
  <2> QED  BY <1>2, <2>2, <2>3, BesideKeeps
<1> QED  BY <1>3, <1>4, <1>5, <1>6

LEMMA CallBegins ==
  ASSUME ReadInv, BeginDelete \/ \E s \in Sessions : BeginSave(s)
  PROVE  ReadInv'
<1> DEFINE more == [reader EXCEPT !.beside = @ + 1]
<1>1. /\ UNCHANGED <<head, chunk>> /\ writer'.pc # "idle"
      /\ calls < MaxCalls /\ calls' = calls + 1 /\ reader' = Beside
  BY DEF BeginDelete, BeginSave
<1>2. /\ reader \in Readers /\ Reads(reader, head, chunk, writer)
      /\ calls \in 0..MaxCalls /\ reader.beside <= calls + 1
  BY DEF ReadInv
<1>3. reader.beside \in Nat /\ MaxCalls \in Nat
  BY <1>2, ReaderFields
<1>4. calls' \in 0..MaxCalls /\ reader.beside <= calls' + 1 /\ reader.beside + 1 <= calls' + 1
  BY <1>1, <1>2, <1>3
<1>5. CASE Loading
  <2>1. /\ more \in Readers /\ more.pc = reader.pc /\ more.head = reader.head
        /\ more.at = reader.at /\ more.parts = reader.parts /\ more.attempt = reader.attempt
        /\ more.seen = reader.seen /\ more.beside = reader.beside + 1
    BY <1>2, <1>3 DEF Readers
  <2>2. reader' = more /\ more.pc \in {"parts", "again"}
    BY <1>1, <1>5, <2>1 DEF Beside, Loading
  <2> HIDE DEF more
  <2>3. Follows(more, head)
    BY <1>2, <2>1, <2>2 DEF Reads, Follows
  <2>4. ASSUME more.beside <= 1
        PROVE  Undisturbed(more, head, chunk, writer')
    <3>1. reader.beside = 0 /\ more.beside = 1
      BY <1>3, <2>1, <2>4
    <3>2. Undisturbed(reader, head, chunk, writer)
      BY <1>2, <2>1, <2>2, <3>1 DEF Reads
    <3> QED  BY <2>1, <3>1, <3>2 DEF Undisturbed
  <2>5. Reads(more, head, chunk, writer')
    BY <2>2, <2>3, <2>4 DEF Reads
  <2> QED  BY <1>1, <1>4, <2>1, <2>2, <2>5 DEF ReadInv
<1>6. CASE ~Loading
  <2>1. reader' = reader /\ Reads(reader, head, chunk, writer')
    BY <1>1, <1>2, <1>6 DEF Beside, Loading, Reads
  <2> QED  BY <1>1, <1>2, <1>4, <2>1 DEF ReadInv
<1> QED  BY <1>5, <1>6

\* The head changes under a load: the load's chunks are whole or go from now on.
LEMMA SwitchKeeps ==
  ASSUME KeyInv, ReadInv, WriteHead \/ RemoveHead
  PROVE  ReadInv'
<1> DEFINE s == head'.session
           more == [reader EXCEPT !.seen = @ \cup {s}]
<1>1. /\ chunk' = chunk /\ calls' = calls /\ Switching(writer)
  BY DEF WriteHead, RemoveHead, Switching
<1>2. /\ writer \in Writers /\ head \in Heads /\ WholeWith(head, chunk)
      /\ Knows(writer, head, chunk)
  BY DEF KeyInv, EntriesOK
<1>3. /\ ~Switching(writer') /\ reader' = Switched(s) /\ s \in Sessions \cup {Nothing}
  <2>1. CASE WriteHead
    <3>1. head'.session = writer.session /\ writer'.pc = "clean"
      BY <1>2, <2>1 DEF WriteHead, Writers
    <3>2. writer.session \in Sessions
      BY <1>2, <2>1 DEF WriteHead, Knows
    <3> QED  BY <2>1, <3>1, <3>2 DEF WriteHead, Switching
  <2>2. CASE RemoveHead
    <3>1. head'.session = Nothing /\ writer'.pc = "chunks"
      BY <1>2, <2>2 DEF RemoveHead, Writers, NoHead
    <3> QED  BY <2>2, <3>1 DEF RemoveHead, Switching
  <2> QED  BY <2>1, <2>2
<1>4. head # NoHead => head' # head
  BY <1>2 DEF WriteHead, RemoveHead, Knows, Apart
<1>5. /\ reader \in Readers /\ Reads(reader, head, chunk, writer)
      /\ calls \in 0..MaxCalls /\ reader.beside <= calls + 1
  BY DEF ReadInv
<1> HIDE DEF s
<1>6. CASE Loading
  <2>1. /\ more \in Readers /\ more.pc = reader.pc /\ more.head = reader.head
        /\ more.at = reader.at /\ more.parts = reader.parts /\ more.attempt = reader.attempt
        /\ more.seen = reader.seen \cup {s} /\ more.beside = reader.beside
    BY <1>3, <1>5 DEF Readers
  <2>2. reader' = more /\ more.pc \in {"parts", "again"}
    BY <1>3, <1>6, <2>1 DEF Switched, Loading
  <2> HIDE DEF more
  <2>3. Follows(reader, head)
    BY <1>5, <2>1, <2>2 DEF Reads
  <2>4. Follows(more, head')
    BY <2>1, <2>3 DEF Follows, s
  <2>5. ASSUME more.beside <= 1
        PROVE  Undisturbed(more, head', chunk, writer')
    <3>1. Undisturbed(reader, head, chunk, writer)
      BY <1>5, <2>1, <2>2, <2>5 DEF Reads
    <3>2. head = reader.head /\ reader.attempt = 1 /\ reader.beside # 0
      BY <1>1, <3>1 DEF Undisturbed, Switching
    <3>3. head # NoHead
      BY <2>3, <3>2 DEF Follows
    <3>4. \A i \in Chunks : i < PartsOf(head) => chunk[head.set][i] = head.session
      BY <1>2, <3>3 DEF WholeWith, PartsOf
    <3> QED  BY <1>3, <1>4, <2>1, <3>1, <3>2, <3>3, <3>4 DEF Undisturbed
  <2>6. Reads(more, head', chunk, writer')
    BY <2>2, <2>4, <2>5 DEF Reads
  <2> QED  BY <1>1, <1>5, <2>1, <2>2, <2>6 DEF ReadInv
<1>7. CASE ~Loading
  <2>1. reader' = reader /\ Reads(reader, head', chunk, writer')
    BY <1>3, <1>5, <1>7 DEF Switched, Loading, Reads
  <2> QED  BY <1>1, <1>5, <2>1 DEF ReadInv
<1> QED  BY <1>6, <1>7

LEMMA LoadBegins ==
  ASSUME KeyInv, ReadInv, BeginLoad
  PROVE  ReadInv'
<1> DEFINE r == [IdleReader EXCEPT !.pc = "parts", !.head = head, !.parts = {head.session},
                   !.seen = {head.session}, !.beside = IF writer.pc = "idle" THEN 0 ELSE 1]
<1>1. /\ head # NoHead /\ reader' = r /\ UNCHANGED <<head, chunk, writer, calls>>
  BY DEF BeginLoad
<1>2. head \in Heads /\ calls \in 0..MaxCalls
  BY DEF KeyInv, EntriesOK, ReadInv
<1>3. head.session \in Sessions /\ 1 \in 1..MaxParts /\ 1 <= PartsOf(head) /\ 1 \in 1..Attempts
  BY <1>1, <1>2, HeadFacts, PartsAssumption, BoundAssumption
<1>4. /\ r.pc = "parts" /\ r.head = head /\ r.at = 1 /\ r.parts = {head.session}
      /\ r.attempt = 1 /\ r.seen = {head.session} /\ r.beside \in {0, 1}
      /\ r.beside = 0 => writer.pc = "idle"
  BY DEF IdleReader
<1>5. r \in Readers
  BY <1>2, <1>3 DEF IdleReader, Readers
<1> HIDE DEF r
<1>6. Reads(r, head, chunk, writer)
  BY <1>1, <1>3, <1>4 DEF Reads, Follows, Undisturbed
<1>7. r.beside <= calls + 1
  BY <1>2, <1>4, BoundAssumption
<1> QED  BY <1>1, <1>2, <1>5, <1>6, <1>7 DEF ReadInv

\* A load goes on as r, with its count of calls.
LEMMA LoadMoves ==
  ASSUME ReadInv, NEW r \in Readers, reader' = r, r.beside = reader.beside,
         Reads(r, head, chunk, writer), UNCHANGED <<head, chunk, writer, calls>>
  PROVE  ReadInv'
BY DEF ReadInv

LEMMA PartReads ==
  ASSUME KeyInv, ReadInv, ReadPart
  PROVE  ReadInv'
<1> DEFINE part == chunk[reader.head.set][reader.at]
           done == [reader EXCEPT !.pc = "done",
                      !.result = IF reader.parts = {reader.head.session}
                                 THEN reader.head.session ELSE Damaged]
           again == [reader EXCEPT !.pc = "again"]
           further == [reader EXCEPT !.parts = @ \cup {part}, !.at = @ + 1]
<1>1. reader.pc = "parts" /\ UNCHANGED <<head, chunk, writer, calls>>
  BY DEF ReadPart
<1>2. /\ reader \in Readers /\ Reads(reader, head, chunk, writer) /\ Follows(reader, head)
      /\ (reader.beside <= 1 => Undisturbed(reader, head, chunk, writer))
  BY <1>1 DEF ReadInv, Reads
<1>3. /\ head \in Heads /\ chunk \in Chunked /\ WholeWith(head, chunk)
  BY DEF KeyInv, EntriesOK
<1>4. /\ reader.head \in Heads /\ reader.head # NoHead /\ reader.head.session \in Sessions
      /\ reader.head.set \in Sets /\ PartsOf(reader.head) \in 1..MaxParts
      /\ reader.at \in 1..MaxParts /\ reader.at <= PartsOf(reader.head) /\ MaxParts \in Nat
  BY <1>2, ReaderFields, HeadFacts DEF Follows
<1>5. CASE reader.at = PartsOf(reader.head)
  <2>1. reader' = done
    BY <1>5 DEF ReadPart, Loaded
  <2>2. /\ done \in Readers /\ done.pc = "done" /\ done.beside = reader.beside
        /\ done.seen = reader.seen
        /\ (reader.parts = {reader.head.session} => done.result = reader.head.session)
    BY <1>2, <1>4 DEF Readers
  <2> HIDE DEF done
  <2>3. Reads(done, head, chunk, writer)
    BY <1>2, <2>2 DEF Reads, Follows, Undisturbed
  <2> QED  BY <1>1, <2>1, <2>2, <2>3, LoadMoves
<1>6. CASE reader.at # PartsOf(reader.head)
  <2>1. reader.at < PartsOf(reader.head) /\ reader.at \in Chunks /\ reader.at + 1 \in 1..MaxParts
        /\ reader.at + 1 <= PartsOf(reader.head)
    BY <1>4, <1>6 DEF Chunks
  <2>2. part \in Sessions \cup {Nothing}
    BY <1>3, <1>4, <2>1 DEF Chunked
  <2>3. ASSUME reader.beside <= 1
        PROVE  /\ part \in {reader.head.session, Nothing}
               /\ head = reader.head => part = reader.head.session
    <3>1. Undisturbed(reader, head, chunk, writer)
      BY <1>2, <2>3
    <3>2. head = reader.head => part = reader.head.session
      BY <1>3, <1>4, <2>1 DEF WholeWith, PartsOf
    <3> QED  BY <2>1, <3>1, <3>2 DEF Undisturbed
  <2>4. reader' = IF part = Nothing THEN again ELSE further
    BY <1>6 DEF ReadPart
  <2> HIDE DEF part
  <2>5. CASE part = Nothing
    <3>1. /\ again \in Readers /\ again.pc = "again" /\ again.beside = reader.beside
          /\ again.seen = reader.seen /\ again.head = reader.head /\ again.at = reader.at
          /\ again.parts = reader.parts /\ again.attempt = reader.attempt
      BY <1>2 DEF Readers
    <3>2. reader' = again
      BY <2>4, <2>5
    <3> HIDE DEF again
    <3>3. Follows(again, head)
      BY <1>2, <3>1 DEF Follows
    <3>4. ASSUME again.beside <= 1  PROVE Undisturbed(again, head, chunk, writer)
      <4>1. head # reader.head
        BY <1>4, <2>3, <2>5, <3>1, <3>4, NothingAssumption
      <4> QED  BY <1>2, <3>1, <3>4, <4>1 DEF Undisturbed
    <3>5. Reads(again, head, chunk, writer)
      BY <3>1, <3>3, <3>4 DEF Reads
    <3> QED  BY <1>1, <3>1, <3>2, <3>5, LoadMoves
  <2>6. CASE part # Nothing
    <3>1. /\ further \in Readers /\ further.pc = "parts" /\ further.beside = reader.beside
          /\ further.seen = reader.seen /\ further.head = reader.head
          /\ further.at = reader.at + 1 /\ further.parts = reader.parts \cup {part}
          /\ further.attempt = reader.attempt
      BY <1>1, <1>2, <2>1, <2>2, <2>6 DEF Readers
    <3>2. reader' = further
      BY <2>4, <2>6
    <3> HIDE DEF further
    <3>3. Follows(further, head)
      BY <1>2, <2>1, <3>1 DEF Follows
    <3>4. ASSUME further.beside <= 1  PROVE Undisturbed(further, head, chunk, writer)
      BY <1>2, <2>3, <2>6, <3>1, <3>4 DEF Undisturbed
    <3>5. Reads(further, head, chunk, writer)
      BY <3>1, <3>3, <3>4 DEF Reads
    <3> QED  BY <1>1, <3>1, <3>2, <3>5, LoadMoves
  <2> QED  BY <2>5, <2>6
<1> QED  BY <1>5, <1>6

\* The chunks of a head that was replaced are gone: the next attempt is the last
\* one it needs.
LEMMA PartsReadAgain ==
  ASSUME KeyInv, ReadInv, Attempts > 1, ReadAgain
  PROVE  ReadInv'
<1> DEFINE done == [reader EXCEPT !.pc = "done", !.result = Nothing]
           anew == [reader EXCEPT !.pc = "parts", !.head = head, !.parts = {head.session},
                      !.at = 1, !.attempt = @ + 1]
<1>1. reader.pc = "again" /\ UNCHANGED <<head, chunk, writer, calls>>
  BY DEF ReadAgain
<1>2. /\ reader \in Readers /\ Follows(reader, head)
      /\ (reader.beside <= 1 => Undisturbed(reader, head, chunk, writer))
  BY <1>1 DEF ReadInv, Reads
<1>3. head \in Heads /\ Attempts \in Nat /\ reader.attempt \in 1..Attempts
  BY <1>2, ReaderFields DEF KeyInv, EntriesOK
<1>4. ASSUME reader.beside <= 1
      PROVE  head # reader.head /\ reader.attempt = 1 /\ ~Switching(writer) /\ reader.beside # 0
  BY <1>1, <1>2, <1>4 DEF Undisturbed
<1>5. CASE head \in {reader.head, NoHead} \/ reader.attempt = Attempts
  <2>1. reader' = done
    BY <1>5 DEF ReadAgain, Loaded
  <2>2. /\ done \in Readers /\ done.pc = "done" /\ done.beside = reader.beside
        /\ done.seen = reader.seen /\ done.result = Nothing
    BY <1>2 DEF Readers
  <2> HIDE DEF done
  <2>3. ASSUME done.beside <= 1  PROVE Nothing \in reader.seen
    <3>1. head = NoHead
      BY <1>3, <1>4, <1>5, <2>2, <2>3
    <3> QED  BY <1>2, <3>1 DEF Follows, NoHead
  <2>4. Reads(done, head, chunk, writer)
    BY <2>2, <2>3 DEF Reads
  <2> QED  BY <1>1, <2>1, <2>2, <2>4, LoadMoves
<1>6. CASE ~(head \in {reader.head, NoHead} \/ reader.attempt = Attempts)
  <2>1. reader' = anew
    BY <1>6 DEF ReadAgain
  <2>2. /\ head.session \in Sessions /\ 1 \in 1..MaxParts /\ 1 <= PartsOf(head)
        /\ reader.attempt + 1 \in 1..Attempts
    BY <1>3, <1>6, HeadFacts, PartsAssumption
  <2>3. /\ anew \in Readers /\ anew.pc = "parts" /\ anew.beside = reader.beside
        /\ anew.seen = reader.seen /\ anew.head = head /\ anew.at = 1
        /\ anew.parts = {head.session} /\ anew.attempt = reader.attempt + 1
    BY <1>2, <1>3, <2>2 DEF Readers
  <2> HIDE DEF anew
  <2>4. Follows(anew, head)
    BY <1>2, <1>6, <2>2, <2>3 DEF Follows
  <2>5. ASSUME anew.beside <= 1  PROVE Undisturbed(anew, head, chunk, writer)
    BY <1>4, <2>3, <2>5 DEF Undisturbed
  <2>6. Reads(anew, head, chunk, writer)
    BY <2>3, <2>4, <2>5 DEF Reads
  <2> QED  BY <1>1, <2>1, <2>3, <2>6, LoadMoves
<1> QED  BY <1>5, <1>6

LEMMA IdleReads == IdleReader \in Readers /\ \A h, c, w : Reads(IdleReader, h, c, w)
BY PartsAssumption, BoundAssumption DEF IdleReader, Readers, Heads, Reads

LEMMA ReadStep ==
  ASSUME KeyInv, ReadInv, Attempts > 1, [KeyNext]_keyVars
  PROVE  ReadInv'
<1>1. CASE UNCHANGED keyVars
  BY <1>1 DEF keyVars, ReadInv
<1>2. CASE StopLauncher
  <2>1. reader' = IdleReader /\ calls' = calls /\ IdleReader.beside = 0
    BY <1>2 DEF StopLauncher, IdleReader
  <2>2. calls \in 0..MaxCalls /\ 0 <= calls + 1
    BY BoundAssumption DEF ReadInv
  <2>3. Reads(IdleReader, head', chunk', writer')
    BY IdleReads
  <2> QED  BY <2>1, <2>2, <2>3, IdleReads DEF ReadInv
<1>3. CASE Saves \/ Deletes \/ RemoveChunk
  BY <1>3, WriterSteps, CallBegins, SwitchKeeps DEF Saves, Deletes
<1>4. CASE Loads
  BY <1>4, LoadBegins, PartReads, PartsReadAgain DEF Loads
<1> QED  BY <1>1, <1>2, <1>3, <1>4 DEF KeyNext

(* A load reads what was stored: beside one save or delete at most, it     *)
(* returns a session that was the stored one while it read, or nothing     *)
(* when nothing was (load), if it may read again at least once             *)
(* (READ_ATTEMPTS is 3).  The call changes the head once and before it     *)
(* removes the replaced chunks, which ReadInv says step by step.           *)
THEOREM LoadsTruly ==
  ASSUME "read" \notin Failing, Attempts > 1
  PROVE  KeySpec => []ReadsTruly
<1>1. KeyInit => ReadInv
  <2>1. KeyInit => reader = IdleReader /\ calls = 0 /\ IdleReader.beside = 0
    BY DEF KeyInit, IdleReader
  <2>2. 0 \in 0..MaxCalls /\ 0 <= 0 + 1
    BY BoundAssumption
  <2> QED  BY <2>1, <2>2, IdleReads DEF ReadInv
<1>2. KeyInv /\ ReadInv /\ [KeyNext]_keyVars => ReadInv'
  BY ReadStep
<1>3. KeyInv /\ ReadInv => ReadsTruly
  <2> SUFFICES ASSUME KeyInv, ReadInv  PROVE ReadsTruly
    OBVIOUS
  <2>1. reader \in Readers /\ reader.beside <= calls + 1 /\ calls \in 0..MaxCalls
        /\ (reader.pc = "done" /\ reader.beside <= 1 => reader.result \in reader.seen)
    BY DEF ReadInv, Reads
  <2>2. reader.beside \in 0..(MaxCalls + 1)
    BY <2>1, ReaderFields
  <2>3. reader \in [pc : {"idle", "parts", "again", "done"}, head : Heads, at : 1..MaxParts,
                    parts : SUBSET Sessions, attempt : 1..Attempts,
                    result : Sessions \cup {Nothing, Damaged},
                    seen : SUBSET (Sessions \cup {Nothing}), beside : 0..(MaxCalls + 1)]
    BY <2>1, <2>2 DEF Readers
  <2>4. KeyTypeOK
    BY <2>3 DEF KeyInv, EntriesOK, KeyTypeOK, Chunked, Writers, Lasts, Pcs
  <2> QED  BY <2>1, <2>4 DEF ReadsTruly
<1> QED  BY <1>1, <1>2, <1>3, KeyAlways, PTL DEF KeySpec
-----------------------------------------------------------------------------
(***************************************************************************)
(* The accounts.                                                           *)
(***************************************************************************)

MemberPcs == {"idle", "save", "put", "drop", "wait", "delete", "take", "flag"}
Members ==
    [op : {"none", "signin", "remove", "undo"}, pc : MemberPcs, id : Ids \cup {NoId},
     lock : Nat, kept : {"none", "session"}, created : BOOLEAN]
RefPcs == {"idle", "found", "wait", "ask", "save", "note"}
Refs == [pc : RefPcs, id : Ids \cup {NoId}, lock : Nat, expired : BOOLEAN]
Mishaps == {"keychain", "list", "active", "astray", "overlap", "stop"}
CountKinds == {"op", "refresh", "fault", "stop"}

Counters == count \in [CountKinds -> Nat] /\ \A k \in CountKinds : count[k] \in 0..Limit[k]

LEMMA KindsFit == DOMAIN Limit = CountKinds /\ \A k \in CountKinds : Limit[k] \in Nat
BY LimitAssumption DEF CountKinds

LEMMA CountsFit ==
  ASSUME Counters, NEW kind \in CountKinds, Counts(kind)
  PROVE  Counters'
<1>1. /\ count' = [count EXCEPT ![kind] = count[kind] + 1] /\ count[kind] < Limit[kind]
      /\ count \in [CountKinds -> Nat] /\ Limit[kind] \in Nat
  BY KindsFit DEF Counts, Counters
<1>2. ASSUME NEW k \in CountKinds  PROVE count'[k] \in 0..Limit[k]
  BY <1>1, KindsFit DEF Counters
<1>3. count' \in [CountKinds -> Nat]
  BY <1>1
<1> QED  BY <1>2, <1>3 DEF Counters

-----------------------------------------------------------------------------
(* Who may be where: what the sign-in, removal or undo under way relies    *)
(* on, and what the list and the accounts kept for undo have in common.    *)
MemberFits ==
    LET t == member
    IN  /\ t.pc = "idle" => t.op = "none" /\ t.id = NoId
        /\ t.pc # "idle" => t.id \in used
        /\ t.pc \in {"wait", "delete", "take"} => t.op = "remove"
        /\ t.pc \in {"put", "drop"} => t.op = "signin"
        /\ t.pc = "flag" => t.op = "undo"
        /\ t.op = "signin" => listed \subseteq {t.id} /\ removed[t.id] = "gone"
        /\ t.op = "signin" /\ t.created /\ t.pc \in {"save", "put"} => t.id \notin listed
        /\ t.op = "signin" /\ ~t.created => t.id \in listed
        /\ t.op = "remove" => t.lock = lock[t.id] /\ t.id \in listed
        /\ t.op = "undo" => t.id \in listed
        /\ t.pc # "idle" => t.op # "none"

ListFits ==
    /\ listed \subseteq used
    /\ \A i, j \in listed : i = j
    /\ \A i \in Ids : removed[i] # "gone" => i \in used /\ i \notin listed

RefFits == \A r \in Refreshers : /\ ref[r].pc = "idle" => ref[r].id = NoId
                                 /\ ref[r].pc # "idle" => ref[r].id \in used

\* An account that is being added is nobody's yet.
NewcomerFits ==
    member.op = "signin" /\ member.id \notin listed =>
        /\ \A r \in Refreshers : ref[r].id # member.id
        /\ member.id \notin clash

ClashFits == \A i \in Ids : Changing(i) = {} => i \notin clash

Asking(r) == ref[r].pc \in {"ask", "save"}

(* Who asks or saves holds the lock of its account.                        *)
LockFits ==
    "astray" \notin mishaps =>
        /\ \A r \in Refreshers : Asking(r) => ref[r].lock = lock[ref[r].id]
        /\ \A r, q \in Refreshers : r # q /\ Asking(r) /\ Asking(q) => ref[r].id # ref[q].id
        /\ member.pc \in {"delete", "take"} =>
            \A r \in Refreshers : Asking(r) => ref[r].id # member.id
        /\ member.pc = "delete" => member.id \notin clash

TypeFits ==
    /\ listed \subseteq Ids /\ flagged \subseteq Ids /\ clash \subseteq Ids /\ used \subseteq Ids
    /\ stored \in [Ids -> {"none", "session", "damaged"}]
    /\ removed \in [Ids -> {"gone", "none", "session"}]
    /\ lock \in [Ids -> Nat]
    /\ member \in Members
    /\ ref \in [Refreshers -> Refs]
    /\ mishaps \subseteq Mishaps
    /\ Counters

AccountInv ==
    TypeFits /\ MemberFits /\ ListFits /\ RefFits /\ NewcomerFits /\ ClashFits /\ LockFits

-----------------------------------------------------------------------------
LEMMA RefusedFits ==
  ASSUME TypeFits, NEW what \in Mishaps, Refused(what)
  PROVE  Counters' /\ mishaps' \subseteq Mishaps /\ mishaps' = mishaps \cup {what}
BY CountsFit DEF Refused, TypeFits, CountKinds

LEMMA WellFits ==
  ASSUME TypeFits, AllWell
  PROVE  Counters' /\ mishaps' \subseteq Mishaps /\ mishaps' = mishaps
BY DEF AllWell, TypeFits, Counters

LEMMA LandsFits ==
  ASSUME TypeFits, NEW i \in Ids, NEW what \in {"none", "session"}, Lands(i, what)
  PROVE  /\ stored' \in [Ids -> {"none", "session", "damaged"}]
         /\ \A j \in Ids \ {i} : stored'[j] = stored[j]
         /\ mishaps' \in {mishaps, mishaps \cup {"overlap"}}
         /\ stored'[i] = what \/ (i \in clash /\ "overlap" \in mishaps' /\ stored'[i] = "damaged")
         /\ mishaps' \subseteq Mishaps /\ Counters' /\ Ends(i)
<1>1. PICK now \in {what} \cup IF i \in clash THEN {"damaged"} ELSE {} :
        /\ stored' = [stored EXCEPT ![i] = now]
        /\ mishaps' = mishaps \cup IF now = "damaged" THEN {"overlap"} ELSE {}
  BY DEF Lands
<1>2. now = what \/ (now = "damaged" /\ i \in clash)
  OBVIOUS
<1>3. Ends(i) /\ Counters'
  BY DEF Lands, TypeFits, Counters
<1> QED  BY <1>1, <1>2, <1>3 DEF TypeFits, Mishaps

LEMMA NotDeletedFits ==
  ASSUME TypeFits, NEW i \in Ids, NotDeleted(i)
  PROVE  stored' \in [Ids -> {"none", "session", "damaged"}] /\ Ends(i)
BY DEF NotDeleted, TypeFits

\* What Begins and Ends do to the clashes.
LEMMA BeginsFits ==
  ASSUME TypeFits, ClashFits, NEW i \in Ids, Begins(i)
  PROVE  /\ clash' \subseteq Ids /\ \A j \in Ids \ {i} : j \in clash' <=> j \in clash
         /\ Changing(i) = {} => i \notin clash'
BY DEF Begins, TypeFits, ClashFits

LEMMA EndsFits ==
  ASSUME TypeFits, NEW i \in Ids, Ends(i), NEW x, x \in Changing(i)
  PROVE  /\ clash' \subseteq clash
         /\ \A j \in Ids \ {i} : j \in clash' <=> j \in clash
         /\ Changing(i) \ {x} = {} => i \notin clash'
<1>1. Changing(i) \ {x} = {} => Cardinality(Changing(i)) = 1
  BY FS_Singleton
<1> QED  BY <1>1 DEF Ends

LEMMA MemberGoes ==
  ASSUME TypeFits, NEW pc \in MemberPcs, To(pc)
  PROVE  /\ member' \in Members /\ member'.pc = pc
         /\ member'.op = member.op /\ member'.id = member.id /\ member'.lock = member.lock
         /\ member'.kept = member.kept /\ member'.created = member.created
BY DEF To, TypeFits, Members

LEMMA MemberDone ==
  ASSUME Done
  PROVE  /\ member' \in Members /\ member'.pc = "idle" /\ member'.op = "none" /\ member'.id = NoId
         /\ member'.created = FALSE
BY DEF Done, IdleMember, Members, MemberPcs

-----------------------------------------------------------------------------
\* The clashes when no call begins or ends a change, when one begins, when one ends.
LEMMA ClashStays ==
  ASSUME ClashFits, clash' \subseteq clash, \A i \in Ids : Changing(i)' = Changing(i)
  PROVE  ClashFits'
BY DEF ClashFits

LEMMA ClashBegins ==
  ASSUME TypeFits, ClashFits, NEW i \in Ids, Begins(i), Changing(i)' # {},
         \A j \in Ids \ {i} : Changing(j)' = Changing(j)
  PROVE  ClashFits'
BY BeginsFits DEF ClashFits

LEMMA ClashEnds ==
  ASSUME TypeFits, ClashFits, NEW i \in Ids, Ends(i), NEW x, x \in Changing(i),
         Changing(i)' = Changing(i) \ {x},
         \A j \in Ids \ {i} : Changing(j)' = Changing(j)
  PROVE  ClashFits'
BY EndsFits DEF ClashFits

\* A refresh moves.
RefMoves(r) ==
    /\ UNCHANGED <<listed, memory, member, used>>
    /\ \A q \in Refreshers \ {r} : ref'[q] = ref[q]
    /\ ref'[r] \in Refs

LEMMA RefTypes ==
  ASSUME TypeFits, NEW r \in Refreshers, NEW x \in Refs, ref' = [ref EXCEPT ![r] = x]
  PROVE  /\ ref' \in [Refreshers -> Refs] /\ ref'[r] = x
         /\ \A q \in Refreshers \ {r} : ref'[q] = ref[q]
BY DEF TypeFits

LEMMA IdleRefFits == IdleRef \in Refs /\ IdleRef.pc = "idle" /\ IdleRef.id = NoId
BY DEF IdleRef, Refs, RefPcs

LEMMA RefGivesUp ==
  ASSUME TypeFits, NEW r \in Refreshers, GivesUp(r)
  PROVE  /\ ref' \in [Refreshers -> Refs] /\ ref'[r].pc = "idle" /\ ref'[r].id = NoId
         /\ \A q \in Refreshers \ {r} : ref'[q] = ref[q]
BY RefTypes, IdleRefFits DEF GivesUp

LEMMA RefBecomes ==
  ASSUME TypeFits, NEW r \in Refreshers, NEW pc \in RefPcs, Becomes(r, pc)
  PROVE  /\ ref' \in [Refreshers -> Refs] /\ ref'[r].pc = pc /\ ref'[r].id = ref[r].id
         /\ ref'[r].lock = ref[r].lock
         /\ \A q \in Refreshers \ {r} : ref'[q] = ref[q]
BY DEF TypeFits, Becomes, Refs

LEMMA RefNotes ==
  ASSUME TypeFits, NEW r \in Refreshers, NEW expired \in BOOLEAN, Noting(r, expired)
  PROVE  /\ ref' \in [Refreshers -> Refs] /\ ref'[r].pc = "note" /\ ref'[r].id = ref[r].id
         /\ ref'[r].lock = ref[r].lock
         /\ \A q \in Refreshers \ {r} : ref'[q] = ref[q]
BY DEF TypeFits, Noting, Refs, RefPcs

LEMMA ChangingByRef ==
  ASSUME NEW r \in Refreshers, RefMoves(r), NEW i \in Ids
  PROVE  /\ (ref[r].pc = "save" /\ ref[r].id = i <=> ref'[r].pc = "save" /\ ref'[r].id = i)
              => Changing(i)' = Changing(i)
         /\ (ref[r].pc = "save" /\ ref[r].id = i) /\ ~(ref'[r].pc = "save" /\ ref'[r].id = i)
              => Changing(i)' = Changing(i) \ {r} /\ r \in Changing(i)
         /\ ref'[r].pc = "save" /\ ref'[r].id = i => Changing(i)' # {}
<1>1. member' = member
  BY DEF RefMoves
<1>2. r # "member"
  BY RefreshersAssumption
<1> QED  BY <1>1, <1>2 DEF Changing, RefMoves

LEMMA RefKeeps ==
  ASSUME AccountInv, NEW r \in Refreshers, RefMoves(r), TypeFits', ClashFits',
         \/ ref'[r].pc = "idle" /\ ref'[r].id = NoId
         \/ ref'[r].pc # "idle" /\ ref'[r].id = ref[r].id /\ ref[r].pc # "idle"
         \/ ref'[r].pc # "idle" /\ ref'[r].id \in listed,
         \A i \in Ids : i \in clash' => i \in clash \/ i = ref[r].id,
         mishaps \subseteq mishaps',
         ref'[r].pc \in {"ask", "save"} /\ "astray" \notin mishaps' =>
            \/ Asking(r) /\ ref'[r].id = ref[r].id /\ ref'[r].lock = ref[r].lock
            \/ /\ ref'[r].lock = lock[ref'[r].id] /\ clash' = clash
               /\ \A q \in Refreshers \ {r} : Asking(q) => ref[q].id # ref'[r].id
               /\ member.pc \in {"delete", "take"} => member.id # ref'[r].id,
         clash' \subseteq clash \/ Asking(r)
  PROVE  AccountInv'
<1>1. UNCHANGED <<listed, removed, lock, member, used>>
  BY DEF RefMoves, memory
<1>2. MemberFits' /\ ListFits'
  BY <1>1 DEF AccountInv, MemberFits, ListFits
<1>3. RefFits'
  BY <1>1 DEF AccountInv, RefFits, ListFits, RefMoves
<1>4. NewcomerFits'
  <2>1. SUFFICES ASSUME member.op = "signin", member.id \notin listed
                 PROVE  /\ \A q \in Refreshers : ref'[q].id # member.id
                        /\ member.id \notin clash'
    BY <1>1 DEF NewcomerFits
  <2>2. /\ \A q \in Refreshers : ref[q].id # member.id
        /\ member.id \notin clash /\ member.id # NoId /\ member.id \in Ids
    BY <2>1, NoIdAssumption DEF AccountInv, NewcomerFits, MemberFits, TypeFits
  <2>3. ref'[r].id # member.id
    BY <2>1, <2>2
  <2> QED  BY <2>2, <2>3 DEF RefMoves
<1>5. LockFits'
  <2>1. SUFFICES ASSUME "astray" \notin mishaps'
                 PROVE  /\ \A q \in Refreshers : Asking(q)' => ref'[q].lock = lock[ref'[q].id]
                        /\ \A p, q \in Refreshers :
                            p # q /\ Asking(p)' /\ Asking(q)' => ref'[p].id # ref'[q].id
                        /\ member.pc \in {"delete", "take"} =>
                            \A q \in Refreshers : Asking(q)' => ref'[q].id # member.id
                        /\ member.pc = "delete" => member.id \notin clash'
    BY <1>1 DEF LockFits
  <2>2. /\ \A q \in Refreshers : Asking(q) => ref[q].lock = lock[ref[q].id]
        /\ \A p, q \in Refreshers : p # q /\ Asking(p) /\ Asking(q) => ref[p].id # ref[q].id
        /\ member.pc \in {"delete", "take"} =>
            \A q \in Refreshers : Asking(q) => ref[q].id # member.id
        /\ member.pc = "delete" => member.id \notin clash
    BY <2>1 DEF AccountInv, LockFits
  <2>3. \A q \in Refreshers \ {r} : ref'[q] = ref[q] /\ (Asking(q)' <=> Asking(q))
    BY DEF RefMoves, Asking
  <2>4. Asking(r)' <=> ref'[r].pc \in {"ask", "save"}
    BY DEF Asking
  <2>5. CASE ~Asking(r)'
    <3>1. member.pc = "delete" => member.id \notin clash'
      <4>1. member.pc = "delete" => member.id \in Ids
        BY DEF AccountInv, MemberFits, TypeFits
      <4> QED  BY <2>2, <4>1
    <3> QED  BY <2>2, <2>3, <2>5, <3>1
  <2>6. CASE Asking(r)'
    <3>1. \/ Asking(r) /\ ref'[r].id = ref[r].id /\ ref'[r].lock = ref[r].lock
          \/ /\ ref'[r].lock = lock[ref'[r].id] /\ clash' = clash
             /\ \A q \in Refreshers \ {r} : Asking(q) => ref[q].id # ref'[r].id
             /\ member.pc \in {"delete", "take"} => member.id # ref'[r].id
      BY <2>1, <2>4, <2>6
    <3>2. member.pc = "delete" => member.id \notin clash'
      <4>1. member.pc = "delete" => member.id \in Ids
        BY DEF AccountInv, MemberFits, TypeFits
      <4> QED  BY <2>2, <3>1, <4>1
    <3> QED  BY <2>2, <2>3, <2>4, <3>1, <3>2
  <2> QED  BY <2>5, <2>6
<1> QED  BY <1>2, <1>3, <1>4, <1>5 DEF AccountInv

LEMMA RefStands ==
  ASSUME AccountInv, NEW r \in Refreshers, ref' \in [Refreshers -> Refs], RefMoves(r),
         UNCHANGED entries, flagged' \subseteq Ids, mishaps' \subseteq Mishaps, Counters',
         ref[r].pc # "save", ref'[r].pc # "save"
  PROVE  TypeFits' /\ ClashFits'
<1>1. TypeFits'
  BY DEF RefMoves, AccountInv, TypeFits, entries, memory
<1>2. \A i \in Ids : Changing(i)' = Changing(i)
  BY ChangingByRef
<1> QED  BY <1>1, <1>2, ClashStays DEF AccountInv, entries

LEMMA BeginRefreshKeeps ==
  ASSUME AccountInv, NEW r \in Refreshers, NEW i \in Ids, BeginRefresh(r, i)
  PROVE  AccountInv'
<1> DEFINE x == [IdleRef EXCEPT !.pc = "found", !.id = i]
<1>1. x \in Refs /\ x.pc = "found" /\ x.id = i
  BY DEF IdleRef, Refs, RefPcs
<1>2. ref' = [ref EXCEPT ![r] = x]
  BY DEF BeginRefresh
<1> HIDE DEF x
<1>3. /\ ref' \in [Refreshers -> Refs] /\ ref'[r].pc = "found" /\ ref'[r].id = i
      /\ \A q \in Refreshers \ {r} : ref'[q] = ref[q]
  BY <1>1, <1>2, RefTypes DEF AccountInv
<1>4. RefMoves(r) /\ UNCHANGED <<entries, flagged, mishaps>> /\ ref[r].pc = "idle" /\ i \in listed
  BY <1>3 DEF RefMoves, BeginRefresh
<1>5. Counters'
  BY CountsFit DEF BeginRefresh, AccountInv, TypeFits, CountKinds
<1>6. TypeFits' /\ ClashFits'
  BY <1>3, <1>4, <1>5, RefStands DEF AccountInv, TypeFits
<1> QED  BY <1>3, <1>4, <1>6, RefKeeps DEF entries

LEMMA FindLockKeeps ==
  ASSUME AccountInv, NEW r \in Refreshers, FindLock(r)
  PROVE  AccountInv'
<1>1. lock[ref[r].id] \in Nat /\ ref[r] \in Refs
  BY DEF FindLock, AccountInv, TypeFits, RefFits
<1>2. PICK x : x = [ref[r] EXCEPT !.pc = "wait", !.lock = lock[ref[r].id]]
  OBVIOUS
<1>3. x \in Refs /\ x.pc = "wait" /\ x.id = ref[r].id
  BY <1>1, <1>2 DEF Refs, RefPcs
<1>4. ref' = [ref EXCEPT ![r] = x]
  BY <1>2 DEF FindLock
<1>5. /\ ref' \in [Refreshers -> Refs] /\ ref'[r] = x
      /\ \A q \in Refreshers \ {r} : ref'[q] = ref[q]
  BY <1>3, <1>4, RefTypes DEF AccountInv
<1>6. RefMoves(r) /\ UNCHANGED <<entries, flagged, mishaps, count>> /\ ref[r].pc = "found"
  BY <1>5 DEF RefMoves, FindLock
<1>7. TypeFits' /\ ClashFits'
  BY <1>3, <1>5, <1>6, RefStands DEF AccountInv, TypeFits, Counters
<1> QED  BY <1>3, <1>5, <1>6, <1>7, RefKeeps DEF entries

LEMMA CancelKeeps ==
  ASSUME AccountInv, NEW r \in Refreshers, Cancel(r)
  PROVE  AccountInv'
<1>1. /\ ref' \in [Refreshers -> Refs] /\ ref'[r].pc = "idle" /\ ref'[r].id = NoId
      /\ \A q \in Refreshers \ {r} : ref'[q] = ref[q]
  BY RefGivesUp DEF Cancel, AccountInv
<1>2. RefMoves(r) /\ UNCHANGED <<entries, flagged, mishaps, count>> /\ ref[r].pc = "wait"
  BY <1>1 DEF RefMoves, Cancel
<1>3. TypeFits' /\ ClashFits'
  BY <1>1, <1>2, RefStands DEF AccountInv, TypeFits, Counters
<1> QED  BY <1>1, <1>2, <1>3, RefKeeps DEF entries

LEMMA LoadKeeps ==
  ASSUME AccountInv, NEW r \in Refreshers, Load(r)
  PROVE  AccountInv'
<1>1. /\ ref[r].pc = "wait" /\ ~LockHeld(ref[r].id, ref[r].lock)
      /\ UNCHANGED <<listed, flagged, entries, memory, member, used>>
  BY DEF Load
<1>2. /\ ref' \in [Refreshers -> Refs] /\ \A q \in Refreshers \ {r} : ref'[q] = ref[q]
      /\ \/ ref'[r].pc = "idle" /\ ref'[r].id = NoId
         \/ /\ ref'[r].pc \in {"ask", "note"} /\ ref'[r].id = ref[r].id
            /\ ref'[r].lock = ref[r].lock
  <2>1. Noting(r, TRUE) \/ Noting(r, FALSE) \/ Becomes(r, "ask") \/ GivesUp(r)
    BY DEF Load
  <2> QED  BY <2>1, RefNotes, RefGivesUp, RefBecomes DEF RefPcs, AccountInv
<1>3. /\ mishaps \subseteq mishaps' /\ mishaps' \subseteq Mishaps /\ Counters'
      /\ "astray" \notin mishaps' => ref[r].lock = lock[ref[r].id]
  <2>1. \/ UNCHANGED count
        \/ Counts("fault")
    BY DEF Load
  <2>2. Counters'
    BY <2>1, CountsFit DEF AccountInv, TypeFits, CountKinds, Counters
  <2> QED  BY <2>2 DEF Load, AccountInv, TypeFits, Mishaps
<1>4. RefMoves(r)
  BY <1>1, <1>2 DEF RefMoves
<1>5. TypeFits' /\ ClashFits'
  BY <1>1, <1>2, <1>3, <1>4, RefStands DEF AccountInv, TypeFits
<1>6. ASSUME "astray" \notin mishaps'
      PROVE  /\ \A q \in Refreshers \ {r} : Asking(q) => ref[q].id # ref[r].id
             /\ member.pc \in {"delete", "take"} => member.id # ref[r].id
  <2>1. /\ \A q \in Refreshers : Asking(q) => ref[q].lock = lock[ref[q].id]
        /\ ref[r].lock = lock[ref[r].id]
    BY <1>3, <1>6 DEF AccountInv, LockFits
  <2>2. \A q \in Refreshers : Asking(q) /\ ref[q].id = ref[r].id => ref[q].lock # ref[r].lock
    BY <1>1 DEF LockHeld, Asking
  <2>3. member.pc \in {"delete", "take"} =>
          member.op = "remove" /\ member.lock = lock[member.id]
    BY DEF AccountInv, MemberFits
  <2>4. member.pc \in {"delete", "take"} =>
          ~(member.op = "remove" /\ member.id = ref[r].id /\ member.lock = ref[r].lock)
    BY <1>1 DEF LockHeld
  <2> QED  BY <2>1, <2>2, <2>3, <2>4
<1> QED  BY <1>1, <1>2, <1>3, <1>4, <1>5, <1>6, RefKeeps DEF entries

LEMMA AnswerKeeps ==
  ASSUME AccountInv, NEW r \in Refreshers, Answer(r)
  PROVE  AccountInv'
<1>1. /\ ref[r].pc = "ask" /\ Asking(r)
      /\ UNCHANGED <<listed, flagged, stored, lost, memory, member, used, mishaps, count>>
  BY DEF Answer, Asking
<1>2. ref[r].id \in Ids
  BY <1>1 DEF AccountInv, RefFits, TypeFits
<1>3. CASE Becomes(r, "save") /\ Begins(ref[r].id)
  <2>1. /\ ref' \in [Refreshers -> Refs] /\ \A q \in Refreshers \ {r} : ref'[q] = ref[q]
        /\ ref'[r].pc = "save" /\ ref'[r].id = ref[r].id /\ ref'[r].lock = ref[r].lock
    BY <1>3, RefBecomes DEF AccountInv, RefPcs
  <2>2. RefMoves(r)
    BY <1>1, <2>1 DEF RefMoves
  <2>3. /\ clash' \subseteq Ids
        /\ \A j \in Ids \ {ref[r].id} : j \in clash' <=> j \in clash
    BY <1>2, <1>3, BeginsFits DEF AccountInv
  <2>4. TypeFits'
    BY <1>1, <2>1, <2>3 DEF AccountInv, TypeFits, memory, Counters
  <2>5. PICK i \in Ids : i = ref[r].id
    BY <1>2
  <2>6. /\ Changing(i)' # {} /\ \A j \in Ids \ {i} : Changing(j)' = Changing(j)
        /\ Begins(i) /\ TypeFits /\ ClashFits
    BY <1>3, <2>1, <2>2, <2>5, ChangingByRef DEF AccountInv
  <2>7. ClashFits'
    BY <2>6, ClashBegins
  <2> QED  BY <1>1, <2>1, <2>2, <2>3, <2>4, <2>7, RefKeeps
<1>4. CASE (Noting(r, TRUE) \/ GivesUp(r)) /\ UNCHANGED clash
  <2>1. /\ ref' \in [Refreshers -> Refs] /\ \A q \in Refreshers \ {r} : ref'[q] = ref[q]
        /\ \/ ref'[r].pc = "idle" /\ ref'[r].id = NoId
           \/ ref'[r].pc = "note" /\ ref'[r].id = ref[r].id
    BY <1>4, RefNotes, RefGivesUp DEF AccountInv
  <2>2. RefMoves(r)
    BY <1>1, <2>1 DEF RefMoves
  <2>3. TypeFits' /\ ClashFits'
    BY <1>1, <1>4, <2>1, <2>2, RefStands DEF AccountInv, TypeFits, Counters, entries
  <2> QED  BY <1>1, <1>4, <2>1, <2>2, <2>3, RefKeeps
<1> QED  BY <1>3, <1>4 DEF Answer

LEMMA SaveFreshKeeps ==
  ASSUME AccountInv, NEW r \in Refreshers, SaveFresh(r)
  PROVE  AccountInv'
<1>1. /\ ref[r].pc = "save" /\ Noting(r, FALSE)
      /\ UNCHANGED <<listed, flagged, memory, member, used>>
  BY DEF SaveFresh
<1>2. ref[r].id \in Ids /\ r \in Changing(ref[r].id)
  BY <1>1 DEF AccountInv, RefFits, TypeFits, Changing
<1>3. /\ stored' \in [Ids -> {"none", "session", "damaged"}] /\ Ends(ref[r].id)
      /\ mishaps \subseteq mishaps' /\ mishaps' \subseteq Mishaps /\ Counters'
  <2>1. CASE Lands(ref[r].id, "session")
    BY <1>2, <2>1, LandsFits DEF AccountInv
  <2>2. CASE NotSaved(ref[r].id) /\ Refused("keychain")
    BY <2>2, RefusedFits DEF AccountInv, NotSaved, TypeFits, Mishaps
  <2> QED  BY <2>1, <2>2 DEF SaveFresh
<1>4. /\ ref' \in [Refreshers -> Refs] /\ \A q \in Refreshers \ {r} : ref'[q] = ref[q]
      /\ ref'[r].pc = "note" /\ ref'[r].id = ref[r].id
  BY <1>1, RefNotes DEF AccountInv
<1>5. RefMoves(r)
  BY <1>1, <1>4 DEF RefMoves
<1>6. clash' \subseteq clash
  BY <1>2, <1>3, EndsFits DEF AccountInv
<1>7. TypeFits'
  BY <1>1, <1>3, <1>4, <1>6 DEF AccountInv, TypeFits, memory
<1>8. PICK i \in Ids : i = ref[r].id
  BY <1>2
<1>9. /\ Changing(i)' = Changing(i) \ {r} /\ r \in Changing(i)
      /\ \A j \in Ids \ {i} : Changing(j)' = Changing(j)
      /\ Ends(i) /\ TypeFits /\ ClashFits
  BY <1>1, <1>3, <1>4, <1>5, <1>8, ChangingByRef DEF AccountInv
<1>10. ClashFits'
  BY <1>9, ClashEnds
<1> QED  BY <1>1, <1>3, <1>4, <1>5, <1>6, <1>7, <1>10, RefKeeps

LEMMA NoteKeeps ==
  ASSUME AccountInv, NEW r \in Refreshers, Note(r)
  PROVE  AccountInv'
<1>1. ref[r].pc = "note" /\ GivesUp(r) /\ UNCHANGED <<listed, entries, memory, member, used>>
  BY DEF Note
<1>2. /\ ref' \in [Refreshers -> Refs] /\ \A q \in Refreshers \ {r} : ref'[q] = ref[q]
      /\ ref'[r].pc = "idle" /\ ref'[r].id = NoId
  BY <1>1, RefGivesUp DEF AccountInv
<1>3. RefMoves(r)
  BY <1>1, <1>2 DEF RefMoves
<1>4. flagged' \subseteq Ids
  BY DEF Note, AccountInv, TypeFits
<1>5. mishaps \subseteq mishaps' /\ mishaps' \subseteq Mishaps /\ Counters'
  <2>1. AllWell \/ Refused("list")
    BY DEF Note
  <2> QED  BY <2>1, WellFits, RefusedFits DEF AccountInv, Mishaps
<1>6. TypeFits' /\ ClashFits'
  BY <1>1, <1>2, <1>3, <1>4, <1>5, RefStands
<1> QED  BY <1>1, <1>2, <1>3, <1>5, <1>6, RefKeeps DEF entries

-----------------------------------------------------------------------------
(* The sign-in, removal or undo under way moves.                           *)
Changes(i) == member.id = i /\ member.pc \in {"save", "drop", "delete"}

LEMMA ChangingByMember ==
  ASSUME UNCHANGED ref, NEW i \in Ids
  PROVE  /\ (Changes(i) <=> Changes(i)') => Changing(i)' = Changing(i)
         /\ Changes(i) /\ ~Changes(i)' =>
              Changing(i)' = Changing(i) \ {"member"} /\ "member" \in Changing(i)
         /\ Changes(i)' => Changing(i)' # {}
BY RefreshersAssumption DEF Changing, Changes

LEMMA MemberClashStays ==
  ASSUME ClashFits, UNCHANGED <<ref, clash>>, \A i \in Ids : Changes(i) <=> Changes(i)'
  PROVE  ClashFits'
BY ClashStays, ChangingByMember

LEMMA MemberClashBegins ==
  ASSUME TypeFits, ClashFits, UNCHANGED ref, NEW i \in Ids, Begins(i), Changes(i)',
         \A j \in Ids \ {i} : ~Changes(j)
  PROVE  ClashFits' /\ clash' \subseteq Ids /\ (Changing(i) = {} => i \notin clash')
<1>1. \A j \in Ids \ {i} : ~Changes(j)'
  BY DEF Changes
<1>2. Changing(i)' # {} /\ \A j \in Ids \ {i} : Changing(j)' = Changing(j)
  BY <1>1, ChangingByMember
<1> QED  BY <1>2, ClashBegins, BeginsFits

LEMMA MemberClashEnds ==
  ASSUME TypeFits, ClashFits, UNCHANGED ref, NEW i \in Ids, Ends(i), Changes(i),
         \A j \in Ids : ~Changes(j)'
  PROVE  ClashFits' /\ clash' \subseteq clash
<1>1. \A j \in Ids \ {i} : ~Changes(j)
  BY DEF Changes
<1>2. /\ Changing(i)' = Changing(i) \ {"member"} /\ "member" \in Changing(i)
      /\ \A j \in Ids \ {i} : Changing(j)' = Changing(j)
  BY <1>1, ChangingByMember
<1> QED  BY <1>2, ClashEnds, EndsFits

LEMMA IdleFits ==
  ASSUME Done
  PROVE  MemberFits' /\ NewcomerFits' /\ \A i \in Ids : ~Changes(i)'
BY MemberDone DEF MemberFits, NewcomerFits, Changes

\* Nobody deletes after the step, and the locks stay.
LEMMA LockStays ==
  ASSUME LockFits, RefFits, UNCHANGED <<ref, lock>>, mishaps \subseteq mishaps',
         used \subseteq used', member'.pc \notin {"delete", "take"}
  PROVE  LockFits' /\ RefFits'
BY DEF LockFits, RefFits, Asking

LEMMA BusyFits ==
  ASSUME AccountInv, member.pc # "idle"
  PROVE  member.id \in Ids /\ member.id \in used /\ member.op # "none"
BY DEF AccountInv, MemberFits, TypeFits

LEMMA BeginSignInKeeps ==
  ASSUME AccountInv, NEW i \in Ids, BeginSignIn(i)
  PROVE  AccountInv'
<1>1. /\ member.pc = "idle" /\ Counts("op")
      /\ i \in listed \/ (listed = {} /\ i \notin used)
      /\ used' = used \cup {i} /\ Begins(i)
      /\ UNCHANGED <<listed, flagged, stored, memory, ref, mishaps>>
  BY DEF BeginSignIn
<1>2. PICK u : u = member'
  OBVIOUS
<1>3. u \in Members /\ u.op = "signin" /\ u.pc = "save" /\ u.id = i /\ u.created = (i \notin listed)
  BY <1>2 DEF BeginSignIn, IdleMember, Members, MemberPcs
<1>4. Changes(i)' /\ \A j \in Ids : ~Changes(j)
  BY <1>1, <1>2, <1>3 DEF Changes
<1>5. ClashFits' /\ clash' \subseteq Ids /\ (Changing(i) = {} => i \notin clash')
  BY <1>1, <1>4, MemberClashBegins DEF AccountInv
<1>6. TypeFits'
  BY <1>1, <1>2, <1>3, <1>5, CountsFit DEF AccountInv, TypeFits, memory, CountKinds
<1>7. ListFits' /\ removed[i] = "gone" /\ listed \subseteq {i}
  BY <1>1 DEF AccountInv, ListFits, memory
<1>8. MemberFits'
  BY <1>1, <1>2, <1>3, <1>7 DEF MemberFits, memory
<1>9. NewcomerFits'
  <2>1. SUFFICES ASSUME i \notin used
                 PROVE  (\A r \in Refreshers : ref[r].id # i) /\ i \notin clash'
    BY <1>1, <1>2, <1>3 DEF NewcomerFits
  <2>2. \A r \in Refreshers : ref[r].id # i
    BY <2>1, NoIdAssumption DEF AccountInv, RefFits
  <2>3. Changing(i) = {}
    BY <1>1, <2>2 DEF Changing
  <2> QED  BY <1>5, <2>2, <2>3
<1>10. LockFits' /\ RefFits'
  BY <1>1, <1>2, <1>3, LockStays DEF AccountInv, memory
<1> QED  BY <1>5, <1>6, <1>7, <1>8, <1>9, <1>10 DEF AccountInv

LEMMA PutKeeps ==
  ASSUME AccountInv, Put
  PROVE  AccountInv'
<1>1. /\ member.pc = "put" /\ listed' = listed \cup {member.id} /\ flagged' \subseteq flagged
      /\ Done /\ AllWell /\ UNCHANGED <<entries, memory, ref, used>>
  BY DEF Put
<1>2. member.id \in Ids /\ member.id \in used /\ member.op = "signin"
  BY <1>1, BusyFits DEF AccountInv, MemberFits
<1>3. \A i \in Ids : ~Changes(i) /\ ~Changes(i)'
  BY <1>1, IdleFits DEF Changes
<1>4. ClashFits'
  BY <1>1, <1>3, MemberClashStays DEF AccountInv, entries
<1>5. TypeFits'
  BY <1>1, <1>2, MemberDone, WellFits DEF AccountInv, TypeFits, memory, entries
<1>6. ListFits'
  BY <1>1, <1>2 DEF AccountInv, MemberFits, ListFits, memory
<1>7. LockFits' /\ RefFits'
  BY <1>1, MemberDone, LockStays DEF AccountInv, memory, AllWell
<1> QED  BY <1>1, <1>4, <1>5, <1>6, <1>7, IdleFits DEF AccountInv

LEMMA PutRefusedKeeps ==
  ASSUME AccountInv, PutRefused
  PROVE  AccountInv'
<1>1. /\ member.pc = "put" /\ Undone /\ UNCHANGED <<stored, memory, ref, used>>
      /\ listed' = listed \/ listed' = listed \cup {member.id}
      /\ flagged' \subseteq flagged
  BY DEF PutRefused
<1>2. Counters' /\ mishaps \subseteq mishaps' /\ mishaps' \subseteq Mishaps
  BY RefusedFits DEF PutRefused, AccountInv, Mishaps
<1>3. PICK i \in Ids : i = member.id
  BY <1>1, BusyFits
<1>4. i \in used /\ member.op = "signin" /\ listed \subseteq {i} /\ removed[i] = "gone"
  BY <1>1, <1>3, BusyFits DEF AccountInv, MemberFits
<1>5. ListFits' /\ listed' \subseteq {i} /\ listed' \subseteq Ids
  BY <1>1, <1>3, <1>4 DEF AccountInv, ListFits, memory
<1>6. \A j \in Ids : ~Changes(j)
  BY <1>1 DEF Changes
<1>7. CASE member.created /\ To("drop") /\ Begins(member.id)
  <2>1. /\ member' \in Members /\ member'.pc = "drop" /\ member'.op = "signin"
        /\ member'.id = i /\ member'.created = member.created
    BY <1>3, <1>4, <1>7, MemberGoes DEF AccountInv, MemberPcs
  <2>2. Changes(i)'
    BY <2>1 DEF Changes
  <2>3. ClashFits' /\ clash' \subseteq Ids /\ (Changing(i) = {} => i \notin clash')
    BY <1>1, <1>3, <1>6, <1>7, <2>2, MemberClashBegins DEF AccountInv
  <2>4. TypeFits'
    BY <1>1, <1>2, <1>5, <2>1, <2>3 DEF AccountInv, TypeFits, memory
  <2>5. MemberFits'
    BY <1>1, <1>4, <1>5, <1>7, <2>1 DEF MemberFits, memory
  <2>6. NewcomerFits'
    <3>1. SUFFICES ASSUME i \notin listed'
                   PROVE  (\A r \in Refreshers : ref[r].id # i) /\ i \notin clash'
      BY <1>1, <2>1 DEF NewcomerFits
    <3>2. \A r \in Refreshers : ref[r].id # i
      BY <1>1, <1>3, <1>4, <3>1 DEF AccountInv, NewcomerFits
    <3>3. Changing(i) = {}
      BY <1>1, <3>2 DEF Changing
    <3> QED  BY <2>3, <3>2, <3>3
  <2>7. LockFits' /\ RefFits'
    BY <1>1, <1>2, <2>1, LockStays DEF AccountInv, memory
  <2> QED  BY <1>5, <2>3, <2>4, <2>5, <2>6, <2>7 DEF AccountInv
<1>8. CASE Done /\ UNCHANGED clash
  <2>1. ClashFits'
    BY <1>1, <1>6, <1>8, IdleFits, MemberClashStays DEF AccountInv
  <2>2. TypeFits'
    BY <1>1, <1>2, <1>5, <1>8, MemberDone DEF AccountInv, TypeFits, memory
  <2>3. LockFits' /\ RefFits'
    BY <1>1, <1>2, <1>8, MemberDone, LockStays DEF AccountInv, memory
  <2> QED  BY <1>5, <1>8, <2>1, <2>2, <2>3, IdleFits DEF AccountInv
<1> QED  BY <1>1, <1>7, <1>8 DEF Undone

\* The session changes, or the keychain refuses to: what both leave.
LEMMA SavesFit ==
  ASSUME TypeFits, NEW i \in Ids, NEW what \in {"none", "session"},
         \/ Lands(i, what)
         \/ (NotDeleted(i) \/ NotSaved(i)) /\ Refused("keychain")
  PROVE  /\ stored' \in [Ids -> {"none", "session", "damaged"}] /\ Ends(i)
         /\ Counters' /\ mishaps \subseteq mishaps' /\ mishaps' \subseteq Mishaps
<1>1. CASE Lands(i, what)
  BY <1>1, LandsFits
<1>2. CASE NotDeleted(i) /\ Refused("keychain")
  BY <1>2, NotDeletedFits, RefusedFits DEF Mishaps
<1>3. CASE NotSaved(i) /\ Refused("keychain")
  BY <1>3, RefusedFits DEF NotSaved, TypeFits, Mishaps
<1> QED  BY <1>1, <1>2, <1>3

LEMMA DropKeeps ==
  ASSUME AccountInv, Drop
  PROVE  AccountInv'
<1>1. member.pc = "drop" /\ Done /\ UNCHANGED <<listed, flagged, memory, ref, used>>
  BY DEF Drop
<1>2. PICK i \in Ids : i = member.id
  BY <1>1, BusyFits
<1>3. /\ stored' \in [Ids -> {"none", "session", "damaged"}] /\ Ends(i)
      /\ Counters' /\ mishaps \subseteq mishaps' /\ mishaps' \subseteq Mishaps
  BY <1>2, SavesFit DEF Drop, AccountInv
<1>4. Changes(i) /\ \A j \in Ids : ~Changes(j)'
  BY <1>1, <1>2, IdleFits DEF Changes
<1>5. ClashFits' /\ clash' \subseteq clash
  BY <1>1, <1>3, <1>4, MemberClashEnds DEF AccountInv
<1>6. TypeFits'
  BY <1>1, <1>3, <1>5, MemberDone DEF AccountInv, TypeFits, memory
<1>7. LockFits' /\ RefFits'
  BY <1>1, <1>3, MemberDone, LockStays DEF AccountInv, memory
<1>8. ListFits'
  BY <1>1 DEF AccountInv, ListFits, memory
<1> QED  BY <1>1, <1>5, <1>6, <1>7, <1>8, IdleFits DEF AccountInv

-----------------------------------------------------------------------------
LEMMA BeginRemoveKeeps ==
  ASSUME AccountInv, NEW i \in Ids, BeginRemove(i)
  PROVE  AccountInv'
<1>1. /\ member.pc = "idle" /\ i \in listed /\ Counts("op")
      /\ UNCHANGED <<listed, flagged, entries, memory, ref, used, mishaps>>
  BY DEF BeginRemove
<1>2. PICK u : u = member'
  OBVIOUS
<1>3. lock[i] \in Nat
  BY DEF AccountInv, TypeFits
<1>4. u \in Members /\ u.op = "remove" /\ u.pc = "wait" /\ u.id = i /\ u.lock = lock[i]
  BY <1>2, <1>3 DEF BeginRemove, IdleMember, Members, MemberPcs
<1>5. \A j \in Ids : ~Changes(j) /\ ~Changes(j)'
  BY <1>1, <1>2, <1>4 DEF Changes
<1>6. ClashFits'
  BY <1>1, <1>5, MemberClashStays DEF AccountInv, entries
<1>7. TypeFits'
  BY <1>1, <1>2, <1>4, CountsFit DEF AccountInv, TypeFits, memory, entries, CountKinds
<1>8. MemberFits' /\ ListFits' /\ NewcomerFits'
  BY <1>1, <1>2, <1>4 DEF AccountInv, MemberFits, ListFits, NewcomerFits, memory
<1>9. LockFits' /\ RefFits'
  BY <1>1, <1>2, <1>4, LockStays DEF AccountInv, memory
<1> QED  BY <1>6, <1>7, <1>8, <1>9 DEF AccountInv

LEMMA RemoveWaitsKeeps ==
  ASSUME AccountInv, RemoveWaits
  PROVE  AccountInv'
<1>1. /\ member.pc = "wait" /\ ~LockHeld(member.id, member.lock) /\ Begins(member.id)
      /\ UNCHANGED <<listed, flagged, stored, memory, ref, used>>
  BY DEF RemoveWaits
<1>2. PICK i \in Ids : i = member.id
  BY <1>1, BusyFits
<1>3. PICK t : t = member
  OBVIOUS
<1>4. PICK u : u = member'
  OBVIOUS
<1>5. t \in Members /\ Kept(stored[i]) \in {"none", "session"}
  BY <1>3 DEF AccountInv, TypeFits, Kept
<1>6. /\ u \in Members /\ u.pc = "delete" /\ u.op = t.op /\ u.id = t.id /\ u.lock = t.lock
      /\ Counters' /\ mishaps \subseteq mishaps' /\ mishaps' \subseteq Mishaps
  <2>1. CASE AllWell /\ u = [t EXCEPT !.pc = "delete", !.kept = Kept(stored[i])]
    BY <1>5, <2>1, WellFits DEF AccountInv, Members, MemberPcs
  <2>2. CASE Refused("keychain") /\ To("delete")
    BY <1>3, <1>4, <2>2, MemberGoes, RefusedFits DEF AccountInv, MemberPcs, Mishaps
  <2> QED  BY <1>2, <1>3, <1>4, <2>1, <2>2 DEF RemoveWaits
<1>7. Changes(i)' /\ \A j \in Ids : ~Changes(j)
  BY <1>1, <1>2, <1>3, <1>4, <1>6 DEF Changes
<1>8. ClashFits' /\ clash' \subseteq Ids /\ (Changing(i) = {} => i \notin clash')
  BY <1>1, <1>2, <1>7, MemberClashBegins DEF AccountInv
<1>9. TypeFits'
  BY <1>1, <1>4, <1>6, <1>8 DEF AccountInv, TypeFits, memory
<1>10. t.op = "remove" /\ t.lock = lock[t.id] /\ t.id \in listed /\ t.id \in used
  BY <1>1, <1>3 DEF AccountInv, MemberFits
<1>11. MemberFits' /\ ListFits' /\ NewcomerFits' /\ RefFits'
  BY <1>1, <1>4, <1>6, <1>10
     DEF AccountInv, MemberFits, ListFits, NewcomerFits, RefFits, memory
<1>12. LockFits'
  <2>1. SUFFICES ASSUME "astray" \notin mishaps
                 PROVE  /\ \A r \in Refreshers : Asking(r) => ref[r].id # i
                        /\ i \notin clash'
    BY <1>1, <1>2, <1>3, <1>4, <1>6 DEF AccountInv, LockFits, Asking, memory
  <2>2. \A r \in Refreshers : Asking(r) => ref[r].lock = lock[ref[r].id]
    BY <2>1 DEF AccountInv, LockFits
  <2>3. \A r \in Refreshers : Asking(r) => ref[r].id # i
    BY <1>1, <1>2, <1>3, <1>10, <2>2 DEF LockHeld, Asking
  <2>4. Changing(i) = {}
    BY <1>1, <2>3 DEF Changing, Asking
  <2> QED  BY <1>8, <2>3, <2>4
<1> QED  BY <1>8, <1>9, <1>11, <1>12 DEF AccountInv

LEMMA DeleteKeeps ==
  ASSUME AccountInv, Delete
  PROVE  AccountInv'
<1>1. member.pc = "delete" /\ UNCHANGED <<listed, flagged, memory, ref, used>>
  BY DEF Delete
<1>2. PICK i \in Ids : i = member.id
  BY <1>1, BusyFits
<1>3. /\ stored' \in [Ids -> {"none", "session", "damaged"}] /\ Ends(i)
      /\ Counters' /\ mishaps \subseteq mishaps' /\ mishaps' \subseteq Mishaps
  BY <1>2, SavesFit DEF Delete, AccountInv
<1>4. Changes(i) /\ (To("take") \/ Done)
  BY <1>1, <1>2 DEF Changes, Delete
<1>5. CASE Done
  <2>1. ClashFits' /\ clash' \subseteq clash
    BY <1>1, <1>3, <1>4, <1>5, IdleFits, MemberClashEnds DEF AccountInv
  <2>2. TypeFits'
    BY <1>1, <1>3, <1>5, <2>1, MemberDone DEF AccountInv, TypeFits, memory
  <2>3. LockFits' /\ RefFits'
    BY <1>1, <1>3, <1>5, MemberDone, LockStays DEF AccountInv, memory
  <2>4. ListFits'
    BY <1>1 DEF AccountInv, ListFits, memory
  <2> QED  BY <1>5, <2>1, <2>2, <2>3, <2>4, IdleFits DEF AccountInv
<1>6. CASE To("take")
  <2>1. /\ member' \in Members /\ member'.pc = "take" /\ member'.op = member.op
        /\ member'.id = member.id /\ member'.lock = member.lock
    BY <1>6, MemberGoes DEF AccountInv, MemberPcs
  <2>2. \A j \in Ids : ~Changes(j)'
    BY <2>1 DEF Changes
  <2>3. ClashFits' /\ clash' \subseteq clash
    BY <1>1, <1>3, <1>4, <2>2, MemberClashEnds DEF AccountInv
  <2>4. TypeFits'
    BY <1>1, <1>3, <2>1, <2>3 DEF AccountInv, TypeFits, memory
  <2>5. MemberFits' /\ ListFits' /\ NewcomerFits' /\ RefFits'
    BY <1>1, <2>1 DEF AccountInv, MemberFits, ListFits, NewcomerFits, RefFits, memory
  <2>6. LockFits'
    BY <1>1, <1>3, <2>1 DEF AccountInv, LockFits, Asking, memory
  <2> QED  BY <2>3, <2>4, <2>5, <2>6 DEF AccountInv
<1> QED  BY <1>4, <1>5, <1>6

LEMMA TakeKeeps ==
  ASSUME AccountInv, Take
  PROVE  AccountInv'
<1>1. /\ member.pc = "take" /\ Done /\ AllWell /\ UNCHANGED <<flagged, entries, ref, used>>
      /\ listed' = listed \ {member.id}
      /\ lock' = [lock EXCEPT ![member.id] = lock[member.id] + 1]
      /\ removed' = [removed EXCEPT ![member.id] = member.kept]
  BY DEF Take
<1>2. PICK i \in Ids : i = member.id
  BY <1>1, BusyFits
<1>3. i \in used /\ member.kept \in {"none", "session"}
  BY <1>1, <1>2, BusyFits DEF AccountInv, TypeFits, Members
<1>4. \A j \in Ids : ~Changes(j) /\ ~Changes(j)'
  BY <1>1, IdleFits DEF Changes
<1>5. ClashFits'
  BY <1>1, <1>4, MemberClashStays DEF AccountInv, entries
<1>6. /\ lock' \in [Ids -> Nat] /\ removed' \in [Ids -> {"gone", "none", "session"}]
      /\ \A j \in Ids \ {i} : lock'[j] = lock[j] /\ removed'[j] = removed[j]
  BY <1>1, <1>2, <1>3 DEF AccountInv, TypeFits
<1>7. TypeFits'
  BY <1>1, <1>6, MemberDone, WellFits DEF AccountInv, TypeFits, entries
<1>8. ListFits' /\ RefFits'
  BY <1>1, <1>2, <1>3, <1>6 DEF AccountInv, ListFits, RefFits
<1>9. LockFits'
  <2>1. SUFFICES ASSUME "astray" \notin mishaps
                 PROVE  \A r \in Refreshers : Asking(r) =>
                            lock'[ref[r].id] = lock[ref[r].id] /\ ref[r].lock = lock[ref[r].id]
    BY <1>1, MemberDone DEF AccountInv, LockFits, Asking, AllWell
  <2>2. \A r \in Refreshers : Asking(r) => ref[r].id # i /\ ref[r].lock = lock[ref[r].id]
    BY <1>1, <1>2, <2>1 DEF AccountInv, LockFits
  <2>3. \A r \in Refreshers : Asking(r) => ref[r].id \in Ids
    BY DEF AccountInv, RefFits, TypeFits, Asking
  <2> QED  BY <1>6, <2>2, <2>3
<1> QED  BY <1>1, <1>5, <1>7, <1>8, <1>9, IdleFits DEF AccountInv

LEMMA TakeRefusedKeeps ==
  ASSUME AccountInv, TakeRefused
  PROVE  AccountInv'
<1>1. /\ member.pc = "take" /\ UNCHANGED <<listed, flagged, stored, memory, ref, used>>
      /\ (To("save") /\ Begins(member.id)) \/ (Done /\ UNCHANGED clash)
  BY DEF TakeRefused
<1>2. PICK i \in Ids : i = member.id
  BY <1>1, BusyFits
<1>3. Counters' /\ mishaps \subseteq mishaps' /\ mishaps' \subseteq Mishaps
  BY RefusedFits DEF TakeRefused, AccountInv, Mishaps
<1>4. \A j \in Ids : ~Changes(j)
  BY <1>1 DEF Changes
<1>5. CASE Done /\ UNCHANGED clash
  <2>1. ClashFits'
    BY <1>1, <1>4, <1>5, IdleFits, MemberClashStays DEF AccountInv
  <2>2. TypeFits'
    BY <1>1, <1>3, <1>5, MemberDone DEF AccountInv, TypeFits, memory
  <2>3. LockFits' /\ RefFits'
    BY <1>1, <1>3, <1>5, MemberDone, LockStays DEF AccountInv, memory
  <2>4. ListFits'
    BY <1>1 DEF AccountInv, ListFits, memory
  <2> QED  BY <1>5, <2>1, <2>2, <2>3, <2>4, IdleFits DEF AccountInv
<1>6. CASE To("save") /\ Begins(member.id)
  <2>1. /\ member' \in Members /\ member'.pc = "save" /\ member'.op = member.op
        /\ member'.id = member.id /\ member'.lock = member.lock
    BY <1>6, MemberGoes DEF AccountInv, MemberPcs
  <2>2. Changes(i)'
    BY <1>2, <2>1 DEF Changes
  <2>3. ClashFits' /\ clash' \subseteq Ids
    BY <1>1, <1>2, <1>4, <1>6, <2>2, MemberClashBegins DEF AccountInv
  <2>4. TypeFits'
    BY <1>1, <1>3, <2>1, <2>3 DEF AccountInv, TypeFits, memory
  <2>5. MemberFits' /\ ListFits' /\ NewcomerFits'
    BY <1>1, <2>1 DEF AccountInv, MemberFits, ListFits, NewcomerFits, memory
  <2>6. LockFits' /\ RefFits'
    BY <1>1, <1>3, <2>1, LockStays DEF AccountInv, memory
  <2> QED  BY <2>3, <2>4, <2>5, <2>6 DEF AccountInv
<1> QED  BY <1>1, <1>5, <1>6

-----------------------------------------------------------------------------
LEMMA BeginUndoKeeps ==
  ASSUME AccountInv, NEW i \in Ids, BeginUndo(i)
  PROVE  AccountInv'
<1>1. /\ member.pc = "idle" /\ removed[i] # "gone" /\ Counts("op")
      /\ removed' = [removed EXCEPT ![i] = "gone"]
      /\ UNCHANGED <<flagged, stored, lock, ref, used, mishaps>>
  BY DEF BeginUndo
<1>2. i \in used /\ i \notin listed /\ removed[i] \in {"none", "session"}
  BY <1>1 DEF AccountInv, ListFits, TypeFits
<1>3. /\ removed' \in [Ids -> {"gone", "none", "session"}] /\ removed'[i] = "gone"
      /\ \A j \in Ids \ {i} : removed'[j] = removed[j]
      /\ Counters'
  BY <1>1, CountsFit DEF AccountInv, TypeFits, CountKinds
<1>4. \A j \in Ids : ~Changes(j)
  BY <1>1 DEF Changes
<1>5. CASE listed # {}
  <2>1. Done /\ UNCHANGED <<listed, clash>>
    BY <1>5 DEF BeginUndo, Done
  <2>2. ClashFits'
    BY <1>1, <1>4, <2>1, IdleFits, MemberClashStays DEF AccountInv
  <2>3. TypeFits'
    BY <1>1, <1>3, <2>1, MemberDone DEF AccountInv, TypeFits
  <2>4. LockFits' /\ RefFits'
    BY <1>1, <2>1, MemberDone, LockStays DEF AccountInv
  <2>5. ListFits'
    BY <1>1, <1>3, <2>1 DEF AccountInv, ListFits
  <2> QED  BY <2>1, <2>2, <2>3, <2>4, <2>5, IdleFits DEF AccountInv
<1>6. CASE listed = {}
  <2>1. PICK u : u = member'
    OBVIOUS
  <2>2. /\ listed' = {i}
        /\ u = [IdleMember EXCEPT !.op = "undo", !.id = i, !.kept = removed[i],
                   !.pc = IF removed[i] = "session" THEN "save" ELSE "flag"]
        /\ IF removed[i] = "session" THEN Begins(i) ELSE UNCHANGED clash
    BY <1>6, <2>1 DEF BeginUndo
  <2>3. PICK pc \in {"save", "flag"} : pc = IF removed[i] = "session" THEN "save" ELSE "flag"
    OBVIOUS
  <2>4. PICK kept \in {"none", "session"} : kept = removed[i]
    BY <1>2
  <2>5. u \in Members /\ u.op = "undo" /\ u.pc = pc /\ u.id = i
    BY <2>2, <2>3, <2>4 DEF IdleMember, Members, MemberPcs
  <2>6. ClashFits' /\ clash' \subseteq Ids
    <3>1. CASE removed[i] = "session"
      <4>1. Changes(i)'
        BY <2>1, <2>3, <2>5, <3>1 DEF Changes
      <4> QED  BY <1>1, <1>4, <2>2, <3>1, <4>1, MemberClashBegins DEF AccountInv
    <3>2. CASE removed[i] # "session"
      <4>1. \A j \in Ids : ~Changes(j)'
        BY <2>1, <2>3, <2>5, <3>2 DEF Changes
      <4> QED  BY <1>1, <1>4, <2>2, <3>2, <4>1, MemberClashStays DEF AccountInv, TypeFits
    <3> QED  BY <3>1, <3>2
  <2>7. TypeFits'
    BY <1>1, <1>3, <2>1, <2>2, <2>5, <2>6 DEF AccountInv, TypeFits
  <2>8. MemberFits' /\ ListFits' /\ NewcomerFits'
    BY <1>1, <1>2, <1>3, <2>1, <2>2, <2>3, <2>5
       DEF AccountInv, MemberFits, ListFits, NewcomerFits
  <2>9. LockFits' /\ RefFits'
    BY <1>1, <2>1, <2>3, <2>5, LockStays DEF AccountInv
  <2> QED  BY <2>6, <2>7, <2>8, <2>9 DEF AccountInv
<1> QED  BY <1>5, <1>6

LEMMA UndoRefusedKeeps ==
  ASSUME AccountInv, NEW i \in Ids, UndoRefused(i)
  PROVE  AccountInv'
<1>1. /\ Refused("list")
      /\ UNCHANGED <<listed, flagged, entries, memory, member, ref, used>>
  BY DEF UndoRefused
<1>2. Counters' /\ mishaps \subseteq mishaps' /\ mishaps' \subseteq Mishaps
  BY <1>1, RefusedFits DEF AccountInv, Mishaps
<1>3. ClashFits'
  BY <1>1, MemberClashStays DEF AccountInv, Changes, entries
<1> QED  BY <1>1, <1>2, <1>3
         DEF AccountInv, TypeFits, MemberFits, ListFits, RefFits, NewcomerFits, LockFits, Asking,
             entries, memory

LEMMA ForgetKeeps ==
  ASSUME AccountInv, NEW i \in Ids, Forget(i)
  PROVE  AccountInv'
<1>1. /\ removed' = [removed EXCEPT ![i] = "gone"]
      /\ UNCHANGED <<listed, flagged, entries, lock, member, ref, used, mishaps, count>>
  BY DEF Forget
<1>2. ClashFits'
  BY <1>1, MemberClashStays DEF AccountInv, Changes, entries
<1>3. TypeFits'
  BY <1>1 DEF AccountInv, TypeFits, Counters, entries
<1>4. MemberFits' /\ ListFits'
  BY <1>1 DEF AccountInv, TypeFits, MemberFits, ListFits
<1> QED  BY <1>1, <1>2, <1>3, <1>4
         DEF AccountInv, RefFits, NewcomerFits, LockFits, Asking, entries

LEMMA FlagKeeps ==
  ASSUME AccountInv, Flag
  PROVE  AccountInv'
<1>1. /\ member.pc = "flag" /\ Done /\ UNCHANGED <<listed, entries, memory, ref, used>>
      /\ AllWell \/ Refused("list")
      /\ flagged' \subseteq flagged \cup {member.id}
  BY DEF Flag
<1>2. member.id \in Ids
  BY <1>1, BusyFits
<1>3. Counters' /\ mishaps \subseteq mishaps' /\ mishaps' \subseteq Mishaps
  BY <1>1, WellFits, RefusedFits DEF AccountInv, Mishaps
<1>4. ClashFits'
  BY <1>1, IdleFits, MemberClashStays DEF AccountInv, Changes, entries
<1>5. TypeFits'
  BY <1>1, <1>2, <1>3, MemberDone DEF AccountInv, TypeFits, memory, entries
<1>6. LockFits' /\ RefFits'
  BY <1>1, <1>3, MemberDone, LockStays DEF AccountInv, memory
<1>7. ListFits'
  BY <1>1 DEF AccountInv, ListFits, memory
<1> QED  BY <1>1, <1>4, <1>5, <1>6, <1>7, IdleFits DEF AccountInv

LEMMA MemberSavesKeeps ==
  ASSUME AccountInv, MemberSaves
  PROVE  AccountInv'
<1>1. member.pc = "save" /\ UNCHANGED <<listed, flagged, memory, ref, used>>
  BY DEF MemberSaves
<1>2. PICK i \in Ids : i = member.id
  BY <1>1, BusyFits
<1>3. /\ stored' \in [Ids -> {"none", "session", "damaged"}] /\ Ends(i)
      /\ Counters' /\ mishaps \subseteq mishaps' /\ mishaps' \subseteq Mishaps
  BY <1>2, SavesFit DEF MemberSaves, AccountInv
<1>4. /\ Changes(i)
      /\ \/ Done
         \/ To("put") /\ member.op = "signin"
         \/ To("flag") /\ member.op = "undo"
  BY <1>1, <1>2 DEF Changes, MemberSaves
<1>5. CASE Done
  <2>1. ClashFits' /\ clash' \subseteq clash
    BY <1>1, <1>3, <1>4, <1>5, IdleFits, MemberClashEnds DEF AccountInv
  <2>2. TypeFits'
    BY <1>1, <1>3, <1>5, <2>1, MemberDone DEF AccountInv, TypeFits, memory
  <2>3. LockFits' /\ RefFits'
    BY <1>1, <1>3, <1>5, MemberDone, LockStays DEF AccountInv, memory
  <2>4. ListFits'
    BY <1>1 DEF AccountInv, ListFits, memory
  <2> QED  BY <1>5, <2>1, <2>2, <2>3, <2>4, IdleFits DEF AccountInv
<1>6. ASSUME NEW pc \in {"put", "flag"}, To(pc),
             pc = "put" => member.op = "signin", pc = "flag" => member.op = "undo"
      PROVE  AccountInv'
  <2>1. /\ member' \in Members /\ member'.pc = pc /\ member'.op = member.op
        /\ member'.id = member.id /\ member'.lock = member.lock
        /\ member'.created = member.created
    BY <1>6, MemberGoes DEF AccountInv, MemberPcs
  <2>2. \A j \in Ids : ~Changes(j)'
    BY <2>1 DEF Changes
  <2>3. ClashFits' /\ clash' \subseteq clash
    BY <1>1, <1>3, <1>4, <2>2, MemberClashEnds DEF AccountInv
  <2>4. TypeFits'
    BY <1>1, <1>3, <2>1, <2>3 DEF AccountInv, TypeFits, memory
  <2>5. ListFits' /\ NewcomerFits'
    BY <1>1, <2>1, <2>3 DEF AccountInv, ListFits, NewcomerFits, memory
  <2>6. MemberFits'
    BY <1>1, <1>6, <2>1 DEF AccountInv, MemberFits, memory
  <2>7. LockFits' /\ RefFits'
    BY <1>1, <1>3, <2>1, LockStays DEF AccountInv, memory
  <2> QED  BY <2>3, <2>4, <2>5, <2>6, <2>7 DEF AccountInv
<1> QED  BY <1>4, <1>5, <1>6

LEMMA StopKeeps ==
  ASSUME AccountInv, Stop
  PROVE  AccountInv'
<1>1. /\ Counts("stop") /\ mishaps' = mishaps \cup {"stop"} /\ Done
      /\ removed' = [i \in Ids |-> "gone"] /\ lock' = [i \in Ids |-> 0]
      /\ ref' = [r \in Refreshers |-> IdleRef] /\ clash' = {}
      /\ stored' \in [Ids -> {"none", "session", "damaged"}]
      /\ UNCHANGED <<listed, flagged, used>>
  BY DEF Stop, Done
<1>2. Counters'
  BY <1>1, CountsFit DEF AccountInv, TypeFits, CountKinds
<1>3. TypeFits'
  BY <1>1, <1>2, MemberDone, IdleRefFits DEF AccountInv, TypeFits, Mishaps
<1>4. \A r \in Refreshers : ref'[r].pc = "idle" /\ ref'[r].id = NoId
  BY <1>1, IdleRefFits
<1> QED  BY <1>1, <1>3, <1>4, IdleFits, MemberDone
         DEF AccountInv, ListFits, RefFits, ClashFits, LockFits, Asking

LEMMA InitFits == Init => AccountInv
<1> SUFFICES ASSUME Init PROVE AccountInv
  OBVIOUS
<1>1. /\ listed \subseteq Ids /\ used = listed /\ \A i, j \in listed : i = j
      /\ stored \in [Ids -> {"none", "session", "damaged"}]
  BY DEF Init
<1>2. member = IdleMember /\ IdleMember \in Members /\ IdleMember.pc = "idle"
      /\ IdleMember.op = "none" /\ IdleMember.id = NoId
  BY DEF Init, IdleMember, Members, MemberPcs
<1>3. /\ ref \in [Refreshers -> Refs]
      /\ \A r \in Refreshers : ref[r].pc = "idle" /\ ref[r].id = NoId
  BY IdleRefFits DEF Init
<1>4. Counters
  BY KindsFit DEF Init, Counters
<1>5. TypeFits /\ ListFits
  BY <1>1, <1>2, <1>3, <1>4 DEF Init, TypeFits, ListFits
<1> QED  BY <1>2, <1>3, <1>5
         DEF Init, AccountInv, MemberFits, RefFits, NewcomerFits, ClashFits, LockFits, Asking

LEMMA StepKeeps == AccountInv /\ [Next]_vars => AccountInv'
<1> SUFFICES ASSUME AccountInv, [Next]_vars PROVE AccountInv'
  OBVIOUS
<1>1. CASE UNCHANGED vars
  <2>1. UNCHANGED <<listed, flagged, entries, memory, member, ref, used, mishaps, count>>
    BY <1>1 DEF vars, entries, memory
  <2>2. ClashFits'
    BY <2>1, MemberClashStays DEF AccountInv, Changes, entries
  <2> QED  BY <2>1, <2>2
           DEF AccountInv, TypeFits, Counters, MemberFits, ListFits, RefFits, NewcomerFits,
               LockFits, Asking, entries, memory
<1>2. CASE \E i \in Ids : \/ BeginSignIn(i) \/ BeginRemove(i)
                          \/ BeginUndo(i) \/ UndoRefused(i) \/ Forget(i)
                          \/ \E r \in Refreshers : BeginRefresh(r, i)
  BY <1>2, BeginSignInKeeps, BeginRemoveKeeps, BeginUndoKeeps, UndoRefusedKeeps, ForgetKeeps,
     BeginRefreshKeeps
<1>3. CASE MemberSteps
  BY <1>3, MemberSavesKeeps, PutKeeps, PutRefusedKeeps, DropKeeps, RemoveWaitsKeeps, DeleteKeeps,
     TakeKeeps, TakeRefusedKeeps, FlagKeeps DEF MemberSteps
<1>4. CASE \E r \in Refreshers : RefreshSteps(r) \/ Cancel(r)
  BY <1>4, FindLockKeeps, LoadKeeps, AnswerKeeps, SaveFreshKeeps, NoteKeeps, CancelKeeps
     DEF RefreshSteps
<1>5. CASE Stop
  BY <1>5, StopKeeps
<1> QED  BY <1>1, <1>2, <1>3, <1>4, <1>5 DEF Next

-----------------------------------------------------------------------------
(* Only ids are lost.                                                      *)
LostFits == lost \subseteq Ids

LEMMA LostStep == AccountInv /\ LostFits /\ [Next]_vars => LostFits'
<1> SUFFICES ASSUME AccountInv, LostFits, [Next]_vars PROVE LostFits'
  OBVIOUS
<1>1. ASSUME NEW i \in Ids, \/ \E what : Lands(i, what)
                            \/ NotDeleted(i) \/ Loses(i) \/ UNCHANGED lost
      PROVE  LostFits'
  BY <1>1 DEF LostFits, Lands, NotDeleted, Loses
<1>2. CASE \E i \in Ids : \/ BeginSignIn(i) \/ BeginRemove(i)
                          \/ BeginUndo(i) \/ UndoRefused(i) \/ Forget(i)
                          \/ \E r \in Refreshers : BeginRefresh(r, i)
  <2>1. PICK i \in Ids : \/ BeginSignIn(i) \/ BeginRemove(i)
                         \/ BeginUndo(i) \/ UndoRefused(i) \/ Forget(i)
                         \/ \E r \in Refreshers : BeginRefresh(r, i)
    BY <1>2
  <2>2. Loses(i) \/ UNCHANGED lost
    BY <2>1 DEF BeginSignIn, BeginRemove, BeginUndo, UndoRefused, Forget, BeginRefresh, entries
  <2> QED  BY <1>1, <2>2
<1>3. CASE MemberSteps
  <2>1. member.pc # "idle"
    BY <1>3 DEF MemberSteps, MemberSaves, Put, PutRefused, Drop, RemoveWaits, Delete, Take,
       TakeRefused, Flag
  <2>2. member.id \in Ids
    BY <2>1, BusyFits
  <2>3. \/ \E what : Lands(member.id, what)
        \/ NotDeleted(member.id) \/ Loses(member.id) \/ UNCHANGED lost
    BY <1>3 DEF MemberSteps, MemberSaves, Put, PutRefused, Drop, RemoveWaits, Delete, Take,
       TakeRefused, Flag, entries
  <2> QED  BY <1>1, <2>2, <2>3
<1>4. CASE \E r \in Refreshers : RefreshSteps(r) \/ Cancel(r)
  <2>1. PICK r \in Refreshers : RefreshSteps(r) \/ Cancel(r)
    BY <1>4
  <2>2. ref[r].id \in Ids
    BY <2>1 DEF RefreshSteps, FindLock, Load, Answer, SaveFresh, Note, Cancel, AccountInv, RefFits,
       TypeFits
  <2>3. Lands(ref[r].id, "session") \/ UNCHANGED lost
    BY <2>1 DEF RefreshSteps, FindLock, Load, Answer, SaveFresh, Note, Cancel, entries
  <2> QED  BY <1>1, <2>2, <2>3
<1>5. CASE Stop
  BY <1>5 DEF Stop, LostFits
<1>6. CASE UNCHANGED vars
  BY <1>6 DEF vars, LostFits
<1> QED  BY <1>2, <1>3, <1>4, <1>5, <1>6 DEF Next

(* The profile is listed once, and never both listed and kept for undo     *)
(* (save_microsoft, remove, undo_remove).                                  *)
THEOREM ProfileListedOnce == Spec => []ListedOnce
<1>1. AccountInv /\ LostFits => ListedOnce
  <2> SUFFICES ASSUME AccountInv, LostFits PROVE ListedOnce
    OBVIOUS
  <2>1. TypeOK
    BY KindsFit
       DEF AccountInv, LostFits, TypeFits, TypeOK, Members, MemberPcs, Refs, RefPcs, Mishaps, Counters
  <2>2. Cardinality(listed) <= 1
    <3>1. CASE listed = {}
      BY <3>1, FS_EmptySet
    <3>2. CASE listed # {}
      <4>1. PICK i : listed = {i}
        BY <3>2 DEF AccountInv, ListFits
      <4>2. Cardinality(listed) = 1
        BY <4>1, FS_Singleton
      <4> QED  BY <4>2
    <3> QED  BY <3>1, <3>2
  <2>3. \A i \in listed : removed[i] = "gone"
    BY DEF AccountInv, ListFits, TypeFits
  <2> QED  BY <2>1, <2>2, <2>3 DEF ListedOnce
<1>2. Init => LostFits
  BY DEF Init, LostFits
<1> QED  BY <1>1, <1>2, InitFits, StepKeeps, LostStep, PTL DEF Spec

-----------------------------------------------------------------------------
(* Who asks or saves for an account holds a lock of its own, and not the   *)
(* one a removal holds.                                                    *)
LocksApart ==
    /\ \A r, q \in Refreshers :
        r # q /\ Asking(r) /\ Asking(q) /\ ref[r].id = ref[q].id => ref[r].lock # ref[q].lock
    /\ member.pc \in {"delete", "take"} =>
        \A r \in Refreshers : Asking(r) /\ ref[r].id = member.id => ref[r].lock # lock[member.id]

LEMMA LocksApartByMember ==
  ASSUME AccountInv, LocksApart, MemberSteps
  PROVE  LocksApart'
<1>1. UNCHANGED ref /\ member.pc # "idle"
  BY DEF MemberSteps, MemberSaves, Put, PutRefused, Drop, RemoveWaits, Delete, Take, TakeRefused, Flag
<1>2. CASE RemoveWaits
  <2>1. /\ member.pc = "wait" /\ ~LockHeld(member.id, member.lock) /\ UNCHANGED lock
        /\ member.lock = lock[member.id]
    BY <1>2 DEF RemoveWaits, memory, AccountInv, MemberFits
  <2>2. member'.id = member.id
    BY <1>2 DEF RemoveWaits, To, AccountInv, TypeFits, Members
  <2>3. \A r \in Refreshers : Asking(r) /\ ref[r].id = member.id => ref[r].lock # lock[member.id]
    BY <2>1 DEF LockHeld, Asking
  <2> QED  BY <1>1, <2>1, <2>2, <2>3 DEF LocksApart, Asking
<1>3. CASE Delete
  <2>1. member.pc = "delete" /\ UNCHANGED lock /\ (To("take") \/ Done)
    BY <1>3 DEF Delete, memory
  <2>2. member'.id = member.id \/ member'.pc = "idle"
    BY <2>1, MemberGoes, MemberDone DEF AccountInv, MemberPcs
  <2> QED  BY <1>1, <2>1, <2>2 DEF LocksApart, Asking
<1>4. CASE ~RemoveWaits /\ ~Delete
  <2>1. Done \/ \E pc \in {"put", "flag", "drop", "save"} : To(pc)
    BY <1>4 DEF MemberSteps, MemberSaves, Put, PutRefused, Undone, Drop, Take, TakeRefused, Flag
  <2>2. member'.pc \notin {"delete", "take"}
    BY <2>1, MemberGoes, MemberDone DEF AccountInv, MemberPcs
  <2> QED  BY <1>1, <2>2 DEF LocksApart, Asking
<1> QED  BY <1>2, <1>3, <1>4

LEMMA LocksApartByRefresh ==
  ASSUME AccountInv, LocksApart, NEW r \in Refreshers, RefreshSteps(r) \/ Cancel(r)
  PROVE  LocksApart'
<1>1. UNCHANGED <<member, lock>>
  BY DEF RefreshSteps, FindLock, Load, Answer, SaveFresh, Note, Cancel, memory
<1>2. ASSUME ref' = [ref EXCEPT ![r] = ref'[r]], ref'[r].pc \notin {"ask", "save"}
      PROVE  LocksApart'
  <2>1. \A q \in Refreshers \ {r} : ref'[q] = ref[q]
    BY <1>2 DEF AccountInv, TypeFits
  <2> QED  BY <1>1, <1>2, <2>1 DEF LocksApart, Asking
<1>3. ASSUME \/ GivesUp(r)
             \/ Noting(r, TRUE)
             \/ Noting(r, FALSE)
      PROVE  LocksApart'
  <2>1. ref' = [ref EXCEPT ![r] = ref'[r]]
    BY <1>3 DEF GivesUp, Noting, AccountInv, TypeFits
  <2>2. ref'[r].pc \notin {"ask", "save"}
    BY <1>3, RefGivesUp, RefNotes DEF AccountInv
  <2> QED  BY <1>2, <2>1, <2>2
<1>4. ASSUME NEW pc \in {"ask", "save"}, Becomes(r, pc),
             \/ Asking(r)
             \/ /\ \A q \in Refreshers \ {r} :
                    Asking(q) /\ ref[q].id = ref[r].id => ref[q].lock # ref[r].lock
                /\ member.pc \in {"delete", "take"} /\ ref[r].id = member.id =>
                    ref[r].lock # lock[member.id]
      PROVE  LocksApart'
  <2>1. /\ \A q \in Refreshers \ {r} : ref'[q] = ref[q]
        /\ ref'[r].pc = pc /\ ref'[r].id = ref[r].id /\ ref'[r].lock = ref[r].lock
    BY <1>4, RefBecomes DEF AccountInv, RefPcs
  <2>2. /\ \A q \in Refreshers \ {r} :
            Asking(q) /\ ref[q].id = ref[r].id => ref[q].lock # ref[r].lock
        /\ member.pc \in {"delete", "take"} /\ ref[r].id = member.id =>
            ref[r].lock # lock[member.id]
    BY <1>4 DEF LocksApart
  <2> QED  BY <1>1, <2>1, <2>2 DEF LocksApart, Asking
<1>5. CASE FindLock(r)
  <2>1. PICK x : x = [ref[r] EXCEPT !.pc = "wait", !.lock = lock[ref[r].id]]
    OBVIOUS
  <2>2. ref' = [ref EXCEPT ![r] = x] /\ x.pc = "wait"
    BY <1>5, <2>1 DEF FindLock, AccountInv, TypeFits, Refs
  <2>3. ref'[r] = x
    BY <2>2 DEF AccountInv, TypeFits
  <2> QED  BY <1>2, <2>2, <2>3
<1>6. CASE Load(r)
  <2>1. ~LockHeld(ref[r].id, ref[r].lock)
    BY <1>6 DEF Load
  <2>2. \A q \in Refreshers : Asking(q) /\ ref[q].id = ref[r].id => ref[q].lock # ref[r].lock
    BY <2>1 DEF LockHeld, Asking
  <2>3. member.pc \in {"delete", "take"} => member.op = "remove" /\ member.lock = lock[member.id]
    BY DEF AccountInv, MemberFits
  <2>4. member.pc \in {"delete", "take"} /\ ref[r].id = member.id => ref[r].lock # lock[member.id]
    BY <2>1, <2>3 DEF LockHeld
  <2>5. Noting(r, TRUE) \/ Noting(r, FALSE) \/ GivesUp(r) \/ Becomes(r, "ask")
    BY <1>6 DEF Load
  <2> QED  BY <1>3, <1>4, <2>2, <2>4, <2>5
<1>7. CASE Answer(r)
  <2>1. Asking(r) /\ (Becomes(r, "save") \/ Noting(r, TRUE) \/ GivesUp(r))
    BY <1>7 DEF Answer, Asking
  <2> QED  BY <1>3, <1>4, <2>1
<1>8. CASE SaveFresh(r) \/ Note(r) \/ Cancel(r)
  BY <1>3, <1>8 DEF SaveFresh, Note, Cancel
<1> QED  BY <1>5, <1>6, <1>7, <1>8 DEF RefreshSteps

LEMMA LocksApartByCall ==
  ASSUME AccountInv, LocksApart, NEW i \in Ids,
         \/ BeginSignIn(i) \/ BeginRemove(i) \/ BeginUndo(i) \/ UndoRefused(i) \/ Forget(i)
         \/ \E r \in Refreshers : BeginRefresh(r, i)
  PROVE  LocksApart'
<1>1. CASE BeginSignIn(i)
  <2>1. member'.pc = "save" /\ UNCHANGED ref
    BY <1>1 DEF BeginSignIn, IdleMember
  <2> QED  BY <2>1 DEF LocksApart, Asking
<1>2. CASE BeginRemove(i)
  <2>1. member'.pc = "wait" /\ UNCHANGED ref
    BY <1>2 DEF BeginRemove, IdleMember
  <2> QED  BY <2>1 DEF LocksApart, Asking
<1>3. CASE BeginUndo(i)
  <2>1. UNCHANGED ref
    BY <1>3 DEF BeginUndo
  <2>2. member'.pc \in {"idle", "save", "flag"}
    <3>1. PICK pc \in {"save", "flag"} : pc = IF removed[i] = "session" THEN "save" ELSE "flag"
      OBVIOUS
    <3>2. PICK kept : kept = removed[i]
      OBVIOUS
    <3>3. CASE listed = {}
      <4>1. member' = [IdleMember EXCEPT !.op = "undo", !.id = i, !.kept = kept, !.pc = pc]
        BY <1>3, <3>1, <3>2, <3>3 DEF BeginUndo
      <4> QED  BY <4>1 DEF IdleMember
    <3>4. CASE listed # {}
      BY <1>3, <3>4 DEF BeginUndo, IdleMember
    <3> QED  BY <3>3, <3>4
  <2> QED  BY <2>1, <2>2 DEF LocksApart, Asking
<1>4. CASE UndoRefused(i) \/ Forget(i)
  BY <1>4 DEF UndoRefused, Forget, memory, LocksApart, Asking
<1>5. ASSUME NEW r \in Refreshers, BeginRefresh(r, i)  PROVE LocksApart'
  <2> DEFINE x == [IdleRef EXCEPT !.pc = "found", !.id = i]
  <2>1. x \in Refs /\ x.pc = "found"
    BY DEF IdleRef, Refs, RefPcs
  <2>2. ref' = [ref EXCEPT ![r] = x] /\ UNCHANGED <<member, lock>>
    BY <1>5 DEF BeginRefresh, memory
  <2> HIDE DEF x
  <2>3. ref'[r].pc = "found" /\ \A q \in Refreshers \ {r} : ref'[q] = ref[q]
    BY <2>1, <2>2, RefTypes DEF AccountInv
  <2> QED  BY <2>2, <2>3 DEF LocksApart, Asking
<1> QED  BY <1>1, <1>2, <1>3, <1>4, <1>5

(* Of the refreshes that ask Microsoft or save for one account, one has    *)
(* the lock the account has now, and none while a removal that has this    *)
(* lock deletes the session; no two have the same lock that a removal has  *)
(* dropped while they waited for it (ensure_fresh, remove).                *)
THEOREM OneRefreshAtATime == Spec => []OneRefresh
<1>1. Init => LocksApart
  BY DEF Init, LocksApart, Asking, IdleRef
<1>2. AccountInv /\ LocksApart /\ [Next]_vars => LocksApart'
  <2> SUFFICES ASSUME AccountInv, LocksApart, [Next]_vars PROVE LocksApart'
    OBVIOUS
  <2>1. CASE UNCHANGED vars
    BY <2>1 DEF vars, LocksApart, Asking
  <2>2. CASE Stop
    BY <2>2, IdleRefFits DEF Stop, LocksApart, Asking
  <2> QED  BY <2>1, <2>2, LocksApartByMember, LocksApartByRefresh, LocksApartByCall DEF Next
<1>3. LocksApart => OneRefresh
  BY DEF LocksApart, OneRefresh, Asking
<1> QED  BY <1>1, <1>2, <1>3, InitFits, StepKeeps, PTL DEF Spec

-----------------------------------------------------------------------------
(* No session is left behind: what is stored belongs to a listed account,  *)
(* or to the one the call under way is about.                              *)
Quiet == mishaps \subseteq {"list", "active", "overlap"}
Left ==
    /\ \A i \in Ids \ listed : stored[i] = "none" \/ member.id = i
    /\ \A r \in Refreshers : Asking(r) => ref[r].id \in listed
    /\ member.pc = "take" => stored[member.id] = "none"

LEMMA MishapsStay == [Next]_vars => mishaps \subseteq mishaps'
<1>1. ASSUME NEW i, NEW what, Lands(i, what)  PROVE mishaps \subseteq mishaps'
  BY <1>1 DEF Lands
<1>2. \A what : Refused(what) => mishaps \subseteq mishaps'
  BY DEF Refused
<1>3. AllWell => mishaps = mishaps'
  BY DEF AllWell
<1>4. MemberSteps => mishaps \subseteq mishaps'
  BY <1>1, <1>2, <1>3 DEF MemberSteps, MemberSaves, Put, PutRefused, Drop, RemoveWaits, Delete, Take,
     TakeRefused, Flag
<1>5. \A r \in Refreshers : RefreshSteps(r) \/ Cancel(r) => mishaps \subseteq mishaps'
  BY <1>1, <1>2, <1>3 DEF RefreshSteps, FindLock, Load, Answer, SaveFresh, Note, Cancel
<1>6. \A i \in Ids : \/ BeginSignIn(i) \/ BeginRemove(i) \/ BeginUndo(i) \/ UndoRefused(i) \/ Forget(i)
                     \/ \E r \in Refreshers : BeginRefresh(r, i)
                     => mishaps \subseteq mishaps'
  BY <1>2 DEF BeginSignIn, BeginRemove, BeginUndo, UndoRefused, Forget, BeginRefresh
<1>7. Stop => mishaps \subseteq mishaps'
  BY DEF Stop
<1> QED  BY <1>4, <1>5, <1>6, <1>7 DEF Next, vars

\* The list grows or stays, and nothing is stored or asked.
LEMMA LeftGrows ==
  ASSUME AccountInv, Left, UNCHANGED <<stored, ref>>, listed \subseteq listed',
         \/ member'.id = member.id
         \/ member.id \in listed' \/ member.id = NoId,
         member'.pc # "take"
  PROVE  Left'
<1>1. \A i \in Ids : i # NoId
  BY NoIdAssumption
<1> QED  BY <1>1 DEF Left, Asking

LEMMA LeftByMember ==
  ASSUME AccountInv, AccountInv', Left, Quiet, Quiet', MemberSteps
  PROVE  Left'
<1>1. UNCHANGED ref
  BY DEF MemberSteps, MemberSaves, Put, PutRefused, Drop, RemoveWaits, Delete, Take, TakeRefused, Flag
<1>2. member.pc # "idle"
  BY DEF MemberSteps, MemberSaves, Put, PutRefused, Drop, RemoveWaits, Delete, Take, TakeRefused, Flag
<1>3. PICK i \in Ids : i = member.id
  BY <1>2, BusyFits
<1>4. ~Refused("keychain")
  BY DEF Refused, Quiet
<1>5. "astray" \notin mishaps
  BY DEF Quiet
<1>6. CASE MemberSaves
  <2>1. Lands(i, "session") /\ UNCHANGED listed /\ member.pc = "save"
    BY <1>3, <1>4, <1>6 DEF MemberSaves
  <2>2. \A j \in Ids \ {i} : stored'[j] = stored[j]
    BY <2>1, LandsFits DEF AccountInv
  <2>3. member'.id = i \/ i \in listed
    <3>1. CASE member.op = "signin"
      BY <1>3, <1>4, <1>6, <3>1, MemberGoes DEF MemberSaves, AccountInv, MemberPcs
    <3>2. CASE member.op # "signin"
      BY <1>2, <1>3, <3>2 DEF AccountInv, MemberFits, TypeFits, Members
    <3> QED  BY <3>1, <3>2
  <2>4. member'.pc # "take"
    BY <1>6, MemberDone, MemberGoes DEF MemberSaves, AccountInv, MemberPcs
  <2> QED  BY <1>1, <1>3, <2>1, <2>2, <2>3, <2>4 DEF Left, Asking
<1>7. CASE Put
  BY <1>1, <1>7, MemberDone, LeftGrows DEF Put, entries
<1>8. CASE PutRefused
  <2>1. /\ member.pc = "put" /\ UNCHANGED stored
        /\ listed' = listed \/ listed' = listed \cup {member.id}
        /\ (member.created /\ To("drop")) \/ (~member.created /\ Done)
    BY <1>8 DEF PutRefused, Undone
  <2>2. ~member.created => member.id \in listed
    BY <2>1 DEF AccountInv, MemberFits
  <2>3. /\ listed \subseteq listed' /\ member'.pc # "take"
        /\ member'.id = member.id \/ member.id \in listed'
    BY <2>1, <2>2, MemberDone, MemberGoes DEF AccountInv, MemberPcs
  <2> QED  BY <1>1, <2>1, <2>3, LeftGrows
<1>9. CASE Drop
  <2>1. Lands(i, "none") /\ UNCHANGED listed /\ member.pc = "drop" /\ Done
    BY <1>3, <1>4, <1>9 DEF Drop
  <2>2. /\ \A j \in Ids \ {i} : stored'[j] = stored[j]
        /\ stored'[i] = "none" \/ i \in clash
    BY <2>1, LandsFits DEF AccountInv
  <2>3. i \in clash => i \in listed
    BY <1>3, <2>1 DEF AccountInv, NewcomerFits, MemberFits
  <2> QED  BY <1>1, <1>3, <2>1, <2>2, <2>3, MemberDone DEF Left, Asking
<1>10. CASE RemoveWaits
  <2>1. UNCHANGED <<listed, stored>> /\ member.id \in listed
    BY <1>10 DEF RemoveWaits, AccountInv, MemberFits
  <2>2. member'.pc = "delete"
    BY <1>10 DEF RemoveWaits, To, AccountInv, TypeFits, Members
  <2> QED  BY <1>1, <2>1, <2>2, LeftGrows
<1>11. CASE Delete
  <2>1. Lands(i, "none") /\ UNCHANGED listed /\ member.pc = "delete" /\ To("take")
    BY <1>3, <1>4, <1>11 DEF Delete
  <2>2. /\ \A j \in Ids \ {i} : stored'[j] = stored[j]
        /\ stored'[i] = "none" \/ i \in clash
    BY <2>1, LandsFits DEF AccountInv
  <2>3. i \notin clash
    BY <1>3, <1>5, <2>1 DEF AccountInv, LockFits
  <2>4. member'.id = i
    BY <1>3, <2>1, MemberGoes DEF AccountInv, MemberPcs
  <2> QED  BY <1>1, <2>1, <2>2, <2>3, <2>4, <1>3 DEF Left, Asking
<1>12. CASE Take
  <2>1. /\ member.pc = "take" /\ Done /\ UNCHANGED stored /\ listed' = listed \ {i}
    BY <1>3, <1>12 DEF Take, entries
  <2>2. \A r \in Refreshers : Asking(r) => ref[r].id # i
    BY <1>3, <1>5, <2>1 DEF AccountInv, LockFits
  <2> QED  BY <1>1, <1>3, <2>1, <2>2, MemberDone DEF Left, Asking
<1>13. CASE TakeRefused
  <2>1. UNCHANGED <<listed, stored>> /\ member.id \in listed
    BY <1>13 DEF TakeRefused, AccountInv, MemberFits
  <2>2. member'.pc # "take"
    BY <1>13, MemberDone, MemberGoes DEF TakeRefused, AccountInv, MemberPcs
  <2> QED  BY <1>1, <2>1, <2>2, LeftGrows
<1>14. CASE Flag
  <2>1. UNCHANGED <<listed, stored>> /\ member.id \in listed /\ Done
    BY <1>14 DEF Flag, AccountInv, MemberFits, entries
  <2> QED  BY <1>1, <2>1, MemberDone, LeftGrows
<1> QED  BY <1>6, <1>7, <1>8, <1>9, <1>10, <1>11, <1>12, <1>13, <1>14 DEF MemberSteps

LEMMA LeftByRefresh ==
  ASSUME AccountInv, Left, Quiet, Quiet', NEW r \in Refreshers, RefreshSteps(r) \/ Cancel(r)
  PROVE  Left'
<1>1. UNCHANGED <<listed, member>> /\ ref[r].pc # "idle" /\ ref[r].id \in Ids
  BY DEF RefreshSteps, FindLock, Load, Answer, SaveFresh, Note, Cancel, AccountInv, RefFits, TypeFits
<1>2. PICK i \in Ids : i = ref[r].id
  BY <1>1
<1>3. "astray" \notin mishaps /\ ~Refused("keychain")
  BY DEF Quiet, Refused
<1>4. ASSUME UNCHANGED stored,
             \/ GivesUp(r)
             \/ \E pc \in {"note", "wait"} : ref' = [ref EXCEPT ![r] = ref'[r]] /\ ref'[r].pc = pc
             \/ Asking(r) /\ Becomes(r, "save")
             \/ i \in listed /\ Becomes(r, "ask")
      PROVE  Left'
  <2>1. /\ \A q \in Refreshers \ {r} : ref'[q] = ref[q]
        /\ ref'[r].pc \in {"ask", "save"} => i \in listed /\ ref'[r].id = i
    <3>1. CASE GivesUp(r)
      BY <3>1, RefGivesUp DEF AccountInv
    <3>2. CASE \E pc \in {"note", "wait"} : ref' = [ref EXCEPT ![r] = ref'[r]] /\ ref'[r].pc = pc
      BY <3>2 DEF AccountInv, TypeFits
    <3>3. CASE Asking(r) /\ Becomes(r, "save")
      BY <1>2, <3>3, RefBecomes DEF AccountInv, Left, RefPcs
    <3>4. CASE i \in listed /\ Becomes(r, "ask")
      BY <1>2, <3>4, RefBecomes DEF AccountInv, RefPcs
    <3> QED  BY <1>4, <3>1, <3>2, <3>3, <3>4
  <2> QED  BY <1>1, <1>4, <2>1 DEF Left, Asking
<1>5. CASE FindLock(r)
  <2>1. PICK x : x = [ref[r] EXCEPT !.pc = "wait", !.lock = lock[ref[r].id]]
    OBVIOUS
  <2>2. ref' = [ref EXCEPT ![r] = x] /\ x.pc = "wait" /\ UNCHANGED stored
    BY <1>5, <2>1 DEF FindLock, AccountInv, TypeFits, Refs, entries
  <2>3. ref'[r] = x
    BY <2>2 DEF AccountInv, TypeFits
  <2> QED  BY <1>4, <2>2, <2>3
<1>6. CASE Cancel(r)
  BY <1>4, <1>6 DEF Cancel, entries
<1>7. ASSUME NEW expired \in BOOLEAN, Noting(r, expired)
      PROVE  ref' = [ref EXCEPT ![r] = ref'[r]] /\ ref'[r].pc = "note"
  BY <1>7, RefNotes DEF AccountInv, TypeFits, Noting
<1>8. CASE Load(r)
  <2>1. UNCHANGED stored
    BY <1>8 DEF Load, entries
  <2>2. CASE Becomes(r, "ask") /\ stored[i] # "none"
    <3>1. i \in listed \/ member.id = i
      BY <2>2 DEF Left
    <3>2. member.id = i => i \in listed
      <4>1. SUFFICES ASSUME member.id = i, i \notin listed PROVE FALSE
        OBVIOUS
      <4>2. member.pc # "idle"
        BY <4>1, NoIdAssumption DEF AccountInv, MemberFits
      <4>3. member.op = "signin"
        BY <4>1, <4>2 DEF AccountInv, MemberFits, TypeFits, Members
      <4> QED  BY <1>2, <4>1, <4>3 DEF AccountInv, NewcomerFits
    <3> QED  BY <1>4, <2>1, <2>2, <3>1, <3>2
  <2>3. CASE Noting(r, TRUE) \/ Noting(r, FALSE) \/ GivesUp(r)
    BY <1>4, <1>7, <2>1, <2>3
  <2> QED  BY <1>2, <1>8, <2>2, <2>3 DEF Load
<1>9. CASE Answer(r)
  <2>1. Asking(r) /\ UNCHANGED stored
    BY <1>9 DEF Answer, Asking
  <2>2. Becomes(r, "save") \/ Noting(r, TRUE) \/ GivesUp(r)
    BY <1>9 DEF Answer
  <2> QED  BY <1>4, <1>7, <2>1, <2>2
<1>10. CASE SaveFresh(r)
  <2>1. Lands(i, "session") /\ Noting(r, FALSE) /\ Asking(r)
    BY <1>2, <1>3, <1>10 DEF SaveFresh, Asking
  <2>2. \A j \in Ids \ {i} : stored'[j] = stored[j]
    BY <2>1, LandsFits DEF AccountInv
  <2>3. i \in listed /\ (member.pc = "take" => member.id # i)
    BY <1>2, <1>3, <2>1 DEF Left, AccountInv, LockFits
  <2>4. ref'[r].pc = "note" /\ \A q \in Refreshers \ {r} : ref'[q] = ref[q]
    BY <2>1, RefNotes DEF AccountInv
  <2>5. member.pc = "take" => member.id \in Ids
    BY BusyFits
  <2> QED  BY <1>1, <2>2, <2>3, <2>4, <2>5 DEF Left, Asking
<1>11. CASE Note(r)
  BY <1>4, <1>11 DEF Note, entries
<1> QED  BY <1>5, <1>6, <1>8, <1>9, <1>10, <1>11 DEF RefreshSteps

LEMMA LeftByCall ==
  ASSUME AccountInv, Left, Quiet, NEW i \in Ids,
         \/ BeginSignIn(i) \/ BeginRemove(i) \/ BeginUndo(i) \/ UndoRefused(i) \/ Forget(i)
         \/ \E r \in Refreshers : BeginRefresh(r, i)
  PROVE  Left'
<1>1. member.pc = "idle" => member.id = NoId
  BY DEF AccountInv, MemberFits
<1>2. CASE BeginSignIn(i)
  BY <1>1, <1>2, LeftGrows DEF BeginSignIn, IdleMember
<1>3. CASE BeginRemove(i)
  BY <1>1, <1>3, LeftGrows DEF BeginRemove, IdleMember, entries
<1>4. CASE BeginUndo(i)
  <2>1. listed \subseteq listed' /\ UNCHANGED <<stored, ref>> /\ member.pc = "idle"
    BY <1>4 DEF BeginUndo
  <2>2. member'.pc # "take"
    <3>1. PICK pc \in {"save", "flag"} : pc = IF removed[i] = "session" THEN "save" ELSE "flag"
      OBVIOUS
    <3>2. PICK kept : kept = removed[i]
      OBVIOUS
    <3>3. CASE listed = {}
      <4>1. member' = [IdleMember EXCEPT !.op = "undo", !.id = i, !.kept = kept, !.pc = pc]
        BY <1>4, <3>1, <3>2, <3>3 DEF BeginUndo
      <4> QED  BY <4>1 DEF IdleMember
    <3>4. CASE listed # {}
      BY <1>4, <3>4 DEF BeginUndo, IdleMember
    <3> QED  BY <3>3, <3>4
  <2> QED  BY <1>1, <2>1, <2>2, LeftGrows
<1>5. CASE UndoRefused(i)
  BY <1>1, <1>5, LeftGrows DEF UndoRefused, entries
<1>6. CASE Forget(i)
  BY <1>6 DEF Forget, Left, Asking, entries
<1>7. ASSUME NEW r \in Refreshers, BeginRefresh(r, i)  PROVE Left'
  <2> DEFINE x == [IdleRef EXCEPT !.pc = "found", !.id = i]
  <2>1. x \in Refs /\ x.pc = "found"
    BY DEF IdleRef, Refs, RefPcs
  <2>2. ref' = [ref EXCEPT ![r] = x] /\ UNCHANGED <<listed, stored, member>>
    BY <1>7 DEF BeginRefresh, entries
  <2> HIDE DEF x
  <2>3. ref'[r].pc = "found" /\ \A q \in Refreshers \ {r} : ref'[q] = ref[q]
    BY <2>1, <2>2, RefTypes DEF AccountInv
  <2> QED  BY <2>2, <2>3 DEF Left, Asking
<1> QED  BY <1>2, <1>3, <1>4, <1>5, <1>6, <1>7

(* No session stays for an account that is not listed, through any refusal *)
(* of the list (remove, save_microsoft).                                   *)
THEOREM NothingLeftBehind == Spec => []NoSessionLeft
<1> DEFINE LeftInv == Quiet => Left
<1>1. Init => LeftInv
  BY DEF Init, Left, Asking, IdleMember, IdleRef
<1>2. AccountInv /\ AccountInv' /\ LeftInv /\ [Next]_vars => LeftInv'
  <2>1. SUFFICES ASSUME AccountInv, AccountInv', LeftInv, [Next]_vars, Quiet'
                 PROVE  Left'
    OBVIOUS
  <2>2. Quiet /\ Left
    BY <2>1, MishapsStay DEF Quiet
  <2>3. CASE UNCHANGED vars
    BY <2>2, <2>3 DEF vars, Left, Asking
  <2>4. ~Stop
    BY <2>1 DEF Quiet, Stop
  <2> QED  BY <2>1, <2>2, <2>3, <2>4, LeftByMember, LeftByRefresh, LeftByCall DEF Next
<1>3. AccountInv /\ LeftInv => NoSessionLeft
  BY DEF NoSessionLeft, Left, Quiet
<1> QED  BY <1>1, <1>2, <1>3, InitFits, StepKeeps, PTL DEF Spec

-----------------------------------------------------------------------------
(* A listed account has its session, or a call has lost it, or a removal   *)
(* or an undo is about to write it; and so has one about to be listed.     *)
HasSession(i) == stored[i] = "session" \/ i \in lost
Stays ==
    /\ \A i \in listed : HasSession(i) \/ InHand(i)
    /\ member.pc = "put" => HasSession(member.id)

\* What saves and deletes, refused ones too, leave of it.
LEMMA LandsHave ==
  ASSUME TypeFits, NEW i \in Ids, NEW what \in {"none", "session"}, Lands(i, what)
  PROVE  /\ \A j \in Ids \ {i} : HasSession(j) => HasSession(j)'
         /\ what = "session" \/ member.pc = "drop" => HasSession(i)'
<1>1. PICK now \in {what} \cup IF i \in clash THEN {"damaged"} ELSE {} :
        /\ stored' = [stored EXCEPT ![i] = now]
        /\ lost' = CASE now = "session" -> lost \ {i}
                     [] now = "damaged" \/ member.pc = "drop" -> lost \cup {i}
                     [] OTHER -> lost
  BY DEF Lands
<1>2. now \in {what, "damaged"}
  OBVIOUS
<1>3. stored'[i] = now /\ \A j \in Ids \ {i} : stored'[j] = stored[j]
  BY <1>1 DEF TypeFits
<1>4. \A j \in Ids \ {i} : j \in lost' <=> j \in lost
  BY <1>1
<1>5. what = "session" \/ member.pc = "drop" => stored'[i] = "session" \/ i \in lost'
  BY <1>1, <1>2, <1>3
<1> QED  BY <1>3, <1>4, <1>5 DEF HasSession

LEMMA NotDeletedHas ==
  ASSUME TypeFits, NEW i \in Ids, NotDeleted(i)
  PROVE  \A j \in Ids : HasSession(j) => HasSession(j)'
BY DEF NotDeleted, HasSession, TypeFits

LEMMA LosesHas ==
  ASSUME NEW i \in Ids, Loses(i), UNCHANGED stored
  PROVE  /\ HasSession(i)'
         /\ \A j \in Ids : HasSession(j) => HasSession(j)'
BY DEF Loses, HasSession

LEMMA StaysByMember ==
  ASSUME AccountInv, Stays, MemberSteps
  PROVE  Stays'
<1>1. member.pc # "idle"
  BY DEF MemberSteps, MemberSaves, Put, PutRefused, Drop, RemoveWaits, Delete, Take, TakeRefused, Flag
<1>2. PICK i \in Ids : i = member.id
  BY <1>1, BusyFits
<1>3. listed \subseteq Ids /\ member.op \in {"signin", "remove", "undo"}
  BY <1>1, BusyFits DEF AccountInv, TypeFits, Members
\* Nobody but the account of the call has its session in hand, and only then.
<1>4. /\ \A j \in listed \ {i} : HasSession(j)
      /\ ~InHand(i) /\ i \in listed => HasSession(i)
  BY <1>2 DEF Stays, InHand
<1>5. CASE MemberSaves
  <2>1. UNCHANGED listed /\ member.pc = "save"
    BY <1>5 DEF MemberSaves
  <2>2. CASE Lands(i, "session")
    <3>1. HasSession(i)' /\ \A j \in Ids \ {i} : HasSession(j) => HasSession(j)'
      BY <2>2, LandsHave DEF AccountInv
    <3>2. member'.id = i \/ member'.pc = "idle"
      BY <1>2, <1>5, MemberGoes, MemberDone DEF MemberSaves, AccountInv, MemberPcs
    <3> QED  BY <1>3, <1>4, <2>1, <3>1, <3>2 DEF Stays
  <2>3. CASE UNCHANGED <<stored, lost>> /\ Done /\ member.op = "signin"
    <3>1. ~InHand(i)
      BY <2>3 DEF InHand
    <3> QED  BY <1>4, <2>1, <2>3, <3>1, MemberDone DEF Stays, HasSession
  <2>4. CASE UNCHANGED stored /\ Loses(i) /\ (Done \/ To("flag"))
    <3>1. HasSession(i)' /\ \A j \in Ids : HasSession(j) => HasSession(j)'
      BY <2>4, LosesHas
    <3>2. member'.pc \in {"idle", "flag"}
      BY <2>4, MemberDone, MemberGoes DEF AccountInv, MemberPcs
    <3> QED  BY <1>3, <1>4, <2>1, <3>1, <3>2 DEF Stays
  <2> QED  BY <1>2, <1>5, <2>2, <2>3, <2>4 DEF MemberSaves, NotSaved
<1>6. CASE Put \/ PutRefused
  <2>1. /\ member.pc = "put" /\ UNCHANGED <<stored, lost>>
        /\ listed' = listed \/ listed' = listed \cup {i}
        /\ Done \/ To("drop")
    BY <1>2, <1>6 DEF Put, PutRefused, Undone, entries
  <2>2. \A j \in listed' : HasSession(j)
    BY <1>2, <1>4, <2>1 DEF Stays
  <2>3. member'.pc \in {"idle", "drop"}
    BY <2>1, MemberDone, MemberGoes DEF AccountInv, MemberPcs
  <2> QED  BY <2>1, <2>2, <2>3 DEF Stays, HasSession
<1>7. CASE Drop
  <2>1. /\ member.pc = "drop" /\ UNCHANGED listed /\ Done
        /\ Lands(i, "none") \/ NotDeleted(i)
    BY <1>2, <1>7 DEF Drop
  <2>2. /\ \A j \in Ids \ {i} : HasSession(j) => HasSession(j)'
        /\ HasSession(i) => HasSession(i)'
    BY <2>1, LandsHave, NotDeletedHas DEF AccountInv
  <2>3. ~InHand(i)
    BY <2>1 DEF InHand
  <2> QED  BY <1>3, <1>4, <2>1, <2>2, <2>3, MemberDone DEF Stays
<1>8. CASE RemoveWaits
  <2>1. member.pc = "wait" /\ UNCHANGED <<listed, stored, lost>>
    BY <1>8 DEF RemoveWaits
  <2>2. member'.pc = "delete"
    BY <1>8 DEF RemoveWaits, To, AccountInv, TypeFits, Members
  <2>3. ~InHand(i)
    BY <2>1 DEF InHand
  <2> QED  BY <1>4, <2>1, <2>2, <2>3 DEF Stays, HasSession
<1>9. CASE Delete
  <2>1. /\ member.pc = "delete" /\ UNCHANGED listed
        /\ \/ Lands(i, "none") /\ To("take")
           \/ NotDeleted(i) /\ Done
    BY <1>2, <1>9 DEF Delete
  <2>2. ~InHand(i) /\ member.op = "remove"
    BY <2>1 DEF InHand, AccountInv, MemberFits
  <2>3. CASE Lands(i, "none") /\ To("take")
    <3>1. \A j \in Ids \ {i} : HasSession(j) => HasSession(j)'
      BY <2>3, LandsHave DEF AccountInv
    <3>2. member'.pc = "take" /\ member'.id = i /\ member'.op = "remove"
      BY <1>2, <2>2, <2>3, MemberGoes DEF AccountInv, MemberPcs
    <3>3. InHand(i)'
      BY <3>2 DEF InHand
    <3> QED  BY <1>3, <1>4, <2>1, <3>1, <3>2, <3>3 DEF Stays
  <2>4. CASE NotDeleted(i) /\ Done
    <3>1. \A j \in Ids : HasSession(j) => HasSession(j)'
      BY <2>4, NotDeletedHas DEF AccountInv
    <3> QED  BY <1>3, <1>4, <2>1, <2>2, <2>4, <3>1, MemberDone DEF Stays
  <2> QED  BY <2>1, <2>3, <2>4
<1>10. CASE Take
  <2>1. listed' = listed \ {i} /\ UNCHANGED <<stored, lost>> /\ Done
    BY <1>2, <1>10 DEF Take, entries
  <2> QED  BY <1>4, <2>1, MemberDone DEF Stays, HasSession
<1>11. CASE TakeRefused
  <2>1. member.pc = "take" /\ UNCHANGED <<listed, stored>> /\ member.op = "remove"
    BY <1>11 DEF TakeRefused, AccountInv, MemberFits
  <2>2. CASE To("save") /\ UNCHANGED lost
    <3>1. member'.pc = "save" /\ member'.id = i /\ member'.op = "remove"
      BY <1>2, <2>1, <2>2, MemberGoes DEF AccountInv, MemberPcs
    <3>2. InHand(i)'
      BY <3>1 DEF InHand
    <3> QED  BY <1>4, <2>1, <2>2, <3>1, <3>2 DEF Stays, HasSession
  <2>3. CASE Done /\ Loses(i)
    <3>1. HasSession(i)' /\ \A j \in Ids : HasSession(j) => HasSession(j)'
      BY <2>1, <2>3, LosesHas
    <3> QED  BY <1>3, <1>4, <2>1, <2>3, <3>1, MemberDone DEF Stays
  <2> QED  BY <1>2, <1>11, <2>2, <2>3 DEF TakeRefused
<1>12. CASE Flag
  <2>1. member.pc = "flag" /\ UNCHANGED <<listed, stored, lost>> /\ Done
    BY <1>12 DEF Flag, entries
  <2>2. ~InHand(i)
    BY <2>1 DEF InHand
  <2> QED  BY <1>4, <2>1, <2>2, MemberDone DEF Stays, HasSession
<1> QED  BY <1>5, <1>6, <1>7, <1>8, <1>9, <1>10, <1>11, <1>12 DEF MemberSteps

LEMMA StaysByRefresh ==
  ASSUME AccountInv, Stays, NEW r \in Refreshers, RefreshSteps(r) \/ Cancel(r)
  PROVE  Stays'
<1>1. UNCHANGED <<listed, member>>
  BY DEF RefreshSteps, FindLock, Load, Answer, SaveFresh, Note, Cancel
<1>2. \A j : InHand(j)' <=> InHand(j)
  BY <1>1 DEF InHand
<1>3. PICK i \in Ids : i = ref[r].id
  BY DEF RefreshSteps, FindLock, Load, Answer, SaveFresh, Note, Cancel, AccountInv, RefFits, TypeFits
<1>4. Lands(i, "session") \/ UNCHANGED <<stored, lost>>
  BY <1>3 DEF RefreshSteps, FindLock, Load, Answer, SaveFresh, NotSaved, Note, Cancel, entries
<1>5. \A j \in Ids : HasSession(j) => HasSession(j)'
  <2>1. CASE Lands(i, "session")
    BY <2>1, LandsHave DEF AccountInv
  <2>2. CASE UNCHANGED <<stored, lost>>
    BY <2>2 DEF HasSession
  <2> QED  BY <1>4, <2>1, <2>2
<1>6. listed \subseteq Ids /\ (member.pc = "put" => member.id \in Ids)
  BY BusyFits DEF AccountInv, TypeFits
<1> QED  BY <1>1, <1>2, <1>5, <1>6 DEF Stays

LEMMA StaysByCall ==
  ASSUME AccountInv, Stays, NEW i \in Ids,
         \/ BeginSignIn(i) \/ BeginRemove(i) \/ BeginUndo(i) \/ UndoRefused(i) \/ Forget(i)
         \/ \E r \in Refreshers : BeginRefresh(r, i)
  PROVE  Stays'
<1>1. member.pc = "idle" => \A j \in listed : HasSession(j)
  BY DEF Stays, InHand
<1>2. CASE BeginSignIn(i)
  <2>1. member'.pc = "save" /\ member.pc = "idle" /\ UNCHANGED <<listed, stored, lost>>
    BY <1>2 DEF BeginSignIn, IdleMember
  <2> QED  BY <1>1, <2>1 DEF Stays, HasSession
<1>3. CASE BeginRemove(i)
  <2>1. member'.pc = "wait" /\ member.pc = "idle" /\ UNCHANGED <<listed, stored, lost>>
    BY <1>3 DEF BeginRemove, IdleMember, entries
  <2> QED  BY <1>1, <2>1 DEF Stays, HasSession
<1>4. CASE BeginUndo(i)
  <2>1. member.pc = "idle" /\ UNCHANGED stored
    BY <1>4 DEF BeginUndo
  <2>2. CASE listed # {}
    <3>1. member' = IdleMember /\ UNCHANGED <<listed, lost>>
      BY <1>4, <2>2 DEF BeginUndo
    <3> QED  BY <1>1, <2>1, <3>1 DEF Stays, HasSession, IdleMember
  <2>3. CASE listed = {} /\ removed[i] = "session"
    <3>1. /\ listed' = {i} /\ UNCHANGED lost
          /\ member' = [IdleMember EXCEPT !.op = "undo", !.id = i, !.kept = "session", !.pc = "save"]
      BY <1>4, <2>3 DEF BeginUndo
    <3>2. member'.op = "undo" /\ member'.id = i /\ member'.pc = "save"
      BY <3>1 DEF IdleMember
    <3>3. InHand(i)'
      BY <3>2 DEF InHand
    <3> QED  BY <3>1, <3>2, <3>3 DEF Stays
  <2>4. CASE listed = {} /\ removed[i] # "session"
    <3>1. PICK kept : kept = removed[i]
      OBVIOUS
    <3>2. /\ listed' = {i} /\ Loses(i)
          /\ member' = [IdleMember EXCEPT !.op = "undo", !.id = i, !.kept = kept, !.pc = "flag"]
      BY <1>4, <2>4, <3>1 DEF BeginUndo
    <3>3. member'.pc = "flag"
      BY <3>2 DEF IdleMember
    <3>4. HasSession(i)'
      BY <2>1, <3>2, LosesHas
    <3> QED  BY <3>2, <3>3, <3>4 DEF Stays
  <2> QED  BY <2>2, <2>3, <2>4
<1>5. CASE UndoRefused(i) \/ Forget(i) \/ \E r \in Refreshers : BeginRefresh(r, i)
  BY <1>5 DEF UndoRefused, Forget, BeginRefresh, Stays, HasSession, InHand, entries
<1> QED  BY <1>2, <1>3, <1>4, <1>5

LEMMA StaysByStop ==
  ASSUME AccountInv, Stays, Stop
  PROVE  Stays'
<1>1. PICK now \in [Ids -> {"none", "session", "damaged"}] :
        /\ \A i \in Ids : now[i] = stored[i] \/ (i \in clash /\ now[i] = "damaged")
        /\ stored' = now
        /\ lost' = lost \cup {i \in Ids : now[i] # "session" /\ (InHand(i) \/ i \in clash)}
  BY DEF Stop
<1>2. \A i \in listed : HasSession(i)'
  BY <1>1 DEF Stays, HasSession, AccountInv, TypeFits
<1>3. member'.pc = "idle" /\ UNCHANGED listed
  BY DEF Stop, IdleMember
<1> QED  BY <1>2, <1>3 DEF Stays

(* A listed account has its session, through refusals of the list and the  *)
(* keychain, overlapping calls and ends of the launcher, unless a call     *)
(* lost it in one of the ways SessionStays lists (save_microsoft, remove,  *)
(* undo_remove, ensure_fresh).                                             *)
THEOREM ListedHasSession == Spec => []SessionStays
<1>1. Init => Stays
  BY DEF Init, Stays, HasSession, IdleMember
<1>2. AccountInv /\ Stays /\ [Next]_vars => Stays'
  <2> SUFFICES ASSUME AccountInv, Stays, [Next]_vars PROVE Stays'
    OBVIOUS
  <2>1. CASE UNCHANGED vars
    BY <2>1 DEF vars, Stays, HasSession, InHand
  <2> QED  BY <2>1, StaysByMember, StaysByRefresh, StaysByCall, StaysByStop DEF Next
<1>3. Stays => SessionStays
  BY DEF SessionStays, Stays, HasSession
<1> QED  BY <1>1, <1>2, <1>3, InitFits, StepKeeps, PTL DEF Spec
=============================================================================
