------------------------------ MODULE Keychain ------------------------------
(***************************************************************************)
(* One account's session in the OS keychain (crates/pl-auth, secrets.rs:   *)
(* KeyringStore).  An entry holds little, so a session is cut into parts:  *)
(* the head entry names a set of chunk entries and holds the first part;   *)
(* saves use two sets in turn and switch by rewriting the head.            *)
(*                                                                         *)
(* A step is one operation on one entry.  Saves and deletes come one at a  *)
(* time, as KeyringStore asks of its caller (Accounts says how far that    *)
(* is so); a load may run beside them, and the launcher may end anywhere.  *)
(* Heads and payloads nobody here wrote are left out.                      *)
(*                                                                         *)
(* Init, Next and the rest carry Key in their names because AccountsProofs *)
(* reads this module beside Accounts.                                      *)
(***************************************************************************)
EXTENDS Integers

CONSTANTS
    Sessions,
    Nothing,   \* no session; an entry that does not exist
    Damaged,   \* parts of different sessions
    Parts,     \* [Sessions -> number of parts], the first in the head
    MaxParts,  \* MAX_CHUNKS
    Attempts,  \* READ_ATTEMPTS
    Failing,   \* what the keychain may refuse to a save or delete: "read",
               \* "write", "remove"
    MaxCalls,  \* bound: saves and deletes
    MaxStops   \* bound: ends of the launcher

Chunks == 1..(MaxParts - 1)
Sets == {"Legacy", "A", "B"}
NoHead == [set |-> "A", session |-> Nothing]

ASSUME PartsAssumption == MaxParts \in Nat \ {0} /\ Parts \in [Sessions -> 1..MaxParts]
ASSUME BoundAssumption == {MaxCalls, MaxStops} \subseteq Nat /\ Attempts \in Nat \ {0}
ASSUME NothingAssumption == Nothing \notin Sessions /\ Damaged \notin Sessions \cup {Nothing}

VARIABLES
    head,   \* the head entry: [set, session], or NoHead
    chunk,  \* [Sets -> [Chunks -> the session whose part the entry holds]]
    writer, \* the save or delete under way
    last,   \* [kind, answer] of the last one
    reader, \* the load under way, and what it returned
    calls, stops

keyVars == <<head, chunk, writer, last, reader, calls, stops>>

Heads == [set : Sets, session : Sessions] \cup {NoHead}
Kinds == {"none", "save", "delete"}

(* Every entry and every call keeps its type. *)
KeyTypeOK ==
    /\ head \in Heads
    /\ chunk \in [Sets -> [Chunks -> Sessions \cup {Nothing}]]
    /\ writer \in [kind : Kinds, pc : {"idle", "write", "clean", "undo", "head", "chunks", "sweep"},
                   session : Sessions \cup {Nothing}, set : Sets, old : Heads,
                   at : 1..MaxParts, upto : 1..MaxParts]
    /\ last \in [kind : Kinds, answer : {"none", "ok", "failed", "stopped"}]
    /\ reader \in [pc : {"idle", "parts", "again", "done"}, head : Heads, at : 1..MaxParts,
                   parts : SUBSET Sessions, attempt : 1..Attempts,
                   result : Sessions \cup {Nothing, Damaged},
                   seen : SUBSET (Sessions \cup {Nothing}), beside : 0..(MaxCalls + 1)]

IdleWriter == [kind |-> "none", pc |-> "idle", session |-> Nothing, set |-> "A",
               old |-> NoHead, at |-> 1, upto |-> 1]
IdleReader == [pc |-> "idle", head |-> NoHead, at |-> 1, parts |-> {}, attempt |-> 1,
               result |-> Nothing, seen |-> {}, beside |-> 0]

KeyInit ==
    /\ head \in {NoHead} \cup [set : {"Legacy", "A"}, session : Sessions]
    /\ chunk = [t \in Sets |-> [i \in Chunks |->
          IF head # NoHead /\ t = head.set /\ i < Parts[head.session]
          THEN head.session ELSE Nothing]]
    /\ writer = IdleWriter
    /\ last = [kind |-> "none", answer |-> "none"]
    /\ reader = IdleReader
    /\ calls = 0 /\ stops = 0

PartsOf(h) == IF h = NoHead THEN 1 ELSE Parts[h.session]

\* ChunkSet::next, and the set of a save that found no head.  (The forms with
\* longer names are mistakes the runs' properties tell from the code.)
NextSetInPlace(old) == IF old = NoHead \/ old.set = "Legacy" THEN "A" ELSE old.set
NextSet(old) == IF old # NoHead /\ old.set = "A" THEN "B" ELSE "A"

\* What current makes of the head.
Current(h) == IF "read" \in Failing THEN h \in {head, NoHead} ELSE h = head

May(op) == op \in Failing

-----------------------------------------------------------------------------
(* A load notes the sessions that were stored meanwhile and how many calls *)
(* ran beside it (for ReadsTruly only).                                    *)
Loading == reader.pc \in {"parts", "again"}
Beside == IF Loading THEN [reader EXCEPT !.beside = @ + 1] ELSE reader
Switched(session) == IF Loading THEN [reader EXCEPT !.seen = @ \cup {session}] ELSE reader

BeginSave(s) ==
    /\ writer.pc = "idle" /\ calls < MaxCalls
    /\ calls' = calls + 1
    /\ \E h \in Heads :
        /\ Current(h)
        /\ writer' = [kind |-> "save", pc |-> "write", session |-> s, set |-> NextSet(h),
                      old |-> h, at |-> 1, upto |-> Parts[s]]
    /\ reader' = Beside
    /\ UNCHANGED <<head, chunk, last, stops>>

Return(answer) ==
    /\ writer' = IdleWriter
    /\ last' = [kind |-> writer.kind, answer |-> answer]

WriteChunk ==
    /\ writer.pc = "write" /\ writer.at < writer.upto
    /\ chunk' = [chunk EXCEPT ![writer.set][writer.at] = writer.session]
    /\ writer' = [writer EXCEPT !.at = @ + 1]
    /\ UNCHANGED <<head, last, reader, calls, stops>>

\* The switch: from here on the new session is the stored one.
WriteHead ==
    /\ writer.pc = "write" /\ writer.at = writer.upto
    /\ head' = [set |-> writer.set, session |-> writer.session]
    /\ reader' = Switched(writer.session)
    /\ writer' = [writer EXCEPT !.pc = "clean", !.set = writer.old.set, !.at = 1,
                                !.upto = PartsOf(writer.old)]
    /\ UNCHANGED <<chunk, last, calls, stops>>

\* The chunks written so far are taken back.
WriteRefused ==
    /\ May("write") /\ writer.pc = "write"
    /\ writer' = [writer EXCEPT !.pc = "undo", !.at = 1, !.upto = writer.at]
    /\ UNCHANGED <<head, chunk, last, reader, calls, stops>>

BeginDelete ==
    /\ writer.pc = "idle" /\ calls < MaxCalls
    /\ calls' = calls + 1
    /\ \E h \in Heads :
        /\ Current(h)
        /\ writer' = [kind |-> "delete", pc |-> "head", session |-> Nothing, set |-> h.set,
                      old |-> h, at |-> 1, upto |-> PartsOf(h)]
    /\ reader' = Beside
    /\ UNCHANGED <<head, chunk, last, stops>>

RemoveHead ==
    /\ writer.pc = "head"
    /\ head' = NoHead
    /\ reader' = Switched(Nothing)
    /\ writer' = [writer EXCEPT !.pc = "chunks"]
    /\ UNCHANGED <<chunk, last, calls, stops>>

\* remove_chunks goes on after a refusal; a delete gives up.
RemoveChunk ==
    /\ writer.pc \in {"clean", "undo", "chunks"} /\ writer.at < writer.upto
    /\ chunk' = [chunk EXCEPT ![writer.set][writer.at] = Nothing]
    /\ writer' = [writer EXCEPT !.at = @ + 1]
    /\ UNCHANGED <<head, last, reader, calls, stops>>

LeaveChunk ==
    /\ May("remove") /\ writer.pc \in {"clean", "undo"} /\ writer.at < writer.upto
    /\ writer' = [writer EXCEPT !.at = @ + 1]
    /\ UNCHANGED <<head, chunk, last, reader, calls, stops>>

EndSaveGladly ==
    /\ writer.pc \in {"clean", "undo"} /\ writer.at = writer.upto
    /\ Return("ok")
    /\ UNCHANGED <<head, chunk, reader, calls, stops>>
EndSave ==
    /\ writer.pc \in {"clean", "undo"} /\ writer.at = writer.upto
    /\ Return(IF writer.pc = "clean" THEN "ok" ELSE "failed")
    /\ UNCHANGED <<head, chunk, reader, calls, stops>>

\* Each set's chunks are looked for up to the first one that is missing.
BeginSweep ==
    /\ writer.pc = "chunks" /\ writer.at = writer.upto
    /\ writer' = [writer EXCEPT !.pc = "sweep", !.set = "Legacy", !.at = 1]
    /\ UNCHANGED <<head, chunk, last, reader, calls, stops>>

Sweep ==
    /\ writer.pc = "sweep"
    /\ IF writer.at \in Chunks /\ chunk[writer.set][writer.at] # Nothing
       THEN /\ chunk' = [chunk EXCEPT ![writer.set][writer.at] = Nothing]
            /\ writer' = [writer EXCEPT !.at = @ + 1]
            /\ UNCHANGED last
       ELSE /\ IF writer.set = "B" THEN Return("ok")
               ELSE /\ writer' = [writer EXCEPT !.at = 1,
                                     !.set = IF writer.set = "Legacy" THEN "A" ELSE "B"]
                    /\ UNCHANGED last
            /\ UNCHANGED chunk
    /\ UNCHANGED <<head, reader, calls, stops>>

RemoveRefused ==
    /\ May("remove") /\ writer.pc \in {"head", "chunks", "sweep"}
    /\ Return("failed")
    /\ UNCHANGED <<head, chunk, reader, calls, stops>>

-----------------------------------------------------------------------------
BeginLoad ==
    /\ ~Loading /\ head # NoHead
    /\ reader' = [IdleReader EXCEPT !.pc = "parts", !.head = head, !.parts = {head.session},
                    !.seen = {head.session}, !.beside = IF writer.pc = "idle" THEN 0 ELSE 1]
    /\ UNCHANGED <<head, chunk, writer, last, calls, stops>>

Loaded(result) == reader' = [reader EXCEPT !.pc = "done", !.result = result]

ReadPart ==
    /\ reader.pc = "parts"
    /\ LET part == chunk[reader.head.set][reader.at]
       IN IF reader.at = PartsOf(reader.head)
          THEN Loaded(IF reader.parts = {reader.head.session} THEN reader.head.session ELSE Damaged)
          ELSE reader' = IF part = Nothing THEN [reader EXCEPT !.pc = "again"]
                         ELSE [reader EXCEPT !.parts = @ \cup {part}, !.at = @ + 1]
    /\ UNCHANGED <<head, chunk, writer, last, calls, stops>>

\* A chunk is gone: the load starts over if the head changed.
ReadAgainNever ==
    /\ reader.pc = "again"
    /\ Loaded(Nothing)
    /\ UNCHANGED <<head, chunk, writer, last, calls, stops>>
ReadAgain ==
    /\ reader.pc = "again"
    /\ IF head \in {reader.head, NoHead} \/ reader.attempt = Attempts
       THEN Loaded(Nothing)
       ELSE reader' = [reader EXCEPT !.pc = "parts", !.head = head, !.parts = {head.session},
                         !.at = 1, !.attempt = @ + 1]
    /\ UNCHANGED <<head, chunk, writer, last, calls, stops>>

\* The launcher ends; the keychain keeps what it has.
StopLauncher ==
    /\ stops < MaxStops /\ writer.pc # "idle"
    /\ stops' = stops + 1
    /\ Return("stopped")
    /\ reader' = IdleReader
    /\ UNCHANGED <<head, chunk, calls>>

-----------------------------------------------------------------------------
Saves == (\E s \in Sessions : BeginSave(s)) \/ WriteChunk \/ WriteHead \/ WriteRefused
           \/ LeaveChunk \/ EndSave
Deletes == BeginDelete \/ RemoveHead \/ BeginSweep \/ Sweep \/ RemoveRefused
Loads == BeginLoad \/ ReadPart \/ ReadAgain

KeyNext == Saves \/ Deletes \/ RemoveChunk \/ Loads \/ StopLauncher

KeySpec == KeyInit /\ [][KeyNext]_keyVars

-----------------------------------------------------------------------------
(* A session the head names is whole: a save that is refused or ends half  *)
(* way leaves the one that was stored, never a mix (KeyringStore's doc).   *)
Whole ==
    head # NoHead =>
        \A i \in Chunks : i < Parts[head.session] => chunk[head.set][i] = head.session

(* Through the entries, the store is one register: calls take effect at    *)
(* once (the rewriting or removal of the head) and answer truly.           *)
Stored == IF Whole THEN head.session ELSE Damaged
Call == [kind |-> writer.kind, wanted |-> writer.session,
         stage |-> IF writer.pc \in {"clean", "chunks", "sweep"} THEN "done" ELSE "pending"]
Register == INSTANCE SessionRegister WITH stored <- Stored, call <- Call, answer <- last.answer
IsRegister == Register!Spec

(* A load with one save or delete beside it returns what was stored at     *)
(* some moment while it read; retries hide the change of sets (load).  And *)
(* KeyTypeOK.                                                              *)
ReadsTruly ==
    /\ KeyTypeOK
    /\ reader.pc = "done" /\ reader.beside <= 1 => reader.result \in reader.seen

(* Chunks that could not be removed go with the account: nothing is left   *)
(* after a delete that succeeded (remove_chunks, delete).                  *)
LeftoversGo ==
    [][writer.kind = "delete" /\ writer'.kind = "none" /\ last'.answer = "ok"
        => chunk' = [t \in Sets |-> [i \in Chunks |-> Nothing]]]_keyVars
=============================================================================
