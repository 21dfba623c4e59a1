------------------------------ MODULE Downloads ------------------------------
(***************************************************************************)
(* One file of a download, its size and checksum known (crates/pl-net,     *)
(* download.rs: fetch_one, stream_to_file).  A fetch writes the file's     *)
(* .part, checks what it received and renames the part to the file; it     *)
(* goes on with a part an earlier fetch left, tries again and turns to the *)
(* next mirror.                                                            *)
(*                                                                         *)
(* Batches that fetch the same file share the part: Together says whether  *)
(* they may at one time.  Contents are pieces, "good" where they are the   *)
(* right ones for their place.  Progress counts are left out.              *)
(***************************************************************************)
EXTENDS Integers, Sequences

CONSTANTS
    Missing,   \* no file
    Fetchers,  \* batches that want the file
    Keepers,   \* those that keep partial files (background downloads)
    Together,  \* two of them may run at one time
    Size,      \* pieces of the file
    Urls,      \* the file's sources
    Retries,   \* Http::retries
    Trusted,   \* VerifyMode: "Full", "Size" or "Exists"
    MaxFaults, \* bound: failures of servers, connections and the disk
    MaxCalls   \* bound: fetches

ASSUME FetchersAssumption == Keepers \subseteq Fetchers /\ Together \in BOOLEAN
ASSUME SizeAssumption == Size \in Nat \ {0} /\ Urls \in Nat \ {0} /\ Retries \in Nat
ASSUME BoundAssumption == {MaxFaults, MaxCalls} \subseteq Nat
ASSUME MissingAssumption == Missing \notin Seq({"good", "bad"})

VARIABLES
    dest,   \* the file's contents, or Missing
    part,   \* the part's
    fetch,  \* [Fetchers -> the fetch under way, or the result of the last]
    faults, \* failures so far
    calls

vars == <<dest, part, fetch, faults, calls>>

Pieces == {"good", "bad"}
Good == [i \in 1..Size |-> "good"]
Prefix(s, n) == SubSeq(s, 1, IF n <= Len(s) THEN n ELSE Len(s))
Here(path) == path # Missing

Idle(result) == [pc |-> "idle", result |-> result, url |-> 1, attempt |-> 0, from |-> 0,
                 at |-> 0, hashed |-> <<>>, file |-> "none"]

(* Every fetch keeps its type; contents are as long as a fetch may make them. *)
TypeOK ==
    /\ {dest, part} \subseteq Seq(Pieces) \cup {Missing}
    /\ \A f \in Fetchers :
        /\ fetch[f].pc \in {"idle", "ask", "sent", "hash", "open", "stream"}
        /\ fetch[f].result \in {"none", "ok", "skipped", "failed", "full", "cancelled"}
        /\ fetch[f].url \in 1..Urls /\ fetch[f].attempt \in 0..Retries
        /\ fetch[f].from \in 0..(Size - 1) /\ fetch[f].at \in 0..(Size + 1)
        /\ fetch[f].hashed \in Seq(Pieces)
        /\ fetch[f].file \in {"none", "part", "dest", "orphan"}
    /\ faults \in 0..MaxFaults /\ calls \in 0..MaxCalls

\* A part may be left by another version of the file, or be too long.
Init ==
    /\ dest \in {Missing, [i \in 1..Size |-> "bad"], Good}
    /\ \E n \in 1..(Size + 1), p \in Pieces : part \in {Missing, [i \in 1..n |-> p]}
    /\ fetch = [f \in Fetchers |-> Idle("none")]
    /\ faults = 0 /\ calls = 0

Fault == faults < MaxFaults /\ faults' = faults + 1
NoFault == UNCHANGED faults

Now(f, changed) == fetch' = [fetch EXCEPT ![f] = changed]
Renamed(g) == [fetch[g] EXCEPT !.file =
    CASE @ = "part" -> "dest" [] @ = "dest" -> "orphan" [] OTHER -> @]
Unlinked(g) == [fetch[g] EXCEPT !.file = IF @ = "part" THEN "orphan" ELSE @]

-----------------------------------------------------------------------------
\* verify_file
Valid(file) ==
    /\ Here(file)
    /\ \/ Trusted = "Exists"
       \/ Trusted = "Size" /\ Len(file) = Size
       \/ file = Good

Begin(f) ==
    /\ fetch[f].pc = "idle" /\ calls < MaxCalls
    /\ Together \/ \A g \in Fetchers : fetch[g].pc = "idle"
    /\ calls' = calls + 1
    /\ Now(f, IF Valid(dest) THEN Idle("skipped") ELSE [Idle("none") EXCEPT !.pc = "ask"])
    /\ UNCHANGED <<dest, part, faults>>

\* fetch_one after an attempt that failed: the next attempt, the next mirror
\* or the end.
After(f, transient) ==
    LET now == fetch[f]
    IN  CASE transient /\ now.attempt < Retries ->
               [Idle("none") EXCEPT !.pc = "ask", !.url = now.url, !.attempt = now.attempt + 1]
          [] ~(transient /\ now.attempt < Retries) /\ now.url < Urls ->
               [Idle("none") EXCEPT !.pc = "ask", !.url = now.url + 1]
          [] OTHER -> Idle("failed")

\* is_transient: a corrupted file may come whole the next time.
TransientRequest(error) == error = "request"
Transient(error) == error \in {"request", "check"}

\* What an attempt that failed while it wrote leaves of the part.  Else it is
\* removed, and an error of the removal is not looked at (in Unfit either).
Keeps(f, error) == f \in Keepers /\ fetch[f].at > 0 /\ error \in {"cancelled", "request"}

Failed(f, error) ==
    LET next == CASE error = "cancelled" -> Idle("cancelled")
                  [] error = "disk" -> Idle("full")
                  [] OTHER -> After(f, Transient(error))
    IN  \/ Now(f, next) /\ UNCHANGED part
        \/ /\ ~Keeps(f, error)
           /\ part' = Missing
           /\ fetch' = [g \in Fetchers |-> IF g = f THEN next ELSE Unlinked(g)]

\* partial_len, and the request.
PartLen == IF Here(part) /\ Len(part) < Size THEN Len(part) ELSE 0
Ask(f) ==
    /\ fetch[f].pc = "ask"
    /\ Now(f, [fetch[f] EXCEPT !.pc = "sent", !.from = PartLen])
    /\ UNCHANGED <<dest, part, faults, calls>>

\* The rest of the file comes, or the whole file.
Response(f) ==
    /\ fetch[f].pc = "sent"
    /\ \/ Now(f, [fetch[f] EXCEPT !.pc = "hash"])
       \/ Now(f, [fetch[f] EXCEPT !.pc = "hash", !.from = 0])
    /\ UNCHANGED <<dest, part, faults, calls>>

\* Another range came, or none: the part goes and the whole file is asked for.
UnfitAgain(f) ==
    /\ fetch[f].pc = "sent" /\ fetch[f].from > 0
    /\ Now(f, [fetch[f] EXCEPT !.pc = "ask"])
    /\ UNCHANGED <<dest, part, faults, calls>>
Unfit(f) ==
    /\ fetch[f].pc = "sent" /\ fetch[f].from > 0
    /\ LET whole == [fetch[f] EXCEPT !.from = 0]
       IN  \/ Now(f, whole) /\ UNCHANGED part
           \/ /\ part' = Missing
              /\ fetch' = [g \in Fetchers |-> IF g = f THEN whole ELSE Unlinked(g)]
    /\ UNCHANGED <<dest, faults, calls>>

\* No answer or an error status, which may pass or not; the part waits.
Refused(f) ==
    /\ fetch[f].pc = "sent" /\ Fault
    /\ \E transient \in BOOLEAN : Now(f, After(f, transient))
    /\ UNCHANGED <<dest, part, calls>>

\* hash_prefix: the part's bytes are checked again with the rest.
HashNothing(f) ==
    /\ fetch[f].pc = "hash" /\ NoFault
    /\ Now(f, [fetch[f] EXCEPT !.pc = "open", !.hashed = Prefix(Good, fetch[f].from)])
    /\ UNCHANGED <<dest, part, calls>>
HashPrefix(f) ==
    /\ fetch[f].pc = "hash"
    /\ IF fetch[f].from > 0 /\ ~Here(part) THEN Failed(f, "local")
       ELSE /\ Now(f, [fetch[f] EXCEPT !.pc = "open",
                          !.hashed = IF fetch[f].from = 0 THEN <<>> ELSE Prefix(part, fetch[f].from)])
            /\ UNCHANGED part
    /\ UNCHANGED <<dest, faults, calls>>

Filled(s, n) == [i \in 1..n |-> IF i <= Len(s) THEN s[i] ELSE "bad"]

\* The part is cut to what goes on, or made anew.
Open(f) ==
    /\ fetch[f].pc = "open"
    /\ IF fetch[f].from > 0 /\ ~Here(part) THEN Failed(f, "local")
       ELSE /\ part' = IF fetch[f].from = 0 THEN <<>> ELSE Filled(part, fetch[f].from)
            /\ Now(f, [fetch[f] EXCEPT !.pc = "stream", !.at = @ + fetch[f].from, !.file = "part"])
    /\ UNCHANGED <<dest, faults, calls>>

Written(path, f, piece) == [Filled(path, IF Len(path) > fetch[f].at THEN Len(path) ELSE fetch[f].at + 1)
                              EXCEPT ![fetch[f].at + 1] = piece]
Receive(f) ==
    /\ fetch[f].pc = "stream" /\ fetch[f].at <= Size
    /\ \E piece \in Pieces :
        /\ IF piece = "good" /\ fetch[f].at < Size THEN NoFault ELSE Fault
        /\ Now(f, [fetch[f] EXCEPT !.at = @ + 1, !.hashed = Append(@, piece)])
        /\ part' = IF fetch[f].file = "part" THEN Written(part, f, piece) ELSE part
        /\ dest' = IF fetch[f].file = "dest" THEN Written(dest, f, piece) ELSE dest
    /\ UNCHANGED calls

\* The connection drops, or the disk refuses a write (full or another error).
Broken(f) ==
    /\ fetch[f].pc = "stream" /\ Fault
    /\ \E error \in {"request", "disk", "local"} : Failed(f, error)
    /\ UNCHANGED <<dest, calls>>

\* The body ends: size and checksum, then the rename.
End(f) ==
    /\ fetch[f].pc = "stream"
    /\ IF fetch[f].at >= Size THEN NoFault ELSE Fault
    /\ CASE fetch[f].at # Size \/ fetch[f].hashed # Good -> Failed(f, "check") /\ UNCHANGED dest
         [] fetch[f].at = Size /\ fetch[f].hashed = Good /\ ~Here(part) ->
              Failed(f, "local") /\ UNCHANGED dest
         [] OTHER ->
              /\ dest' = part /\ part' = Missing
              /\ fetch' = [g \in Fetchers |-> IF g = f THEN Idle("ok") ELSE Renamed(g)]
    /\ UNCHANGED calls

Cancel(f) ==
    /\ \/ fetch[f].pc \in {"ask", "sent"} /\ Now(f, Idle("cancelled")) /\ UNCHANGED part
       \/ fetch[f].pc = "stream" /\ Failed(f, "cancelled")
    /\ UNCHANGED <<dest, faults, calls>>

\* The launcher ends; the files stay as they are.
Stop ==
    /\ \E f \in Fetchers : fetch[f].pc # "idle"
    /\ Fault
    /\ fetch' = [f \in Fetchers |-> Idle("none")]
    /\ UNCHANGED <<dest, part, calls>>

Steps(f) ==
    \/ Ask(f) \/ Response(f) \/ Unfit(f) \/ Refused(f)
    \/ HashPrefix(f) \/ Open(f) \/ Receive(f) \/ Broken(f) \/ End(f)

Next == Stop \/ \E f \in Fetchers : Begin(f) \/ Steps(f) \/ Cancel(f)

Spec == Init /\ [][Next]_vars
\* Servers answer or time out, and a body ends.
FairSpec == Spec /\ \A f \in Fetchers : WF_vars(Steps(f))

-----------------------------------------------------------------------------
(* What is moved into place was checked: whatever the part held, whatever  *)
(* came and however a fetch ended, the file stays as it was or becomes the *)
(* right one at one moment (stream_to_file; pl-net's lib.rs).              *)
PutsRight == [][dest' # dest => dest' = Good]_vars

(* A part that does not belong to the file costs an attempt, never a       *)
(* mirror (it "fails the check and goes", stream_to_file): a fetch fails   *)
(* when every source failed it, or the disk is full.  And TypeOK.          *)
EveryMirrorTried ==
    /\ TypeOK
    /\ \A f \in Fetchers : fetch[f].result = "failed" => faults >= Urls

(* Every fetch ends, whatever ranges the servers answer with.              *)
FetchEnds == \A f \in Fetchers : fetch[f].pc # "idle" ~> fetch[f].pc = "idle"
=============================================================================
