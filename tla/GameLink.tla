------------------------------ MODULE GameLink ------------------------------
(***************************************************************************)
(* A game connection relayed between a guest and a host                    *)
(* (crates/pl-host: tunnel/link.rs, tunnel/channel.rs, and the resume of   *)
(* guest/session.rs and host/session.rs).  Each side's link joins its      *)
(* game's connection with a stream; streams break and are replaced, after  *)
(* a break (resume) or while the old one works (planned move).             *)
(*                                                                         *)
(* A step is one branch of run's select! or one step of a session task.    *)
(* Bytes are numbers: the n-th a game gives is n.  What a channel queued,  *)
(* the network carries and the peer's channel queued is one FIFO, of which *)
(* a broken stream delivers any prefix.  Control streams, the choice of a  *)
(* path, records' encryption and keepalives are left out; a game takes     *)
(* what it is given or fails.                                              *)
(***************************************************************************)
EXTENDS Integers, Sequences

CONSTANTS
    MaxRead,    \* bound, [Sides -> Nat]: bytes each game gives
    MaxData,    \* MAX_DATA: bytes of a record
    MaxUnacked, \* LinkConfig.max_unacked
    AckEvery,   \* LinkConfig.ack_every
    Queue,      \* OUT_QUEUE and IN_QUEUE together
    MaxStreams, \* bound: streams of the connection, the first included
    Faulty      \* bound: the sides whose game's connection or session may fail

Sides == {"guest", "host"}
Other(s) == IF s = "guest" THEN "host" ELSE "guest"
Streams == 1..MaxStreams
NoStream == 0
None == -1

ASSUME BoundAssumption == MaxRead \in [Sides -> Nat] /\ MaxStreams \in Nat \ {0}
ASSUME FaultAssumption == Faulty \subseteq Sides
ASSUME LimitAssumption == {MaxData, MaxUnacked, AckEvery, Queue} \subseteq Nat \ {0}

VARIABLES
    link,    \* the state of each side's run
    stream,  \* the streams: what travels to each side, which ends are open
    attempt, \* the guest session's resume, while it has a game: [stream, planned, game]
    read,    \* bytes each game gave
    taken    \* bytes handed to each game

vars == <<link, stream, attempt, read, taken>>

Ends == {"no", "Closed", "Expired", "Aborted"}

DataMessages == [kind : {"data"}, offset : Nat, bytes : Seq(Nat)]
CountMessages == [kind : {"ack", "close", "ok"}, count : Nat]
Messages == DataMessages \cup CountMessages \cup [kind : {"no"}]
Ack(next) == [kind |-> "ack", count |-> next]
Close(at) == [kind |-> "close", count |-> at]
Ok(recv) == [kind |-> "ok", count |-> recv]
No == [kind |-> "no"]

LinkStates ==
    [base : Nat, data : Seq(Nat), sent : Nat, inNext : Nat, unacked : Nat,
     ackAt : BOOLEAN, ackDue : BOOLEAN, localEnd : BOOLEAN, localDead : BOOLEAN,
     writerFailed : BOOLEAN, closeSent : BOOLEAN, peerClose : Nat \cup {None},
     channel : Streams \cup {NoStream}, broken : BOOLEAN, end : Ends]

StreamStates ==
    [to : [Sides -> Seq(Messages)], at : [Sides -> {"none", "open", "gone"}],
     hello : Nat \cup {None}, cut : BOOLEAN]

(* Every component keeps its type. *)
TypeOK ==
    /\ link \in [Sides -> LinkStates]
    /\ stream \in [Streams -> StreamStates]
    /\ attempt \in [stream : Streams \cup {NoStream}, planned : BOOLEAN, game : BOOLEAN]
    /\ read \in [Sides -> Nat]
    /\ taken \in [Sides -> Seq(Nat)]

\* The guest's link starts with the handshake it already read (prefix).
Init ==
    /\ \E p \in 0..MaxRead["guest"] : read = [s \in Sides |-> IF s = "guest" THEN p ELSE 0]
    /\ link = [s \in Sides |->
          [base |-> 0, data |-> [i \in 1..read[s] |-> i], sent |-> 0, inNext |-> 0, unacked |-> 0,
           ackAt |-> FALSE, ackDue |-> FALSE, localEnd |-> FALSE, localDead |-> FALSE,
           writerFailed |-> FALSE, closeSent |-> FALSE, peerClose |-> None,
           channel |-> 1, broken |-> FALSE, end |-> "no"]]
    /\ stream = [k \in Streams |->
          [to |-> [s \in Sides |-> <<>>],
           at |-> [s \in Sides |-> IF k = 1 THEN "open" ELSE "none"],
           hello |-> None, cut |-> FALSE]]
    /\ attempt = [stream |-> NoStream, planned |-> FALSE, game |-> TRUE]
    /\ taken = [s \in Sides |-> <<>>]

-----------------------------------------------------------------------------
(* Streams.  st is the value of stream a step works on. *)

\* Queues m for the other side; a writer whose peer is gone loses it.
Put(st, k, s, m) ==
    IF st[k].cut \/ st[k].at[Other(s)] = "gone" THEN st
    ELSE [st EXCEPT ![k].to[Other(s)] = Append(@, m)]

Room(k, s) ==
    \/ stream[k].cut \/ stream[k].at[Other(s)] = "gone"
    \/ Len(stream[k].to[Other(s)]) < Queue

\* Dropping a channel aborts its reader; what it queued still goes out.
Leave(st, k, s) ==
    IF k = NoStream THEN st
    ELSE [st EXCEPT ![k].at[s] = "gone", ![k].to[s] = <<>>]

Pop(k, s) == [stream EXCEPT ![k].to[s] = Tail(@)]

\* The stream has ended for side s, which has taken all that came.
Ended(k, s) ==
    /\ stream[k].to[s] = <<>>
    /\ stream[k].cut \/ stream[k].at[Other(s)] = "gone"

-----------------------------------------------------------------------------
(* Links.  l is the link's state and st the streams, so far in this step. *)

Running(s) == link[s].end = "no"
End(l) == l.base + Len(l.data)
Larger(a, b) == IF a < b THEN b ELSE a
Smaller(a, b) == IF a < b THEN a ELSE b

Acknowledge(l, next) ==
    [l EXCEPT !.data = SubSeq(@, next - l.base + 1, Len(@)), !.base = next]

Chunk(l) ==
    SubSeq(l.data, l.sent - l.base + 1, Smaller(Len(l.data), l.sent - l.base + MaxData))

Goes(s, l, st) ==
    /\ link' = [link EXCEPT ![s] = l]
    /\ stream' = st

BreaksUntimed(s, l, st) ==
    Goes(s, [l EXCEPT !.channel = NoStream], Leave(st, l.channel, s))
Breaks(s, l, st) ==
    Goes(s, [l EXCEPT !.channel = NoStream, !.broken = TRUE], Leave(st, l.channel, s))

\* After an orderly end the peer learns that everything arrived.
Finish(s, l, st, end) ==
    LET told == IF end = "Closed" /\ l.channel # NoStream
                THEN Put(st, l.channel, s, Ack(l.inNext)) ELSE st
    IN Goes(s, [l EXCEPT !.end = end, !.channel = NoStream, !.broken = FALSE],
            Leave(told, l.channel, s))

ReadLocal(s) ==
    /\ Running(s) /\ ~link[s].localEnd /\ Len(link[s].data) < MaxUnacked
    /\ \E n \in 1..MaxData :
        /\ read[s] + n <= MaxRead[s]
        /\ read' = [read EXCEPT ![s] = @ + n]
        /\ Goes(s, [link[s] EXCEPT !.data = @ \o [i \in 1..n |-> read[s] + i]], stream)
    /\ UNCHANGED <<attempt, taken>>

LocalEof(s) ==
    /\ Running(s) /\ ~link[s].localEnd /\ Len(link[s].data) < MaxUnacked
    /\ Goes(s, [link[s] EXCEPT !.localEnd = TRUE], stream)
    /\ UNCHANGED <<attempt, read, taken>>

\* write_local gives up; the link learns it here or from its next bytes.
WriterFails(s) ==
    /\ s \in Faulty /\ Running(s) /\ ~link[s].writerFailed /\ taken[s] # <<>>
    /\ Goes(s, [link[s] EXCEPT !.writerFailed = TRUE], stream)
    /\ UNCHANGED <<attempt, read, taken>>

LocalFail(s) ==
    /\ Running(s) /\ link[s].writerFailed /\ ~link[s].localDead
    /\ Goes(s, [link[s] EXCEPT !.localDead = TRUE, !.localEnd = TRUE], stream)
    /\ UNCHANGED <<attempt, read, taken>>

Arrived(s, kind) ==
    /\ Running(s) /\ link[s].channel # NoStream
    /\ stream[link[s].channel].to[s] # <<>>
    /\ Head(stream[link[s].channel].to[s]).kind = kind

\* The bytes of m that had not arrived yet.
Fresh(l, m) == SubSeq(m.bytes, l.inNext - m.offset + 1, Len(m.bytes))

\* n new bytes: an acknowledgement is due, now or when the timer fires.
CountedLazily(l, n) ==
    [l EXCEPT !.unacked = @ + n, !.ackDue = @ \/ l.unacked + n >= AckEvery]
Counted(l, n) ==
    LET many == l.unacked + n >= AckEvery
    IN [l EXCEPT !.unacked = @ + n, !.ackDue = @ \/ many, !.ackAt = @ \/ ~many]

RecvData(s) ==
    /\ Arrived(s, "data")
    /\ LET k == link[s].channel
           m == Head(stream[k].to[s])
           last == m.offset + Len(m.bytes)
           fresh == Fresh(link[s], m)
           l == [Counted(link[s], Len(fresh)) EXCEPT
                    !.inNext = last, !.localDead = @ \/ link[s].writerFailed]
       IN IF m.offset > link[s].inNext
          THEN Breaks(s, link[s], Pop(k, s)) /\ UNCHANGED taken
          ELSE IF last <= link[s].inNext
          THEN Goes(s, link[s], Pop(k, s)) /\ UNCHANGED taken
          ELSE /\ taken' = [taken EXCEPT ![s] = IF l.localDead THEN @ ELSE @ \o fresh]
               /\ IF l.peerClose # None /\ last >= l.peerClose
                  THEN Finish(s, l, Pop(k, s), "Closed") ELSE Goes(s, l, Pop(k, s))
    /\ UNCHANGED <<attempt, read>>

RecvAck(s) ==
    /\ Arrived(s, "ack")
    /\ LET k == link[s].channel
           next == Head(stream[k].to[s]).count
           l == IF next > link[s].base
                THEN [Acknowledge(link[s], next) EXCEPT !.sent = Larger(@, next)]
                ELSE link[s]
       IN IF next > End(link[s]) THEN Breaks(s, link[s], Pop(k, s))
          ELSE IF l.closeSent /\ l.data = <<>> THEN Finish(s, l, Pop(k, s), "Closed")
          ELSE Goes(s, l, Pop(k, s))
    /\ UNCHANGED <<attempt, read, taken>>

RecvClose(s) ==
    /\ Arrived(s, "close")
    /\ LET k == link[s].channel
           at == Head(stream[k].to[s]).count
           l == [link[s] EXCEPT !.peerClose = at, !.localEnd = TRUE]
       IN IF at < link[s].inNext THEN Breaks(s, link[s], Pop(k, s))
          ELSE IF at <= l.inNext THEN Finish(s, l, Pop(k, s), "Closed")
          ELSE Goes(s, l, Pop(k, s))
    /\ UNCHANGED <<attempt, read, taken>>

StreamEnds(s) ==
    /\ Running(s) /\ link[s].channel # NoStream
    /\ Ended(link[s].channel, s)
    /\ Breaks(s, link[s], stream)
    /\ UNCHANGED <<attempt, read, taken>>

Send(s) ==
    /\ Running(s) /\ link[s].channel # NoStream /\ Room(link[s].channel, s)
    /\ LET l == link[s]
           k == l.channel
           data == [kind |-> "data", offset |-> l.sent, bytes |-> Chunk(l)]
           closed == Put(stream, k, s, Close(End(l)))
       IN \/ /\ l.ackDue
             /\ Goes(s, [l EXCEPT !.ackDue = FALSE, !.unacked = 0, !.ackAt = FALSE],
                     Put(stream, k, s, Ack(l.inNext)))
          \/ /\ ~l.ackDue /\ l.sent < End(l)
             /\ Goes(s, [l EXCEPT !.sent = @ + Len(Chunk(l))], Put(stream, k, s, data))
          \/ /\ ~l.ackDue /\ l.sent >= End(l) /\ l.localEnd /\ ~l.closeSent
             /\ IF l.data = <<>> /\ l.peerClose # None
                THEN Finish(s, [l EXCEPT !.closeSent = TRUE], closed, "Closed")
                ELSE Goes(s, [l EXCEPT !.closeSent = TRUE], closed)
    /\ UNCHANGED <<attempt, read, taken>>

AckTimer(s) ==
    /\ Running(s) /\ link[s].ackAt /\ ~link[s].ackDue
    /\ Goes(s, [link[s] EXCEPT !.ackDue = TRUE], stream)
    /\ UNCHANGED <<attempt, read, taken>>

\* Nobody attached a stream in time (15 s at the host, 12 s at the guest).
ExpireInOrder(s) ==
    /\ Running(s) /\ link[s].broken
    /\ Finish(s, link[s], stream, "Closed")
    /\ UNCHANGED <<attempt, read, taken>>
Expire(s) ==
    /\ Running(s) /\ link[s].broken
    /\ Finish(s, link[s], stream, "Expired")
    /\ UNCHANGED <<attempt, read, taken>>

\* The session ends the connection in order, or at once.
CloseCmd(s) ==
    /\ Running(s) /\ s = "guest" /\ ~link[s].localEnd
    /\ IF link[s].channel = NoStream
       THEN Finish(s, [link[s] EXCEPT !.localEnd = TRUE], stream, "Aborted")
       ELSE Goes(s, [link[s] EXCEPT !.localEnd = TRUE], stream)
    /\ UNCHANGED <<attempt, read, taken>>

Abort(s) ==
    /\ s \in Faulty /\ Running(s)
    /\ Finish(s, link[s], stream, "Aborted")
    /\ UNCHANGED <<attempt, read, taken>>

\* What Attach sets before it uses the new channel.  (The forms before Rewound
\* are the mistakes the runs' properties tell from it.)
RewoundBySent(l, peerRecv) ==
    [Acknowledge(l, l.sent) EXCEPT !.closeSent = FALSE]
RewoundNot(l, peerRecv) ==
    [Acknowledge(l, Larger(peerRecv, l.base)) EXCEPT
        !.sent = Larger(l.sent, peerRecv), !.closeSent = FALSE]
RewoundStillClosed(l, peerRecv) ==
    [Acknowledge(l, Larger(peerRecv, l.base)) EXCEPT !.sent = Larger(peerRecv, l.base)]
Rewound(l, peerRecv) ==
    [Acknowledge(l, Larger(peerRecv, l.base)) EXCEPT
        !.sent = Larger(peerRecv, l.base), !.closeSent = FALSE,
        !.ackDue = FALSE, !.unacked = 0, !.ackAt = FALSE]

Attached(s, l, st, k) ==
    Goes(s, [l EXCEPT !.channel = k, !.broken = FALSE], Leave(st, link[s].channel, s))

-----------------------------------------------------------------------------
(* The sessions. *)

Unused(k) == stream[k].at["guest"] = "none"

\* resume (after a break) or planned_move opens a stream and sends its hello.
Resume(planned) ==
    /\ attempt.game /\ attempt.stream = NoStream
    /\ planned \/ link["guest"].broken
    /\ \E k \in Streams :
        /\ Unused(k) /\ \A j \in 1..(k - 1) : ~Unused(j)
        /\ attempt' = [attempt EXCEPT !.stream = k, !.planned = planned]
        /\ stream' = [stream EXCEPT ![k].at["guest"] = "open",
                                    ![k].hello = link["guest"].inNext]
    /\ UNCHANGED <<link, read, taken>>

\* The host takes the hello: the link continues here, or refuses.
ServeResume(k) ==
    /\ stream[k].hello # None /\ stream[k].at["host"] = "none"
    /\ LET l == link["host"]
           open == [stream EXCEPT ![k].at["host"] = "open"]
           answered == Put(open, k, "host", Ok(l.inNext))
       IN IF Running("host") /\ stream[k].hello <= End(l)
          THEN Attached("host", Rewound(l, stream[k].hello), answered, k)
          ELSE Goes("host", l, Leave(Put(open, k, "host", No), k, "host"))
    /\ UNCHANGED <<attempt, read, taken>>

\* The answer cannot be queued any more: the link stays where it was.
ServeResumeFails(k) ==
    /\ stream[k].hello # None /\ stream[k].at["host"] = "none" /\ stream[k].cut
    /\ Running("host") /\ stream[k].hello <= End(link["host"])
    /\ Goes("host", Rewound(link["host"], stream[k].hello), Leave(stream, k, "host"))
    /\ UNCHANGED <<attempt, read, taken>>

Answered(kind) ==
    /\ attempt.stream # NoStream
    /\ stream[attempt.stream].to["guest"] # <<>>
    /\ Head(stream[attempt.stream].to["guest"]).kind = kind

NoAttempt == [attempt EXCEPT !.stream = NoStream, !.planned = FALSE]

ResumeOk ==
    /\ Answered("ok")
    /\ LET k == attempt.stream
           recv == Head(stream[k].to["guest"]).count
           l == link["guest"]
       IN IF Running("guest") /\ recv <= End(l)
          THEN Attached("guest", Rewound(l, recv), Pop(k, "guest"), k)
          ELSE Goes("guest", l, Leave(stream, k, "guest"))
    /\ attempt' = NoAttempt
    /\ UNCHANGED <<read, taken>>

\* no{resume}: after a break the game connection is over.
ResumeForgotten ==
    /\ Answered("no")
    /\ LET st == Leave(stream, attempt.stream, "guest")
       IN IF attempt.planned \/ ~Running("guest") THEN Goes("guest", link["guest"], st)
          ELSE Finish("guest", link["guest"], st, "Aborted")
    /\ attempt' = NoAttempt
    /\ UNCHANGED <<read, taken>>

\* The attempt's time is up or its stream failed, whatever the host made of it.
ResumeFails ==
    /\ attempt.stream # NoStream
    /\ stream' = Leave(stream, attempt.stream, "guest")
    /\ attempt' = NoAttempt
    /\ UNCHANGED <<link, read, taken>>

\* The session notices that the link ended.
GameEnded ==
    /\ attempt.game /\ attempt.stream = NoStream /\ ~Running("guest")
    /\ attempt' = [attempt EXCEPT !.game = FALSE]
    /\ UNCHANGED <<link, stream, read, taken>>

\* A stream breaks: each side still gets some of what was on its way.
Cut(k) ==
    /\ ~stream[k].cut /\ "open" \in {stream[k].at[s] : s \in Sides}
    /\ \E g \in 0..Len(stream[k].to["guest"]), h \in 0..Len(stream[k].to["host"]) :
        stream' = [stream EXCEPT ![k].cut = TRUE,
                                 ![k].to["guest"] = SubSeq(@, 1, g),
                                 ![k].to["host"] = SubSeq(@, 1, h)]
    /\ UNCHANGED <<link, attempt, read, taken>>

-----------------------------------------------------------------------------
Local(s) == ReadLocal(s) \/ LocalEof(s) \/ WriterFails(s)

\* What the link's task does on its own.
Runs(s) ==
    \/ RecvData(s) \/ RecvAck(s) \/ RecvClose(s) \/ StreamEnds(s)
    \/ Send(s) \/ AckTimer(s) \/ LocalFail(s)

Session ==
    \/ \E planned \in BOOLEAN : Resume(planned)
    \/ \E k \in Streams : ServeResume(k) \/ ServeResumeFails(k)
    \/ ResumeOk \/ ResumeForgotten \/ ResumeFails \/ GameEnded

Next ==
    \/ \E s \in Sides : Local(s) \/ Runs(s) \/ Expire(s) \/ CloseCmd(s) \/ Abort(s)
    \/ Session
    \/ \E k \in Streams : Cut(k)

Spec == Init /\ [][Next]_vars

(* Each ready branch of a link is taken in the end (select! polls them in   *)
(* random order), timers fire, the host serves what arrives and an attempt  *)
(* ends.  Nothing is assumed of the games, the network or the sessions'     *)
(* wish to move.                                                            *)
Fairness ==
    /\ \A s \in Sides :
        /\ WF_vars(RecvData(s)) /\ WF_vars(RecvAck(s)) /\ WF_vars(RecvClose(s))
        /\ WF_vars(StreamEnds(s)) /\ WF_vars(Send(s)) /\ WF_vars(AckTimer(s))
        /\ WF_vars(LocalFail(s)) /\ WF_vars(Expire(s))
    /\ \A k \in Streams : WF_vars(ServeResume(k) /\ ~stream[k].cut)
    /\ WF_vars(ResumeOk) /\ WF_vars(ResumeForgotten) /\ WF_vars(ResumeFails)

FairSpec == Spec /\ Fairness

-----------------------------------------------------------------------------
(* A side forgets a byte only after the other side has received it: every  *)
(* byte a game gave is still held or has arrived, whatever broke (Outbound *)
(* and the counts of acknowledgements, resume hellos and their answers).   *)
NothingLost ==
    \A s \in Sides :
        /\ link[s].base <= link[Other(s)].inNext
        /\ End(link[s]) = read[s]

(* Two sides that follow the rules never look as if they broke them: no    *)
(* record opens a gap, acknowledges what was not sent or closes before     *)
(* what arrived, whichever stream it comes on after resends and rewinds,   *)
(* and no resume is refused for its count (run, Attach); and TypeOK.       *)
Obeys(s, m) ==
    CASE m.kind = "data" -> m.offset <= link[s].inNext
      [] m.kind \in {"ack", "ok"} -> m.count <= End(link[s])
      [] m.kind = "close" -> m.count = link[s].inNext
      [] OTHER -> TRUE
NoFalseAlarm ==
    /\ TypeOK
    /\ \A s \in Sides :
        LET k == link[s].channel
        IN k # NoStream /\ stream[k].to[s] # <<>> => Obeys(s, Head(stream[k].to[s]))
    /\ \A k \in Streams : stream[k].hello <= End(link["host"])

(* The link is the byte stream of GameStream: bytes reach the other game   *)
(* once, in order and unchanged over any number of streams, and an orderly *)
(* end leaves one direction complete.  Bytes for a game whose connection   *)
(* failed count as delivered.                                              *)
Stream == INSTANCE GameStream WITH
    taken <- [s \in Sides |-> IF link[s].localDead THEN [i \in 1..link[s].inNext |-> i]
                              ELSE taken[s]],
    reading <- [s \in Sides |-> ~link[s].localEnd],
    over <- [s \in Sides |-> CASE link[s].end = "no" -> "no"
                               [] link[s].end = "Closed" -> "ordered"
                               [] OTHER -> "cut"]
IsStream == Stream!Spec

Over == \E s \in Sides : ~Running(s)

(* A byte a game gave reaches the other side, or the connection ends:      *)
(* breaks, moves and full queues never leave it stuck.                     *)
BytesArrive ==
    \A s \in Sides : \A n \in 1..MaxRead[s] :
        (read[s] >= n) ~> (link[Other(s)].inNext >= n \/ Over)

(* When one game's connection has ended, or one link, both links end.      *)
GameEnds ==
    \A s \in Sides : (link[s].localEnd \/ ~Running(s)) ~> (\A t \in Sides : ~Running(t))

(* Without planned moves what arrived is acknowledged, so the buffer of    *)
(* unacknowledged bytes drains and a full one does not silence a game.     *)
Acknowledged ==
    \A s \in Sides : \A n \in 1..MaxRead[s] :
        (link[Other(s)].inNext >= n) ~> (link[s].base >= n \/ Over)
AcknowledgedUnmoved == [](~attempt.planned) => Acknowledged
=============================================================================
