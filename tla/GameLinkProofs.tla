--------------------------- MODULE GameLinkProofs ---------------------------
(***************************************************************************)
(* Proofs about GameLink for every bound: types are kept, a byte is        *)
(* forgotten only after the other side has it, sides that follow the rules *)
(* never look as if they broke them, and the link is the stream of bytes   *)
(* GameStream promises.                                                    *)
(***************************************************************************)
EXTENDS GameLink, SequenceTheorems, TLAPS

Typed(st) == st \in [Streams -> StreamStates]

\* The messages of a queue.
Held(q) == {q[i] : i \in 1..Len(q)}

\* Where a data record ends, and the count a record needs the receiver to have
\* reached before it.
Last(m) == m.offset + Len(m.bytes)
Start(m) == CASE m.kind = "data" -> m.offset
              [] m.kind = "close" -> m.count
              [] OTHER -> 0

\* A receiver that has n bytes has x of them when it has taken q up to i.
Reaches(q, i, x, n) == x <= n \/ \E j \in 1..(i - 1) : q[j].kind = "data" /\ x <= Last(q[j])
Orderly(q, n) == \A i \in 1..Len(q) : Reaches(q, i, Start(q[i]), n)

\* What each side has received, was given by its game, and whether that ended.
Views == [Sides -> [in : Nat, read : Nat, ended : BOOLEAN]]

\* What a message to s may say when v is what the sides are at.
Truthful(m, s, v) ==
    LET o == v[Other(s)]
    IN  /\ m.kind \in {"ack", "ok"} => m.count <= o.in
        /\ m.kind = "data" => /\ Last(m) <= o.read
                              /\ \A i \in 1..Len(m.bytes) : m.bytes[i] = m.offset + i
        /\ m.kind = "close" => m.count = o.read /\ o.ended

\* Every record on its way is true and comes in order, and so is the hello.
TrueQueue(q, s, v) == (\A m \in Held(q) : Truthful(m, s, v)) /\ Orderly(q, v[s].in)
TrueStream(r, v) ==
    /\ \A s \in Sides : TrueQueue(r.to[s], s, v)
    /\ r.hello <= v["guest"].in
AllTruthful(st, v) == \A k \in Streams : TrueStream(st[k], v)

\* What s puts on k comes to the other side, and what it sends next fits there.
Connected(st, k, s) == ~st[k].cut /\ st[k].at[Other(s)] # "gone"
Fits(st, k, s, x, n) == Reaches(st[k].to[Other(s)], Len(st[k].to[Other(s)]) + 1, x, n)
Carries(st, s, l, n) ==
    l.channel # NoStream /\ Connected(st, l.channel, s) => Fits(st, l.channel, s, l.sent, n)

-----------------------------------------------------------------------------
LEMMA OtherSide == \A s \in Sides : Other(s) \in Sides /\ Other(s) # s /\ Other(Other(s)) = s
  BY DEF Sides, Other

LEMMA MessageTypes ==
  /\ \A n \in Nat : Ack(n) \in Messages /\ Close(n) \in Messages /\ Ok(n) \in Messages
  /\ No \in Messages
  BY DEF Ack, Close, Ok, No, Messages, DataMessages, CountMessages

LEMMA MessageFields ==
  ASSUME NEW m \in Messages
  PROVE  /\ Start(m) \in Nat
         /\ m.kind = "data" => /\ m.offset \in Nat /\ m.bytes \in Seq(Nat) /\ Len(m.bytes) \in Nat
                               /\ Last(m) \in Nat /\ Start(m) = m.offset
         /\ m.kind \in {"ack", "close", "ok"} => m.count \in Nat
         /\ m.kind = "close" => Start(m) = m.count
         /\ m.kind \in {"ack", "ok", "no"} => Start(m) = 0
<1>1. m \in DataMessages => /\ m.kind = "data" /\ m.offset \in Nat /\ m.bytes \in Seq(Nat)
  BY DEF DataMessages
<1>2. m \in CountMessages => m.kind \in {"ack", "close", "ok"} /\ m.count \in Nat
  BY DEF CountMessages
<1>3. m \in [kind : {"no"}] => m.kind = "no"
  OBVIOUS
<1>4. m \in DataMessages \/ m \in CountMessages \/ m \in [kind : {"no"}]
  BY DEF Messages
<1>5. m \in DataMessages => Len(m.bytes) \in Nat /\ Last(m) \in Nat
  BY <1>1, LenProperties DEF Last
<1> QED  BY <1>1, <1>2, <1>3, <1>4, <1>5 DEF Start

LEMMA HeldBySeq ==
  ASSUME NEW q \in Seq(Messages)
  PROVE  /\ \A m \in Messages : /\ Append(q, m) \in Seq(Messages)
                                /\ Held(Append(q, m)) \subseteq Held(q) \cup {m}
         /\ q # <<>> => /\ Tail(q) \in Seq(Messages) /\ Held(Tail(q)) \subseteq Held(q)
                        /\ Head(q) \in Messages /\ Head(q) \in Held(q)
         /\ \A n \in 0..Len(q) : /\ SubSeq(q, 1, n) \in Seq(Messages)
                                 /\ Held(SubSeq(q, 1, n)) \subseteq Held(q)
<1>1. Len(q) \in Nat
  BY LenProperties
<1>2. ASSUME NEW m \in Messages
      PROVE  Append(q, m) \in Seq(Messages) /\ Held(Append(q, m)) \subseteq Held(q) \cup {m}
  <2>1. /\ Append(q, m) \in Seq(Messages) /\ Len(Append(q, m)) = Len(q) + 1
        /\ \A i \in 1..Len(q) : Append(q, m)[i] = q[i]
        /\ Append(q, m)[Len(q) + 1] = m
    BY AppendProperties
  <2>2. \A i \in 1..Len(Append(q, m)) : i \in 1..Len(q) \/ i = Len(q) + 1
    BY <1>1, <2>1
  <2> QED  BY <2>1, <2>2 DEF Held
<1>3. ASSUME q # <<>>
      PROVE  /\ Tail(q) \in Seq(Messages) /\ Held(Tail(q)) \subseteq Held(q)
             /\ Head(q) \in Messages /\ Head(q) \in Held(q)
  <2>1. /\ Head(q) \in Messages /\ Tail(q) \in Seq(Messages) /\ Len(Tail(q)) = Len(q) - 1
        /\ \A i \in 1..Len(Tail(q)) : Tail(q)[i] = q[i + 1]
    BY <1>3, HeadTailProperties
  <2>2. Len(q) >= 1 /\ Head(q) = q[1]
    BY <1>1, <1>3, EmptySeq
  <2>3. \A i \in 1..Len(Tail(q)) : i + 1 \in 1..Len(q)
    BY <1>1, <2>1
  <2> QED  BY <1>1, <2>1, <2>2, <2>3 DEF Held
<1>4. ASSUME NEW n \in 0..Len(q)
      PROVE  SubSeq(q, 1, n) \in Seq(Messages) /\ Held(SubSeq(q, 1, n)) \subseteq Held(q)
  <2>1. \A i \in 1..n : i \in 1..Len(q) /\ q[i] \in Messages
    BY <1>1, LenProperties
  <2>2. /\ SubSeq(q, 1, n) \in Seq(Messages)
        /\ Len(SubSeq(q, 1, n)) = (IF 1 <= n THEN n - 1 + 1 ELSE 0)
        /\ \A i \in 1..(n - 1 + 1) : SubSeq(q, 1, n)[i] = q[1 + i - 1]
    BY <1>1, <2>1, SubSeqProperties
  <2>3. \A i \in 1..Len(SubSeq(q, 1, n)) : i \in 1..n /\ SubSeq(q, 1, n)[i] = q[i]
    BY <1>1, <2>2
  <2> QED  BY <2>1, <2>2, <2>3 DEF Held
<1> QED  BY <1>2, <1>3, <1>4

\* What was reached stays reached, by a receiver that has more too.
LEMMA ReachesMore ==
  ASSUME NEW q \in Seq(Messages), NEW i \in 1..(Len(q) + 1), NEW x \in Nat, NEW n \in Nat,
         Reaches(q, i, x, n)
  PROVE  /\ \A y \in Nat : y <= x => Reaches(q, i, y, n)
         /\ \A more \in Nat : n <= more => Reaches(q, i, x, more)
<1>1. CASE x <= n
  BY <1>1 DEF Reaches
<1>2. CASE ~(x <= n)
  <2>1. PICK j \in 1..(i - 1) : q[j].kind = "data" /\ x <= Last(q[j])
    BY <1>2 DEF Reaches
  <2>2. j \in 1..Len(q)
    BY LenProperties
  <2>3. q[j] \in Messages
    BY <2>2, LenProperties
  <2>4. Last(q[j]) \in Nat
    BY <2>1, <2>3, MessageFields
  <2>5. \A y \in Nat : y <= x => y <= Last(q[j])
    BY <2>1, <2>4
  <2> QED  BY <2>1, <2>5 DEF Reaches
<1> QED  BY <1>1, <1>2

LEMMA OrderlyMore ==
  ASSUME NEW q \in Seq(Messages), NEW n \in Nat, NEW more \in Nat, n <= more, Orderly(q, n)
  PROVE  Orderly(q, more)
<1> SUFFICES ASSUME NEW i \in 1..Len(q)  PROVE Reaches(q, i, Start(q[i]), more)
  BY DEF Orderly
<1>1. i \in 1..(Len(q) + 1) /\ q[i] \in Messages
  BY LenProperties
<1>2. Start(q[i]) \in Nat /\ Reaches(q, i, Start(q[i]), n)
  BY <1>1, MessageFields DEF Orderly
<1> QED  BY <1>1, <1>2, ReachesMore

\* The places of a queue with a message more, of what is left after its first,
\* and of its beginning.
LEMMA ReachesAppended ==
  ASSUME NEW q \in Seq(Messages), NEW m \in Messages, NEW x, NEW n
  PROVE  /\ \A i \in 1..(Len(q) + 1) : Reaches(q, i, x, n) => Reaches(Append(q, m), i, x, n)
         /\ Reaches(q, Len(q) + 1, x, n) => Reaches(Append(q, m), Len(Append(q, m)) + 1, x, n)
         /\ m.kind = "data" => Reaches(Append(q, m), Len(Append(q, m)) + 1, Last(m), n)
<1> DEFINE longer == Append(q, m)
<1>1. /\ Len(q) \in Nat /\ Len(longer) = Len(q) + 1 /\ longer[Len(q) + 1] = m
      /\ \A j \in 1..Len(q) : longer[j] = q[j]
  BY AppendProperties, LenProperties
<1> HIDE DEF longer
<1>2. ASSUME NEW i \in 1..(Len(q) + 1), Reaches(q, i, x, n)
      PROVE  Reaches(longer, i, x, n)
  <2>1. \A j \in 1..(i - 1) : j \in 1..Len(q)
    BY <1>1
  <2> QED  BY <1>1, <1>2, <2>1 DEF Reaches
<1>3. ASSUME Reaches(q, Len(q) + 1, x, n)  PROVE Reaches(longer, Len(longer) + 1, x, n)
  <2>1. \A j \in 1..(Len(q) + 1 - 1) : j \in 1..Len(q) /\ j \in 1..(Len(longer) + 1 - 1)
    BY <1>1
  <2> QED  BY <1>1, <1>3, <2>1 DEF Reaches
<1>4. ASSUME m.kind = "data"  PROVE Reaches(longer, Len(longer) + 1, Last(m), n)
  <2>1. Last(m) \in Nat
    BY <1>4, MessageFields
  <2>2. Len(q) + 1 \in 1..(Len(longer) + 1 - 1)
    BY <1>1
  <2>3. Last(m) <= Last(longer[Len(q) + 1])
    BY <1>1, <2>1
  <2> QED  BY <1>1, <1>4, <2>2, <2>3 DEF Reaches
<1> QED  BY <1>2, <1>3, <1>4 DEF longer

LEMMA ReachesTaken ==
  ASSUME NEW q \in Seq(Messages), q # <<>>, NEW x \in Nat, NEW n \in Nat,
         Head(q).kind = "data" => Last(Head(q)) <= n,
         NEW i \in 1..Len(q), Reaches(q, i + 1, x, n)
  PROVE  Reaches(Tail(q), i, x, n)
<1>1. /\ Len(q) \in Nat /\ Head(q) = q[1] /\ Len(Tail(q)) = Len(q) - 1 /\ Head(q) \in Messages
      /\ \A j \in 1..Len(Tail(q)) : Tail(q)[j] = q[j + 1]
  <2>1. /\ Head(q) \in Messages /\ Len(Tail(q)) = Len(q) - 1
        /\ \A j \in 1..Len(Tail(q)) : Tail(q)[j] = q[j + 1]
    BY HeadTailProperties
  <2> QED  BY <2>1, LenProperties
<1>2. CASE x <= n
  BY <1>2 DEF Reaches
<1>3. CASE ~(x <= n)
  <2>1. PICK j \in 1..(i + 1 - 1) : q[j].kind = "data" /\ x <= Last(q[j])
    BY <1>3 DEF Reaches
  <2>2. j # 1
    <3>1. SUFFICES ASSUME j = 1  PROVE FALSE
      OBVIOUS
    <3>2. Last(Head(q)) \in Nat /\ Last(Head(q)) <= n /\ x <= Last(Head(q))
      BY <1>1, <2>1, <3>1, MessageFields
    <3> QED  BY <1>3, <3>2
  <2>3. j - 1 \in 1..(i - 1) /\ j - 1 \in 1..Len(Tail(q)) /\ (j - 1) + 1 = j
    BY <1>1, <2>2
  <2>4. Tail(q)[j - 1] = q[j]
    BY <1>1, <2>3
  <2> QED  BY <2>1, <2>3, <2>4 DEF Reaches
<1> QED  BY <1>2, <1>3

LEMMA OrderlyBySeq ==
  ASSUME NEW q \in Seq(Messages), NEW n \in Nat, Orderly(q, n)
  PROVE  /\ \A m \in Messages : Reaches(q, Len(q) + 1, Start(m), n) => Orderly(Append(q, m), n)
         /\ q # <<>> => /\ Start(Head(q)) <= n
                        /\ (Head(q).kind = "data" => Last(Head(q)) <= n) => Orderly(Tail(q), n)
         /\ \A c \in 0..Len(q) : Orderly(SubSeq(q, 1, c), n)
<1>1. Len(q) \in Nat
  BY LenProperties
<1>2. ASSUME NEW m \in Messages, Reaches(q, Len(q) + 1, Start(m), n)
      PROVE  Orderly(Append(q, m), n)
  <2>1. /\ Len(Append(q, m)) = Len(q) + 1
        /\ \A i \in 1..Len(q) : Append(q, m)[i] = q[i]
        /\ Append(q, m)[Len(q) + 1] = m
    BY AppendProperties
  <2>2. ASSUME NEW i \in 1..Len(q)
        PROVE  Reaches(Append(q, m), i, Start(Append(q, m)[i]), n)
    <3>1. i \in 1..(Len(q) + 1) /\ Reaches(q, i, Start(q[i]), n)
      BY <1>1 DEF Orderly
    <3> QED  BY <2>1, <3>1, ReachesAppended
  <2>3. Reaches(Append(q, m), Len(q) + 1, Start(m), n)
    <3>1. Len(q) + 1 \in 1..(Len(q) + 1)
      BY <1>1
    <3> QED  BY <1>2, <3>1, ReachesAppended
  <2>4. \A i \in 1..(Len(q) + 1) : i \in 1..Len(q) \/ i = Len(q) + 1
    BY <1>1
  <2> QED  BY <2>1, <2>2, <2>3, <2>4 DEF Orderly
<1>3. ASSUME q # <<>>
      PROVE  /\ Start(Head(q)) <= n
             /\ (Head(q).kind = "data" => Last(Head(q)) <= n) => Orderly(Tail(q), n)
  <2>1. /\ Tail(q) \in Seq(Messages) /\ Len(Tail(q)) = Len(q) - 1
        /\ \A i \in 1..Len(Tail(q)) : Tail(q)[i] = q[i + 1]
    BY <1>3, HeadTailProperties
  <2>2. 1 \in 1..Len(q) /\ Head(q) = q[1]
    BY <1>1, <1>3, EmptySeq
  <2>3. Start(Head(q)) <= n
    <3>1. Reaches(q, 1, Start(q[1]), n)
      BY <2>2 DEF Orderly
    <3>2. ~\E j \in 1..(1 - 1) : TRUE
      OBVIOUS
    <3> QED  BY <2>2, <3>1, <3>2 DEF Reaches
  <2>4. ASSUME Head(q).kind = "data" => Last(Head(q)) <= n, NEW i \in 1..Len(Tail(q))
        PROVE  Reaches(Tail(q), i, Start(Tail(q)[i]), n)
    <3>1. i + 1 \in 1..Len(q) /\ i \in 1..Len(q)
      BY <1>1, <2>1
    <3>2. Reaches(q, i + 1, Start(q[i + 1]), n) /\ q[i + 1] \in Messages
      BY <3>1, LenProperties DEF Orderly
    <3>3. Start(q[i + 1]) \in Nat
      BY <3>2, MessageFields
    <3>4. Reaches(Tail(q), i, Start(q[i + 1]), n)
      BY <1>3, <2>4, <3>1, <3>2, <3>3, ReachesTaken
    <3> QED  BY <2>1, <3>4
  <2> QED  BY <2>3, <2>4 DEF Orderly
<1>4. ASSUME NEW c \in 0..Len(q)  PROVE Orderly(SubSeq(q, 1, c), n)
  <2>1. \A i \in 1..c : i \in 1..Len(q) /\ q[i] \in Messages
    BY <1>1, LenProperties
  <2>2. /\ Len(SubSeq(q, 1, c)) = (IF 1 <= c THEN c - 1 + 1 ELSE 0)
        /\ \A i \in 1..(c - 1 + 1) : SubSeq(q, 1, c)[i] = q[1 + i - 1]
    BY <1>1, <2>1, SubSeqProperties
  <2>3. \A i \in 1..Len(SubSeq(q, 1, c)) : i \in 1..c
    BY <1>1, <2>2
  <2>4. \A i \in 1..c : SubSeq(q, 1, c)[i] = q[i]
    BY <1>1, <2>2
  <2>5. ASSUME NEW i \in 1..c  PROVE Reaches(SubSeq(q, 1, c), i, Start(q[i]), n)
    <3>1. Reaches(q, i, Start(q[i]), n)
      BY <2>1 DEF Orderly
    <3>2. \A j \in 1..(i - 1) : j \in 1..c
      OBVIOUS
    <3> QED  BY <2>4, <3>1, <3>2 DEF Reaches
  <2> QED  BY <2>3, <2>4, <2>5 DEF Orderly
<1> QED  BY <1>2, <1>3, <1>4

LEMMA HeldNothing == Held(<<>>) = {} /\ <<>> \in Seq(Messages) /\ \A n : Orderly(<<>>, n)
  BY DEF Held, Orderly

\* A queue of true and orderly messages: one more, one less, its beginning.
LEMMA QueueBySeq ==
  ASSUME NEW q \in Seq(Messages), NEW s \in Sides, NEW v \in Views, TrueQueue(q, s, v)
  PROVE  /\ \A m \in Messages : Truthful(m, s, v) /\ Reaches(q, Len(q) + 1, Start(m), v[s].in)
                                => TrueQueue(Append(q, m), s, v)
         /\ q # <<>> => /\ Truthful(Head(q), s, v) /\ Start(Head(q)) <= v[s].in
                        /\ (Head(q).kind = "data" => Last(Head(q)) <= v[s].in)
                              => TrueQueue(Tail(q), s, v)
         /\ \A c \in 0..Len(q) : TrueQueue(SubSeq(q, 1, c), s, v)
<1>1. v[s].in \in Nat
  BY DEF Views
<1>2. Orderly(q, v[s].in)
  BY DEF TrueQueue
<1>3. \A m \in Held(q) : Truthful(m, s, v)
  BY DEF TrueQueue
<1> QED  BY <1>1, <1>2, <1>3, HeldBySeq, OrderlyBySeq DEF TrueQueue

-----------------------------------------------------------------------------
(* Streams. *)

\* One stream changes.
LEMMA StreamKeeps ==
  ASSUME NEW st, Typed(st), NEW k \in Streams, NEW v, AllTruthful(st, v),
         NEW r \in StreamStates, TrueStream(r, v)
  PROVE  Typed([st EXCEPT ![k] = r]) /\ AllTruthful([st EXCEPT ![k] = r], v)
<1>1. Typed([st EXCEPT ![k] = r])
  BY DEF Typed
<1>2. \A j \in Streams : [st EXCEPT ![k] = r][j] = IF j = k THEN r ELSE st[j]
  BY DEF Typed
<1> QED  BY <1>1, <1>2 DEF AllTruthful

LEMMA QueueKeeps ==
  ASSUME NEW r \in StreamStates, NEW s \in Sides, NEW q \in Seq(Messages), NEW v,
         TrueStream(r, v), TrueQueue(q, s, v)
  PROVE  /\ [r EXCEPT !.to[s] = q] \in StreamStates
         /\ TrueStream([r EXCEPT !.to[s] = q], v)
<1> DEFINE new == [r EXCEPT !.to[s] = q]
<1>1. new \in StreamStates
  BY DEF StreamStates
<1>2. new.hello = r.hello
  BY DEF StreamStates
<1>3. new.to = [r.to EXCEPT ![s] = q]
  BY DEF StreamStates
<1>4. \A t \in Sides : new.to[t] = IF t = s THEN q ELSE r.to[t]
  BY <1>3 DEF StreamStates
<1> HIDE DEF new
<1>5. ASSUME NEW t \in Sides  PROVE TrueQueue(new.to[t], t, v)
  BY <1>4, <1>5 DEF TrueStream
<1>6. TrueStream(new, v)
  BY <1>2, <1>5 DEF TrueStream
<1> QED  BY <1>1, <1>6 DEF new

LEMMA EndKeeps ==
  ASSUME NEW r \in StreamStates, NEW s \in Sides, NEW v, TrueStream(r, v),
         NEW how \in {"none", "open", "gone"}
  PROVE  /\ [r EXCEPT !.at[s] = how] \in StreamStates
         /\ TrueStream([r EXCEPT !.at[s] = how], v)
<1> DEFINE new == [r EXCEPT !.at[s] = how]
<1>1. new \in StreamStates
  BY DEF StreamStates
<1>2. new.hello = r.hello
  BY DEF StreamStates
<1>3. new.to = r.to
  BY DEF StreamStates
<1> HIDE DEF new
<1>4. TrueStream(new, v)
  BY <1>2, <1>3 DEF TrueStream
<1> QED  BY <1>1, <1>4 DEF new

LEMMA PutKeeps ==
  ASSUME NEW st, Typed(st), NEW k \in Streams, NEW s \in Sides, NEW m \in Messages,
         NEW v \in Views, AllTruthful(st, v), Truthful(m, Other(s), v),
         Connected(st, k, s) => Fits(st, k, s, Start(m), v[Other(s)].in)
  PROVE  Typed(Put(st, k, s, m)) /\ AllTruthful(Put(st, k, s, m), v)
<1>1. CASE ~Connected(st, k, s)
  BY <1>1 DEF Put, Connected
<1>2. CASE Connected(st, k, s)
  <2> DEFINE o == Other(s)
             q == Append(st[k].to[o], m)
  <2>1. st[k] \in StreamStates /\ TrueStream(st[k], v)
    BY DEF Typed, AllTruthful
  <2>2. o \in Sides /\ st[k].to[o] \in Seq(Messages)
    BY <2>1, OtherSide DEF StreamStates
  <2>3. q \in Seq(Messages)
    BY <2>2, HeldBySeq
  <2>4. TrueQueue(st[k].to[o], o, v)
    BY <2>1, <2>2 DEF TrueStream
  <2>5. TrueQueue(q, o, v)
    BY <1>2, <2>2, <2>4, QueueBySeq DEF Fits
  <2> HIDE DEF o
  <2>6. [st[k] EXCEPT !.to[o] = q] \in StreamStates /\ TrueStream([st[k] EXCEPT !.to[o] = q], v)
    BY <2>1, <2>2, <2>3, <2>5, QueueKeeps
  <2>7. Typed([st EXCEPT ![k].to[o] = q]) /\ AllTruthful([st EXCEPT ![k].to[o] = q], v)
    BY <2>6, StreamKeeps
  <2> QED  BY <1>2, <2>7 DEF Put, Connected, o
<1> QED  BY <1>1, <1>2

LEMMA LeaveKeeps ==
  ASSUME NEW st, Typed(st), NEW k \in Streams \cup {NoStream}, NEW s \in Sides, NEW v,
         AllTruthful(st, v)
  PROVE  Typed(Leave(st, k, s)) /\ AllTruthful(Leave(st, k, s), v)
<1>1. CASE k = NoStream
  BY <1>1 DEF Leave
<1>2. CASE k \in Streams
  <2> DEFINE half == [st[k] EXCEPT !.at[s] = "gone"]
             one == [half EXCEPT !.to[s] = <<>>]
  <2>1. st[k] \in StreamStates /\ TrueStream(st[k], v)
    BY <1>2 DEF Typed, AllTruthful
  <2>2. half \in StreamStates /\ TrueStream(half, v)
    BY <2>1, EndKeeps
  <2> HIDE DEF half
  <2>3. one \in StreamStates /\ TrueStream(one, v)
    BY <2>2, HeldNothing, QueueKeeps DEF TrueQueue
  <2> HIDE DEF one
  <2>4. Typed([st EXCEPT ![k] = one]) /\ AllTruthful([st EXCEPT ![k] = one], v)
    BY <1>2, <2>3, StreamKeeps
  <2>5. one = [st[k] EXCEPT !.at[s] = "gone", !.to[s] = <<>>]
    BY DEF one, half
  <2>6. k # NoStream
    BY <1>2 DEF Streams, NoStream
  <2>7. Leave(st, k, s) = [st EXCEPT ![k] = one]
    BY <1>2, <2>5, <2>6 DEF Leave, Typed
  <2> QED  BY <2>4, <2>7
<1> QED  BY <1>1, <1>2

\* The record at the head of a queue is true and comes in its turn; without it
\* the others are, once its bytes count.
LEMMA PopKeeps ==
  ASSUME Typed(stream), NEW k \in Streams, NEW s \in Sides, NEW v \in Views,
         AllTruthful(stream, v), stream[k].to[s] # <<>>
  PROVE  LET m == Head(stream[k].to[s])
         IN /\ Typed(Pop(k, s)) /\ m \in Messages /\ Truthful(m, s, v) /\ Start(m) <= v[s].in
            /\ (m.kind = "data" => Last(m) <= v[s].in) => AllTruthful(Pop(k, s), v)
<1> DEFINE q == stream[k].to[s]
<1>1. stream[k] \in StreamStates /\ TrueStream(stream[k], v)
  BY DEF Typed, AllTruthful
<1>2. q \in Seq(Messages) /\ TrueQueue(q, s, v)
  BY <1>1 DEF StreamStates, TrueStream
<1>3. Tail(q) \in Seq(Messages) /\ Head(q) \in Messages
  BY <1>2, HeldBySeq
<1>4. /\ Truthful(Head(q), s, v) /\ Start(Head(q)) <= v[s].in
      /\ (Head(q).kind = "data" => Last(Head(q)) <= v[s].in) => TrueQueue(Tail(q), s, v)
  BY <1>2, QueueBySeq
<1>5. Typed([stream EXCEPT ![k].to[s] = Tail(q)])
  BY <1>1, <1>3 DEF Typed, StreamStates
<1>6. ASSUME Head(q).kind = "data" => Last(Head(q)) <= v[s].in
      PROVE  AllTruthful([stream EXCEPT ![k].to[s] = Tail(q)], v)
  <2>1. TrueQueue(Tail(q), s, v)
    BY <1>4, <1>6
  <2>2. /\ [stream[k] EXCEPT !.to[s] = Tail(q)] \in StreamStates
        /\ TrueStream([stream[k] EXCEPT !.to[s] = Tail(q)], v)
    BY <1>1, <1>3, <2>1, QueueKeeps
  <2> QED  BY <2>2, StreamKeeps
<1> QED  BY <1>3, <1>4, <1>5, <1>6 DEF Pop

\* What is true of some counts is true of larger ones, while nobody takes back
\* that the game ended.
Grown(v, w) ==
    \A s \in Sides : /\ v[s].in <= w[s].in /\ v[s].read <= w[s].read
                     /\ v[s].ended => w[s].ended /\ w[s].read = v[s].read

LEMMA TruthGrows ==
  ASSUME NEW st, Typed(st), NEW v \in Views, NEW w \in Views, AllTruthful(st, v), Grown(v, w)
  PROVE  AllTruthful(st, w)
<1> SUFFICES ASSUME NEW k \in Streams  PROVE TrueStream(st[k], w)
  BY DEF AllTruthful
<1>1. st[k] \in StreamStates /\ TrueStream(st[k], v)
  BY DEF Typed, AllTruthful
<1>2. ASSUME NEW s \in Sides, NEW m \in Held(st[k].to[s])  PROVE Truthful(m, s, w)
  <2>1. st[k].to[s] \in Seq(Messages)
    BY <1>1 DEF StreamStates
  <2>2. m \in Messages
    BY <2>1, LenProperties, <1>2 DEF Held
  <2>3. Truthful(m, s, v) /\ Other(s) \in Sides
    BY <1>1, OtherSide DEF TrueStream, TrueQueue
  <2> DEFINE a == v[Other(s)]
             b == w[Other(s)]
  <2>4. /\ a.in \in Nat /\ b.in \in Nat /\ a.read \in Nat /\ b.read \in Nat
        /\ a.in <= b.in /\ a.read <= b.read /\ (a.ended => b.ended /\ b.read = a.read)
    BY <2>3 DEF Views, Grown
  <2>5. /\ m.kind \in {"ack", "ok"} => m.count <= a.in
        /\ m.kind = "data" => /\ Last(m) <= a.read
                              /\ \A i \in 1..Len(m.bytes) : m.bytes[i] = m.offset + i
        /\ m.kind = "close" => m.count = a.read /\ a.ended
    BY <2>3 DEF Truthful
  <2> HIDE DEF a, b
  <2>6. /\ m.kind \in {"ack", "ok"} => m.count \in Nat
        /\ m.kind = "data" => Last(m) \in Nat
    BY <2>2, MessageFields
  <2>7. /\ m.kind \in {"ack", "ok"} => m.count <= b.in
        /\ m.kind = "data" => Last(m) <= b.read
        /\ m.kind = "close" => m.count = b.read /\ b.ended
    BY <2>4, <2>5, <2>6
  <2> QED  BY <2>5, <2>7 DEF Truthful, b
<1>3. st[k].hello <= w["guest"].in
  <2>1. st[k].hello \in Nat \cup {None} /\ st[k].hello <= v["guest"].in /\ "guest" \in Sides
    BY <1>1 DEF StreamStates, TrueStream, Sides
  <2>2. v["guest"].in \in Nat /\ w["guest"].in \in Nat /\ v["guest"].in <= w["guest"].in
    BY <2>1 DEF Views, Grown
  <2> QED  BY <2>1, <2>2 DEF None
<1>4. ASSUME NEW s \in Sides  PROVE Orderly(st[k].to[s], w[s].in)
  <2>1. st[k].to[s] \in Seq(Messages) /\ Orderly(st[k].to[s], v[s].in)
    BY <1>1 DEF StreamStates, TrueStream, TrueQueue
  <2>2. v[s].in \in Nat /\ w[s].in \in Nat /\ v[s].in <= w[s].in
    BY DEF Views, Grown
  <2> QED  BY <2>1, <2>2, OrderlyMore
<1> QED  BY <1>2, <1>3, <1>4 DEF TrueStream, TrueQueue

\* A stream goes on carrying what is sent while others change it.
LEMMA CarriesOn ==
  ASSUME NEW st, NEW new, NEW t \in Sides, NEW l \in LinkStates, NEW n,
         Carries(st, t, l, n),
         \A k \in Streams : Connected(new, k, t)
            => Connected(st, k, t) /\ (Fits(st, k, t, l.sent, n) => Fits(new, k, t, l.sent, n))
  PROVE  Carries(new, t, l, n)
<1>1. l.channel # NoStream => l.channel \in Streams
  BY DEF LinkStates
<1> QED  BY <1>1 DEF Carries

LEMMA CarriesMore ==
  ASSUME NEW st, Typed(st), NEW t \in Sides, NEW l \in LinkStates, NEW n \in Nat, NEW more \in Nat,
         n <= more, Carries(st, t, l, n)
  PROVE  Carries(st, t, l, more)
<1> SUFFICES ASSUME l.channel # NoStream, Connected(st, l.channel, t)
             PROVE  Fits(st, l.channel, t, l.sent, more)
  BY DEF Carries
<1> DEFINE q == st[l.channel].to[Other(t)]
<1>1. l.channel \in Streams /\ l.sent \in Nat /\ Other(t) \in Sides
  BY OtherSide DEF LinkStates
<1>2. q \in Seq(Messages)
  BY <1>1 DEF Typed, StreamStates
<1>3. Reaches(q, Len(q) + 1, l.sent, n)
  BY DEF Carries, Fits
<1> HIDE DEF q
<1>4. Len(q) + 1 \in 1..(Len(q) + 1)
  BY <1>2, LenProperties
<1>5. Reaches(q, Len(q) + 1, l.sent, more)
  BY <1>1, <1>2, <1>3, <1>4, ReachesMore
<1> QED  BY <1>5 DEF Fits, q

LEMMA PutCarries ==
  ASSUME NEW st, Typed(st), NEW k \in Streams, NEW s \in Sides, NEW m \in Messages,
         NEW t \in Sides, NEW l \in LinkStates, NEW n, Carries(st, t, l, n)
  PROVE  Carries(Put(st, k, s, m), t, l, n)
<1>1. CASE ~Connected(st, k, s)
  BY <1>1 DEF Put, Connected
<1>2. CASE Connected(st, k, s)
  <2> DEFINE o == Other(s)
             q == st[k].to[o]
             new == [st EXCEPT ![k].to[o] = Append(q, m)]
  <2>1. Put(st, k, s, m) = new
    BY <1>2 DEF Put, Connected
  <2>2. o \in Sides /\ Other(t) \in Sides /\ st[k] \in StreamStates /\ q \in Seq(Messages)
    BY OtherSide DEF Typed, StreamStates
  <2>3. ASSUME NEW j \in Streams, Connected(new, j, t)
        PROVE  Connected(st, j, t) /\ (Fits(st, j, t, l.sent, n) => Fits(new, j, t, l.sent, n))
    <3>1. new[j].cut = st[j].cut /\ new[j].at = st[j].at
      BY <2>2 DEF Typed, StreamStates
    <3>2. \/ new[j].to[Other(t)] = st[j].to[Other(t)]
          \/ st[j].to[Other(t)] = q /\ new[j].to[Other(t)] = Append(q, m)
      BY <2>2 DEF Typed, StreamStates
    <3> HIDE DEF new, q
    <3>3. Connected(st, j, t)
      BY <2>3, <3>1 DEF Connected
    <3>4. Fits(st, j, t, l.sent, n) => Fits(new, j, t, l.sent, n)
      BY <2>2, <3>2, ReachesAppended DEF Fits
    <3> QED  BY <3>3, <3>4
  <2> HIDE DEF new
  <2> QED  BY <2>1, <2>3, CarriesOn
<1> QED  BY <1>1, <1>2

LEMMA LeaveCarries ==
  ASSUME NEW st, Typed(st), NEW k \in Streams \cup {NoStream}, NEW s \in Sides,
         NEW t \in Sides, NEW l \in LinkStates, NEW n, Carries(st, t, l, n)
  PROVE  Carries(Leave(st, k, s), t, l, n)
<1>1. CASE k = NoStream
  BY <1>1 DEF Leave
<1>2. CASE k \in Streams
  <2> DEFINE new == [st EXCEPT ![k].at[s] = "gone", ![k].to[s] = <<>>]
  <2>1. Leave(st, k, s) = new
    BY <1>2 DEF Leave, Streams, NoStream
  <2>2. Other(t) \in Sides
    BY OtherSide
  <2>3. ASSUME NEW j \in Streams, Connected(new, j, t)
        PROVE  Connected(st, j, t) /\ (Fits(st, j, t, l.sent, n) => Fits(new, j, t, l.sent, n))
    <3>1. st[j] \in StreamStates /\ st[k] \in StreamStates
      BY <1>2 DEF Typed
    <3>2. /\ new[j].cut = st[j].cut
          /\ new[j].at[Other(t)] = IF j = k /\ Other(t) = s THEN "gone" ELSE st[j].at[Other(t)]
          /\ ~(j = k /\ Other(t) = s) => new[j].to[Other(t)] = st[j].to[Other(t)]
      BY <1>2, <2>2, <3>1 DEF Typed, StreamStates
    <3> HIDE DEF new
    <3> QED  BY <2>3, <3>2 DEF Connected, Fits
  <2> HIDE DEF new
  <2> QED  BY <2>1, <2>3, CarriesOn
<1> QED  BY <1>1, <1>2

LEMMA PopCarries ==
  ASSUME Typed(stream), NEW k \in Streams, NEW s \in Sides, stream[k].to[s] # <<>>,
         NEW t \in Sides, NEW l \in LinkStates, NEW n \in Nat, Carries(stream, t, l, n),
         t # s /\ Head(stream[k].to[s]).kind = "data" => Last(Head(stream[k].to[s])) <= n
  PROVE  Carries(Pop(k, s), t, l, n)
<1> DEFINE q == stream[k].to[s]
           new == [stream EXCEPT ![k].to[s] = Tail(q)]
<1>1. Pop(k, s) = new
  BY DEF Pop
<1>2. Other(t) \in Sides /\ Other(t) # t /\ stream[k] \in StreamStates /\ q \in Seq(Messages)
  BY OtherSide DEF Typed, StreamStates
<1>3. ASSUME NEW j \in Streams, Connected(new, j, t)
      PROVE  Connected(stream, j, t)
             /\ (Fits(stream, j, t, l.sent, n) => Fits(new, j, t, l.sent, n))
  <2>1. new[j].cut = stream[j].cut /\ new[j].at = stream[j].at
    BY <1>2 DEF Typed, StreamStates
  <2>2. Connected(stream, j, t)
    BY <1>3, <2>1 DEF Connected
  <2>3. CASE ~(j = k /\ Other(t) = s)
    <3>1. new[j].to[Other(t)] = stream[j].to[Other(t)]
      BY <1>2, <2>3 DEF Typed, StreamStates
    <3> HIDE DEF new
    <3> QED  BY <2>2, <3>1 DEF Fits
  <2>4. CASE j = k /\ Other(t) = s
    <3>1. stream[j].to[Other(t)] = q /\ new[j].to[Other(t)] = Tail(q)
      BY <1>2, <2>4 DEF Typed, StreamStates
    <3>2. q # <<>> /\ (Head(q).kind = "data" => Last(Head(q)) <= n) /\ l.sent \in Nat
      BY <1>2, <2>4 DEF LinkStates
    <3> HIDE DEF q, new
    <3>3. Len(q) \in 1..Len(q) /\ Len(Tail(q)) = Len(q) - 1 /\ Len(Tail(q)) + 1 = Len(q)
      BY <1>2, <3>2, HeadTailProperties, EmptySeq, LenProperties
    <3>4. Reaches(q, Len(q) + 1, l.sent, n) => Reaches(Tail(q), Len(q), l.sent, n)
      BY <1>2, <3>2, <3>3, ReachesTaken
    <3> QED  BY <2>2, <3>1, <3>3, <3>4 DEF Fits
  <2> QED  BY <2>3, <2>4
<1> HIDE DEF new
<1> QED  BY <1>1, <1>3, CarriesOn

-----------------------------------------------------------------------------
(* Links. *)

\* What a link still holds are its game's bytes from base on.
Bytes(l) == \A i \in 1..Len(l.data) : l.data[i] = l.base + i
FirstBytes(n) == [i \in 1..n |-> i]

LEMMA LinkFields ==
  ASSUME NEW l \in LinkStates
  PROVE  /\ l.base \in Nat /\ l.data \in Seq(Nat) /\ l.sent \in Nat /\ l.inNext \in Nat
         /\ l.unacked \in Nat /\ l.ackAt \in BOOLEAN /\ l.ackDue \in BOOLEAN
         /\ l.localEnd \in BOOLEAN /\ l.localDead \in BOOLEAN /\ l.writerFailed \in BOOLEAN
         /\ l.closeSent \in BOOLEAN /\ l.peerClose \in Nat \cup {None}
         /\ l.channel \in Streams \cup {NoStream} /\ l.broken \in BOOLEAN /\ l.end \in Ends
         /\ Len(l.data) \in Nat /\ End(l) \in Nat
<1>1. l.base \in Nat /\ l.data \in Seq(Nat)
  BY DEF LinkStates
<1>2. Len(l.data) \in Nat
  BY <1>1, LenProperties
<1>3. End(l) \in Nat
  BY <1>1, <1>2 DEF End
<1> QED  BY <1>2, <1>3 DEF LinkStates

\* What most steps leave as it is in a link.
Same(a, l) ==
    /\ a.inNext = l.inNext /\ a.channel = l.channel /\ a.localEnd = l.localEnd
    /\ a.localDead = l.localDead /\ a.peerClose = l.peerClose /\ a.end = l.end

LEMMA AcknowledgeKeeps ==
  ASSUME NEW l \in LinkStates, NEW next \in Nat, l.base <= next, next <= End(l), Bytes(l)
  PROVE  LET a == Acknowledge(l, next)
         IN /\ a \in LinkStates /\ a.base = next /\ End(a) = End(l) /\ Bytes(a)
            /\ a.sent = l.sent /\ a.closeSent = l.closeSent /\ Same(a, l)
<1> DEFINE d == SubSeq(l.data, next - l.base + 1, Len(l.data))
           a == [l EXCEPT !.data = d, !.base = next]
<1>1. l.base \in Nat /\ l.data \in Seq(Nat) /\ Len(l.data) \in Nat /\ End(l) = l.base + Len(l.data)
  BY LinkFields DEF End
<1>2. \A i \in (next - l.base + 1)..Len(l.data) : l.data[i] \in Nat
  <2>1. \A i \in (next - l.base + 1)..Len(l.data) : i \in 1..Len(l.data)
    BY <1>1
  <2> QED  BY <1>1, <2>1, LenProperties
<1>3. /\ d \in Seq(Nat) /\ Len(d) = Len(l.data) - (next - l.base)
      /\ \A i \in 1..Len(d) : d[i] = next + i
  <2>1. next - l.base + 1 \in Int /\ Len(l.data) \in Int
    BY <1>1
  <2>2. /\ d \in Seq(Nat)
        /\ Len(d) = IF next - l.base + 1 <= Len(l.data)
                    THEN Len(l.data) - (next - l.base + 1) + 1 ELSE 0
        /\ \A i \in 1..(Len(l.data) - (next - l.base + 1) + 1) :
              d[i] = l.data[next - l.base + 1 + i - 1]
    BY <1>2, <2>1, SubSeqProperties
  <2>3. Len(l.data) - (next - l.base) >= 0
    BY <1>1
  <2> HIDE DEF d
  <2>4. Len(d) = Len(l.data) - (next - l.base)
    BY <1>1, <2>2, <2>3
  <2>5. ASSUME NEW i \in 1..Len(d)  PROVE d[i] = next + i
    <3> DEFINE len == Len(l.data)
               b == l.base
    <3>0. len \in Nat /\ b \in Nat /\ b <= next /\ i \in 1..(len - (next - b))
      BY <1>1, <2>4
    <3> HIDE DEF len, b
    <3>a. /\ i \in 1..(len - (next - b + 1) + 1)
          /\ next - b + 1 + i - 1 \in 1..len
      BY <3>0
    <3>1. /\ i \in 1..(Len(l.data) - (next - l.base + 1) + 1)
          /\ next - l.base + 1 + i - 1 \in 1..Len(l.data)
      BY <3>a DEF len, b
    <3>2. d[i] = l.data[next - l.base + 1 + i - 1]
      BY <2>2, <3>1
    <3>3. l.data[next - l.base + 1 + i - 1] = l.base + (next - l.base + 1 + i - 1)
      BY <3>1 DEF Bytes
    <3> QED  BY <1>1, <3>2, <3>3
  <2> QED  BY <2>2, <2>4, <2>5
<1> HIDE DEF d
<1>4. /\ a \in LinkStates /\ a.base = next /\ a.data = d
      /\ a.sent = l.sent /\ a.closeSent = l.closeSent /\ Same(a, l)
  BY <1>3 DEF LinkStates, Same
<1>5. End(a) = End(l) /\ Bytes(a)
  BY <1>1, <1>3, <1>4 DEF End, Bytes
<1> QED  BY <1>4, <1>5 DEF Acknowledge, d

LEMMA RewoundKeeps ==
  ASSUME NEW l \in LinkStates, NEW n \in Nat, n <= End(l), Bytes(l)
  PROVE  LET a == Rewound(l, n)
         IN /\ a \in LinkStates /\ a.base = Larger(n, l.base) /\ a.sent = a.base
            /\ End(a) = End(l) /\ Bytes(a) /\ a.closeSent = FALSE /\ Same(a, l)
<1> DEFINE from == Larger(n, l.base)
           b == Acknowledge(l, from)
           a == [b EXCEPT !.sent = from, !.closeSent = FALSE,
                          !.ackDue = FALSE, !.unacked = 0, !.ackAt = FALSE]
<1>1. from \in Nat /\ l.base <= from /\ from <= End(l)
  BY LinkFields DEF Larger, End
<1> HIDE DEF from
<1>2. b \in LinkStates /\ b.base = from /\ End(b) = End(l) /\ Bytes(b) /\ Same(b, l)
  BY <1>1, AcknowledgeKeeps
<1> HIDE DEF b
<1>3. a \in LinkStates /\ a.base = b.base /\ a.data = b.data /\ a.sent = from
      /\ a.closeSent = FALSE /\ Same(a, b)
  BY <1>1, <1>2 DEF LinkStates, Same
<1> HIDE DEF a
<1>4. End(a) = End(b) /\ Bytes(a) /\ Same(a, l)
  BY <1>2, <1>3 DEF End, Bytes, Same
<1>5. a = Rewound(l, n)
  BY DEF Rewound, a, b, from
<1> QED  BY <1>2, <1>3, <1>4, <1>5 DEF from

-----------------------------------------------------------------------------
(* The inductive invariant.  What a side has received bounds the other     *)
(* side's base and every count on its way to it, and is at most what the   *)
(* other game gave; what travels or is held are those bytes, in order.     *)
Now == [s \in Sides |-> [in |-> link[s].inNext, read |-> read[s], ended |-> link[s].localEnd]]
SentAfterBase == \A s \in Sides : link[s].base <= link[s].sent

\* Of a link alone: its bytes, its close and what its game was given.
Exact ==
    \A s \in Sides :
        /\ Bytes(link[s])
        /\ link[s].inNext <= read[Other(s)]
        /\ link[s].closeSent => link[s].localEnd
        /\ Running(s) => link[s].peerClose = None
        /\ link[s].localDead \/ taken[s] = FirstBytes(link[s].inNext)

AllCarry == \A s \in Sides : Carries(stream, s, link[s], link[Other(s)].inNext)

IInv == /\ TypeOK /\ NothingLost /\ SentAfterBase /\ Exact
        /\ AllTruthful(stream, Now) /\ AllCarry

\* What the sides are at when s goes on with l, having read rd bytes.
With(s, l, rd) ==
    [Now EXCEPT ![s] = [in |-> l.inNext, read |-> rd, ended |-> l.localEnd]]

\* l and st are what side s may go on with, having read rd bytes.
Ready(s, l, st, rd) ==
    /\ l \in LinkStates /\ rd \in Nat
    /\ link[s].inNext <= l.inNext /\ l.inNext <= read[Other(s)] /\ read[s] <= rd
    /\ l.base <= link[Other(s)].inNext /\ l.base <= l.sent /\ End(l) = rd /\ Bytes(l)
    /\ l.closeSent => l.localEnd
    /\ Typed(st) /\ AllTruthful(st, With(s, l, rd))
    /\ Carries(st, s, l, link[Other(s)].inNext)
    /\ Carries(st, Other(s), link[Other(s)], l.inNext)

\* The game of s was given what l received, and nothing else was given.
Handed(s, l) ==
    /\ taken' \in [Sides -> Seq(Nat)] /\ taken'[Other(s)] = taken[Other(s)]
    /\ l.localDead \/ taken'[s] = FirstBytes(l.inNext)

\* No close is waited for while the link runs.
NoneWaits(l) == l.end = "no" => l.peerClose = None

LEMMA NowTypes ==
  ASSUME TypeOK
  PROVE  /\ Now \in Views /\ Typed(stream) /\ read \in [Sides -> Nat]
         /\ \A s \in Sides :
              /\ link[s] \in LinkStates /\ link[s].inNext \in Nat /\ read[s] \in Nat
              /\ With(s, link[s], read[s]) = Now
              /\ Now[s] = [in |-> link[s].inNext, read |-> read[s], ended |-> link[s].localEnd]
<1>1. \A s \in Sides : link[s] \in LinkStates /\ read[s] \in Nat
  BY DEF TypeOK
<1>2. \A s \in Sides : link[s].inNext \in Nat /\ link[s].localEnd \in BOOLEAN
  BY <1>1, LinkFields
<1>3. Now \in Views
  BY <1>1, <1>2 DEF Now, Views
<1>4. \A s \in Sides : With(s, link[s], read[s]) = Now
  BY DEF With, Now
<1> QED  BY <1>1, <1>2, <1>3, <1>4 DEF TypeOK, Typed, Now

LEMMA WithTypes ==
  ASSUME TypeOK, NEW s \in Sides, NEW l \in LinkStates, NEW rd \in Nat
  PROVE  /\ With(s, l, rd) \in Views
         /\ With(s, l, rd)[s] = [in |-> l.inNext, read |-> rd, ended |-> l.localEnd]
         /\ With(s, l, rd)[Other(s)] = Now[Other(s)]
<1>1. [in |-> l.inNext, read |-> rd, ended |-> l.localEnd] \in [in : Nat, read : Nat, ended : BOOLEAN]
  BY LinkFields
<1>2. Now \in Views
  BY NowTypes
<1> QED  BY <1>1, <1>2, OtherSide DEF With, Views

\* The sides are further than they were.
LEMMA WithGrown ==
  ASSUME TypeOK, NEW s \in Sides, NEW l \in LinkStates, NEW a \in LinkStates,
         NEW rd \in Nat, NEW more \in Nat, l.inNext <= a.inNext, rd <= more,
         l.localEnd => a.localEnd /\ more = rd
  PROVE  Grown(With(s, l, rd), With(s, a, more))
<1>1. /\ With(s, l, rd)[s] = [in |-> l.inNext, read |-> rd, ended |-> l.localEnd]
      /\ With(s, a, more)[s] = [in |-> a.inNext, read |-> more, ended |-> a.localEnd]
      /\ With(s, l, rd)[Other(s)] = Now[Other(s)] /\ With(s, a, more)[Other(s)] = Now[Other(s)]
  BY WithTypes
<1>2. \A t \in Sides : t = s \/ t = Other(s)
  BY DEF Sides, Other
<1>3. Now[Other(s)].in \in Nat /\ Now[Other(s)].read \in Nat
  BY NowTypes, OtherSide DEF Views
<1> QED  BY <1>1, <1>2, <1>3 DEF Grown

LEMMA InvFacts ==
  ASSUME IInv, NEW s \in Sides
  PROVE  /\ link[s] \in LinkStates /\ link[s].inNext \in Nat /\ read[s] \in Nat
         /\ link[s].base <= link[Other(s)].inNext /\ End(link[s]) = read[s]
         /\ link[s].base <= link[s].sent /\ Bytes(link[s])
         /\ link[s].inNext <= read[Other(s)] /\ (link[s].closeSent => link[s].localEnd)
         /\ NoneWaits(link[s]) /\ (taken' = taken => Handed(s, link[s]))
         /\ Typed(stream) /\ AllTruthful(stream, Now) /\ Now \in Views
         /\ Carries(stream, s, link[s], link[Other(s)].inNext)
         /\ Carries(stream, Other(s), link[Other(s)], link[s].inNext)
<1>1. /\ link[s] \in LinkStates /\ link[s].inNext \in Nat /\ read[s] \in Nat
      /\ Typed(stream) /\ Now \in Views
  BY NowTypes DEF IInv
<1>2. /\ link[s].base <= link[Other(s)].inNext /\ End(link[s]) = read[s]
      /\ link[s].base <= link[s].sent
  BY DEF IInv, NothingLost, SentAfterBase
<1>3. /\ Bytes(link[s]) /\ link[s].inNext <= read[Other(s)]
      /\ (link[s].closeSent => link[s].localEnd) /\ NoneWaits(link[s])
      /\ (link[s].localDead \/ taken[s] = FirstBytes(link[s].inNext))
  BY DEF IInv, Exact, NoneWaits, Running
<1>4. taken \in [Sides -> Seq(Nat)]
  BY DEF IInv, TypeOK
<1>5. /\ Carries(stream, s, link[s], link[Other(s)].inNext)
      /\ Carries(stream, Other(s), link[Other(s)], link[s].inNext)
  BY OtherSide DEF IInv, AllCarry
<1> QED  BY <1>1, <1>2, <1>3, <1>4, <1>5 DEF IInv, Handed

\* A link that stays as it is, with true streams that carry both.
LEMMA StillReady ==
  ASSUME IInv, NEW s \in Sides
  PROVE  /\ Ready(s, link[s], stream, read[s])
         /\ \A st : /\ Typed(st) /\ AllTruthful(st, Now)
                    /\ Carries(st, s, link[s], link[Other(s)].inNext)
                    /\ Carries(st, Other(s), link[Other(s)], link[s].inNext)
                    => Ready(s, link[s], st, read[s])
<1>1. With(s, link[s], read[s]) = Now
  BY NowTypes DEF IInv
<1>2. link[s].inNext <= link[s].inNext /\ read[s] <= read[s]
  BY InvFacts
<1> QED  BY <1>1, <1>2, InvFacts DEF Ready

LEMMA GoesKeeps ==
  ASSUME IInv, NEW s \in Sides, NEW l, NEW st, Ready(s, l, st, read'[s]),
         NoneWaits(l), Handed(s, l),
         read' \in [Sides -> Nat], read'[Other(s)] = read[Other(s)],
         attempt' \in [stream : Streams \cup {NoStream}, planned : BOOLEAN, game : BOOLEAN],
         Goes(s, l, st)
  PROVE  IInv'
<1> DEFINE o == Other(s)
<1>1. o \in Sides /\ o # s /\ Other(o) = s /\ \A t \in Sides : t = s \/ t = o
  BY OtherSide DEF Sides
<1>2. link \in [Sides -> LinkStates] /\ l \in LinkStates
  BY DEF IInv, TypeOK, Ready
<1>3. link' \in [Sides -> LinkStates] /\ link'[s] = l /\ link'[o] = link[o] /\ stream' = st
  BY <1>1, <1>2 DEF Goes
<1>4. TypeOK'
  BY <1>3 DEF TypeOK, Ready, Typed, Handed
<1>5. /\ link[s].inNext \in Nat /\ l.inNext \in Nat /\ link[s].inNext <= l.inNext
      /\ link[o].base \in Nat /\ link[o].base <= link[s].inNext /\ link[o].inNext \in Nat
      /\ link[o].inNext <= read[s] /\ read[s] <= read'[s] /\ read[s] \in Nat /\ read'[s] \in Nat
  BY <1>1, <1>2, LinkFields, InvFacts DEF Ready
<1> DEFINE Fine(t) ==
             /\ link'[t].base <= link'[Other(t)].inNext /\ End(link'[t]) = read'[t]
             /\ link'[t].base <= link'[t].sent /\ Bytes(link'[t])
             /\ link'[t].inNext <= read'[Other(t)]
             /\ link'[t].closeSent => link'[t].localEnd
             /\ NoneWaits(link'[t])
             /\ link'[t].localDead \/ taken'[t] = FirstBytes(link'[t].inNext)
             /\ Carries(stream', t, link'[t], link'[Other(t)].inNext)
<1>6. Fine(s)
  BY <1>3 DEF Ready, Handed
<1>7. Fine(o)
  <2>1. /\ End(link[o]) = read[o] /\ link[o].base <= link[o].sent /\ Bytes(link[o])
        /\ (link[o].closeSent => link[o].localEnd) /\ NoneWaits(link[o])
    BY <1>1, InvFacts
  <2>2. link[o].localDead \/ taken[o] = FirstBytes(link[o].inNext)
    BY <1>1 DEF IInv, Exact
  <2>3. Carries(st, o, link[o], l.inNext) /\ taken'[o] = taken[o]
    BY DEF Ready, Handed
  <2>4. link[o].base <= l.inNext /\ link[o].inNext <= read'[s]
    BY <1>5
  <2> QED  BY <1>1, <1>3, <2>1, <2>2, <2>3, <2>4
<1>8. \A t \in Sides : Fine(t)
  BY <1>1, <1>6, <1>7
<1>9. NothingLost' /\ SentAfterBase' /\ AllCarry' /\ Exact'
  BY <1>8 DEF NothingLost, SentAfterBase, AllCarry, Exact, NoneWaits, Running
<1> HIDE DEF Fine
<1>10. Now' = With(s, l, read'[s])
  <2> DEFINE now(t) == [in |-> link'[t].inNext, read |-> read'[t], ended |-> link'[t].localEnd]
  <2>1. Now' = [t \in Sides |-> now(t)]
    BY DEF Now
  <2>2. With(s, l, read'[s]) = [t \in Sides |-> With(s, l, read'[s])[t]]
    BY DEF With, Now
  <2>3. now(s) = With(s, l, read'[s])[s] /\ now(o) = With(s, l, read'[s])[o]
    <3>1. With(s, l, read'[s])[s] = [in |-> l.inNext, read |-> read'[s], ended |-> l.localEnd]
      BY DEF With, Now
    <3>2. With(s, l, read'[s])[o] = Now[o]
      BY <1>1 DEF With, Now
    <3>3. Now[o] = [in |-> link[o].inNext, read |-> read[o], ended |-> link[o].localEnd]
      BY <1>1 DEF Now
    <3> QED  BY <1>3, <3>1, <3>2, <3>3
  <2>4. \A t \in Sides : now(t) = With(s, l, read'[s])[t]
    BY <1>1, <2>3
  <2> QED  BY <2>1, <2>2, <2>4
<1>11. AllTruthful(stream', Now')
  BY <1>3, <1>10 DEF Ready
<1> QED  BY <1>4, <1>9, <1>11 DEF IInv

LEMMA LeaveReady ==
  ASSUME IInv, NEW s \in Sides, NEW l, NEW st, NEW rd, Ready(s, l, st, rd),
         NEW k \in Streams \cup {NoStream}
  PROVE  Ready(s, l, Leave(st, k, s), rd)
BY LeaveKeeps, LeaveCarries, OtherSide, InvFacts DEF Ready

LEMMA PutReady ==
  ASSUME IInv, NEW s \in Sides, NEW l, NEW st, NEW rd, Ready(s, l, st, rd),
         NEW k \in Streams, NEW m \in Messages,
         Truthful(m, Other(s), With(s, l, rd)),
         Connected(st, k, s) => Fits(st, k, s, Start(m), link[Other(s)].inNext)
  PROVE  Ready(s, l, Put(st, k, s, m), rd)
<1>1. With(s, l, rd) \in Views /\ With(s, l, rd)[Other(s)].in = link[Other(s)].inNext
  <2>1. TypeOK /\ l \in LinkStates /\ rd \in Nat /\ Other(s) \in Sides
    BY OtherSide DEF IInv, Ready
  <2>2. With(s, l, rd) \in Views /\ With(s, l, rd)[Other(s)] = Now[Other(s)]
    BY <2>1, WithTypes
  <2>3. Now[Other(s)].in = link[Other(s)].inNext
    BY <2>1 DEF Now
  <2> QED  BY <2>2, <2>3
<1>2. Typed(Put(st, k, s, m)) /\ AllTruthful(Put(st, k, s, m), With(s, l, rd))
  BY <1>1, PutKeeps DEF Ready
<1>3. /\ Carries(Put(st, k, s, m), s, l, link[Other(s)].inNext)
      /\ Carries(Put(st, k, s, m), Other(s), link[Other(s)], l.inNext)
  BY PutCarries, OtherSide, InvFacts DEF Ready
<1> QED  BY <1>2, <1>3 DEF Ready

\* A change of the link that leaves its bytes and counts alone.
LEMMA SameReady ==
  ASSUME IInv, NEW s \in Sides, NEW l, NEW a, NEW st, NEW rd, Ready(s, l, st, rd),
         a \in LinkStates, a.base = l.base, a.data = l.data, a.inNext = l.inNext,
         a.sent = l.sent, a.channel \in {l.channel, NoStream},
         l.localEnd => a.localEnd, a.closeSent => a.localEnd
  PROVE  Ready(s, a, st, rd)
<1>1. l \in LinkStates /\ rd \in Nat /\ Typed(st) /\ TypeOK
  BY DEF Ready, IInv
<1>2. l.inNext \in Nat
  BY <1>1, LinkFields
<1>3. AllTruthful(st, With(s, a, rd))
  <2>1. Grown(With(s, l, rd), With(s, a, rd))
    BY <1>1, <1>2, WithGrown
  <2>2. With(s, l, rd) \in Views /\ With(s, a, rd) \in Views
    BY <1>1, WithTypes
  <2> QED  BY <1>1, <2>1, <2>2, TruthGrows DEF Ready
<1>4. Carries(st, s, a, link[Other(s)].inNext)
  BY DEF Carries, Ready
<1>5. End(a) = End(l) /\ Bytes(a)
  BY DEF End, Bytes, Ready
<1> QED  BY <1>3, <1>4, <1>5 DEF Ready

\* What a side acknowledges or answers is what it received, and fits anywhere.
LEMMA CountTrue ==
  ASSUME IInv, NEW s \in Sides, NEW l \in LinkStates, NEW rd \in Nat
  PROVE  /\ Truthful(Ack(l.inNext), Other(s), With(s, l, rd))
         /\ Truthful(Ok(l.inNext), Other(s), With(s, l, rd))
         /\ Truthful(No, Other(s), With(s, l, rd))
         /\ \A m \in Messages : \A st, k : m.kind \in {"ack", "ok", "no"}
              => Fits(st, k, s, Start(m), link[Other(s)].inNext)
<1>1. With(s, l, rd)[Other(Other(s))] = [in |-> l.inNext, read |-> rd, ended |-> l.localEnd]
  BY WithTypes, OtherSide DEF IInv
<1>2. l.inNext \in Nat
  BY LinkFields
<1>3. /\ Truthful(Ack(l.inNext), Other(s), With(s, l, rd))
      /\ Truthful(Ok(l.inNext), Other(s), With(s, l, rd))
      /\ Truthful(No, Other(s), With(s, l, rd))
  BY <1>1, <1>2 DEF Truthful, Ack, Ok, No
<1>4. link[Other(s)].inNext \in Nat
  BY NowTypes, OtherSide DEF IInv
<1>5. ASSUME NEW m \in Messages, NEW st, NEW k, m.kind \in {"ack", "ok", "no"}
      PROVE  Fits(st, k, s, Start(m), link[Other(s)].inNext)
  <2>1. Start(m) = 0
    BY <1>5, MessageFields
  <2> QED  BY <1>4, <2>1 DEF Fits, Reaches
<1> QED  BY <1>3, <1>5

LEMMA BreaksKeeps ==
  ASSUME IInv, NEW s \in Sides, NEW l, NEW st, Ready(s, l, st, read[s]), Breaks(s, l, st),
         NoneWaits(l), Handed(s, l), UNCHANGED <<read, attempt>>
  PROVE  IInv'
<1> DEFINE a == [l EXCEPT !.channel = NoStream, !.broken = TRUE]
<1>1. l \in LinkStates /\ l.channel \in Streams \cup {NoStream} /\ (l.closeSent => l.localEnd)
  BY LinkFields DEF Ready
<1>2. a \in LinkStates /\ a.base = l.base /\ a.data = l.data /\ a.inNext = l.inNext
      /\ a.sent = l.sent /\ a.channel = NoStream /\ a.localEnd = l.localEnd
      /\ a.closeSent = l.closeSent /\ a.end = l.end /\ a.peerClose = l.peerClose
      /\ a.localDead = l.localDead
  BY <1>1 DEF LinkStates
<1> HIDE DEF a
<1>3. Ready(s, a, Leave(st, l.channel, s), read[s])
  BY <1>1, <1>2, LeaveReady, SameReady
<1>4. Goes(s, a, Leave(st, l.channel, s))
  BY DEF Breaks, a
<1>5. NoneWaits(a) /\ Handed(s, a)
  BY <1>2 DEF NoneWaits, Handed
<1>6. /\ read' \in [Sides -> Nat] /\ read'[Other(s)] = read[Other(s)] /\ read'[s] = read[s]
      /\ attempt' \in [stream : Streams \cup {NoStream}, planned : BOOLEAN, game : BOOLEAN]
  BY DEF IInv, TypeOK
<1>7. Ready(s, a, Leave(st, l.channel, s), read'[s])
  BY <1>3, <1>6
<1> QED  BY <1>4, <1>5, <1>6, <1>7, GoesKeeps

LEMMA FinishKeeps ==
  ASSUME IInv, NEW s \in Sides, NEW l, NEW st, NEW end \in Ends \ {"no"},
         Ready(s, l, st, read[s]), Finish(s, l, st, end), Handed(s, l), read' = read,
         attempt' \in [stream : Streams \cup {NoStream}, planned : BOOLEAN, game : BOOLEAN]
  PROVE  IInv'
<1> DEFINE a == [l EXCEPT !.end = end, !.channel = NoStream, !.broken = FALSE]
           told == IF end = "Closed" /\ l.channel # NoStream
                   THEN Put(st, l.channel, s, Ack(l.inNext)) ELSE st
<1>1. l \in LinkStates /\ l.channel \in Streams \cup {NoStream} /\ l.inNext \in Nat
      /\ (l.closeSent => l.localEnd)
  BY LinkFields DEF Ready
<1>2. a \in LinkStates /\ a.base = l.base /\ a.data = l.data /\ a.inNext = l.inNext
      /\ a.sent = l.sent /\ a.channel = NoStream /\ a.localEnd = l.localEnd
      /\ a.closeSent = l.closeSent /\ a.end # "no" /\ a.localDead = l.localDead
  BY <1>1 DEF LinkStates
<1> HIDE DEF a
<1>3. Ready(s, l, told, read[s])
  <2>1. CASE end = "Closed" /\ l.channel # NoStream
    <3>1. l.channel \in Streams /\ Ack(l.inNext) \in Messages /\ Ack(l.inNext).kind = "ack"
          /\ read[s] \in Nat
      BY <1>1, <2>1, MessageTypes DEF Ready, Ack
    <3>2. Truthful(Ack(l.inNext), Other(s), With(s, l, read[s]))
      BY <1>1, <3>1, CountTrue
    <3>3. Fits(st, l.channel, s, Start(Ack(l.inNext)), link[Other(s)].inNext)
      BY <1>1, <3>1, CountTrue
    <3>4. Ready(s, l, Put(st, l.channel, s, Ack(l.inNext)), read[s])
      BY <3>1, <3>2, <3>3, PutReady
    <3> QED  BY <2>1, <3>4
  <2>2. CASE ~(end = "Closed" /\ l.channel # NoStream)
    BY <2>2
  <2> QED  BY <2>1, <2>2
<1> HIDE DEF told
<1>4. Ready(s, a, Leave(told, l.channel, s), read'[s])
  BY <1>1, <1>2, <1>3, LeaveReady, SameReady
<1>5. Goes(s, a, Leave(told, l.channel, s))
  BY DEF Finish, a, told
<1>6. NoneWaits(a) /\ Handed(s, a)
  BY <1>2 DEF NoneWaits, Handed
<1>7. read' \in [Sides -> Nat] /\ read'[Other(s)] = read[Other(s)]
  BY DEF IInv, TypeOK
<1> QED  BY <1>4, <1>5, <1>6, <1>7, GoesKeeps

-----------------------------------------------------------------------------
LEMMA InitKeeps == Init => IInv
<1> SUFFICES ASSUME Init  PROVE IInv
  OBVIOUS
<1> USE DEF Init
<1>1. PICK p \in 0..MaxRead["guest"] : read = [s \in Sides |-> IF s = "guest" THEN p ELSE 0]
  OBVIOUS
<1>2. p \in Nat
  BY BoundAssumption DEF Sides
<1>3. read \in [Sides -> Nat] /\ taken = [s \in Sides |-> <<>>]
  BY <1>1, <1>2
<1>4. ASSUME NEW s \in Sides
      PROVE  /\ link[s] \in LinkStates /\ link[s].base = 0 /\ End(link[s]) = read[s]
             /\ link[s].inNext = 0 /\ link[s].sent = 0 /\ Bytes(link[s])
             /\ link[s].closeSent = FALSE /\ link[s].peerClose = None
  <2> DEFINE d == [i \in 1..read[s] |-> i]
  <2>1. read[s] \in Nat
    BY <1>3
  <2>2. d \in Seq(Nat) /\ Len(d) = read[s] /\ \A i \in 1..read[s] : d[i] = 0 + i
    BY <2>1
  <2>3. link[s] = [base |-> 0, data |-> d, sent |-> 0, inNext |-> 0, unacked |-> 0,
           ackAt |-> FALSE, ackDue |-> FALSE, localEnd |-> FALSE, localDead |-> FALSE,
           writerFailed |-> FALSE, closeSent |-> FALSE, peerClose |-> None,
           channel |-> 1, broken |-> FALSE, end |-> "no"]
    OBVIOUS
  <2>4. 1 \in Streams
    BY BoundAssumption DEF Streams
  <2> HIDE DEF d, Init
  <2>5. link[s] \in LinkStates
    BY <2>2, <2>3, <2>4 DEF LinkStates, Ends
  <2>6. link[s].base = 0 /\ link[s].data = d /\ link[s].inNext = 0 /\ link[s].sent = 0
        /\ link[s].closeSent = FALSE /\ link[s].peerClose = None
    BY <2>3
  <2>7. End(link[s]) = read[s]
    BY <2>1, <2>2, <2>6 DEF End
  <2>8. Bytes(link[s])
    BY <2>2, <2>6 DEF Bytes
  <2> QED  BY <2>5, <2>6, <2>7, <2>8
<1> HIDE DEF Init
<1>5. ASSUME NEW k \in Streams
      PROVE  stream[k] \in StreamStates /\ TrueStream(stream[k], Now)
  <2>1. stream[k] = [to |-> [s \in Sides |-> <<>>],
                     at |-> [s \in Sides |-> IF k = 1 THEN "open" ELSE "none"],
                     hello |-> None, cut |-> FALSE]
    BY DEF Init
  <2>2. stream[k] \in StreamStates
    BY <2>1, HeldNothing DEF StreamStates
  <2>3. Now["guest"].in = 0
    BY <1>4 DEF Now, Sides
  <2>4. \A s \in Sides : TrueQueue(stream[k].to[s], s, Now)
    BY <2>1, HeldNothing DEF TrueQueue
  <2>5. stream[k].hello = -1
    BY <2>1 DEF None
  <2>6. stream[k].hello <= Now["guest"].in
    BY <2>3, <2>5
  <2> QED  BY <2>2, <2>4, <2>6 DEF TrueStream
<1>6. TypeOK
  <2>1. link \in [Sides -> LinkStates]
    BY <1>4 DEF Init
  <2>2. stream \in [Streams -> StreamStates]
    BY <1>5 DEF Init
  <2>3. taken \in [Sides -> Seq(Nat)]
    BY DEF Init
  <2>4. attempt \in [stream : Streams \cup {NoStream}, planned : BOOLEAN, game : BOOLEAN]
    BY DEF Init
  <2> QED  BY <1>3, <2>1, <2>2, <2>3, <2>4 DEF TypeOK
<1>o. ASSUME NEW s \in Sides
      PROVE  /\ link[s].base <= link[Other(s)].inNext /\ link[s].inNext <= read[Other(s)]
             /\ link[s].base <= link[s].sent /\ link[s].sent <= link[Other(s)].inNext
  <2>1. Other(s) \in Sides
    BY OtherSide
  <2>2. link[Other(s)].inNext = 0 /\ read[Other(s)] \in Nat
    BY <1>3, <1>4, <2>1
  <2>3. link[s].base = 0 /\ link[s].inNext = 0 /\ link[s].sent = 0
    BY <1>4
  <2> QED  BY <2>2, <2>3
<1>7. NothingLost /\ SentAfterBase
  BY <1>4, <1>o DEF NothingLost, SentAfterBase
<1>8. AllTruthful(stream, Now)
  BY <1>5 DEF AllTruthful
<1>9. Exact
  <2>1. FirstBytes(0) = <<>>
    BY DEF FirstBytes
  <2>2. \A s \in Sides : taken[s] = FirstBytes(link[s].inNext)
    BY <1>3, <1>4, <2>1
  <2>3. \A s \in Sides : link[s].inNext <= read[Other(s)]
    BY <1>o
  <2> QED  BY <1>4, <2>2, <2>3 DEF Exact
<1>10. AllCarry
  BY <1>o DEF AllCarry, Carries, Fits, Reaches
<1> QED  BY <1>6, <1>7, <1>8, <1>9, <1>10 DEF IInv

\* Steps that change only flags of a link, and no stream.
LEMMA FlagsKeep ==
  ASSUME IInv, NEW s \in Sides, NEW a \in LinkStates, Goes(s, a, stream),
         a.base = link[s].base, a.data = link[s].data, a.inNext = link[s].inNext,
         a.sent = link[s].sent, a.channel = link[s].channel, a.end = link[s].end,
         a.peerClose = link[s].peerClose, a.closeSent = link[s].closeSent,
         link[s].localEnd => a.localEnd, link[s].localDead => a.localDead,
         UNCHANGED <<read, taken, attempt>>
  PROVE  IInv'
<1>1. Ready(s, link[s], stream, read[s]) /\ (link[s].closeSent => link[s].localEnd)
      /\ NoneWaits(link[s]) /\ Handed(s, link[s])
  BY StillReady, InvFacts
<1>2. Ready(s, a, stream, read'[s])
  BY <1>1, SameReady
<1>3. NoneWaits(a) /\ Handed(s, a)
  BY <1>1 DEF NoneWaits, Handed
<1>4. /\ read' \in [Sides -> Nat] /\ read'[Other(s)] = read[Other(s)]
      /\ attempt' \in [stream : Streams \cup {NoStream}, planned : BOOLEAN, game : BOOLEAN]
  BY DEF IInv, TypeOK
<1> QED  BY <1>2, <1>3, <1>4, GoesKeeps

LEMMA ReadLocalKeeps == ASSUME IInv, NEW s \in Sides, ReadLocal(s)  PROVE IInv'
<1>1. PICK n \in 1..MaxData :
        /\ read' = [read EXCEPT ![s] = @ + n]
        /\ Goes(s, [link[s] EXCEPT !.data = @ \o [i \in 1..n |-> read[s] + i]], stream)
  BY DEF ReadLocal
<1> DEFINE more == [i \in 1..n |-> read[s] + i]
           d == link[s].data \o more
           a == [link[s] EXCEPT !.data = d]
           len == Len(link[s].data)
<1>2. n \in Nat /\ MaxData \in Nat
  BY LimitAssumption
<1>3. /\ read[s] \in Nat /\ read \in [Sides -> Nat] /\ link[s] \in LinkStates
      /\ link[s].base \in Nat /\ len \in Nat /\ link[s].base + len = read[s]
      /\ link[s].data \in Seq(Nat) /\ Bytes(link[s]) /\ link[s].localEnd = FALSE
      /\ TypeOK
  <2>1. link[s] \in LinkStates /\ read[s] \in Nat /\ Bytes(link[s]) /\ End(link[s]) = read[s]
    BY InvFacts
  <2> QED  BY <2>1, LinkFields DEF ReadLocal, End, IInv, TypeOK
<1>4. more \in Seq(Nat) /\ Len(more) = n /\ \A i \in 1..n : more[i] = read[s] + i
  BY <1>2, <1>3
<1> HIDE DEF more
<1>5. /\ d \in Seq(Nat) /\ Len(d) = len + n
      /\ \A i \in 1..(len + n) : d[i] = IF i <= len THEN link[s].data[i] ELSE more[i - len]
  BY <1>3, <1>4, ConcatProperties
<1>6. \A i \in 1..(len + n) : d[i] = link[s].base + i
  <2>1. ASSUME NEW i \in 1..(len + n)  PROVE d[i] = link[s].base + i
    <3>1. CASE i <= len
      <4>1. i \in 1..len
        BY <1>2, <1>3, <3>1
      <4> QED  BY <1>3, <1>5, <3>1, <4>1 DEF Bytes
    <3>2. CASE ~(i <= len)
      <4>1. i - len \in 1..n
        BY <1>2, <1>3, <3>2
      <4>2. d[i] = read[s] + (i - len)
        BY <1>4, <1>5, <3>2, <4>1
      <4> QED  BY <1>2, <1>3, <4>2
    <3> QED  BY <3>1, <3>2
  <2> QED  BY <2>1
<1> HIDE DEF d
<1>7. a \in LinkStates /\ a.base = link[s].base /\ a.data = d /\ a.inNext = link[s].inNext
      /\ a.sent = link[s].sent /\ a.channel = link[s].channel /\ a.localEnd = link[s].localEnd
      /\ a.closeSent = link[s].closeSent /\ a.end = link[s].end
      /\ a.peerClose = link[s].peerClose /\ a.localDead = link[s].localDead
  BY <1>3, <1>5 DEF LinkStates
<1> HIDE DEF a
<1>8. /\ read' \in [Sides -> Nat] /\ read'[s] = read[s] + n
      /\ read'[Other(s)] = read[Other(s)]
  BY <1>1, <1>2, <1>3, OtherSide
<1>9. Ready(s, link[s], stream, read[s])
  BY StillReady
<1>10. End(a) = read'[s] /\ Bytes(a)
  <2>1. End(a) = link[s].base + (len + n)
    BY <1>5, <1>7 DEF End
  <2>2. Bytes(a)
    BY <1>5, <1>6, <1>7 DEF Bytes
  <2> QED  BY <1>2, <1>3, <1>8, <2>1, <2>2
<1>11. AllTruthful(stream, With(s, a, read'[s]))
  <2>1. link[s].inNext \in Nat /\ a.inNext = link[s].inNext /\ read'[s] \in Nat
        /\ read[s] <= read'[s]
    BY <1>2, <1>3, <1>7, <1>8, LinkFields
  <2>2. Grown(With(s, link[s], read[s]), With(s, a, read'[s]))
    BY <1>3, <1>7, <2>1, WithGrown
  <2>3. With(s, link[s], read[s]) \in Views /\ With(s, a, read'[s]) \in Views
    BY <1>3, <1>7, <2>1, WithTypes
  <2> QED  BY <1>9, <2>2, <2>3, TruthGrows DEF Ready
<1>12. Ready(s, a, stream, read'[s])
  <2>1. read'[s] \in Nat /\ read[s] <= read'[s]
    BY <1>2, <1>3, <1>8
  <2>2. Carries(stream, s, a, link[Other(s)].inNext)
    BY <1>7, <1>9 DEF Carries, Ready
  <2> QED  BY <1>7, <1>9, <1>10, <1>11, <2>1, <2>2 DEF Ready
<1>13. Goes(s, a, stream) /\ taken' = taken /\ attempt' = attempt
  BY <1>1 DEF a, d, more, ReadLocal
<1>14. NoneWaits(a) /\ Handed(s, a)
  <2>1. NoneWaits(link[s]) /\ Handed(s, link[s])
    BY <1>13, InvFacts
  <2> QED  BY <1>7, <2>1 DEF NoneWaits, Handed
<1> QED  BY <1>8, <1>12, <1>13, <1>14, GoesKeeps DEF IInv, TypeOK

LEMMA FlagSteps ==
  ASSUME IInv, NEW s \in Sides,
         LocalEof(s) \/ WriterFails(s) \/ LocalFail(s) \/ AckTimer(s)
  PROVE  IInv'
<1> DEFINE Flagged == {[link[s] EXCEPT !.localEnd = TRUE], [link[s] EXCEPT !.writerFailed = TRUE],
                       [link[s] EXCEPT !.localDead = TRUE, !.localEnd = TRUE],
                       [link[s] EXCEPT !.ackDue = TRUE]}
<1>1. link[s] \in LinkStates
  BY InvFacts
<1>2. ASSUME NEW a \in Flagged
      PROVE  /\ a \in LinkStates /\ a.base = link[s].base /\ a.data = link[s].data
             /\ a.inNext = link[s].inNext /\ a.sent = link[s].sent
             /\ a.channel = link[s].channel /\ a.end = link[s].end
             /\ a.peerClose = link[s].peerClose /\ a.closeSent = link[s].closeSent
             /\ (link[s].localEnd => a.localEnd) /\ (link[s].localDead => a.localDead)
  BY <1>1, <1>2 DEF LinkStates
<1>3. UNCHANGED <<read, taken, attempt>> /\ \E a \in Flagged : Goes(s, a, stream)
  BY DEF LocalEof, WriterFails, LocalFail, AckTimer
<1> HIDE DEF Flagged
<1> QED  BY <1>2, <1>3, FlagsKeep

-----------------------------------------------------------------------------
(* What a link receives. *)

\* A link that received more of what the other game gave.
LEMMA GrownReady ==
  ASSUME IInv, NEW s \in Sides, NEW l \in LinkStates,
         l.base = link[s].base, l.data = link[s].data, l.sent = link[s].sent,
         l.channel = link[s].channel, l.localEnd = link[s].localEnd,
         l.closeSent = link[s].closeSent,
         link[s].inNext <= l.inNext, l.inNext <= read[Other(s)]
  PROVE  Ready(s, l, stream, read[s])
<1>1. /\ link[s] \in LinkStates /\ link[s].inNext \in Nat /\ l.inNext \in Nat /\ read[s] \in Nat
      /\ TypeOK /\ Typed(stream) /\ Other(s) \in Sides
  BY InvFacts, LinkFields, OtherSide DEF IInv
<1>2. AllTruthful(stream, With(s, l, read[s]))
  <2>1. read[s] <= read[s]
    BY <1>1
  <2>2. Grown(With(s, link[s], read[s]), With(s, l, read[s]))
    BY <1>1, <2>1, WithGrown
  <2>3. With(s, link[s], read[s]) \in Views /\ With(s, l, read[s]) \in Views
    BY <1>1, WithTypes
  <2>4. AllTruthful(stream, With(s, link[s], read[s]))
    BY StillReady DEF Ready
  <2> QED  BY <1>1, <2>2, <2>3, <2>4, TruthGrows
<1>3. Carries(stream, s, l, link[Other(s)].inNext)
  BY InvFacts DEF Carries
<1>4. Carries(stream, Other(s), link[Other(s)], l.inNext)
  BY <1>1, InvFacts, CarriesMore
<1>5. End(l) = End(link[s]) /\ Bytes(l)
  BY InvFacts DEF End, Bytes
<1>6. read[s] <= read[s]
  BY <1>1
<1> QED  BY <1>1, <1>2, <1>3, <1>4, <1>5, <1>6, InvFacts DEF Ready

\* The link has all of the record it takes from its stream.
LEMMA PopReady ==
  ASSUME IInv, NEW s \in Sides, NEW l, NEW rd, NEW k \in Streams, Ready(s, l, stream, rd),
         stream[k].to[s] # <<>>,
         Head(stream[k].to[s]).kind = "data" => Last(Head(stream[k].to[s])) <= l.inNext
  PROVE  Ready(s, l, Pop(k, s), rd)
<1>1. /\ l \in LinkStates /\ l.inNext \in Nat /\ rd \in Nat /\ TypeOK /\ Typed(stream)
      /\ link[Other(s)] \in LinkStates /\ link[Other(s)].inNext \in Nat
      /\ Other(s) \in Sides /\ Other(s) # s
  BY OtherSide, InvFacts, LinkFields DEF Ready, IInv
<1>2. With(s, l, rd) \in Views /\ With(s, l, rd)[s].in = l.inNext
  <2>1. /\ With(s, l, rd) \in Views
        /\ With(s, l, rd)[s] = [in |-> l.inNext, read |-> rd, ended |-> l.localEnd]
    BY <1>1, WithTypes
  <2> QED  BY <2>1
<1>3. Typed(Pop(k, s)) /\ AllTruthful(Pop(k, s), With(s, l, rd))
  BY <1>1, <1>2, PopKeeps DEF Ready
<1>4. Carries(Pop(k, s), s, l, link[Other(s)].inNext)
  BY <1>1, PopCarries DEF Ready
<1>5. Carries(Pop(k, s), Other(s), link[Other(s)], l.inNext)
  BY <1>1, PopCarries DEF Ready
<1> QED  BY <1>3, <1>4, <1>5 DEF Ready

\* The record at the head of a link's channel.
LEMMA ArrivedFacts ==
  ASSUME IInv, NEW s \in Sides, NEW kind, Arrived(s, kind)
  PROVE  LET k == link[s].channel
             m == Head(stream[k].to[s])
         IN /\ k \in Streams /\ stream[k].to[s] # <<>> /\ m \in Messages /\ m.kind = kind
            /\ Truthful(m, s, Now) /\ Start(m) <= link[s].inNext
            /\ kind # "data" => Ready(s, link[s], Pop(k, s), read[s])
            /\ link[s].end = "no" /\ link[s].peerClose = None
<1> DEFINE k == link[s].channel
<1>1. link[s] \in LinkStates /\ Typed(stream) /\ AllTruthful(stream, Now) /\ Now \in Views
      /\ Now[s].in = link[s].inNext /\ NoneWaits(link[s])
  <2>1. Now[s].in = link[s].inNext
    BY DEF Now
  <2> QED  BY <2>1, InvFacts
<1>2. k \in Streams /\ link[s].end = "no"
  BY <1>1, LinkFields DEF Arrived, Running
<1>3. stream[k].to[s] # <<>> /\ Head(stream[k].to[s]).kind = kind
  BY DEF Arrived
<1> HIDE DEF k
<1>4. /\ Head(stream[k].to[s]) \in Messages /\ Truthful(Head(stream[k].to[s]), s, Now)
      /\ Start(Head(stream[k].to[s])) <= link[s].inNext
  BY <1>1, <1>2, <1>3, PopKeeps
<1>5. kind # "data" => Ready(s, link[s], Pop(k, s), read[s])
  BY <1>2, <1>3, StillReady, PopReady
<1> QED  BY <1>1, <1>2, <1>3, <1>4, <1>5 DEF k, NoneWaits

\* A sequence that holds the bytes after off completes the first n bytes.
LEMMA NextBytes ==
  ASSUME NEW q \in Seq(Nat), NEW off \in Nat, NEW n \in Nat, NEW last \in Nat,
         last = off + Len(q), off <= n, n < last, \A i \in 1..Len(q) : q[i] = off + i
  PROVE  LET fresh == SubSeq(q, n - off + 1, Len(q))
         IN /\ fresh \in Seq(Nat) /\ Len(fresh) \in Nat
            /\ FirstBytes(n) \o fresh = FirstBytes(last)
<1> DEFINE from == n - off + 1
           first == FirstBytes(n)
           whole == FirstBytes(last)
           fresh == SubSeq(q, from, Len(q))
           joined == first \o fresh
<1>1. Len(q) \in Nat /\ from \in Nat /\ from >= 1 /\ from <= Len(q) /\ from = n - off + 1
  BY LenProperties
<1> HIDE DEF from
<1>2. \A i \in from..Len(q) : q[i] \in Nat
  <2>1. \A i \in from..Len(q) : i \in 1..Len(q)
    BY <1>1
  <2> QED  BY <2>1, LenProperties
<1>3. /\ fresh \in Seq(Nat) /\ Len(fresh) = Len(q) - from + 1
      /\ \A i \in 1..(Len(q) - from + 1) : fresh[i] = q[from + i - 1]
  BY <1>1, <1>2, SubSeqProperties
<1> HIDE DEF fresh
<1>4. Len(fresh) = last - n /\ Len(fresh) \in Nat
  BY <1>1, <1>3
<1>5. \A i \in 1..(last - n) : fresh[i] = n + i
  <2>1. ASSUME NEW i \in 1..(last - n)  PROVE fresh[i] = n + i
    <3>1. i \in 1..(Len(q) - from + 1) /\ from + i - 1 \in 1..Len(q)
      BY <1>1, <2>1
    <3>2. fresh[i] = q[from + i - 1] /\ q[from + i - 1] = off + (from + i - 1)
      BY <1>3, <3>1
    <3> QED  BY <1>1, <3>2
  <2> QED  BY <2>1
<1>6. first \in Seq(Nat) /\ Len(first) = n /\ \A i \in 1..n : first[i] = i
  BY DEF FirstBytes
<1>7. whole \in Seq(Nat) /\ Len(whole) = last /\ \A i \in 1..last : whole[i] = i
  BY DEF FirstBytes
<1> HIDE DEF first, whole
<1>8. /\ joined \in Seq(Nat) /\ Len(joined) = n + (last - n)
      /\ \A i \in 1..(n + (last - n)) :
            joined[i] = IF i <= n THEN first[i] ELSE fresh[i - n]
  <2>1. /\ joined \in Seq(Nat) /\ Len(joined) = Len(first) + Len(fresh)
        /\ \A i \in 1..(Len(first) + Len(fresh)) :
              joined[i] = IF i <= Len(first) THEN first[i] ELSE fresh[i - Len(first)]
    BY <1>3, <1>6, ConcatProperties
  <2> HIDE DEF joined
  <2> QED  BY <1>4, <1>6, <2>1
<1> HIDE DEF joined
<1>9. \A i \in 1..last : joined[i] = i
  <2>1. ASSUME NEW i \in 1..last  PROVE joined[i] = i
    <3>1. i \in 1..(n + (last - n))
      OBVIOUS
    <3>2. CASE i <= n
      <4>1. i \in 1..n
        BY <3>2
      <4> QED  BY <1>6, <1>8, <3>1, <3>2, <4>1
    <3>3. CASE ~(i <= n)
      <4>1. i - n \in 1..(last - n)
        BY <3>3
      <4>2. joined[i] = n + (i - n)
        BY <1>5, <1>8, <3>1, <3>3, <4>1
      <4> QED  BY <4>2
    <3> QED  BY <3>2, <3>3
  <2> QED  BY <2>1
<1>10. Len(joined) = last
  BY <1>8
<1>11. joined = whole
  BY <1>7, <1>8, <1>9, <1>10, SeqEqual
<1> QED  BY <1>3, <1>4, <1>11 DEF joined, whole, first, fresh, from

\* The bytes of a record that had not arrived yet are the next ones.
LEMMA FreshBytes ==
  ASSUME NEW l \in LinkStates, NEW m \in Messages, m.kind = "data",
         m.offset <= l.inNext, l.inNext < Last(m),
         \A i \in 1..Len(m.bytes) : m.bytes[i] = m.offset + i
  PROVE  /\ Fresh(l, m) \in Seq(Nat) /\ Len(Fresh(l, m)) \in Nat
         /\ FirstBytes(l.inNext) \o Fresh(l, m) = FirstBytes(Last(m))
<1>1. m.offset \in Nat /\ m.bytes \in Seq(Nat) /\ l.inNext \in Nat /\ Last(m) \in Nat
  BY MessageFields, LinkFields
<1>2. Last(m) = m.offset + Len(m.bytes)
  BY DEF Last
<1> QED  BY <1>1, <1>2, NextBytes DEF Fresh

\* What RecvData makes of a link that received n new bytes, up to last.
CountedTo(l, n, last) ==
    [Counted(l, n) EXCEPT !.inNext = last, !.localDead = @ \/ l.writerFailed]

LEMMA CountedKeeps ==
  ASSUME NEW l \in LinkStates, NEW n \in Nat, NEW last \in Nat
  PROVE  LET a == CountedTo(l, n, last)
         IN /\ a \in LinkStates /\ a.base = l.base /\ a.data = l.data
            /\ a.inNext = last /\ a.channel = l.channel /\ a.sent = l.sent
            /\ a.localEnd = l.localEnd /\ a.closeSent = l.closeSent /\ a.end = l.end
            /\ a.peerClose = l.peerClose /\ (l.localDead => a.localDead)
<1> DEFINE many == l.unacked + n >= AckEvery
           c == [l EXCEPT !.unacked = l.unacked + n, !.ackDue = l.ackDue \/ many,
                          !.ackAt = l.ackAt \/ ~many]
           dead == l.localDead \/ l.writerFailed
           a == [c EXCEPT !.inNext = last, !.localDead = dead]
<1>1. l.unacked + n \in Nat /\ (l.ackDue \/ many) \in BOOLEAN /\ (l.ackAt \/ ~many) \in BOOLEAN
      /\ dead \in BOOLEAN
  BY LinkFields
<1>2. c \in LinkStates /\ c.base = l.base /\ c.data = l.data /\ c.channel = l.channel
      /\ c.localDead = l.localDead /\ c.sent = l.sent /\ c.localEnd = l.localEnd
      /\ c.closeSent = l.closeSent /\ c.end = l.end /\ c.peerClose = l.peerClose
  BY <1>1 DEF LinkStates
<1>3. Counted(l, n) = c
  BY DEF Counted
<1> HIDE DEF c, dead
<1>4. a \in LinkStates /\ a.base = c.base /\ a.data = c.data /\ a.inNext = last
      /\ a.channel = c.channel /\ a.sent = c.sent /\ a.localEnd = c.localEnd
      /\ a.closeSent = c.closeSent /\ a.end = c.end /\ a.peerClose = c.peerClose
      /\ a.localDead = dead
  BY <1>1, <1>2 DEF LinkStates
<1>5. a = CountedTo(l, n, last)
  BY <1>2, <1>3 DEF CountedTo, dead
<1>6. l.localDead => a.localDead
  BY <1>4 DEF dead
<1> QED  BY <1>2, <1>4, <1>5, <1>6

LEMMA RecvDataKeeps == ASSUME IInv, NEW s \in Sides, RecvData(s)  PROVE IInv'
<1> DEFINE k == link[s].channel
           m == Head(stream[k].to[s])
           last == Last(m)
           fresh == Fresh(link[s], m)
           l == CountedTo(link[s], Len(fresh), last)
<1>1. Arrived(s, "data") /\ UNCHANGED <<attempt, read>>
  BY DEF RecvData
<1>2. /\ k \in Streams /\ stream[k].to[s] # <<>> /\ m \in Messages /\ m.kind = "data"
      /\ Truthful(m, s, Now) /\ Start(m) <= link[s].inNext /\ link[s].peerClose = None
  BY <1>1, ArrivedFacts
<1>3. /\ m.offset \in Nat /\ last \in Nat /\ m.offset <= link[s].inNext
      /\ last <= read[Other(s)] /\ \A i \in 1..Len(m.bytes) : m.bytes[i] = m.offset + i
  <2>1. m.offset \in Nat /\ last \in Nat /\ Start(m) = m.offset
    BY <1>2, MessageFields
  <2>2. last <= Now[Other(s)].read /\ \A i \in 1..Len(m.bytes) : m.bytes[i] = m.offset + i
    BY <1>2 DEF Truthful
  <2>3. Now[Other(s)].read = read[Other(s)]
    BY OtherSide DEF Now
  <2> QED  BY <1>2, <2>1, <2>2, <2>3
<1>4. link[s] \in LinkStates /\ link[s].inNext \in Nat /\ taken \in [Sides -> Seq(Nat)]
      /\ TypeOK /\ (link[s].localDead \/ taken[s] = FirstBytes(link[s].inNext))
  BY InvFacts DEF IInv, TypeOK, Exact
<1>5. IF last <= link[s].inNext
      THEN Goes(s, link[s], Pop(k, s)) /\ taken' = taken
      ELSE /\ taken' = [taken EXCEPT ![s] = IF l.localDead THEN @ ELSE @ \o fresh]
           /\ IF l.peerClose # None /\ last >= l.peerClose
              THEN Finish(s, l, Pop(k, s), "Closed") ELSE Goes(s, l, Pop(k, s))
  <2>1. ~(m.offset > link[s].inNext)
    <3> HIDE DEF m
    <3>1. m.offset \in Nat /\ m.offset <= link[s].inNext /\ link[s].inNext \in Nat
      BY <1>3, <1>4
    <3> QED  BY <3>1
  <2>2. CASE last <= link[s].inNext
    BY <2>1, <2>2 DEF RecvData, Last
  <2>3. CASE ~(last <= link[s].inNext)
    BY <2>1, <2>3 DEF RecvData, CountedTo, Last
  <2> QED  BY <2>2, <2>3
<1>6. /\ read' \in [Sides -> Nat] /\ read'[Other(s)] = read[Other(s)] /\ read'[s] = read[s]
      /\ attempt' \in [stream : Streams \cup {NoStream}, planned : BOOLEAN, game : BOOLEAN]
  BY <1>1, <1>4 DEF TypeOK
<1> HIDE DEF m, k
<1>7. CASE last <= link[s].inNext
  <2>1. Ready(s, link[s], Pop(k, s), read'[s])
    BY <1>2, <1>6, <1>7, StillReady, PopReady DEF m
  <2>2. NoneWaits(link[s]) /\ Handed(s, link[s])
    BY <1>5, <1>7, InvFacts
  <2> QED  BY <1>5, <1>6, <1>7, <2>1, <2>2, GoesKeeps
<1>8. CASE ~(last <= link[s].inNext)
  <2>1. link[s].inNext < last /\ link[s].inNext <= last
    BY <1>3, <1>4, <1>8
  <2>2. /\ fresh \in Seq(Nat) /\ Len(fresh) \in Nat
        /\ FirstBytes(link[s].inNext) \o fresh = FirstBytes(last)
    BY <1>2, <1>3, <1>4, <2>1, FreshBytes
  <2> HIDE DEF fresh, last
  <2>3. /\ l \in LinkStates /\ l.base = link[s].base /\ l.data = link[s].data
        /\ l.inNext = last /\ l.channel = link[s].channel /\ l.sent = link[s].sent
        /\ l.localEnd = link[s].localEnd /\ l.closeSent = link[s].closeSent
        /\ l.end = link[s].end /\ l.peerClose = None
        /\ (link[s].localDead => l.localDead)
    <3>1. Len(fresh) \in Nat /\ last \in Nat /\ link[s] \in LinkStates
      BY <1>3, <1>4, <2>2
    <3>2. link[s].peerClose = None
      BY <1>2
    <3>3. \A b \in LinkStates : \A n, e \in Nat :
            LET a == CountedTo(b, n, e)
            IN /\ a \in LinkStates /\ a.base = b.base /\ a.data = b.data
               /\ a.inNext = e /\ a.channel = b.channel /\ a.sent = b.sent
               /\ a.localEnd = b.localEnd /\ a.closeSent = b.closeSent
               /\ a.end = b.end /\ a.peerClose = b.peerClose
               /\ (b.localDead => a.localDead)
      BY CountedKeeps
    <3>4. LET a == CountedTo(link[s], Len(fresh), last)
          IN /\ a \in LinkStates /\ a.base = link[s].base /\ a.data = link[s].data
             /\ a.inNext = last /\ a.channel = link[s].channel /\ a.sent = link[s].sent
             /\ a.localEnd = link[s].localEnd /\ a.closeSent = link[s].closeSent
             /\ a.end = link[s].end /\ a.peerClose = link[s].peerClose
             /\ (link[s].localDead => a.localDead)
      BY <3>1, <3>3, Zenon
    <3> QED  BY <3>2, <3>4
  <2> HIDE DEF l
  <2>4. Ready(s, l, stream, read[s])
    BY <1>3, <2>1, <2>3, GrownReady
  <2>5. last <= l.inNext
    BY <1>3, <2>3
  <2>6. Ready(s, l, Pop(k, s), read'[s])
    BY <1>2, <1>6, <2>4, <2>5, PopReady DEF m, last
  <2>7. Handed(s, l)
    <3>1. taken[s] \in Seq(Nat) /\ taken[s] \o fresh \in Seq(Nat)
      BY <1>4, <2>2, ConcatProperties
    <3>2. taken' \in [Sides -> Seq(Nat)]
      BY <1>4, <1>5, <1>8, <3>1
    <3>3. taken'[Other(s)] = taken[Other(s)]
      BY <1>4, <1>5, <1>8, OtherSide
    <3>4. l.localDead \/ taken'[s] = taken[s] \o fresh
      BY <1>4, <1>5, <1>8
    <3>5. l.localDead \/ taken'[s] = FirstBytes(l.inNext)
      BY <1>4, <2>2, <2>3, <3>4
    <3> QED  BY <3>2, <3>3, <3>5 DEF Handed
  <2>8. Goes(s, l, Pop(k, s)) /\ NoneWaits(l)
    BY <1>5, <1>8, <2>3 DEF NoneWaits
  <2> QED  BY <1>6, <2>6, <2>7, <2>8, GoesKeeps
<1> QED  BY <1>7, <1>8

LEMMA RecvAckKeeps == ASSUME IInv, NEW s \in Sides, RecvAck(s)  PROVE IInv'
<1> DEFINE k == link[s].channel
           next == Head(stream[k].to[s]).count
           c == Acknowledge(link[s], next)
           forward == [c EXCEPT !.sent = Larger(@, next)]
           l == IF next > link[s].base THEN forward ELSE link[s]
<1>1. Arrived(s, "ack") /\ UNCHANGED <<attempt, read, taken>>
  BY DEF RecvAck
<1>2. /\ k \in Streams /\ Head(stream[k].to[s]) \in Messages /\ Head(stream[k].to[s]).kind = "ack"
      /\ Ready(s, link[s], Pop(k, s), read[s]) /\ Truthful(Head(stream[k].to[s]), s, Now)
  BY <1>1, ArrivedFacts
<1>3. next \in Nat
  BY <1>2, MessageFields
<1>4. next <= link[Other(s)].inNext
  <2>1. next <= Now[Other(s)].in
    BY <1>2 DEF Truthful
  <2> QED  BY <2>1, OtherSide DEF Now
<1>5. /\ link[s] \in LinkStates /\ link[s].base \in Nat /\ End(link[s]) = read[s]
      /\ read[s] \in Nat /\ Bytes(link[s]) /\ link[Other(s)].inNext \in Nat
      /\ NoneWaits(link[s]) /\ Handed(s, link[s])
  BY <1>1, InvFacts, LinkFields, OtherSide
<1>6. next <= End(link[s])
  <2>1. link[Other(s)].inNext <= read[s]
    BY InvFacts, OtherSide
  <2> QED  BY <1>3, <1>4, <1>5, <2>1
<1>7. Finish(s, l, Pop(k, s), "Closed") \/ Goes(s, l, Pop(k, s))
  <2>1. ~(next > End(link[s]))
    BY <1>3, <1>5, <1>6
  <2> QED  BY <2>1 DEF RecvAck
<1> HIDE DEF next, k
<1>8. Ready(s, l, Pop(k, s), read[s]) /\ NoneWaits(l) /\ Handed(s, l)
  <2>1. CASE next > link[s].base
    <3>1. link[s].base <= next
      BY <1>3, <1>5, <2>1
    <3>2. /\ c \in LinkStates /\ c.base = next /\ End(c) = End(link[s]) /\ Bytes(c)
          /\ c.sent = link[s].sent /\ c.closeSent = link[s].closeSent /\ Same(c, link[s])
      BY <1>3, <1>5, <1>6, <3>1, AcknowledgeKeeps
    <3> HIDE DEF c
    <3>3. link[s].sent \in Nat
      BY <1>5, LinkFields
    <3>4. Larger(c.sent, next) \in Nat /\ next <= Larger(c.sent, next)
          /\ Larger(c.sent, next) \in {link[s].sent, next}
      BY <1>3, <3>2, <3>3 DEF Larger
    <3>5. forward \in LinkStates /\ forward.base = c.base /\ forward.data = c.data
          /\ forward.sent = Larger(c.sent, next) /\ forward.closeSent = c.closeSent
          /\ Same(forward, c)
      BY <3>2, <3>4 DEF LinkStates, Same
    <3> HIDE DEF forward
    <3>6. End(forward) = End(link[s]) /\ Bytes(forward)
      BY <3>2, <3>5 DEF End, Bytes
    <3>7. Carries(Pop(k, s), s, forward, link[Other(s)].inNext)
      <4>1. CASE forward.sent = next
        BY <1>4, <4>1 DEF Carries, Fits, Reaches
      <4>2. CASE forward.sent = link[s].sent
        BY <1>2, <3>2, <3>5, <4>2 DEF Carries, Ready, Same
      <4> QED  BY <3>4, <3>5, <4>1, <4>2
    <3>8. AllTruthful(Pop(k, s), With(s, forward, read[s]))
      <4>1. With(s, forward, read[s]) = With(s, link[s], read[s])
        BY <3>2, <3>5 DEF With, Same
      <4> QED  BY <1>2, <4>1 DEF Ready
    <3>9. forward.inNext = link[s].inNext /\ forward.localEnd = link[s].localEnd
          /\ forward.closeSent = link[s].closeSent /\ forward.base = next
          /\ forward.localDead = link[s].localDead /\ forward.end = link[s].end
          /\ forward.peerClose = link[s].peerClose /\ next <= forward.sent
      BY <3>2, <3>4, <3>5 DEF Same
    <3>10. Ready(s, forward, Pop(k, s), read[s])
      BY <1>2, <1>4, <3>5, <3>6, <3>7, <3>8, <3>9 DEF Ready
    <3>11. NoneWaits(forward) /\ Handed(s, forward)
      BY <1>5, <3>9 DEF NoneWaits, Handed
    <3> QED  BY <2>1, <3>10, <3>11
  <2>2. CASE ~(next > link[s].base)
    BY <1>2, <1>5, <2>2
  <2> QED  BY <2>1, <2>2
<1> HIDE DEF l
<1>9. "Closed" \in Ends \ {"no"}
  BY DEF Ends
<1>10. /\ read' \in [Sides -> Nat] /\ read'[Other(s)] = read[Other(s)] /\ read' = read
       /\ attempt' \in [stream : Streams \cup {NoStream}, planned : BOOLEAN, game : BOOLEAN]
  BY <1>1 DEF IInv, TypeOK
<1>11. Ready(s, l, Pop(k, s), read'[s])
  BY <1>8, <1>10
<1> QED  BY <1>7, <1>8, <1>9, <1>10, <1>11, FinishKeeps, GoesKeeps

\* A close tells how much the other game gave, and comes when all of it came.
LEMMA CloseFacts ==
  ASSUME IInv, NEW s \in Sides, Arrived(s, "close")
  PROVE  LET at == Head(stream[link[s].channel].to[s]).count
         IN /\ at = link[s].inNext /\ at = read[Other(s)] /\ at \in Nat
            /\ link[Other(s)].localEnd
<1> DEFINE m == Head(stream[link[s].channel].to[s])
<1>1. m \in Messages /\ m.kind = "close" /\ Truthful(m, s, Now) /\ Start(m) <= link[s].inNext
  BY ArrivedFacts
<1>2. Now[Other(s)] = [in |-> link[Other(s)].inNext, read |-> read[Other(s)],
                       ended |-> link[Other(s)].localEnd]
  BY OtherSide DEF Now
<1> HIDE DEF m
<1>3. m.count = read[Other(s)] /\ link[Other(s)].localEnd
  BY <1>1, <1>2 DEF Truthful
<1>4. m.count \in Nat /\ m.count <= link[s].inNext
  BY <1>1, MessageFields
<1>5. link[s].inNext \in Nat /\ link[s].inNext <= read[Other(s)]
  BY InvFacts
<1>6. m.count = link[s].inNext
  BY <1>3, <1>4, <1>5
<1> QED  BY <1>3, <1>4, <1>6 DEF m

LEMMA RecvCloseKeeps == ASSUME IInv, NEW s \in Sides, RecvClose(s)  PROVE IInv'
<1> DEFINE k == link[s].channel
           at == Head(stream[k].to[s]).count
           l == [link[s] EXCEPT !.peerClose = at, !.localEnd = TRUE]
<1>1. Arrived(s, "close") /\ UNCHANGED <<attempt, read, taken>>
  BY DEF RecvClose
<1>2. at = link[s].inNext /\ at \in Nat
  BY <1>1, CloseFacts
<1>3. k \in Streams /\ Ready(s, link[s], Pop(k, s), read[s])
  BY <1>1, ArrivedFacts
<1>4. link[s] \in LinkStates /\ Handed(s, link[s])
  BY <1>1, InvFacts
<1>5. l.inNext = link[s].inNext
  BY <1>4 DEF LinkStates
<1>6. Finish(s, l, Pop(k, s), "Closed")
  <2>1. ~(at < link[s].inNext) /\ at <= l.inNext
    BY <1>2, <1>5
  <2> QED  BY <2>1 DEF RecvClose
<1> HIDE DEF k, at
<1>7. l \in LinkStates /\ l.base = link[s].base /\ l.data = link[s].data /\ l.inNext = link[s].inNext
      /\ l.sent = link[s].sent /\ l.channel = link[s].channel /\ l.localEnd = TRUE
      /\ l.localDead = link[s].localDead
  BY <1>2, <1>4 DEF LinkStates
<1> HIDE DEF l
<1>8. Ready(s, l, Pop(k, s), read[s])
  BY <1>3, <1>7, SameReady
<1>9. "Closed" \in Ends \ {"no"} /\ Handed(s, l)
  BY <1>4, <1>7 DEF Ends, Handed
<1>10. /\ read' = read
       /\ attempt' \in [stream : Streams \cup {NoStream}, planned : BOOLEAN, game : BOOLEAN]
  BY <1>1 DEF IInv, TypeOK
<1> QED  BY <1>6, <1>8, <1>9, <1>10, FinishKeeps

LEMMA StreamEndsKeeps == ASSUME IInv, NEW s \in Sides, StreamEnds(s)  PROVE IInv'
<1>1. Breaks(s, link[s], stream) /\ UNCHANGED <<attempt, read, taken>>
  BY DEF StreamEnds
<1>2. Ready(s, link[s], stream, read[s]) /\ NoneWaits(link[s]) /\ Handed(s, link[s])
  BY <1>1, StillReady, InvFacts
<1> QED  BY <1>1, <1>2, BreaksKeeps

-----------------------------------------------------------------------------
(* What a link sends. *)

\* A piece of a sequence whose bytes follow base.
LEMMA PieceBytes ==
  ASSUME NEW q \in Seq(Nat), NEW base \in Nat, \A i \in 1..Len(q) : q[i] = base + i,
         NEW from \in Nat, NEW upto \in Nat, from >= 1, from <= upto, upto <= Len(q)
  PROVE  LET p == SubSeq(q, from, upto)
         IN /\ p \in Seq(Nat) /\ Len(p) = upto - from + 1
            /\ \A i \in 1..Len(p) : p[i] = base + from - 1 + i
<1> DEFINE p == SubSeq(q, from, upto)
<1>1. Len(q) \in Nat
  BY LenProperties
<1>2. \A i \in from..upto : q[i] \in Nat
  <2>1. \A i \in from..upto : i \in 1..Len(q)
    BY <1>1
  <2> QED  BY <2>1, LenProperties
<1>3. /\ p \in Seq(Nat) /\ Len(p) = upto - from + 1
      /\ \A i \in 1..(upto - from + 1) : p[i] = q[from + i - 1]
  BY <1>1, <1>2, SubSeqProperties
<1> HIDE DEF p
<1>4. ASSUME NEW i \in 1..Len(p)  PROVE p[i] = base + from - 1 + i
  <2>1. i \in 1..(upto - from + 1)
    BY <1>3
  <2>2. from + i - 1 \in 1..Len(q)
    BY <1>1, <2>1
  <2>3. p[i] = q[from + i - 1] /\ q[from + i - 1] = base + (from + i - 1)
    BY <1>3, <2>1, <2>2
  <2> QED  BY <2>1, <2>3
<1> QED  BY <1>3, <1>4 DEF p

LEMMA ChunkBytes ==
  ASSUME NEW l \in LinkStates, l.base <= l.sent, l.sent < End(l), Bytes(l)
  PROVE  /\ Chunk(l) \in Seq(Nat) /\ Len(Chunk(l)) \in Nat
         /\ l.sent + Len(Chunk(l)) <= End(l)
         /\ \A i \in 1..Len(Chunk(l)) : Chunk(l)[i] = l.sent + i
<1> DEFINE from == l.sent - l.base + 1
           upto == Smaller(Len(l.data), l.sent - l.base + MaxData)
           p == SubSeq(l.data, from, upto)
<1>1. /\ l.base \in Nat /\ l.sent \in Nat /\ MaxData \in Nat /\ MaxData >= 1
      /\ l.data \in Seq(Nat) /\ Len(l.data) \in Nat /\ End(l) = l.base + Len(l.data)
  BY LinkFields, LimitAssumption DEF End
<1>2. /\ from \in Nat /\ from >= 1 /\ upto \in Nat /\ from <= upto /\ upto <= Len(l.data)
      /\ l.base + from - 1 = l.sent
  BY <1>1 DEF Smaller
<1> HIDE DEF from, upto
<1>3. /\ p \in Seq(Nat) /\ Len(p) = upto - from + 1
      /\ \A i \in 1..Len(p) : p[i] = l.base + from - 1 + i
  <2> DEFINE q == l.data
             base == l.base
  <2>1. q \in Seq(Nat) /\ base \in Nat /\ \A i \in 1..Len(q) : q[i] = base + i
    BY <1>1 DEF Bytes
  <2>2. upto <= Len(q)
    BY <1>2
  <2> HIDE DEF q, base
  <2>3. LET c == SubSeq(q, from, upto)
        IN /\ c \in Seq(Nat) /\ Len(c) = upto - from + 1
           /\ \A i \in 1..Len(c) : c[i] = base + from - 1 + i
    BY <1>2, <2>1, <2>2, PieceBytes
  <2> QED  BY <2>3 DEF q, base
<1> HIDE DEF p
<1>4. Len(p) \in Nat /\ l.sent + Len(p) <= End(l)
  BY <1>1, <1>2, <1>3
<1>5. \A i \in 1..Len(p) : p[i] = l.sent + i
  BY <1>2, <1>3
<1>6. Chunk(l) = p
  BY DEF Chunk, p, from, upto
<1> QED  BY <1>3, <1>4, <1>5, <1>6

\* What follows the record that was put fits behind it.
LEMMA PutReaches ==
  ASSUME NEW st, Typed(st), NEW k \in Streams, NEW s \in Sides, NEW m \in Messages,
         m.kind = "data", Connected(Put(st, k, s, m), k, s), NEW n
  PROVE  Fits(Put(st, k, s, m), k, s, Last(m), n)
<1> DEFINE o == Other(s)
           q == st[k].to[o]
           new == [st EXCEPT ![k].to[o] = Append(q, m)]
<1>1. o \in Sides /\ st[k] \in StreamStates /\ q \in Seq(Messages)
  BY OtherSide DEF Typed, StreamStates
<1>2. Put(st, k, s, m) = new
  BY DEF Put, Connected
<1>3. new[k].to[o] = Append(q, m)
  BY <1>1 DEF Typed, StreamStates
<1> HIDE DEF new, q
<1> QED  BY <1>1, <1>2, <1>3, ReachesAppended DEF Fits

LEMMA SendKeeps == ASSUME IInv, NEW s \in Sides, Send(s)  PROVE IInv'
<1> DEFINE k == link[s].channel
           chunk == Chunk(link[s])
           data == [kind |-> "data", offset |-> link[s].sent, bytes |-> chunk]
           acked == [link[s] EXCEPT !.ackDue = FALSE, !.unacked = 0, !.ackAt = FALSE]
           upto == link[s].sent + Len(chunk)
           further == [link[s] EXCEPT !.sent = upto]
           closing == [link[s] EXCEPT !.closeSent = TRUE]
           n == link[Other(s)].inNext
<1>1. UNCHANGED <<attempt, read, taken>> /\ k # NoStream /\ link[s].end = "no"
  BY DEF Send, Running
<1>2. /\ link[s] \in LinkStates /\ link[s].inNext \in Nat /\ End(link[s]) = read[s]
      /\ link[s].sent \in Nat /\ link[s].base \in Nat /\ link[s].base <= link[s].sent
      /\ Bytes(link[s]) /\ read[s] \in Nat /\ Typed(stream) /\ TypeOK
      /\ link[s].peerClose = None /\ (link[s].closeSent => link[s].localEnd)
      /\ NoneWaits(link[s]) /\ Handed(s, link[s]) /\ n \in Nat
  BY <1>1, InvFacts, LinkFields, OtherSide DEF IInv, NoneWaits
<1>3. k \in Streams
  BY <1>1, <1>2, LinkFields
<1>4. \/ Goes(s, acked, Put(stream, k, s, Ack(link[s].inNext)))
      \/ link[s].sent < End(link[s]) /\ Goes(s, further, Put(stream, k, s, data))
      \/ /\ link[s].sent >= End(link[s]) /\ link[s].localEnd
         /\ Goes(s, closing, Put(stream, k, s, Close(End(link[s]))))
  <2>1. \/ Goes(s, acked, Put(stream, k, s, Ack(link[s].inNext)))
        \/ link[s].sent < End(link[s]) /\ Goes(s, further, Put(stream, k, s, data))
        \/ /\ link[s].sent >= End(link[s]) /\ link[s].localEnd
           /\ ~(link[s].data = <<>> /\ link[s].peerClose # None)
                => Goes(s, closing, Put(stream, k, s, Close(End(link[s]))))
    <3>1. CASE link[s].ackDue
      BY <3>1 DEF Send
    <3>2. CASE ~link[s].ackDue /\ link[s].sent < End(link[s])
      BY <3>2 DEF Send
    <3>3. CASE ~link[s].ackDue /\ ~(link[s].sent < End(link[s]))
      BY <3>3 DEF Send
    <3> QED  BY <3>1, <3>2, <3>3
  <2>2. link[s].peerClose = None
    BY <1>2
  <2> QED  BY <2>1, <2>2
<1>5. Ready(s, link[s], stream, read[s])
  BY StillReady
<1>6. /\ read' \in [Sides -> Nat] /\ read'[Other(s)] = read[Other(s)] /\ read'[s] = read[s]
      /\ attempt' \in [stream : Streams \cup {NoStream}, planned : BOOLEAN, game : BOOLEAN]
  BY <1>1, <1>2 DEF TypeOK
<1>7. Connected(stream, k, s) => Fits(stream, k, s, link[s].sent, n)
  BY <1>1, <1>5 DEF Ready, Carries
<1>8. With(s, link[s], read[s])[Other(Other(s))]
        = [in |-> link[s].inNext, read |-> read[s], ended |-> link[s].localEnd]
  BY <1>2, WithTypes, OtherSide
<1> HIDE DEF k, n
<1>9. CASE Goes(s, acked, Put(stream, k, s, Ack(link[s].inNext)))
  <2>1. Ack(link[s].inNext) \in Messages /\ Ack(link[s].inNext).kind = "ack"
    BY <1>2, MessageTypes DEF Ack
  <2>2. Ready(s, link[s], Put(stream, k, s, Ack(link[s].inNext)), read[s])
    <3>1. Truthful(Ack(link[s].inNext), Other(s), With(s, link[s], read[s]))
      BY <1>2, CountTrue
    <3>2. Fits(stream, k, s, Start(Ack(link[s].inNext)), link[Other(s)].inNext)
      BY <1>2, <2>1, CountTrue
    <3> QED  BY <1>3, <1>5, <2>1, <3>1, <3>2, PutReady
  <2>3. /\ acked \in LinkStates /\ acked.base = link[s].base /\ acked.data = link[s].data
        /\ acked.inNext = link[s].inNext /\ acked.sent = link[s].sent
        /\ acked.channel = link[s].channel /\ acked.localEnd = link[s].localEnd
        /\ acked.closeSent = link[s].closeSent /\ acked.end = link[s].end
        /\ acked.peerClose = link[s].peerClose /\ acked.localDead = link[s].localDead
    BY <1>2 DEF LinkStates
  <2> HIDE DEF acked
  <2>4. Ready(s, acked, Put(stream, k, s, Ack(link[s].inNext)), read'[s])
    BY <1>2, <1>6, <2>2, <2>3, SameReady
  <2>5. NoneWaits(acked) /\ Handed(s, acked)
    BY <1>2, <2>3 DEF NoneWaits, Handed
  <2> QED  BY <1>6, <1>9, <2>4, <2>5, GoesKeeps
<1>10. CASE link[s].sent < End(link[s]) /\ Goes(s, further, Put(stream, k, s, data))
  <2>1. /\ chunk \in Seq(Nat) /\ Len(chunk) \in Nat /\ upto <= End(link[s])
        /\ \A i \in 1..Len(chunk) : chunk[i] = link[s].sent + i
    BY <1>2, <1>10, ChunkBytes
  <2> HIDE DEF chunk
  <2>2. upto \in Nat /\ link[s].sent <= upto /\ upto <= read[s]
    BY <1>2, <2>1
  <2>3. data \in Messages /\ data.kind = "data" /\ Start(data) = link[s].sent /\ Last(data) = upto
    BY <1>2, <2>1 DEF Messages, DataMessages, Start, Last
  <2>4. Truthful(data, Other(s), With(s, link[s], read[s]))
    <3>1. data.bytes = chunk /\ data.offset = link[s].sent
      OBVIOUS
    <3> HIDE DEF data, upto
    <3> QED  BY <1>8, <2>1, <2>2, <2>3, <3>1 DEF Truthful
  <2> HIDE DEF data, upto
  <2>5. Ready(s, link[s], Put(stream, k, s, data), read[s])
    BY <1>3, <1>5, <1>7, <2>3, <2>4, PutReady DEF n
  <2>6. /\ further \in LinkStates /\ further.base = link[s].base /\ further.data = link[s].data
        /\ further.inNext = link[s].inNext /\ further.sent = upto
        /\ further.channel = link[s].channel /\ further.localEnd = link[s].localEnd
        /\ further.closeSent = link[s].closeSent /\ further.end = link[s].end
        /\ further.peerClose = link[s].peerClose /\ further.localDead = link[s].localDead
    BY <1>2, <2>2 DEF LinkStates
  <2> HIDE DEF further
  <2>7. Carries(Put(stream, k, s, data), s, further, n)
    <3>1. Connected(Put(stream, k, s, data), k, s) => Fits(Put(stream, k, s, data), k, s, upto, n)
      BY <1>2, <1>3, <2>3, PutReaches
    <3> QED  BY <2>6, <3>1 DEF Carries, k
  <2>8. With(s, further, read[s]) = With(s, link[s], read[s])
    BY <2>6 DEF With
  <2>9. End(further) = End(link[s]) /\ Bytes(further) /\ further.base <= further.sent
    BY <1>2, <2>2, <2>6 DEF End, Bytes
  <2>10. Ready(s, further, Put(stream, k, s, data), read'[s])
    BY <1>6, <2>5, <2>6, <2>7, <2>8, <2>9 DEF Ready, n
  <2>11. NoneWaits(further) /\ Handed(s, further)
    BY <1>2, <2>6 DEF NoneWaits, Handed
  <2> QED  BY <1>6, <1>10, <2>10, <2>11, GoesKeeps
<1>11. CASE /\ link[s].sent >= End(link[s]) /\ link[s].localEnd
            /\ Goes(s, closing, Put(stream, k, s, Close(End(link[s]))))
  <2> DEFINE m == Close(End(link[s]))
  <2>1. m \in Messages /\ m.kind = "close" /\ m.count = read[s]
    BY <1>2, MessageTypes DEF Close
  <2> HIDE DEF m
  <2>2. Truthful(m, Other(s), With(s, link[s], read[s]))
    <3> DEFINE v == With(s, link[s], read[s])
    <3>1. v[Other(Other(s))].read = read[s] /\ v[Other(Other(s))].ended = TRUE
      BY <1>8, <1>11
    <3> HIDE DEF v
    <3>2. Truthful(m, Other(s), v)
      BY <2>1, <3>1 DEF Truthful
    <3> QED  BY <3>2 DEF v
  <2>3. Connected(stream, k, s) => Fits(stream, k, s, Start(m), n)
    <3> SUFFICES ASSUME Connected(stream, k, s)  PROVE Fits(stream, k, s, Start(m), n)
      OBVIOUS
    <3> DEFINE q == stream[k].to[Other(s)]
    <3>1. q \in Seq(Messages)
      BY <1>2, <1>3, OtherSide DEF Typed, StreamStates
    <3>2. Start(m) = read[s] /\ read[s] <= link[s].sent
      BY <1>2, <1>11, <2>1, MessageFields
    <3>3. Reaches(q, Len(q) + 1, link[s].sent, n)
      BY <1>7 DEF Fits
    <3> HIDE DEF q
    <3>4. Len(q) + 1 \in 1..(Len(q) + 1)
      BY <3>1, LenProperties
    <3>5. Reaches(q, Len(q) + 1, Start(m), n)
      BY <1>2, <3>1, <3>2, <3>3, <3>4, ReachesMore
    <3> QED  BY <3>5 DEF Fits, q
  <2>4. Ready(s, link[s], Put(stream, k, s, m), read[s])
    BY <1>3, <1>5, <2>1, <2>2, <2>3, PutReady DEF n
  <2>5. /\ closing \in LinkStates /\ closing.base = link[s].base /\ closing.data = link[s].data
        /\ closing.inNext = link[s].inNext /\ closing.sent = link[s].sent
        /\ closing.channel = link[s].channel /\ closing.localEnd = link[s].localEnd
        /\ closing.end = link[s].end /\ closing.peerClose = link[s].peerClose
        /\ closing.localDead = link[s].localDead
    BY <1>2 DEF LinkStates
  <2> HIDE DEF closing
  <2>6. Ready(s, closing, Put(stream, k, s, m), read'[s])
    BY <1>6, <1>11, <2>4, <2>5, SameReady
  <2>7. NoneWaits(closing) /\ Handed(s, closing)
    BY <1>2, <2>5 DEF NoneWaits, Handed
  <2>8. Goes(s, closing, Put(stream, k, s, m))
    BY <1>11 DEF m
  <2> QED  BY <1>6, <2>6, <2>7, <2>8, GoesKeeps
<1> QED  BY <1>4, <1>9, <1>10, <1>11

LEMMA EndsKeep ==
  ASSUME IInv, NEW s \in Sides, Expire(s) \/ Abort(s)
  PROVE  IInv'
<1>1. PICK end \in {"Expired", "Aborted"} : Finish(s, link[s], stream, end)
  BY DEF Expire, Abort
<1>2. end \in Ends \ {"no"}
  BY DEF Ends
<1>3. UNCHANGED <<attempt, read, taken>>
  BY DEF Expire, Abort
<1>4. /\ Ready(s, link[s], stream, read[s]) /\ Handed(s, link[s])
      /\ attempt' \in [stream : Streams \cup {NoStream}, planned : BOOLEAN, game : BOOLEAN]
  BY <1>3, StillReady, InvFacts DEF IInv, TypeOK
<1> QED  BY <1>1, <1>2, <1>3, <1>4, FinishKeeps

LEMMA CloseCmdKeeps == ASSUME IInv, NEW s \in Sides, CloseCmd(s)  PROVE IInv'
<1> DEFINE l == [link[s] EXCEPT !.localEnd = TRUE]
<1>1. /\ Finish(s, l, stream, "Aborted") \/ Goes(s, l, stream)
      /\ UNCHANGED <<attempt, read, taken>>
  BY DEF CloseCmd
<1>2. link[s] \in LinkStates /\ NoneWaits(link[s]) /\ Handed(s, link[s])
  BY <1>1, InvFacts
<1>3. l \in LinkStates /\ l.base = link[s].base /\ l.data = link[s].data /\ l.inNext = link[s].inNext
      /\ l.sent = link[s].sent /\ l.channel = link[s].channel /\ l.localEnd = TRUE
      /\ l.end = link[s].end /\ l.peerClose = link[s].peerClose /\ l.localDead = link[s].localDead
  BY <1>2 DEF LinkStates
<1> HIDE DEF l
<1>4. Ready(s, l, stream, read[s])
  BY <1>3, StillReady, SameReady
<1>5. "Aborted" \in Ends \ {"no"} /\ NoneWaits(l) /\ Handed(s, l)
  BY <1>2, <1>3 DEF Ends, NoneWaits, Handed
<1>6. /\ read' \in [Sides -> Nat] /\ read'[Other(s)] = read[Other(s)] /\ read' = read
      /\ attempt' \in [stream : Streams \cup {NoStream}, planned : BOOLEAN, game : BOOLEAN]
  BY <1>1 DEF IInv, TypeOK
<1>7. Ready(s, l, stream, read'[s])
  BY <1>4, <1>6
<1> QED  BY <1>1, <1>4, <1>5, <1>6, <1>7, FinishKeeps, GoesKeeps

-----------------------------------------------------------------------------
(* The sessions and the network. *)

\* No link changes.
LEMMA StreamsKeep ==
  ASSUME IInv, Typed(stream'), AllTruthful(stream', Now), UNCHANGED <<link, read, taken>>,
         \A s \in Sides : Carries(stream', s, link[s], link[Other(s)].inNext),
         attempt' \in [stream : Streams \cup {NoStream}, planned : BOOLEAN, game : BOOLEAN]
  PROVE  IInv'
<1>1. Now' = Now
  BY DEF Now
<1>2. TypeOK'
  BY DEF IInv, TypeOK, Typed
<1>3. ASSUME NEW s \in Sides
      PROVE  /\ link'[s].base <= link'[Other(s)].inNext /\ End(link'[s]) = read'[s]
             /\ link'[s].base <= link'[s].sent
             /\ Bytes(link'[s]) /\ link'[s].inNext <= read'[Other(s)]
             /\ (link'[s].closeSent => link'[s].localEnd)
             /\ (link'[s].end = "no" => link'[s].peerClose = None)
             /\ (link'[s].localDead \/ taken'[s] = FirstBytes(link'[s].inNext))
  <2>1. /\ link[s].base <= link[Other(s)].inNext /\ End(link[s]) = read[s]
        /\ link[s].base <= link[s].sent
        /\ Bytes(link[s]) /\ link[s].inNext <= read[Other(s)]
        /\ (link[s].closeSent => link[s].localEnd)
        /\ (link[s].end = "no" => link[s].peerClose = None)
        /\ (link[s].localDead \/ taken[s] = FirstBytes(link[s].inNext))
    BY InvFacts DEF NoneWaits, IInv, Exact
  <2> QED  BY <2>1
<1>4. NothingLost' /\ SentAfterBase' /\ Exact'
  BY <1>3 DEF NothingLost, SentAfterBase, Exact, Running
<1>5. AllCarry'
  BY DEF AllCarry
<1> QED  BY <1>1, <1>2, <1>4, <1>5 DEF IInv

LEMMA SessionFacts ==
  ASSUME IInv
  PROVE  /\ Typed(stream) /\ AllTruthful(stream, Now) /\ Now \in Views
         /\ \A s \in Sides : Carries(stream, s, link[s], link[Other(s)].inNext)
         /\ "guest" \in Sides /\ "host" \in Sides
         /\ Other("guest") = "host" /\ Other("host") = "guest"
         /\ \A k \in Streams : stream[k] \in StreamStates /\ TrueStream(stream[k], Now)
<1>1. "guest" \in Sides /\ "host" \in Sides /\ Other("guest") = "host" /\ Other("host") = "guest"
  BY DEF Sides, Other
<1>2. Typed(stream) /\ AllTruthful(stream, Now) /\ Now \in Views
  BY <1>1, InvFacts
<1> QED  BY <1>1, <1>2 DEF IInv, AllCarry, Typed, AllTruthful

LEMMA AttemptTypes ==
  ASSUME TypeOK
  PROVE  /\ attempt.stream \in Streams \cup {NoStream}
         /\ NoAttempt \in [stream : Streams \cup {NoStream}, planned : BOOLEAN, game : BOOLEAN]
         /\ \A k \in Streams, p \in BOOLEAN :
              [attempt EXCEPT !.stream = k, !.planned = p]
                \in [stream : Streams \cup {NoStream}, planned : BOOLEAN, game : BOOLEAN]
         /\ [attempt EXCEPT !.game = FALSE]
                \in [stream : Streams \cup {NoStream}, planned : BOOLEAN, game : BOOLEAN]
BY DEF TypeOK, NoAttempt

\* A stream whose end opens carries what it carried.
LEMMA OpenCarries ==
  ASSUME NEW st, Typed(st), NEW k \in Streams, NEW s \in Sides, NEW r \in StreamStates,
         st[k].at[s] = "none", r.to = st[k].to, r.cut = st[k].cut,
         r.at = [st[k].at EXCEPT ![s] = "open"],
         NEW t \in Sides, NEW l \in LinkStates, NEW n, Carries(st, t, l, n)
  PROVE  Carries([st EXCEPT ![k] = r], t, l, n)
<1> DEFINE new == [st EXCEPT ![k] = r]
<1>1. ASSUME NEW j \in Streams, Connected(new, j, t)
      PROVE  Connected(st, j, t) /\ (Fits(st, j, t, l.sent, n) => Fits(new, j, t, l.sent, n))
  <2>1. /\ new[j].to = st[j].to /\ new[j].cut = st[j].cut
        /\ new[j].at[Other(t)] = st[j].at[Other(t)] \/ st[j].at[Other(t)] = "none"
    <3>1. CASE j = k
      <4>1. new[j] = r /\ st[k] \in StreamStates
        BY <3>1 DEF Typed
      <4> QED  BY <3>1, <4>1, OtherSide DEF StreamStates
    <3>2. CASE j # k
      BY <3>2 DEF Typed
    <3> QED  BY <3>1, <3>2
  <2> HIDE DEF new
  <2> QED  BY <1>1, <2>1 DEF Connected, Fits
<1> HIDE DEF new
<1> QED  BY <1>1, CarriesOn DEF new

LEMMA ResumeKeeps == ASSUME IInv, NEW planned \in BOOLEAN, Resume(planned)  PROVE IInv'
<1>1. PICK k \in Streams :
        /\ Unused(k)
        /\ attempt' = [attempt EXCEPT !.stream = k, !.planned = planned]
        /\ stream' = [stream EXCEPT ![k].at["guest"] = "open",
                                    ![k].hello = link["guest"].inNext]
        /\ UNCHANGED <<link, read, taken>>
  BY DEF Resume
<1> DEFINE half == [stream[k] EXCEPT !.at["guest"] = "open"]
           n == link["guest"].inNext
           r == [half EXCEPT !.hello = n]
<1>2. /\ stream[k] \in StreamStates /\ TrueStream(stream[k], Now) /\ "guest" \in Sides
      /\ Typed(stream) /\ AllTruthful(stream, Now) /\ n \in Nat /\ Now["guest"].in = n
  BY SessionFacts, InvFacts DEF Now
<1>3. half \in StreamStates /\ TrueStream(half, Now)
  BY <1>2, EndKeeps
<1>4. /\ half.to = stream[k].to /\ half.cut = stream[k].cut
      /\ half.at = [stream[k].at EXCEPT !["guest"] = "open"] /\ stream[k].at["guest"] = "none"
  BY <1>1, <1>2 DEF StreamStates, Unused
<1> HIDE DEF half, n
<1>5. r \in StreamStates /\ r.to = half.to /\ r.hello = n /\ r.cut = half.cut /\ r.at = half.at
  BY <1>2, <1>3 DEF StreamStates
<1>6. stream' = [stream EXCEPT ![k] = r]
  BY <1>1 DEF half, n
<1> HIDE DEF r
<1>7. TrueStream(r, Now)
  <2>1. r.hello <= Now["guest"].in
    BY <1>2, <1>5
  <2> QED  BY <1>3, <1>5, <2>1 DEF TrueStream
<1>8. Typed(stream') /\ AllTruthful(stream', Now)
  BY <1>2, <1>5, <1>6, <1>7, StreamKeeps
<1>9. \A s \in Sides : Carries(stream', s, link[s], link[Other(s)].inNext)
  <2>1. ASSUME NEW s \in Sides  PROVE Carries(stream', s, link[s], link[Other(s)].inNext)
    <3>1. Carries(stream, s, link[s], link[Other(s)].inNext) /\ link[s] \in LinkStates
      BY InvFacts
    <3> QED  BY <1>2, <1>4, <1>5, <1>6, <3>1, OpenCarries
  <2> QED  BY <2>1
<1>10. attempt' \in [stream : Streams \cup {NoStream}, planned : BOOLEAN, game : BOOLEAN]
  BY <1>1, AttemptTypes DEF IInv
<1> QED  BY <1>1, <1>8, <1>9, <1>10, StreamsKeep

LEMMA ResumeFailsKeeps == ASSUME IInv, ResumeFails  PROVE IInv'
<1>1. /\ stream' = Leave(stream, attempt.stream, "guest")
      /\ attempt' = NoAttempt /\ UNCHANGED <<link, read, taken>>
  BY DEF ResumeFails
<1>2. attempt.stream \in Streams \cup {NoStream}
  BY AttemptTypes DEF IInv
<1>3. Typed(stream') /\ AllTruthful(stream', Now)
  BY <1>1, <1>2, SessionFacts, LeaveKeeps
<1>4. \A s \in Sides : Carries(stream', s, link[s], link[Other(s)].inNext)
  BY <1>1, <1>2, SessionFacts, InvFacts, LeaveCarries
<1> QED  BY <1>1, <1>3, <1>4, AttemptTypes, StreamsKeep DEF IInv

LEMMA GameEndedKeeps == ASSUME IInv, GameEnded  PROVE IInv'
<1>1. attempt' = [attempt EXCEPT !.game = FALSE] /\ UNCHANGED <<link, stream, read, taken>>
  BY DEF GameEnded
<1>2. /\ Typed(stream') /\ AllTruthful(stream', Now)
      /\ \A s \in Sides : Carries(stream', s, link[s], link[Other(s)].inNext)
  BY <1>1, SessionFacts
<1> QED  BY <1>1, <1>2, AttemptTypes, StreamsKeep DEF IInv

LEMMA CutKeeps == ASSUME IInv, NEW k \in Streams, Cut(k)  PROVE IInv'
<1>1. PICK g \in 0..Len(stream[k].to["guest"]), h \in 0..Len(stream[k].to["host"]) :
        stream' = [stream EXCEPT ![k].cut = TRUE,
                                 ![k].to["guest"] = SubSeq(@, 1, g),
                                 ![k].to["host"] = SubSeq(@, 1, h)]
  BY DEF Cut
<1> DEFINE cut == [stream[k] EXCEPT !.cut = TRUE]
           qg == SubSeq(stream[k].to["guest"], 1, g)
           qh == SubSeq(stream[k].to["host"], 1, h)
           half == [cut EXCEPT !.to["guest"] = qg]
           r == [half EXCEPT !.to["host"] = qh]
<1>2. /\ Typed(stream) /\ AllTruthful(stream, Now) /\ "guest" \in Sides /\ "host" \in Sides
      /\ Now \in Views /\ stream[k] \in StreamStates /\ TrueStream(stream[k], Now)
  BY SessionFacts
<1>3. /\ cut \in StreamStates /\ cut.to = stream[k].to /\ cut.hello = stream[k].hello
      /\ cut.cut = TRUE
  BY <1>2 DEF StreamStates
<1>4. stream[k].to["guest"] \in Seq(Messages) /\ stream[k].to["host"] \in Seq(Messages)
  BY <1>2 DEF StreamStates
<1>5. qg \in Seq(Messages) /\ qh \in Seq(Messages)
  BY <1>4, HeldBySeq
<1>6. TrueQueue(qg, "guest", Now) /\ TrueQueue(qh, "host", Now)
  <2>1. /\ TrueQueue(stream[k].to["guest"], "guest", Now)
        /\ TrueQueue(stream[k].to["host"], "host", Now)
    BY <1>2 DEF TrueStream
  <2> QED  BY <1>2, <1>4, <2>1, QueueBySeq
<1> HIDE DEF cut, qg, qh
<1>7. TrueStream(cut, Now)
  BY <1>2, <1>3 DEF TrueStream
<1>8. half \in StreamStates /\ TrueStream(half, Now)
  BY <1>2, <1>3, <1>5, <1>6, <1>7, QueueKeeps
<1>9. half.cut = TRUE
  BY <1>3 DEF StreamStates
<1> HIDE DEF half
<1>10. r \in StreamStates /\ TrueStream(r, Now)
  BY <1>2, <1>5, <1>6, <1>8, QueueKeeps
<1>11. r.cut = TRUE
  BY <1>8, <1>9 DEF StreamStates
<1>12. stream' = [stream EXCEPT ![k] = r]
  <2>1. r = [stream[k] EXCEPT !.cut = TRUE, !.to["guest"] = qg, !.to["host"] = qh]
    BY DEF half, cut
  <2> HIDE DEF r
  <2>2. stream' = [stream EXCEPT ![k] = [stream[k] EXCEPT !.cut = TRUE, !.to["guest"] = qg,
                                                          !.to["host"] = qh]]
    <3>1. cut.to["guest"] = stream[k].to["guest"] /\ cut.to["host"] = stream[k].to["host"]
      BY <1>3
    <3> QED  BY <1>1, <1>2 DEF qg, qh, StreamStates
  <2> QED  BY <2>1, <2>2
<1> HIDE DEF r
<1>13. Typed(stream') /\ AllTruthful(stream', Now)
  BY <1>2, <1>10, <1>12, StreamKeeps
<1>14. ASSUME NEW s \in Sides  PROVE Carries(stream', s, link[s], link[Other(s)].inNext)
  <2>1. Carries(stream, s, link[s], link[Other(s)].inNext) /\ link[s] \in LinkStates
    BY InvFacts
  <2>2. ASSUME NEW j \in Streams, Connected(stream', j, s)
        PROVE  stream'[j] = stream[j]
    <3>1. stream'[k] = r
      BY <1>2, <1>12 DEF Typed
    <3>2. j # k
      BY <1>11, <2>2, <3>1 DEF Connected
    <3> QED  BY <1>2, <1>12, <3>2 DEF Typed
  <2>3. \A j \in Streams : Connected(stream', j, s)
           => /\ Connected(stream, j, s)
              /\ Fits(stream, j, s, link[s].sent, link[Other(s)].inNext)
                    => Fits(stream', j, s, link[s].sent, link[Other(s)].inNext)
    BY <2>2 DEF Connected, Fits
  <2> QED  BY <2>1, <2>3, CarriesOn
<1>15. UNCHANGED <<link, attempt, read, taken>>
  BY DEF Cut
<1> QED  BY <1>13, <1>14, <1>15, StreamsKeep DEF IInv, TypeOK

\* A link rewound to a true count is one to go on with, on any stream.
LEMMA RewoundReady ==
  ASSUME IInv, NEW s \in Sides, NEW n \in Nat, n <= link[Other(s)].inNext, n <= End(link[s]),
         NEW st, Ready(s, link[s], st, read[s]), taken' = taken
  PROVE  LET a == Rewound(link[s], n)
         IN /\ Ready(s, a, st, read[s]) /\ a.sent <= link[Other(s)].inNext
            /\ NoneWaits(a) /\ Handed(s, a)
<1> DEFINE a == Rewound(link[s], n)
<1>1. /\ link[s] \in LinkStates /\ link[s].base \in Nat /\ Bytes(link[s])
      /\ link[s].base <= link[Other(s)].inNext /\ NoneWaits(link[s]) /\ Handed(s, link[s])
      /\ link[Other(s)].inNext \in Nat
  BY InvFacts, LinkFields, OtherSide
<1>2. /\ a \in LinkStates /\ a.base = Larger(n, link[s].base) /\ a.sent = a.base
      /\ End(a) = End(link[s]) /\ Bytes(a) /\ a.closeSent = FALSE /\ Same(a, link[s])
  BY <1>1, RewoundKeeps
<1> HIDE DEF a
<1>3. a.base <= link[Other(s)].inNext /\ a.base <= a.sent /\ a.sent <= link[Other(s)].inNext
  BY <1>1, <1>2 DEF Larger
<1>4. /\ a.inNext = link[s].inNext /\ a.channel = link[s].channel /\ a.localEnd = link[s].localEnd
      /\ a.localDead = link[s].localDead /\ a.peerClose = link[s].peerClose
      /\ a.end = link[s].end
  BY <1>2 DEF Same
<1>5. With(s, a, read[s]) = With(s, link[s], read[s])
  BY <1>4 DEF With
<1>6. Carries(st, s, a, link[Other(s)].inNext)
  BY <1>3 DEF Carries, Fits, Reaches
<1>7. Ready(s, a, st, read[s])
  BY <1>2, <1>3, <1>4, <1>5, <1>6 DEF Ready
<1>8. NoneWaits(a) /\ Handed(s, a)
  BY <1>1, <1>4 DEF NoneWaits, Handed
<1> QED  BY <1>3, <1>7, <1>8 DEF a

LEMMA AttachedKeeps ==
  ASSUME IInv, NEW s \in Sides, NEW l, NEW st, NEW k \in Streams,
         Ready(s, l, st, read[s]), l.sent <= link[Other(s)].inNext, NoneWaits(l), Handed(s, l),
         Attached(s, l, st, k), read' = read,
         attempt' \in [stream : Streams \cup {NoStream}, planned : BOOLEAN, game : BOOLEAN]
  PROVE  IInv'
<1> DEFINE a == [l EXCEPT !.channel = k, !.broken = FALSE]
<1>1. l \in LinkStates
  BY DEF Ready
<1>2. a \in LinkStates /\ a.base = l.base /\ a.data = l.data /\ a.inNext = l.inNext
      /\ a.sent = l.sent /\ a.localEnd = l.localEnd /\ a.closeSent = l.closeSent
      /\ a.end = l.end /\ a.peerClose = l.peerClose /\ a.localDead = l.localDead
  BY <1>1 DEF LinkStates
<1> HIDE DEF a
<1>3. Ready(s, a, st, read[s])
  <2>1. Carries(st, s, a, link[Other(s)].inNext)
    BY <1>2 DEF Carries, Fits, Reaches
  <2>2. With(s, a, read[s]) = With(s, l, read[s])
    BY <1>2 DEF With
  <2>3. End(a) = End(l) /\ (Bytes(l) => Bytes(a))
    BY <1>2 DEF End, Bytes
  <2> QED  BY <1>2, <2>1, <2>2, <2>3 DEF Ready
<1>4. link[s].channel \in Streams \cup {NoStream}
  BY InvFacts, LinkFields
<1>5. read' \in [Sides -> Nat] /\ read'[Other(s)] = read[Other(s)]
  BY DEF IInv, TypeOK
<1>6. Ready(s, a, Leave(st, link[s].channel, s), read'[s])
  BY <1>3, <1>4, LeaveReady
<1>7. Goes(s, a, Leave(st, link[s].channel, s)) /\ NoneWaits(a) /\ Handed(s, a)
  BY <1>2 DEF Attached, a, NoneWaits, Handed
<1> QED  BY <1>5, <1>6, <1>7, GoesKeeps

LEMMA ServeResumeKeeps ==
  ASSUME IInv, NEW k \in Streams, ServeResume(k) \/ ServeResumeFails(k)
  PROVE  IInv'
<1> DEFINE l == link["host"]
           open == [stream EXCEPT ![k].at["host"] = "open"]
           one == [stream[k] EXCEPT !.at["host"] = "open"]
           n == stream[k].hello
           answered == Put(open, k, "host", Ok(l.inNext))
           refused == Leave(Put(open, k, "host", No), k, "host")
<1>1. UNCHANGED <<attempt, read, taken>> /\ stream[k].at["host"] = "none"
  BY DEF ServeResume, ServeResumeFails
<1>2. /\ "host" \in Sides /\ Other("host") = "guest" /\ Typed(stream)
      /\ AllTruthful(stream, Now) /\ Now \in Views /\ l \in LinkStates /\ l.inNext \in Nat
      /\ stream[k] \in StreamStates /\ TrueStream(stream[k], Now)
      /\ NoneWaits(l) /\ Handed("host", l)
  BY <1>1, SessionFacts, InvFacts
<1>3. n \in Nat
  BY <1>2 DEF StreamStates, ServeResume, ServeResumeFails
<1>4. n <= link["guest"].inNext
  BY <1>3 DEF TrueStream, Now, Sides, IInv, AllTruthful
<1>5. one \in StreamStates /\ TrueStream(one, Now)
  BY <1>2, EndKeeps
<1>6. one.to = stream[k].to /\ one.cut = stream[k].cut
      /\ one.at = [stream[k].at EXCEPT !["host"] = "open"]
  BY <1>2 DEF StreamStates
<1> HIDE DEF one
<1>7. /\ Typed([stream EXCEPT ![k] = one]) /\ AllTruthful([stream EXCEPT ![k] = one], Now)
      /\ Carries([stream EXCEPT ![k] = one], "host", l, link["guest"].inNext)
      /\ Carries([stream EXCEPT ![k] = one], "guest", link["guest"], l.inNext)
  <2>1. Typed([stream EXCEPT ![k] = one]) /\ AllTruthful([stream EXCEPT ![k] = one], Now)
    BY <1>2, <1>5, StreamKeeps
  <2>2. /\ Carries(stream, "host", l, link["guest"].inNext)
        /\ Carries(stream, "guest", link["guest"], l.inNext)
        /\ link["guest"] \in LinkStates /\ "guest" \in Sides
    BY <1>2, SessionFacts, InvFacts
  <2> QED  BY <1>1, <1>2, <1>5, <1>6, <2>1, <2>2, OpenCarries
<1>8. open = [stream EXCEPT ![k] = one]
  BY DEF one
<1> HIDE DEF open
<1>9. Ready("host", l, open, read["host"])
  BY <1>2, <1>7, <1>8, StillReady
<1>10. \A m \in {Ok(l.inNext), No} : Ready("host", l, Put(open, k, "host", m), read["host"])
  <2>1. ASSUME NEW m \in {Ok(l.inNext), No}
        PROVE  Ready("host", l, Put(open, k, "host", m), read["host"])
    <3>1. m \in Messages /\ m.kind \in {"ok", "no"}
      BY <1>2, MessageTypes DEF Ok, No
    <3>2. read["host"] \in Nat
      BY <1>9 DEF Ready
    <3>3. Truthful(m, Other("host"), With("host", l, read["host"]))
      BY <1>2, <3>2, CountTrue
    <3>4. Fits(open, k, "host", Start(m), link[Other("host")].inNext)
      BY <1>2, <3>1, <3>2, CountTrue
    <3> QED  BY <1>2, <1>9, <3>1, <3>3, <3>4, PutReady
  <2> QED  BY <2>1
<1>11. Ready("host", l, answered, read["host"])
  BY <1>10
<1>12. Ready("host", l, refused, read["host"])
  BY <1>2, <1>10, LeaveReady
<1>13. \/ n <= End(l) /\ Attached("host", Rewound(l, n), answered, k)
       \/ Goes("host", l, refused)
       \/ n <= End(l) /\ Goes("host", Rewound(l, n), Leave(stream, k, "host"))
  BY DEF ServeResume, ServeResumeFails, open
<1> HIDE DEF answered, refused, n
<1>14. /\ read' \in [Sides -> Nat] /\ read' = read /\ taken' = taken
       /\ attempt' \in [stream : Streams \cup {NoStream}, planned : BOOLEAN, game : BOOLEAN]
  BY <1>1 DEF IInv, TypeOK
<1>15. CASE n <= End(l) /\ Attached("host", Rewound(l, n), answered, k)
  <2>1. /\ Ready("host", Rewound(l, n), answered, read["host"])
        /\ Rewound(l, n).sent <= link["guest"].inNext
        /\ NoneWaits(Rewound(l, n)) /\ Handed("host", Rewound(l, n))
    BY <1>2, <1>3, <1>4, <1>11, <1>14, <1>15, RewoundReady
  <2> QED  BY <1>2, <1>14, <1>15, <2>1, AttachedKeeps
<1>16. CASE Goes("host", l, refused)
  <2>1. Ready("host", l, refused, read'["host"])
    BY <1>12, <1>14
  <2> QED  BY <1>2, <1>14, <1>16, <2>1, GoesKeeps
<1>17. CASE n <= End(l) /\ Goes("host", Rewound(l, n), Leave(stream, k, "host"))
  <2>1. Ready("host", l, Leave(stream, k, "host"), read["host"])
    BY <1>2, StillReady, LeaveReady
  <2>2. /\ Ready("host", Rewound(l, n), Leave(stream, k, "host"), read'["host"])
        /\ NoneWaits(Rewound(l, n)) /\ Handed("host", Rewound(l, n))
    BY <1>2, <1>3, <1>4, <1>14, <1>17, <2>1, RewoundReady
  <2> QED  BY <1>2, <1>14, <1>17, <2>2, GoesKeeps
<1> QED  BY <1>13, <1>15, <1>16, <1>17

\* The answer of the stream the guest's session tries.
LEMMA AnsweredFacts ==
  ASSUME IInv, NEW kind \in {"ok", "no"}, Answered(kind)
  PROVE  LET k == attempt.stream
             m == Head(stream[k].to["guest"])
         IN /\ k \in Streams /\ m \in Messages /\ m.kind = kind
            /\ Ready("guest", link["guest"], Pop(k, "guest"), read["guest"])
            /\ Truthful(m, "guest", Now)
<1> DEFINE k == attempt.stream
<1>1. Typed(stream) /\ AllTruthful(stream, Now) /\ "guest" \in Sides /\ Now \in Views
  BY SessionFacts
<1>2. k \in Streams /\ stream[k].to["guest"] # <<>> /\ Head(stream[k].to["guest"]).kind = kind
  BY AttemptTypes DEF IInv, Answered
<1> HIDE DEF k
<1>3. /\ Head(stream[k].to["guest"]) \in Messages
      /\ Truthful(Head(stream[k].to["guest"]), "guest", Now)
  BY <1>1, <1>2, PopKeeps
<1>4. Ready("guest", link["guest"], Pop(k, "guest"), read["guest"])
  BY <1>1, <1>2, StillReady, PopReady
<1> QED  BY <1>2, <1>3, <1>4 DEF k

LEMMA ResumeOkKeeps == ASSUME IInv, ResumeOk  PROVE IInv'
<1> DEFINE k == attempt.stream
           recv == Head(stream[k].to["guest"]).count
           l == link["guest"]
<1>1. Answered("ok") /\ attempt' = NoAttempt /\ UNCHANGED <<read, taken>>
  BY DEF ResumeOk
<1>2. /\ k \in Streams /\ Head(stream[k].to["guest"]) \in Messages
      /\ Head(stream[k].to["guest"]).kind = "ok"
      /\ Ready("guest", l, Pop(k, "guest"), read["guest"])
      /\ Truthful(Head(stream[k].to["guest"]), "guest", Now)
  BY <1>1, AnsweredFacts
<1>3. recv \in Nat
  BY <1>2, MessageFields
<1>4. "guest" \in Sides /\ Other("guest") = "host" /\ "host" \in Sides
  BY SessionFacts
<1>5. recv <= link["host"].inNext
  BY <1>2, <1>4 DEF Truthful, Now
<1>6. \/ recv <= End(l) /\ Attached("guest", Rewound(l, recv), Pop(k, "guest"), k)
      \/ Goes("guest", l, Leave(stream, k, "guest"))
  BY DEF ResumeOk
<1> HIDE DEF recv, k
<1>7. /\ read' \in [Sides -> Nat] /\ read' = read /\ taken' = taken
      /\ attempt' \in [stream : Streams \cup {NoStream}, planned : BOOLEAN, game : BOOLEAN]
  BY <1>1, AttemptTypes DEF IInv, TypeOK
<1>8. CASE recv <= End(l) /\ Attached("guest", Rewound(l, recv), Pop(k, "guest"), k)
  <2>1. /\ Ready("guest", Rewound(l, recv), Pop(k, "guest"), read["guest"])
        /\ Rewound(l, recv).sent <= link["host"].inNext
        /\ NoneWaits(Rewound(l, recv)) /\ Handed("guest", Rewound(l, recv))
    BY <1>2, <1>3, <1>4, <1>5, <1>7, <1>8, RewoundReady
  <2> QED  BY <1>2, <1>4, <1>7, <1>8, <2>1, AttachedKeeps
<1>9. CASE Goes("guest", l, Leave(stream, k, "guest"))
  <2>1. Ready("guest", l, stream, read["guest"]) /\ NoneWaits(l) /\ Handed("guest", l)
    BY <1>4, <1>7, StillReady, InvFacts
  <2>2. Ready("guest", l, Leave(stream, k, "guest"), read'["guest"])
    BY <1>2, <1>4, <1>7, <2>1, LeaveReady
  <2> QED  BY <1>4, <1>7, <1>9, <2>1, <2>2, GoesKeeps
<1> QED  BY <1>6, <1>8, <1>9

LEMMA ResumeForgottenKeeps == ASSUME IInv, ResumeForgotten  PROVE IInv'
<1> DEFINE k == attempt.stream
           st == Leave(stream, k, "guest")
           l == link["guest"]
<1>1. attempt' = NoAttempt /\ UNCHANGED <<read, taken>>
  BY DEF ResumeForgotten
<1>2. "guest" \in Sides /\ k \in Streams \cup {NoStream}
  BY AttemptTypes DEF IInv, Sides
<1>3. Goes("guest", l, st) \/ Finish("guest", l, st, "Aborted")
  BY DEF ResumeForgotten
<1>4. /\ read' \in [Sides -> Nat] /\ read' = read /\ taken' = taken
      /\ attempt' \in [stream : Streams \cup {NoStream}, planned : BOOLEAN, game : BOOLEAN]
  BY <1>1, AttemptTypes DEF IInv, TypeOK
<1> HIDE DEF k
<1>5. Ready("guest", l, st, read["guest"])
  BY <1>2, StillReady, LeaveReady
<1>6. "Aborted" \in Ends \ {"no"} /\ NoneWaits(l) /\ Handed("guest", l)
  BY <1>2, <1>4, InvFacts DEF Ends
<1>7. Ready("guest", l, st, read'["guest"])
  BY <1>4, <1>5
<1> QED  BY <1>2, <1>3, <1>4, <1>5, <1>6, <1>7, GoesKeeps, FinishKeeps

-----------------------------------------------------------------------------
LEMMA StutterKeeps == ASSUME IInv, UNCHANGED vars  PROVE IInv'
<1>1. UNCHANGED <<link, stream, attempt, read, taken>>
  BY DEF vars
<1>2. /\ Typed(stream') /\ AllTruthful(stream', Now)
      /\ \A s \in Sides : Carries(stream', s, link[s], link[Other(s)].inNext)
  BY <1>1, SessionFacts
<1> QED  BY <1>1, <1>2, StreamsKeep DEF IInv, TypeOK

\* Every step of either side, its session or the network keeps IInv.
LEMMA StepKeeps == ASSUME IInv, [Next]_vars  PROVE IInv'
<1>1. CASE UNCHANGED vars
  BY <1>1, StutterKeeps
<1>2. ASSUME NEW s \in Sides, Local(s)  PROVE IInv'
  BY <1>2, ReadLocalKeeps, FlagSteps DEF Local
<1>3. ASSUME NEW s \in Sides, Runs(s)  PROVE IInv'
  BY <1>3, RecvDataKeeps, RecvAckKeeps, RecvCloseKeeps, StreamEndsKeeps, SendKeeps,
     FlagSteps DEF Runs
<1>4. ASSUME NEW s \in Sides, Expire(s) \/ CloseCmd(s) \/ Abort(s)  PROVE IInv'
  BY <1>4, EndsKeep, CloseCmdKeeps
<1>5. CASE Session
  BY <1>5, ResumeKeeps, ServeResumeKeeps, ResumeOkKeeps, ResumeForgottenKeeps,
     ResumeFailsKeeps, GameEndedKeeps DEF Session
<1>6. ASSUME NEW k \in Streams, Cut(k)  PROVE IInv'
  BY <1>6, CutKeeps
<1> QED  BY <1>1, <1>2, <1>3, <1>4, <1>5, <1>6 DEF Next

LEMMA Inductive == Spec => []IInv
<1>1. Init => IInv
  BY InitKeeps
<1>2. IInv /\ [Next]_vars => IInv'
  BY StepKeeps
<1> QED  BY <1>1, <1>2, PTL DEF Spec

(* Every component of the relay keeps its type for every bound: buffers    *)
(* hold bytes, records on their way are well formed (link.rs, channel.rs). *)
THEOREM TypeCorrect == Spec => []TypeOK
<1>1. IInv => TypeOK
  BY DEF IInv
<1> QED  BY <1>1, Inductive, PTL

(* A side forgets a byte only after the other side received it, and holds  *)
(* every other byte its game gave, over any number of streams, breaks,     *)
(* moves, retries and refused resumes (Outbound and Attach in link.rs).    *)
THEOREM NothingIsLost == Spec => []NothingLost
<1>1. IInv => NothingLost
  BY DEF IInv
<1> QED  BY <1>1, Inductive, PTL

-----------------------------------------------------------------------------
(* No false alarm. *)

\* A link that takes the next record of any of its streams finds it in order.
LEMMA HeadObeys ==
  ASSUME IInv, NEW s \in Sides, NEW k \in Streams, stream[k].to[s] # <<>>
  PROVE  Obeys(s, Head(stream[k].to[s]))
<1> DEFINE m == Head(stream[k].to[s])
           o == Other(s)
<1>1. /\ Now[s].in = link[s].inNext
      /\ Now[o] = [in |-> link[o].inNext, read |-> read[o], ended |-> link[o].localEnd]
  BY OtherSide DEF Now
<1>2. m \in Messages /\ Truthful(m, s, Now) /\ Start(m) <= link[s].inNext
  BY <1>1, SessionFacts, PopKeeps
<1>3. /\ link[s].inNext \in Nat /\ link[s].inNext <= read[o] /\ End(link[s]) = read[s]
      /\ link[o].inNext \in Nat /\ link[o].inNext <= read[s] /\ read[s] \in Nat /\ read[o] \in Nat
  BY InvFacts, OtherSide
<1> HIDE DEF m
<1> SUFFICES Obeys(s, m)
  BY DEF m
<1>4. CASE m.kind = "data"
  <2>1. m.offset <= link[s].inNext
    BY <1>2, <1>4, MessageFields
  <2> QED  BY <1>4, <2>1 DEF Obeys
<1>5. CASE m.kind \in {"ack", "ok"}
  <2>1. m.count \in Nat /\ m.count <= link[o].inNext
    BY <1>1, <1>2, <1>5, MessageFields DEF Truthful
  <2>2. m.count <= End(link[s])
    BY <1>3, <2>1
  <2> QED  BY <1>5, <2>2 DEF Obeys
<1>6. CASE m.kind = "close"
  <2>1. m.count \in Nat /\ m.count <= link[s].inNext /\ m.count = read[o]
    BY <1>1, <1>2, <1>6, MessageFields DEF Truthful
  <2>2. m.count = link[s].inNext
    BY <1>3, <2>1
  <2> QED  BY <1>6, <2>2 DEF Obeys
<1>7. CASE m.kind \notin {"data", "ack", "ok", "close"}
  BY <1>7 DEF Obeys
<1> QED  BY <1>4, <1>5, <1>6, <1>7

LEMMA HelloServed == ASSUME IInv, NEW k \in Streams  PROVE stream[k].hello <= End(link["host"])
<1>1. /\ stream[k].hello \in Nat \cup {None} /\ stream[k].hello <= link["guest"].inNext
  BY SessionFacts DEF StreamStates, TrueStream, Now
<1>2. /\ link["guest"].inNext \in Nat /\ link["guest"].inNext <= read["host"]
      /\ End(link["host"]) = read["host"] /\ read["host"] \in Nat
  BY SessionFacts, InvFacts
<1> QED  BY <1>1, <1>2 DEF None

(* Sides that follow the rules never look as if they broke them: on every  *)
(* stream, after any number of breaks, moves, resends and rewinds, no      *)
(* record opens a gap, acknowledges what was not sent or closes too early, *)
(* and no resume is refused for its count (run and Attach in link.rs).     *)
THEOREM NoAlarmIsFalse == Spec => []NoFalseAlarm
<1>1. ASSUME IInv  PROVE NoFalseAlarm
  <2>1. ASSUME NEW s \in Sides, link[s].channel # NoStream,
               stream[link[s].channel].to[s] # <<>>
        PROVE  Obeys(s, Head(stream[link[s].channel].to[s]))
    <3>1. link[s].channel \in Streams
      BY <1>1, <2>1, InvFacts, LinkFields
    <3> QED  BY <1>1, <2>1, <3>1, HeadObeys
  <2> QED  BY <1>1, <2>1, HelloServed DEF NoFalseAlarm, IInv
<1> QED  BY <1>1, Inductive, PTL

-----------------------------------------------------------------------------
(* The link is a stream of bytes.  What GameStream's variables stand for:  *)
Delivered ==
    [s \in Sides |-> IF link[s].localDead THEN [i \in 1..link[s].inNext |-> i] ELSE taken[s]]
Reading == [s \in Sides |-> ~link[s].localEnd]
How(end) == CASE end = "no" -> "no" [] end = "Closed" -> "ordered" [] OTHER -> "cut"
Overs == [s \in Sides |-> CASE link[s].end = "no" -> "no"
                            [] link[s].end = "Closed" -> "ordered"
                            [] OTHER -> "cut"]

\* A direction is complete: its game ended and the other game has all it gave.
Whole(s) == link[s].localEnd /\ link[Other(s)].inNext = read[s]

\* What a game was given is what its link received.
LEMMA DeliveredIs ==
  ASSUME IInv
  PROVE  Delivered = [s \in Sides |-> FirstBytes(link[s].inNext)]
BY DEF IInv, Exact, Delivered, FirstBytes

\* What a step of the link of s to a is to the stream.
Moved(s, a) ==
    /\ Delivered[s] = FirstBytes(link[s].inNext)
    /\ Delivered' = [Delivered EXCEPT ![s] = FirstBytes(a.inNext)]
    /\ Reading[s] = ~link[s].localEnd /\ Reading' = [Reading EXCEPT ![s] = ~a.localEnd]
    /\ Overs[s] = How(link[s].end) /\ Overs' = [Overs EXCEPT ![s] = How(a.end)]

LEMMA LinkMoves ==
  ASSUME IInv, IInv', NEW s \in Sides, NEW a, link' = [link EXCEPT ![s] = a]
  PROVE  Moved(s, a)
<1>1. link \in [Sides -> LinkStates]
  BY DEF IInv, TypeOK
<1>2. Delivered = [t \in Sides |-> FirstBytes(link[t].inNext)]
  BY DeliveredIs
<1>3. Delivered' = [t \in Sides |-> FirstBytes(link'[t].inNext)]
  BY DEF IInv, Exact, Delivered, FirstBytes
<1>4. Delivered' = [Delivered EXCEPT ![s] = FirstBytes(a.inNext)]
  BY <1>1, <1>2, <1>3
<1>5. Reading' = [Reading EXCEPT ![s] = ~a.localEnd]
  BY <1>1 DEF Reading
<1>6. Overs' = [Overs EXCEPT ![s] = How(a.end)]
  BY <1>1 DEF Overs, How
<1>7. Delivered[s] = FirstBytes(link[s].inNext)
  BY <1>2
<1>8. Reading[s] = ~link[s].localEnd /\ Overs[s] = How(link[s].end)
  BY DEF Reading, Overs, How
<1> QED  BY <1>4, <1>5, <1>6, <1>7, <1>8 DEF Moved

\* GameStream's steps in terms of what its variables stand for.
LEMMA StreamForms ==
  ASSUME NEW s
  PROVE  /\ Stream!Read(s) <=> /\ Overs[s] = "no" /\ Reading[s] /\ read'[s] > read[s]
                               /\ read' = [read EXCEPT ![s] = read'[s]]
                               /\ UNCHANGED <<Delivered, Reading, Overs>>
         /\ Stream!StopReading(s) <=> /\ Overs[s] = "no" /\ Reading[s]
                                      /\ Reading' = [Reading EXCEPT ![s] = FALSE]
                                      /\ UNCHANGED <<read, Delivered, Overs>>
         /\ Stream!Deliver(s) <=>
              /\ Overs[s] = "no"
              /\ \E n \in (Len(Delivered[s]) + 1)..read[Other(s)] :
                    Delivered' = [Delivered EXCEPT ![s] = [i \in 1..n |-> i]]
              /\ UNCHANGED <<read, Reading, Overs>>
         /\ Stream!Complete(s) <=> ~Reading[s] /\ Len(Delivered[Other(s)]) = read[s]
         /\ Stream!EndInOrder(s) <=>
              /\ Overs[s] = "no" /\ Reading' = [Reading EXCEPT ![s] = FALSE]
              /\ Stream!Complete(s) \/ Stream!Complete(Other(s))
              /\ Overs' = [Overs EXCEPT ![s] = "ordered"]
              /\ UNCHANGED <<read, Delivered>>
         /\ Stream!Cut(s) <=>
              /\ Overs[s] = "no" /\ Overs' = [Overs EXCEPT ![s] = "cut"]
              /\ Reading' \in {Reading, [Reading EXCEPT ![s] = FALSE]}
              /\ UNCHANGED <<read, Delivered>>
         /\ UNCHANGED Stream!vars <=> UNCHANGED <<read, Delivered, Reading, Overs>>
BY DEF Stream!Read, Stream!StopReading, Stream!Deliver, Stream!Complete, Stream!EndInOrder,
       Stream!Cut, Stream!vars, Stream!Other, Other, Delivered, Reading, Overs

Mapped == [Stream!Next]_(Stream!vars)

LEMMA MappedBy ==
  ASSUME NEW s \in Sides,
         \/ Stream!Read(s) \/ Stream!StopReading(s) \/ Stream!Deliver(s)
         \/ Stream!EndInOrder(s) \/ Stream!Cut(s) \/ UNCHANGED Stream!vars
  PROVE  Mapped
BY DEF Mapped, Stream!Next, Stream!Sides, Sides

LEMMA HowEnds ==
  /\ How("no") = "no" /\ How("Closed") = "ordered"
  /\ \A end \in Ends \ {"no", "Closed"} : How(end) = "cut"
BY DEF How, Ends

LEMMA SameFunction ==
  ASSUME NEW S, NEW f, f = [x \in S |-> f[x]], NEW s \in S, NEW e, e = f[s]
  PROVE  [f EXCEPT ![s] = e] = f
OBVIOUS

\* What a step of one link leaves as it is.
LEMMA LinkKeeps ==
  ASSUME IInv, IInv', NEW s \in Sides, NEW a, link' = [link EXCEPT ![s] = a]
  PROVE  /\ Moved(s, a)
         /\ a.inNext = link[s].inNext => Delivered' = Delivered
         /\ a.localEnd = link[s].localEnd => Reading' = Reading
         /\ a.end = link[s].end => Overs' = Overs
         /\ link[s].end = "no" => Overs[s] = "no"
<1>1. /\ Delivered = [t \in Sides |-> Delivered[t]] /\ Reading = [t \in Sides |-> Reading[t]]
      /\ Overs = [t \in Sides |-> Overs[t]]
  BY DEF Delivered, Reading, Overs
<1>m. Moved(s, a)
  BY LinkMoves
<1>2. ASSUME a.inNext = link[s].inNext  PROVE Delivered' = Delivered
  <2>1. Delivered' = [Delivered EXCEPT ![s] = Delivered[s]]
    BY <1>2, <1>m DEF Moved
  <2> QED  BY <1>1, <2>1, SameFunction
<1>3. ASSUME a.localEnd = link[s].localEnd  PROVE Reading' = Reading
  <2>1. Reading' = [Reading EXCEPT ![s] = Reading[s]]
    BY <1>3, <1>m DEF Moved
  <2> QED  BY <1>1, <2>1, SameFunction
<1>4. ASSUME a.end = link[s].end  PROVE Overs' = Overs
  <2>1. Overs' = [Overs EXCEPT ![s] = Overs[s]]
    BY <1>4, <1>m DEF Moved
  <2> QED  BY <1>1, <2>1, SameFunction
<1>5. link[s].end = "no" => Overs[s] = "no"
  BY <1>m, HowEnds DEF Moved
<1> QED  BY <1>m, <1>2, <1>3, <1>4, <1>5

\* A step of one link, by what it changes of the stream.
LEMMA IdleStep ==
  ASSUME IInv, IInv', NEW s \in Sides, NEW a, link' = [link EXCEPT ![s] = a],
         a.inNext = link[s].inNext, a.localEnd = link[s].localEnd, a.end = link[s].end,
         read' = read
  PROVE  Mapped
<1>1. Delivered' = Delivered /\ Reading' = Reading /\ Overs' = Overs
  BY LinkKeeps
<1> QED  BY <1>1, StreamForms, MappedBy

LEMMA ReadStep ==
  ASSUME IInv, IInv', NEW s \in Sides, NEW a, link' = [link EXCEPT ![s] = a],
         a.inNext = link[s].inNext, ~link[s].localEnd, ~a.localEnd,
         link[s].end = "no", a.end = "no", read'[s] > read[s],
         read' = [read EXCEPT ![s] = read'[s]]
  PROVE  Mapped
<1>1. a.localEnd = link[s].localEnd
  <2>1. a = link'[s]
    BY DEF IInv, TypeOK
  <2>2. a.localEnd \in BOOLEAN /\ link[s].localEnd \in BOOLEAN
    BY <2>1, LinkFields DEF IInv, TypeOK
  <2> QED  BY <2>2
<1>2. /\ Delivered' = Delivered /\ Reading' = Reading /\ Overs' = Overs
      /\ Overs[s] = "no" /\ Reading[s]
  <2>1. Moved(s, a) /\ Delivered' = Delivered /\ Reading' = Reading /\ Overs' = Overs
        /\ Overs[s] = "no"
    BY <1>1, LinkKeeps
  <2> QED  BY <2>1 DEF Moved
<1> QED  BY <1>1, <1>2, StreamForms, MappedBy

LEMMA StopStep ==
  ASSUME IInv, IInv', NEW s \in Sides, NEW a, link' = [link EXCEPT ![s] = a],
         a.inNext = link[s].inNext, a.localEnd, link[s].end = "no", a.end = "no", read' = read
  PROVE  Mapped
<1>1. CASE link[s].localEnd
  <2>1. a.localEnd = link[s].localEnd
    <3>1. a = link'[s]
      BY DEF IInv, TypeOK
    <3>2. a.localEnd \in BOOLEAN /\ link[s].localEnd \in BOOLEAN
      BY <3>1, LinkFields DEF IInv, TypeOK
    <3> QED  BY <1>1, <3>2
  <2> QED  BY <2>1, IdleStep
<1>2. CASE ~link[s].localEnd
  <2>1. Delivered' = Delivered /\ Overs' = Overs /\ Reading' = [Reading EXCEPT ![s] = FALSE]
    <3>1. Moved(s, a) /\ Delivered' = Delivered /\ Overs' = Overs
      BY LinkKeeps
    <3>2. ~a.localEnd = FALSE
      OBVIOUS
    <3> QED  BY <3>1, <3>2 DEF Moved
  <2>2. Overs[s] = "no" /\ Reading[s]
    <3>1. Moved(s, a) /\ Overs[s] = "no"
      BY LinkKeeps
    <3> QED  BY <1>2, <3>1 DEF Moved
  <2> QED  BY <2>1, <2>2, StreamForms, MappedBy
<1> QED  BY <1>1, <1>2

LEMMA DeliverStep ==
  ASSUME IInv, IInv', NEW s \in Sides, NEW a, link' = [link EXCEPT ![s] = a],
         a.inNext \in Nat, link[s].inNext <= a.inNext, a.localEnd = link[s].localEnd,
         link[s].end = "no", a.end = "no", read' = read
  PROVE  Mapped
<1>1. link[s].inNext \in Nat /\ read[Other(s)] \in Nat
  BY InvFacts, OtherSide
<1>2. CASE a.inNext = link[s].inNext
  BY <1>2, IdleStep
<1>3. CASE a.inNext # link[s].inNext
  <2>1. a.inNext <= read[Other(s)]
    <3>1. link'[s] = a
      BY DEF IInv, TypeOK
    <3> QED  BY <3>1 DEF IInv, Exact
  <2>2. Delivered[s] = FirstBytes(link[s].inNext)
        /\ Delivered' = [Delivered EXCEPT ![s] = [i \in 1..a.inNext |-> i]]
        /\ Reading' = Reading /\ Overs' = Overs /\ Overs[s] = "no"
    <3>1. Moved(s, a) /\ Reading' = Reading /\ Overs' = Overs /\ Overs[s] = "no"
      BY LinkKeeps
    <3> QED  BY <3>1 DEF Moved, FirstBytes
  <2>3. Len(Delivered[s]) = link[s].inNext
    BY <1>1, <2>2 DEF FirstBytes
  <2>4. a.inNext \in (Len(Delivered[s]) + 1)..read[Other(s)]
    BY <1>1, <1>3, <2>1, <2>3
  <2> QED  BY <2>2, <2>4, StreamForms, MappedBy
<1> QED  BY <1>2, <1>3

LEMMA EndStep ==
  ASSUME IInv, IInv', NEW s \in Sides, NEW a, link' = [link EXCEPT ![s] = a],
         a.inNext = link[s].inNext, a.localEnd \in {TRUE, link[s].localEnd},
         link[s].end = "no", a.end \in Ends \ {"no"}, read' = read,
         a.end = "Closed" => a.localEnd /\ (Whole(s) \/ Whole(Other(s)))
  PROVE  Mapped
<1>1. Delivered' = Delivered /\ Overs[s] = "no"
      /\ Reading' = [Reading EXCEPT ![s] = ~a.localEnd] /\ Overs' = [Overs EXCEPT ![s] = How(a.end)]
  <2>1. Moved(s, a) /\ Delivered' = Delivered /\ Overs[s] = "no"
    BY LinkKeeps
  <2> QED  BY <2>1 DEF Moved
<1>2. CASE a.end = "Closed"
  <2>1. How(a.end) = "ordered" /\ a.localEnd
    BY <1>2, HowEnds
  <2>2. ASSUME NEW t \in Sides, Whole(t)  PROVE Stream!Complete(t)
    <3>1. link[Other(t)].inNext = read[t] /\ link[t].localEnd /\ read[t] \in Nat
      BY <2>2, InvFacts DEF Whole
    <3>2. Delivered[Other(t)] = FirstBytes(read[t])
      BY <3>1, DeliveredIs, OtherSide
    <3>3. Len(Delivered[Other(t)]) = read[t]
      BY <3>1, <3>2 DEF FirstBytes
    <3>4. ~Reading[t]
      BY <3>1 DEF Reading
    <3> QED  BY <3>3, <3>4, StreamForms
  <2>3. Stream!Complete(s) \/ Stream!Complete(Other(s))
    BY <1>2, <2>2, OtherSide
  <2>4. Reading' = [Reading EXCEPT ![s] = FALSE] /\ Overs' = [Overs EXCEPT ![s] = "ordered"]
    BY <1>1, <2>1
  <2> QED  BY <1>1, <2>3, <2>4, StreamForms, MappedBy
<1>3. CASE a.end # "Closed"
  <2>1. Overs' = [Overs EXCEPT ![s] = "cut"]
    BY <1>1, <1>3, HowEnds
  <2>2. Reading' \in {Reading, [Reading EXCEPT ![s] = FALSE]}
    <3>1. CASE a.localEnd
      BY <1>1, <3>1
    <3>2. CASE ~a.localEnd
      <4>1. a.localEnd = link[s].localEnd
        BY <3>2
      <4> QED  BY <4>1, LinkKeeps
    <3> QED  BY <3>1, <3>2
  <2> QED  BY <1>1, <2>1, <2>2, StreamForms, MappedBy
<1> QED  BY <1>2, <1>3

\* Steps that change no link.
LEMMA StreamsStep == ASSUME UNCHANGED <<link, read, taken>>  PROVE Mapped
<1>1. UNCHANGED <<read, Delivered, Reading, Overs>>
  BY DEF Delivered, Reading, Overs
<1>2. "guest" \in Sides
  BY DEF Sides
<1> QED  BY <1>1, <1>2, StreamForms, MappedBy

-----------------------------------------------------------------------------
LEMMA BreaksMaps ==
  ASSUME IInv, IInv', NEW s \in Sides, NEW st, Breaks(s, link[s], st), read' = read
  PROVE  Mapped
<1> DEFINE a == [link[s] EXCEPT !.channel = NoStream, !.broken = TRUE]
<1>1. link[s] \in LinkStates /\ link' = [link EXCEPT ![s] = a]
  BY InvFacts DEF Breaks, Goes
<1>2. a.inNext = link[s].inNext /\ a.localEnd = link[s].localEnd /\ a.end = link[s].end
  BY <1>1 DEF LinkStates
<1> HIDE DEF a
<1> QED  BY <1>1, <1>2, IdleStep

\* A link that goes on with what it was to the stream.
LEMMA GoesMaps ==
  ASSUME IInv, IInv', NEW s \in Sides, NEW l, NEW st, Goes(s, l, st), read' = read,
         l.inNext = link[s].inNext, l.localEnd = link[s].localEnd, l.end = link[s].end
  PROVE  Mapped
BY IdleStep DEF Goes

LEMMA FinishMaps ==
  ASSUME IInv, IInv', NEW s \in Sides, NEW l \in LinkStates, NEW st,
         NEW end \in Ends \ {"no"}, Finish(s, l, st, end), read' = read,
         link[s].end = "no", l.inNext = link[s].inNext, l.localEnd \in {TRUE, link[s].localEnd},
         end = "Closed" => l.localEnd /\ (Whole(s) \/ Whole(Other(s)))
  PROVE  Mapped
<1> DEFINE a == [l EXCEPT !.end = end, !.channel = NoStream, !.broken = FALSE]
<1>1. link' = [link EXCEPT ![s] = a]
  BY DEF Finish, Goes
<1>2. a.inNext = l.inNext /\ a.localEnd = l.localEnd /\ a.end = end
  BY DEF LinkStates
<1> HIDE DEF a
<1> QED  BY <1>1, <1>2, EndStep

LEMMA ReadLocalMaps == ASSUME IInv, IInv', NEW s \in Sides, ReadLocal(s)  PROVE Mapped
<1>1. PICK n \in 1..MaxData :
        /\ read' = [read EXCEPT ![s] = @ + n]
        /\ Goes(s, [link[s] EXCEPT !.data = @ \o [i \in 1..n |-> read[s] + i]], stream)
  BY DEF ReadLocal
<1> DEFINE a == [link[s] EXCEPT !.data = @ \o [i \in 1..n |-> read[s] + i]]
<1>2. link[s] \in LinkStates /\ ~link[s].localEnd /\ link[s].end = "no"
  BY InvFacts DEF ReadLocal, Running
<1>3. link' = [link EXCEPT ![s] = a]
  BY <1>1 DEF Goes
<1>4. a.inNext = link[s].inNext /\ a.localEnd = link[s].localEnd /\ a.end = link[s].end
  BY <1>2 DEF LinkStates
<1> HIDE DEF a
<1>5. read'[s] > read[s] /\ read' = [read EXCEPT ![s] = read'[s]]
  <2>1. read[s] \in Nat /\ read \in [Sides -> Nat] /\ n \in Nat /\ n >= 1
    BY LimitAssumption DEF IInv, TypeOK
  <2>2. read'[s] = read[s] + n
    BY <1>1, <2>1
  <2> QED  BY <1>1, <2>1, <2>2
<1> QED  BY <1>2, <1>3, <1>4, <1>5, ReadStep

LEMMA FlagsMap ==
  ASSUME IInv, IInv', NEW s \in Sides,
         LocalEof(s) \/ WriterFails(s) \/ LocalFail(s) \/ AckTimer(s)
  PROVE  Mapped
<1>1. link[s] \in LinkStates /\ link[s].end = "no" /\ read' = read
  BY InvFacts DEF LocalEof, WriterFails, LocalFail, AckTimer, Running
<1>2. CASE LocalEof(s) \/ LocalFail(s)
  <2>1. PICK a \in {[link[s] EXCEPT !.localEnd = TRUE],
                    [link[s] EXCEPT !.localDead = TRUE, !.localEnd = TRUE]} : Goes(s, a, stream)
    BY <1>2 DEF LocalEof, LocalFail
  <2>2. a.inNext = link[s].inNext /\ a.localEnd /\ a.end = link[s].end
    BY <1>1 DEF LinkStates
  <2>3. link' = [link EXCEPT ![s] = a]
    BY <2>1 DEF Goes
  <2> QED  BY <1>1, <2>2, <2>3, StopStep
<1>3. CASE WriterFails(s) \/ AckTimer(s)
  <2>1. PICK a \in {[link[s] EXCEPT !.writerFailed = TRUE],
                    [link[s] EXCEPT !.ackDue = TRUE]} : Goes(s, a, stream)
    BY <1>3 DEF WriterFails, AckTimer
  <2>2. a.inNext = link[s].inNext /\ a.localEnd = link[s].localEnd /\ a.end = link[s].end
    BY <1>1 DEF LinkStates
  <2> QED  BY <1>1, <2>1, <2>2, GoesMaps
<1> QED  BY <1>2, <1>3

LEMMA RecvDataMaps == ASSUME IInv, IInv', NEW s \in Sides, RecvData(s)  PROVE Mapped
<1> DEFINE k == link[s].channel
           m == Head(stream[k].to[s])
           last == Last(m)
           fresh == Fresh(link[s], m)
           l == CountedTo(link[s], Len(fresh), last)
<1>1. Arrived(s, "data") /\ read' = read
  BY DEF RecvData
<1>2. /\ m \in Messages /\ m.kind = "data" /\ Start(m) <= link[s].inNext
      /\ Truthful(m, s, Now) /\ link[s].end = "no" /\ link[s].peerClose = None
  BY <1>1, ArrivedFacts
<1>3. link[s] \in LinkStates /\ link[s].inNext \in Nat
  BY InvFacts
<1>4. last \in Nat /\ m.offset \in Nat /\ m.offset <= link[s].inNext
  BY <1>2, MessageFields
<1>5. \/ Breaks(s, link[s], Pop(k, s)) \/ Goes(s, link[s], Pop(k, s))
      \/ /\ ~(last <= link[s].inNext)
         /\ IF l.peerClose # None /\ last >= l.peerClose
            THEN Finish(s, l, Pop(k, s), "Closed") ELSE Goes(s, l, Pop(k, s))
  BY DEF RecvData, CountedTo, Last
<1> HIDE DEF last
<1>6. CASE Breaks(s, link[s], Pop(k, s)) \/ Goes(s, link[s], Pop(k, s))
  BY <1>1, <1>6, BreaksMaps, GoesMaps
<1>7. CASE /\ ~(last <= link[s].inNext)
           /\ IF l.peerClose # None /\ last >= l.peerClose
              THEN Finish(s, l, Pop(k, s), "Closed") ELSE Goes(s, l, Pop(k, s))
  <2>1. link[s].inNext < last /\ link[s].inNext <= last
    BY <1>3, <1>4, <1>7
  <2>2. Len(fresh) \in Nat
    <3>1. \A i \in 1..Len(m.bytes) : m.bytes[i] = m.offset + i
      BY <1>2 DEF Truthful
    <3> QED  BY <1>2, <1>3, <1>4, <2>1, <3>1, FreshBytes DEF last
  <2> HIDE DEF fresh, m, k
  <2>3. /\ l \in LinkStates /\ l.inNext = last /\ l.localEnd = link[s].localEnd
        /\ l.end = link[s].end /\ l.peerClose = link[s].peerClose
    <3>1. Len(fresh) \in Nat /\ last \in Nat /\ link[s] \in LinkStates
      BY <1>3, <1>4, <2>2
    <3>2. \A b \in LinkStates : \A n, e \in Nat :
            LET a == CountedTo(b, n, e)
            IN /\ a \in LinkStates /\ a.inNext = e /\ a.localEnd = b.localEnd
               /\ a.end = b.end /\ a.peerClose = b.peerClose
      BY CountedKeeps
    <3>3. LET a == CountedTo(link[s], Len(fresh), last)
          IN /\ a \in LinkStates /\ a.inNext = last /\ a.localEnd = link[s].localEnd
             /\ a.end = link[s].end /\ a.peerClose = link[s].peerClose
      BY <3>1, <3>2, Zenon
    <3> QED  BY <3>3
  <2> HIDE DEF l
  <2>4. Goes(s, l, Pop(k, s))
    BY <1>2, <1>7, <2>3
  <2>5. link' = [link EXCEPT ![s] = l]
    BY <2>4 DEF Goes
  <2> QED  BY <1>1, <1>2, <1>4, <2>1, <2>3, <2>5, DeliverStep
<1> QED  BY <1>5, <1>6, <1>7

LEMMA RecvAckMaps == ASSUME IInv, IInv', NEW s \in Sides, RecvAck(s)  PROVE Mapped
<1> DEFINE k == link[s].channel
           next == Head(stream[k].to[s]).count
           forward == [Acknowledge(link[s], next) EXCEPT !.sent = Larger(@, next)]
           l == IF next > link[s].base THEN forward ELSE link[s]
<1>1. Arrived(s, "ack") /\ read' = read
  BY DEF RecvAck
<1>2. link[s] \in LinkStates /\ link[s].end = "no"
  BY <1>1, InvFacts, ArrivedFacts
<1>3. \/ Breaks(s, link[s], Pop(k, s))
      \/ l.closeSent /\ l.data = <<>> /\ Finish(s, l, Pop(k, s), "Closed")
      \/ Goes(s, l, Pop(k, s))
  BY DEF RecvAck
<1>4. /\ l.inNext = link[s].inNext /\ l.localEnd = link[s].localEnd /\ l.end = link[s].end
      /\ l.closeSent = link[s].closeSent
  BY <1>2 DEF Acknowledge, LinkStates
<1> HIDE DEF l, k, next
<1>5. CASE l.closeSent /\ l.data = <<>> /\ Finish(s, l, Pop(k, s), "Closed")
  <2> DEFINE a == [l EXCEPT !.end = "Closed", !.channel = NoStream, !.broken = FALSE]
             o == Other(s)
  <2>1. link' = [link EXCEPT ![s] = a]
    BY <1>5 DEF Finish, Goes
  <2>2. link'[s] = a /\ link'[o] = link[o] /\ o \in Sides
    BY <2>1, OtherSide DEF IInv, TypeOK
  <2>3. link[s].localEnd
    BY <1>4, <1>5, InvFacts
  <2>4. a.data = <<>> /\ a.inNext = link[s].inNext /\ a.localEnd = link[s].localEnd
        /\ a.end = "Closed"
    <3>1. l \in [DOMAIN link[s] -> UNION {{l[f]} : f \in DOMAIN link[s]}]
      BY <1>2 DEF l, Acknowledge, LinkStates
    <3> QED  BY <1>2, <1>4, <1>5, <3>1 DEF LinkStates
  <2> HIDE DEF a
  <2>5. link[o].inNext = read[s]
    <3>1. /\ a.base <= link[o].inNext /\ End(a) = read[s]
      BY <1>1, <2>2 DEF IInv, NothingLost
    <3>2. a.base \in Nat
      BY <2>2, LinkFields DEF IInv, TypeOK
    <3>3. End(a) = a.base
      BY <2>4, <3>2 DEF End
    <3>4. link[o].inNext \in Nat /\ link[o].inNext <= read[s] /\ read[s] \in Nat
      BY InvFacts, OtherSide
    <3> QED  BY <3>1, <3>3, <3>4
  <2>6. Whole(s) /\ "Closed" \in Ends \ {"no"}
    BY <2>3, <2>5 DEF Whole, Ends
  <2> QED  BY <1>1, <1>2, <2>1, <2>3, <2>4, <2>6, EndStep
<1> QED  BY <1>1, <1>3, <1>4, <1>5, BreaksMaps, GoesMaps

LEMMA RecvCloseMaps == ASSUME IInv, IInv', NEW s \in Sides, RecvClose(s)  PROVE Mapped
<1> DEFINE k == link[s].channel
           at == Head(stream[k].to[s]).count
           l == [link[s] EXCEPT !.peerClose = at, !.localEnd = TRUE]
<1>1. Arrived(s, "close") /\ read' = read
  BY DEF RecvClose
<1>2. /\ at = link[s].inNext /\ at = read[Other(s)] /\ at \in Nat /\ link[Other(s)].localEnd
      /\ link[s].end = "no" /\ link[s] \in LinkStates
  BY <1>1, CloseFacts, ArrivedFacts, InvFacts
<1>3. l.inNext = link[s].inNext
  BY <1>2 DEF LinkStates
<1>4. Finish(s, l, Pop(k, s), "Closed")
  <2>1. ~(at < link[s].inNext) /\ at <= l.inNext
    BY <1>2, <1>3
  <2> QED  BY <2>1 DEF RecvClose
<1> HIDE DEF k, at
<1>5. l \in LinkStates /\ l.localEnd = TRUE
  BY <1>2 DEF LinkStates
<1> HIDE DEF l
<1>6. Whole(Other(s)) /\ "Closed" \in Ends \ {"no"}
  BY <1>2, OtherSide DEF Whole, Ends
<1> QED  BY <1>1, <1>2, <1>3, <1>4, <1>5, <1>6, FinishMaps

LEMMA SendMaps == ASSUME IInv, IInv', NEW s \in Sides, Send(s)  PROVE Mapped
<1> DEFINE acked == [link[s] EXCEPT !.ackDue = FALSE, !.unacked = 0, !.ackAt = FALSE]
           further == [link[s] EXCEPT !.sent = @ + Len(Chunk(link[s]))]
           closing == [link[s] EXCEPT !.closeSent = TRUE]
<1>1. read' = read /\ link[s].end = "no"
  BY DEF Send, Running
<1>2. link[s] \in LinkStates /\ link[s].peerClose = None
  BY <1>1, InvFacts DEF NoneWaits
<1>3. \E st : Goes(s, acked, st) \/ Goes(s, further, st) \/ Goes(s, closing, st)
  <2>1. CASE link[s].ackDue
    BY <2>1 DEF Send
  <2>2. CASE ~link[s].ackDue /\ link[s].sent < End(link[s])
    <3>1. End(link[s]) \in Nat /\ link[s].sent \in Nat
      BY <1>2, LinkFields DEF End
    <3>2. ~(link[s].sent >= End(link[s]))
      BY <2>2, <3>1
    <3>3. \E st : Goes(s, further, st)
      BY <2>2, <3>2 DEF Send
    <3> QED  BY <3>3
  <2>3. CASE ~link[s].ackDue /\ ~(link[s].sent < End(link[s]))
    BY <1>2, <2>3 DEF Send
  <2> QED  BY <2>1, <2>2, <2>3
<1>4. \A a \in {acked, further, closing} :
         a.inNext = link[s].inNext /\ a.localEnd = link[s].localEnd /\ a.end = link[s].end
  BY <1>2 DEF LinkStates
<1> HIDE DEF acked, further, closing
<1> QED  BY <1>1, <1>3, <1>4, GoesMaps

LEMMA EndsMap ==
  ASSUME IInv, IInv', NEW s \in Sides, Expire(s) \/ CloseCmd(s) \/ Abort(s)
  PROVE  Mapped
<1>1. link[s] \in LinkStates /\ link[s].end = "no" /\ read' = read
  BY InvFacts DEF Expire, CloseCmd, Abort, Running
<1>2. {"Expired", "Aborted"} \subseteq Ends \ {"no", "Closed"}
  BY DEF Ends
<1>3. CASE Expire(s) \/ Abort(s)
  <2>1. PICK end \in {"Expired", "Aborted"} : Finish(s, link[s], stream, end)
    BY <1>3 DEF Expire, Abort
  <2>2. end \in Ends \ {"no"} /\ end # "Closed"
    BY <1>2
  <2> QED  BY <1>1, <2>1, <2>2, FinishMaps
<1>4. CASE CloseCmd(s)
  <2> DEFINE l == [link[s] EXCEPT !.localEnd = TRUE]
  <2>1. Finish(s, l, stream, "Aborted") \/ Goes(s, l, stream)
    BY <1>4 DEF CloseCmd
  <2>2. l \in LinkStates /\ l.inNext = link[s].inNext /\ l.localEnd = TRUE /\ l.end = link[s].end
    BY <1>1 DEF LinkStates
  <2> HIDE DEF l
  <2>3. CASE Finish(s, l, stream, "Aborted")
    <3>1. "Aborted" \in Ends \ {"no"}
      BY <1>2
    <3> QED  BY <1>1, <2>2, <2>3, <3>1, FinishMaps
  <2>4. CASE Goes(s, l, stream)
    <3>1. link' = [link EXCEPT ![s] = l]
      BY <2>4 DEF Goes
    <3> QED  BY <1>1, <2>2, <3>1, StopStep
  <2> QED  BY <2>1, <2>3, <2>4
<1> QED  BY <1>3, <1>4

LEMMA RewoundSame ==
  ASSUME NEW l \in LinkStates, NEW n
  PROVE  LET a == Rewound(l, n)
         IN a.inNext = l.inNext /\ a.localEnd = l.localEnd /\ a.end = l.end
BY DEF Rewound, Acknowledge, LinkStates

LEMMA AttachedMaps ==
  ASSUME IInv, IInv', NEW s \in Sides, NEW n, NEW st, NEW k,
         Attached(s, Rewound(link[s], n), st, k), read' = read
  PROVE  Mapped
<1> DEFINE l == Rewound(link[s], n)
           a == [l EXCEPT !.channel = k, !.broken = FALSE]
<1>1. link[s] \in LinkStates
  BY InvFacts
<1>2. a.inNext = link[s].inNext /\ a.localEnd = link[s].localEnd /\ a.end = link[s].end
  BY <1>1 DEF Rewound, Acknowledge, LinkStates
<1>3. Goes(s, a, Leave(st, link[s].channel, s))
  BY DEF Attached
<1> HIDE DEF a
<1> QED  BY <1>2, <1>3, GoesMaps

LEMMA SessionMaps == ASSUME IInv, IInv', Session  PROVE Mapped
<1>1. "guest" \in Sides /\ "host" \in Sides
  BY DEF Sides
<1>2. link["guest"] \in LinkStates /\ link["host"] \in LinkStates
  BY <1>1, InvFacts
<1>3. CASE (\E planned \in BOOLEAN : Resume(planned)) \/ ResumeFails \/ GameEnded
  BY <1>3, StreamsStep DEF Resume, ResumeFails, GameEnded
<1>4. ASSUME NEW k \in Streams, ServeResume(k)  PROVE Mapped
  <2>1. read' = read
    BY <1>4 DEF ServeResume
  <2>2. \E st : \/ Attached("host", Rewound(link["host"], stream[k].hello), st, k)
                \/ Goes("host", link["host"], st)
    BY <1>4 DEF ServeResume
  <2> QED  BY <1>1, <2>1, <2>2, AttachedMaps, GoesMaps
<1>5. ASSUME NEW k \in Streams, ServeResumeFails(k)  PROVE Mapped
  <2>1. read' = read /\ \E st : Goes("host", Rewound(link["host"], stream[k].hello), st)
    BY <1>5 DEF ServeResumeFails
  <2> QED  BY <1>1, <1>2, <2>1, RewoundSame, GoesMaps
<1>6. CASE ResumeOk
  <2>1. read' = read
    BY <1>6 DEF ResumeOk
  <2>2. \E st, n, k : \/ Attached("guest", Rewound(link["guest"], n), st, k)
                      \/ Goes("guest", link["guest"], st)
    BY <1>6 DEF ResumeOk
  <2> QED  BY <1>1, <2>1, <2>2, AttachedMaps, GoesMaps
<1>7. CASE ResumeForgotten
  <2>1. read' = read
    BY <1>7 DEF ResumeForgotten
  <2>2. \E st : \/ Goes("guest", link["guest"], st)
                \/ link["guest"].end = "no" /\ Finish("guest", link["guest"], st, "Aborted")
    BY <1>7 DEF ResumeForgotten, Running
  <2>3. "Aborted" \in Ends \ {"no"} /\ "Aborted" # "Closed"
    BY DEF Ends
  <2> QED  BY <1>1, <1>2, <2>1, <2>2, <2>3, GoesMaps, FinishMaps
<1> QED  BY <1>3, <1>4, <1>5, <1>6, <1>7 DEF Session

\* Every step of the link is a step of the stream, or changes nothing of it.
LEMMA StepMaps == ASSUME IInv, IInv', [Next]_vars  PROVE Mapped
<1>1. CASE UNCHANGED vars
  BY <1>1, StreamsStep DEF vars
<1>2. ASSUME NEW s \in Sides, Local(s)  PROVE Mapped
  BY <1>2, ReadLocalMaps, FlagsMap DEF Local
<1>3. ASSUME NEW s \in Sides, StreamEnds(s)  PROVE Mapped
  BY <1>3, BreaksMaps DEF StreamEnds
<1>4. ASSUME NEW s \in Sides, Runs(s)  PROVE Mapped
  BY <1>3, <1>4, RecvDataMaps, RecvAckMaps, RecvCloseMaps, SendMaps, FlagsMap DEF Runs
<1>5. ASSUME NEW s \in Sides, Expire(s) \/ CloseCmd(s) \/ Abort(s)  PROVE Mapped
  BY <1>5, EndsMap
<1>6. ASSUME NEW k \in Streams, Cut(k)  PROVE Mapped
  BY <1>6, StreamsStep DEF Cut
<1> QED  BY <1>1, <1>2, <1>4, <1>5, <1>6, SessionMaps DEF Next

LEMMA InitMaps == ASSUME Init  PROVE Stream!Init
<1>1. IInv
  BY InitKeeps
<1>2. read \in [Sides -> Nat]
  BY <1>1 DEF IInv, TypeOK
<1>3. Delivered = [s \in Sides |-> <<>>]
  BY DEF Init, Delivered
<1>4. Reading = [s \in Sides |-> TRUE] /\ Overs = [s \in Sides |-> "no"]
  BY DEF Init, Reading, Overs
<1> QED  BY <1>2, <1>3, <1>4 DEF Stream!Init, Stream!Sides, Sides, Delivered, Reading, Overs

(* The relay is the stream of bytes GameStream promises: over any number   *)
(* of streams, breaks, moves and failures a byte reaches the other game    *)
(* once, in its place and unchanged, or the connection ends, and it ends   *)
(* in order only when a direction is complete (crates/pl-host/src/tunnel). *)
THEOREM RelaysStream == Spec => IsStream
<1>1. Init => Stream!Init
  BY InitMaps
<1>2. IInv /\ IInv' /\ [Next]_vars => [Stream!Next]_(Stream!vars)
  BY StepMaps DEF Mapped
<1> QED  BY <1>1, <1>2, Inductive, PTL DEF Spec, IsStream, Stream!Spec
=============================================================================
