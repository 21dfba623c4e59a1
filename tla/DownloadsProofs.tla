--------------------------- MODULE DownloadsProofs ---------------------------
(***************************************************************************)
(* Proofs about Downloads, for any size, sources, retries and bounds: when *)
(* the batches that fetch a file come one at a time, what is moved into    *)
(* place is the right file, and a part that does not belong to the file    *)
(* never costs a mirror.                                                   *)
(***************************************************************************)
EXTENDS Downloads, SequenceTheorems, TLAPS

Contents == Seq(Pieces) \cup {Missing}
Pcs == {"idle", "ask", "sent", "hash", "open", "stream"}
Fetches ==
    [pc : Pcs, result : {"none", "ok", "skipped", "failed", "full", "cancelled"},
     url : Nat, attempt : Nat, from : Nat, at : Nat, hashed : Seq(Pieces),
     file : {"none", "part", "dest", "orphan"}]

\* What a fetch x knows of the part p.
Sound(x, p) ==
    /\ x.pc \in {"ask", "sent", "hash", "open"} => x.at = 0
    /\ x.pc \in {"sent", "hash", "open"} /\ x.from > 0 => p # Missing /\ Len(p) = x.from
    /\ x.pc = "open" => x.hashed = IF x.from > 0 THEN p ELSE <<>>
    /\ x.pc = "stream" => p # Missing /\ x.file = "part" /\ x.hashed = p /\ x.at = Len(p)

Alone == \A f, g \in Fetchers : fetch[f].pc # "idle" /\ fetch[g].pc # "idle" => f = g

PartInv ==
    /\ part \in Contents /\ fetch \in [Fetchers -> Fetches] /\ Alone
    /\ \A f \in Fetchers : Sound(fetch[f], part)

-----------------------------------------------------------------------------
LEMMA IdleFits ==
  ASSUME NEW result \in {"none", "ok", "skipped", "failed", "full", "cancelled"}
  PROVE  Idle(result) \in Fetches /\ Idle(result).pc = "idle"
BY DEF Idle, Fetches, Pcs

LEMMA IdleSound ==
  ASSUME NEW x \in Fetches, x.pc = "idle", NEW p
  PROVE  Sound(x, p)
BY DEF Sound

\* A fetch moves from x to y; the others are idle and stay so.
LEMMA OneMoves ==
  ASSUME PartInv, part' \in Contents, NEW f \in Fetchers, NEW y \in Fetches, Sound(y, part'),
         fetch' \in [Fetchers -> Fetches], fetch'[f] = y,
         \A g \in Fetchers : g # f => fetch'[g].pc = "idle"
  PROVE  PartInv'
<1>1. Alone'
  BY DEF Alone
<1>2. ASSUME NEW g \in Fetchers  PROVE Sound(fetch'[g], part')
  BY IdleSound
<1> QED  BY <1>1, <1>2 DEF PartInv

LEMMA OthersIdle ==
  ASSUME PartInv, NEW f \in Fetchers, fetch[f].pc # "idle"
  PROVE  \A g \in Fetchers : g # f => fetch[g].pc = "idle"
BY DEF PartInv, Alone

LEMMA NowMoves ==
  ASSUME PartInv, part' \in Contents, NEW f \in Fetchers, NEW y \in Fetches, Sound(y, part'),
         Now(f, y), \A g \in Fetchers : g # f => fetch[g].pc = "idle"
  PROVE  PartInv'
<1>1. fetch' \in [Fetchers -> Fetches] /\ fetch'[f] = y
  BY DEF Now, PartInv
<1>2. \A g \in Fetchers : g # f => fetch'[g] = fetch[g]
  BY DEF Now, PartInv
<1> QED  BY <1>1, <1>2, OneMoves

\* The part goes while a fetch moves on.
LEMMA PartGoes ==
  ASSUME PartInv, part' = Missing, NEW f \in Fetchers, NEW y \in Fetches, Sound(y, Missing),
         fetch' = [g \in Fetchers |-> IF g = f THEN y ELSE Unlinked(g)],
         fetch[f].pc # "idle"
  PROVE  PartInv'
<1>1. ASSUME NEW g \in Fetchers
      PROVE  Unlinked(g) \in Fetches /\ Unlinked(g).pc = fetch[g].pc
  BY DEF PartInv, Fetches, Unlinked
<1>2. fetch' \in [Fetchers -> Fetches] /\ fetch'[f] = y
  BY <1>1
<1>3. \A g \in Fetchers : g # f => fetch'[g].pc = "idle"
  BY <1>1, OthersIdle
<1> QED  BY <1>2, <1>3, OneMoves DEF Contents

LEMMA AfterFits ==
  ASSUME PartInv, NEW f \in Fetchers, NEW transient
  PROVE  After(f, transient) \in Fetches /\ \A p : Sound(After(f, transient), p)
<1> DEFINE now == fetch[f]
           again == [Idle("none") EXCEPT !.pc = "ask", !.url = now.url, !.attempt = now.attempt + 1]
           mirror == [Idle("none") EXCEPT !.pc = "ask", !.url = now.url + 1]
<1>1. now \in Fetches
  BY DEF PartInv
<1>2. /\ again \in Fetches /\ again.pc = "ask" /\ again.at = 0
      /\ mirror \in Fetches /\ mirror.pc = "ask" /\ mirror.at = 0
  <2>1. "ask" \in Pcs /\ now.url \in Nat /\ now.url + 1 \in Nat /\ now.attempt + 1 \in Nat
    BY <1>1 DEF Fetches, Pcs
  <2>2. Idle("none") \in Fetches
    BY IdleFits
  <2>3. again \in Fetches /\ mirror \in Fetches
    BY <2>1, <2>2 DEF Fetches
  <2>4. again.pc = "ask" /\ again.at = 0 /\ mirror.pc = "ask" /\ mirror.at = 0
    BY DEF Idle
  <2> QED  BY <2>3, <2>4
<1>3. \/ After(f, transient) = again \/ After(f, transient) = mirror
      \/ After(f, transient) = Idle("failed")
  BY DEF After
<1> HIDE DEF again, mirror
<1>4. \A p : Sound(again, p) /\ Sound(mirror, p)
  BY <1>2 DEF Sound
<1> QED  BY <1>2, <1>3, <1>4, IdleFits, IdleSound

LEMMA FailedKeeps ==
  ASSUME PartInv, NEW f \in Fetchers, NEW error, Failed(f, error), fetch[f].pc # "idle"
  PROVE  PartInv'
<1> DEFINE next == CASE error = "cancelled" -> Idle("cancelled")
                     [] error = "disk" -> Idle("full")
                     [] OTHER -> After(f, Transient(error))
<1>1. next \in Fetches /\ \A p : Sound(next, p)
  BY AfterFits, IdleFits, IdleSound
<1>2. \/ Now(f, next) /\ UNCHANGED part
      \/ /\ part' = Missing
         /\ fetch' = [g \in Fetchers |-> IF g = f THEN next ELSE Unlinked(g)]
  BY DEF Failed
<1> HIDE DEF next
<1>3. part \in Contents
  BY DEF PartInv
<1> QED  BY <1>1, <1>2, <1>3, NowMoves, PartGoes, OthersIdle

-----------------------------------------------------------------------------
LEMMA BeginKeeps ==
  ASSUME PartInv, ~Together, NEW f \in Fetchers, Begin(f)
  PROVE  PartInv'
<1> DEFINE y == IF Valid(dest) THEN Idle("skipped") ELSE [Idle("none") EXCEPT !.pc = "ask"]
<1>1. y \in Fetches /\ Sound(y, part)
  BY IdleFits, IdleSound DEF Sound, Fetches, Pcs, Idle
<1>2. Now(f, y) /\ part' = part /\ \A g \in Fetchers : fetch[g].pc = "idle"
  BY DEF Begin
<1> HIDE DEF y
<1> QED  BY <1>1, <1>2, NowMoves DEF PartInv

LEMMA AskKeeps ==
  ASSUME PartInv, NEW f \in Fetchers, Ask(f) \/ Response(f) \/ Unfit(f) \/ Refused(f)
  PROVE  PartInv'
<1> DEFINE x == fetch[f]
<1>1. x \in Fetches /\ Sound(x, part) /\ part \in Contents /\ x.pc \in {"ask", "sent"}
  BY DEF PartInv, Ask, Response, Unfit, Refused
<1>2. \A g \in Fetchers : g # f => fetch[g].pc = "idle"
  BY <1>1, OthersIdle
<1>3. CASE Ask(f)
  <2> DEFINE y == [x EXCEPT !.pc = "sent", !.from = PartLen]
  <2>1. Now(f, y) /\ part' = part /\ x.pc = "ask"
    BY <1>3 DEF Ask
  <2>2. PartLen \in Nat /\ (PartLen > 0 => part # Missing /\ Len(part) = PartLen)
    BY <1>1, LenProperties DEF PartLen, Here, Contents
  <2>3. y \in Fetches /\ y.pc = "sent" /\ y.from = PartLen /\ y.at = x.at
    BY <1>1, <2>2 DEF Fetches, Pcs
  <2>4. Sound(y, part)
    BY <1>1, <2>1, <2>2, <2>3 DEF Sound
  <2> HIDE DEF y
  <2> QED  BY <1>1, <1>2, <2>1, <2>3, <2>4, NowMoves
<1>4. CASE Response(f)
  <2> DEFINE y == [x EXCEPT !.pc = "hash"]
             z == [x EXCEPT !.pc = "hash", !.from = 0]
  <2>1. (Now(f, y) \/ Now(f, z)) /\ part' = part /\ x.pc = "sent"
    BY <1>4 DEF Response
  <2>2. /\ y \in Fetches /\ y.pc = "hash" /\ y.from = x.from /\ y.at = x.at
        /\ z \in Fetches /\ z.pc = "hash" /\ z.from = 0 /\ z.at = x.at
    BY <1>1 DEF Fetches, Pcs
  <2>3. Sound(y, part) /\ Sound(z, part)
    BY <1>1, <2>1, <2>2 DEF Sound
  <2> HIDE DEF y, z
  <2> QED  BY <1>1, <1>2, <2>1, <2>2, <2>3, NowMoves
<1>5. CASE Unfit(f)
  <2> DEFINE y == [x EXCEPT !.from = 0]
  <2>1. /\ x.pc = "sent"
        /\ \/ Now(f, y) /\ part' = part
           \/ /\ part' = Missing
              /\ fetch' = [g \in Fetchers |-> IF g = f THEN y ELSE Unlinked(g)]
    BY <1>5 DEF Unfit
  <2>2. y \in Fetches /\ y.pc = "sent" /\ y.from = 0 /\ y.at = x.at
    BY <1>1, <2>1 DEF Fetches
  <2>3. Sound(y, Missing) /\ Sound(y, part)
    BY <1>1, <2>1, <2>2 DEF Sound
  <2> HIDE DEF y
  <2> QED  BY <1>1, <1>2, <2>1, <2>2, <2>3, NowMoves, PartGoes
<1>6. CASE Refused(f)
  BY <1>1, <1>2, <1>6, AfterFits, NowMoves DEF Refused
<1> QED  BY <1>3, <1>4, <1>5, <1>6

\* What is read of a part is the part, and a piece more makes it longer by one.
LEMMA WholePrefix ==
  ASSUME NEW p \in Seq(Pieces)
  PROVE  Prefix(p, Len(p)) = p /\ Filled(p, Len(p)) = p
<1>1. Len(p) \in Nat /\ p \in [1..Len(p) -> Pieces]
  BY LenProperties, SeqDef
<1>2. Prefix(p, Len(p)) = p
  <2>1. SubSeq(p, 1, Len(p)) = p
    BY SubSeqFull
  <2> QED  BY <2>1 DEF Prefix
<1>3. Filled(p, Len(p)) = p
  BY <1>1 DEF Filled
<1> QED  BY <1>2, <1>3

LEMMA WrittenAppends ==
  ASSUME NEW p \in Seq(Pieces), NEW f, fetch[f].at = Len(p), NEW piece \in Pieces
  PROVE  Written(p, f, piece) = Append(p, piece)
<1> DEFINE n == Len(p)
<1>1. n \in Nat /\ p \in [1..n -> Pieces]
  BY LenProperties
<1>2. Written(p, f, piece) = [Filled(p, n + 1) EXCEPT ![n + 1] = piece]
  BY <1>1 DEF Written
<1> DEFINE longer == Append(p, piece)
           filled == Filled(p, n + 1)
<1>3. filled \in [1..(n + 1) -> Pieces] /\ \A i \in 1..n : filled[i] = p[i]
  BY <1>1 DEF Filled, Pieces
<1>4. /\ longer \in Seq(Pieces) /\ Len(longer) = n + 1
      /\ longer[n + 1] = piece /\ \A i \in 1..n : longer[i] = p[i]
  BY AppendProperties
<1>5. longer \in [1..(n + 1) -> Pieces]
  BY <1>4, LenProperties
<1> HIDE DEF filled, longer
<1> DEFINE written == [filled EXCEPT ![n + 1] = piece]
<1>6. /\ written \in [1..(n + 1) -> Pieces] /\ written[n + 1] = piece
      /\ \A i \in 1..n : written[i] = p[i]
  BY <1>1, <1>3
<1> HIDE DEF written
<1>7. \A i \in 1..(n + 1) : written[i] = longer[i]
  BY <1>1, <1>4, <1>6
<1>8. written = longer
  BY <1>5, <1>6, <1>7
<1> QED  BY <1>2, <1>8 DEF written, filled, longer

LEMMA HashKeeps ==
  ASSUME PartInv, NEW f \in Fetchers, HashPrefix(f)
  PROVE  PartInv'
<1> DEFINE x == fetch[f]
           y == [x EXCEPT !.pc = "open", !.hashed = IF x.from = 0 THEN <<>> ELSE Prefix(part, x.from)]
<1>1. x \in Fetches /\ Sound(x, part) /\ part \in Contents /\ x.pc = "hash"
  BY DEF PartInv, HashPrefix
<1>2. \A g \in Fetchers : g # f => fetch[g].pc = "idle"
  BY <1>1, OthersIdle
<1>3. CASE Failed(f, "local")
  BY <1>1, <1>3, FailedKeeps
<1>4. CASE ~Failed(f, "local")
  <2>1. Now(f, y) /\ part' = part
    BY <1>4 DEF HashPrefix
  <2> DEFINE h == IF x.from = 0 THEN <<>> ELSE Prefix(part, x.from)
  <2>2. x.from \in Nat /\ (x.from > 0 => part \in Seq(Pieces) /\ x.from = Len(part))
    BY <1>1 DEF Sound, Fetches, Contents
  <2>3. h = (IF x.from > 0 THEN part ELSE <<>>)
    BY <2>2, WholePrefix
  <2>4. h \in Seq(Pieces)
    BY <2>2, <2>3
  <2> HIDE DEF h
  <2>5. "open" \in Pcs
    BY DEF Pcs
  <2> DEFINE z == [x EXCEPT !.pc = "open", !.hashed = h]
  <2>6. z \in Fetches /\ z.pc = "open" /\ z.hashed = h /\ z.from = x.from /\ z.at = x.at
    BY <1>1, <2>4, <2>5 DEF Fetches
  <2>7. Sound(z, part)
    BY <1>1, <2>2, <2>3, <2>6 DEF Sound
  <2>8. y = z
    BY DEF h
  <2> HIDE DEF y, z
  <2> QED  BY <1>1, <1>2, <2>1, <2>6, <2>7, <2>8, NowMoves
<1> QED  BY <1>3, <1>4

LEMMA OpenKeeps ==
  ASSUME PartInv, NEW f \in Fetchers, Open(f)
  PROVE  PartInv'
<1> DEFINE x == fetch[f]
           y == [x EXCEPT !.pc = "stream", !.at = @ + x.from, !.file = "part"]
<1>1. x \in Fetches /\ Sound(x, part) /\ part \in Contents /\ x.pc = "open"
  BY DEF PartInv, Open
<1>2. \A g \in Fetchers : g # f => fetch[g].pc = "idle"
  BY <1>1, OthersIdle
<1>3. CASE Failed(f, "local")
  BY <1>1, <1>3, FailedKeeps
<1>4. CASE ~Failed(f, "local")
  <2>1. Now(f, y) /\ part' = IF x.from = 0 THEN <<>> ELSE Filled(part, x.from)
    BY <1>4 DEF Open
  <2>2. x.from \in Nat /\ (x.from > 0 => part \in Seq(Pieces) /\ x.from = Len(part))
    BY <1>1 DEF Sound, Fetches, Contents
  <2>3. part' = (IF x.from > 0 THEN part ELSE <<>>)
    BY <2>1, <2>2, WholePrefix
  <2>4. part' \in Seq(Pieces) /\ part' = x.hashed /\ Len(part') = x.from
    BY <1>1, <2>2, <2>3 DEF Sound
  <2>5. part' # Missing
    BY <2>4, MissingAssumption DEF Pieces
  <2>6. "stream" \in Pcs /\ x.at = 0 /\ x.at + x.from = x.from /\ x.at + x.from \in Nat
    BY <1>1, <2>2 DEF Pcs, Sound
  <2>7. /\ y \in Fetches /\ y.pc = "stream" /\ y.hashed = x.hashed
        /\ y.at = x.from /\ y.file = "part"
    BY <1>1, <2>6 DEF Fetches
  <2>8. Sound(y, part')
    BY <2>4, <2>5, <2>7 DEF Sound
  <2>9. part' \in Contents
    BY <2>4 DEF Contents
  <2> HIDE DEF y
  <2> QED  BY <1>1, <1>2, <2>1, <2>7, <2>8, <2>9, NowMoves
<1> QED  BY <1>3, <1>4

LEMMA ReceiveKeeps ==
  ASSUME PartInv, NEW f \in Fetchers, Receive(f)
  PROVE  PartInv' /\ dest' = dest
<1> DEFINE x == fetch[f]
<1>1. x \in Fetches /\ Sound(x, part) /\ part \in Contents /\ x.pc = "stream"
  BY DEF PartInv, Receive
<1>2. \A g \in Fetchers : g # f => fetch[g].pc = "idle"
  BY <1>1, OthersIdle
<1>3. /\ part \in Seq(Pieces) /\ x.file = "part" /\ x.hashed = part /\ x.at = Len(part)
  BY <1>1 DEF Sound, Contents
<1>4. PICK piece \in Pieces :
        /\ Now(f, [x EXCEPT !.at = @ + 1, !.hashed = Append(@, piece)])
        /\ part' = Written(part, f, piece)
        /\ dest' = dest
  BY <1>3 DEF Receive
<1> DEFINE y == [x EXCEPT !.at = @ + 1, !.hashed = Append(@, piece)]
<1>5. part' = Append(part, piece)
  BY <1>3, <1>4, WrittenAppends
<1>6. part' \in Seq(Pieces) /\ Len(part') = Len(part) + 1 /\ Len(part) \in Nat
  BY <1>3, <1>5, AppendProperties, LenProperties
<1>7. part' # Missing /\ part' \in Contents
  BY <1>6, MissingAssumption DEF Pieces, Contents
<1>8. x.at + 1 \in Nat /\ Append(x.hashed, piece) = part' /\ x.at + 1 = Len(part')
  BY <1>3, <1>5, <1>6
<1>9. /\ y \in Fetches /\ y.pc = "stream" /\ y.at = x.at + 1
      /\ y.hashed = Append(x.hashed, piece) /\ y.file = "part"
  BY <1>1, <1>3, <1>6, <1>8 DEF Fetches
<1>10. Sound(y, part')
  BY <1>7, <1>8, <1>9 DEF Sound
<1>11. Now(f, y)
  BY <1>4
<1> HIDE DEF y
<1> QED  BY <1>2, <1>4, <1>7, <1>9, <1>10, <1>11, NowMoves

\* The rename, too, takes a part that is what was hashed.
LEMMA EndKeeps ==
  ASSUME PartInv, NEW f \in Fetchers, End(f)
  PROVE  PartInv' /\ (dest' # dest => dest' = Good)
<1> DEFINE x == fetch[f]
<1>1. Sound(x, part) /\ x.pc = "stream"
  BY DEF PartInv, End
<1>2. CASE (Failed(f, "check") \/ Failed(f, "local")) /\ dest' = dest
  BY <1>1, <1>2, FailedKeeps
<1>3. CASE ~((Failed(f, "check") \/ Failed(f, "local")) /\ dest' = dest)
  <2>1. /\ x.hashed = Good /\ dest' = part /\ part' = Missing
        /\ fetch' = [g \in Fetchers |-> IF g = f THEN Idle("ok") ELSE Renamed(g)]
    BY <1>3 DEF End
  <2>2. dest' = Good
    BY <1>1, <2>1 DEF Sound
  <2>3. ASSUME NEW g \in Fetchers
        PROVE  Renamed(g) \in Fetches /\ Renamed(g).pc = fetch[g].pc
    BY DEF PartInv, Fetches, Renamed
  <2>4. Idle("ok") \in Fetches /\ Sound(Idle("ok"), part')
    BY IdleFits, IdleSound
  <2>5. fetch' \in [Fetchers -> Fetches] /\ fetch'[f] = Idle("ok")
    BY <2>1, <2>3, <2>4
  <2>6. \A g \in Fetchers : g # f => fetch'[g].pc = "idle"
    BY <1>1, <2>1, <2>3, OthersIdle
  <2>7. part' \in Contents
    BY <2>1 DEF Contents
  <2> QED  BY <2>2, <2>4, <2>5, <2>6, <2>7, OneMoves
<1> QED  BY <1>2, <1>3

LEMMA CancelKeeps ==
  ASSUME PartInv, NEW f \in Fetchers, Cancel(f) \/ Broken(f)
  PROVE  PartInv'
<1>1. CASE fetch[f].pc \in {"ask", "sent"} /\ Now(f, Idle("cancelled")) /\ part' = part
  <2>1. Idle("cancelled") \in Fetches /\ Sound(Idle("cancelled"), part)
    BY IdleFits, IdleSound
  <2>2. \A g \in Fetchers : g # f => fetch[g].pc = "idle"
    BY <1>1, OthersIdle
  <2> QED  BY <1>1, <2>1, <2>2, NowMoves DEF PartInv
<1>2. CASE fetch[f].pc = "stream" /\ \E error \in {"request", "disk", "local", "cancelled"} : Failed(f, error)
  BY <1>2, FailedKeeps
<1> QED  BY <1>1, <1>2 DEF Cancel, Broken

LEMMA StopKeeps ==
  ASSUME PartInv, Stop
  PROVE  PartInv'
<1>1. part' = part /\ fetch' = [f \in Fetchers |-> Idle("none")]
  BY DEF Stop
<1>2. Idle("none") \in Fetches /\ Idle("none").pc = "idle" /\ Sound(Idle("none"), part)
  BY IdleFits, IdleSound
<1> QED  BY <1>1, <1>2 DEF PartInv, Alone

LEMMA StartsSound == Init => PartInv
<1> SUFFICES ASSUME Init PROVE PartInv
  OBVIOUS
<1>1. Idle("none") \in Fetches /\ Idle("none").pc = "idle" /\ Sound(Idle("none"), part)
  BY IdleFits, IdleSound
<1>2. part \in Contents
  <2>1. PICK n \in 1..(Size + 1), p \in Pieces : part \in {Missing, [i \in 1..n |-> p]}
    BY DEF Init
  <2>2. n \in Nat /\ [i \in 1..n |-> p] \in Seq(Pieces)
    BY SizeAssumption
  <2> QED  BY <2>1, <2>2 DEF Contents
<1> QED  BY <1>1, <1>2 DEF Init, PartInv, Alone

LEMMA StepKeeps ==
  ASSUME PartInv, ~Together, [Next]_vars
  PROVE  PartInv' /\ (dest' # dest => dest' = Good)
<1>1. CASE UNCHANGED vars
  BY <1>1 DEF vars, PartInv, Alone
<1>2. CASE Stop
  BY <1>2, StopKeeps DEF Stop
<1>3. ASSUME NEW f \in Fetchers, Begin(f)
      PROVE  PartInv' /\ dest' = dest
  BY <1>3, BeginKeeps DEF Begin
<1>4. ASSUME NEW f \in Fetchers, Ask(f) \/ Response(f) \/ Unfit(f) \/ Refused(f)
      PROVE  PartInv' /\ dest' = dest
  BY <1>4, AskKeeps DEF Ask, Response, Unfit, Refused
<1>5. ASSUME NEW f \in Fetchers, HashPrefix(f) \/ Open(f)
      PROVE  PartInv' /\ dest' = dest
  BY <1>5, HashKeeps, OpenKeeps DEF HashPrefix, Open
<1>6. ASSUME NEW f \in Fetchers, Cancel(f) \/ Broken(f)
      PROVE  PartInv' /\ dest' = dest
  BY <1>6, CancelKeeps DEF Cancel, Broken
<1> QED  BY <1>1, <1>2, <1>3, <1>4, <1>5, <1>6, ReceiveKeeps, EndKeeps DEF Next, Steps

-----------------------------------------------------------------------------
(* The right file: when the batches that fetch a file come one at a time,  *)
(* what a fetch moves into place is the right file, whatever part it found *)
(* and whatever came (stream_to_file).  The part is what was hashed as     *)
(* long as nobody else writes it, which PartInv says step by step.         *)
THEOREM AlwaysRight ==
  ASSUME ~Together
  PROVE  Spec => PutsRight
<1>1. PartInv /\ [Next]_vars => PartInv'
  BY StepKeeps
<1>2. PartInv /\ [Next]_vars => [dest' # dest => dest' = Good]_vars
  BY StepKeeps
<1> QED  BY StartsSound, <1>1, <1>2, PTL DEF Spec, PutsRight

-----------------------------------------------------------------------------
\* Nothing a mirror did wrong is in the part.
Clean(p) == p # Missing => Len(p) <= Size /\ \A i \in 1..Len(p) : p[i] = "good"

Fits(x) ==
    /\ x.url \in 1..Urls /\ x.attempt \in 0..Retries
    /\ x.from \in 0..(Size - 1) /\ x.at \in 0..(Size + 1)

\* A part that is as long as the file is not gone on with, wrong or not.
Harmless(x, p) == Clean(p) \/ (x.pc # "stream" /\ p # Missing /\ Len(p) >= Size)

\* The failures n a fetch x must have seen, with the part p: one for each
\* mirror it has left, and one for this mirror once it has tried again and the
\* part is wrong again.
Owes(x, p, n) ==
    /\ x.pc = "idle" => x.url = 1 /\ x.attempt = 0
    /\ x.url <= n + 1
    /\ x.attempt > 0 /\ ~Harmless(x, p) => x.url <= n
    /\ x.result = "failed" => Urls <= n

Spent == \A f \in Fetchers : Fits(fetch[f]) /\ Owes(fetch[f], part, faults)

CostInv ==
    /\ dest \in Contents /\ faults \in 0..MaxFaults /\ calls \in 0..MaxCalls
    /\ Spent

Costs(x) == <<x.pc, x.result, x.url, x.attempt, x.from, x.at>>

-----------------------------------------------------------------------------
LEMMA IdleOwes ==
  ASSUME NEW result, NEW p, NEW n \in Nat, result = "failed" => Urls <= n
  PROVE  Fits(Idle(result)) /\ Owes(Idle(result), p, n)
<1>1. /\ Idle(result).pc = "idle" /\ Idle(result).result = result /\ Idle(result).url = 1
      /\ Idle(result).attempt = 0 /\ Idle(result).from = 0 /\ Idle(result).at = 0
  BY DEF Idle
<1> QED  BY <1>1, SizeAssumption DEF Fits, Owes

LEMMA OthersOwe ==
  ASSUME NEW x \in Fetches, NEW y, Costs(y) = Costs(x), x.pc = "idle", NEW p, NEW q,
         NEW n \in Nat, NEW m \in Nat, n <= m, Fits(x), Owes(x, p, n)
  PROVE  Fits(y) /\ Owes(y, q, m)
<1>1. /\ y.pc = x.pc /\ y.result = x.result /\ y.url = x.url
      /\ y.attempt = x.attempt /\ y.from = x.from /\ y.at = x.at
  BY DEF Costs
<1>2. Urls \in Nat
  BY SizeAssumption
<1> QED  BY <1>1, <1>2 DEF Fits, Owes, Fetches

LEMMA SpentMoves ==
  ASSUME PartInv, CostInv, faults' \in Nat, faults <= faults', NEW f \in Fetchers,
         \A g \in Fetchers : g # f => fetch[g].pc = "idle",
         NEW y, Fits(y), Owes(y, part', faults'), fetch'[f] = y,
         \A g \in Fetchers : g # f => Costs(fetch'[g]) = Costs(fetch[g])
  PROVE  Spent'
<1> SUFFICES ASSUME NEW g \in Fetchers
             PROVE  Fits(fetch'[g]) /\ Owes(fetch'[g], part', faults')
  BY DEF Spent
<1>1. CASE g = f
  BY <1>1
<1>2. CASE g # f
  <2>1. fetch[g] \in Fetches /\ Fits(fetch[g]) /\ Owes(fetch[g], part, faults) /\ faults \in Nat
    BY DEF PartInv, CostInv, Spent
  <2> QED  BY <1>2, <2>1, OthersOwe
<1> QED  BY <1>1, <1>2

LEMMA NowSpends ==
  ASSUME PartInv, CostInv, faults' \in Nat, faults <= faults', NEW f \in Fetchers,
         \A g \in Fetchers : g # f => fetch[g].pc = "idle",
         NEW y, Fits(y), Owes(y, part', faults'), Now(f, y)
  PROVE  Spent'
<1>1. fetch'[f] = y /\ \A g \in Fetchers : g # f => fetch'[g] = fetch[g]
  BY DEF Now, PartInv
<1> QED  BY <1>1, SpentMoves

LEMMA PartGoesSpends ==
  ASSUME PartInv, CostInv, faults' \in Nat, faults <= faults', NEW f \in Fetchers,
         fetch[f].pc # "idle", NEW y, Fits(y), Owes(y, part', faults'),
         fetch' = [g \in Fetchers |-> IF g = f THEN y ELSE Unlinked(g)]
  PROVE  Spent'
<1>1. \A g \in Fetchers : Costs(Unlinked(g)) = Costs(fetch[g])
  <2> SUFFICES ASSUME NEW g \in Fetchers  PROVE Costs(Unlinked(g)) = Costs(fetch[g])
    OBVIOUS
  <2>1. fetch[g] \in Fetches
    BY DEF PartInv
  <2> QED  BY <2>1 DEF Costs, Unlinked, Fetches
<1>2. fetch'[f] = y /\ \A g \in Fetchers : g # f => Costs(fetch'[g]) = Costs(fetch[g])
  BY <1>1
<1> QED  BY <1>2, OthersIdle, SpentMoves

\* The mirror failed (once more), or a stale part did, for the first time.
LEMMA AfterOwes ==
  ASSUME PartInv, CostInv, Retries > 0, NEW f \in Fetchers, NEW transient \in BOOLEAN,
         NEW p, NEW n \in Nat, faults <= n,
         \/ fetch[f].url <= n
         \/ fetch[f].attempt = 0 /\ transient /\ Harmless(Idle("none"), p)
  PROVE  Fits(After(f, transient)) /\ Owes(After(f, transient), p, n)
<1> DEFINE now == fetch[f]
           again == [Idle("none") EXCEPT !.pc = "ask", !.url = now.url, !.attempt = now.attempt + 1]
           mirror == [Idle("none") EXCEPT !.pc = "ask", !.url = now.url + 1]
<1>1. Fits(now) /\ Owes(now, part, faults) /\ faults \in Nat
  BY DEF CostInv, Spent
<1>2. Urls \in Nat /\ Retries \in Nat /\ now.url \in 1..Urls /\ now.attempt \in 0..Retries
      /\ now.url <= n + 1 /\ Size \in Nat \ {0}
  BY <1>1, SizeAssumption DEF Fits, Owes
<1>3. /\ again.pc = "ask" /\ again.result = "none" /\ again.url = now.url
      /\ again.attempt = now.attempt + 1 /\ again.from = 0 /\ again.at = 0
      /\ mirror.pc = "ask" /\ mirror.result = "none" /\ mirror.url = now.url + 1
      /\ mirror.attempt = 0 /\ mirror.from = 0 /\ mirror.at = 0
  BY DEF Idle
<1> HIDE DEF again, mirror
<1>4. CASE transient /\ now.attempt < Retries
  <2>1. After(f, transient) = again
    BY <1>4 DEF After, again
  <2>2. ~Harmless(again, p) => now.url <= n
    <3>1. Harmless(Idle("none"), p) => Harmless(again, p)
      BY <1>3 DEF Harmless
    <3> QED  BY <3>1
  <2>3. now.attempt < Retries
    BY <1>4
  <2>4. Fits(again)
    BY <1>2, <1>3, <2>3 DEF Fits
  <2>5. Owes(again, p, n)
    BY <1>2, <1>3, <2>2 DEF Owes
  <2> QED  BY <2>1, <2>4, <2>5
<1>5. CASE ~(transient /\ now.attempt < Retries)
  <2>1. now.url <= n
    BY <1>2, <1>5
  <2>2. CASE now.url < Urls
    <3>1. After(f, transient) = mirror
      BY <1>5, <2>2 DEF After, mirror
    <3> QED  BY <1>2, <1>3, <2>1, <2>2, <3>1 DEF Fits, Owes
  <2>3. CASE ~(now.url < Urls)
    <3>1. After(f, transient) = Idle("failed")
      BY <1>5, <2>3 DEF After
    <3> QED  BY <1>2, <2>1, <2>3, <3>1, IdleOwes
  <2> QED  BY <2>2, <2>3
<1> QED  BY <1>4, <1>5

LEMMA FailedSpends ==
  ASSUME PartInv, CostInv, Retries > 0, faults' \in Nat, faults <= faults',
         NEW f \in Fetchers, fetch[f].pc # "idle",
         NEW error, Failed(f, error),
         \/ error = "cancelled" \/ fetch[f].url <= faults'
         \/ /\ error = "check" /\ fetch[f].attempt = 0
            /\ part # Missing /\ Len(part) >= Size
  PROVE  Spent'
<1> DEFINE next == CASE error = "cancelled" -> Idle("cancelled")
                     [] error = "disk" -> Idle("full")
                     [] OTHER -> After(f, Transient(error))
<1>1. \/ Now(f, next) /\ part' = part
      \/ /\ part' = Missing
         /\ fetch' = [g \in Fetchers |-> IF g = f THEN next ELSE Unlinked(g)]
  BY DEF Failed
<1>2. Clean(Missing) /\ Transient("check") /\ Transient(error) \in BOOLEAN
  BY DEF Clean, Transient
<1>3. Fits(next) /\ Owes(next, part', faults')
  <2>1. CASE error = "cancelled" \/ error = "disk"
    BY <2>1, IdleOwes
  <2>2. CASE ~(error = "cancelled" \/ error = "disk")
    <3>1. \/ fetch[f].url <= faults'
          \/ fetch[f].attempt = 0 /\ Transient(error) /\ Harmless(Idle("none"), part')
      BY <1>1, <1>2, <2>2 DEF Harmless, Idle
    <3>2. Fits(After(f, Transient(error))) /\ Owes(After(f, Transient(error)), part', faults')
      BY <1>2, <3>1, AfterOwes
    <3> QED  BY <2>2, <3>2
  <2> QED  BY <2>1, <2>2
<1> HIDE DEF next
<1> QED  BY <1>1, <1>3, NowSpends, PartGoesSpends, OthersIdle

\* A wrong part is the work of this mirror, unless it is the first attempt on it.
LEMMA BusyFacts ==
  ASSUME PartInv, CostInv, NEW f \in Fetchers, fetch[f].pc # "idle"
  PROVE  /\ fetch[f] \in Fetches /\ Sound(fetch[f], part) /\ part \in Contents
         /\ Fits(fetch[f]) /\ Owes(fetch[f], part, faults)
         /\ faults \in Nat /\ Size \in Nat \ {0} /\ Urls \in Nat \ {0}
         /\ fetch[f].url <= faults + 1 /\ fetch[f].url \in Nat
         /\ \A g \in Fetchers : g # f => fetch[g].pc = "idle"
<1>1. fetch[f] \in Fetches /\ Sound(fetch[f], part) /\ part \in Contents
  BY DEF PartInv
<1>2. Fits(fetch[f]) /\ Owes(fetch[f], part, faults) /\ faults \in Nat
  BY DEF CostInv, Spent
<1>3. Size \in Nat \ {0} /\ Urls \in Nat \ {0}
  BY SizeAssumption
<1>4. fetch[f].url <= faults + 1
  BY <1>2 DEF Owes
<1>5. fetch[f].url \in Nat
  BY <1>1 DEF Fetches
<1> QED  BY <1>1, <1>2, <1>3, <1>4, <1>5, OthersIdle

LEMMA BeginSpends ==
  ASSUME PartInv, CostInv, ~Together, NEW f \in Fetchers, Begin(f)
  PROVE  CostInv'
<1> DEFINE asked == [Idle("none") EXCEPT !.pc = "ask"]
           y == IF Valid(dest) THEN Idle("skipped") ELSE asked
<1>1. /\ Now(f, y) /\ part' = part /\ dest' = dest /\ faults' = faults
      /\ calls < MaxCalls /\ calls' = calls + 1
      /\ \A g \in Fetchers : fetch[g].pc = "idle"
  BY DEF Begin
<1>2. faults \in Nat /\ calls' \in 0..MaxCalls
  BY <1>1, BoundAssumption DEF CostInv
<1>3. /\ asked.pc = "ask" /\ asked.result = "none" /\ asked.url = 1
      /\ asked.attempt = 0 /\ asked.from = 0 /\ asked.at = 0
  BY DEF Idle
<1> HIDE DEF asked
<1>4. Fits(asked) /\ Owes(asked, part, faults)
  BY <1>2, <1>3, SizeAssumption DEF Fits, Owes
<1>5. Fits(y) /\ Owes(y, part, faults)
  BY <1>2, <1>4, IdleOwes
<1> HIDE DEF y
<1>6. faults' \in Nat /\ faults <= faults' /\ Owes(y, part', faults')
  BY <1>1, <1>2, <1>5
<1>7. Spent'
  BY <1>1, <1>5, <1>6, NowSpends
<1> QED  BY <1>1, <1>2, <1>7 DEF CostInv

\* A fetch that goes on at its mirror owes no more, unless the part went wrong.
LEMMA GoesOn ==
  ASSUME NEW x \in Fetches, NEW y, NEW p, NEW q, NEW n \in Nat, NEW m \in Nat, n <= m,
         Fits(x), Owes(x, p, n), y.pc # "idle",
         y.url = x.url, y.attempt = x.attempt, y.result = x.result,
         y.from \in 0..(Size - 1), y.at \in 0..(Size + 1),
         (Harmless(x, p) => Harmless(y, q)) \/ x.url <= m
  PROVE  Fits(y) /\ Owes(y, q, m)
<1>1. Urls \in Nat /\ x.url \in Nat
  BY SizeAssumption DEF Fetches
<1>2. Fits(y)
  BY DEF Fits
<1>3. y.url <= m + 1 /\ (y.result = "failed" => Urls <= m)
  BY <1>1 DEF Owes
<1>4. ASSUME y.attempt > 0, ~Harmless(y, q)  PROVE y.url <= m
  <2>1. CASE Harmless(x, p) => Harmless(y, q)
    BY <1>1, <1>4, <2>1 DEF Owes
  <2>2. CASE x.url <= m
    BY <2>2
  <2> QED  BY <2>1, <2>2
<1> QED  BY <1>2, <1>3, <1>4 DEF Owes

LEMMA RequestSpends ==
  ASSUME PartInv, CostInv, NEW f \in Fetchers, Ask(f) \/ Response(f) \/ Unfit(f)
  PROVE  CostInv'
<1> DEFINE x == fetch[f]
<1>1. x.pc \in {"ask", "sent"} /\ UNCHANGED <<dest, faults, calls>>
  BY DEF Ask, Response, Unfit
<1>2. /\ x \in Fetches /\ part \in Contents /\ Fits(x) /\ Owes(x, part, faults)
      /\ faults \in Nat /\ Size \in Nat \ {0}
      /\ \A g \in Fetchers : g # f => fetch[g].pc = "idle"
  BY <1>1, BusyFacts
<1>3. x.from \in 0..(Size - 1) /\ x.at \in 0..(Size + 1) /\ 0 \in 0..(Size - 1)
  BY <1>2 DEF Fits
<1>4. Clean(Missing) /\ faults' \in Nat /\ faults <= faults'
  BY <1>1, <1>2 DEF Clean
<1> SUFFICES Spent'
  BY <1>1 DEF CostInv
<1>5. CASE Ask(f)
  <2> DEFINE y == [x EXCEPT !.pc = "sent", !.from = PartLen]
  <2>1. Now(f, y) /\ part' = part
    BY <1>5 DEF Ask
  <2>2. PartLen \in 0..(Size - 1)
    BY <1>2, LenProperties DEF PartLen, Here, Contents
  <2>3. /\ y.pc = "sent" /\ y.url = x.url /\ y.attempt = x.attempt /\ y.result = x.result
        /\ y.from \in 0..(Size - 1) /\ y.at = x.at
    BY <1>2, <2>2 DEF Fetches
  <2> HIDE DEF y
  <2>4. Fits(y) /\ Owes(y, part, faults)
    <3>1. Harmless(x, part) => Harmless(y, part)
      BY <1>2, <2>3 DEF Harmless
    <3> QED  BY <1>2, <1>3, <2>3, <3>1, GoesOn
  <2>5. Owes(y, part', faults')
    BY <1>1, <2>1, <2>4
  <2> QED  BY <1>2, <1>4, <2>1, <2>4, <2>5, NowSpends
<1>6. CASE Response(f)
  <2>1. PICK y : /\ y \in {[x EXCEPT !.pc = "hash"], [x EXCEPT !.pc = "hash", !.from = 0]}
                 /\ Now(f, y) /\ part' = part
    BY <1>6 DEF Response
  <2>2. /\ y.pc = "hash" /\ y.url = x.url /\ y.attempt = x.attempt /\ y.result = x.result
        /\ y.from \in 0..(Size - 1) /\ y.at = x.at
    BY <1>2, <1>3, <2>1 DEF Fetches
  <2>3. Fits(y) /\ Owes(y, part, faults)
    <3>1. Harmless(x, part) => Harmless(y, part)
      BY <1>1, <2>2 DEF Harmless
    <3> QED  BY <1>2, <1>3, <2>2, <3>1, GoesOn
  <2>4. Owes(y, part', faults')
    BY <1>1, <2>1, <2>3
  <2> QED  BY <1>2, <1>4, <2>1, <2>3, <2>4, NowSpends
<1>7. CASE Unfit(f)
  <2> DEFINE y == [x EXCEPT !.from = 0]
  <2>1. /\ x.pc = "sent"
        /\ \/ Now(f, y) /\ part' = part
           \/ /\ part' = Missing
              /\ fetch' = [g \in Fetchers |-> IF g = f THEN y ELSE Unlinked(g)]
    BY <1>7 DEF Unfit
  <2>2. /\ y.pc = "sent" /\ y.url = x.url /\ y.attempt = x.attempt /\ y.result = x.result
        /\ y.from \in 0..(Size - 1) /\ y.at = x.at
    BY <1>2, <1>3, <2>1 DEF Fetches
  <2> HIDE DEF y
  <2>3. Harmless(x, part) => Harmless(y, part')
    BY <1>4, <2>1, <2>2 DEF Harmless
  <2>4. Fits(y) /\ Owes(y, part', faults)
    <3>1. faults <= faults /\ x.url = y.url /\ y.pc # "idle" /\ y.at \in 0..(Size + 1)
      BY <1>2, <1>3, <2>2
    <3> HIDE DEF x
    <3> QED  BY <1>2, <2>2, <2>3, <3>1, GoesOn
  <2>5. Owes(y, part', faults')
    BY <1>1, <2>4
  <2> QED  BY <1>2, <1>4, <2>1, <2>4, <2>5, NowSpends, PartGoesSpends
<1> QED  BY <1>5, <1>6, <1>7

LEMMA FaultCosts ==
  ASSUME CostInv, Fault
  PROVE  faults' = faults + 1 /\ faults' \in 0..MaxFaults /\ faults' \in Nat /\ faults <= faults'
BY BoundAssumption DEF Fault, CostInv

LEMMA RefusedSpends ==
  ASSUME PartInv, CostInv, Retries > 0, NEW f \in Fetchers, Refused(f)
  PROVE  CostInv'
<1>1. fetch[f].pc # "idle" /\ Fault /\ UNCHANGED <<dest, part, calls>>
  BY DEF Refused
<1>2. fetch[f].url <= faults + 1 /\ \A g \in Fetchers : g # f => fetch[g].pc = "idle"
  BY <1>1, BusyFacts
<1>3. PICK transient \in BOOLEAN : Now(f, After(f, transient))
  BY DEF Refused
<1>4. Fits(After(f, transient)) /\ Owes(After(f, transient), part', faults')
  BY <1>1, <1>2, FaultCosts, AfterOwes
<1>5. Spent'
  BY <1>1, <1>2, <1>3, <1>4, FaultCosts, NowSpends
<1> QED  BY <1>1, <1>5, FaultCosts DEF CostInv

LEMMA HashSpends ==
  ASSUME PartInv, CostInv, NEW f \in Fetchers, HashPrefix(f) \/ Open(f)
  PROVE  CostInv'
<1> DEFINE x == fetch[f]
<1>1. x.pc \in {"hash", "open"} /\ UNCHANGED <<dest, faults, calls>>
  BY DEF HashPrefix, Open
<1>2. /\ x \in Fetches /\ Sound(x, part) /\ part \in Contents /\ Fits(x) /\ Owes(x, part, faults)
      /\ faults \in Nat /\ Size \in Nat \ {0}
      /\ \A g \in Fetchers : g # f => fetch[g].pc = "idle"
  BY <1>1, BusyFacts
<1>3. x.from \in 0..(Size - 1) /\ x.at \in 0..(Size + 1) /\ x.at = 0
      /\ x.from \in 0..(Size + 1) /\ x.at + x.from = x.from
  BY <1>1, <1>2 DEF Fits, Sound
<1>4. faults' \in Nat /\ faults <= faults' /\ ~(x.from > 0 /\ ~Here(part))
  BY <1>1, <1>2 DEF Here, Sound
<1> SUFFICES Spent'
  BY <1>1 DEF CostInv
<1>5. CASE HashPrefix(f)
  <2> DEFINE h == IF x.from = 0 THEN <<>> ELSE Prefix(part, x.from)
  <2> HIDE DEF h
  <2> DEFINE y == [x EXCEPT !.pc = "open", !.hashed = h]
  <2>1. Now(f, y) /\ part' = part
    <3>1. /\ part' = part
          /\ Now(f, [x EXCEPT !.pc = "open",
                        !.hashed = IF x.from = 0 THEN <<>> ELSE Prefix(part, x.from)])
      BY <1>4, <1>5 DEF HashPrefix
    <3> QED  BY <3>1 DEF h
  <2>2. /\ y.pc = "open" /\ y.url = x.url /\ y.attempt = x.attempt /\ y.result = x.result
        /\ y.from \in 0..(Size - 1) /\ y.at \in 0..(Size + 1)
    BY <1>2, <1>3 DEF Fetches
  <2> HIDE DEF y
  <2>3. Fits(y) /\ Owes(y, part, faults)
    <3>1. faults <= faults /\ (Harmless(x, part) => Harmless(y, part))
      BY <1>1, <1>2, <2>2 DEF Harmless
    <3> QED  BY <1>2, <2>2, <3>1, GoesOn
  <2>4. Owes(y, part', faults')
    BY <1>1, <2>1, <2>3
  <2> QED  BY <1>2, <1>4, <2>1, <2>3, <2>4, NowSpends
<1>6. CASE Open(f)
  <2> DEFINE y == [x EXCEPT !.pc = "stream", !.at = @ + x.from, !.file = "part"]
  <2>1. Now(f, y) /\ part' = IF x.from = 0 THEN <<>> ELSE Filled(part, x.from)
    BY <1>4, <1>6 DEF Open
  <2>2. /\ y.pc = "stream" /\ y.url = x.url /\ y.attempt = x.attempt /\ y.result = x.result
        /\ y.from \in 0..(Size - 1) /\ y.at \in 0..(Size + 1)
    BY <1>2, <1>3 DEF Fetches
  <2> HIDE DEF y
  <2>3. x.from > 0 => part' = part
    <3>1. x.from > 0 => part \in Seq(Pieces) /\ Len(part) = x.from
      BY <1>1, <1>2 DEF Sound, Contents
    <3> QED  BY <1>3, <2>1, <3>1, WholePrefix
  <2>4. x.from = 0 => Clean(part')
    BY <1>2, <2>1 DEF Clean
  <2>5. Harmless(x, part) => Harmless(y, part')
    <3>1. x.from > 0 => Len(part) = x.from /\ x.from < Size
      BY <1>1, <1>2, <1>3 DEF Sound
    <3>2. x.from > 0 /\ Harmless(x, part) => Clean(part')
      BY <1>2, <1>3, <2>3, <3>1 DEF Harmless
    <3> QED  BY <1>3, <2>4, <3>2 DEF Harmless
  <2>6. Fits(y) /\ Owes(y, part', faults)
    BY <1>2, <2>2, <2>5, GoesOn
  <2>7. Owes(y, part', faults')
    BY <1>1, <2>6
  <2> QED  BY <1>2, <1>4, <2>1, <2>6, <2>7, NowSpends
<1> QED  BY <1>5, <1>6

\* A good piece in its place leaves a clean part clean; another one is a failure.
LEMMA ReceiveSpends ==
  ASSUME PartInv, CostInv, NEW f \in Fetchers, Receive(f)
  PROVE  CostInv'
<1> DEFINE x == fetch[f]
<1>1. x.pc = "stream" /\ x.at <= Size /\ calls' = calls
  BY DEF Receive
<1>2. /\ x \in Fetches /\ Sound(x, part) /\ part \in Contents /\ Fits(x) /\ Owes(x, part, faults)
      /\ faults \in Nat /\ Size \in Nat \ {0} /\ x.url <= faults + 1 /\ x.url \in Nat
      /\ \A g \in Fetchers : g # f => fetch[g].pc = "idle"
  BY <1>1, BusyFacts
<1>3. part \in Seq(Pieces) /\ x.file = "part" /\ x.at = Len(part) /\ Missing # part
  BY <1>1, <1>2 DEF Sound, Contents
<1>4. PICK piece \in Pieces :
        /\ IF piece = "good" /\ x.at < Size THEN NoFault ELSE Fault
        /\ Now(f, [x EXCEPT !.at = @ + 1, !.hashed = Append(@, piece)])
        /\ part' = Written(part, f, piece)
        /\ dest' = dest
  BY <1>3 DEF Receive
<1>5. part' = Append(part, piece)
  BY <1>3, <1>4, WrittenAppends
<1> DEFINE y == [x EXCEPT !.at = @ + 1, !.hashed = Append(@, piece)]
<1>6. Now(f, y)
  BY <1>4
<1>7. x.at \in Nat /\ x.at + 1 \in 0..(Size + 1) /\ x.from \in 0..(Size - 1)
  BY <1>1, <1>2 DEF Fits
<1>8. /\ y.pc = "stream" /\ y.url = x.url /\ y.attempt = x.attempt /\ y.result = x.result
      /\ y.from \in 0..(Size - 1) /\ y.at \in 0..(Size + 1)
  BY <1>1, <1>2, <1>7 DEF Fetches
<1> HIDE DEF y
<1>9. faults' \in 0..MaxFaults /\ faults' \in Nat /\ faults <= faults'
  BY <1>2, <1>4, FaultCosts DEF NoFault, CostInv
<1>10. (Clean(part) => Clean(part')) \/ x.url <= faults'
  <2>1. CASE piece = "good" /\ x.at < Size
    <3>1. Len(part') = Len(part) + 1 /\ \A i \in 1..Len(part') :
             part'[i] = IF i = Len(part) + 1 THEN "good" ELSE part[i]
      BY <1>3, <1>5, <2>1, AppendProperties, LenProperties
    <3>2. Len(part) \in Nat /\ Len(part') <= Size
      BY <1>2, <1>3, <2>1, <3>1, <1>7
    <3>3. ASSUME Clean(part)  PROVE Clean(part')
      <4>1. \A i \in 1..Len(part) : part[i] = "good"
        BY <1>3, <3>3 DEF Clean
      <4>2. \A i \in 1..Len(part') : i = Len(part) + 1 \/ i \in 1..Len(part)
        BY <3>1, <3>2
      <4>3. \A i \in 1..Len(part') : part'[i] = "good"
        BY <3>1, <4>1, <4>2
      <4> QED  BY <3>2, <4>3 DEF Clean
    <3> QED  BY <3>3
  <2>2. CASE ~(piece = "good" /\ x.at < Size)
    BY <1>2, <1>4, <2>2, FaultCosts
  <2> QED  BY <2>1, <2>2
<1>11. Fits(y) /\ Owes(y, part', faults')
  <2>1. (Harmless(x, part) => Harmless(y, part')) \/ x.url <= faults'
    BY <1>1, <1>10 DEF Harmless
  <2> QED  BY <1>2, <1>8, <1>9, <2>1, GoesOn
<1>12. Spent'
  BY <1>2, <1>6, <1>9, <1>11, NowSpends
<1> QED  BY <1>1, <1>4, <1>9, <1>12 DEF CostInv

\* A wrong part: too long, or with a piece that is not the file's.
LEMMA WrongPart ==
  ASSUME NEW p \in Seq(Pieces), Size \in Nat, Len(p) > Size \/ (Len(p) = Size /\ p # Good)
  PROVE  ~Clean(p)
<1>1. p # Missing /\ Len(p) \in Nat
  BY MissingAssumption, LenProperties DEF Pieces
<1>2. CASE Len(p) > Size
  BY <1>1, <1>2 DEF Clean
<1>3. CASE Len(p) = Size /\ p # Good
  <2> SUFFICES ASSUME Clean(p)  PROVE FALSE
    OBVIOUS
  <2>1. \A i \in 1..Size : p[i] = "good"
    BY <1>1, <1>3 DEF Clean
  <2>2. p \in [1..Size -> Pieces]
    BY <1>3, LenProperties
  <2>3. p = Good
    BY <2>1, <2>2 DEF Good
  <2> QED  BY <1>3, <2>3
<1> QED  BY <1>2, <1>3

\* An end of the body without a failure: the part is whole, or it was wrong.
LEMMA EndSpends ==
  ASSUME PartInv, CostInv, Retries > 0, NEW f \in Fetchers, End(f)
  PROVE  CostInv'
<1> DEFINE x == fetch[f]
<1>1. x.pc = "stream" /\ calls' = calls /\ IF x.at >= Size THEN NoFault ELSE Fault
  BY DEF End
<1>2. /\ x \in Fetches /\ Sound(x, part) /\ part \in Contents /\ Fits(x) /\ Owes(x, part, faults)
      /\ faults \in Nat /\ Size \in Nat \ {0} /\ x.url <= faults + 1 /\ x.url \in Nat
  BY <1>1, BusyFacts
<1>3. part \in Seq(Pieces) /\ x.hashed = part /\ x.at = Len(part) /\ Here(part) /\ x.at \in Nat
  BY <1>1, <1>2, LenProperties DEF Sound, Contents, Here
<1>4. faults' \in 0..MaxFaults /\ faults' \in Nat /\ faults <= faults'
  BY <1>1, FaultCosts DEF NoFault, CostInv
<1>5. CASE x.at # Size \/ x.hashed # Good
  <2>1. Failed(f, "check") /\ dest' = dest
    BY <1>5 DEF End
  <2>2. x.url <= faults' \/ (x.attempt = 0 /\ part # Missing /\ Len(part) >= Size)
    <3>1. CASE x.at >= Size
      <4>1. ~Clean(part)
        BY <1>2, <1>3, <1>5, <3>1, WrongPart
      <4>2. ~Harmless(x, part)
        BY <1>1, <4>1 DEF Harmless
      <4>3. x.attempt \in Nat /\ faults' = faults
        BY <1>1, <1>2, <3>1 DEF Fetches, NoFault
      <4>4. part # Missing /\ Len(part) >= Size
        BY <1>3, <3>1 DEF Here
      <4> QED  BY <1>2, <4>2, <4>3, <4>4 DEF Owes
    <3>2. CASE ~(x.at >= Size)
      BY <1>1, <1>2, <3>2, FaultCosts
    <3> QED  BY <3>1, <3>2
  <2>3. Spent'
    BY <1>1, <1>4, <2>1, <2>2, FailedSpends
  <2> QED  BY <1>1, <1>4, <2>1, <2>3 DEF CostInv
<1>6. CASE ~(x.at # Size \/ x.hashed # Good)
  <2>1. /\ dest' = part
        /\ fetch' = [g \in Fetchers |-> IF g = f THEN Idle("ok") ELSE Renamed(g)]
    BY <1>3, <1>6 DEF End
  <2>2. \A g \in Fetchers : Costs(Renamed(g)) = Costs(fetch[g])
    <3> SUFFICES ASSUME NEW g \in Fetchers  PROVE Costs(Renamed(g)) = Costs(fetch[g])
      OBVIOUS
    <3>1. fetch[g] \in Fetches
      BY DEF PartInv
    <3> QED  BY <3>1 DEF Costs, Renamed, Fetches
  <2>3. fetch'[f] = Idle("ok") /\ \A g \in Fetchers : g # f => Costs(fetch'[g]) = Costs(fetch[g])
    BY <2>1, <2>2
  <2>4. Fits(Idle("ok")) /\ Owes(Idle("ok"), part', faults')
    BY <1>4, IdleOwes
  <2>5. \A g \in Fetchers : g # f => fetch[g].pc = "idle"
    BY <1>1, OthersIdle
  <2>6. Spent'
    BY <1>4, <2>3, <2>4, <2>5, SpentMoves
  <2>7. dest' \in Contents
    BY <1>2, <2>1
  <2> QED  BY <1>1, <1>4, <2>6, <2>7 DEF CostInv
<1> QED  BY <1>5, <1>6

LEMMA CancelSpends ==
  ASSUME PartInv, CostInv, Retries > 0, NEW f \in Fetchers, Cancel(f) \/ Broken(f)
  PROVE  CostInv'
<1>1. dest' = dest /\ calls' = calls
  BY DEF Cancel, Broken
<1>2. CASE Cancel(f)
  <2>1. faults' = faults /\ fetch[f].pc # "idle"
    BY <1>2 DEF Cancel
  <2>2. faults' \in Nat /\ faults <= faults' /\ \A g \in Fetchers : g # f => fetch[g].pc = "idle"
    BY <2>1, BusyFacts
  <2> SUFFICES Spent'
    BY <1>1, <2>1 DEF CostInv
  <2>3. CASE Now(f, Idle("cancelled"))
    <3>1. Fits(Idle("cancelled")) /\ Owes(Idle("cancelled"), part', faults')
      BY <2>2, IdleOwes
    <3> QED  BY <2>2, <2>3, <3>1, NowSpends
  <2>4. CASE Failed(f, "cancelled")
    BY <2>1, <2>2, <2>4, FailedSpends
  <2> QED  BY <1>2, <2>3, <2>4 DEF Cancel
<1>3. CASE Broken(f)
  <2>1. fetch[f].pc # "idle" /\ Fault
    BY <1>3 DEF Broken
  <2>2. fetch[f].url <= faults' /\ faults' \in Nat /\ faults <= faults' /\ faults' \in 0..MaxFaults
    BY <2>1, BusyFacts, FaultCosts
  <2>3. PICK error : error \in {"request", "disk", "local"} /\ Failed(f, error)
    BY <1>3 DEF Broken
  <2>4. Spent'
    BY <2>1, <2>2, <2>3, FailedSpends
  <2> QED  BY <1>1, <2>2, <2>4 DEF CostInv
<1> QED  BY <1>2, <1>3

LEMMA StopSpends ==
  ASSUME PartInv, CostInv, Stop
  PROVE  CostInv'
<1>1. /\ dest' = dest /\ calls' = calls /\ Fault
      /\ fetch' = [f \in Fetchers |-> Idle("none")]
  BY DEF Stop
<1>2. faults' \in 0..MaxFaults /\ faults' \in Nat
  BY <1>1, FaultCosts
<1>3. \A f \in Fetchers : Fits(Idle("none")) /\ Owes(Idle("none"), part', faults')
  BY <1>2, IdleOwes
<1> QED  BY <1>1, <1>2, <1>3 DEF CostInv, Spent

LEMMA StartsFree == Init => CostInv
<1> SUFFICES ASSUME Init  PROVE CostInv
  OBVIOUS
<1>1. faults = 0 /\ calls = 0 /\ fetch = [f \in Fetchers |-> Idle("none")]
  BY DEF Init
<1>2. faults \in Nat /\ faults \in 0..MaxFaults /\ calls \in 0..MaxCalls
  BY <1>1, BoundAssumption
<1>3. dest \in Contents
  <2>1. [i \in 1..Size |-> "bad"] \in Seq(Pieces) /\ Good \in Seq(Pieces)
    BY SizeAssumption DEF Good, Pieces
  <2> QED  BY <2>1 DEF Init, Contents
<1>4. \A f \in Fetchers : Fits(Idle("none")) /\ Owes(Idle("none"), part, faults)
  BY <1>2, IdleOwes
<1> QED  BY <1>1, <1>2, <1>3, <1>4 DEF CostInv, Spent

LEMMA StepSpends ==
  ASSUME PartInv, CostInv, ~Together, Retries > 0, [Next]_vars
  PROVE  CostInv'
<1>1. CASE UNCHANGED vars
  BY <1>1 DEF vars, CostInv, Spent
<1>2. CASE Stop
  BY <1>2, StopSpends
<1>3. ASSUME NEW f \in Fetchers, Begin(f) \/ Steps(f) \/ Cancel(f)
      PROVE  CostInv'
  BY <1>3, BeginSpends, RequestSpends, RefusedSpends, HashSpends, ReceiveSpends, EndSpends,
     CancelSpends DEF Steps
<1> QED  BY <1>1, <1>2, <1>3 DEF Next

LEMMA CostTells ==
  ASSUME PartInv, CostInv
  PROVE  EveryMirrorTried
<1> SUFFICES ASSUME NEW f \in Fetchers
             PROVE  /\ fetch[f].pc \in Pcs
                    /\ fetch[f].result \in {"none", "ok", "skipped", "failed", "full", "cancelled"}
                    /\ Fits(fetch[f]) /\ fetch[f].hashed \in Seq(Pieces)
                    /\ fetch[f].file \in {"none", "part", "dest", "orphan"}
                    /\ fetch[f].result = "failed" => faults >= Urls
  BY DEF EveryMirrorTried, TypeOK, PartInv, CostInv, Contents, Fits, Pcs
<1>1. fetch[f] \in Fetches /\ Fits(fetch[f]) /\ Owes(fetch[f], part, faults)
  BY DEF PartInv, CostInv, Spent
<1>2. faults \in Nat /\ Urls \in Nat
  BY SizeAssumption DEF CostInv
<1> QED  BY <1>1, <1>2 DEF Fetches, Owes

(* No mirror is given up unheard: when the batches that fetch a file come  *)
(* one at a time and a failed attempt is tried again (Http::retries is 3,  *)
(* client.rs), a fetch gives up only after a failure at each of the file's *)
(* sources; the first check a stale part fails is not one of them          *)
(* (fetch_one).  Each mirror left behind was paid by a failure of its own, *)
(* and so was a part that is wrong again, which CostInv says step by step. *)
THEOREM TriesEveryMirror ==
  ASSUME ~Together, Retries > 0
  PROVE  Spec => []EveryMirrorTried
<1>1. Init => PartInv /\ CostInv
  BY StartsSound, StartsFree
<1>2. PartInv /\ CostInv /\ [Next]_vars => PartInv' /\ CostInv'
  BY StepKeeps, StepSpends
<1>3. PartInv /\ CostInv => EveryMirrorTried
  BY CostTells
<1> QED  BY <1>1, <1>2, <1>3, PTL DEF Spec
=============================================================================
