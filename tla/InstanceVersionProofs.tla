----------------------- MODULE InstanceVersionProofs -----------------------
(***************************************************************************)
(* Proofs about InstanceVersion, for any launches, switches, pages, saves  *)
(* and bounds: the folders never move under a game, and a game directory   *)
(* without an unfinished switch holds one version's folders.               *)
(***************************************************************************)
EXTENDS InstanceVersion, TLAPS

Owners == Launchers \cup Switchers \cup {Startup}

Queue(mutex) ==
    /\ mutex \in Seq(Tasks)
    /\ \A i, j \in DOMAIN mutex : mutex[i] = mutex[j] => i = j

LEMMA QueueTypes ==
  ASSUME NEW mutex, Queue(mutex)
  PROVE  /\ DOMAIN mutex = 1..Len(mutex) /\ Len(mutex) \in Nat
         /\ \A i \in 1..Len(mutex) : mutex[i] \in Tasks
BY DEF Queue

\* One command holds a mutex, and it is among those that stand before it.
LEMMA HoldsOne ==
  ASSUME NEW mutex, Queue(mutex), NEW t, Holds(t, mutex)
  PROVE  In(t, mutex) /\ \A u : Holds(u, mutex) => u = t
<1>1. Len(mutex) > 0 /\ Head(mutex) = mutex[1] /\ 1 \in DOMAIN mutex
  BY DEF Queue, Holds
<1> QED  BY <1>1 DEF Holds, In

LEMMA Joins ==
  ASSUME NEW mutex, Queue(mutex), NEW t \in Tasks, ~In(t, mutex)
  PROVE  /\ Queue(Append(mutex, t)) /\ In(t, Append(mutex, t))
         /\ \A u : u # t => (In(u, Append(mutex, t)) <=> In(u, mutex))
         /\ \A u : Holds(u, mutex) => Holds(u, Append(mutex, t))
<1> DEFINE more == Append(mutex, t)
<1>1. /\ more \in Seq(Tasks) /\ Len(more) = Len(mutex) + 1 /\ more[Len(mutex) + 1] = t
      /\ \A i \in 1..Len(mutex) : more[i] = mutex[i]
      /\ DOMAIN more = 1..Len(mutex) + 1
  BY DEF Queue
<1>2. DOMAIN mutex = 1..Len(mutex) /\ Len(mutex) \in Nat
  BY QueueTypes
<1>3. \A i, j \in DOMAIN more : more[i] = more[j] => i = j
  <2>1. \A i \in 1..Len(mutex) : more[i] # t
    BY <1>1, <1>2 DEF In
  <2> HIDE DEF more
  <2>2. \A i \in DOMAIN more : i \in 1..Len(mutex) \/ i = Len(mutex) + 1
    BY <1>1, <1>2
  <2> QED  BY <1>1, <1>2, <2>1, <2>2 DEF Queue
<1>4. \A u : Holds(u, mutex) => Holds(u, more)
  <2>1. mutex # <<>> => Len(mutex) > 0 /\ Head(mutex) = mutex[1]
    BY DEF Queue
  <2>2. more # <<>> /\ Head(more) = more[1]
    BY <1>1, <1>2
  <2> QED  BY <1>1, <2>1, <2>2 DEF Holds
<1> HIDE DEF more
<1>5. \A u : u # t => (In(u, more) <=> In(u, mutex))
  BY <1>1, <1>2 DEF In
<1>6. In(t, more)
  BY <1>1, <1>2 DEF In
<1> QED  BY <1>1, <1>3, <1>4, <1>5, <1>6 DEF more, Queue

LEMMA Leaves ==
  ASSUME NEW mutex, Queue(mutex), NEW t
  PROVE  /\ Queue(Without(t, mutex)) /\ ~In(t, Without(t, mutex))
         /\ \A u : u # t => (In(u, Without(t, mutex)) <=> In(u, mutex))
         /\ \A u : u # t /\ Holds(u, mutex) => Holds(u, Without(t, mutex))
<1>1. CASE ~In(t, mutex)
  BY <1>1 DEF Without
<1>2. CASE In(t, mutex)
  <2>1. PICK n \in Nat : n = Len(mutex)
    BY QueueTypes
  <2>2. DOMAIN mutex = 1..n /\ \A i \in 1..n : mutex[i] \in Tasks
    BY <2>1, QueueTypes
  <2>3. PICK i \in 1..n : i = CHOOSE x \in DOMAIN mutex : mutex[x] = t
    BY <1>2, <2>2 DEF In
  <2>4. mutex[i] = t /\ \A j \in 1..n : mutex[j] = t => j = i
    BY <1>2, <2>2, <2>3 DEF In, Queue
  <2>5. PICK less : less = [j \in 1..n - 1 |-> mutex[IF j < i THEN j ELSE j + 1]]
    OBVIOUS
  <2>6. Without(t, mutex) = less
    BY <1>2, <2>1, <2>3, <2>5 DEF Without
  <2>7. /\ n - 1 \in Nat /\ DOMAIN less = 1..n - 1
        /\ \A j \in 1..n - 1 : less[j] = IF j < i THEN mutex[j] ELSE mutex[j + 1]
        /\ \A j \in 1..n - 1 : j \in 1..n /\ j + 1 \in 1..n
    BY <2>1, <2>3, <2>5
  <2>8. less \in Seq(Tasks) /\ Len(less) = n - 1
    <3>1. less \in [1..n - 1 -> Tasks]
      BY <2>2, <2>5, <2>7
    <3> QED  BY <2>7, <3>1
  <2>9. \A j, k \in DOMAIN less : less[j] = less[k] => j = k
    <3>1. SUFFICES ASSUME NEW j \in 1..n - 1, NEW k \in 1..n - 1, less[j] = less[k]
                   PROVE  j = k
      BY <2>7
    <3>2. PICK jj \in 1..n : jj = IF j < i THEN j ELSE j + 1
      BY <2>7
    <3>3. PICK kk \in 1..n : kk = IF k < i THEN k ELSE k + 1
      BY <2>7
    <3>4. mutex[jj] = mutex[kk]
      BY <2>7, <3>1, <3>2, <3>3
    <3>5. jj = kk
      BY <2>2, <3>4 DEF Queue
    <3> QED  BY <3>2, <3>3, <3>5
  <2>10. \A j \in 1..n - 1 : less[j] # t
    BY <2>4, <2>7
  <2>11. ASSUME NEW u, u # t  PROVE In(u, less) <=> In(u, mutex)
    <3>1. ASSUME NEW j \in 1..n - 1, less[j] = u  PROVE In(u, mutex)
      BY <2>2, <2>7, <3>1 DEF In
    <3>2. ASSUME NEW j \in 1..n, mutex[j] = u  PROVE \E k \in 1..n - 1 : less[k] = u
      <4>1. CASE j < i
        BY <2>3, <2>7, <3>2, <4>1
      <4>2. CASE j > i
        <5>1. j - 1 \in 1..n - 1 /\ ~(j - 1 < i) /\ (j - 1) + 1 = j
          BY <2>3, <4>2
        <5> QED  BY <2>7, <3>2, <5>1
      <4> QED  BY <2>4, <2>11, <3>2, <4>1, <4>2
    <3> QED  BY <2>2, <2>7, <3>1, <3>2 DEF In
  <2>12. ASSUME NEW u, u # t, Holds(u, mutex)  PROVE Holds(u, less)
    <3>1. mutex # <<>> /\ Head(mutex) = mutex[1] /\ mutex[1] = u /\ n > 0
      BY <2>1, <2>12 DEF Holds, Queue
    <3>2. i # 1 /\ n > 1
      BY <2>1, <2>3, <2>4, <2>12, <3>1
    <3>3. 1 \in 1..n - 1 /\ less[1] = u
      <4>1. 1 \in 1..n - 1 /\ 1 < i
        BY <2>1, <2>3, <3>2
      <4>2. less[1] = mutex[1]
        BY <2>7, <4>1
      <4> QED  BY <3>1, <4>1, <4>2
    <3>4. less # <<>> /\ Head(less) = less[1]
      BY <2>8, <3>2
    <3> QED  BY <3>3, <3>4 DEF Holds
  <2>13. Queue(less) /\ ~In(t, less)
    BY <2>7, <2>8, <2>9, <2>10 DEF Queue, In
  <2> QED  BY <2>6, <2>11, <2>12, <2>13
<1> QED  BY <1>1, <1>2

-----------------------------------------------------------------------------
(* Where a command may be, and what it has there.                          *)
After(t) == CASE t \in Launchers -> {"ready"}
              [] t \in Switchers -> {"choose", "sync"}
              [] t = Startup -> {"recovered"}
              [] OTHER -> {"idle"}

RoleFits(t) ==
    /\ at[t] \in {"ready", "playing"} => t \in Launchers
    /\ at[t] \in {"choose", "enter", "sync"} => t \in Switchers
    /\ at[t] = "recovered" => t = Startup
    /\ at[t] = "waiting" => t \in Owners
    /\ at[t] \in {"check", "await", "moving", "finish", "finished"} => ret[t] \in After(t)

TurnFits(t) ==
    /\ In(t, lock) <=> t \in Owners /\ at[t] \notin {"idle", "playing"}
    /\ In(t, switching) <=> at[t] \in {"await", "enter", "moving", "finish", "finished"}
    /\ t \in Owners /\ at[t] \notin {"idle", "waiting", "playing"} => Holds(t, lock)
    /\ at[t] \in {"moving", "finish", "finished"} => Holds(t, switching)

JobFits(t) ==
    /\ at[t] \in {"moving", "finish"} => journal \in Journal /\ job[t] = journal
    /\ at[t] = "finish" => journal.step = "finalize"
    /\ at[t] = "finished" => journal = NoJournal
    /\ at[t] = "enter" => job[t] \in Journal /\ job[t].step = "park"

CopyFits(t) ==
    /\ /\ at[t] \notin {"idle", "waiting", "recovered", "playing"}
       /\ t # Startup \/ at[t] \notin {"check", "await"}
       => copy[t] \in Record
    /\ t \in Launchers /\ at[t] = "waiting" => copy[t] \in Record

Fits(t) == RoleFits(t) /\ TurnFits(t) /\ JobFits(t) /\ CopyFits(t)

DiskFits ==
    /\ record \in Record /\ journal \in Journal \cup {NoJournal}
    /\ folders \in Versions \cup {Between}
    /\ journal = NoJournal => folders # Between
    /\ journal # NoJournal /\ journal.step = "finalize" => folders = journal.to

(* No switch is unfinished once a launch that is not beside a game is      *)
(* ready, and none is chosen while a game runs.                            *)
GameFits ==
    /\ \A l \in Launchers : at[l] \in {"ready", "playing"} /\ ~beside[l] => journal = NoJournal
    /\ \A s \in Switchers : at[s] \notin {"idle", "waiting"} => ~Playing

Uses == [switches : 0..MaxSwitches, errors : 0..MaxInterrupts, crashes : 0..MaxInterrupts]

TypeFits ==
    /\ Queue(lock) /\ Queue(switching)
    /\ at \in [Tasks -> Labels] /\ ret \in [Tasks -> Labels]
    /\ copy \in [Tasks -> Record \cup {NoCopy}]
    /\ beside \in [Launchers -> BOOLEAN]
    /\ job \in [Tasks -> Journal \cup {NoJournal}]
    /\ used \in Uses

SwitchInv == TypeFits /\ DiskFits /\ GameFits /\ \A t \in Tasks : Fits(t)

-----------------------------------------------------------------------------
\* One command moves; the others stand where they were.
OnlyMoves(t) ==
    \A u \in Tasks \ {t} : /\ at'[u] = at[u] /\ ret'[u] = ret[u]
                           /\ job'[u] = job[u] /\ copy'[u] = copy[u]
                           /\ u \in Launchers => beside'[u] = beside[u]
TurnsKept(t) ==
    \A u \in Tasks \ {t} : /\ In(u, lock') <=> In(u, lock)
                           /\ Holds(u, lock) => Holds(u, lock')
                           /\ In(u, switching') <=> In(u, switching)
                           /\ Holds(u, switching) => Holds(u, switching')

LEMMA OthersFit ==
  ASSUME SwitchInv, NEW t \in Tasks, OnlyMoves(t), TurnsKept(t),
         journal' = journal \/ Holds(t, switching), NEW u \in Tasks \ {t}
  PROVE  Fits(u)'
<1>1. /\ at'[u] = at[u] /\ ret'[u] = ret[u] /\ job'[u] = job[u] /\ copy'[u] = copy[u]
      /\ Fits(u)
  BY DEF OnlyMoves, SwitchInv
<1>2. journal' = journal \/ at[u] \notin {"moving", "finish", "finished"}
  BY <1>1, HoldsOne DEF SwitchInv, TypeFits, Fits, TurnFits
<1>3. RoleFits(u)' /\ CopyFits(u)'
  BY <1>1 DEF Fits, RoleFits, CopyFits
<1>4. JobFits(u)'
  BY <1>1, <1>2 DEF Fits, JobFits
<1>5. TurnFits(u)'
  BY <1>1 DEF Fits, TurnFits, TurnsKept
<1> QED  BY <1>3, <1>4, <1>5 DEF Fits

LEMMA GamesFit ==
  ASSUME SwitchInv, NEW t \in Tasks, OnlyMoves(t),
         journal' \in {journal, NoJournal} \/ journal # NoJournal,
         t \in Launchers /\ at'[t] \in {"ready", "playing"} => beside'[t] \/ journal' = NoJournal,
         t \in Launchers /\ at'[t] = "playing" => at[t] \in {"ready", "playing"},
         t \in Switchers /\ at'[t] \notin {"idle", "waiting"} =>
            at[t] \notin {"idle", "waiting"} \/ ~Playing
  PROVE  GameFits'
<1>1. ASSUME NEW l \in Launchers, at'[l] \in {"ready", "playing"}, ~beside'[l]
      PROVE  journal' = NoJournal
  BY <1>1 DEF OnlyMoves, SwitchInv, GameFits, Tasks
<1>2. ASSUME NEW s \in Switchers, at'[s] \notin {"idle", "waiting"},
             NEW l \in Launchers, at'[l] = "playing"
      PROVE  FALSE
  <2>1. s # l /\ s \in Tasks /\ l \in Tasks /\ s \in Owners /\ l \in Owners
    BY RolesAssumption DEF Tasks, Owners
  <2>2. at[s] \notin {"idle", "waiting"} \/ ~Playing
    BY <1>2, <2>1 DEF OnlyMoves
  <2>3. at[l] \in {"ready", "playing"}
    BY <1>2, <2>1 DEF OnlyMoves
  <2>4. at[l] # "playing"
    BY <1>2, <2>1, <2>2 DEF SwitchInv, GameFits, Playing
  <2>5. at[l] = "ready" /\ l = t
    BY <1>2, <2>1, <2>3, <2>4 DEF OnlyMoves
  <2>6. at[s] \notin {"idle", "waiting"} /\ at[s] # "playing"
    BY <1>2, <2>1, <2>5, RolesAssumption DEF OnlyMoves, SwitchInv, Fits, RoleFits
  <2> QED  BY <2>1, <2>5, <2>6, HoldsOne DEF SwitchInv, TypeFits, Fits, TurnFits
<1> QED  BY <1>1, <1>2 DEF GameFits, Playing

LEMMA StepFits ==
  ASSUME SwitchInv, NEW t \in Tasks, OnlyMoves(t), TurnsKept(t),
         journal' = journal \/ Holds(t, switching),
         TypeFits', DiskFits', GameFits', Fits(t)'
  PROVE  SwitchInv'
BY OthersFit DEF SwitchInv

\* A command's locks: as they were, one more asked for, or given back.
LEMMA TurnsStand ==
  ASSUME UNCHANGED <<lock, switching>>, NEW t
  PROVE  TurnsKept(t)
BY DEF TurnsKept

LEMMA EndFits ==
  ASSUME SwitchInv, NEW t \in Tasks, End(t), UNCHANGED <<folders, journal>>,
         record' \in Record, used' \in Uses
  PROVE  SwitchInv'
<1>1. /\ at' = [at EXCEPT ![t] = "idle"] /\ ret' = [ret EXCEPT ![t] = "idle"]
      /\ copy' = [copy EXCEPT ![t] = NoCopy] /\ job' = [job EXCEPT ![t] = NoJournal]
      /\ beside' = [l \in Launchers |-> beside[l] /\ l # t]
      /\ lock' = Without(t, lock) /\ switching' = Without(t, switching)
  BY DEF End, Goto
<1>2. Queue(lock) /\ Queue(switching)
  BY DEF SwitchInv, TypeFits
<1>3. /\ Queue(lock') /\ Queue(switching') /\ TurnsKept(t)
      /\ ~In(t, lock') /\ ~In(t, switching')
  BY <1>1, <1>2, Leaves DEF TurnsKept
<1>4. TypeFits'
  BY <1>1, <1>3 DEF SwitchInv, TypeFits, Labels
<1>5. OnlyMoves(t) /\ at'[t] = "idle"
  BY <1>1 DEF OnlyMoves, SwitchInv, TypeFits
<1>6. Fits(t)'
  BY <1>3, <1>5 DEF Fits, RoleFits, TurnFits, JobFits, CopyFits
<1>7. DiskFits'
  BY DEF SwitchInv, DiskFits
<1>8. GameFits'
  BY <1>5, GamesFit
<1> QED  BY <1>3, <1>4, <1>5, <1>6, <1>7, <1>8, StepFits

LEMMA DiskStays ==
  ASSUME SwitchInv, UNCHANGED diskVars
  PROVE  DiskFits'
BY DEF SwitchInv, DiskFits, diskVars

LEMMA UsesCount ==
  ASSUME used \in Uses, NEW what \in {"switches", "errors", "crashes"}, Count(what),
         what = "switches" => used.switches < MaxSwitches,
         what # "switches" => used.errors + used.crashes < MaxInterrupts
  PROVE  used' \in Uses
<1>1. {MaxSwitches, MaxInterrupts} \subseteq Nat
  BY NamesAssumption
<1>2. used' = [used EXCEPT ![what] = used[what] + 1]
  BY DEF Count
<1>3. CASE what = "switches"
  BY <1>1, <1>2, <1>3 DEF Uses
<1>4. CASE what = "errors"
  BY <1>1, <1>2, <1>4 DEF Uses
<1>5. CASE what = "crashes"
  BY <1>1, <1>2, <1>5 DEF Uses
<1> QED  BY <1>3, <1>4, <1>5

-----------------------------------------------------------------------------
(* ensure_switch_finished and the steps of a switch.                       *)
LEMMA DoneFits ==
  ASSUME SwitchInv, NEW t \in Tasks, Done(t), at[t] \in {"check", "finished"},
         journal = NoJournal, UNCHANGED <<diskVars, used>>
  PROVE  SwitchInv'
<1>1. ret[t] \in After(t)
  BY DEF SwitchInv, Fits, RoleFits
<1>2. CASE ret[t] = "idle"
  BY <1>2, EndFits DEF Done, diskVars, SwitchInv, TypeFits, DiskFits
<1>3. CASE ret[t] # "idle"
  <2>1. /\ at' = [at EXCEPT ![t] = ret[t]] /\ switching' = Without(t, switching)
        /\ job' = [job EXCEPT ![t] = NoJournal]
        /\ UNCHANGED <<lock, copy, beside, ret, diskVars, used>>
    BY <1>3 DEF Done, Goto
  <2>2. Queue(switching') /\ ~In(t, switching') /\ TurnsKept(t)
    BY <2>1, Leaves DEF SwitchInv, TypeFits, TurnsKept
  <2>3. TypeFits'
    BY <2>1, <2>2 DEF SwitchInv, TypeFits
  <2>4. OnlyMoves(t) /\ at'[t] = ret[t]
    BY <2>1 DEF OnlyMoves, SwitchInv, TypeFits
  <2>5. /\ t \in Owners /\ at'[t] \in {"ready", "choose", "sync", "recovered"}
        /\ at'[t] = "ready" => t \in Launchers
        /\ at'[t] \in {"choose", "sync"} => t \in Switchers
        /\ at'[t] = "recovered" => t = Startup
    BY <1>1, <1>3, <2>4 DEF After, Owners
  <2>6. Fits(t) /\ journal' = journal /\ copy' = copy /\ lock' = lock
    BY <2>1 DEF SwitchInv, diskVars
  <2>7. RoleFits(t)' /\ TurnFits(t)' /\ JobFits(t)'
    BY <2>2, <2>5, <2>6 DEF Fits, RoleFits, TurnFits, JobFits
  <2>8. CopyFits(t)'
    <3>1. t = Startup => at'[t] = "recovered"
      BY <2>5, RolesAssumption
    <3> QED  BY <2>5, <2>6, <3>1 DEF Fits, CopyFits
  <2>9. GameFits'
    BY <2>4, <2>5, <2>6, GamesFit
  <2> QED  BY <2>1, <2>2, <2>3, <2>4, <2>6, <2>7, <2>8, <2>9, DiskStays, StepFits DEF Fits
<1> QED  BY <1>2, <1>3

LEMMA CheckPendingFits ==
  ASSUME SwitchInv, NEW t \in Tasks, CheckPending(t)
  PROVE  SwitchInv'
<1>1. at[t] = "check" /\ UNCHANGED <<diskVars, used>> /\ Fits(t)
  BY DEF CheckPending, SwitchInv
<1>2. CASE journal = NoJournal
  BY <1>1, <1>2, DoneFits DEF CheckPending
<1>3. CASE journal # NoJournal
  <2>1. /\ at' = [at EXCEPT ![t] = "await"] /\ switching' = Append(switching, t)
        /\ UNCHANGED <<lock, copy, beside, job, ret, diskVars, used>>
    BY <1>1, <1>3 DEF CheckPending, Goto
  <2>2. ~In(t, switching)
    BY <1>1 DEF Fits, TurnFits
  <2>3. Queue(switching') /\ In(t, switching') /\ TurnsKept(t)
    BY <2>1, <2>2, Joins DEF SwitchInv, TypeFits, TurnsKept
  <2>4. TypeFits'
    BY <2>1, <2>3 DEF SwitchInv, TypeFits, Labels
  <2>5. OnlyMoves(t) /\ at'[t] = "await"
    BY <2>1 DEF OnlyMoves, SwitchInv, TypeFits
  <2>6. Fits(t)'
    BY <1>1, <2>1, <2>3, <2>5 DEF Fits, RoleFits, TurnFits, JobFits, CopyFits
  <2>7. GameFits'
    BY <1>1, <2>1, <2>5, GamesFit DEF diskVars
  <2> QED  BY <1>1, <2>3, <2>4, <2>5, <2>6, <2>7, DiskStays, StepFits DEF diskVars
<1> QED  BY <1>2, <1>3

LEMMA EnterResumeFits ==
  ASSUME SwitchInv, NEW t \in Tasks, EnterResume(t)
  PROVE  SwitchInv'
<1> DEFINE label == IF journal = NoJournal THEN "finished" ELSE "moving"
<1>1. /\ at[t] = "await" /\ Holds(t, switching) /\ Fits(t)
      /\ copy' = [copy EXCEPT ![t] = record] /\ job' = [job EXCEPT ![t] = journal]
      /\ at' = [at EXCEPT ![t] = label]
      /\ UNCHANGED <<diskVars, lock, switching, beside, ret, used>>
  BY DEF EnterResume, SwitchInv, Read, Goto
<1>2. record \in Record /\ journal \in Journal \cup {NoJournal}
  BY DEF SwitchInv, DiskFits
<1>3. TypeFits'
  BY <1>1, <1>2 DEF SwitchInv, TypeFits, Labels
<1>4. /\ OnlyMoves(t) /\ at'[t] \in {"moving", "finished"}
      /\ copy'[t] = record /\ job'[t] = journal
      /\ at'[t] = "finished" <=> journal = NoJournal
  BY <1>1 DEF OnlyMoves, SwitchInv, TypeFits
<1>5. RoleFits(t)' /\ TurnFits(t)' /\ CopyFits(t)'
  BY <1>1, <1>2, <1>4 DEF Fits, RoleFits, TurnFits, CopyFits
<1>6. JobFits(t)'
  BY <1>1, <1>2, <1>4 DEF JobFits, diskVars
<1>7. GameFits'
  BY <1>1, <1>4, GamesFit DEF diskVars
<1> QED  BY <1>1, <1>3, <1>4, <1>5, <1>6, <1>7, TurnsStand, DiskStays, StepFits DEF diskVars, Fits

\* Who moves folders has the unfinished switch in hand.
LEMMA MovingFits ==
  ASSUME SwitchInv, NEW t \in Tasks, at[t] \in {"moving", "finish"}
  PROVE  /\ Holds(t, switching) /\ journal \in Journal /\ job[t] = journal
         /\ journal # NoJournal /\ copy[t] \in Record /\ Fits(t)
BY NamesAssumption DEF SwitchInv, Fits, TurnFits, JobFits, CopyFits

LEMMA SaveStepFits ==
  ASSUME SwitchInv, NEW t \in Tasks, at[t] = "moving", NEW step \in {"restore", "finalize"},
         SaveStep(t, step), folders' \in Versions \cup {Between},
         step = "finalize" => folders' = journal.to,
         UNCHANGED <<record, lock, switching, at, copy, beside, ret, used>>
  PROVE  SwitchInv'
<1>1. PICK j \in Journal : j = [journal EXCEPT !.step = step]
  BY MovingFits DEF Journal
<1>2. j.to = journal.to /\ j.step = step /\ j # NoJournal
  BY <1>1, MovingFits, NamesAssumption DEF Journal
<1>3. journal' = j /\ job' = [job EXCEPT ![t] = j]
  <2>1. job[t] = journal
    BY MovingFits
  <2> QED  BY <1>1, <2>1 DEF SaveStep, SwitchInv, TypeFits
<1>4. TypeFits'
  BY <1>3 DEF SwitchInv, TypeFits
<1>5. OnlyMoves(t) /\ job'[t] = j
  BY <1>3 DEF OnlyMoves, SwitchInv, TypeFits
<1>6. Fits(t)'
  BY <1>2, <1>3, <1>5, MovingFits DEF Fits, RoleFits, TurnFits, JobFits, CopyFits
<1>7. DiskFits'
  BY <1>2, <1>3 DEF SwitchInv, DiskFits
<1>8. GameFits'
  <2>1. at'[t] = "moving" /\ at[t] = "moving"
    OBVIOUS
  <2> QED  BY <1>5, <2>1, MovingFits, GamesFit
<1> QED  BY <1>4, <1>5, <1>6, <1>7, <1>8, MovingFits, TurnsStand, StepFits

LEMMA ParkFoldersFits ==
  ASSUME SwitchInv, NEW t \in Tasks, ParkFolders(t)
  PROVE  SwitchInv'
BY SaveStepFits DEF ParkFolders

LEMMA RestoreFoldersFits ==
  ASSUME SwitchInv, NEW t \in Tasks, RestoreFolders(t)
  PROVE  SwitchInv'
<1>1. at[t] = "moving" /\ folders' = job[t].to /\ SaveStep(t, "finalize")
  BY DEF RestoreFolders
<1>2. job[t] = journal /\ journal.to \in Versions
  BY <1>1, MovingFits DEF Journal
<1> QED  BY <1>1, <1>2, SaveStepFits DEF RestoreFolders

LEMMA UpdateInstanceFits ==
  ASSUME SwitchInv, NEW t \in Tasks, UpdateInstance(t)
  PROVE  SwitchInv'
<1>1. /\ at[t] = "moving" /\ job[t].step = "finalize"
      /\ copy' = [copy EXCEPT ![t].ver = job[t].to] /\ record' = copy'[t]
      /\ at' = [at EXCEPT ![t] = "finish"]
      /\ UNCHANGED <<folders, journal, lock, switching, beside, job, ret, used>>
  BY DEF UpdateInstance, Goto
<1>2. PICK c \in Record : c = [copy[t] EXCEPT !.ver = journal.to]
  BY <1>1, MovingFits DEF Journal, Record
<1>3. copy' = [copy EXCEPT ![t] = c] /\ copy'[t] = c /\ record' = c
  BY <1>1, <1>2, MovingFits DEF SwitchInv, TypeFits
<1>4. TypeFits'
  BY <1>1, <1>3 DEF SwitchInv, TypeFits, Labels
<1>5. OnlyMoves(t) /\ at'[t] = "finish"
  BY <1>1, <1>3 DEF OnlyMoves, SwitchInv, TypeFits
<1>6. RoleFits(t)' /\ TurnFits(t)' /\ CopyFits(t)'
  BY <1>1, <1>3, <1>5, MovingFits DEF Fits, RoleFits, TurnFits, CopyFits
<1>7. JobFits(t)'
  BY <1>1, <1>5, MovingFits DEF JobFits
<1>8. DiskFits'
  BY <1>1, <1>3 DEF SwitchInv, DiskFits
<1>9. GameFits'
  BY <1>1, <1>5, GamesFit
<1> QED  BY <1>1, <1>4, <1>5, <1>6, <1>7, <1>8, <1>9, TurnsStand, StepFits DEF Fits

LEMMA FinishSwitchFits ==
  ASSUME SwitchInv, NEW t \in Tasks, FinishSwitch(t)
  PROVE  SwitchInv'
<1>1. /\ at[t] = "finish" /\ journal' = NoJournal /\ at' = [at EXCEPT ![t] = "finished"]
      /\ UNCHANGED <<record, folders, lock, switching, copy, beside, job, ret, used>>
  BY DEF FinishSwitch, Goto
<1>2. folders \in Versions /\ folders # Between
  <2>1. journal.step = "finalize" /\ journal \in Journal /\ journal # NoJournal
    BY <1>1, MovingFits DEF Fits, JobFits
  <2> QED  BY <2>1, NamesAssumption DEF SwitchInv, DiskFits, Journal
<1>3. TypeFits'
  BY <1>1 DEF SwitchInv, TypeFits, Labels
<1>4. OnlyMoves(t) /\ at'[t] = "finished"
  BY <1>1 DEF OnlyMoves, SwitchInv, TypeFits
<1>5. Fits(t)'
  BY <1>1, <1>4, MovingFits DEF Fits, RoleFits, TurnFits, JobFits, CopyFits
<1>6. DiskFits'
  BY <1>1, <1>2 DEF SwitchInv, DiskFits
<1>7. GameFits'
  BY <1>1, <1>4, GamesFit
<1> QED  BY <1>1, <1>3, <1>4, <1>5, <1>6, <1>7, MovingFits, TurnsStand, StepFits

LEMMA LeaveSwitchFits ==
  ASSUME SwitchInv, NEW t \in Tasks, LeaveSwitch(t)
  PROVE  SwitchInv'
BY DoneFits DEF LeaveSwitch, SwitchInv, Fits, JobFits

LEMMA IOErrorFits ==
  ASSUME SwitchInv, NEW t \in Tasks, IOError(t)
  PROVE  SwitchInv'
<1>1. used' \in Uses
  BY UsesCount DEF IOError, SwitchInv, TypeFits
<1> QED  BY <1>1, EndFits DEF IOError, diskVars, SwitchInv, DiskFits

-----------------------------------------------------------------------------
(* Launches.                                                               *)
LEMMA LaunchReadFits ==
  ASSUME SwitchInv, NEW l \in Launchers, LaunchRead(l)
  PROVE  SwitchInv'
<1>1. /\ at[l] = "idle" /\ copy' = [copy EXCEPT ![l] = record]
      /\ beside' = [beside EXCEPT ![l] = Playing] /\ at' = [at EXCEPT ![l] = "waiting"]
      /\ lock' = Append(lock, l) /\ UNCHANGED <<diskVars, switching, job, ret, used>>
  BY DEF LaunchRead, Read, Goto
<1>2. l \in Tasks /\ l \in Owners /\ l \notin Switchers
  BY RolesAssumption DEF Tasks, Owners
<1>3. Fits(l) /\ record \in Record
  BY <1>2 DEF SwitchInv, DiskFits
<1>4. ~In(l, lock)
  BY <1>1, <1>3 DEF Fits, TurnFits
<1>5. Queue(lock') /\ In(l, lock') /\ TurnsKept(l)
  BY <1>1, <1>2, <1>4, Joins DEF SwitchInv, TypeFits, TurnsKept
<1>6. TypeFits'
  <2>1. Playing \in BOOLEAN
    BY DEF Playing
  <2> QED  BY <1>1, <1>2, <1>3, <1>5, <2>1 DEF SwitchInv, TypeFits, Labels
<1>7. OnlyMoves(l) /\ at'[l] = "waiting" /\ copy'[l] = record
  BY <1>1, <1>2 DEF OnlyMoves, SwitchInv, TypeFits
<1>8. Fits(l)'
  BY <1>1, <1>2, <1>3, <1>5, <1>7 DEF Fits, RoleFits, TurnFits, JobFits, CopyFits
<1>9. GameFits'
  BY <1>1, <1>2, <1>7, GamesFit DEF diskVars
<1> QED  BY <1>1, <1>2, <1>5, <1>6, <1>7, <1>8, <1>9, DiskStays, StepFits DEF diskVars

LEMMA LaunchLockFits ==
  ASSUME SwitchInv, NEW l \in Launchers, LaunchLock(l)
  PROVE  SwitchInv'
<1> DEFINE label == IF beside[l] THEN "ready" ELSE "check"
<1>1. /\ at[l] = "waiting" /\ Holds(l, lock)
      /\ at' = [at EXCEPT ![l] = label] /\ ret' = [ret EXCEPT ![l] = "ready"]
      /\ UNCHANGED <<diskVars, lock, switching, copy, beside, job, used>>
  BY DEF LaunchLock, Ensure, Goto
<1>2. l \in Tasks /\ l \in Owners /\ l \notin Switchers /\ l # Startup
  BY RolesAssumption DEF Tasks, Owners
<1>3. Fits(l)
  BY <1>2 DEF SwitchInv
<1>4. TypeFits'
  BY <1>1 DEF SwitchInv, TypeFits, Labels
<1>5. /\ OnlyMoves(l) /\ at'[l] \in {"ready", "check"} /\ ret'[l] = "ready"
      /\ at'[l] = "ready" => beside'[l]
  BY <1>1, <1>2 DEF OnlyMoves, SwitchInv, TypeFits
<1>6. Fits(l)'
  BY <1>1, <1>2, <1>3, <1>5 DEF Fits, RoleFits, TurnFits, JobFits, CopyFits, After
<1>7. GameFits'
  BY <1>1, <1>2, <1>5, GamesFit DEF diskVars
<1> QED  BY <1>1, <1>2, <1>4, <1>5, <1>6, <1>7, TurnsStand, DiskStays, StepFits DEF diskVars

LEMMA LaunchWritesFits ==
  ASSUME SwitchInv, NEW l \in Launchers, LaunchWrites(l)
  PROVE  SwitchInv'
<1>1. /\ at[l] = "ready" /\ record' = copy[l]
      /\ UNCHANGED <<folders, journal, lock, switching, at, copy, beside, job, ret, used>>
  BY DEF LaunchWrites
<1>2. l \in Tasks /\ l \notin Switchers /\ l # Startup
  BY RolesAssumption DEF Tasks
<1>3. Fits(l) /\ copy[l] \in Record
  BY <1>1, <1>2 DEF SwitchInv, Fits, CopyFits
<1>4. TypeFits' /\ DiskFits'
  BY <1>1, <1>3 DEF SwitchInv, TypeFits, DiskFits
<1>5. OnlyMoves(l)
  BY <1>1 DEF OnlyMoves
<1>6. Fits(l)' /\ GameFits'
  BY <1>1, <1>3 DEF SwitchInv, GameFits, Playing, Fits, RoleFits, TurnFits, JobFits, CopyFits
<1> QED  BY <1>1, <1>2, <1>4, <1>5, <1>6, TurnsStand, StepFits

LEMMA LaunchStartsFits ==
  ASSUME SwitchInv, NEW l \in Launchers, LaunchStarts(l)
  PROVE  SwitchInv'
<1>1. /\ at[l] = "ready" /\ at' = [at EXCEPT ![l] = "playing"] /\ lock' = Without(l, lock)
      /\ UNCHANGED <<diskVars, switching, copy, beside, job, ret, used>>
  BY DEF LaunchStarts, Goto
<1>2. l \in Tasks /\ l \notin Switchers
  BY RolesAssumption DEF Tasks
<1>3. Fits(l)
  BY <1>2 DEF SwitchInv
<1>4. Queue(lock') /\ ~In(l, lock') /\ TurnsKept(l)
  BY <1>1, Leaves DEF SwitchInv, TypeFits, TurnsKept
<1>5. TypeFits'
  BY <1>1, <1>4 DEF SwitchInv, TypeFits, Labels
<1>6. OnlyMoves(l) /\ at'[l] = "playing"
  BY <1>1, <1>2 DEF OnlyMoves, SwitchInv, TypeFits
<1>7. Fits(l)'
  BY <1>1, <1>3, <1>4, <1>6 DEF Fits, RoleFits, TurnFits, JobFits, CopyFits
<1>8. GameFits'
  <2>1. beside'[l] \/ journal' = NoJournal
    BY <1>1 DEF SwitchInv, GameFits, diskVars
  <2> QED  BY <1>1, <1>2, <1>6, <2>1, GamesFit DEF diskVars
<1> QED  BY <1>1, <1>2, <1>4, <1>5, <1>6, <1>7, <1>8, DiskStays, StepFits DEF diskVars

LEMMA LaunchEndsFits ==
  ASSUME SwitchInv, NEW l \in Launchers, LaunchEnds(l)
  PROVE  SwitchInv'
BY EndFits DEF LaunchEnds, diskVars, SwitchInv, DiskFits, TypeFits, Tasks

-----------------------------------------------------------------------------
(* Switches.                                                               *)
LEMMA SwitcherIs ==
  ASSUME NEW s \in Switchers
  PROVE  s \in Tasks /\ s \in Owners /\ s \notin Launchers /\ s # Startup
BY RolesAssumption DEF Tasks, Owners

LEMMA SwitchAskFits ==
  ASSUME SwitchInv, NEW s \in Switchers, SwitchAsk(s)
  PROVE  SwitchInv'
<1>1. /\ at[s] = "idle" /\ ~Playing /\ at' = [at EXCEPT ![s] = "waiting"]
      /\ lock' = Append(lock, s)
      /\ UNCHANGED <<diskVars, switching, copy, beside, job, ret>>
  BY DEF SwitchAsk, Goto
<1>2. used' \in Uses
  BY UsesCount DEF SwitchAsk, SwitchInv, TypeFits
<1>3. Fits(s) /\ s \in Tasks
  BY SwitcherIs DEF SwitchInv
<1>4. ~In(s, lock)
  BY <1>1, <1>3 DEF Fits, TurnFits
<1>5. Queue(lock') /\ In(s, lock') /\ TurnsKept(s)
  BY <1>1, <1>3, <1>4, Joins DEF SwitchInv, TypeFits, TurnsKept
<1>6. TypeFits'
  BY <1>1, <1>2, <1>5 DEF SwitchInv, TypeFits, Labels
<1>7. OnlyMoves(s) /\ at'[s] = "waiting"
  BY <1>1, <1>3 DEF OnlyMoves, SwitchInv, TypeFits
<1>8. Fits(s)'
  BY <1>1, <1>3, <1>5, <1>7, SwitcherIs DEF Fits, RoleFits, TurnFits, JobFits, CopyFits
<1>9. GameFits'
  BY <1>1, <1>3, <1>7, GamesFit DEF diskVars
<1> QED  BY <1>1, <1>3, <1>5, <1>6, <1>7, <1>8, <1>9, DiskStays, StepFits DEF diskVars

LEMMA SwitchLockFits ==
  ASSUME SwitchInv, NEW s \in Switchers, SwitchLock(s)
  PROVE  SwitchInv'
<1>1. at[s] = "waiting" /\ Holds(s, lock) /\ UNCHANGED <<diskVars, used>>
  BY DEF SwitchLock
<1>2. s \in Tasks /\ Fits(s) /\ record \in Record
  BY SwitcherIs DEF SwitchInv, DiskFits
<1>3. CASE Playing
  BY <1>1, <1>2, <1>3, EndFits DEF SwitchLock, diskVars, SwitchInv, TypeFits
<1>4. CASE ~Playing
  <2>1. /\ copy' = [copy EXCEPT ![s] = record] /\ at' = [at EXCEPT ![s] = "check"]
        /\ ret' = [ret EXCEPT ![s] = "choose"]
        /\ UNCHANGED <<lock, switching, beside, job>>
    BY <1>4 DEF SwitchLock, Read, Ensure, Goto
  <2>2. TypeFits'
    BY <1>1, <1>2, <2>1 DEF SwitchInv, TypeFits, Labels
  <2>3. OnlyMoves(s) /\ at'[s] = "check" /\ copy'[s] = record /\ ret'[s] = "choose"
    BY <1>2, <2>1 DEF OnlyMoves, SwitchInv, TypeFits
  <2>4. Fits(s)'
    BY <1>1, <1>2, <2>1, <2>3, SwitcherIs DEF Fits, RoleFits, TurnFits, JobFits, CopyFits, After
  <2>5. GameFits'
    BY <1>1, <1>2, <1>4, <2>3, SwitcherIs, GamesFit DEF diskVars
  <2> QED  BY <1>1, <1>2, <2>1, <2>2, <2>3, <2>4, <2>5, TurnsStand, DiskStays, StepFits
           DEF diskVars
<1> QED  BY <1>3, <1>4

LEMMA SwitchChooseFits ==
  ASSUME SwitchInv, NEW s \in Switchers, SwitchChoose(s)
  PROVE  SwitchInv'
<1>1. /\ at[s] = "choose" /\ at' = [at EXCEPT ![s] = "enter"]
      /\ switching' = Append(switching, s)
      /\ UNCHANGED <<diskVars, lock, copy, beside, ret, used>>
  BY DEF SwitchChoose, Goto
<1>2. s \in Tasks /\ Fits(s) /\ copy[s] \in Record
  BY <1>1, SwitcherIs DEF SwitchInv, Fits, CopyFits
<1>3. PICK j \in Journal : job' = [job EXCEPT ![s] = j] /\ j.step = "park"
  <2>1. PICK v \in Versions :
            job' = [job EXCEPT ![s] = [from |-> copy[s].ver, to |-> v, step |-> "park"]]
    BY DEF SwitchChoose
  <2>2. [from |-> copy[s].ver, to |-> v, step |-> "park"] \in Journal
    BY <1>2 DEF Journal, Record
  <2> QED  BY <2>1, <2>2
<1>4. ~In(s, switching)
  BY <1>1, <1>2 DEF Fits, TurnFits
<1>5. Queue(switching') /\ In(s, switching') /\ TurnsKept(s)
  BY <1>1, <1>2, <1>4, Joins DEF SwitchInv, TypeFits, TurnsKept
<1>6. TypeFits'
  BY <1>1, <1>3, <1>5 DEF SwitchInv, TypeFits, Labels
<1>7. OnlyMoves(s) /\ at'[s] = "enter" /\ job'[s] = j
  BY <1>1, <1>2, <1>3 DEF OnlyMoves, SwitchInv, TypeFits
<1>8. Fits(s)'
  BY <1>1, <1>2, <1>3, <1>5, <1>7 DEF Fits, RoleFits, TurnFits, JobFits, CopyFits
<1>9. GameFits'
  BY <1>1, <1>2, <1>7, SwitcherIs, GamesFit DEF diskVars
<1> QED  BY <1>1, <1>2, <1>5, <1>6, <1>7, <1>8, <1>9, DiskStays, StepFits DEF diskVars

LEMMA SwitchBeginFits ==
  ASSUME SwitchInv, NEW s \in Switchers, SwitchBegin(s)
  PROVE  SwitchInv'
<1>1. at[s] = "enter" /\ Holds(s, switching) /\ UNCHANGED <<record, folders, used>>
  BY DEF SwitchBegin
<1>2. s \in Tasks /\ Fits(s) /\ job[s] \in Journal /\ job[s].step = "park"
  BY <1>1, SwitcherIs DEF SwitchInv, Fits, JobFits
<1>3. CASE journal # NoJournal
  BY <1>1, <1>2, <1>3, EndFits DEF SwitchBegin, SwitchInv, TypeFits, DiskFits
<1>4. CASE journal = NoJournal
  <2>1. /\ journal' = job[s] /\ at' = [at EXCEPT ![s] = "moving"]
        /\ ret' = [ret EXCEPT ![s] = "sync"]
        /\ UNCHANGED <<lock, switching, copy, beside, job>>
    BY <1>4 DEF SwitchBegin, Ensure, Goto
  <2>2. TypeFits'
    BY <1>1, <2>1 DEF SwitchInv, TypeFits, Labels
  <2>3. OnlyMoves(s) /\ at'[s] = "moving" /\ ret'[s] = "sync"
    BY <1>2, <2>1 DEF OnlyMoves, SwitchInv, TypeFits
  <2>4. Fits(s)'
    BY <1>1, <1>2, <2>1, <2>3, SwitcherIs DEF Fits, RoleFits, TurnFits, JobFits, CopyFits, After
  <2>5. DiskFits'
    BY <1>1, <1>2, <2>1, NamesAssumption DEF SwitchInv, DiskFits
  <2>6. GameFits'
    <3>1. ~Playing
      BY <1>1 DEF SwitchInv, GameFits
    <3>2. Holds(s, lock)
      BY <1>1, <1>2, SwitcherIs DEF Fits, TurnFits
    <3>3. \A l \in Launchers : at[l] # "ready"
      <4>1. SUFFICES ASSUME NEW l \in Launchers, at[l] = "ready" PROVE FALSE
        OBVIOUS
      <4>2. l \in Tasks /\ l \in Owners /\ l # s
        BY SwitcherIs DEF Tasks, Owners
      <4>3. Holds(l, lock)
        BY <4>1, <4>2 DEF SwitchInv, Fits, TurnFits
      <4> QED  BY <3>2, <4>2, <4>3, HoldsOne DEF SwitchInv, TypeFits
    <3>4. \A l \in Launchers : at'[l] = at[l]
      BY <2>3, SwitcherIs DEF OnlyMoves, Tasks
    <3> QED  BY <3>1, <3>3, <3>4 DEF GameFits, Playing
  <2> QED  BY <1>1, <1>2, <2>1, <2>2, <2>3, <2>4, <2>5, <2>6, TurnsStand, StepFits
<1> QED  BY <1>3, <1>4

LEMMA SwitchSyncFits ==
  ASSUME SwitchInv, NEW s \in Switchers, SwitchSync(s)
  PROVE  SwitchInv'
<1>1. copy[s] \in Record /\ record \in Record /\ s \in Tasks
  BY SwitcherIs DEF SwitchSync, SwitchInv, Fits, CopyFits, DiskFits
<1> QED  BY <1>1, EndFits DEF SwitchSync, SwitchInv, TypeFits

LEMMA SwitchGivesUpFits ==
  ASSUME SwitchInv, NEW s \in Switchers, SwitchGivesUp(s)
  PROVE  SwitchInv'
BY SwitcherIs, EndFits DEF SwitchGivesUp, diskVars, SwitchInv, DiskFits, TypeFits

-----------------------------------------------------------------------------
(* Pages, settings, the recovery at start and a crash.                     *)
LEMMA OutsiderIs ==
  ASSUME NEW p \in Pages \cup Savers
  PROVE  p \in Tasks /\ p \notin Owners /\ p \notin Launchers /\ p \notin Switchers /\ p # Startup
BY RolesAssumption DEF Tasks, Owners

LEMMA PageOpensFits ==
  ASSUME SwitchInv, NEW p \in Pages, PageOpens(p)
  PROVE  SwitchInv'
<1>1. /\ at[p] = "idle" /\ copy' = [copy EXCEPT ![p] = record]
      /\ at' = [at EXCEPT ![p] = "check"] /\ ret' = [ret EXCEPT ![p] = "idle"]
      /\ UNCHANGED <<diskVars, lock, switching, beside, job, used>>
  BY DEF PageOpens, Read, Ensure, Goto
<1>2. p \in Tasks /\ Fits(p) /\ record \in Record
  BY OutsiderIs DEF SwitchInv, DiskFits
<1>3. TypeFits'
  BY <1>1, <1>2 DEF SwitchInv, TypeFits, Labels
<1>4. OnlyMoves(p) /\ at'[p] = "check" /\ ret'[p] = "idle" /\ copy'[p] = record
  BY <1>1, <1>2 DEF OnlyMoves, SwitchInv, TypeFits
<1>5. Fits(p)'
  BY <1>1, <1>2, <1>4, OutsiderIs DEF Fits, RoleFits, TurnFits, JobFits, CopyFits, After
<1>6. GameFits'
  BY <1>1, <1>2, <1>4, OutsiderIs, GamesFit DEF diskVars
<1> QED  BY <1>1, <1>2, <1>3, <1>4, <1>5, <1>6, TurnsStand, DiskStays, StepFits DEF diskVars

LEMMA SaverReadsFits ==
  ASSUME SwitchInv, NEW p \in Savers, SaverReads(p)
  PROVE  SwitchInv'
<1>1. /\ at[p] = "idle" /\ copy' = [copy EXCEPT ![p] = record]
      /\ at' = [at EXCEPT ![p] = "save"]
      /\ UNCHANGED <<diskVars, lock, switching, beside, job, ret, used>>
  BY DEF SaverReads, Read, Goto
<1>2. p \in Tasks /\ Fits(p) /\ record \in Record
  BY OutsiderIs DEF SwitchInv, DiskFits
<1>3. TypeFits'
  BY <1>1, <1>2 DEF SwitchInv, TypeFits, Labels
<1>4. OnlyMoves(p) /\ at'[p] = "save" /\ copy'[p] = record
  BY <1>1, <1>2 DEF OnlyMoves, SwitchInv, TypeFits
<1>5. Fits(p)'
  BY <1>1, <1>2, <1>4, OutsiderIs DEF Fits, RoleFits, TurnFits, JobFits, CopyFits
<1>6. GameFits'
  BY <1>1, <1>2, <1>4, OutsiderIs, GamesFit DEF diskVars
<1> QED  BY <1>1, <1>2, <1>3, <1>4, <1>5, <1>6, TurnsStand, DiskStays, StepFits DEF diskVars

LEMMA SaverWritesFits ==
  ASSUME SwitchInv, NEW p \in Savers, SaverWrites(p)
  PROVE  SwitchInv'
<1>1. p \in Tasks /\ at[p] = "save" /\ p # Startup
  BY OutsiderIs DEF SaverWrites
<1>2. copy[p] \in Record
  BY <1>1 DEF SwitchInv, Fits, CopyFits
<1>3. PICK c \in Record : c = copy[p]
  BY <1>2
<1>4. record' = [c EXCEPT !.saves = c.saves + 1]
  BY <1>3 DEF SaverWrites
<1>5. record' \in Record
  BY <1>4 DEF Record
<1> QED  BY <1>1, <1>5, EndFits DEF SaverWrites, SwitchInv, TypeFits

LEMMA StartupIs == Startup \in Tasks /\ Startup \in Owners /\ Startup \notin Launchers \cup Switchers
BY RolesAssumption DEF Tasks, Owners

LEMMA RecoverLockFits ==
  ASSUME SwitchInv, RecoverLock
  PROVE  SwitchInv'
<1>1. /\ at[Startup] = "waiting" /\ Holds(Startup, lock)
      /\ at' = [at EXCEPT ![Startup] = "check"] /\ ret' = [ret EXCEPT ![Startup] = "recovered"]
      /\ UNCHANGED <<diskVars, lock, switching, copy, beside, job, used>>
  BY DEF RecoverLock, Ensure, Goto
<1>2. Fits(Startup)
  BY StartupIs DEF SwitchInv
<1>3. TypeFits'
  BY <1>1 DEF SwitchInv, TypeFits, Labels
<1>4. OnlyMoves(Startup) /\ at'[Startup] = "check" /\ ret'[Startup] = "recovered"
  BY <1>1, StartupIs DEF OnlyMoves, SwitchInv, TypeFits
<1>5. Fits(Startup)'
  BY <1>1, <1>2, <1>4, StartupIs DEF Fits, RoleFits, TurnFits, JobFits, CopyFits, After
<1>6. GameFits'
  BY <1>1, <1>4, StartupIs, GamesFit DEF diskVars
<1> QED  BY <1>1, <1>3, <1>4, <1>5, <1>6, StartupIs, TurnsStand, DiskStays, StepFits DEF diskVars

LEMMA RecoverEndsFits ==
  ASSUME SwitchInv, RecoverEnds
  PROVE  SwitchInv'
BY StartupIs, EndFits DEF RecoverEnds, diskVars, SwitchInv, DiskFits, TypeFits

LEMMA QueuesStart == Queue(<<>>) /\ Queue(<<Startup>>) /\ Holds(Startup, <<Startup>>)
                     /\ \A t : ~In(t, <<>>) /\ (In(t, <<Startup>>) <=> t = Startup)
<1>1. Queue(<<>>) /\ \A t : ~In(t, <<>>)
  BY DEF Queue, In
<1>2. <<Startup>> \in Seq(Tasks) /\ DOMAIN <<Startup>> = {1} /\ <<Startup>>[1] = Startup
  BY StartupIs
<1>3. <<Startup>> # <<>> /\ Head(<<Startup>>) = Startup
  OBVIOUS
<1> QED  BY <1>1, <1>2, <1>3 DEF Queue, In, Holds

LEMMA CrashFits ==
  ASSUME SwitchInv, Crash
  PROVE  SwitchInv'
<1>1. /\ at' = [t \in Tasks |-> IF t = Startup /\ journal # NoJournal THEN "waiting" ELSE "idle"]
      /\ copy' = [t \in Tasks |-> NoCopy] /\ beside' = [l \in Launchers |-> FALSE]
      /\ lock' = (IF journal # NoJournal THEN <<Startup>> ELSE <<>>) /\ switching' = <<>>
      /\ job' = [t \in Tasks |-> NoJournal] /\ ret' = [t \in Tasks |-> "idle"]
      /\ UNCHANGED diskVars
  BY DEF Crash
<1>2. used' \in Uses
  BY UsesCount DEF Crash, SwitchInv, TypeFits
<1>3. TypeFits'
  BY <1>1, <1>2, QueuesStart DEF TypeFits, Labels
<1>4. ASSUME NEW t \in Tasks  PROVE Fits(t)'
  <2>1. at'[t] = IF t = Startup /\ journal # NoJournal THEN "waiting" ELSE "idle"
    BY <1>1
  <2>2. In(t, lock') <=> t = Startup /\ journal # NoJournal
    BY <1>1, QueuesStart
  <2>3. ~In(t, switching')
    BY <1>1, QueuesStart
  <2> QED  BY <2>1, <2>2, <2>3, StartupIs DEF Fits, RoleFits, TurnFits, JobFits, CopyFits
<1>5. GameFits'
  BY <1>1, StartupIs DEF GameFits, Tasks
<1> QED  BY <1>1, <1>3, <1>4, <1>5, DiskStays DEF SwitchInv

LEMMA InitFits == Init => SwitchInv
<1> SUFFICES ASSUME Init PROVE SwitchInv
  OBVIOUS
<1>1. record \in Record /\ record.ver \in Versions
  BY DEF Init, Record
<1>2. TypeFits
  <2>1. used \in Uses
    BY NamesAssumption DEF Init, Uses
  <2> QED  BY <2>1, QueuesStart DEF Init, TypeFits, Labels
<1>3. DiskFits
  BY <1>1, NamesAssumption DEF Init, DiskFits
<1>4. GameFits
  BY DEF Init, GameFits, Tasks
<1>5. ASSUME NEW t \in Tasks  PROVE Fits(t)
  BY QueuesStart DEF Init, Fits, RoleFits, TurnFits, JobFits, CopyFits
<1> QED  BY <1>2, <1>3, <1>4, <1>5 DEF SwitchInv

LEMMA StepKeeps == SwitchInv /\ [Next]_vars => SwitchInv'
<1> SUFFICES ASSUME SwitchInv, [Next]_vars PROVE SwitchInv'
  OBVIOUS
<1>1. CASE UNCHANGED vars
  BY <1>1 DEF vars, SwitchInv, TypeFits, DiskFits, GameFits, Playing, Fits, RoleFits, TurnFits,
              JobFits, CopyFits
<1>2. CASE \E t \in Tasks : SwitchWork(t) \/ IOError(t)
  BY <1>2, CheckPendingFits, EnterResumeFits, ParkFoldersFits, RestoreFoldersFits,
     UpdateInstanceFits, FinishSwitchFits, LeaveSwitchFits, IOErrorFits DEF SwitchWork
<1>3. CASE \E l \in Launchers : Launch(l)
  BY <1>3, LaunchReadFits, LaunchLockFits, LaunchWritesFits, LaunchStartsFits, LaunchEndsFits
     DEF Launch
<1>4. CASE \E s \in Switchers : Switch(s)
  BY <1>4, SwitchAskFits, SwitchLockFits, SwitchChooseFits, SwitchBeginFits, SwitchSyncFits,
     SwitchGivesUpFits DEF Switch
<1>5. CASE \/ \E p \in Pages : PageOpens(p)
           \/ \E u \in Savers : SaverReads(u) \/ SaverWrites(u)
           \/ RecoverLock \/ RecoverEnds
           \/ Crash
  BY <1>5, PageOpensFits, SaverReadsFits, SaverWritesFits, RecoverLockFits, RecoverEndsFits,
     CrashFits
<1> QED  BY <1>1, <1>2, <1>3, <1>4, <1>5 DEF Next

-----------------------------------------------------------------------------
(* While no switch is unfinished the game directory holds one version's    *)
(* folders, whoever finished the switch (ensure_switch_finished, SWITCHES).*)
THEOREM FoldersWhole == Spec => []WholeFolders
<1>1. SwitchInv => WholeFolders
  BY DEF SwitchInv, TypeFits, DiskFits, Uses, Queue, WholeFolders, TypeOK
<1> QED  BY <1>1, InitFits, StepKeeps, PTL DEF Spec

(* The folders never move under a game that did not start beside another   *)
(* (launch_instance, instance_switch_version): as long as such a game is   *)
(* ready or runs, no switch is unfinished, and none can begin.             *)
THEOREM FoldersUnmoved == Spec => FoldersStill
<1>1. SwitchInv /\ [Next]_vars => (FirstGamePlaying => folders' = folders)
  <2>1. SUFFICES ASSUME SwitchInv, [Next]_vars, folders' # folders, FirstGamePlaying
                 PROVE  FALSE
    OBVIOUS
  <2>2. PICK t \in Tasks : at[t] = "moving"
    <3>1. CASE UNCHANGED vars
      BY <2>1, <3>1 DEF vars
    <3>2. CASE \E t \in Tasks : SwitchWork(t) \/ IOError(t)
      BY <2>1, <3>2 DEF SwitchWork, IOError, CheckPending, EnterResume, ParkFolders, RestoreFolders,
                       UpdateInstance, FinishSwitch, LeaveSwitch, diskVars
    <3>3. CASE \E l \in Launchers : Launch(l)
      BY <2>1, <3>3 DEF Launch, LaunchRead, LaunchLock, LaunchWrites, LaunchStarts, LaunchEnds,
                       diskVars
    <3>4. CASE \E s \in Switchers : Switch(s)
      BY <2>1, <3>4 DEF Switch, SwitchAsk, SwitchLock, SwitchChoose, SwitchBegin, SwitchSync,
                       SwitchGivesUp, diskVars
    <3>5. CASE \/ \E p \in Pages : PageOpens(p)
               \/ \E u \in Savers : SaverReads(u) \/ SaverWrites(u)
               \/ RecoverLock \/ RecoverEnds
               \/ Crash
      BY <2>1, <3>5 DEF PageOpens, SaverReads, SaverWrites, RecoverLock, RecoverEnds, Crash, diskVars
    <3> QED  BY <2>1, <3>1, <3>2, <3>3, <3>4, <3>5 DEF Next
  <2>3. journal # NoJournal
    BY <2>1, <2>2, MovingFits
  <2> QED  BY <2>1, <2>3 DEF FirstGamePlaying, SwitchInv, GameFits
<1> QED  BY <1>1, InitFits, StepKeeps, PTL DEF Spec, FoldersStill

-----------------------------------------------------------------------------
(* Where a switch ends.  As long as no file operation failed, an           *)
(* unfinished switch is in the hands of who holds the instance's lock: the *)
(* switch itself, or the recovery at start.  A launch or a switch that     *)
(* writes its copy holds that lock too, so none of them writes between     *)
(* UpdateInstance and FinishSwitch; a save of the settings may, but it     *)
(* counts itself in the record.                                            *)
Attends(t) ==
    \/ t \in Switchers /\ at[t] \in {"moving", "finish"}
    \/ t = Startup /\ at[t] \in {"waiting", "check", "await", "moving", "finish"}

Attended ==
    used.errors = 0 /\ journal # NoJournal => \E t \in Tasks : Holds(t, lock) /\ Attends(t)

TakenOver ==
    used.errors = 0 /\ record.saves = 0 =>
        \A t \in Tasks : at[t] = "finish" => record.ver = journal.to

EndInv == SwitchInv /\ Attended /\ TakenOver

\* A copy written under the instance's lock meets no unfinished switch.
LEMMA NoneUnfinished ==
  ASSUME EndInv, NEW t \in Owners, at[t] \in {"ready", "sync"}
  PROVE  journal = NoJournal \/ used.errors # 0
<1>1. t \in Tasks
  BY DEF Owners, Tasks
<1>2. Holds(t, lock)
  BY <1>1 DEF EndInv, SwitchInv, Fits, TurnFits
<1>3. \A u : Holds(u, lock) => u = t
  BY <1>2, HoldsOne DEF EndInv, SwitchInv, TypeFits
<1>4. ~Attends(t)
  BY DEF Attends
<1> QED  BY <1>3, <1>4 DEF EndInv, Attended

\* A step of a command that takes no version over: who attends the switch goes
\* on attending it unless the journal went, and the record stays as it was
\* while someone is about to remove the journal.
LEMMA AttendedStays ==
  ASSUME EndInv, NEW t \in Tasks, NEW x, x # "finish", Goto(t, x),
         journal' = journal \/ Holds(t, switching),
         journal' # NoJournal => journal # NoJournal,
         record' = record \/ record'.saves # 0 \/ journal = NoJournal \/ used.errors # 0,
         used'.errors = 0 => used.errors = 0,
         journal' = NoJournal \/ (Attends(t) => lock' = lock /\ Attends(t)'),
         \/ lock' = lock
         \/ lock' = Append(lock, t) /\ ~In(t, lock)
         \/ lock' = Without(t, lock)
  PROVE  Attended' /\ TakenOver'
<1>1. Queue(lock) /\ Queue(switching)
  BY DEF EndInv, SwitchInv, TypeFits
<1>2. \A u \in Tasks : at'[u] = IF u = t THEN x ELSE at[u]
  BY DEF EndInv, SwitchInv, TypeFits, Goto
<1>3. ASSUME used'.errors = 0, journal' # NoJournal
      PROVE  \E u \in Tasks : Holds(u, lock') /\ Attends(u)'
  <2>1. PICK u \in Tasks : Holds(u, lock) /\ Attends(u)
    BY <1>3 DEF EndInv, Attended
  <2>2. CASE u = t
    <3>1. lock' = lock /\ Attends(u)'
      BY <1>3, <2>1, <2>2
    <3> QED  BY <2>1, <3>1
  <2>3. CASE u # t
    <3>1. Attends(u)'
      BY <1>2, <2>1, <2>3 DEF Attends
    <3>2. Holds(u, lock')
      <4>1. CASE lock' = lock
        BY <2>1, <4>1
      <4>2. CASE lock' = Append(lock, t) /\ ~In(t, lock)
        <5>1. Holds(u, Append(lock, t))
          BY <1>1, <2>1, <4>2, Joins
        <5> QED  BY <4>2, <5>1
      <4>3. CASE lock' = Without(t, lock)
        <5>1. Holds(u, Without(t, lock))
          BY <1>1, <2>1, <2>3, Leaves
        <5> QED  BY <4>3, <5>1
      <4> QED  BY <4>1, <4>2, <4>3
    <3> QED  BY <3>1, <3>2
  <2> QED  BY <2>2, <2>3
<1>4. ASSUME used'.errors = 0, record'.saves = 0, NEW u \in Tasks, at'[u] = "finish"
      PROVE  record'.ver = journal'.to
  <2>1. u # t /\ at[u] = "finish"
    BY <1>2, <1>4
  <2>2. Holds(u, switching) /\ journal # NoJournal
    BY <2>1, MovingFits DEF EndInv
  <2>3. journal' = journal
    BY <1>1, <2>1, <2>2, HoldsOne
  <2>4. record' = record
    BY <1>4, <2>2
  <2> QED  BY <1>4, <2>1, <2>3, <2>4 DEF EndInv, TakenOver
<1> QED  BY <1>3, <1>4 DEF Attended, TakenOver

LEMMA CountsKept ==
  ASSUME used \in Uses, Count("switches") \/ Count("crashes") \/ UNCHANGED used
  PROVE  used'.errors = used.errors
BY DEF Uses, Count

\* A command that ends and wrote nothing, or nothing that matters here.
LEMMA EndAttended ==
  ASSUME EndInv, NEW t \in Tasks, End(t), ~Attends(t) \/ journal = NoJournal,
         UNCHANGED <<journal, used>>,
         record' = record \/ record'.saves # 0 \/ journal = NoJournal \/ used.errors # 0
  PROVE  Attended' /\ TakenOver'
BY AttendedStays DEF End

LEMMA DoneAttended ==
  ASSUME EndInv, NEW t \in Tasks, Done(t), at[t] \in {"check", "finished"}, journal = NoJournal,
         UNCHANGED <<diskVars, used>>
  PROVE  Attended' /\ TakenOver'
<1>1. ret[t] \in After(t)
  BY DEF EndInv, SwitchInv, Fits, RoleFits
<1>2. CASE ret[t] = "idle"
  <2>1. End(t)
    BY <1>2 DEF Done
  <2> QED  BY <2>1, EndAttended DEF diskVars
<1>3. CASE ret[t] # "idle"
  <2>1. Goto(t, ret[t]) /\ lock' = lock
    BY <1>3 DEF Done
  <2>2. ret[t] # "finish"
    BY <1>1 DEF After
  <2> QED  BY <2>1, <2>2, AttendedStays DEF diskVars
<1> QED  BY <1>2, <1>3

LEMMA WorkAttended ==
  ASSUME EndInv, NEW t \in Tasks, SwitchWork(t) \/ IOError(t)
  PROVE  Attended' /\ TakenOver'
<1>1. CASE CheckPending(t)
  <2>1. CASE journal = NoJournal
    BY <1>1, <2>1, DoneAttended DEF CheckPending
  <2>2. CASE journal # NoJournal
    <3>1. /\ Goto(t, "await") /\ at[t] = "check" /\ lock' = lock
          /\ UNCHANGED <<diskVars, used>>
      BY <1>1, <2>2 DEF CheckPending
    <3>2. Attends(t) => Attends(t)'
      BY <3>1, RolesAssumption DEF Attends, Goto, EndInv, SwitchInv, TypeFits
    <3> QED  BY <3>1, <3>2, AttendedStays DEF diskVars
  <2> QED  BY <2>1, <2>2
<1>2. CASE EnterResume(t)
  <2>1. /\ at[t] = "await" /\ lock' = lock
        /\ Goto(t, IF journal = NoJournal THEN "finished" ELSE "moving")
        /\ UNCHANGED <<diskVars, used>>
    BY <1>2 DEF EnterResume
  <2>2. journal = NoJournal \/ (Attends(t) => Attends(t)')
    BY <2>1, RolesAssumption DEF Attends, Goto, EndInv, SwitchInv, TypeFits
  <2> QED  BY <2>1, <2>2, AttendedStays DEF diskVars
<1>3. CASE ParkFolders(t) \/ RestoreFolders(t)
  <2>1. at[t] = "moving" /\ UNCHANGED <<record, lock, at, used>>
    BY <1>3 DEF ParkFolders, RestoreFolders
  <2>2. Holds(t, switching) /\ journal # NoJournal
    BY <2>1, MovingFits DEF EndInv
  <2>3. Goto(t, "moving")
    BY <2>1 DEF Goto, EndInv, SwitchInv, TypeFits
  <2>4. Attends(t) => Attends(t)'
    BY <2>1 DEF Attends
  <2> QED  BY <2>1, <2>2, <2>3, <2>4, AttendedStays
<1>4. CASE UpdateInstance(t)
  <2>1. /\ at[t] = "moving" /\ copy' = [copy EXCEPT ![t].ver = job[t].to]
        /\ record' = copy'[t] /\ at' = [at EXCEPT ![t] = "finish"]
        /\ UNCHANGED <<journal, lock, switching, used>>
    BY <1>4 DEF UpdateInstance, Goto
  <2>2. job[t] = journal /\ copy[t] \in Record
    BY <2>1, MovingFits DEF EndInv
  <2>3. record'.ver = journal'.to
    BY <2>1, <2>2 DEF EndInv, SwitchInv, TypeFits, Record
  <2>4. \A u \in Tasks : Attends(u) => Attends(u)'
    BY <2>1 DEF Attends, EndInv, SwitchInv, TypeFits
  <2>5. Attended'
    <3>1. SUFFICES ASSUME used'.errors = 0, journal' # NoJournal
                   PROVE  \E u \in Tasks : Holds(u, lock') /\ Attends(u)'
      BY DEF Attended
    <3>2. PICK u \in Tasks : Holds(u, lock) /\ Attends(u)
      BY <2>1, <3>1 DEF EndInv, Attended
    <3> QED  BY <2>1, <2>4, <3>2
  <2> QED  BY <2>3, <2>5 DEF TakenOver
<1>5. CASE FinishSwitch(t)
  <2>1. /\ at[t] = "finish" /\ journal' = NoJournal /\ Goto(t, "finished")
        /\ UNCHANGED <<record, lock, used>>
    BY <1>5 DEF FinishSwitch
  <2>2. Holds(t, switching)
    BY <2>1, MovingFits DEF EndInv
  <2> QED  BY <2>1, <2>2, AttendedStays
<1>6. CASE LeaveSwitch(t)
  <2>1. at[t] = "finished" /\ Done(t) /\ UNCHANGED <<diskVars, used>>
    BY <1>6 DEF LeaveSwitch
  <2>2. journal = NoJournal
    BY <2>1 DEF EndInv, SwitchInv, Fits, JobFits
  <2> QED  BY <2>1, <2>2, DoneAttended
<1>7. CASE IOError(t)
  <2>1. used'.errors # 0
    BY <1>7 DEF IOError, Count, EndInv, SwitchInv, TypeFits, Uses
  <2> QED  BY <2>1 DEF Attended, TakenOver
<1> QED  BY <1>1, <1>2, <1>3, <1>4, <1>5, <1>6, <1>7 DEF SwitchWork

LEMMA LaunchAttended ==
  ASSUME EndInv, NEW l \in Launchers, Launch(l)
  PROVE  Attended' /\ TakenOver'
<1>1. l \in Tasks /\ l \in Owners /\ ~Attends(l)
  BY RolesAssumption DEF Tasks, Owners, Attends
<1>2. CASE LaunchRead(l)
  <2>1. ~In(l, lock)
    BY <1>1, <1>2 DEF LaunchRead, EndInv, SwitchInv, Fits, TurnFits
  <2> QED  BY <1>1, <1>2, <2>1, AttendedStays DEF LaunchRead, diskVars
<1>3. CASE LaunchLock(l)
  BY <1>1, <1>3, AttendedStays DEF LaunchLock, Ensure, diskVars
<1>4. CASE LaunchWrites(l)
  <2>1. at[l] = "ready" /\ UNCHANGED <<journal, lock, at, used>>
    BY <1>4 DEF LaunchWrites
  <2>2. Goto(l, "ready")
    BY <2>1 DEF Goto, EndInv, SwitchInv, TypeFits
  <2>3. journal = NoJournal \/ used.errors # 0
    BY <1>1, <2>1, NoneUnfinished
  <2> QED  BY <1>1, <2>1, <2>2, <2>3, AttendedStays
<1>5. CASE LaunchStarts(l)
  BY <1>1, <1>5, AttendedStays DEF LaunchStarts, diskVars
<1>6. CASE LaunchEnds(l)
  BY <1>1, <1>6, EndAttended DEF LaunchEnds, diskVars
<1> QED  BY <1>2, <1>3, <1>4, <1>5, <1>6 DEF Launch

LEMMA SwitchAttended ==
  ASSUME EndInv, NEW s \in Switchers, Switch(s)
  PROVE  Attended' /\ TakenOver'
<1>1. s \in Tasks /\ s \in Owners /\ s # Startup
  BY RolesAssumption DEF Tasks, Owners
<1>2. at[s] \notin {"moving", "finish"} => ~Attends(s)
  BY <1>1 DEF Attends
<1>3. CASE SwitchAsk(s)
  <2>1. ~In(s, lock)
    BY <1>1, <1>3 DEF SwitchAsk, EndInv, SwitchInv, Fits, TurnFits
  <2>2. used'.errors = used.errors
    BY <1>3, CountsKept DEF SwitchAsk, EndInv, SwitchInv, TypeFits
  <2> QED  BY <1>1, <1>2, <1>3, <2>1, <2>2, AttendedStays DEF SwitchAsk, diskVars
<1>4. CASE SwitchLock(s)
  <2>1. CASE Playing
    BY <1>1, <1>2, <1>4, <2>1, EndAttended DEF SwitchLock, diskVars
  <2>2. CASE ~Playing
    BY <1>1, <1>2, <1>4, <2>2, AttendedStays DEF SwitchLock, Ensure, diskVars
  <2> QED  BY <2>1, <2>2
<1>5. CASE SwitchChoose(s)
  BY <1>1, <1>2, <1>5, AttendedStays DEF SwitchChoose, diskVars
<1>6. CASE SwitchBegin(s)
  <2>1. CASE journal # NoJournal
    BY <1>1, <1>2, <1>6, <2>1, EndAttended DEF SwitchBegin
  <2>2. CASE journal = NoJournal
    <3>1. /\ at[s] = "enter" /\ at' = [at EXCEPT ![s] = "moving"] /\ lock' = lock
          /\ UNCHANGED <<record, used>>
      BY <1>6, <2>2 DEF SwitchBegin, Ensure, Goto
    <3>2. at'[s] = "moving" /\ \A u \in Tasks : at'[u] = "finish" => at[u] = "finish"
      BY <1>1, <3>1 DEF EndInv, SwitchInv, TypeFits
    <3>3. Holds(s, lock') /\ Attends(s)'
      BY <1>1, <3>1, <3>2 DEF EndInv, SwitchInv, Fits, TurnFits, Attends
    <3>4. \A u \in Tasks : at'[u] # "finish"
      BY <2>2, <3>2, MovingFits DEF EndInv
    <3> QED  BY <1>1, <3>3, <3>4 DEF Attended, TakenOver
  <2> QED  BY <2>1, <2>2
<1>7. CASE SwitchSync(s)
  <2>1. at[s] = "sync" /\ End(s) /\ UNCHANGED <<journal, used>>
    BY <1>7 DEF SwitchSync
  <2>2. journal = NoJournal \/ used.errors # 0
    BY <1>1, <2>1, NoneUnfinished
  <2> QED  BY <1>1, <1>2, <2>1, <2>2, EndAttended
<1>8. CASE SwitchGivesUp(s)
  BY <1>1, <1>2, <1>8, EndAttended DEF SwitchGivesUp, diskVars
<1> QED  BY <1>3, <1>4, <1>5, <1>6, <1>7, <1>8 DEF Switch

LEMMA OthersAttended ==
  ASSUME EndInv,
         \/ \E p \in Pages : PageOpens(p)
         \/ \E u \in Savers : SaverReads(u) \/ SaverWrites(u)
         \/ RecoverLock \/ RecoverEnds
  PROVE  Attended' /\ TakenOver'
<1>1. \A t \in Pages \cup Savers : t \in Tasks /\ ~Attends(t)
  BY RolesAssumption DEF Tasks, Attends
<1>2. ASSUME NEW p \in Pages, PageOpens(p)  PROVE Attended' /\ TakenOver'
  BY <1>1, <1>2, AttendedStays DEF PageOpens, Ensure, diskVars
<1>3. ASSUME NEW u \in Savers, SaverReads(u)  PROVE Attended' /\ TakenOver'
  BY <1>1, <1>3, AttendedStays DEF SaverReads, diskVars
<1>4. ASSUME NEW u \in Savers, SaverWrites(u)  PROVE Attended' /\ TakenOver'
  <2>1. /\ at[u] = "save" /\ record' = [copy[u] EXCEPT !.saves = @ + 1]
        /\ End(u) /\ UNCHANGED <<journal, used>>
    BY <1>4 DEF SaverWrites
  <2>2. copy[u] \in Record
    BY <1>1, <2>1 DEF EndInv, SwitchInv, Fits, CopyFits
  <2>3. record'.saves # 0
    BY <2>1, <2>2 DEF Record
  <2> QED  BY <1>1, <2>1, <2>3, EndAttended
<1>5. CASE RecoverLock
  <2>1. /\ Goto(Startup, "check") /\ lock' = lock
        /\ UNCHANGED <<diskVars, used>>
    BY <1>5 DEF RecoverLock, Ensure
  <2>2. Attends(Startup)'
    BY <2>1, StartupIs DEF Attends, Goto, EndInv, SwitchInv, TypeFits
  <2> QED  BY <2>1, <2>2, StartupIs, AttendedStays DEF diskVars
<1>6. CASE RecoverEnds
  <2>1. ~Attends(Startup)
    BY <1>6, StartupIs DEF RecoverEnds, Attends
  <2> QED  BY <1>6, <2>1, StartupIs, EndAttended DEF RecoverEnds, diskVars
<1> QED  BY <1>2, <1>3, <1>4, <1>5, <1>6

\* After a crash the recovery stands first before the instance's lock.
LEMMA CrashAttended ==
  ASSUME EndInv, Crash
  PROVE  Attended' /\ TakenOver'
<1>1. used'.errors = used.errors
  BY CountsKept DEF Crash, EndInv, SwitchInv, TypeFits
<1>2. /\ at' = [t \in Tasks |-> IF t = Startup /\ journal # NoJournal THEN "waiting" ELSE "idle"]
      /\ lock' = (IF journal # NoJournal THEN <<Startup>> ELSE <<>>) /\ journal' = journal
  BY DEF Crash, diskVars
<1>3. journal' # NoJournal => Holds(Startup, lock') /\ Attends(Startup)'
  BY <1>2, StartupIs, QueuesStart DEF Attends
<1>4. \A t \in Tasks : at'[t] # "finish"
  BY <1>2
<1> QED  BY <1>3, <1>4, StartupIs DEF Attended, TakenOver

LEMMA InitAttended == Init => EndInv
<1> SUFFICES ASSUME Init PROVE EndInv
  OBVIOUS
<1>1. SwitchInv
  BY InitFits
<1>2. journal = NoJournal /\ \A t \in Tasks : at[t] # "finish"
  BY DEF Init
<1> QED  BY <1>1, <1>2 DEF EndInv, Attended, TakenOver

LEMMA StepAttended == EndInv /\ [Next]_vars => EndInv'
<1> SUFFICES ASSUME EndInv, [Next]_vars PROVE EndInv'
  OBVIOUS
<1>1. SwitchInv'
  BY StepKeeps DEF EndInv
<1>2. CASE UNCHANGED vars
  BY <1>1, <1>2 DEF vars, EndInv, Attended, Attends, TakenOver
<1>3. CASE Next
  <2>1. Attended' /\ TakenOver'
    BY <1>3, WorkAttended, LaunchAttended, SwitchAttended, OthersAttended, CrashAttended DEF Next
  <2> QED  BY <1>1, <2>1 DEF EndInv
<1> QED  BY <1>2, <1>3

(* A switch ends with the folders of the version its journal names in      *)
(* place and, unless a save of the settings or an I/O error came between,  *)
(* with the instance on that version (run, finalize), whoever finishes it. *)
THEOREM EndsAtTarget == Spec => SwitchEndsAtTarget
<1>1. EndInv /\ [Next]_vars =>
         (journal # NoJournal /\ journal' = NoJournal =>
             /\ folders' = journal.to
             /\ record'.saves = 0 /\ used.errors = 0 => record'.ver = journal.to)
  <2>1. SUFFICES ASSUME EndInv, [Next]_vars, journal # NoJournal, journal' = NoJournal
                 PROVE  /\ folders' = journal.to
                        /\ record'.saves = 0 /\ used.errors = 0 => record'.ver = journal.to
    OBVIOUS
  <2>2. PICK t \in Tasks : FinishSwitch(t)
    <3>1. CASE UNCHANGED vars
      BY <2>1, <3>1 DEF vars
    <3>2. ASSUME NEW t \in Tasks, SwitchWork(t) \/ IOError(t)  PROVE FinishSwitch(t)
      <4>1. CASE ParkFolders(t) \/ RestoreFolders(t)
        <5>1. at[t] = "moving" /\ \E step \in {"restore", "finalize"} : SaveStep(t, step)
          BY <4>1 DEF ParkFolders, RestoreFolders
        <5>2. PICK step \in {"restore", "finalize"} : journal' = [journal EXCEPT !.step = step]
          BY <2>1, <5>1, MovingFits DEF SaveStep, EndInv
        <5>3. journal' \in Journal
          BY <2>1, <5>1, <5>2, MovingFits DEF EndInv, Journal
        <5> QED  BY <2>1, <5>3, NamesAssumption
      <4> QED  BY <2>1, <3>2, <4>1 DEF SwitchWork, IOError, CheckPending, EnterResume,
                       UpdateInstance, LeaveSwitch, diskVars
    <3>3. ASSUME NEW l \in Launchers, Launch(l)  PROVE FALSE
      BY <2>1, <3>3 DEF Launch, LaunchRead, LaunchLock, LaunchWrites, LaunchStarts, LaunchEnds,
                       diskVars
    <3>4. ASSUME NEW s \in Switchers, Switch(s)  PROVE FALSE
      BY <2>1, <3>4 DEF Switch, SwitchAsk, SwitchLock, SwitchChoose, SwitchBegin, SwitchSync,
                       SwitchGivesUp, diskVars
    <3>5. CASE \/ \E p \in Pages : PageOpens(p)
               \/ \E u \in Savers : SaverReads(u) \/ SaverWrites(u)
               \/ RecoverLock \/ RecoverEnds
               \/ Crash
      BY <2>1, <3>5 DEF PageOpens, SaverReads, SaverWrites, RecoverLock, RecoverEnds, Crash, diskVars
    <3> QED  BY <2>1, <3>1, <3>2, <3>3, <3>4, <3>5 DEF Next
  <2>3. at[t] = "finish" /\ record' = record /\ folders' = folders
    BY <2>2 DEF FinishSwitch
  <2>4. folders = journal.to
    BY <2>1, <2>3 DEF EndInv, SwitchInv, Fits, JobFits, DiskFits
  <2> QED  BY <2>1, <2>3, <2>4 DEF EndInv, TakenOver
<1> QED  BY <1>1, InitAttended, StepAttended, PTL DEF Spec, SwitchEndsAtTarget
=============================================================================
