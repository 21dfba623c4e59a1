-------------------------- MODULE AfkSessionProofs --------------------------
(***************************************************************************)
(* Proofs about AfkSession, for any retry limit, any number of kicks that  *)
(* end a session and any bounds: the file with the passwords goes, what    *)
(* the launcher asks of a session is answered truly, restarts stay within  *)
(* their limits, and no client is started beside another or after a stop.  *)
(* They hold for every order of the steps (Next), also the two the orderly *)
(* runs leave out.                                                         *)
(***************************************************************************)
EXTENDS AfkSession, TLAPS

Report == [gen : Nat, what : Reportable]

PlayerTypes ==
    /\ wish \in {"on", "off"}
    /\ waiting \in BOOLEAN /\ handing \in BOOLEAN /\ redo \in BOOLEAN
    /\ pending \in BOOLEAN /\ enabled \in BOOLEAN
    /\ saved \in 0..MaxSaves
    /\ commands \in Seq({"start", "stop", "quit", "reco"})
    /\ used \in [calls : 0..MaxCalls, sends : 0..MaxSends, longs : 0..MaxLong]

SessionTypes ==
    /\ stopRequested \in BOOLEAN /\ killing \in BOOLEAN /\ script \in BOOLEAN
    /\ revision \in 0..MaxSaves /\ launched \in 0..MaxSaves
    /\ io \in Seq(Report)
    /\ state \in States
    /\ busy \in {"first", "restart", "no"}
    /\ generation \in Nat /\ process \in {0, generation}
    /\ attempts \in 0..Retries /\ streak \in 0..RepeatedKicks
    /\ joined \in {"no", "short", "long"}
    /\ timer \in {"off", "restart"} \cup Slots
    /\ failure \in Failures \cup {"none"}
    /\ phase \in {"gone", "up", "in", "leaving"} /\ stdin \subseteq {"quit", "reco"}
    /\ launches \in Nat /\ kicks \in Nat

(* A launch is to come; a report is the latest client's.                   *)
Coming == timer # "off" \/ busy # "no"
Own(report) == report.gen = generation

(* A launch is prepared or waited for only while no client runs; while it  *)
(* is prepared no stop was asked for.                                      *)
LaunchFits ==
    /\ busy # "no" => timer = "off" /\ process = 0 /\ ~stopRequested
    /\ timer # "off" => process = 0
    /\ Coming => Active
    /\ state \in {"connecting", "connected", "stopping"} => process # 0
    /\ script => process # 0 \/ busy # "no"

(* The session's client is gone when the process is; a kill and a /quit    *)
(* come from a stop.                                                       *)
ClientFits ==
    /\ process = 0 => phase = "gone" /\ joined = "no" /\ ~killing
    /\ killing => stopRequested
    /\ process # 0 /\ "quit" \in stdin => stopRequested

(* The launches keep pace with the attempts, one ahead of them when none   *)
(* is to come; the kicks with the streak until the client drops.           *)
CountFits ==
    /\ launches <= attempts + (IF Coming THEN 0 ELSE 1)
    /\ joined = "long" => launches = 0
    /\ kicks <= RepeatedKicks
    /\ Coming \/ process # 0 => streak < RepeatedKicks
    /\ Coming \/ phase \in {"up", "in"} => kicks <= streak

(* The latest client's reports: no end before it is gone, no failure       *)
(* before it drops.                                                        *)
ReportsFit ==
    /\ \A i \in DOMAIN io : io[i].gen \in 1..generation
    /\ \A i \in DOMAIN io : Own(io[i]) /\ io[i].what = "exited" => phase = "gone"
    /\ phase \in {"up", "in"} =>
          \A i \in DOMAIN io : Own(io[i]) => io[i].what \in {"connecting", "joined"}

(* A client that was kicked for the login and not told to stop said so: it *)
(* is read, or it still comes before the client's end.                     *)
Kicked(i) ==
    /\ Own(io[i]) /\ io[i].what = "login"
    /\ \A j \in DOMAIN io : Own(io[j]) /\ j < i => io[j].what \in {"connecting", "joined"}
    /\ \A j \in DOMAIN io : Own(io[j]) /\ j > i => io[j].what = "exited"

KickKnown ==
    process # 0 /\ phase \in {"leaving", "gone"} /\ ~stopRequested /\ kicks # 0 =>
        /\ kicks <= streak + 1
        /\ \/ failure = "login" /\ \A i \in DOMAIN io : Own(io[i]) => io[i].what = "exited"
           \/ \E i \in DOMAIN io : Kicked(i)

SessionInv == SessionTypes /\ LaunchFits /\ ClientFits /\ CountFits /\ ReportsFit /\ KickKnown
AfkInv == PlayerTypes /\ SessionInv

LEMMA Limits == /\ Retries \in Nat /\ RepeatedKicks \in Nat /\ RepeatedKicks > 0
                /\ MaxCalls \in Nat /\ MaxSends \in Nat /\ MaxSaves \in Nat /\ MaxLong \in Nat
BY LimitAssumption, BoundAssumption

-----------------------------------------------------------------------------
(* The queue of reports.                                                   *)
LEMMA TailOf ==
  ASSUME NEW S, NEW s \in Seq(S), s # <<>>
  PROVE  /\ Tail(s) \in Seq(S) /\ Head(s) \in S /\ Head(s) = s[1] /\ 1 \in DOMAIN s
         /\ \A i \in DOMAIN s : i = 1 \/ i - 1 \in DOMAIN Tail(s)
         /\ \A i \in DOMAIN Tail(s) : i \in Nat /\ i + 1 \in DOMAIN s /\ Tail(s)[i] = s[i + 1]
OBVIOUS

LEMMA MoreOf ==
  ASSUME NEW S, NEW s \in Seq(S), NEW r \in Seq(S)
  PROVE  /\ s \o r \in Seq(S)
         /\ \A i \in DOMAIN s : i \in Nat /\ i \in DOMAIN (s \o r) /\ (s \o r)[i] = s[i]
         /\ \A i \in DOMAIN (s \o r) :
               \/ i \in DOMAIN s /\ (s \o r)[i] = s[i]
               \/ i > Len(s) /\ i - Len(s) \in DOMAIN r /\ (s \o r)[i] = r[i - Len(s)]
         /\ Len(s) \in Nat /\ DOMAIN s = 1..Len(s) /\ DOMAIN r = 1..Len(r) /\ Len(r) \in Nat
OBVIOUS

LEMMA OneReport ==
  ASSUME NEW r \in Report
  PROVE  /\ <<r>> \in Seq(Report) /\ DOMAIN <<r>> = {1} /\ <<r>>[1] = r
OBVIOUS

\* The oldest report is taken.
LEMMA ReportTaken ==
  ASSUME SessionInv, io # <<>>, io' = Tail(io), UNCHANGED <<generation, phase>>
  PROVE  io' \in Seq(Report) /\ ReportsFit'
<1>1. /\ io' \in Seq(Report)
      /\ \A i \in DOMAIN io' : i + 1 \in DOMAIN io /\ io'[i] = io[i + 1]
  BY TailOf DEF SessionInv, SessionTypes
<1> QED  BY <1>1 DEF SessionInv, ReportsFit, Own

\* Nothing is learnt from a report that is late, or from one that is no failure.
LEMMA NothingLearnt ==
  ASSUME SessionInv, io # <<>>, io' = Tail(io),
         ~IsCurrent(Head(io).gen) \/ Head(io).what \in {"connecting", "joined"},
         UNCHANGED <<generation, phase, process, stopRequested, kicks, streak>>,
         failure' = failure \/ Own(Head(io))
  PROVE  KickKnown'
<1> SUFFICES ASSUME process # 0, phase \in {"leaving", "gone"}, ~stopRequested, kicks # 0
             PROVE  /\ kicks <= streak + 1
                    /\ \/ failure' = "login" /\ \A i \in DOMAIN io' : Own(io'[i]) => io'[i].what = "exited"
                       \/ \E i \in DOMAIN io' : Kicked(i)'
  BY DEF KickKnown, Own
<1>1. /\ Head(io) = io[1] /\ 1 \in DOMAIN io
      /\ \A i \in DOMAIN io : i = 1 \/ i - 1 \in DOMAIN io'
      /\ \A i \in DOMAIN io' : i \in Nat /\ i + 1 \in DOMAIN io /\ io'[i] = io[i + 1]
      /\ process = generation
  BY TailOf DEF SessionInv, SessionTypes
<1>2. ~Own(io[1]) \/ io[1].what \in {"connecting", "joined"}
  BY <1>1 DEF Own, IsCurrent
<1>3. CASE failure = "login" /\ \A i \in DOMAIN io : Own(io[i]) => io[i].what = "exited"
  <2>1. ~Own(Head(io))
    BY <1>1, <1>2, <1>3
  <2>2. failure' = "login"
    BY <1>3, <2>1
  <2>3. \A i \in DOMAIN io' : Own(io'[i]) => io'[i].what = "exited"
    BY <1>1, <1>3
  <2>4. kicks <= streak + 1
    BY DEF SessionInv, KickKnown
  <2> QED  BY <2>2, <2>3, <2>4
<1>4. ASSUME NEW i \in DOMAIN io, Kicked(i)  PROVE i - 1 \in DOMAIN io' /\ Kicked(i - 1)'
  <2>1. i # 1
    BY <1>2, <1>4 DEF Kicked
  <2>2. i \in Nat /\ i - 1 \in DOMAIN io' /\ io'[i - 1] = io[i]
    BY <1>1, <2>1 DEF SessionInv, SessionTypes
  <2>3. \A j \in DOMAIN io' : (j < i - 1 => j + 1 < i) /\ (j > i - 1 => j + 1 > i)
    BY <1>1, <2>2
  <2> QED  BY <1>1, <1>4, <2>2, <2>3 DEF Kicked, Own
<1> QED  BY <1>3, <1>4 DEF SessionInv, KickKnown

\* What the oldest report says of a kick, when it is the running client's.
LEMMA KickRead ==
  ASSUME SessionInv, io # <<>>, IsCurrent(Head(io).gen),
         Head(io).what \notin {"connecting", "joined"}
  PROVE  /\ process # 0 /\ process = generation /\ phase \in {"leaving", "gone"}
         /\ Head(io).what = "exited" => phase = "gone"
         /\ ~stopRequested /\ kicks # 0 =>
               /\ kicks <= streak + 1
               /\ Head(io).what = "exited" => failure = "login"
               /\ Head(io).what # "exited" =>
                     /\ Head(io).what = "login"
                     /\ \A i \in DOMAIN io : Own(io[i]) /\ i # 1 => io[i].what = "exited"
<1>1. Head(io) = io[1] /\ 1 \in DOMAIN io /\ \A i \in DOMAIN io : i \in Nat /\ i >= 1
  BY TailOf DEF SessionInv, SessionTypes
<1>2. /\ io[1].gen \in 1..generation /\ process = io[1].gen
      /\ process \in {0, generation} /\ generation \in Nat
  BY <1>1 DEF SessionInv, SessionTypes, ReportsFit, IsCurrent
<1>3. process # 0 /\ process = generation /\ Own(io[1])
  BY <1>2 DEF Own
<1>4. phase \in {"leaving", "gone"} /\ (io[1].what = "exited" => phase = "gone")
  BY <1>1, <1>3 DEF SessionInv, SessionTypes, ReportsFit
<1>5. ASSUME NEW i \in DOMAIN io, Kicked(i)  PROVE i = 1
  <2>1. i <= 1
    BY <1>1, <1>3, <1>5 DEF Kicked
  <2> QED  BY <1>1, <2>1
<1>6. ASSUME ~stopRequested, kicks # 0
      PROVE  /\ kicks <= streak + 1
             /\ \/ failure = "login" /\ \A i \in DOMAIN io : Own(io[i]) => io[i].what = "exited"
                \/ Kicked(1)
  BY <1>3, <1>4, <1>5, <1>6 DEF SessionInv, KickKnown
<1>7. Kicked(1) => /\ io[1].what = "login"
                   /\ \A i \in DOMAIN io : Own(io[i]) /\ i # 1 => io[i].what = "exited"
  BY <1>1 DEF Kicked
<1> QED  BY <1>1, <1>3, <1>4, <1>6, <1>7

\* The client reports more.
LEMMA ReportsCome ==
  ASSUME SessionInv, NEW more \in Seq(Report), io' = io \o more, generation' = generation,
         \A j \in DOMAIN more : more[j].gen \in 1..generation,
         \/ phase' = "gone"
         \/ phase \in {"up", "in"} /\ \A j \in DOMAIN more : more[j].what # "exited",
         phase' \in {"up", "in"} =>
             \A j \in DOMAIN more : more[j].what \in {"connecting", "joined"}
  PROVE  io' \in Seq(Report) /\ ReportsFit'
<1>1. /\ io' \in Seq(Report)
      /\ \A i \in DOMAIN io' : \/ i \in DOMAIN io /\ io'[i] = io[i]
                               \/ \E j \in DOMAIN more : io'[i] = more[j]
  BY MoreOf DEF SessionInv, SessionTypes
<1>2. \A i \in DOMAIN io' : io'[i].gen \in 1..generation
  BY <1>1 DEF SessionInv, ReportsFit
<1>3. phase' # "gone" => \A i \in DOMAIN io' : Own(io'[i]) => io'[i].what # "exited"
  BY <1>1 DEF SessionInv, ReportsFit
<1>4. phase' \in {"up", "in"} =>
          \A i \in DOMAIN io' : Own(io'[i]) => io'[i].what \in {"connecting", "joined"}
  BY <1>1 DEF SessionInv, ReportsFit
<1> QED  BY <1>1, <1>2, <1>3, <1>4 DEF ReportsFit, Own

-----------------------------------------------------------------------------
(* The player's calls and the settings leave the session alone.            *)
LEMMA SessionStays ==
  ASSUME SessionInv, UNCHANGED <<io, actorVars, script, clientVars, historyVars>>
  PROVE  SessionInv'
<1>1. UNCHANGED <<io, state, busy, revision, launched, generation, process, stopRequested,
                  attempts, streak, joined, timer, killing, failure, script, phase, stdin,
                  launches, kicks>>
  BY DEF actorVars, launchVars, countVars, clientVars, historyVars
<1>2. SessionTypes'
  BY <1>1 DEF SessionInv, SessionTypes
<1>3. LaunchFits' /\ ClientFits'
  BY <1>1 DEF SessionInv, LaunchFits, ClientFits, Coming, Active
<1>4. CountFits'
  BY <1>1 DEF SessionInv, CountFits, Coming
<1>5. ReportsFit' /\ KickKnown'
  BY <1>1 DEF SessionInv, ReportsFit, KickKnown, Kicked, Own
<1> QED  BY <1>2, <1>3, <1>4, <1>5 DEF SessionInv

LEMMA Uses ==
  ASSUME PlayerTypes, NEW what \in {"calls", "sends", "longs"}, Count(what),
         what = "calls" => used.calls < MaxCalls,
         what = "sends" => used.sends < MaxSends,
         what = "longs" => used.longs < MaxLong
  PROVE  used' \in [calls : 0..MaxCalls, sends : 0..MaxSends, longs : 0..MaxLong]
<1>1. CASE what = "calls"
  BY <1>1, Limits DEF PlayerTypes, Count
<1>2. CASE what = "sends"
  BY <1>2, Limits DEF PlayerTypes, Count
<1>3. CASE what = "longs"
  BY <1>3, Limits DEF PlayerTypes, Count
<1> QED  BY <1>1, <1>2, <1>3

LEMMA Queues ==
  ASSUME PlayerTypes, NEW command \in {"start", "stop", "quit", "reco"},
         commands' = Append(commands, command)
  PROVE  commands' \in Seq({"start", "stop", "quit", "reco"})
BY DEF PlayerTypes

LEMMA CallsFit ==
  ASSUME AfkInv, Connect \/ Disconnect \/ Reconnect
  PROVE  AfkInv'
<1>1. PICK what \in {"on", "off"} : Call(what)
  BY DEF Connect, Disconnect, Reconnect
<1>2. used' \in [calls : 0..MaxCalls, sends : 0..MaxSends, longs : 0..MaxLong]
  BY <1>1, Uses DEF AfkInv, Call
<1>3. /\ wish' \in {"on", "off"} /\ UNCHANGED <<enabled, saved>>
  BY <1>1 DEF Call, settingsVars
<1>4. SessionInv'
  BY <1>1, SessionStays DEF AfkInv, Call
<1>5. /\ waiting' \in BOOLEAN /\ handing' \in BOOLEAN /\ redo' \in BOOLEAN /\ pending' \in BOOLEAN
      /\ commands' = commands \/ commands' = Append(commands, "stop")
  BY DEF Connect, Disconnect, Reconnect, commandVars, AfkInv, PlayerTypes
<1>6. commands' \in Seq({"start", "stop", "quit", "reco"})
  BY <1>5, Queues DEF AfkInv, PlayerTypes
<1>7. PlayerTypes'
  BY <1>2, <1>3, <1>5, <1>6 DEF AfkInv, PlayerTypes
<1> QED  BY <1>4, <1>7 DEF AfkInv

LEMMA GoesOnFits ==
  ASSUME AfkInv, ReconnectGoesOn \/ ClientReady \/ ClientUnavailable
  PROVE  AfkInv'
<1>1. /\ UNCHANGED <<wish, settingsVars, commandVars, io, actorVars, script, clientVars, used,
                     historyVars>>
      /\ waiting' \in BOOLEAN /\ handing' \in BOOLEAN /\ redo' \in BOOLEAN
  BY DEF ReconnectGoesOn, ClientReady, ClientUnavailable, AfkInv, PlayerTypes
<1>2. PlayerTypes'
  BY <1>1 DEF AfkInv, PlayerTypes, settingsVars, commandVars
<1> QED  BY <1>1, <1>2, SessionStays DEF AfkInv

LEMMA StartSessionFits ==
  ASSUME AfkInv, StartSession
  PROVE  AfkInv'
<1>1. commands' \in Seq({"start", "stop", "quit", "reco"})
  BY Queues DEF AfkInv, StartSession
<1>2. PlayerTypes'
  BY <1>1 DEF AfkInv, PlayerTypes, StartSession, settingsVars
<1> QED  BY <1>2, SessionStays DEF AfkInv, StartSession

LEMMA SendFits ==
  ASSUME AfkInv, NEW line \in {"quit", "reco"}, Send(line)
  PROVE  AfkInv'
<1>1. commands' \in Seq({"start", "stop", "quit", "reco"})
  BY Queues DEF AfkInv, Send
<1>2. used' \in [calls : 0..MaxCalls, sends : 0..MaxSends, longs : 0..MaxLong]
  BY Uses DEF AfkInv, Send
<1>3. PlayerTypes'
  BY <1>1, <1>2 DEF AfkInv, PlayerTypes, Send, settingsVars, callVars
<1> QED  BY <1>3, SessionStays DEF AfkInv, Send

LEMMA SaveSettingsFits ==
  ASSUME AfkInv, SaveSettings
  PROVE  AfkInv'
<1>1. saved' \in 0..MaxSaves /\ enabled' \in BOOLEAN
  BY Limits DEF AfkInv, PlayerTypes, SaveSettings
<1>2. PlayerTypes'
  BY <1>1 DEF AfkInv, PlayerTypes, SaveSettings, callVars, commandVars
<1> QED  BY <1>2, SessionStays DEF AfkInv, SaveSettings

LEMMA CommandedTypes ==
  ASSUME AfkInv, NEW command, Commanded(command)
  PROVE  /\ PlayerTypes' /\ busy = "no" /\ io' = io
<1>1. commands' \in Seq({"start", "stop", "quit", "reco"})
  BY TailOf DEF AfkInv, PlayerTypes, Commanded
<1>2. pending' \in BOOLEAN
  BY DEF AfkInv, PlayerTypes, Commanded
<1> QED  BY <1>1, <1>2 DEF AfkInv, PlayerTypes, Commanded, callVars, settingsVars

LEMMA ReportsStay ==
  ASSUME SessionInv, UNCHANGED <<io, generation, phase>>
  PROVE  ReportsFit'
BY DEF SessionInv, ReportsFit, Own

LEMMA KickStays ==
  ASSUME SessionInv, UNCHANGED <<io, generation, phase, process, stopRequested, kicks, streak,
                                 failure>>
  PROVE  KickKnown'
BY DEF SessionInv, KickKnown, Kicked, Own

-----------------------------------------------------------------------------
(* The actor's commands.                                                   *)
LEMMA OnStartFits ==
  ASSUME AfkInv, OnStart
  PROVE  AfkInv'
<1>1. PlayerTypes' /\ busy = "no" /\ io' = io /\ UNCHANGED <<script, clientVars>>
  BY CommandedTypes DEF OnStart
<1>2. CASE process # 0 \/ timer \in Slots
  BY <1>1, <1>2, SessionStays DEF AfkInv, OnStart
<1>3. CASE ~(process # 0 \/ timer \in Slots)
  <2>1. /\ process = 0 /\ UNCHANGED <<launched, generation, process, killing, phase, stdin, script>>
        /\ stopRequested' = FALSE /\ attempts' = 0 /\ streak' = 0 /\ joined' = "no"
        /\ failure' = "none" /\ state' = "starting" /\ launches' = 0 /\ kicks' = 0
        /\ Launch("first")
    BY <1>1, <1>3 DEF OnStart, clientVars
  <2>2. /\ busy' \in {"first", "no"} /\ revision' \in {saved, revision}
        /\ timer' \in {"off", "slotFirst"}
        /\ timer' # "off" => busy' = "no"
        /\ timer' # "off" \/ busy' # "no"
    BY <1>1, <2>1 DEF Launch, LaunchNow, Slot
  <2>3. SessionTypes'
    <3>1. /\ attempts' \in 0..Retries /\ streak' \in 0..RepeatedKicks
          /\ launches' \in Nat /\ kicks' \in Nat /\ revision' \in 0..MaxSaves
      BY <2>1, <2>2, Limits DEF AfkInv, PlayerTypes, SessionInv, SessionTypes
    <3>2. timer' \in {"off", "restart"} \cup Slots /\ busy' \in {"first", "restart", "no"}
      BY <2>2 DEF Slots
    <3> QED  BY <1>1, <2>1, <3>1, <3>2 DEF AfkInv, SessionInv, SessionTypes, States
  <2>4. LaunchFits'
    BY <1>1, <2>1, <2>2 DEF AfkInv, SessionInv, LaunchFits, Coming, Active
  <2>5. ClientFits'
    BY <2>1 DEF AfkInv, SessionInv, ClientFits
  <2>6. CountFits'
    BY <2>1, <2>2, Limits DEF AfkInv, SessionInv, CountFits, ClientFits, Coming
  <2>7. ReportsFit' /\ KickKnown'
    BY <1>1, <2>1, ReportsStay DEF AfkInv, KickKnown
  <2> QED  BY <1>1, <2>3, <2>4, <2>5, <2>6, <2>7 DEF AfkInv, SessionInv
<1> QED  BY <1>2, <1>3

LEMMA StopFits ==
  ASSUME AfkInv, busy = "no", Stop, io' = io
  PROVE  SessionInv'
<1>1. /\ timer' = "off" /\ stopRequested' = TRUE
      /\ UNCHANGED <<busy, revision, launched, generation, process, attempts, streak, joined,
                     failure, phase, launches, kicks>>
      /\ process = 0 => script' = FALSE /\ state' = "stopped" /\ UNCHANGED <<stdin, killing>>
      /\ process # 0 => /\ stdin' = stdin \cup {"quit"} /\ killing' = TRUE
                        /\ state' = "stopping" /\ script' = script
  BY DEF Stop, launchVars, countVars, historyVars
<1>2. SessionTypes'
  <2>1. CASE process = 0
    BY <1>1, <2>1 DEF AfkInv, SessionInv, SessionTypes, States
  <2>2. CASE process # 0
    BY <1>1, <2>2 DEF AfkInv, SessionInv, SessionTypes, States
  <2> QED  BY <2>1, <2>2
<1>3. LaunchFits'
  BY <1>1 DEF AfkInv, SessionInv, LaunchFits, Coming
<1>4. ClientFits'
  BY <1>1 DEF AfkInv, SessionInv, ClientFits
<1>5. CountFits'
  BY <1>1 DEF AfkInv, SessionInv, SessionTypes, CountFits, Coming
<1>6. ReportsFit' /\ KickKnown'
  BY <1>1, ReportsStay DEF AfkInv, KickKnown
<1> QED  BY <1>2, <1>3, <1>4, <1>5, <1>6 DEF SessionInv

LEMMA OnStopFits ==
  ASSUME AfkInv, OnStop
  PROVE  AfkInv'
BY CommandedTypes, StopFits DEF OnStop, AfkInv

LEMMA OnSendFits ==
  ASSUME AfkInv, NEW line \in {"quit", "reco"}, OnSend(line)
  PROVE  AfkInv'
<1>1. PlayerTypes' /\ busy = "no" /\ io' = io
  BY CommandedTypes DEF OnSend
<1>2. CASE process = 0
  BY <1>1, <1>2, SessionStays DEF AfkInv, OnSend
<1>3. CASE process # 0 /\ line = "quit"
  BY <1>1, <1>3, StopFits DEF AfkInv, OnSend
<1>4. CASE process # 0 /\ line # "quit"
  <2>1. /\ script' = TRUE /\ stdin' = stdin \cup {"reco"}
        /\ UNCHANGED <<state, busy, revision, launched, generation, process, stopRequested,
                       attempts, streak, joined, timer, killing, failure, phase, launches, kicks>>
    BY <1>4 DEF OnSend, actorVars, launchVars, countVars, historyVars
  <2>2. SessionTypes'
    BY <1>1, <2>1 DEF AfkInv, SessionInv, SessionTypes
  <2>3. LaunchFits'
    BY <1>4, <2>1 DEF AfkInv, SessionInv, LaunchFits, Coming, Active
  <2>4. ClientFits'
    BY <2>1 DEF AfkInv, SessionInv, ClientFits
  <2>5. CountFits'
    BY <2>1 DEF AfkInv, SessionInv, CountFits, Coming
  <2>6. ReportsFit' /\ KickKnown'
    BY <1>1, <2>1, ReportsStay, KickStays DEF AfkInv
  <2> QED  BY <1>1, <2>2, <2>3, <2>4, <2>5, <2>6 DEF AfkInv, SessionInv
<1> QED  BY <1>2, <1>3, <1>4

-----------------------------------------------------------------------------
(* Launches and timers.                                                    *)
LEMMA PlayerStays ==
  ASSUME AfkInv, UNCHANGED <<callVars, settingsVars, commandVars, used>>
  PROVE  PlayerTypes'
BY DEF AfkInv, PlayerTypes, callVars, settingsVars, commandVars

LEMMA WriteConfigFits ==
  ASSUME AfkInv, WriteConfig
  PROVE  AfkInv'
<1>1. /\ busy # "no" /\ script' = TRUE /\ io' = io
      /\ UNCHANGED <<state, busy, revision, launched, generation, process, stopRequested,
                     attempts, streak, joined, timer, killing, failure, phase, stdin,
                     launches, kicks>>
  BY DEF WriteConfig, actorVars, launchVars, countVars, clientVars, historyVars
<1>2. PlayerTypes'
  BY PlayerStays DEF WriteConfig
<1>3. SessionTypes' /\ ClientFits'
  BY <1>1 DEF AfkInv, SessionInv, SessionTypes, ClientFits
<1>4. LaunchFits' /\ CountFits'
  BY <1>1 DEF AfkInv, SessionInv, LaunchFits, CountFits, Coming, Active
<1>5. ReportsFit' /\ KickKnown'
  BY <1>1, ReportsStay, KickStays DEF AfkInv
<1> QED  BY <1>2, <1>3, <1>4, <1>5 DEF AfkInv, SessionInv

LEMMA SpawnClientFits ==
  ASSUME AfkInv, SpawnClient
  PROVE  AfkInv'
<1>1. /\ busy # "no" /\ busy' = "no" /\ io' = io /\ revision' = revision
      /\ generation' = generation + 1 /\ process' = generation' /\ launched' = revision
      /\ phase' = "up" /\ stdin' = {} /\ state' = "connecting" /\ launches' = launches + 1
      /\ \/ streak' = 0 /\ kicks' = 0
         \/ streak' = streak /\ kicks' = kicks
      /\ UNCHANGED <<stopRequested, attempts, joined, timer, killing, failure, script>>
  BY DEF SpawnClient, Launched
<1>2. PlayerTypes'
  BY PlayerStays DEF SpawnClient, Launched
<1>3. process = 0 /\ timer = "off" /\ ~stopRequested /\ joined = "no" /\ ~killing /\ Coming
  BY <1>1 DEF AfkInv, SessionInv, LaunchFits, ClientFits, Coming
<1>4. generation \in Nat /\ process' # 0
  BY <1>1 DEF AfkInv, SessionInv, SessionTypes
<1>5. SessionTypes'
  BY <1>1, <1>4, Limits DEF AfkInv, SessionInv, SessionTypes, States
<1>6. LaunchFits' /\ ClientFits'
  BY <1>1, <1>3, <1>4 DEF AfkInv, SessionInv, LaunchFits, ClientFits, Coming
<1>7. CountFits'
  BY <1>1, <1>3, Limits DEF AfkInv, SessionInv, SessionTypes, CountFits, Coming
<1>8. ReportsFit' /\ KickKnown'
  <2>1. \A i \in DOMAIN io : io[i].gen \in 1..generation
    BY DEF AfkInv, SessionInv, ReportsFit
  <2>2. \A i \in DOMAIN io : io[i].gen \in 1..generation + 1 /\ io[i].gen # generation + 1
    BY <1>4, <2>1
  <2> QED  BY <1>1, <2>2 DEF ReportsFit, KickKnown, Own
<1> QED  BY <1>2, <1>5, <1>6, <1>7, <1>8 DEF AfkInv, SessionInv

LEMMA LaunchFailedFits ==
  ASSUME AfkInv, PrepareFails \/ SpawnFails
  PROVE  AfkInv'
<1>1. /\ busy # "no" /\ busy' = "no" /\ io' = io /\ revision' = revision
      /\ script' = FALSE
      /\ \/ /\ attempts < Retries /\ enabled /\ busy = "restart"
            /\ attempts' = attempts + 1 /\ timer' = "restart" /\ state' = "reconnecting"
         \/ state' = "error" /\ UNCHANGED <<attempts, timer>>
      /\ streak' = IF busy = "restart" /\ enabled THEN 0 ELSE streak
      /\ launches' = launches + 1 /\ kicks' = 0
      /\ UNCHANGED <<launched, generation, process, stopRequested, joined, killing, failure,
                     phase, stdin>>
  BY DEF PrepareFails, SpawnFails, LaunchFailed, Launched, Restarts, clientVars, AfkInv, SessionInv,
         SessionTypes
<1>2. PlayerTypes'
  BY PlayerStays DEF PrepareFails, SpawnFails, LaunchFailed, Launched
<1>3. process = 0 /\ timer = "off" /\ ~stopRequested /\ joined = "no" /\ ~killing /\ Coming
  BY <1>1 DEF AfkInv, SessionInv, LaunchFits, ClientFits, Coming
<1>4. SessionTypes'
  <2>1. /\ attempts' \in 0..Retries /\ streak' \in 0..RepeatedKicks
        /\ launches' \in Nat /\ kicks' \in Nat
    BY <1>1, Limits DEF AfkInv, SessionInv, SessionTypes
  <2>2. timer' \in {"off", "restart"} \cup Slots /\ state' \in States
    BY <1>1, <1>3 DEF States
  <2> QED  BY <1>1, <2>1, <2>2 DEF AfkInv, SessionInv, SessionTypes
<1>5. LaunchFits' /\ ClientFits'
  BY <1>1, <1>3 DEF AfkInv, SessionInv, LaunchFits, ClientFits, Coming, Active
<1>6. CountFits'
  BY <1>1, <1>3, Limits DEF AfkInv, SessionInv, SessionTypes, CountFits, ClientFits, Coming
<1>7. ReportsFit' /\ KickKnown'
  BY <1>1, <1>3, ReportsStay DEF AfkInv, KickKnown
<1> QED  BY <1>2, <1>4, <1>5, <1>6, <1>7 DEF AfkInv, SessionInv

LEMMA TimerDueFits ==
  ASSUME AfkInv, TimerDue
  PROVE  AfkInv'
<1>1. /\ busy = "no" /\ timer # "off" /\ io' = io
      /\ UNCHANGED <<launched, generation, process, stopRequested, attempts, streak, joined,
                     killing, script, phase, stdin, launches, kicks>>
  BY DEF TimerDue, countVars, clientVars, historyVars
<1>2. PlayerTypes'
  BY PlayerStays DEF TimerDue
<1>3. process = 0 /\ Coming /\ timer \in {"restart", "slotFirst", "slotRestart"}
  BY <1>1 DEF AfkInv, SessionInv, SessionTypes, LaunchFits, Coming, Slots
<1>4. \/ timer' = "off" /\ UNCHANGED <<busy, revision, state>>
      \/ /\ ~stopRequested /\ state' \in {state, "reconnecting"}
         /\ \/ busy' \in {"first", "restart"} /\ revision' = saved /\ timer' = "off"
            \/ timer' = "slotRestart" /\ UNCHANGED <<busy, revision>>
  <2>1. CASE stopRequested \/ process # 0
    BY <2>1 DEF TimerDue
  <2>2. CASE ~(stopRequested \/ process # 0) /\ timer = "restart"
    BY <2>2 DEF TimerDue, OnRestartDue, Launch, LaunchNow, Slot
  <2>3. CASE ~(stopRequested \/ process # 0) /\ timer = "slotFirst"
    BY <2>3 DEF TimerDue, LaunchNow
  <2>4. CASE ~(stopRequested \/ process # 0) /\ timer = "slotRestart"
    BY <2>4 DEF TimerDue, LaunchNow
  <2> QED  BY <1>3, <2>1, <2>2, <2>3, <2>4
<1>5. failure' \in {failure, "none"}
  <2>1. CASE stopRequested \/ process # 0
    BY <2>1 DEF TimerDue
  <2>2. CASE ~(stopRequested \/ process # 0) /\ timer = "restart"
    BY <2>2 DEF TimerDue, OnRestartDue
  <2>3. CASE ~(stopRequested \/ process # 0) /\ timer # "restart"
    BY <1>3, <2>3 DEF TimerDue
  <2> QED  BY <2>1, <2>2, <2>3
<1>6. SessionTypes'
  BY <1>1, <1>4, <1>5 DEF AfkInv, PlayerTypes, SessionInv, SessionTypes, States, Slots
<1>7. LaunchFits' /\ ClientFits'
  BY <1>1, <1>3, <1>4 DEF AfkInv, SessionInv, LaunchFits, ClientFits, Coming, Active
<1>8. CountFits'
  BY <1>1, <1>3, <1>4 DEF AfkInv, SessionInv, SessionTypes, CountFits, ClientFits, Coming
<1>9. ReportsFit' /\ KickKnown'
  BY <1>1, <1>3, ReportsStay DEF AfkInv, KickKnown
<1> QED  BY <1>2, <1>6, <1>7, <1>8, <1>9 DEF AfkInv, SessionInv

-----------------------------------------------------------------------------
(* The clients' reports.                                                   *)
LEMMA ReportedKeeps ==
  ASSUME AfkInv, Reported
  PROVE  /\ PlayerTypes' /\ busy = "no" /\ io # <<>> /\ io' = Tail(io)
         /\ UNCHANGED <<busy, revision, launched, generation, stopRequested, phase, stdin,
                        launches, kicks>>
         /\ io' \in Seq(Report) /\ ReportsFit'
<1>1. /\ busy = "no" /\ io # <<>> /\ io' = Tail(io)
      /\ UNCHANGED <<busy, revision, launched, generation, stopRequested, phase, stdin,
                     launches, kicks>>
  BY DEF Reported, launchVars, clientVars, historyVars
<1>2. PlayerTypes'
  BY PlayerStays DEF Reported
<1> QED  BY <1>1, <1>2, ReportTaken DEF AfkInv

LEMMA OnLateFits ==
  ASSUME AfkInv, OnLate
  PROVE  AfkInv'
<1>1. /\ Reported /\ ~IsCurrent(Head(io).gen)
      /\ UNCHANGED <<state, process, attempts, streak, joined, timer, killing, failure, script>>
  BY DEF OnLate, countVars
<1>2. SessionTypes' /\ LaunchFits' /\ ClientFits' /\ CountFits'
  BY <1>1, ReportedKeeps DEF AfkInv, SessionInv, SessionTypes, LaunchFits, ClientFits, CountFits,
                             Coming, Active
<1>3. KickKnown'
  BY <1>1, ReportedKeeps, NothingLearnt DEF AfkInv
<1> QED  BY <1>1, <1>2, <1>3, ReportedKeeps DEF AfkInv, SessionInv

\* A line of the running client: nothing is launched or waited for.
LEMMA LineRead ==
  ASSUME AfkInv, NEW what, OnLine(what)
  PROVE  /\ Reported /\ Head(io).what = what /\ IsCurrent(Head(io).gen)
         /\ UNCHANGED <<process, timer, killing>>
         /\ process # 0 /\ process = generation /\ Own(Head(io))
         /\ timer = "off" /\ ~Coming
<1>1. /\ Reported /\ Head(io).what = what /\ IsCurrent(Head(io).gen) /\ busy = "no" /\ io # <<>>
      /\ UNCHANGED <<process, timer, killing>>
  BY DEF OnLine, Reported
<1>2. Head(io).gen \in 1..generation /\ generation \in Nat /\ process \in {0, generation}
  <2>1. Head(io) = io[1] /\ 1 \in DOMAIN io
    BY <1>1, TailOf DEF AfkInv, SessionInv, SessionTypes
  <2> QED  BY <2>1 DEF AfkInv, SessionInv, SessionTypes, ReportsFit
<1>3. process # 0 /\ process = generation /\ Own(Head(io))
  BY <1>1, <1>2 DEF IsCurrent, Own
<1>4. timer = "off"
  BY <1>3 DEF AfkInv, SessionInv, LaunchFits
<1> QED  BY <1>1, <1>3, <1>4 DEF Coming

LEMMA OnConnectingFits ==
  ASSUME AfkInv, OnConnecting
  PROVE  AfkInv'
<1>1. /\ OnLine("connecting") /\ state' \in {state, "connecting"}
      /\ UNCHANGED <<attempts, streak, joined, failure, script>>
  BY DEF OnConnecting, countVars
<1>2. SessionTypes'
  <2>1. Reported /\ UNCHANGED <<process, timer, killing>>
    BY <1>1, LineRead
  <2>2. /\ io' \in Seq(Report)
        /\ UNCHANGED <<busy, revision, launched, generation, stopRequested, phase, stdin,
                       launches, kicks>>
    BY <2>1, ReportedKeeps
  <2> QED  BY <1>1, <2>1, <2>2 DEF AfkInv, SessionInv, SessionTypes, States
<1>3. LaunchFits' /\ ClientFits' /\ CountFits'
  BY <1>1, LineRead, ReportedKeeps DEF AfkInv, SessionInv, LaunchFits, ClientFits, CountFits,
                                       Coming, Active
<1>4. KickKnown'
  BY <1>1, LineRead, ReportedKeeps, NothingLearnt DEF AfkInv
<1> QED  BY <1>1, <1>2, <1>3, <1>4, LineRead, ReportedKeeps DEF AfkInv, SessionInv

LEMMA OnJoinedFits ==
  ASSUME AfkInv, OnJoined
  PROVE  AfkInv'
<1>1. /\ OnLine("joined")
      /\ \/ UNCHANGED <<state, joined, failure, script>>
         \/ state' = "connected" /\ joined' = "short" /\ failure' = "none" /\ script' = FALSE
      /\ UNCHANGED <<attempts, streak>>
  BY DEF OnJoined
<1>2. SessionTypes'
  <2>1. Reported /\ UNCHANGED <<process, timer, killing>>
    BY <1>1, LineRead
  <2>2. /\ io' \in Seq(Report)
        /\ UNCHANGED <<busy, revision, launched, generation, stopRequested, phase, stdin,
                       launches, kicks>>
    BY <2>1, ReportedKeeps
  <2>3. /\ state' \in States /\ joined' \in {"no", "short", "long"}
        /\ failure' \in Failures \cup {"none"} /\ script' \in BOOLEAN
    BY <1>1 DEF AfkInv, SessionInv, SessionTypes, States
  <2> QED  BY <1>1, <2>1, <2>2, <2>3 DEF AfkInv, SessionInv, SessionTypes
<1>3. LaunchFits' /\ ClientFits' /\ CountFits'
  BY <1>1, LineRead, ReportedKeeps DEF AfkInv, SessionInv, LaunchFits, ClientFits, CountFits,
                                       Coming, Active
<1>4. KickKnown'
  BY <1>1, LineRead, ReportedKeeps, NothingLearnt DEF AfkInv
<1> QED  BY <1>1, <1>2, <1>3, <1>4, LineRead, ReportedKeeps DEF AfkInv, SessionInv

\* A lasting connection clears the counters, one without launches behind it.
LEMMA CountersAfter ==
  ASSUME AfkInv, NEW kind \in Failures \cup {"none"}
  PROVE  /\ AttemptsAfter(kind) \in 0..Retries /\ RepeatsAfter(kind) \in 0..RepeatedKicks
         /\ kind = "login" => RepeatsAfter(kind) = streak
         /\ AttemptsAfter(kind) = attempts \/ (AttemptsAfter(kind) = 0 /\ launches = 0)
         /\ RepeatsAfter(kind) \in {streak, 0}
BY Limits DEF AfkInv, SessionInv, SessionTypes, CountFits, AttemptsAfter, RepeatsAfter, Lasted

LEMMA OnDisruptionFits ==
  ASSUME AfkInv, NEW kind \in Failures, OnDisruption(kind)
  PROVE  AfkInv'
<1>1. /\ OnLine(kind) /\ UNCHANGED <<joined, script>>
      /\ stopRequested => UNCHANGED <<state, attempts, streak, failure>>
      /\ ~stopRequested => /\ failure' = kind
                           /\ attempts' = AttemptsAfter(kind) /\ streak' = RepeatsAfter(kind)
                           /\ state' \in {"reconnecting", "error"}
  BY DEF OnDisruption
<1>2. /\ attempts' \in 0..Retries /\ streak' \in 0..RepeatedKicks
      /\ attempts' = attempts \/ launches = 0
      /\ streak' = streak \/ streak' = 0
      /\ kind = "login" => streak' = streak
  BY <1>1, CountersAfter DEF AfkInv, SessionInv, SessionTypes
<1>3. failure' \in Failures \cup {"none"} /\ state' \in States
  BY <1>1 DEF AfkInv, SessionInv, SessionTypes, States
<1>4. SessionTypes'
  BY <1>1, <1>2, <1>3, LineRead, ReportedKeeps DEF AfkInv, SessionInv, SessionTypes
<1>5. LaunchFits' /\ ClientFits'
  BY <1>1, LineRead, ReportedKeeps DEF AfkInv, SessionInv, LaunchFits, ClientFits, Coming, Active
<1>6. phase \in {"leaving", "gone"} /\ kind \notin {"connecting", "joined", "exited"}
  BY <1>1, LineRead, ReportedKeeps, KickRead DEF AfkInv, Failures
<1>7. CountFits'
  BY <1>1, <1>2, <1>6, LineRead, ReportedKeeps, Limits
     DEF AfkInv, SessionInv, SessionTypes, CountFits, Coming
<1>8. KickKnown'
  <2>1. SUFFICES ASSUME ~stopRequested, kicks # 0
                 PROVE  /\ kicks <= streak' + 1 /\ failure' = "login"
                        /\ \A i \in DOMAIN io' : Own(io'[i]) => io'[i].what = "exited"
    BY <1>1, LineRead, ReportedKeeps DEF KickKnown, Own
  <2>2. /\ kicks <= streak + 1 /\ kind = "login"
        /\ \A i \in DOMAIN io : Own(io[i]) /\ i # 1 => io[i].what = "exited"
    BY <1>1, <1>6, <2>1, LineRead, ReportedKeeps, KickRead DEF AfkInv
  <2>3. \A i \in DOMAIN io' : i + 1 \in DOMAIN io /\ i + 1 # 1 /\ io'[i] = io[i + 1]
    <3>1. io # <<>> /\ io' = Tail(io) /\ io \in Seq(Report)
      BY <1>1, LineRead, ReportedKeeps DEF AfkInv, SessionInv, SessionTypes
    <3> QED  BY <3>1, TailOf
  <2> QED  BY <1>1, <1>2, <2>1, <2>2, <2>3
<1> QED  BY <1>1, <1>4, <1>5, <1>7, <1>8, LineRead, ReportedKeeps DEF AfkInv, SessionInv

LEMMA OnExitedFits ==
  ASSUME AfkInv, OnExited
  PROVE  AfkInv'
<1>1. /\ Reported /\ Head(io).what = "exited" /\ IsCurrent(Head(io).gen)
      /\ process' = 0 /\ killing' = FALSE /\ script' = FALSE
      /\ failure' = "none" /\ joined' = "no"
  BY DEF OnExited
<1>2. PICK tried \in 0..Retries : /\ tried = AttemptsAfter(failure)
                                  /\ tried = attempts \/ (tried = 0 /\ launches = 0)
  BY CountersAfter DEF AfkInv, SessionInv, SessionTypes
<1>3. PICK repeats \in 0..RepeatedKicks : /\ repeats = RepeatsAfter(failure)
                                          /\ repeats \in {streak, 0}
                                          /\ failure = "login" => repeats = streak
  BY CountersAfter DEF AfkInv, SessionInv, SessionTypes
<1>4. /\ process # 0 /\ phase = "gone"
      /\ ~stopRequested /\ kicks # 0 => kicks <= streak + 1 /\ failure = "login"
  BY <1>1, ReportedKeeps, KickRead DEF AfkInv
<1>5. timer = "off" /\ busy = "no" /\ streak < RepeatedKicks
  BY <1>1, <1>4, ReportedKeeps DEF AfkInv, SessionInv, LaunchFits, CountFits
<1>6. \/ /\ state' \in {"stopped", "error"} /\ attempts' = tried /\ timer' = "off"
      \/ /\ ~stopRequested /\ tried < Retries /\ (failure = "login" => repeats + 1 < RepeatedKicks)
         /\ attempts' = tried + 1 /\ timer' = "restart" /\ state' = "reconnecting"
  BY <1>2, <1>3, <1>5 DEF OnExited, Decide, Restarts
<1>7. streak' = IF stopRequested THEN repeats ELSE IF failure = "login" THEN repeats + 1 ELSE 0
  BY <1>3 DEF OnExited
<1>8. attempts' \in 0..Retries /\ streak' \in 0..RepeatedKicks
  BY <1>2, <1>3, <1>5, <1>6, <1>7, Limits DEF AfkInv, SessionInv, SessionTypes
<1>9. SessionTypes'
  BY <1>1, <1>6, <1>8, ReportedKeeps DEF AfkInv, SessionInv, SessionTypes, States
<1>10. LaunchFits' /\ ClientFits'
  BY <1>1, <1>4, <1>5, <1>6, ReportedKeeps
     DEF AfkInv, SessionInv, LaunchFits, ClientFits, Coming, Active
<1>11. CountFits'
  <2>1. launches' = launches /\ kicks' = kicks /\ phase' = "gone" /\ busy' = "no"
    BY <1>1, <1>4, ReportedKeeps
  <2>2. /\ launches \in Nat /\ kicks \in Nat /\ launches <= attempts + 1
        /\ kicks <= RepeatedKicks /\ attempts \in Nat /\ streak \in Nat
    BY <1>5, Limits DEF AfkInv, SessionInv, SessionTypes, CountFits, Coming
  <2>3. launches' <= attempts' + (IF timer' # "off" THEN 0 ELSE 1)
    BY <1>2, <1>6, <2>1, <2>2
  <2>4. timer' # "off" => kicks' <= streak' /\ streak' < RepeatedKicks
    BY <1>3, <1>4, <1>6, <1>7, <2>1, <2>2, Limits
  <2> QED  BY <1>1, <2>1, <2>2, <2>3, <2>4 DEF CountFits, Coming
<1>12. KickKnown'
  BY <1>1 DEF KickKnown
<1> QED  BY <1>1, <1>9, <1>10, <1>11, <1>12, ReportedKeeps DEF AfkInv, SessionInv

LEMMA KillDueFits ==
  ASSUME AfkInv, KillDue
  PROVE  AfkInv'
<1>1. /\ busy = "no" /\ killing /\ killing' = FALSE
      /\ \/ phase = "gone" /\ UNCHANGED <<phase, io>>
         \/ phase # "gone" /\ phase' = "gone" /\ io' = Append(io, [gen |-> process, what |-> "exited"])
      /\ UNCHANGED <<state, busy, revision, launched, generation, process, stopRequested,
                     attempts, streak, joined, timer, failure, script, stdin, launches, kicks>>
  BY DEF KillDue, launchVars, countVars, historyVars
<1>2. PlayerTypes'
  BY PlayerStays DEF KillDue
<1>3. stopRequested /\ process # 0 /\ process = generation /\ process \in 1..generation
  BY <1>1 DEF AfkInv, SessionInv, SessionTypes, ClientFits
<1>4. io' \in Seq(Report) /\ ReportsFit'
  <2>1. CASE phase = "gone"
    BY <1>1, <2>1, ReportsStay DEF AfkInv, SessionInv, SessionTypes
  <2>2. CASE phase # "gone"
    <3>1. PICK last \in Report : last = [gen |-> process, what |-> "exited"]
      BY <1>3 DEF Report, Reportable, AfkInv, SessionInv, SessionTypes
    <3>2. /\ io' \in Seq(Report)
          /\ \A i \in DOMAIN io' : (i \in DOMAIN io /\ io'[i] = io[i]) \/ io'[i] = last
      BY <1>1, <2>2, <3>1 DEF AfkInv, SessionInv, SessionTypes
    <3> QED  BY <1>1, <1>3, <2>2, <3>1, <3>2 DEF AfkInv, SessionInv, ReportsFit
  <2> QED  BY <2>1, <2>2
<1>5. SessionTypes'
  BY <1>1, <1>4 DEF AfkInv, SessionInv, SessionTypes
<1>6. LaunchFits' /\ ClientFits'
  BY <1>1, <1>3 DEF AfkInv, SessionInv, LaunchFits, ClientFits, Coming, Active
<1>7. CountFits'
  BY <1>1 DEF AfkInv, SessionInv, CountFits, Coming
<1>8. KickKnown'
  BY <1>1, <1>3 DEF KickKnown
<1> QED  BY <1>2, <1>4, <1>5, <1>6, <1>7, <1>8 DEF AfkInv, SessionInv

-----------------------------------------------------------------------------
(* The client process.                                                     *)
LEMMA ClientStepKeeps ==
  ASSUME AfkInv, NEW reports, ClientStep(reports), phase # "gone"
  PROVE  /\ PlayerTypes' /\ io' = io \o reports
         /\ UNCHANGED <<state, busy, revision, launched, generation, process, stopRequested,
                        attempts, streak, joined, timer, killing, failure, script, launches>>
         /\ process # 0 /\ process = generation /\ generation \in Nat /\ generation # 0
         /\ LaunchFits' /\ timer = "off" /\ ~Coming /\ ~Coming'
<1>1. /\ io' = io \o reports
      /\ UNCHANGED <<state, busy, revision, launched, generation, process, stopRequested,
                     attempts, streak, joined, timer, killing, failure, script, launches>>
  BY DEF ClientStep, actorVars, launchVars, countVars
<1>2. PlayerTypes'
  BY PlayerStays DEF ClientStep
<1>3. process # 0 /\ process = generation /\ generation \in Nat /\ generation # 0
  BY DEF AfkInv, SessionInv, SessionTypes, ClientFits
<1>4. timer = "off" /\ busy = "no"
  BY <1>3 DEF AfkInv, SessionInv, LaunchFits
<1>5. LaunchFits'
  BY <1>1 DEF AfkInv, SessionInv, LaunchFits, Coming, Active
<1> QED  BY <1>1, <1>2, <1>3, <1>4, <1>5 DEF Coming

LEMMA Spoken ==
  ASSUME generation \in Nat, generation # 0, NEW what \in Reportable
  PROVE  Says(what) \in Report /\ Says(what).gen \in 1..generation /\ Says(what).what = what
BY DEF Says, Report

\* The client goes on, or comes back after /reco.
LEMMA ClientGoesOnFits ==
  ASSUME AfkInv, ClientJoins \/ ClientReadsReco
  PROVE  AfkInv'
<1>1. PICK what \in {"joined", "connecting"} :
         /\ ClientStep(<<Says(what)>>) /\ phase \in {"up", "in"} /\ phase' \in {"up", "in"}
         /\ stdin' \in {stdin, stdin \ {"reco"}} /\ kicks' = kicks
  BY DEF ClientJoins, ClientReadsReco
<1>2. io' \in Seq(Report) /\ ReportsFit'
  <2>1. generation \in Nat /\ generation # 0 /\ io' = io \o <<Says(what)>> /\ generation' = generation
    BY <1>1, ClientStepKeeps
  <2>2. Says(what) \in Report /\ Says(what).gen \in 1..generation /\ Says(what).what = what
    BY <2>1, Spoken DEF Reportable
  <2>3. PICK more \in Seq(Report) : /\ more = <<Says(what)>>
                                    /\ \A j \in DOMAIN more : more[j] = Says(what)
    BY <2>2, OneReport
  <2> QED  BY <1>1, <2>1, <2>2, <2>3, ReportsCome DEF AfkInv
<1>3. SessionTypes'
  BY <1>1, <1>2, ClientStepKeeps DEF AfkInv, SessionInv, SessionTypes
<1>4. ClientFits' /\ CountFits'
  BY <1>1, ClientStepKeeps DEF AfkInv, SessionInv, ClientFits, CountFits
<1>5. KickKnown'
  BY <1>1 DEF KickKnown
<1> QED  BY <1>1, <1>2, <1>3, <1>4, <1>5, ClientStepKeeps DEF AfkInv, SessionInv

LEMMA ClientDropsFits ==
  ASSUME AfkInv, NEW kind \in Failures, ClientDrops(kind)
  PROVE  AfkInv'
<1>1. /\ ClientStep(<<Says(kind)>>) /\ phase \in {"up", "in"} /\ phase' = "leaving"
      /\ kicks' = (IF kind = "login" THEN kicks + 1 ELSE 0) /\ stdin' = stdin
  BY DEF ClientDrops
<1>2. /\ generation \in Nat /\ generation # 0 /\ process = generation /\ process' = process
      /\ io' = io \o <<Says(kind)>> /\ generation' = generation /\ streak' = streak
      /\ ~Coming' /\ launches' = launches /\ attempts' = attempts /\ joined' = joined
  BY <1>1, ClientStepKeeps
<1>3. /\ Says(kind) \in Report /\ Says(kind).gen = generation /\ Says(kind).gen \in 1..generation
      /\ Says(kind).what = kind /\ kind # "exited"
  BY <1>2, Spoken DEF Reportable, Failures, Says
<1>4. PICK more \in Seq(Report) : /\ more = <<Says(kind)>> /\ DOMAIN more = {1}
                                  /\ \A j \in DOMAIN more : more[j] = Says(kind)
  BY <1>3, OneReport
<1>5. io' \in Seq(Report) /\ ReportsFit'
  BY <1>1, <1>2, <1>3, <1>4, ReportsCome DEF AfkInv
<1>6. kicks \in Nat /\ streak \in Nat /\ kicks <= streak /\ streak < RepeatedKicks
  BY <1>1, <1>2, Limits DEF AfkInv, SessionInv, SessionTypes, CountFits
<1>7. kicks' \in Nat /\ kicks' <= streak + 1 /\ kicks' <= RepeatedKicks
  BY <1>1, <1>6, Limits
<1>8. SessionTypes'
  BY <1>1, <1>5, <1>7, ClientStepKeeps DEF AfkInv, SessionInv, SessionTypes
<1>9. ClientFits'
  BY <1>1, <1>2, ClientStepKeeps DEF AfkInv, SessionInv, ClientFits
<1>10. CountFits'
  <2>1. launches <= attempts + 1
    BY DEF AfkInv, SessionInv, SessionTypes, CountFits
  <2> QED  BY <1>1, <1>2, <1>6, <1>7, <2>1 DEF AfkInv, SessionInv, CountFits
<1>11. KickKnown'
  <2>1. SUFFICES ASSUME kicks' # 0  PROVE kicks' <= streak' + 1 /\ \E i \in DOMAIN io' : Kicked(i)'
    BY DEF KickKnown
  <2>2. kind = "login"
    BY <1>1, <2>1
  <2>3. PICK n \in Nat : n = Len(io) + 1
    BY DEF AfkInv, SessionInv, SessionTypes
  <2>4. /\ \A i \in DOMAIN io' : \/ i \in DOMAIN io /\ io'[i] = io[i] /\ i < n
                                 \/ i = n /\ io'[i] = Says(kind)
        /\ n \in DOMAIN io' /\ io'[n] = Says(kind)
    BY <1>2, <1>3, <2>3 DEF AfkInv, SessionInv, SessionTypes
  <2>5. \A i \in DOMAIN io : Own(io[i]) => io[i].what \in {"connecting", "joined"}
    BY <1>1 DEF AfkInv, SessionInv, ReportsFit
  <2>6. \A i \in DOMAIN io' : \/ i = n
                              \/ i < n /\ (Own(io'[i]) => io'[i].what \in {"connecting", "joined"})
    BY <2>4, <2>5
  <2>7. io'[n].gen = generation' /\ io'[n].what = "login"
    BY <1>2, <1>3, <2>2, <2>4
  <2>8. \A i \in DOMAIN io' : Own(io'[i]) <=> io'[i].gen = generation'
    BY <1>2 DEF Own
  <2>9. Kicked(n)'
    <3>1. \A i \in DOMAIN io' : ~(i > n)
      BY <2>3, <2>6
    <3>2. \A i \in DOMAIN io' : io'[i].gen = generation' /\ i < n =>
                                   io'[i].what \in {"connecting", "joined"}
      BY <2>3, <2>6, <2>8
    <3> QED  BY <2>7, <3>1, <3>2 DEF Kicked, Own
  <2> QED  BY <1>2, <1>7, <2>4, <2>9
<1> QED  BY <1>1, <1>5, <1>8, <1>9, <1>10, <1>11, ClientStepKeeps DEF AfkInv, SessionInv

LEMMA ClientExitsFits ==
  ASSUME AfkInv, ClientExits
  PROVE  AfkInv'
<1>1. /\ ClientStep(<<Says("exited")>>) /\ phase = "leaving" /\ phase' = "gone"
      /\ stdin' = stdin /\ kicks' = kicks
  BY DEF ClientExits
<1>2. /\ generation \in Nat /\ generation # 0 /\ process = generation /\ process' = process
      /\ io' = io \o <<Says("exited")>>
      /\ UNCHANGED <<generation, streak, stopRequested, failure, launches, attempts, joined>>
      /\ ~Coming'
  BY <1>1, ClientStepKeeps
<1>3. /\ Says("exited") \in Report /\ Says("exited").gen \in 1..generation
      /\ Says("exited").what = "exited"
  BY <1>2, Spoken DEF Reportable
<1>4. PICK more \in Seq(Report) : /\ more = <<Says("exited")>>
                                  /\ \A j \in DOMAIN more : more[j] = Says("exited")
  BY <1>3, OneReport
<1>5. io' \in Seq(Report) /\ ReportsFit'
  BY <1>1, <1>2, <1>3, <1>4, ReportsCome DEF AfkInv
<1>6. SessionTypes'
  BY <1>1, <1>5, ClientStepKeeps DEF AfkInv, SessionInv, SessionTypes
<1>7. ClientFits' /\ CountFits'
  BY <1>1, <1>2, ClientStepKeeps DEF AfkInv, SessionInv, ClientFits, CountFits
<1>8. KickKnown'
  <2>1. SUFFICES ASSUME ~stopRequested, kicks # 0
                 PROVE  /\ kicks <= streak + 1
                        /\ \/ failure = "login" /\ \A i \in DOMAIN io' : Own(io'[i]) => io'[i].what = "exited"
                           \/ \E i \in DOMAIN io' : Kicked(i)'
    BY <1>1, <1>2 DEF KickKnown, Own
  <2>2. /\ \A i \in DOMAIN io : i \in Nat /\ i \in DOMAIN io' /\ io'[i] = io[i]
        /\ \A i \in DOMAIN io' : \/ i \in DOMAIN io /\ io'[i] = io[i]
                                 \/ /\ io'[i].what = "exited"
                                    /\ \A j \in DOMAIN io : j < i
    BY <1>2, <1>3 DEF AfkInv, SessionInv, SessionTypes
  <2>3. CASE failure = "login" /\ \A i \in DOMAIN io : Own(io[i]) => io[i].what = "exited"
    <3>1. \A i \in DOMAIN io' : Own(io'[i]) => io'[i].what = "exited"
      BY <2>2, <2>3
    <3>2. kicks <= streak + 1
      BY <1>1, <1>2, <2>1 DEF AfkInv, SessionInv, KickKnown
    <3> QED  BY <2>3, <3>1, <3>2
  <2>4. ASSUME NEW i \in DOMAIN io, Kicked(i)  PROVE i \in DOMAIN io' /\ Kicked(i)'
    <3>1. i \in Nat /\ i \in DOMAIN io' /\ io'[i] = io[i]
      BY <2>2
    <3>2. \A j \in DOMAIN io' : j < i => j \in DOMAIN io /\ io'[j] = io[j]
      <4>1. \A j \in DOMAIN io' : j \in Nat
        BY <1>5 DEF SessionTypes
      <4> QED  BY <2>2, <3>1, <4>1
    <3>3. Own(io'[i]) /\ io'[i].what = "login"
      BY <2>4, <3>1 DEF Kicked
    <3>4. \A j \in DOMAIN io' : Own(io'[j]) /\ j < i => io'[j].what \in {"connecting", "joined"}
      BY <2>4, <3>2 DEF Kicked
    <3>5. \A j \in DOMAIN io' : Own(io'[j]) /\ j > i => io'[j].what = "exited"
      BY <2>2, <2>4 DEF Kicked
    <3> QED  BY <1>2, <3>1, <3>3, <3>4, <3>5 DEF Kicked, Own
  <2>5. kicks <= streak + 1
    BY <1>1, <1>2, <2>1 DEF AfkInv, SessionInv, KickKnown
  <2> QED  BY <1>1, <1>2, <2>1, <2>3, <2>4, <2>5 DEF AfkInv, SessionInv, KickKnown
<1> QED  BY <1>1, <1>5, <1>6, <1>7, <1>8, ClientStepKeeps DEF AfkInv, SessionInv

LEMMA ClientDiesFits ==
  ASSUME AfkInv, NEW late \in {<<>>, <<Says("lost")>>}, ClientDies(late)
  PROVE  AfkInv'
<1>1. /\ ClientStep(<<Says("exited")>> \o late) /\ phase \in {"up", "in"} /\ phase' = "gone"
      /\ stdin' = stdin /\ kicks' = 0
  BY DEF ClientDies
<1>2. /\ generation \in Nat /\ generation # 0
      /\ io' = io \o (<<Says("exited")>> \o late)
      /\ UNCHANGED <<generation, launches, attempts, joined>> /\ ~Coming'
  BY <1>1, ClientStepKeeps
<1>3. /\ Says("exited") \in Report /\ Says("exited").gen \in 1..generation
      /\ Says("lost") \in Report /\ Says("lost").gen \in 1..generation
  BY <1>2, Spoken DEF Reportable, Failures
<1>4. PICK more \in Seq(Report) : /\ more = <<Says("exited")>> \o late
                                  /\ \A j \in DOMAIN more : more[j].gen \in 1..generation
  <2>1. CASE late = <<>>
    <3>1. PICK a \in Report : a = Says("exited")
      BY <1>3
    <3>2. <<a>> \o <<>> \in Seq(Report) /\ \A j \in DOMAIN (<<a>> \o <<>>) : (<<a>> \o <<>>)[j] = a
      OBVIOUS
    <3> QED  BY <1>3, <2>1, <3>1, <3>2
  <2>2. CASE late = <<Says("lost")>>
    <3>1. PICK a \in Report : a = Says("exited")
      BY <1>3
    <3>2. PICK b \in Report : b = Says("lost")
      BY <1>3
    <3>3. a.gen \in 1..generation /\ b.gen \in 1..generation
      BY <1>3, <3>1, <3>2
    <3>4. <<a>> \o <<b>> \in Seq(Report) /\ \A j \in DOMAIN (<<a>> \o <<b>>) : (<<a>> \o <<b>>)[j] \in {a, b}
      OBVIOUS
    <3> QED  BY <2>2, <3>1, <3>2, <3>3, <3>4
  <2> QED  BY <2>1, <2>2
<1>5. io' \in Seq(Report) /\ ReportsFit'
  BY <1>1, <1>2, <1>4, ReportsCome DEF AfkInv
<1>6. SessionTypes'
  BY <1>1, <1>5, ClientStepKeeps DEF AfkInv, SessionInv, SessionTypes
<1>7. ClientFits' /\ CountFits'
  BY <1>1, <1>2, ClientStepKeeps, Limits DEF AfkInv, SessionInv, ClientFits, CountFits
<1>8. KickKnown'
  BY <1>1 DEF KickKnown
<1> QED  BY <1>1, <1>5, <1>6, <1>7, <1>8, ClientStepKeeps DEF AfkInv, SessionInv

LEMMA ClientReadsQuitFits ==
  ASSUME AfkInv, ClientReadsQuit
  PROVE  AfkInv'
<1>1. /\ ClientStep(<<Says("exited")>>) /\ phase \in {"up", "in"} /\ phase' = "gone"
      /\ "quit" \in stdin /\ stdin' = stdin /\ kicks' = kicks
  BY DEF ClientReadsQuit
<1>2. /\ generation \in Nat /\ generation # 0 /\ process # 0
      /\ io' = io \o <<Says("exited")>> /\ generation' = generation
      /\ stopRequested' = stopRequested
  BY <1>1, ClientStepKeeps
<1>3. stopRequested
  BY <1>1, <1>2 DEF AfkInv, SessionInv, ClientFits
<1>4. Says("exited") \in Report /\ Says("exited").gen \in 1..generation
  BY <1>2, Spoken DEF Reportable
<1>5. PICK more \in Seq(Report) : /\ more = <<Says("exited")>>
                                  /\ \A j \in DOMAIN more : more[j] = Says("exited")
  BY <1>4, OneReport
<1>6. io' \in Seq(Report) /\ ReportsFit'
  BY <1>1, <1>2, <1>4, <1>5, ReportsCome DEF AfkInv
<1>7. SessionTypes'
  BY <1>1, <1>6, ClientStepKeeps DEF AfkInv, SessionInv, SessionTypes
<1>8. ClientFits' /\ CountFits'
  BY <1>1, <1>2, ClientStepKeeps DEF AfkInv, SessionInv, ClientFits, CountFits
<1>9. KickKnown'
  BY <1>2, <1>3 DEF KickKnown
<1> QED  BY <1>1, <1>6, <1>7, <1>8, <1>9, ClientStepKeeps DEF AfkInv, SessionInv

LEMMA TimePassesFits ==
  ASSUME AfkInv, TimePasses
  PROVE  AfkInv'
<1>1. /\ joined = "short" /\ joined' = "long" /\ launches' = 0 /\ io' = io
      /\ UNCHANGED <<state, busy, revision, launched, generation, process, stopRequested,
                     attempts, streak, timer, killing, failure, script, phase, stdin, kicks>>
  BY DEF TimePasses, launchVars, clientVars
<1>2. used' \in [calls : 0..MaxCalls, sends : 0..MaxSends, longs : 0..MaxLong]
  BY Uses DEF AfkInv, TimePasses
<1>3. PlayerTypes'
  BY <1>2 DEF AfkInv, PlayerTypes, TimePasses, callVars, settingsVars, commandVars
<1>4. process # 0
  BY <1>1 DEF AfkInv, SessionInv, ClientFits
<1>5. SessionTypes'
  BY <1>1 DEF AfkInv, SessionInv, SessionTypes
<1>6. LaunchFits' /\ ClientFits'
  BY <1>1, <1>4 DEF AfkInv, SessionInv, LaunchFits, ClientFits, Coming, Active
<1>7. CountFits'
  BY <1>1 DEF AfkInv, SessionInv, SessionTypes, CountFits, Coming
<1>8. ReportsFit' /\ KickKnown'
  BY <1>1, ReportsStay, KickStays DEF AfkInv
<1> QED  BY <1>3, <1>5, <1>6, <1>7, <1>8 DEF AfkInv, SessionInv

-----------------------------------------------------------------------------

LEMMA InitFits == Init => AfkInv
<1> SUFFICES ASSUME Init PROVE AfkInv
  OBVIOUS
<1>1. PlayerTypes
  <2>1. saved \in 0..MaxSaves
    BY Limits DEF Init
  <2>2. used \in [calls : 0..MaxCalls, sends : 0..MaxSends, longs : 0..MaxLong]
    BY Limits DEF Init
  <2>3. commands \in Seq({"start", "stop", "quit", "reco"})
    BY DEF Init
  <2>4. waiting \in BOOLEAN /\ handing \in BOOLEAN /\ redo \in BOOLEAN /\ pending \in BOOLEAN
        /\ enabled \in BOOLEAN /\ wish \in {"on", "off"}
    BY DEF Init
  <2> QED  BY <2>1, <2>2, <2>3, <2>4 DEF PlayerTypes
<1>2. SessionTypes
  <2>1. /\ revision \in 0..MaxSaves /\ launched \in 0..MaxSaves /\ attempts \in 0..Retries
        /\ streak \in 0..RepeatedKicks /\ launches \in Nat /\ kicks \in Nat
        /\ generation \in Nat /\ process \in {0, generation}
    BY Limits DEF Init
  <2>2. io \in Seq(Report)
    BY DEF Init
  <2>3. stopRequested \in BOOLEAN /\ killing \in BOOLEAN /\ script \in BOOLEAN
    BY DEF Init
  <2>4. /\ state \in States /\ busy \in {"first", "restart", "no"}
        /\ joined \in {"no", "short", "long"} /\ timer \in {"off", "restart"} \cup Slots
        /\ failure \in Failures \cup {"none"} /\ phase \in {"gone", "up", "in", "leaving"}
        /\ stdin \subseteq {"quit", "reco"}
    BY DEF Init, States
  <2> QED  BY <2>1, <2>2, <2>3, <2>4 DEF SessionTypes
<1>3. LaunchFits /\ ClientFits
  BY DEF Init, LaunchFits, ClientFits, Coming
<1>4. CountFits
  BY Limits DEF Init, CountFits, Coming
<1>5. ReportsFit /\ KickKnown
  BY DEF Init, ReportsFit, KickKnown
<1> QED  BY <1>1, <1>2, <1>3, <1>4, <1>5 DEF AfkInv, SessionInv

LEMMA StepFits == AfkInv /\ [Next]_vars => AfkInv'
<1> SUFFICES ASSUME AfkInv, [Next]_vars PROVE AfkInv'
  OBVIOUS
<1>1. CASE UNCHANGED vars
  <2>1. UNCHANGED <<callVars, settingsVars, commandVars, used>>
    BY <1>1 DEF vars
  <2>2. UNCHANGED <<io, actorVars, script, clientVars, historyVars>>
    BY <1>1 DEF vars, actorVars
  <2> QED  BY <2>1, <2>2, PlayerStays, SessionStays DEF AfkInv
<1>2. CASE Connect \/ Disconnect \/ Reconnect
  BY <1>2, CallsFit
<1>3. CASE ReconnectGoesOn \/ ClientReady \/ ClientUnavailable
  BY <1>3, GoesOnFits
<1>4. CASE StartSession \/ SaveSettings \/ \E line \in {"quit", "reco"} : Send(line)
  BY <1>4, StartSessionFits, SaveSettingsFits, SendFits
<1>5. CASE Commands
  BY <1>5, OnStartFits, OnStopFits, OnSendFits DEF Commands
<1>6. CASE Launching
  BY <1>6, WriteConfigFits, SpawnClientFits, LaunchFailedFits DEF Launching
<1>7. CASE Reports
  BY <1>7, OnLateFits, OnConnectingFits, OnJoinedFits, OnExitedFits, OnDisruptionFits DEF Reports
<1>8. CASE Client
  <2>1. CASE ClientDies(<<>>) \/ ClientDies(<<Says("lost")>>)
    BY <2>1, ClientDiesFits
  <2>2. CASE ClientJoins \/ ClientReadsReco
    BY <2>2, ClientGoesOnFits
  <2>3. CASE ClientExits \/ ClientReadsQuit \/ \E kind \in Failures : ClientDrops(kind)
    BY <2>3, ClientExitsFits, ClientReadsQuitFits, ClientDropsFits
  <2> QED  BY <1>8, <2>1, <2>2, <2>3 DEF Client
<1>9. CASE TimerDue \/ KillDue \/ TimePasses
  BY <1>9, TimerDueFits, KillDueFits, TimePassesFits
<1> QED  BY <1>1, <1>2, <1>3, <1>4, <1>5, <1>6, <1>7, <1>8, <1>9 DEF Next, Others

\* Whether or not a disconnect may come between, and whatever is fair.
LEMMA AlwaysFits == Spec \/ OrderlySpec => []AfkInv /\ [][Next]_vars
<1>1. [OrderlyNext]_vars => [Next]_vars
  BY DEF OrderlyNext, Next
<1> QED  BY <1>1, InitFits, StepFits, PTL DEF Spec, OrderlySpec

-----------------------------------------------------------------------------
(* The login script, a file with passwords, lies in the account's folder   *)
(* only while a client runs or is being launched (remove_login_script).    *)
THEOREM PasswordsGo == Spec \/ OrderlySpec => []PasswordFileGoes
<1>1. AfkInv => PasswordFileGoes
  BY DEF AfkInv, SessionInv, LaunchFits, PasswordFileGoes
<1> QED  BY <1>1, AlwaysFits, PTL

(* A session that will start a client by itself counts as active, and one  *)
(* shown at a server has a client (is_active).                             *)
THEOREM ShowsTruly == Spec \/ OrderlySpec => []ShownTruly
<1>1. AfkInv => ShownTruly
  BY DEF AfkInv, SessionInv, LaunchFits, Coming, ShownTruly
<1> QED  BY <1>1, AlwaysFits, PTL

(* No more launches follow each other than the retry limit allows, unless  *)
(* one led to a lasting connection, and kicks for the login in a row end   *)
(* the session (AutoRelog, REPEATED_KICKS); every variable keeps its type. *)
THEOREM WithinLimits == Spec \/ OrderlySpec => []LimitsHold
<1>1. AfkInv => LimitsHold
  <2> SUFFICES ASSUME AfkInv PROVE LimitsHold
    OBVIOUS
  <2>1. TypeOK
    BY DEF AfkInv, PlayerTypes, SessionInv, SessionTypes, Report, TypeOK
  <2>2. launches <= Retries + 1
    BY Limits DEF AfkInv, SessionInv, SessionTypes, CountFits
  <2>3. kicks <= RepeatedKicks
    BY DEF AfkInv, SessionInv, CountFits
  <2> QED  BY <2>1, <2>2, <2>3 DEF LimitsHold
<1> QED  BY <1>1, AlwaysFits, PTL

(* A client of an account is started only when the one before is gone and  *)
(* no stop was asked for (spawn_client, on_stop).                          *)
THEOREM OneAtATime == Spec \/ OrderlySpec => OneClient
<1>1. AfkInv /\ [Next]_vars => (generation' # generation => phase = "gone" /\ ~stopRequested)
  <2>1. SUFFICES ASSUME AfkInv, [Next]_vars, generation' # generation
                 PROVE  phase = "gone" /\ ~stopRequested
    OBVIOUS
  <2>2. SpawnClient
    <3>1. CASE UNCHANGED vars
      BY <2>1, <3>1 DEF vars, launchVars
    <3>2. CASE \/ Connect \/ Disconnect \/ Reconnect \/ ReconnectGoesOn \/ ClientReady
               \/ ClientUnavailable \/ StartSession \/ SaveSettings
               \/ \E line \in {"quit", "reco"} : Send(line)
      BY <2>1, <3>2 DEF Connect, Disconnect, Reconnect, Call, ReconnectGoesOn, ClientReady,
                        ClientUnavailable, StartSession, SaveSettings, Send, actorVars, launchVars
    <3>3. CASE Commands
      BY <2>1, <3>3 DEF Commands, OnStart, OnStop, OnSend, Stop, actorVars, launchVars
    <3>4. CASE Launching
      BY <2>1, <3>4 DEF Launching, WriteConfig, PrepareFails, SpawnFails, LaunchFailed, actorVars,
                        launchVars
    <3>5. CASE Reports
      BY <2>1, <3>5 DEF Reports, OnLate, OnConnecting, OnJoined, OnExited, OnDisruption, OnLine,
                        Reported, launchVars
    <3>6. CASE Client
      BY <2>1, <3>6 DEF Client, ClientJoins, ClientExits, ClientReadsQuit, ClientReadsReco,
                        ClientDrops, ClientDies, ClientStep, actorVars, launchVars
    <3>7. CASE TimerDue \/ KillDue \/ TimePasses
      BY <2>1, <3>7 DEF TimerDue, KillDue, TimePasses, launchVars
    <3> QED  BY <2>1, <3>1, <3>2, <3>3, <3>4, <3>5, <3>6, <3>7 DEF Next, Others
  <2>3. busy # "no" /\ process = 0 /\ ~stopRequested
    BY <2>1, <2>2 DEF SpawnClient, Launched, AfkInv, SessionInv, LaunchFits
  <2> QED  BY <2>1, <2>3 DEF AfkInv, SessionInv, ClientFits
<1> QED  BY <1>1, AlwaysFits, PTL DEF OneClient
=============================================================================
