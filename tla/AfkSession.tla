----------------------------- MODULE AfkSession -----------------------------
(***************************************************************************)
(* One AFK account (crates/pl-afk): the calls of the player (manager.rs),  *)
(* the session's actor with its restart, slot and kill timers (session.rs, *)
(* restart.rs), the client process and the queues between them.            *)
(*                                                                         *)
(* The actor takes commands, client output and timers in any order         *)
(* (tokio::select!), one whole handler at a time; only preparing a launch  *)
(* is spread over several steps, during which it takes nothing else.       *)
(* Restart delays, console, dialogs and the account's removal are left out.*)
(***************************************************************************)
EXTENDS Naturals, Sequences

CONSTANTS
    Retries,       \* AutoRelog retry limit
    RepeatedKicks, \* REPEATED_KICKS: kicks for the login that end a session
    MaxCalls,      \* bound: connects, disconnects and reconnects
    MaxSends,      \* bound: lines the player types
    MaxSaves,      \* bound: settings saved
    MaxLong        \* bound: lasting connections

ASSUME LimitAssumption == Retries \in Nat /\ RepeatedKicks \in Nat \ {0}
ASSUME BoundAssumption == {MaxCalls, MaxSends, MaxSaves, MaxLong} \subseteq Nat

VARIABLES
    wish,     \* the player's last call: "on" or "off"
    waiting,  \* the account waits for the AFK client to be ready
    handing,  \* it is, and the session is being started
    redo,     \* a reconnect waits until the session is idle
    enabled,  \* automatic reconnects, as saved now
    saved,    \* the settings' revision
    commands, \* the actor's commands
    pending,  \* start_pending
    io,       \* the clients' output: [gen, what]
    state,    \* SessionState
    busy,     \* the launch being prepared: "first", "restart" or "no"
    revision, \* the settings it read
    launched, \* launched_revision
    process,  \* the running client's generation, 0 for none
    generation,
    stopRequested,
    attempts, \* restart_attempts
    streak,   \* kicks for the login in a row (last_cause and cause_repeats)
    joined,   \* joined_at: "no", "short" or "long" ago
    timer,    \* restart_at with paced: "off", "restart", "slotFirst", "slotRestart"
    killing,  \* kill_at
    failure,  \* what the client reported
    script,   \* the login script, a file with passwords
    phase,    \* the client process: "gone", "up" (connecting), "in" game, "leaving"
    stdin,    \* what it has not read yet
    used,     \* what the bounds count
    launches, \* launches since the last start or lasting connection
    kicks     \* kicks for the login in a row, as the client saw them

callVars == <<wish, waiting, handing, redo>>
settingsVars == <<enabled, saved>>
commandVars == <<commands, pending>>
launchVars == <<busy, revision, launched, generation>>
countVars == <<attempts, streak, joined>>
clientVars == <<phase, stdin>>
historyVars == <<launches, kicks>>
vars == <<callVars, settingsVars, commandVars, io, state, launchVars, process,
          stopRequested, countVars, timer, killing, failure, script, clientVars,
          used, historyVars>>
\* What only the actor changes.
actorVars == <<state, launchVars, process, stopRequested, countVars, timer, killing,
               failure>>

Init ==
    /\ wish = "off" /\ waiting = FALSE /\ handing = FALSE /\ redo = FALSE
    /\ enabled = TRUE /\ saved = 0
    /\ commands = <<>> /\ pending = FALSE /\ io = <<>>
    /\ state = "stopped"
    /\ busy = "no" /\ revision = 0 /\ launched = 0 /\ generation = 0
    /\ process = 0
    /\ stopRequested = FALSE
    /\ attempts = 0 /\ streak = 0 /\ joined = "no"
    /\ timer = "off" /\ killing = FALSE /\ failure = "none" /\ script = FALSE
    /\ phase = "gone" /\ stdin = {}
    /\ used = [calls |-> 0, sends |-> 0, longs |-> 0]
    /\ launches = 0 /\ kicks = 0

Active == state \notin {"stopped", "error"}
Idle == process = 0 /\ ~Active
Count(what) == used' = [used EXCEPT ![what] = @ + 1]

-----------------------------------------------------------------------------
(***************************************************************************)
(* The player: connect, disconnect, reconnect, send, saved settings.       *)
(***************************************************************************)
Call(what) ==
    /\ used.calls < MaxCalls /\ Count("calls")
    /\ wish' = what
    /\ UNCHANGED <<settingsVars, io, actorVars, script, clientVars, historyVars>>

\* A client that runs already is enough.
Connect ==
    /\ Call("on")
    /\ waiting' = (waiting \/ process = 0)
    /\ UNCHANGED <<handing, redo, commandVars>>

Disconnect ==
    /\ Call("off")
    /\ waiting' = FALSE
    /\ commands' = Append(commands, "stop")
    /\ UNCHANGED <<handing, redo, pending>>

Reconnect ==
    /\ Call("on") /\ ~redo
    /\ IF process # 0 \/ pending \/ Active
       THEN /\ commands' = Append(commands, "stop")
            /\ redo' = TRUE
            /\ UNCHANGED <<waiting, pending>>
       ELSE waiting' = TRUE /\ UNCHANGED <<commandVars, redo>>
    /\ UNCHANGED handing

\* wait_idle has seen the session idle, or waited as long as it does; it connects.
ReconnectGoesOn ==
    /\ redo /\ redo' = FALSE
    /\ waiting' = (waiting \/ process = 0)
    /\ UNCHANGED <<wish, handing, settingsVars, commandVars, io, actorVars, script,
                   clientVars, used, historyVars>>

\* run_preparation takes its waiters, then starts their sessions.
ClientReady ==
    /\ waiting
    /\ waiting' = FALSE /\ handing' = TRUE
    /\ UNCHANGED <<wish, redo, settingsVars, commandVars, io, actorVars, script,
                   clientVars, used, historyVars>>

ClientUnavailable ==
    /\ waiting
    /\ waiting' = FALSE
    /\ UNCHANGED <<wish, handing, redo, settingsVars, commandVars, io, actorVars, script,
                   clientVars, used, historyVars>>

StartSession ==
    /\ handing
    /\ handing' = FALSE
    /\ commands' = Append(commands, "start") /\ pending' = TRUE
    /\ UNCHANGED <<wish, waiting, redo, settingsVars, io, actorVars, script,
                   clientVars, used, historyVars>>

Send(line) ==
    /\ process # 0
    /\ used.sends < MaxSends /\ Count("sends")
    /\ commands' = Append(commands, line)
    /\ UNCHANGED <<pending, callVars, settingsVars, io, actorVars, script, clientVars,
                   historyVars>>

SaveSettings ==
    /\ saved < MaxSaves
    /\ saved' = saved + 1
    /\ enabled' \in BOOLEAN
    /\ UNCHANGED <<callVars, commandVars, io, actorVars, script, clientVars, used,
                   historyVars>>

-----------------------------------------------------------------------------
(***************************************************************************)
(* Launching.  A launch goes at once or waits for its connection slot.     *)
(***************************************************************************)
Slot(kind) == IF kind = "first" THEN "slotFirst" ELSE "slotRestart"
Slots == {"slotFirst", "slotRestart"}

LaunchNow(kind) == busy' = kind /\ revision' = saved /\ timer' = "off"

Launch(kind) ==
    \/ LaunchNow(kind)
    \/ timer' = Slot(kind) /\ UNCHANGED <<busy, revision>>

Commanded(command) ==
    /\ busy = "no" /\ commands # <<>> /\ Head(commands) = command
    /\ commands' = Tail(commands)
    /\ pending' = (pending /\ command # "start")
    /\ UNCHANGED <<callVars, settingsVars, io, used>>

\* (A mutant: only a launch that waits for its slot is looked at.)
OnStartAnyway ==
    /\ Commanded("start")
    /\ IF timer \in Slots
       THEN UNCHANGED <<actorVars, historyVars>>
       ELSE /\ stopRequested' = FALSE
            /\ attempts' = 0 /\ streak' = 0 /\ joined' = "no"
            /\ failure' = "none"
            /\ state' = "starting"
            /\ Launch("first")
            /\ launches' = 0 /\ kicks' = 0
            /\ UNCHANGED <<launched, generation, process, killing>>
    /\ UNCHANGED <<script, clientVars>>

\* Ignored while a client runs or a launch waits for its slot.
OnStart ==
    /\ Commanded("start")
    /\ IF process # 0 \/ timer \in Slots
       THEN UNCHANGED <<actorVars, historyVars>>
       ELSE /\ stopRequested' = FALSE
            /\ attempts' = 0 /\ streak' = 0 /\ joined' = "no"
            /\ failure' = "none"
            /\ state' = "starting"
            /\ Launch("first")
            /\ launches' = 0 /\ kicks' = 0
            /\ UNCHANGED <<launched, generation, process, killing>>
    /\ UNCHANGED <<script, clientVars>>

\* (on_stop) The client gets /quit and is killed after a while.
Stop ==
    /\ timer' = "off"
    /\ stopRequested' = TRUE
    /\ IF process = 0
       THEN script' = FALSE /\ state' = "stopped" /\ UNCHANGED <<stdin, killing>>
       ELSE /\ stdin' = stdin \cup {"quit"}
            /\ killing' = TRUE /\ state' = "stopping"
            /\ UNCHANGED script
    /\ UNCHANGED <<launchVars, process, countVars, failure, phase, historyVars>>

OnStop == Commanded("stop") /\ Stop

\* /quit typed by the player is a stop; /reco needs the login script again.
OnSend(line) ==
    /\ Commanded(line)
    /\ IF process = 0
       THEN UNCHANGED <<actorVars, script, clientVars, historyVars>>
       ELSE IF line = "quit" THEN Stop
       ELSE /\ script' = TRUE
            /\ stdin' = stdin \cup {"reco"}
            /\ UNCHANGED <<actorVars, phase, historyVars>>

-----------------------------------------------------------------------------
(***************************************************************************)
(* decide_failure, with the latest settings.  A failure is "lost" (it may  *)
(* be tried again), a kick for the "login" (several in a row end the       *)
(* session) or "final" (a ban, an unsupported version, a message the       *)
(* settings do not reconnect on); "none" is an exit without a report.      *)
(***************************************************************************)
Failures == {"lost", "login", "final"}

Restarts(kind, tried, repeats) ==
    /\ enabled /\ kind # "final" /\ tried < Retries
    /\ kind = "login" => repeats + 1 < RepeatedKicks

\* (A mutant: also a kick for the login ends a lasting connection.)
LastedAnyway(kind) == joined = "long"

\* lasting: however long it sat at the login, it never got in.
Lasted(kind) == joined = "long" /\ kind # "login"

AttemptsAfter(kind) == IF Lasted(kind) THEN 0 ELSE attempts
RepeatsAfter(kind) == IF Lasted(kind) THEN 0 ELSE streak

\* prepare ends by writing the configuration, the login script last.
WriteConfig ==
    /\ busy # "no" /\ ~script
    /\ script' = TRUE
    /\ UNCHANGED <<callVars, settingsVars, commandVars, io, actorVars, clientVars, used,
                   historyVars>>

\* The launch ends: the client is spawned, or it is not.
Launched == /\ busy # "no" /\ busy' = "no"
            /\ UNCHANGED <<callVars, settingsVars, commandVars, io, revision, used>>

SpawnClient ==
    /\ Launched /\ script
    /\ generation' = generation + 1
    /\ process' = generation'
    /\ launched' = revision
    /\ phase' = "up" /\ stdin' = {}
    /\ state' = "connecting"
    /\ launches' = launches + 1
    /\ IF busy = "restart" /\ launched # revision
       THEN streak' = 0 /\ kicks' = 0
       ELSE UNCHANGED <<streak, kicks>>
    /\ UNCHANGED <<stopRequested, attempts, joined, timer, killing, failure, script>>

\* launch_failed: a restart that fails keeps the loop going.
LaunchFailed ==
    /\ Launched
    /\ IF busy = "restart" /\ Restarts("lost", attempts, 0)
       THEN attempts' = attempts + 1 /\ timer' = "restart" /\ state' = "reconnecting"
       ELSE state' = "error" /\ UNCHANGED <<attempts, timer>>
    /\ streak' = IF busy = "restart" /\ enabled THEN 0 ELSE streak
    /\ launches' = launches + 1 /\ kicks' = 0
    /\ UNCHANGED <<launched, generation, process, stopRequested, joined, killing,
                   failure, clientVars>>

\* The account's secrets, the client or the folder cannot be had.
PrepareFails == LaunchFailed /\ ~script /\ UNCHANGED script

\* (A mutant: the login script stays when the client cannot be started.)
SpawnFailsKeeping == LaunchFailed /\ script /\ UNCHANGED script

\* The configuration is written, but the process cannot be started.
SpawnFails == LaunchFailed /\ script /\ script' = FALSE

OnRestartDue == state' = "reconnecting" /\ failure' = "none" /\ Launch("restart")

\* The restart is due, or the slot has come.
TimerDue ==
    /\ busy = "no" /\ timer # "off"
    /\ IF stopRequested \/ process # 0
       THEN timer' = "off" /\ UNCHANGED <<busy, revision, state, failure>>
       ELSE CASE timer = "restart" -> OnRestartDue
              [] timer = "slotFirst" -> LaunchNow("first") /\ UNCHANGED <<state, failure>>
              [] timer = "slotRestart" -> LaunchNow("restart") /\ UNCHANGED <<state, failure>>
    /\ UNCHANGED <<callVars, settingsVars, commandVars, io, launched, generation, process,
                   stopRequested, countVars, killing, script, clientVars, used,
                   historyVars>>

-----------------------------------------------------------------------------
(***************************************************************************)
(* What the clients report.                                                *)
(***************************************************************************)
\* (A mutant: lines of any client count.)
IsCurrentAny(gen) == TRUE

IsCurrent(gen) == process = gen

Reported ==
    /\ busy = "no" /\ io # <<>>
    /\ io' = Tail(io)
    /\ UNCHANGED <<callVars, settingsVars, commandVars, launchVars, stopRequested,
                   clientVars, used, historyVars>>

OnLate ==
    /\ Reported /\ ~IsCurrent(Head(io).gen)
    /\ UNCHANGED <<state, process, countVars, timer, killing, failure, script>>

\* A line of the client: nothing of it counts once a stop was asked for.
OnLine(what) ==
    /\ Reported /\ Head(io).what = what /\ IsCurrent(Head(io).gen)
    /\ UNCHANGED <<process, timer, killing>>

OnConnecting ==
    /\ OnLine("connecting")
    /\ state' = IF ~stopRequested /\ state \in {"starting", "reconnecting"}
                THEN "connecting" ELSE state
    /\ UNCHANGED <<countVars, failure, script>>

\* The client has read its login script by now.
OnJoined ==
    /\ OnLine("joined")
    /\ IF stopRequested
       THEN UNCHANGED <<state, joined, failure, script>>
       ELSE state' = "connected" /\ joined' = "short" /\ failure' = "none" /\ script' = FALSE
    /\ UNCHANGED <<attempts, streak>>

\* on_disruption: what is going to happen is shown; the exit decides.
OnDisruption(kind) ==
    /\ OnLine(kind)
    /\ IF stopRequested
       THEN UNCHANGED <<state, attempts, streak, failure>>
       ELSE /\ failure' = kind
            /\ attempts' = AttemptsAfter(kind) /\ streak' = RepeatsAfter(kind)
            /\ state' = IF Restarts(kind, attempts', streak') THEN "reconnecting" ELSE "error"
    /\ UNCHANGED <<joined, script>>

\* (A mutant: the stop is forgotten when the client reported why it left.)
DecideUnasked ==
    IF stopRequested /\ failure = "none" THEN state' = "stopped" /\ UNCHANGED <<attempts, timer>>
    ELSE IF Restarts(failure, AttemptsAfter(failure), RepeatsAfter(failure))
    THEN /\ attempts' = AttemptsAfter(failure) + 1
         /\ timer' = "restart" /\ state' = "reconnecting"
    ELSE /\ attempts' = AttemptsAfter(failure)
         /\ state' \in (IF failure = "none" /\ ~enabled THEN {"stopped", "error"} ELSE {"error"})
         /\ UNCHANGED timer

\* decide_exit and apply_decision.  With no report and no automatic reconnects a
\* clean exit is a stop.
Decide ==
    IF stopRequested THEN state' = "stopped" /\ attempts' = AttemptsAfter(failure) /\ UNCHANGED timer
    ELSE IF Restarts(failure, AttemptsAfter(failure), RepeatsAfter(failure))
    THEN /\ attempts' = AttemptsAfter(failure) + 1
         /\ timer' = "restart" /\ state' = "reconnecting"
    ELSE /\ attempts' = AttemptsAfter(failure)
         /\ state' \in (IF failure = "none" /\ ~enabled THEN {"stopped", "error"} ELSE {"error"})
         /\ UNCHANGED timer

OnExited ==
    /\ Reported /\ Head(io).what = "exited" /\ IsCurrent(Head(io).gen)
    /\ process' = 0 /\ killing' = FALSE /\ script' = FALSE
    /\ failure' = "none" /\ joined' = "no"
    /\ Decide
    /\ streak' = IF stopRequested THEN RepeatsAfter(failure)
                 ELSE IF failure = "login" THEN RepeatsAfter(failure) + 1 ELSE 0

\* The client ignored /quit; killing it is not waited for.
KillDue ==
    /\ busy = "no" /\ killing
    /\ killing' = FALSE
    /\ IF phase = "gone" THEN UNCHANGED <<phase, io>>
       ELSE phase' = "gone" /\ io' = Append(io, [gen |-> process, what |-> "exited"])
    /\ UNCHANGED <<callVars, settingsVars, commandVars, state, launchVars, process,
                   stopRequested, countVars, timer, failure, script, stdin, used,
                   historyVars>>

-----------------------------------------------------------------------------
(***************************************************************************)
(* The client process, as far as the session sees it.                      *)
(***************************************************************************)
Says(what) == [gen |-> generation, what |-> what]

ClientStep(reports) ==
    /\ io' = io \o reports
    /\ UNCHANGED <<callVars, settingsVars, commandVars, actorVars, script, used, launches>>

ClientJoins ==
    /\ phase = "up" /\ phase' = "in"
    /\ ClientStep(<<Says("joined")>>)
    /\ UNCHANGED <<stdin, kicks>>

\* The connection ends; the process follows it (ExitOnFailure).
ClientDrops(kind) ==
    /\ phase \in {"up", "in"} /\ phase' = "leaving"
    /\ ClientStep(<<Says(kind)>>)
    /\ kicks' = IF kind = "login" THEN kicks + 1 ELSE 0
    /\ UNCHANGED stdin

ClientExits ==
    /\ phase = "leaving" /\ phase' = "gone"
    /\ ClientStep(<<Says("exited")>>)
    /\ UNCHANGED <<stdin, kicks>>

\* It ends without a report, or with one that the drained pipes bring after it.
ClientDies(late) ==
    /\ phase \in {"up", "in"} /\ phase' = "gone"
    /\ ClientStep(<<Says("exited")>> \o late)
    /\ kicks' = 0
    /\ UNCHANGED stdin

ClientReadsQuit ==
    /\ phase \in {"up", "in"} /\ "quit" \in stdin
    /\ phase' = "gone"
    /\ ClientStep(<<Says("exited")>>)
    /\ UNCHANGED <<stdin, kicks>>

ClientReadsReco ==
    /\ phase \in {"up", "in"} /\ "reco" \in stdin
    /\ phase' = "up" /\ stdin' = stdin \ {"reco"}
    /\ ClientStep(<<Says("connecting")>>)
    /\ UNCHANGED kicks

\* stable_after has passed since the join.
TimePasses ==
    /\ joined = "short" /\ used.longs < MaxLong /\ Count("longs")
    /\ joined' = "long"
    /\ launches' = 0
    /\ UNCHANGED <<callVars, settingsVars, commandVars, io, state, launchVars, process,
                   stopRequested, attempts, streak, timer, killing, failure, script,
                   clientVars, kicks>>

-----------------------------------------------------------------------------

Commands == OnStart \/ OnStop \/ \E line \in {"quit", "reco"} : OnSend(line)
Launching == WriteConfig \/ SpawnClient \/ PrepareFails \/ SpawnFails
Reports == \/ OnLate \/ OnConnecting \/ OnJoined \/ OnExited
           \/ \E kind \in Failures : OnDisruption(kind)

Client ==
    \/ ClientJoins \/ ClientExits \/ ClientReadsQuit \/ ClientReadsReco
    \/ \E kind \in Failures : ClientDrops(kind)
    \/ ClientDies(<<>>) \/ ClientDies(<<Says("lost")>>)

Others ==
    \/ Connect \/ Reconnect \/ ReconnectGoesOn \/ ClientReady \/ ClientUnavailable
    \/ (\E line \in {"quit", "reco"} : Send(line)) \/ SaveSettings
    \/ Commands \/ Launching \/ Reports \/ TimerDue \/ KillDue
    \/ Client \/ TimePasses

Next == Others \/ Disconnect \/ StartSession

\* Nothing comes between the two halves of run_preparation, and no disconnect
\* while a reconnect waits.
OrderlyNext == StartSession \/ (~handing /\ (Others \/ (~redo /\ Disconnect)))

(***************************************************************************)
(* select! picks at random among what is ready, so nothing ready is left   *)
(* for ever; preparing ends, a reconnect that can go on does, and a client *)
(* that lost its connection exits (ExitOnFailure).  Nothing is asked of    *)
(* the player, of the server, or of a client told to quit: it is killed.   *)
(***************************************************************************)
Fairness ==
    /\ WF_vars(Commands) /\ WF_vars(Launching) /\ WF_vars(Reports)
    /\ WF_vars(TimerDue) /\ WF_vars(KillDue)
    /\ WF_vars(ClientReady \/ ClientUnavailable) /\ WF_vars(StartSession)
    /\ WF_vars(ReconnectGoesOn)
    /\ WF_vars(ClientExits)

Spec == Init /\ [][Next]_vars /\ Fairness
OrderlySpec == Init /\ [][OrderlyNext]_vars /\ Fairness

-----------------------------------------------------------------------------

States == {"stopped", "starting", "connecting", "connected", "reconnecting",
           "stopping", "error"}
Reportable == Failures \cup {"connecting", "joined", "exited"}

\* Every variable keeps its type.
TypeOK ==
    /\ wish \in {"on", "off"}
    /\ {waiting, handing, redo, pending, enabled, stopRequested, killing, script} \subseteq BOOLEAN
    /\ {saved, revision, launched} \subseteq 0..MaxSaves
    /\ commands \in Seq({"start", "stop", "quit", "reco"})
    /\ io \in Seq([gen : Nat, what : Reportable])
    /\ state \in States
    /\ busy \in {"first", "restart", "no"}
    /\ generation \in Nat /\ process \in {0, generation}
    /\ attempts \in 0..Retries /\ streak \in 0..RepeatedKicks
    /\ joined \in {"no", "short", "long"}
    /\ timer \in {"off", "restart"} \cup Slots
    /\ failure \in Failures \cup {"none"}
    /\ phase \in {"gone", "up", "in", "leaving"} /\ stdin \subseteq {"quit", "reco"}
    /\ used \in [calls : 0..MaxCalls, sends : 0..MaxSends, longs : 0..MaxLong]
    /\ {launches, kicks} \subseteq Nat

\* The file with the login passwords lies in the account's folder only while a
\* client runs or is being launched, however launches fail, stops and /reco fall
\* (remove_login_script).
PasswordFileGoes == script => process # 0 \/ busy # "no"

\* What the launcher asks before it hides, exits or updates is right: a session
\* that will start a client by itself counts as active, one shown at a server has
\* a client (is_active).
ShownTruly ==
    /\ timer # "off" \/ busy # "no" => Active
    /\ state \in {"connecting", "connected", "stopping"} => process # 0

\* However restarts fail and settings change, no more launches follow each other
\* than the retry limit allows, unless one of them led to a lasting connection;
\* kicks for the login in a row end the session, also those that come after a
\* long time at the login (REPEATED_KICKS); and TypeOK.
LimitsHold == TypeOK /\ launches <= Retries + 1 /\ kicks <= RepeatedKicks

\* A second client of an account is never started beside the first, nor one
\* after a stop.
OneClient == [][generation' # generation => phase = "gone" /\ ~stopRequested]_vars

\* A player who at last disconnects the account is obeyed: no client runs and none
\* is started any more.
Down == Idle /\ timer = "off" /\ busy = "no"
LastCallStops == <>[](wish = "off") => <>[]Down

\* A session does not stay "starting" or "reconnecting".
GoesOn == state \in {"starting", "reconnecting"} ~> state \notin {"starting", "reconnecting"}
=============================================================================
