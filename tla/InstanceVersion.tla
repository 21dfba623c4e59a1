-------------------------- MODULE InstanceVersion --------------------------
(***************************************************************************)
(* One instance's version while several commands use it at once (the       *)
(* shell's versions.rs, launch.rs, instances.rs, java.rs): its record      *)
(* (instance.json), the folders of its game directory, the journal of a    *)
(* switch, the instance's lock and SWITCHES, the lock of all switches.     *)
(*                                                                         *)
(* A command reads the record into a copy and goes on with the copy; one   *)
(* action is what a command does between two of its awaits.  How a switch  *)
(* moves folders is VersionSets; here its steps are whole.                 *)
(***************************************************************************)
EXTENDS Integers, Sequences

CONSTANTS
    Versions,    \* Minecraft versions
    Between,     \* the active folders are parked and the target's not yet in
    Launchers,   \* launches (launch_instance)
    Switchers,   \* version switches (instance_switch_version)
    Pages,       \* pages that look at the instance (instance_detail and others)
    Savers,      \* saves of its settings (instance_update_settings, java_use_auto)
    Startup,     \* the recovery at start (recover_unfinished_switches)
    NoJournal,   \* there is no version-switch.json
    MaxSwitches, \* bound: switches begun
    MaxSaves,    \* bound: settings saved
    MaxInterrupts \* bound: I/O errors inside a switch, crashes and power cuts

Tasks == Launchers \cup Switchers \cup Pages \cup Savers \cup {Startup}

Record == [ver : Versions, saves : Nat]
Journal == [from : Versions, to : Versions, step : {"park", "restore", "finalize"}]
NoCopy == [ver |-> Between, saves |-> 0]

ASSUME NamesAssumption == /\ Between \notin Versions
                          /\ NoJournal \notin Journal
                          /\ {MaxSwitches, MaxSaves, MaxInterrupts} \subseteq Nat
ASSUME RolesAssumption == /\ Startup \notin Launchers \cup Switchers \cup Pages \cup Savers
                          /\ Launchers \cap (Switchers \cup Pages \cup Savers) = {}
                          /\ Switchers \cap (Pages \cup Savers) = {}

VARIABLES
    record,    \* instance.json
    folders,   \* the version whose set lies in the game directory
    journal,   \* version-switch.json
    lock,      \* the instance's lock: its holder, then who waits, in turn
    switching, \* SWITCHES, likewise (tokio's mutexes are fair)
    at,        \* where each command is
    copy,      \* its copy of the record
    beside,    \* launches: another game runs in the folder
    job,       \* the switch it works on
    ret,       \* where it goes on after ensure_switch_finished or a switch
    used       \* what the bounds count

vars == <<record, folders, journal, lock, switching, at, copy, beside, job, ret, used>>
diskVars == <<record, folders, journal>>

Init ==
    /\ record \in [ver : Versions, saves : {0}]
    /\ folders = record.ver
    /\ journal = NoJournal
    /\ lock = <<>> /\ switching = <<>>
    /\ at = [t \in Tasks |-> "idle"]
    /\ copy = [t \in Tasks |-> NoCopy]
    /\ beside = [l \in Launchers |-> FALSE]
    /\ job = [t \in Tasks |-> NoJournal]
    /\ ret = [t \in Tasks |-> "idle"]
    /\ used = [switches |-> 0, errors |-> 0, crashes |-> 0]

Playing == \E l \in Launchers : at[l] = "playing"

Goto(t, label) == at' = [at EXCEPT ![t] = label]
Read(t) == copy' = [copy EXCEPT ![t] = record]
Count(what) == used' = [used EXCEPT ![what] = @ + 1]

Holds(t, mutex) == mutex # <<>> /\ Head(mutex) = t
In(t, mutex) == \E i \in DOMAIN mutex : mutex[i] = t
Without(t, mutex) ==
    IF In(t, mutex)
    THEN LET i == CHOOSE i \in DOMAIN mutex : mutex[i] = t
         IN  [j \in 1..Len(mutex) - 1 |-> mutex[IF j < i THEN j ELSE j + 1]]
    ELSE mutex

\* A command that ends gives its locks back, or its place before them.
End(t) == /\ Goto(t, "idle")
          /\ lock' = Without(t, lock)
          /\ switching' = Without(t, switching)
          /\ copy' = [copy EXCEPT ![t] = NoCopy]
          /\ beside' = [l \in Launchers |-> beside[l] /\ l # t]
          /\ job' = [job EXCEPT ![t] = NoJournal]
          /\ ret' = [ret EXCEPT ![t] = "idle"]

-----------------------------------------------------------------------------
(***************************************************************************)
(* ensure_switch_finished: cheap when nothing is pending; else the record  *)
(* is read again and the switch run to its end under SWITCHES.             *)
(***************************************************************************)
\* (A mutant: the record is read again when nothing is pending, but the lock of
\* all switches is not waited for.)
EnterResumeUnlocked(t) ==
    /\ at[t] = "await"
    /\ Read(t)
    /\ job' = [job EXCEPT ![t] = journal]
    /\ Goto(t, IF journal = NoJournal THEN "finished" ELSE "moving")
    /\ UNCHANGED <<diskVars, lock, switching, beside, ret, used>>

Ensure(t, label, after) == Goto(t, label) /\ ret' = [ret EXCEPT ![t] = after]

\* The command goes on with the record it has; a page is done.
Done(t) ==
    IF ret[t] = "idle" THEN End(t)
    ELSE /\ Goto(t, ret[t])
         /\ switching' = Without(t, switching)
         /\ job' = [job EXCEPT ![t] = NoJournal]
         /\ UNCHANGED <<lock, copy, beside, ret>>

CheckPending(t) ==
    /\ at[t] = "check"
    /\ IF journal = NoJournal THEN Done(t)
       ELSE /\ Goto(t, "await") /\ switching' = Append(switching, t)
            /\ UNCHANGED <<lock, copy, beside, job, ret>>
    /\ UNCHANGED <<diskVars, used>>

\* (A mutant: the record is read again under the instance's lock, too.)
EnterResumeLocked(t) ==
    /\ at[t] = "await" /\ Holds(t, switching)
    /\ lock = <<>> \/ Holds(t, lock)
    /\ Read(t)
    /\ job' = [job EXCEPT ![t] = journal]
    /\ Goto(t, IF journal = NoJournal THEN "finished" ELSE "moving")
    /\ UNCHANGED <<diskVars, lock, switching, beside, ret, used>>

EnterResume(t) ==
    /\ at[t] = "await" /\ Holds(t, switching)
    /\ Read(t)
    /\ job' = [job EXCEPT ![t] = journal]
    /\ Goto(t, IF journal = NoJournal THEN "finished" ELSE "moving")
    /\ UNCHANGED <<diskVars, lock, switching, beside, ret, used>>

(***************************************************************************)
(* VersionSets::run and finalize: the folders, the record, the journal.    *)
(***************************************************************************)
SaveStep(t, step) ==
    /\ journal' = [job[t] EXCEPT !.step = step]
    /\ job' = [job EXCEPT ![t].step = step]

ParkFolders(t) ==
    /\ at[t] = "moving" /\ job[t].step = "park"
    /\ folders' = Between
    /\ SaveStep(t, "restore")
    /\ UNCHANGED <<record, lock, switching, at, copy, beside, ret, used>>

RestoreFolders(t) ==
    /\ at[t] = "moving" /\ job[t].step = "restore"
    /\ folders' = job[t].to
    /\ SaveStep(t, "finalize")
    /\ UNCHANGED <<record, lock, switching, at, copy, beside, ret, used>>

\* (A mutant: the journal goes before the instance takes the version.)
UpdateInstanceLate(t) ==
    /\ at[t] = "moving" /\ job[t].step = "finalize"
    /\ copy' = [copy EXCEPT ![t].ver = job[t].to]
    /\ Goto(t, "finish")
    /\ UNCHANGED <<diskVars, lock, switching, beside, job, ret, used>>

UpdateInstance(t) ==
    /\ at[t] = "moving" /\ job[t].step = "finalize"
    /\ copy' = [copy EXCEPT ![t].ver = job[t].to]
    /\ record' = copy'[t]
    /\ Goto(t, "finish")
    /\ UNCHANGED <<folders, journal, lock, switching, beside, job, ret, used>>

FinishSwitch(t) ==
    /\ at[t] = "finish"
    /\ journal' = NoJournal
    /\ Goto(t, "finished")
    /\ UNCHANGED <<record, folders, lock, switching, copy, beside, job, ret, used>>

LeaveSwitch(t) ==
    /\ at[t] = "finished"
    /\ Done(t)
    /\ UNCHANGED <<diskVars, used>>

\* A file that cannot be moved or written ends the command; the journal stays.
IOError(t) ==
    /\ at[t] \in {"moving", "finish"} /\ used.errors + used.crashes < MaxInterrupts
    /\ Count("errors")
    /\ End(t)
    /\ UNCHANGED diskVars

SwitchWork(t) ==
    \/ CheckPending(t) \/ EnterResume(t)
    \/ ParkFolders(t) \/ RestoreFolders(t) \/ UpdateInstance(t)
    \/ FinishSwitch(t) \/ LeaveSwitch(t)

-----------------------------------------------------------------------------
(***************************************************************************)
(* launch_instance: the record is read before the instance's lock is       *)
(* waited for, and so is whether another game runs in the folder.          *)
(***************************************************************************)
LaunchRead(l) ==
    /\ at[l] = "idle"
    /\ Read(l)
    /\ beside' = [beside EXCEPT ![l] = Playing]
    /\ Goto(l, "waiting")
    /\ lock' = Append(lock, l)
    /\ UNCHANGED <<diskVars, switching, job, ret, used>>

LaunchLock(l) ==
    /\ at[l] = "waiting" /\ Holds(l, lock)
    /\ Ensure(l, IF beside[l] THEN "ready" ELSE "check", "ready")
    /\ UNCHANGED <<diskVars, lock, switching, copy, beside, job, used>>

\* The pack synced, the default server seeded, Java changed: each writes the
\* whole copy.  The pack is taken to offer the copy's version (Followed::Member);
\* one that moved to another version (Followed::InPlace) is left out: it names
\* the folders anew where they are.
LaunchWrites(l) ==
    /\ at[l] = "ready"
    /\ record' = copy[l]
    /\ UNCHANGED <<folders, journal, lock, switching, at, copy, beside, job, ret, used>>

\* (A mutant: the lock is given back before the game counts as running.)
LaunchStartsLate(l) ==
    \/ /\ at[l] = "ready"
       /\ Goto(l, "starting")
       /\ lock' = Without(l, lock)
       /\ UNCHANGED <<diskVars, switching, copy, beside, job, ret, used>>
    \/ /\ at[l] = "starting"
       /\ Goto(l, "playing")
       /\ UNCHANGED <<diskVars, lock, switching, copy, beside, job, ret, used>>

\* The lock is held until the game is in the list of running games.
LaunchStarts(l) ==
    /\ at[l] = "ready"
    /\ Goto(l, "playing")
    /\ lock' = Without(l, lock)
    /\ UNCHANGED <<diskVars, switching, copy, beside, job, ret, used>>

\* Cancelled, refused by a check, failed; or the game ends.
LaunchEnds(l) ==
    /\ at[l] \in {"waiting", "ready", "playing"}
    /\ End(l)
    /\ UNCHANGED <<diskVars, used>>

(***************************************************************************)
(* instance_switch_version: refused while the game runs, asked before and  *)
(* after the lock was waited for.                                          *)
(***************************************************************************)
SwitchAsk(s) ==
    /\ at[s] = "idle" /\ ~Playing
    /\ used.switches < MaxSwitches
    /\ Count("switches")
    /\ Goto(s, "waiting")
    /\ lock' = Append(lock, s)
    /\ UNCHANGED <<diskVars, switching, copy, beside, job, ret>>

SwitchLock(s) ==
    /\ at[s] = "waiting" /\ Holds(s, lock)
    /\ IF Playing
       THEN End(s)
       ELSE /\ Read(s) /\ Ensure(s, "check", "choose")
            /\ UNCHANGED <<lock, switching, beside, job>>
    /\ UNCHANGED <<diskVars, used>>

\* switch_target looks the target up (it may wait for the network).
SwitchChoose(s) ==
    /\ at[s] = "choose"
    /\ \E v \in Versions \ {copy[s].ver} :
          job' = [job EXCEPT ![s] = [from |-> copy[s].ver, to |-> v, step |-> "park"]]
    /\ Goto(s, "enter")
    /\ switching' = Append(switching, s)
    /\ UNCHANGED <<diskVars, lock, copy, beside, ret, used>>

\* begin refuses while another switch is unfinished.
SwitchBegin(s) ==
    /\ at[s] = "enter" /\ Holds(s, switching)
    /\ IF journal # NoJournal
       THEN End(s) /\ UNCHANGED journal
       ELSE /\ journal' = job[s]
            /\ Ensure(s, "moving", "sync")
            /\ UNCHANGED <<lock, switching, copy, beside, job>>
    /\ UNCHANGED <<record, folders, used>>

\* The set's pack files are synced with the copy at hand, then the lock goes.
SwitchSync(s) ==
    /\ at[s] = "sync"
    /\ record' \in {record, copy[s]}
    /\ End(s)
    /\ UNCHANGED <<folders, journal, used>>

SwitchGivesUp(s) ==
    /\ at[s] \in {"waiting", "choose"}
    /\ End(s)
    /\ UNCHANGED <<diskVars, used>>

(***************************************************************************)
(* Pages and settings take no instance lock; the recovery at start does.   *)
(***************************************************************************)
PageOpens(p) ==
    /\ at[p] = "idle"
    /\ Read(p)
    /\ Ensure(p, "check", "idle")
    /\ UNCHANGED <<diskVars, lock, switching, beside, job, used>>

SaverReads(u) ==
    /\ at[u] = "idle" /\ record.saves < MaxSaves
    /\ Read(u)
    /\ Goto(u, "save")
    /\ UNCHANGED <<diskVars, lock, switching, beside, job, ret, used>>

SaverWrites(u) ==
    /\ at[u] = "save"
    /\ record' = [copy[u] EXCEPT !.saves = @ + 1]
    /\ End(u)
    /\ UNCHANGED <<folders, journal, used>>

RecoverLock ==
    /\ at[Startup] = "waiting" /\ Holds(Startup, lock)
    /\ Ensure(Startup, "check", "recovered")
    /\ UNCHANGED <<diskVars, lock, switching, copy, beside, job, used>>

RecoverEnds ==
    /\ at[Startup] = "recovered"
    /\ End(Startup)
    /\ UNCHANGED <<diskVars, used>>

\* The launcher stops anywhere (and the game with it: a power cut); the next
\* start recovers when there is a journal.
Crash ==
    /\ used.errors + used.crashes < MaxInterrupts /\ Count("crashes")
    /\ at' = [t \in Tasks |-> IF t = Startup /\ journal # NoJournal
                              THEN "waiting" ELSE "idle"]
    /\ copy' = [t \in Tasks |-> NoCopy]
    /\ beside' = [l \in Launchers |-> FALSE]
    /\ lock' = (IF journal # NoJournal THEN <<Startup>> ELSE <<>>)
    /\ switching' = <<>>
    /\ job' = [t \in Tasks |-> NoJournal]
    /\ ret' = [t \in Tasks |-> "idle"]
    /\ UNCHANGED diskVars

-----------------------------------------------------------------------------

Launch(l) == LaunchRead(l) \/ LaunchLock(l) \/ LaunchWrites(l) \/ LaunchStarts(l)
             \/ LaunchEnds(l)
Switch(s) == SwitchAsk(s) \/ SwitchLock(s) \/ SwitchChoose(s) \/ SwitchBegin(s)
             \/ SwitchSync(s) \/ SwitchGivesUp(s)

Next ==
    \/ \E t \in Tasks : SwitchWork(t) \/ IOError(t)
    \/ \E l \in Launchers : Launch(l)
    \/ \E s \in Switchers : Switch(s)
    \/ \E p \in Pages : PageOpens(p)
    \/ \E u \in Savers : SaverReads(u) \/ SaverWrites(u)
    \/ RecoverLock \/ RecoverEnds
    \/ Crash

Spec == Init /\ [][Next]_vars

(***************************************************************************)
(* tokio gives a mutex to who waits for it in turn, file work and lookups  *)
(* end (a lookup has a timeout), and a launch that is ready starts or is   *)
(* given up.  A game may go on for ever, and nobody has to ask for a       *)
(* switch, a launch or a page.                                             *)
(***************************************************************************)
FairSpec ==
    /\ Spec
    /\ \A t \in Tasks : WF_vars(SwitchWork(t))
    /\ \A l \in Launchers : WF_vars(LaunchLock(l)) /\ WF_vars(LaunchStarts(l))
    /\ \A s \in Switchers : /\ WF_vars(SwitchLock(s)) /\ WF_vars(SwitchChoose(s))
                            /\ WF_vars(SwitchBegin(s)) /\ WF_vars(SwitchSync(s))
    /\ WF_vars(RecoverLock) /\ WF_vars(RecoverEnds)

-----------------------------------------------------------------------------

Labels == {"idle", "waiting", "check", "await", "moving", "finish", "finished",
           "ready", "playing", "choose", "enter", "sync", "save", "recovered"}

\* Every variable keeps its type, and nobody stands twice before a lock.
TypeOK ==
    /\ record \in Record
    /\ folders \in Versions \cup {Between}
    /\ journal \in Journal \cup {NoJournal}
    /\ \A mutex \in {lock, switching} :
          /\ mutex \in Seq(Tasks)
          /\ \A i, j \in DOMAIN mutex : mutex[i] = mutex[j] => i = j
    /\ at \in [Tasks -> Labels]
    /\ copy \in [Tasks -> Record \cup {NoCopy}]
    /\ beside \in [Launchers -> BOOLEAN]
    /\ job \in [Tasks -> Journal \cup {NoJournal}]
    /\ ret \in [Tasks -> Labels]
    /\ used \in [switches : 0..MaxSwitches, errors : 0..MaxInterrupts,
                 crashes : 0..MaxInterrupts]

\* While no switch is unfinished the game directory holds one version's folders,
\* although a page may finish the switch a launch or the recovery is finishing
\* ("a switch in progress is never "resumed" by another command", SWITCHES); and
\* TypeOK.
WholeFolders == TypeOK /\ (journal = NoJournal => folders # Between)

\* The folders never move under a game that did not start beside another: it
\* counts as running before the lock goes, and who waited is then refused.
FirstGamePlaying == \E l \in Launchers : at[l] = "playing" /\ ~beside[l]
FoldersStill == [][FirstGamePlaying => folders' = folders]_vars

\* A switch ends with the instance and its folders on the version the journal
\* names, whoever finishes it (finalize).  The record may carry the old version
\* where a save of the settings wrote it, or a launch beside a game did while a
\* page finished a switch that an I/O error left.
SwitchEndsAtTarget ==
    [][journal # NoJournal /\ journal' = NoJournal =>
          /\ folders' = journal.to
          /\ record'.saves = 0 /\ used.errors = 0 => record'.ver = journal.to]_vars

\* Whoever waits for a lock gets it: the locks are always taken in one order.
NobodyWaitsForever ==
    \A t \in Tasks :
        at[t] \in {"waiting", "await", "enter"}
            ~> at[t] \notin {"waiting", "await", "enter"}

\* A launch waits for a switch that runs and starts the version it ended at
\* (launch.rs: a switch "waits for it ... instead of moving mods/ and config/
\* under a game about to start with the old version").
GamesMatchFolders ==
    \A l \in Launchers : at[l] = "playing" /\ ~beside[l] => copy[l].ver = folders

\* With no switch unfinished the instance is on the version whose folders are
\* in place.
RecordMatchesFolders == journal = NoJournal => record.ver = folders
=============================================================================
