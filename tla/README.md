# A verification of the Projects Launcher

TLA+ models of the parts of the launcher where the order of steps decides what happens to a player's
data, accounts or running game: the per-version sets of a game directory, the version of an instance while
several commands use it, the move of the data folder, the launcher's trash, the account list with its keychain,
a downloaded file, the game connection of a shared world, and the session of an AFK account. TLC checks them on
small instances; the TLA+ proof system proves their safety properties for every value of the constants.

- [The system](#the-system): components, their state, how they meet, what is hard in each
- [The modules](#the-modules): which module stands for what
- [The runs](#the-runs): bounds, fairness, what each run shows
- [The proofs](#the-proofs)
- [Where code and documents disagree](#where-code-and-documents-disagree)
- [What is not modelled](#what-is-not-modelled)
- [The plan](#the-plan)

Run a model with `tlc -config VersionSets.cfg MCVersionSets`, the proofs with `tlapm VersionSetsProofs.tla`.
Configurations that belong to no run reproduce what the section on disagreements describes.
`PROJECT.json` lists the runs, the mutants (a plausible bug for every checked property, which TLC must find),
the source lines of each definition, the hazards and the theorems.

## The system

A Tauri application: a React page calls *commands* (`apps/launcher/src-tauri/src/commands`), which run as
tokio tasks on several threads and use the crates. Commands share state through files, a few async mutexes
(one per instance, `SWITCHES` for all version switches, one per account, the membership lock of the
accounts) and short `parking_lot` locks. Nothing but files survives a crash.

| Component | State | Operations | Hard parts | Correct when |
|---|---|---|---|---|
| **Version sets** (`pl-content/sets.rs`) | `mods/`, `config/`, parked sets, pack state, set files, the switch journal | prepare, switch, resume, finish, record played, remove to and restore from the trash | one rename at a time, a crash between any two, repeated steps, a journal that cannot be read | no folder is lost, each version's set stays its own, a set comes back as it was |
| **Version switches** (`versions.rs`, `cleanup.rs`) | the instance's lock, `SWITCHES` | switch, finish an unfinished switch, recover at start | four kinds of commands finish switches, two locks, records read before a lock | folders never move under a game; the record and the folders agree; nobody waits for ever |
| **Game launch** (`launch.rs`, `official.rs`) | running games, the lock while preparing | prepare, sync, start, follow, restart into a server | reads before the lock, whole-record writes | the game runs the version whose folders are in place |
| **Instance store** (`pl-mc/instance`, `instances.rs`, `java.rs`) | `instance.json` | read, write whole, create, copy, delete to the trash | read-modify-write without a lock | no field changes that nobody changed |
| **Data folder** (`pl-data/relocate.rs`, `data.rs`, `state.rs`) | the folders, the pointer file, the move markers, the data job | move, start, finish, fall back to the default | copy while written to, crash between marker and pointer, failed deletions, a missing disk, jobs that start late | no data is lost, a start finds everything, old folders go in the end |
| Pack sync, mod center, mod sets (`pl-content/sync.rs`, `items.rs`, `modsets.rs`) | pack state, files of the pack | plan, apply, adopt manual changes | apply cut short, ownership of files | a player's own files are never touched |
| Content client, feed (`client.rs`, `feed/`) | cached signed index, documents, media | refresh, snapshot, garbage collection | mirrors of different age, concurrent refreshes | never older than what was accepted; nothing in use is collected |
| **Launcher trash** (`pl-mc/gamefiles/trash.rs`) | slots: a description and an item | put, restore, delete, purge, empty | moves across disks part by part, purges beside puts, crashes | what was put can be put back; the trash empties |
| Worlds, backups, screenshots (`pl-mc/gamefiles`) | the files | read, back up, replace | a running game | nothing is replaced without a copy |
| **AFK accounts** (`pl-afk`) | a session actor per account, client processes, connection slots | connect, stop, send, restart, connect all | late output of an old client, restarts against stops, the retry limit | one client per account; a stopped account stays stopped; the back-off takes hold |
| **Accounts** (`pl-auth/manager.rs`, `store.rs`) | account list, removed accounts, a lock per account | sign in, refresh, remove, undo, launch identity | refresh against removal, a list or keychain that refuses | an account never without its session, no session without its account |
| **Keychain** (`pl-auth/secrets.rs`) | a head entry and two sets of chunks per account | save, load, delete | small entries, a stop or refusal between two of them, a load beside a save | a session is read whole, the old one or the new one |
| **Downloader** (`pl-net/download.rs`) | part files | download, resume, cancel | stale parts, wrong ranges, mirrors, full disk, two batches with one destination | a finished file is the file asked for |
| Mods, add-ons (`pl-mc/mods`, `addons`) | mod files, the add-on index | apply, undo, repair, update | one step of several fails | all or nothing, undo restores |
| Installation, Java, loaders, modpacks (`pl-mc`) | shared libraries, assets, runtimes | install, detect, clean up | unused-file judgement while something installs | nothing in use is removed |
| Housekeeping, reset, restart note (`pl-data`) | one-shot notes | tidy up, reset, restart | the note is read once, a crash before or after | done once |
| Background preparation (`prepare.rs`) | the running preparation | prepare, hand over to a launch, cancel | the launch that arrives meanwhile | never beside a launch |
| Closing (`pl-desktop/close.rs`, `shell.rs`) | what is busy | close, quit when done | a job's next step comes late | no job is cut |
| Import (`pl-import`) | a journal of what came over | scan, copy, undo | cut short, run again | nothing doubled or replaced |
| Friends client (`pl-social`) | session, presence socket, views | sign in, follow, chat | answers of an earlier session | a view shows one session |
| Voice, screen share (`pl-voice`, `pl-share`) | room machine, window, share | ring, join, leave, reconnect, share | crashes of the page, late frames | one room, the window closes |
| **World sharing** (`pl-host`, `pl-worlds`) | sessions, a link per game connection, streams | open, admit, relay, resume, move paths | a stream that breaks or is replaced while it works, lost answers, full buffers | no byte lost or doubled, both ends close |
| Overlay bridge, Discord presence, telemetry, cloud AFK client, item icons, language, desktop helpers, pages, build files | small or none | | | cosmetic, remote or pure |

How they meet: a launch takes the instance's lock, finishes an unfinished switch, syncs the pack (which
writes the pack state the sets split later), refreshes the account's session in the keychain, downloads,
starts the game and only then gives the lock back.
A switch takes the same lock, then `SWITCHES`, moves the folders, writes the instance's record and syncs
the new set. The instance page finishes a switch with `SWITCHES` alone. The cleanup moves parked sets to the
launcher's trash, whose next call purges it. A data folder move copies all of this, asks what runs before and
after, and restarts.

## The modules

**`VersionSets`** is `VersionSets` (`sets.rs`) with the commands around it. A folder is a record of the
version it was made for, its name and a number; its contents do not matter, its identity does. Each file
operation that another program run could find half done is an action: one rename, one file written, one
save of the journal. `pc`, `todo` and `goal` are the running operation's memory, lost at `Interrupt` (a
crash, a power cut or an I/O error), after which `Resume` starts at the journal's step as the code does.
`park`, `restore` and `write_states` are therefore loops over folders that may run again from their
beginning. The copy of `config/` is torn (`n = 0`) until it is whole. `Use` are the steps outside a switch:
the game and the pack sync make folders, sets are prepared, cleaned up and put back. Operations run under
both locks, so one operation runs at a time here; `InstanceVersion` looks at the locks. `Spec` has every step the
code can take on a disk nobody damaged, also `UndoCleanup`: "Geri al" puts sets back between an interrupted switch
and its resume. `AnySpec` adds journals that cannot be read. `OrderlySpec` is `Spec` without `UndoCleanup`; what is
said of it is said of switches into which no set is put back. `awaited` is history: what the target's set held when
the journal was written, which `SetComesBackWhole` compares with what is active when the switch ends.

**`VersionSetsPromise`** is what the module comment of `sets.rs` promises: every version has a set, a
switch changes only which one is active. `VersionSets` implements it (`KeepsPromise`) under the mapping
`Home`: a version's folder is the parked one, else the active one that was made for it. Half-done switches
are stuttering steps; the one step that counts is the write of the instance's record.

**`InstanceVersion`** is one instance, its record, and the commands that use both locks: launches, switches,
pages, the settings and the recovery at start. `lock` and `switching` are tokio's fair mutexes, a holder
followed by who waits. A command's `copy` is the record it read, `ret` where it goes on after
`ensure_switch_finished`. The steps of a switch are whole here (park, restore, record, journal), because
`VersionSets` shows that cutting them short does no harm. An I/O error or a crash may still come between any two
of them, and a page may also save the settings (`Savers`).

**`DataMove`** is `relocate.rs` and its callers over several places. What a folder holds is the set of
writes it has got. A move is copy, check, copy again what differs, check, look at what runs, mark, point,
restart; `Crash` may come between any two. The pointer's old places are a set: the code keeps them in a list, but
looks at each by itself, following the markers (`LeadsTo`). `DiskGoes` takes a place's disk away, so that a start falls back
to the default folder. `verify` compares paths and sizes, file by file: what it finds (`Differ`) is copied once
more, and the move goes on only when nothing differs any more. `unseen` are the writes the code makes no promise
about: those that keep a file's size or come after the file was compared while the copy is checked, those of a content
job after the last look, those made in the default folder while the pointed one is away. `WritesKept` is about all
others, `NothingMissed` about all. A marker whose removal fails after the pointer's write did (`PointFails`) stays.

**`AfkSession`** is one AFK account: the player's calls (`manager.rs`), the session's actor (`session.rs`,
`restart.rs`), the client process and the two queues between them. Each branch of the actor's `select!` is an
action and takes one command, one line or one timer; only a launch is spread out (`busy`), as `prepare` waits
while the queues fill. `timer` is `restart_at` with `paced`, `streak` is `last_cause` with `cause_repeats`.
`waiting` and `handing` are the two halves of `run_preparation`: its waiters are taken off the list, then their
sessions are started. `redo` is a `reconnect` inside `wait_idle`, which may give up before the client is gone.
What a client reports is one of three failures (one that may be retried, a passing kick for the login, one that
ends the session), a line that may still come after its exit, or nothing. `OrderlySpec` is `Spec` without a call
between the two halves and without a disconnect while a `reconnect` waits: those lose a disconnect (see below), and
the run that passes shows that nothing else does. Left out: the console, dialogs, the removal of an account, delays
and their spread, one account's place among others (`Launch` may wait for a slot or not), kick causes but one, kick
messages the player lists, and an unlimited retry limit.

**`GameLink`** is one game connection relayed between a guest and a host: on each side the loop of
`tunnel/link.rs` with its outbound buffer, counts and timers, the channel's queues, and the resume in
`guest/session.rs` and `host/session.rs`. A branch of the loop's `select!` or a step of a session task is an
action. `stream[k].to[s]` is everything on its way to side `s`: what the sender's channel holds, the network
carries and the receiver's channel holds is one queue, of which a break (`Cut`) leaves any prefix. `attempt` is the
guest's resume, after a break or planned while the old stream works; its answer may be lost with the stream, and
`Expire` is the time a side waits without one. Bytes are numbered, so that loss, doubling and reordering show.

**`GameStream`** is what both games are promised: two byte queues which deliver each byte once and in its place,
or an end; `GameLink` implements it (`IsStream`).

**`Keychain`** is `KeyringStore`: a session cut into parts, the first in the head entry, the others in one of two
sets of chunk entries. An action reads, writes or removes one entry. Saves and deletes come one at a time, a load
beside them; the keychain refuses what `Failing` names, and the launcher may end between any two entries. The
chunks of the first layout (`Legacy`) may be there at the start. **`SessionRegister`** is what `SecretStore`
promises, a register with truthful answers; `Keychain` implements it (`IsRegister`). Its `KeyInit`, `KeyNext` and
`KeySpec` are named so that `AccountsProofs` can read it beside `Accounts`.

**`Accounts`** is the manager over it: `listed` is the account list, `stored` the keychain's session per account,
`removed` what is kept for undo, `lock` the lock object of each account (a removal drops it from the map, so a
number stands for it). The ids are those the one profile gets over time. `member` is the call that holds the
membership lock, `ref[r]` a refresh. `lost` is a history of the accounts whose session a call lost and none has saved
since: `SessionStays` says that a listed account loses it in no other way, and its comment lists the ways.
`OneRefresh` speaks of every refresh that asks or saves, those under a dropped lock included. `mishaps` collects what
went wrong, and `NoSessionLeft` says under which of it it holds: the list refused (`list`, or `active` when only its second write is), the keychain refused
(`keychain`), a refresh went on with a lock a removal had dropped (`astray`), two calls changed one account's entries
at a time and left a mix (`overlap`), the launcher ended inside a call (`stop`). Keychain calls that do not overlap
are atomic here, which is what `Keychain` shows.

**`Downloads`** is one file: `fetch_one` over mirrors and attempts, `stream_to_file` with the part it goes on with,
ranges the server honours, ignores or answers wrongly, breaks, a full disk, cancels and ends of the launcher.
Contents are pieces, right or wrong for their place. The part at the start is anything: right, wrong, too long, and
a part that should go may stay, as an error of its removal is not looked at.
`Together` says whether two batches may fetch the file at one time.

**`LauncherTrash`** is the trash of `gamefiles/trash.rs` over two disks. A slot is a folder with a description
(`meta`) and an item; an item is a set of parts. On the trash's disk a put is one rename, from another disk it is a copy
part by part, the description, and the removal part by part. A crash, a refused file or a purge may come anywhere. A
restore takes the item's own place or the first free numbered name next to it; `restore_to` differs in that target
only and is not repeated. Each item has an instance of its own, so the world lock, which holds moves of one
instance's items apart, keeps none of them waiting. Every item has size one, which makes the size cap a count.
`OrderlySpec` is `Spec` in which no slot is taken up while it is filled, put back or removed, with fairness;
without that an item can be lost, see below.

`…Proofs` modules have the theorems. `MCVersionSets` and `MCDataMove` add symmetry sets for TLC, `MCAccounts`,
`MCGameLink` and `MCKeychain` the values of function constants; the other MC modules have nothing to add.
Definitions that begin "A mutant" are never part of a specification: each is the form a plausible bug would give the
definition after it.

## The runs

| Run | Instance | Shows |
|---|---|---|
| `version_sets` | 2 versions, 2 folders of a name each, 3 switches, 1 interruption, `OrderlySpec`, fair; 856,084 states | the sets keep apart; records match; every step is one of the promise; an unfinished switch ends |
| `version_sets_any` | 2 switches, 2 interruptions, with `Geri al` in the middle of a switch and unreadable journals (`AnySpec`); 1,124,272 states | still no folder is lost, and a switch brings in all that its target's set held |
| `instance_version` | 2 launches, 1 switch, a page that may also save, recovery, 2 interruptions, fair; 286,612 states | folders whole and still, a switch ends at its target, nobody waits for ever |
| `launch_stale_record` | 1 launch, 1 switch | violation |
| `data_move` | 3 places, 3 moves, 3 writes, 1 crash, 1 failure, 1 missing disk; 411,998 states | nothing the move can see is lost, a start has everything, old folders are remembered |
| `launcher_trash` | 2 items, one of another disk, 2 parts each, 2 callers, cap 0, 2 puts, 2 crashes, faults or deletions, fair; 729,157 states | the only complete copy is never discarded; every slot goes in the end |
| `keychain` | sessions of 1 and 3 parts, 3 calls, refused writes and removals, 1 stop; 1,912,367 states | a stored session is whole, a load beside one call returns what was stored, the store is a register |
| `accounts` | 2 ids, 2 refreshes at a time, 3 calls, 2 refreshes in all, 1 refusal, 1 stop, fair; 343,327 states | a profile is listed once, no session without its account, a listed account loses its session only in the ways named, one refresh at a time under one lock, all calls end |
| `downloads` | 3 pieces, 2 mirrors, 1 retry, 4 faults, 4 fetches in turn, fair; 127,944 states | only the right file is put in place, every mirror is tried, fetches end |
| `downloads_together` | two fetches at one time, no faults | violation |
| `game_link` | a byte from each game, 2 streams, the guest's side may fail, fair; 313,148 states | no byte forgotten, no false alarm, each direction is a byte stream, bytes arrive, both ends close |
| `afk_session` | `OrderlySpec`: 2 calls, 1 typed line, 1 saved setting, 1 lasting connection, 1 retry, 2 kicks, fair; 435,029 states | one client at a time, none after a stop; limits hold; no login script is left; the last disconnect is obeyed |

Configurations without a run:

| Configuration | Module | Shows |
|---|---|---|
| `VersionSetsUndo.cfg` | `MCVersionSets` | `EachToItsOwn` falls under `Spec`: `Geri al` between an interrupted switch and its resume |
| `InstanceVersionRecord.cfg` | `MCInstanceVersion` | `RecordMatchesFolders` falls: a save of the settings beside a switch |
| `DataMoveOld.cfg`, `DataMoveLate.cfg` | `MCDataMove` | `KeptUntilDeleted` falls with a failed deletion, `NothingMissed` with a late content job |
| `LauncherTrashTogether.cfg` | `MCLauncherTrash` | `NothingVanishes` falls under `Spec` |
| `KeychainLeft.cfg` | `MCKeychain` | `LeftoversGo` falls with refused removals |
| `AccountsWithout.cfg` | `MCAccounts` | `NeverWithout` falls with a refused list |
| `AccountsAstray.cfg` | `MCAccounts` | `OneRefreshEach` falls with nothing refused: removal and undo while a refresh waits |
| `GameLinkAck.cfg` | `MCGameLink` | `Acknowledged` falls with a planned move |
| `AfkSessionOverlap.cfg` | `MCAfkSession` | `LastCallStops` falls under `Spec` |
| `GameLinkWide.cfg` | `MCGameLink` | a larger instance that passes: 2 bytes from the host in records of up to 2, 3 streams; 1.27 million states, safety only |

Why these bounds are enough to meet the cases: two versions and three switches go away from a version and
return to it, and to a first visit again after its set was cleaned up; two folders of a name meet as one in
the way of another; one interruption anywhere and a resume meet every repeated step, and `version_sets_any`
cuts the repetition short once more. Two launches and a switch are the smallest crowd in which a launch beside
a game, a refused switch and a launch that waited for one all occur; a second interruption cuts the work of
whoever finishes the first one's switch. Three places and three moves give the chain of two old folders and a
move back to the default folder. An item of each disk and two callers meet a purge by size beside a put and a
restore beside a put; a cap of 0 makes every older item too much. Three keychain calls use both sets of chunks and
come back to the first, with a session that needs chunks replaced by one that needs none and back; three parts give a
second chunk, so that an end between two chunks exists. Two ids are an account, its removal and a new sign-in of
the same profile, with an undo between; two refreshes at a time are the smallest number that could be one too many.
Three pieces allow a part of wrong length and content on both sides of a break; two mirrors with a retry each
need four faults to fail, so a fetch may or may not get through. Two streams are one move or resume;
one byte with a record limit of 1, `MaxUnacked` 1 and `AckEvery` 2 lets a game fall silent for a full buffer and makes the
timer, not the count, send the acknowledgement; `GameLinkWide` meets an old stream that ends while a third one begins,
and records that overlap. Two AFK calls give a stop against every step of a launch, a start against every step of a
stop, and a reconnect; one retry, two kicks and one lasting connection reach the limits and start their counts
again; generations are not bounded but by these.

Fairness:

- `VersionSets!FairSpec`: a running operation goes on (`WF` of `Run`) and a pending switch is resumed (`WF` of
  `Resume`): every start runs `recover_unfinished_switches`, and every launch, page and switch calls
  `ensure_switch_finished`.
- `InstanceVersion!FairSpec`: tokio hands a mutex to its waiters in turn (its documentation says so), file work
  ends, network lookups end (they have timeouts), and a launch which is ready starts or is given up. Nothing is
  assumed of games, pages, settings or new switches.
- `AfkSession!Fairness`: nothing ready in `select!` is left for ever (it picks at random), preparing ends, and a client
  whose connection ended exits (it runs with `ExitOnFailure`). Nothing is assumed of the player, the server, or a
  client told to quit, which the kill timer ends.
- `GameLink!Fairness`: each ready branch of a link is taken in the end (its `select!` is random too), its timers
  fire, the host serves a resume that arrived on a stream that lives, and a resume attempt ends with an answer or its
  timeout. Nothing is assumed of the games, of the network or of the wish to move.
- `Accounts!FairSpec`: a call that has begun goes on; Microsoft answers or the request times out; a tokio mutex is fair.
- `Downloads!FairSpec`: a fetch goes on; servers answer or time out and a body ends. No cancel is assumed.
- `LauncherTrash!OrderlySpec`: moves and removals go on; the purge runs again, as every put and every listing of
  the trash page starts one; time passes, so that what is there grows old.

`DataMove` and `Keychain` have no liveness property: the move is a sequence the player starts again, and a keychain
call is a bounded loop.

`CHECK_DEADLOCK FALSE` stands where the system may stop by itself: bounded calls are used up (`Keychain`,
`Accounts`, `Downloads`, `LauncherTrash`), both links have ended (`GameLink`), the account is off (`AfkSession`).

## The proofs

Every invariant and every action property that a passing run checks, and every refinement, is a theorem. Liveness is
not (see the end of this section). An inductive invariant is a conjunction of named parts, was checked by TLC before it
was proved, and is kept by one lemma per action, or per conjunct where the actions are many and the conjuncts few.

**`VersionSetsProofs`**, for every set of versions and every bound:

- `TypeCorrect`: `AnySpec => []TypeOK`.
- `FoldersKept`: `AnySpec => []NothingLost`. `NothingLost` is not inductive: a copy that is placed counts as
  made, so the folder in `staging` must be the one that is counted next (`CopyUnderWay`). The step is proved
  in two halves, kept folders stay kept (`KeptStep`) and new ones are kept (`MadeStep`).
- `WholeSet`: `AnySpec => SetComesBackWhole`. A folder the target's set held waits parked until `restore` brings it
  in, and is active from then on (`Awaiting`). For that nothing may be put back over it: until `restore` is done the
  target's set exists, as the folder it was in, or by its `set.json` where it was only prepared. And the copy of
  `config/` is made on a first visit only, when a prepared set has none (`SeededFits`, for which a set left by a
  switch is `parked` before the instance takes the new version); which step `pc` belongs to is `LegFits`.
- `EachOwn`: `OrderlySpec => []EachToItsOwn`, from `SetsInv`. During a
  switch the folders are neither here nor there, so the invariant says for each `pc` and each name which
  folder may be where: what is parked is its version's own (`ParkedOwn`), also in the trash (`TrashOwn`), nothing
  of the current version is parked at rest (`AtRestOwn`), what the journal and `pc` allow under way (`UnderWay`),
  and whose folder is active at which step (`ActiveOwn`). `StepKinds` splits a step by what it touches, and one
  lemma per conjunct shows that it survives.
- `CompleteSwitch`: `OrderlySpec => []SwitchComplete`, `TrueRecords`: `OrderlySpec => []RecordsMatchSets`, `SharedFollow`:
  `OrderlySpec => SharedRecordsKept`, from `SwitchInv`. It adds to `SetsInv` that nothing is ever set aside on a disk nobody
  damaged (`AsideEmpty`), how far `restore` has come (`PlacedInv`), which of the files of `write_states` are written at
  which step, or at all once the journal says so (`WrittenInv`), and whose folders each pack state describes
  (`RecordsInv`). The splits in the journal describe folders that are still to be moved; `JournalRecords` says what is
  true of them while they move.
- `PromiseKept`: `OrderlySpec => KeepsPromise`. What a step does to folders is one of four effects (`FoldersStay`,
  `FolderParked`, `FolderBrought`, `FolderStarted`); under `Home` the first three are stutters and the fourth makes a
  folder, the write of the instance's record is the promise's switch, and the steps outside a switch are its others.

**`InstanceVersionProofs`**, for any number of launches, switches, pages and savers:

- `FoldersWhole`: `Spec => []WholeFolders`, `FoldersUnmoved`: `Spec => FoldersStill`. `SwitchInv` says of the disk that folders
  in between have an unfinished switch and that its last step finds the target's folders in place (`DiskFits`), of the
  games that no switch is unfinished while a launch not beside a game is ready or plays, and no switch has got past its
  wait for the lock while any game plays (`GameFits`), and of each command where its kind may be, which locks it
  holds or waits for, and what it has read (`Fits`). The queues of the two mutexes need three facts
  (`HoldsOne`, `Joins`, `Leaves`): one command is at the head, who joins is last, who leaves was there once.
- `EndsAtTarget`: `Spec => SwitchEndsAtTarget`. A switch writes the record and then ends its journal; the record must
  not change in between, though launches and switches write whole records they read long before. `EndInv` says
  why it does not: as long as no file operation failed, an unfinished switch is in the hands of who holds the
  instance's lock, the switch itself or the recovery at start (`Attended`), and every launch and switch that writes its
  record holds that lock too. Only a save of the settings may come between, and the property excepts it (`TakenOver`).

**`DataMoveProofs`**, for any places, writes, moves and failures:

- `KeepsWrites`: `Spec => []WritesKept`. `KeptInv` follows a copy: while a move goes on its target holds nothing of its
  own, and once checked all that is seen of the source (`CopyInv`); what the pointed folder has got covers every folder
  the pointer remembers and the default one (`BehindInv`), so that deleting any of those loses nothing. The last
  part has to hold for a launcher that runs from the default folder, its disk being away, and moves from there.
- `FindsEverything`: `Spec => []StartsWithEverything`, with `HomeInv`: as long as no disk has been away, the folder a
  start goes to and the one the launcher runs in hold everything.
- `RemembersOldFolders`: `Spec => OldFoldersRemembered`. `OldInv` says where markers lead while nothing stops, fails or is
  away: each old folder's to the pointed one, or to another old folder that is there and leads on.

**`AfkSessionProofs`**, for any limits and bounds and for both specifications (`Spec` and `OrderlySpec`): `OneAtATime`
(`OneClient`), `PasswordsGo`, `ShowsTruly` and `WithinLimits`. `AfkInv` has a part for the launch to come (`LaunchFits`:
none while a client runs, none prepared once a stop was asked for), the client (`ClientFits`), the counts of launches and
kicks against `attempts` and `streak` (`CountFits`), and the reports still in the queue (`ReportsFit`). The limit on kicks
needs one more: the actor counts a kick when it sees the client's exit, by what it read before, so a client that was
kicked for its login must have said so, in a line that is read or lies in the queue before its exit (`KickKnown`).

**`AccountsProofs`**, about `Accounts` for any ids, refreshes and bounds: `ProfileListedOnce`, `OneRefreshAtATime`,
`NothingLeftBehind` (`NoSessionLeft`) and `ListedHasSession` (`SessionStays`). `AccountInv` has one part per piece of state:
whoever asks Microsoft or saves holds the lock object it found (`RefFits`), a removal past its wait holds the account's
(`LockFits`), an account being signed in for the first time is nobody else's (`NewcomerFits`), only two calls that
overlap mark entries (`ClashFits`). `Apart`, for every run, keeps the locks of those who ask or save for one account
different from each other and from the one a removal deletes under. `Stays`, for every run too, says of each listed
account that it has its session, that the call under way has it in hand or that it is lost, and of one about to be
listed the first or the last. `Left` adds, under the mishaps that are allowed, what each call still has to do to the
session of its account.

The same module proves what these steps stand on, the keychain, for any sessions, parts and failures but refused reads
(`"read" \notin Failing`: a save that cannot read the head begins with set A, as the code does, and A may be the one in use):

- `StaysWhole` (`KeySpec => []Whole`) and `Implements` (`KeySpec => IsRegister`). The head's chunks are those of its
  session, a save writes only the other set, and what it has written so far is there. `Implements` shows that each
  step is one of the register or a stutter.
- `LoadsTruly` (`KeySpec => []ReadsTruly`), if a load may read twice (`Attempts > 1`; `READ_ATTEMPTS` is 3). `ReadInv`: what
  a load has put together is of the session the head named when it began, and of whole entries as long as the head
  has not changed; a call changes the head once, before it removes what the old head named, so the second look
  meets nothing that changes.

**`DownloadsProofs`**, for any size, mirrors, retries and mode of verification, when the batches come one at a time
(`~Together`; the run `downloads_together` shows what happens otherwise):

- `AlwaysRight`: `Spec => PutsRight`. `PartInv`: what a fetch has hashed is exactly the part on the disk while it
  streams, so the checksum it compares is the part's.
- `TriesEveryMirror`: `Spec => []EveryMirrorTried`, if a failed attempt is tried again (`Retries > 0`; the code's is 3).
  `CostInv`: each mirror a fetch has left was paid for by a fault of its own, and so was a part that is wrong again; the
  first check of a stale part is free, which is why it takes a retry. A wrong part that could not be removed costs
  nothing more: once its check has failed it is as long as the file, and such a part is made anew (`Harmless`).

**`GameLinkProofs`**, for any number of bytes and streams and any limits:

- `TypeCorrect`, `NothingIsLost` (`Spec => []NothingLost`) and `NoAlarmIsFalse` (`Spec => []NoFalseAlarm`). Every count on
  its way to a side, in an acknowledgement, a resume's hello or its answer, is at most what the other side has received
  (`AllTruthful`), and a side sends only what it still holds (`SentAfterBase`). No gap opens because in each queue a
  record begins at most where those before it end (`Orderly`), and what a side has sent is on its way or has arrived
  while a stream lives (`AllCarry`); a break leaves a prefix, of which both stay true.
- `RelaysStream`: `Spec => IsStream`. The bytes held and on their way are those the game gave, in order (`Exact`), so what
  the other game was given is always the first so many of them.

**`LauncherTrashProofs`**: `NothingLostInTrash` (`OrderlySpec => []NothingVanishes`), for any items, parts, disks, callers
and cap. `TrashInv`: a copy under way holds nothing its original lacks until it is complete, and then everything the
original still has (`Fits`); two calls move different items (`Distinct`); a slot that is removed is nobody's (`Apart`).

Assumptions are the named `ASSUME`s of the modules, which TLC evaluates in each run: constants have their
types and bounds are numbers (`BoundAssumption`, `LimitAssumption`, …), values for "nothing" are none of the things
(`NoneAssumption`, `NothingAssumption`, …), and launches, switches, pages and the recovery are different tasks
(`RolesAssumption`; `RefreshersAssumption` likewise). The conditions a theorem has of its own are those named above.

Only model-checked: liveness under fairness (`SwitchFinishes`, `NobodyWaitsForever`, `LastCallStops`, `GoesOn`,
`TrashEmpties`, `CallsEnd`, `FetchEnds`, `BytesArrive`, `GameEnds`, `AcknowledgedUnmoved`), which is out of the prover's reach
as it has no rule for `ENABLED`; and the two runs that expect a violation.

## Where code and documents disagree

With a run:

1. `launch_stale_record`: a launch reads its instance before it waits for the lock; `ensure_switch_finished`
   returns early when the switch it waited for is done, and the launch starts the old version in the new
   version's folders (`launch.rs:983`, `versions.rs:194`).
2. `downloads_together`: two batches that fetch one file write the same part; each hashes what it received, not what
   the part holds, and puts a file in place that is not the one it checked (`download.rs:490`).

With a configuration:

3. `VersionSetsUndo.cfg`: "a set whose version was started again meanwhile (a new set exists, or it is active) stays
   in the trash" (`cleanup.rs:447`). `cleanup_restore_sets` looks for a set's folder and at the instance's record, and
   neither shows a first visit that was interrupted (`cleanup.rs:481`): the old set is put back, and when the switch ends
   a version has an active set and a parked one. What the switch brings in stays whole (`SetComesBackWhole`).
4. `InstanceVersionRecord.cfg`: the settings and "Java otomatik" write the whole record they read, without the
   lock; a switch's new version in between is lost (`instances.rs:737`, `java.rs:727`).
5. `DataMoveOld.cfg`: a deletion that stops half-way may have removed the marker; the next start forgets the
   folder (`relocate.rs:1029`).
6. `DataMoveLate.cfg`: content jobs start after the move's last look and write to the folder that is deleted
   after the restart (`data.rs:721`).
7. `AfkSessionOverlap.cfg`: a disconnect between the two halves of `run_preparation` finds nobody waiting and no
   session to stop; the session is started after it (`manager.rs:575`). A disconnect while a `reconnect` waits for
   the old client to quit is overruled in the same way (`manager.rs:1233`).
8. `LauncherTrashTogether.cfg`: the trash promises that a move in progress is never touched (`trash.rs:23`,
   `trash.rs:338`), and takes a slot for complete once it has a description and an item. A put from another disk writes both before it
   removes the original: the size cap of a second put may remove the older slot meanwhile (`trash.rs:366`), and the
   first put then removes the original.
9. `KeychainLeft.cfg`: chunks that could not be removed "go with the account" (`secrets.rs:247`), but a delete
   removes only the chunks it finds in a row from the first one of each set, and leaves what a gap hides.
10. `AccountsWithout.cfg`: "an account never exists without" its secrets (`manager.rs:231`). When the list took the
    account but refused to make it active, `save_microsoft` removes the session and leaves the account
    (`manager.rs:249`).
11. `AccountsAstray.cfg`: "concurrent calls for one account share one refresh" (`manager.rs:449`). A removal drops the
    account's lock (`manager.rs:372`); a refresh that waited for it goes on with the dropped one, and after an undo
    another takes the new one: both ask Microsoft, and both save.
12. `GameLinkAck.cfg`: in a planned move the switch to the new stream forgets the acknowledgement that is due
    (`link.rs:424`): what arrived on the old stream after the guest said what it had is acknowledged only
    when more comes, and a game whose buffer is full waits for it.

Seen while modelling, kept out of a property by its condition:

- A refresh that goes on with a dropped lock (11) may save or delete at one time with another call: `astray` in
  `Accounts`. `KeyringStore` asks its caller to prevent that (`secrets.rs:160`): `overlap`. A sign-in of a listed
  account saves without the account's lock, beside a refresh, with the same effect, and a refresh that fails late flags
  the account as expired after the new sign-in.
- A stop between a new session's save and the list's leaves a session nobody lists: `stop`.
- A page may finish a switch that an I/O error left while a launch beside a game writes the record it read before: the
  record gets the old version, which is why `SwitchEndsAtTarget` says less about the record once an error occurred.

## What is not modelled

`PROJECT.json` gives every component's status with the reason. In short: the services behind the friends,
cloud AFK and voice clients are not in this repository; rendering, formats, text and operating-system calls
have no state to go wrong between steps; the other components wait for their turn in the plan. Inside the
modelled parts these are left out:

- version sets, data move: contents of files, links and free space during a move, the add-on index
  (the code treats it as a cache), which versions a pack offers, progress and messages; a launch whose pack moved to
  another Minecraft version in place (`Followed::InPlace`, `official.rs:168`) gives the folders that version's name
  where they are: `InstanceVersion` takes the pack to offer the instance's version, as `Followed::Member` does;
- accounts: offline accounts, names, pins and the order of the list (a sign-in's write of the list also carries a pin
  or a `mark_used` made meanwhile away), skins, profile reads, the import of older data, the sign-in with Microsoft
  itself, session entries nobody of this launcher wrote;
- downloads: the queue of a batch and its stop on a full disk, progress, the client's own retries, files without a
  known checksum;
- world sharing: admission, listings, the routes a guest tries, the Noise tunnel, the voice stream, keepalives;
- trash: `restore_to`, what counts as an item of the game files, reading worlds, backups, screenshots and logs;
- AFK: the console, dialogs, the removal of an account, several accounts and their slots.

## The plan

1. *Done*: `VersionSets`, its promise and its proofs; `InstanceVersion` with its proofs; `DataMove`; `AfkSession`;
   `GameLink` and `GameStream`; `Keychain` and `SessionRegister`; `Accounts`; `Downloads`; `LauncherTrash`.
2. The manager beside `AfkSession`: several accounts, connection slots, connect all, removal, orphans of an earlier
   run; promise: at most one client per account, and none after a stop.
3. The background preparation's hand-over to a launch (`prepare.rs`), with `InstanceVersion`'s lock.
4. `ContentClient` (the cached index against concurrent refreshes and its garbage collection); `PackSync` composed
   with `VersionSets` (its records are what the sets split); mods' apply and undo.
5. Composition: `VersionSets` inside `InstanceVersion` by refinement of a switch's steps, `Keychain`'s register inside
   `Accounts`.
6. Voice room machine and window, friends' generations.

Theorems worth proving next: that the steps of a switch in `VersionSets` make up the whole ones of `InstanceVersion`,
and that `Keychain`'s register, shared by calls that do not overlap, is the keychain of `Accounts`; both once the
composed modules of 5 state it. `RecordMatchesFolders` and `NothingMissed`, which fail in general, under the condition
that no settings are saved beside a switch, or no job starts late.
