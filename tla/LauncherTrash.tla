--------------------------- MODULE LauncherTrash ---------------------------
(***************************************************************************)
(* The launcher's own trash (crates/pl-mc, gamefiles/trash.rs): putting    *)
(* items in, putting them back, deleting one, emptying it, and the purge   *)
(* that every one of them starts.  Only moves of one instance's items wait *)
(* for each other (the world lock); nothing else is locked.                *)
(*                                                                         *)
(* An item is a folder of parts.  On the disk of the trash it moves by one *)
(* rename; an item of another disk is copied part by part, and then the    *)
(* original is removed part by part.  Each item has an instance of its     *)
(* own, and a size of one.                                                 *)
(***************************************************************************)
EXTENDS Integers, FiniteSets, FiniteSetsExt

CONSTANTS
    Items, NoItem,
    Parts,    \* the files of an item
    Away,     \* the items whose home is on another disk
    Movers,   \* calls of put and restore
    Cap,      \* the size cap of the trash
    MaxPuts, MaxEvents  \* bounds: puts; faults, crashes, and requests to delete

ASSUME ItemAssumption == NoItem \notin Items /\ Away \subseteq Items /\ Parts # {}
ASSUME BoundAssumption == {Cap, MaxPuts, MaxEvents} \subseteq Nat

VARIABLES
    at,      \* [Items -> [Places -> the parts that are there]]
    slot,    \* [Slots -> a folder of the trash], numbered by the time of deletion
    expired, \* the slots up to this one are past their time
    mover,   \* [Movers -> the call under way]
    cleaner, \* the purge, deletion or emptying under way
    gone,    \* items whose whole copy was deleted for good
    used     \* puts and events so far

vars == <<at, slot, expired, mover, cleaner, gone, used>>
disk == <<at, slot>>

Places == 1..3   \* home, and the numbered names next to it
Slots == 1..MaxPuts
NoSlot == [dir |-> FALSE, meta |-> FALSE, item |-> NoItem, tree |-> {}]
Call(pc, op, i, p, k) ==
    [pc |-> pc, op |-> op, item |-> i, place |-> p, slot |-> k, copied |-> {}]
IdleMover == Call("idle", "none", NoItem, 1, 0)
Cleaning(pc, due, kept) ==
    [pc |-> pc, due |-> due, kept |-> kept, total |-> Cardinality(kept), now |-> 0]
IdleCleaner == Cleaning("idle", {}, {})

(* Every folder and every call keeps its type. *)
TypeOK ==
    /\ at \in [Items -> [Places -> SUBSET Parts]]
    /\ slot \in [Slots -> [dir : BOOLEAN, meta : BOOLEAN, item : Items \cup {NoItem},
                           tree : SUBSET Parts]]
    /\ expired \in 0..MaxPuts
    /\ mover \in [Movers -> [pc : {"idle", "describe", "move", "copy", "clear", "drop"},
                     op : {"none", "put", "restore"}, item : Items \cup {NoItem},
                     place : Places, slot : 0..MaxPuts, copied : SUBSET Parts]]
    /\ cleaner \in [pc : {"idle", "next", "remove"}, due : SUBSET Slots,
                    kept : SUBSET Slots, total : 0..MaxPuts, now : 0..MaxPuts]
    /\ gone \subseteq Items
    /\ used \in [puts : 0..MaxPuts, events : 0..MaxEvents]

Init ==
    /\ at = [i \in Items |-> [p \in Places |-> IF p = 1 THEN Parts ELSE {}]]
    /\ slot = [k \in Slots |-> NoSlot]
    /\ expired = 0 /\ gone = {}
    /\ mover = [m \in Movers |-> IdleMover]
    /\ cleaner = IdleCleaner
    /\ used = [puts |-> 0, events |-> 0]

-----------------------------------------------------------------------------
Listed(k) == slot[k].meta /\ slot[k].tree # {}
Putting(k) == \E m \in Movers : mover[m].op = "put" /\ mover[m].slot = k
Copying(k) == \E m \in Movers : mover[m].slot = k /\ mover[m].pc \in {"copy", "clear"}
Restoring(k) == \E m \in Movers : mover[m].op = "restore" /\ mover[m].slot = k
Removing(k) == cleaner.pc = "remove" /\ cleaner.now = k

Count(what) == used' = [used EXCEPT ![what] = @ + 1]
Event == used.events < MaxEvents /\ Count("events")
Fine == UNCHANGED used

Goto(m, pc) == mover' = [mover EXCEPT ![m].pc = pc]
Ends(m) == mover' = [mover EXCEPT ![m] = IdleMover]
Free(i) == \A m \in Movers : mover[m].item # i

\* What a mover takes from and to, and what it leaves at both.
From(m) == IF mover[m].op = "put" THEN at[mover[m].item][mover[m].place]
                                  ELSE slot[mover[m].slot].tree
To(m) == IF mover[m].op = "put" THEN slot[mover[m].slot].tree
                                ELSE at[mover[m].item][mover[m].place]
Leaves(m, from, to) ==
    LET t == mover[m]
    IN /\ at' = [at EXCEPT ![t.item][t.place] = IF t.op = "put" THEN from ELSE to]
       /\ slot' = [slot EXCEPT ![t.slot].tree = IF t.op = "put" THEN to ELSE from]

-----------------------------------------------------------------------------
(* put_blocking                                                            *)
PutBegins(m, i, p) ==
    /\ mover[m].pc = "idle" /\ Free(i) /\ at[i][p] # {} /\ used.puts < MaxPuts
    /\ LET k == used.puts + 1
       IN /\ slot' = [slot EXCEPT ![k] = [NoSlot EXCEPT !.dir = TRUE, !.item = i]]
          /\ mover' = [mover EXCEPT ![m] = Call("describe", "put", i, p, k)]
    /\ Count("puts")
    /\ UNCHANGED <<at, expired, cleaner, gone>>

PutDescribes(m) ==
    /\ mover[m].pc = "describe" /\ slot[mover[m].slot].dir
    /\ slot' = [slot EXCEPT ![mover[m].slot].meta = TRUE]
    /\ Goto(m, "move") /\ Fine
    /\ UNCHANGED <<at, expired, cleaner, gone>>

\* A put that fails takes its slot away again, if it can.
PutFails(m) ==
    /\ mover[m].pc \in {"describe", "move"} /\ mover[m].op = "put"
    /\ IF slot[mover[m].slot].dir THEN Event ELSE Fine
    /\ slot' \in {slot, [slot EXCEPT ![mover[m].slot] = NoSlot]}
    /\ Ends(m)
    /\ UNCHANGED <<at, expired, cleaner, gone>>

(* restore; its target is the first free name.                             *)
Target(i) == Min({p \in Places : at[i][p] = {}})
RestoreBegins(m, k) ==
    /\ mover[m].pc = "idle" /\ Listed(k) /\ Free(slot[k].item)
    /\ \E p \in Places : at[slot[k].item][p] = {}
    /\ LET i == slot[k].item
       IN mover' = [mover EXCEPT ![m] = Call("move", "restore", i, Target(i), k)]
    /\ Fine
    /\ UNCHANGED <<disk, expired, cleaner, gone>>

RestoreFails(m) ==
    /\ mover[m].pc = "move" /\ mover[m].op = "restore"
    /\ IF From(m) = {} THEN Fine ELSE Event
    /\ Ends(m)
    /\ UNCHANGED <<disk, expired, cleaner, gone>>

RestoreDrops(m) ==
    /\ mover[m].pc = "drop"
    /\ \/ slot' = [slot EXCEPT ![mover[m].slot] = NoSlot] /\ Fine
       \/ UNCHANGED slot /\ Event
    /\ Ends(m)
    /\ UNCHANGED <<at, expired, cleaner, gone>>

(* move_path: a rename, or a copy and then the removal of the original.    *)
Moved(m) == IF mover[m].op = "put" THEN Ends(m) ELSE Goto(m, "drop")
Rename(m) ==
    /\ mover[m].pc = "move" /\ mover[m].item \notin Away
    /\ From(m) # {} /\ slot[mover[m].slot].dir
    /\ Leaves(m, {}, From(m)) /\ Moved(m) /\ Fine
    /\ UNCHANGED <<expired, cleaner, gone>>

StartCopy(m) ==
    /\ mover[m].pc = "move" /\ mover[m].item \in Away
    /\ From(m) # {} /\ slot[mover[m].slot].dir
    /\ Goto(m, "copy") /\ Fine
    /\ UNCHANGED <<disk, expired, cleaner, gone>>

\* A part that is removed meanwhile may be left out without an error.
CopyPart(m) ==
    /\ mover[m].pc = "copy" /\ slot[mover[m].slot].dir
    /\ \E x \in From(m) \ mover[m].copied :
        /\ Leaves(m, From(m), To(m) \cup {x})
        /\ mover' = [mover EXCEPT ![m].copied = @ \cup {x}]
    /\ Fine
    /\ UNCHANGED <<expired, cleaner, gone>>

CopyEnds(m) ==
    /\ mover[m].pc = "copy" /\ From(m) \subseteq mover[m].copied
    /\ Goto(m, "clear") /\ Fine
    /\ UNCHANGED <<disk, expired, cleaner, gone>>

\* A copy that fails is removed again, as far as that goes.
CopyFails(m) ==
    /\ mover[m].pc = "copy"
    /\ IF slot[mover[m].slot].dir THEN Event ELSE Fine
    /\ \/ UNCHANGED disk
       \/ Leaves(m, From(m), {})
       \/ /\ mover[m].op = "put" /\ UNCHANGED at
          /\ slot' = [slot EXCEPT ![mover[m].slot] = NoSlot]
    /\ Ends(m)
    /\ UNCHANGED <<expired, cleaner, gone>>

ClearPart(m) ==
    /\ mover[m].pc = "clear"
    /\ \E x \in From(m) : Leaves(m, From(m) \ {x}, To(m))
    /\ Fine
    /\ UNCHANGED <<expired, mover, cleaner, gone>>

\* A mutant: the removal that fails takes the copy back.
ClearEndsUndone(m) ==
    /\ mover[m].pc = "clear"
    /\ \/ From(m) = {} /\ Moved(m) /\ Fine /\ UNCHANGED disk
       \/ From(m) # {} /\ Leaves(m, From(m), {}) /\ Ends(m) /\ Event
    /\ UNCHANGED <<expired, cleaner, gone>>
\* What is left of an original that cannot be removed stays: the copy is the item.
ClearEnds(m) ==
    /\ mover[m].pc = "clear"
    /\ IF From(m) = {} THEN Fine ELSE Event
    /\ Moved(m)
    /\ UNCHANGED <<disk, expired, cleaner, gone>>

-----------------------------------------------------------------------------
(* purge, delete and empty                                                 *)

\* A mutant: a slot without a description may belong to anyone.
LeftoversDescribed == {k \in Slots : slot[k].meta /\ slot[k].tree = {} /\ ~Putting(k)}
\* is_interrupted, and old: no put lasts a day.
Leftovers == {k \in Slots : slot[k].dir /\ ~Listed(k) /\ ~Putting(k)}

Past == {k \in Slots : Listed(k) /\ k <= expired}
Kept == {k \in Slots : Listed(k) /\ k > expired}

PurgeBegins ==
    /\ cleaner.pc = "idle"
    /\ Past \cup Leftovers # {} \/ Cardinality(Kept) > Max({Cap, 1})
    /\ cleaner' = Cleaning("next", Past \cup Leftovers, Kept)
    /\ Fine
    /\ UNCHANGED <<disk, expired, mover, gone>>

Asks(due) ==
    /\ cleaner.pc = "idle" /\ due # {} /\ Event
    /\ cleaner' = Cleaning("next", due, {})
    /\ UNCHANGED <<disk, expired, mover, gone>>
Delete(k) == Listed(k) /\ Asks({k})
Empty == Asks({k \in Slots : slot[k].dir})

\* What is due goes; then the oldest go while the trash is over its cap, but
\* never the newest.
Over == cleaner.due = {} /\ cleaner.total > Cap /\ Cardinality(cleaner.kept) > 1
CleanNext(k) ==
    /\ cleaner.pc = "next"
    /\ IF Over THEN k \in cleaner.kept /\ \A j \in cleaner.kept : k <= j
               ELSE k \in cleaner.due
    /\ cleaner' = [cleaner EXCEPT !.pc = "remove", !.now = k, !.kept = @ \ {k}]
    /\ Fine
    /\ UNCHANGED <<disk, expired, mover, gone>>

CleanEnds ==
    /\ cleaner.pc = "next" /\ cleaner.due = {} /\ ~Over
    /\ cleaner' = IdleCleaner /\ Fine
    /\ UNCHANGED <<disk, expired, mover, gone>>

\* remove_dir_all, file by file.  What the player put away and what then is
\* removed whole is gone for good.
RemoveFile ==
    /\ cleaner.pc = "remove"
    /\ LET k == cleaner.now
       IN /\ \/ slot[k].meta /\ slot' = [slot EXCEPT ![k].meta = FALSE]
             \/ \E x \in slot[k].tree : slot' = [slot EXCEPT ![k].tree = @ \ {x}]
          /\ gone' = gone \cup IF slot[k].tree = Parts /\ ~Copying(k) THEN {slot[k].item}
                                                                   ELSE {}
    /\ Fine
    /\ UNCHANGED <<at, expired, mover, cleaner>>

Removed(n) ==
    cleaner' = [cleaner EXCEPT !.pc = "next", !.due = @ \ {cleaner.now},
                   !.total = IF cleaner.now \in cleaner.due THEN @ ELSE @ - n]
RemoveEnds ==
    /\ cleaner.pc = "remove" /\ ~slot[cleaner.now].meta /\ slot[cleaner.now].tree = {}
    /\ slot' = [slot EXCEPT ![cleaner.now] = NoSlot]
    /\ Removed(1) /\ Fine
    /\ UNCHANGED <<at, expired, mover, gone>>
RemoveStops ==
    /\ cleaner.pc = "remove" /\ slot[cleaner.now].dir
    /\ Removed(0) /\ Event
    /\ UNCHANGED <<disk, expired, mover, gone>>

-----------------------------------------------------------------------------
Ages(k) ==
    /\ k = expired + 1 /\ k <= used.puts /\ ~Putting(k)
    /\ expired' = k /\ Fine
    /\ UNCHANGED <<disk, mover, cleaner, gone>>

Crash ==
    /\ Event
    /\ mover' = [m \in Movers |-> IdleMover] /\ cleaner' = IdleCleaner
    /\ UNCHANGED <<disk, expired, gone>>

Moves(m) ==
    \/ PutDescribes(m) \/ PutFails(m) \/ RestoreFails(m) \/ RestoreDrops(m)
    \/ Rename(m) \/ StartCopy(m) \/ CopyPart(m) \/ CopyEnds(m) \/ CopyFails(m)
    \/ ClearPart(m) \/ ClearEnds(m)

Rest == Crash \/ PurgeBegins \/ CleanEnds \/ RemoveFile \/ RemoveEnds \/ RemoveStops

Begins(m) == \E i \in Items, p \in Places : PutBegins(m, i, p)

Next ==
    \/ \E m \in Movers : Begins(m) \/ Moves(m)
    \/ \E m \in Movers, k \in Slots : RestoreBegins(m, k)
    \/ \E k \in Slots : Delete(k) \/ CleanNext(k) \/ Ages(k)
    \/ Empty \/ Rest
Spec == Init /\ [][Next]_vars

\* No slot is taken up while it is filled, put back or removed.
OrderlyNext ==
    \/ \E m \in Movers : Begins(m) \/ Moves(m)
    \/ \E m \in Movers, k \in Slots : ~Putting(k) /\ ~Removing(k) /\ RestoreBegins(m, k)
    \/ \E k \in Slots : ~Putting(k) /\ ~Restoring(k) /\ CleanNext(k)
    \/ \E k \in Slots : Delete(k) \/ Ages(k)
    \/ Empty \/ Rest
OrderlySpec ==
    /\ Init /\ [][OrderlyNext]_vars
    /\ \A m \in Movers : WF_vars(Moves(m))
    /\ WF_vars(PurgeBegins) /\ WF_vars(CleanEnds \/ RemoveFile \/ RemoveEnds)
    /\ WF_vars(\E k \in Slots : ~Putting(k) /\ ~Restoring(k) /\ CleanNext(k))
    /\ WF_vars(\E k \in Slots : Ages(k))

-----------------------------------------------------------------------------
(* An item is whole at home or in a slot the trash lists, unless it was    *)
(* deleted for good: "no caller discards the only complete copy"           *)
(* (move_by_copy); and TypeOK.                                             *)
Whole(i) ==
    \/ \E p \in Places : at[i][p] = Parts
    \/ \E k \in Slots : slot[k].meta /\ slot[k].item = i /\ slot[k].tree = Parts
NothingVanishes == TypeOK /\ \A i \in Items : i \in gone \/ Whole(i)

(* Every slot goes in the end, also what an interrupted move or deletion   *)
(* left (purge).                                                           *)
TrashEmpties == \A k \in Slots : slot[k].dir ~> ~slot[k].dir
=============================================================================
