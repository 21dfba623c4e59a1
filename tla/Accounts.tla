------------------------------ MODULE Accounts ------------------------------
(***************************************************************************)
(* A player's Microsoft account: the account list, the session in the      *)
(* keychain, the removed accounts kept for undo, and the calls that move   *)
(* them (crates/pl-auth, manager.rs and store.rs).                         *)
(*                                                                         *)
(* Sign-in, removal and undo come one at a time (the membership lock);     *)
(* refreshes of an account come one at a time by a lock of its own, which  *)
(* a removal also takes.  Saves and deletes in the keychain take effect at *)
(* one moment when they come one at a time (Keychain); two that overlap    *)
(* may leave a damaged session.  A removal drops the refreshes' lock of    *)
(* its account, and a refresh that waited for it goes on with it.          *)
(***************************************************************************)
EXTENDS Integers, FiniteSets

CONSTANTS
    Ids, NoId,  \* the local ids the player's profile may get
    Refreshers, \* callers of ensure_fresh
    Limit       \* bounds: sign-ins, removals and undos ("op"), refreshes
                \* ("refresh"), refusals of keychain or disk ("fault"), ends
                \* of the launcher ("stop")

ASSUME LimitAssumption == Limit \in [{"op", "refresh", "fault", "stop"} -> Nat]
ASSUME NoIdAssumption == NoId \notin Ids
ASSUME RefreshersAssumption == "member" \notin Refreshers

VARIABLES
    listed,  \* the accounts in the list
    flagged, \* those with needs_relogin, listed or kept for undo
    stored,  \* [Ids -> what the keychain holds]
    clash,   \* ids whose keychain entries two calls change at a time
    lost,    \* history: ids without a whole session since a call lost it
    removed, \* [Ids -> the session kept for undo, or "gone"]
    lock,    \* [Ids -> the lock object refresh_locks has]
    member,  \* the sign-in, removal or undo under way
    ref,     \* [Refreshers -> the refresh under way]
    used,    \* the ids handed out
    mishaps, \* what went wrong so far
    count    \* calls and faults so far, as in Limit

vars == <<listed, flagged, stored, clash, lost, removed, lock, member, ref, used, mishaps, count>>
memory == <<removed, lock>>
entries == <<stored, clash, lost>>

IdleMember == [op |-> "none", pc |-> "idle", id |-> NoId, lock |-> 0, kept |-> "none",
               created |-> FALSE]
IdleRef == [pc |-> "idle", id |-> NoId, lock |-> 0, expired |-> FALSE]

(* Every record and every call keeps its type. *)
TypeOK ==
    /\ {listed, flagged, clash, lost, used} \subseteq SUBSET Ids
    /\ stored \in [Ids -> {"none", "session", "damaged"}]
    /\ removed \in [Ids -> {"gone", "none", "session"}]
    /\ lock \in [Ids -> Nat]
    /\ member \in [op : {"none", "signin", "remove", "undo"},
                   pc : {"idle", "save", "put", "drop", "wait", "delete", "take", "flag"},
                   id : Ids \cup {NoId}, lock : Nat, kept : {"none", "session"},
                   created : BOOLEAN]
    /\ ref \in [Refreshers -> [pc : {"idle", "found", "wait", "ask", "save", "note"},
                   id : Ids \cup {NoId}, lock : Nat, expired : BOOLEAN]]
    /\ mishaps \subseteq {"keychain", "list", "active", "astray", "overlap", "stop"}
    /\ \A k \in DOMAIN Limit : count[k] \in 0..Limit[k]

Init ==
    /\ \E known \in {{}} \cup {{i} : i \in Ids} :
        /\ listed = known /\ used = known
        /\ stored = [i \in Ids |-> IF i \in known THEN "session" ELSE "none"]
    /\ flagged = {} /\ clash = {} /\ lost = {} /\ mishaps = {}
    /\ removed = [i \in Ids |-> "gone"]
    /\ lock = [i \in Ids |-> 0]
    /\ member = IdleMember
    /\ ref = [r \in Refreshers |-> IdleRef]
    /\ count = [k \in DOMAIN Limit |-> 0]

-----------------------------------------------------------------------------
Counts(kind) == count[kind] < Limit[kind] /\ count' = [count EXCEPT ![kind] = @ + 1]
Refused(what) == Counts("fault") /\ mishaps' = mishaps \cup {what}
AllWell == UNCHANGED <<mishaps, count>>

Changing(i) ==
    {r \in Refreshers : ref[r].pc = "save" /\ ref[r].id = i}
      \cup IF member.id = i /\ member.pc \in {"save", "drop", "delete"} THEN {"member"} ELSE {}

\* A save or delete of i's session begins, and takes effect or fails.
Begins(i) == clash' = IF Changing(i) = {} THEN clash ELSE clash \cup {i}
Ends(i) == clash' = IF Cardinality(Changing(i)) = 1 THEN clash \ {i} ELSE clash
Lands(i, what) ==
    /\ \E now \in {what} \cup IF i \in clash THEN {"damaged"} ELSE {} :
        /\ stored' = [stored EXCEPT ![i] = now]
        /\ mishaps' = mishaps \cup IF now = "damaged" THEN {"overlap"} ELSE {}
        /\ lost' = CASE now = "session" -> lost \ {i}
                     [] now = "damaged" \/ member.pc = "drop" -> lost \cup {i}
                     [] OTHER -> lost
    /\ Ends(i) /\ UNCHANGED count
NotSaved(i) == UNCHANGED stored /\ Ends(i)
\* A delete that fails may have removed the head entry before.
NotDeleted(i) ==
    /\ \E now \in {stored[i], "none"} :
        /\ stored' = [stored EXCEPT ![i] = now]
        /\ lost' = IF now = "none" THEN lost \cup {i} ELSE lost
    /\ Ends(i)
\* A call ends, and i keeps what the keychain holds.
Loses(i) == lost' = IF stored[i] = "session" THEN lost ELSE lost \cup {i}

\* A removal has deleted i's session, or an undo has listed i, and not yet
\* saved the session it has in hand.
InHand(i) == member.id = i /\ member.op # "signin" /\ member.pc \in {"take", "save"}

LockHeld(i, k) ==
    \/ \E r \in Refreshers : ref[r].pc \in {"ask", "save"} /\ ref[r].id = i /\ ref[r].lock = k
    \/ /\ member.op = "remove" /\ member.pc # "wait"
       /\ member.id = i /\ member.lock = k

To(pc) == member' = [member EXCEPT !.pc = pc]
Done == member' = IdleMember

-----------------------------------------------------------------------------
(* Sign-in: save_microsoft.  The session first, then the list.             *)
BeginSignIn(i) ==
    /\ member.pc = "idle" /\ Counts("op")
    /\ i \in listed \/ (listed = {} /\ i \notin used)
    /\ member' = [IdleMember EXCEPT !.op = "signin", !.pc = "save", !.id = i,
                                    !.created = i \notin listed]
    /\ used' = used \cup {i}
    /\ Begins(i)
    /\ UNCHANGED <<listed, flagged, stored, lost, memory, ref, mishaps>>

Put ==
    /\ member.pc = "put"
    /\ listed' = listed \cup {member.id} /\ flagged' = flagged \ {member.id}
    /\ Done /\ AllWell
    /\ UNCHANGED <<entries, memory, ref, used>>

Undone == IF member.created THEN To("drop") /\ Begins(member.id) ELSE Done /\ UNCHANGED clash
\* A mutant: a new session stays although its account is not listed.
PutRefusedCarelessly ==
    /\ member.pc = "put"
    /\ Refused("list") /\ Done
    /\ UNCHANGED <<listed, flagged, entries, memory, ref, used>>
\* The list is written twice, for the account and for the active one.
PutRefused ==
    /\ member.pc = "put"
    /\ \/ Refused("list") /\ UNCHANGED <<listed, flagged>>
       \/ /\ Refused("active")
          /\ listed' = listed \cup {member.id} /\ flagged' = flagged \ {member.id}
    /\ Undone
    /\ UNCHANGED <<stored, lost, memory, ref, used>>

Drop ==
    /\ member.pc = "drop"
    /\ \/ Lands(member.id, "none")
       \/ NotDeleted(member.id) /\ Refused("keychain")
    /\ Done
    /\ UNCHANGED <<listed, flagged, memory, ref, used>>

-----------------------------------------------------------------------------
(* remove: waits for a refresh under way, keeps the session, deletes it,   *)
(* and takes the account off the list.                                     *)
BeginRemove(i) ==
    /\ member.pc = "idle" /\ i \in listed /\ Counts("op")
    /\ member' = [IdleMember EXCEPT !.op = "remove", !.pc = "wait", !.id = i, !.lock = lock[i]]
    /\ UNCHANGED <<listed, flagged, entries, memory, ref, used, mishaps>>

\* A session that cannot be read is not kept.
Kept(held) == IF held = "session" THEN held ELSE "none"

RemoveWaits ==
    /\ member.pc = "wait" /\ ~LockHeld(member.id, member.lock)
    /\ \/ /\ AllWell
          /\ member' = [member EXCEPT !.pc = "delete", !.kept = Kept(stored[member.id])]
       \/ Refused("keychain") /\ To("delete")
    /\ Begins(member.id)
    /\ UNCHANGED <<listed, flagged, stored, lost, memory, ref, used>>

Delete ==
    /\ member.pc = "delete"
    /\ \/ Lands(member.id, "none") /\ To("take")
       \/ NotDeleted(member.id) /\ Refused("keychain") /\ Done
    /\ UNCHANGED <<listed, flagged, memory, ref, used>>

Take ==
    /\ member.pc = "take"
    /\ listed' = listed \ {member.id}
    /\ lock' = [lock EXCEPT ![member.id] = @ + 1]
    /\ removed' = [removed EXCEPT ![member.id] = member.kept]
    /\ Done /\ AllWell
    /\ UNCHANGED <<flagged, entries, ref, used>>

\* A mutant: the session that was deleted is not put back.
TakeRefusedCarelessly ==
    /\ member.pc = "take" /\ Refused("list") /\ Done
    /\ UNCHANGED <<listed, flagged, entries, memory, ref, used>>
\* The account is still listed: it gets its session back.
TakeRefused ==
    /\ member.pc = "take" /\ Refused("list")
    /\ IF member.kept = "session" THEN To("save") /\ Begins(member.id) /\ UNCHANGED lost
       ELSE Done /\ Loses(member.id) /\ UNCHANGED clash
    /\ UNCHANGED <<listed, flagged, stored, memory, ref, used>>

-----------------------------------------------------------------------------
(* undo_remove: the account goes back to the list unless the profile has   *)
(* been added again, then its session to the keychain.                     *)
\* A mutant: the account comes back beside the one of a new sign-in.
BeginUndoTwice(i) ==
    /\ member.pc = "idle" /\ removed[i] # "gone" /\ Counts("op")
    /\ removed' = [removed EXCEPT ![i] = "gone"]
    /\ listed' = listed \cup {i}
    /\ member' = [IdleMember EXCEPT !.op = "undo", !.id = i, !.kept = removed[i],
                     !.pc = IF removed[i] = "session" THEN "save" ELSE "flag"]
    /\ IF removed[i] = "session" THEN Begins(i) /\ UNCHANGED lost ELSE Loses(i) /\ UNCHANGED clash
    /\ UNCHANGED <<flagged, stored, lock, ref, used, mishaps>>
BeginUndo(i) ==
    /\ member.pc = "idle" /\ removed[i] # "gone" /\ Counts("op")
    /\ removed' = [removed EXCEPT ![i] = "gone"]
    /\ IF listed # {} THEN member' = IdleMember /\ UNCHANGED <<listed, clash, lost>>
       ELSE /\ listed' = {i}
            /\ member' = [IdleMember EXCEPT !.op = "undo", !.id = i, !.kept = removed[i],
                             !.pc = IF removed[i] = "session" THEN "save" ELSE "flag"]
            /\ IF removed[i] = "session" THEN Begins(i) /\ UNCHANGED lost
               ELSE Loses(i) /\ UNCHANGED clash
    /\ UNCHANGED <<flagged, stored, lock, ref, used, mishaps>>

\* The list cannot be written: the account stays kept for undo.
UndoRefused(i) ==
    /\ member.pc = "idle" /\ removed[i] # "gone" /\ Refused("list")
    /\ UNCHANGED <<listed, flagged, entries, memory, member, ref, used>>

\* The session is missing: note_session.
Flag ==
    /\ member.pc = "flag"
    /\ \/ flagged' = flagged \cup {member.id} /\ AllWell
       \/ UNCHANGED flagged /\ Refused("list")
    /\ Done
    /\ UNCHANGED <<listed, entries, memory, ref, used>>

\* The session of a sign-in, a removal that failed or an undo is saved.
MemberSaves ==
    /\ member.pc = "save"
    /\ \/ /\ Lands(member.id, "session")
          /\ IF member.op = "signin" THEN To("put") ELSE Done
       \/ /\ NotSaved(member.id) /\ Refused("keychain")
          /\ IF member.op = "undo" THEN To("flag") ELSE Done
          /\ IF member.op = "signin" THEN UNCHANGED lost ELSE Loses(member.id)
    /\ UNCHANGED <<listed, flagged, memory, ref, used>>

\* forget_removed, and prune_removed after UNDO_WINDOW.
Forget(i) ==
    /\ removed[i] # "gone"
    /\ removed' = [removed EXCEPT ![i] = "gone"]
    /\ UNCHANGED <<listed, flagged, entries, lock, member, ref, used, mishaps, count>>

-----------------------------------------------------------------------------
(* ensure_fresh.  The lock is free again when the refresh has its result;  *)
(* noting the result in the list comes after.                              *)
Becomes(r, pc) == ref' = [ref EXCEPT ![r].pc = pc]
Noting(r, expired) == ref' = [ref EXCEPT ![r].pc = "note", ![r].expired = expired]
GivesUp(r) == ref' = [ref EXCEPT ![r] = IdleRef]

BeginRefresh(r, i) ==
    /\ ref[r].pc = "idle" /\ i \in listed /\ Counts("refresh")
    /\ ref' = [ref EXCEPT ![r] = [IdleRef EXCEPT !.pc = "found", !.id = i]]
    /\ UNCHANGED <<listed, flagged, entries, memory, member, used, mishaps>>

FindLock(r) ==
    /\ ref[r].pc = "found"
    /\ ref' = [ref EXCEPT ![r].pc = "wait", ![r].lock = lock[ref[r].id]]
    /\ UNCHANGED <<listed, flagged, entries, memory, member, used, mishaps, count>>

Cancel(r) ==
    /\ ref[r].pc = "wait" /\ GivesUp(r)
    /\ UNCHANGED <<listed, flagged, entries, memory, member, used, mishaps, count>>

\* A mutant: nobody waits for the account's lock.
LoadAtOnce(r) ==
    LET i == ref[r].id
    IN  /\ ref[r].pc = "wait"
        /\ stored[i] = "session" /\ (Noting(r, FALSE) \/ Becomes(r, "ask"))
        /\ UNCHANGED <<listed, flagged, entries, memory, member, used, mishaps, count>>
\* The lock is got and the session read; the token may have run out.  A lock
\* that a removal has dropped since keeps nobody else out.
Load(r) ==
    LET i == ref[r].id
        astray == IF ref[r].lock = lock[i] THEN {} ELSE {"astray"}
    IN  /\ ref[r].pc = "wait" /\ ~LockHeld(i, ref[r].lock)
        /\ \/ /\ IF stored[i] # "session" THEN Noting(r, TRUE)
                 ELSE Noting(r, FALSE) \/ Becomes(r, "ask")
              /\ mishaps' = mishaps \cup astray /\ UNCHANGED count
           \/ /\ GivesUp(r) /\ Counts("fault")
              /\ mishaps' = mishaps \cup astray \cup {"keychain"}
        /\ UNCHANGED <<listed, flagged, entries, memory, member, used>>

\* Microsoft answers: a session, a refusal, or no answer (offline, cancelled).
Answer(r) ==
    /\ ref[r].pc = "ask"
    /\ \/ Becomes(r, "save") /\ Begins(ref[r].id)
       \/ (Noting(r, TRUE) \/ GivesUp(r)) /\ UNCHANGED clash
    /\ UNCHANGED <<listed, flagged, stored, lost, memory, member, used, mishaps, count>>

\* A mutant: a refresh waits for the membership lock with its own in hand.
SaveFreshInTurn(r) ==
    /\ ref[r].pc = "save" /\ member.pc = "idle"
    /\ Lands(ref[r].id, "session")
    /\ Noting(r, FALSE)
    /\ UNCHANGED <<listed, flagged, memory, member, used>>
\* The launch goes on with the fresh session, saved or not.
SaveFresh(r) ==
    /\ ref[r].pc = "save"
    /\ \/ Lands(ref[r].id, "session")
       \/ NotSaved(ref[r].id) /\ Refused("keychain") /\ UNCHANGED lost
    /\ Noting(r, FALSE)
    /\ UNCHANGED <<listed, flagged, memory, member, used>>

Note(r) ==
    LET i == ref[r].id
        now == IF i \notin listed THEN flagged
               ELSE IF ref[r].expired THEN flagged \cup {i} ELSE flagged \ {i}
    IN  /\ ref[r].pc = "note" /\ GivesUp(r)
        /\ \/ flagged' = now /\ AllWell
           \/ now # flagged /\ UNCHANGED flagged /\ Refused("list")
        /\ UNCHANGED <<listed, entries, memory, member, used>>

-----------------------------------------------------------------------------
\* The launcher ends: the list and the keychain stay.
Stop ==
    /\ Counts("stop") /\ mishaps' = mishaps \cup {"stop"}
    /\ removed' = [i \in Ids |-> "gone"] /\ lock' = [i \in Ids |-> 0]
    /\ member' = IdleMember /\ ref' = [r \in Refreshers |-> IdleRef]
    /\ \E now \in [Ids -> {"none", "session", "damaged"}] :
        /\ \A i \in Ids : now[i] = stored[i] \/ (i \in clash /\ now[i] = "damaged")
        /\ stored' = now
        /\ lost' = lost \cup {i \in Ids : now[i] # "session" /\ (InHand(i) \/ i \in clash)}
    /\ clash' = {}
    /\ UNCHANGED <<listed, flagged, used>>

MemberSteps ==
    \/ MemberSaves \/ Put \/ PutRefused \/ Drop
    \/ RemoveWaits \/ Delete \/ Take \/ TakeRefused
    \/ Flag
RefreshSteps(r) == FindLock(r) \/ Load(r) \/ Answer(r) \/ SaveFresh(r) \/ Note(r)

Next ==
    \/ \E i \in Ids : \/ BeginSignIn(i) \/ BeginRemove(i)
                      \/ BeginUndo(i) \/ UndoRefused(i) \/ Forget(i)
                      \/ \E r \in Refreshers : BeginRefresh(r, i)
    \/ MemberSteps
    \/ \E r \in Refreshers : RefreshSteps(r) \/ Cancel(r)
    \/ Stop

Spec == Init /\ [][Next]_vars
FairSpec == Spec /\ WF_vars(MemberSteps) /\ \A r \in Refreshers : WF_vars(RefreshSteps(r))

-----------------------------------------------------------------------------
(* The profile is listed once: undoing a removal keeps the account of a    *)
(* sign-in made meanwhile, and no account is both listed and kept for undo *)
(* (restore, find_by_profile).  And TypeOK.                                *)
ListedOnce ==
    /\ TypeOK
    /\ Cardinality(listed) <= 1
    /\ \A i \in listed : removed[i] = "gone"

(* No session stays in the keychain for an account that is not listed,     *)
(* through any refusal of the list (remove, save_microsoft), unless a      *)
(* refresh worked under a lock that was dropped, the launcher ended within *)
(* a call, or the keychain refused as well.                                *)
NoSessionLeft ==
    mishaps \subseteq {"list", "active", "overlap"} =>
        \A i \in Ids \ listed : stored[i] = "none" \/ member.id = i

(* A listed account has its session, whatever refreshes, sign-ins,         *)
(* removals and undos meet, unless a call lost it and none has saved one   *)
(* since.  A call loses it only                                            *)
(*  - when the keychain refuses a removal's delete after its first entry,  *)
(*    or refuses to keep or take back the session (remove, undo_remove);   *)
(*  - when the session a removal or an undo had to put back was missing or *)
(*    unreadable before;                                                   *)
(*  - when the launcher ends while a removal or an undo has it in hand, or *)
(*    two calls change its entries at a time;                              *)
(*  - when a first sign-in lists its account, is refused the second write  *)
(*    of the list, and deletes the session (save_microsoft).               *)
SessionStays == \A i \in listed : stored[i] = "session" \/ InHand(i) \/ i \in lost

(* Concurrent calls for one account share one refresh (ensure_fresh):      *)
(* Microsoft is asked by one at a time, and never while the session is     *)
(* being deleted, but for refreshes that go on with a lock a removal has   *)
(* dropped while they waited: of all that ask or save for an account one   *)
(* has the lock it has now, none while a removal holds that one, and no    *)
(* two have the same dropped one.                                          *)
OneRefresh ==
    \A r \in Refreshers : ref[r].pc \in {"ask", "save"} =>
        /\ \A q \in Refreshers \ {r} : ref[q].pc \in {"ask", "save"} /\ ref[q].id = ref[r].id =>
              ref[q].lock # ref[r].lock
        /\ member.id = ref[r].id /\ member.pc \in {"delete", "take"} =>
              ref[r].lock # lock[ref[r].id]

(* Every call ends: a removal waits for a refresh, which waits for no      *)
(* removal (remove, ensure_fresh).                                         *)
CallsEnd ==
    /\ member.pc # "idle" ~> member.pc = "idle"
    /\ \A r \in Refreshers : ref[r].pc # "idle" ~> ref[r].pc = "idle"

(* "An account never exists without [its secrets]" (save_microsoft's doc), *)
(* whatever the list refuses.                                              *)
NeverWithout ==
    mishaps \subseteq {"list", "active"} =>
        \A i \in listed : stored[i] # "none" \/ member.id = i \/ i \in flagged

(* "Concurrent calls for one account share one refresh" (ensure_fresh's    *)
(* doc): no two ask Microsoft or save at a time.                           *)
OneRefreshEach ==
    \A r, q \in Refreshers :
        r # q /\ {ref[r].pc, ref[q].pc} \subseteq {"ask", "save"} => ref[r].id # ref[q].id
=============================================================================
