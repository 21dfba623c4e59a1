------------------------ MODULE LauncherTrashProofs ------------------------
(***************************************************************************)
(* Proofs about LauncherTrash, for any items, parts, calls, size cap and   *)
(* bounds: when no slot is taken up while it is filled, put back or        *)
(* removed, an item is whole somewhere until it is deleted for good.       *)
(***************************************************************************)
EXTENDS LauncherTrash, FiniteSetTheorems, TLAPS

Active(m) == mover[m].pc # "idle"

(* What a call knows of what it moves.  A copy holds nothing that its      *)
(* original lacks until it is complete, and then everything the original   *)
(* still has.                                                              *)
Fits(m) ==
    LET t == mover[m]
    IN  t.pc # "idle" =>
        /\ t.item \in Items /\ t.slot \in Slots /\ t.slot <= used.puts
        /\ slot[t.slot].item = t.item
        /\ t.op \in {"put", "restore"}
        /\ t.pc = "describe" => t.op = "put"
        /\ t.pc = "drop" => t.op = "restore"
        /\ t.pc # "describe" => slot[t.slot].meta
        /\ t.pc \in {"describe", "move"} => To(m) = {} /\ t.copied = {}
        /\ t.pc = "copy" => t.copied \subseteq To(m) /\ To(m) \subseteq From(m)
        /\ t.pc \in {"clear", "drop"} => From(m) \subseteq To(m)

\* Calls that move at one time move different items.
Distinct ==
    \A m, n \in Movers : m # n /\ Active(m) /\ Active(n) => mover[m].item # mover[n].item

Numbered ==
    \A k \in Slots : /\ k > used.puts => slot[k] = NoSlot
                     /\ slot[k].tree # {} => slot[k].item \in Items

\* The slot being removed is nobody's.
Apart ==
    /\ cleaner.due \cup cleaner.kept \subseteq 1..used.puts
    /\ cleaner.pc = "remove" =>
        /\ cleaner.now \in Slots /\ cleaner.now <= used.puts
        /\ \A m \in Movers : Active(m) => mover[m].slot # cleaner.now
        /\ cleaner.now \notin cleaner.due => cleaner.total > 0

TrashInv ==
    /\ TypeOK /\ Distinct /\ Numbered /\ Apart
    /\ \A m \in Movers : Fits(m)
    /\ \A i \in Items : i \in gone \/ Whole(i)

-----------------------------------------------------------------------------
LEMMA FirstName ==
  ASSUME NEW P \in SUBSET Places, P # {}
  PROVE  Min(P) \in P
<1>1. P \subseteq {1, 2, 3}
  BY DEF Places
<1>2. \E x \in P : \A y \in P : x =< y
  <2>1. CASE 1 \in P
    <3>1. \A y \in P : 1 =< y
      BY <1>1
    <3> QED  BY <2>1, <3>1
  <2>2. CASE 1 \notin P /\ 2 \in P
    <3>1. \A y \in P : 2 =< y
      BY <1>1, <2>2
    <3> QED  BY <2>2, <3>1
  <2>3. CASE 1 \notin P /\ 2 \notin P
    <3>1. P = {3}
      BY <1>1, <2>3
    <3> QED  BY <3>1
  <2> QED  BY <2>1, <2>2, <2>3
<1> QED  BY <1>2 DEF Min

LEMMA CountFits ==
  ASSUME NEW K \in SUBSET Slots
  PROVE  Cardinality(K) \in 0..MaxPuts
<1>1. MaxPuts \in Nat
  BY BoundAssumption
<1>2. IsFiniteSet(Slots) /\ Cardinality(Slots) = MaxPuts
  BY <1>1, FS_Interval DEF Slots
<1>3. IsFiniteSet(K) /\ Cardinality(K) <= Cardinality(Slots)
  BY <1>2, FS_Subset
<1>4. Cardinality(K) \in Nat
  BY <1>3, FS_CardinalityType
<1> QED  BY <1>1, <1>2, <1>3, <1>4

\* Calls under way use slots of their own.
LEMMA OwnSlots ==
  ASSUME TrashInv, NEW m \in Movers, NEW n \in Movers, m # n, Active(m), Active(n)
  PROVE  mover[m].slot # mover[n].slot
BY DEF TrashInv, Distinct, Fits, Active

\* What the move t leaves.
Leaving(t, from, to) ==
    /\ at' \in [Items -> [Places -> SUBSET Parts]]
    /\ slot' \in [Slots -> [dir : BOOLEAN, meta : BOOLEAN, item : Items \cup {NoItem},
                            tree : SUBSET Parts]]
    /\ \A i \in Items \ {t.item} : at'[i] = at[i]
    /\ \A p \in Places \ {t.place} : at'[t.item][p] = at[t.item][p]
    /\ \A k \in Slots \ {t.slot} : slot'[k] = slot[k]
    /\ slot'[t.slot].meta = slot[t.slot].meta
    /\ slot'[t.slot].item = slot[t.slot].item
    /\ at'[t.item][t.place] = IF t.op = "put" THEN from ELSE to
    /\ slot'[t.slot].tree = IF t.op = "put" THEN to ELSE from

LEMMA Left ==
  ASSUME TrashInv, NEW m \in Movers, Active(m),
         NEW from \in SUBSET Parts, NEW to \in SUBSET Parts, Leaves(m, from, to)
  PROVE  Leaving(mover[m], from, to)
<1>0. PICK t : t = mover[m]
  OBVIOUS
<1>1. /\ t.item \in Items /\ t.slot \in Slots /\ t.place \in Places
  BY <1>0 DEF TrashInv, TypeOK, Fits, Active
<1>2. /\ at \in [Items -> [Places -> SUBSET Parts]]
      /\ slot \in [Slots -> [dir : BOOLEAN, meta : BOOLEAN, item : Items \cup {NoItem},
                             tree : SUBSET Parts]]
  BY DEF TrashInv, TypeOK
<1>3. /\ at' = [at EXCEPT ![t.item][t.place] = IF t.op = "put" THEN from ELSE to]
      /\ slot' = [slot EXCEPT ![t.slot].tree = IF t.op = "put" THEN to ELSE from]
  BY <1>0 DEF Leaves
<1>4. Leaving(t, from, to)
  BY <1>1, <1>2, <1>3 DEF Leaving
<1> QED  BY <1>0, <1>4

\* The item stays whole when what was whole at one end is whole at one end.
LEMMA LeftWhole ==
  ASSUME TrashInv, NEW m \in Movers, Active(m), mover[m].pc # "describe",
         NEW from \in SUBSET Parts, NEW to \in SUBSET Parts, Leaves(m, from, to),
         From(m) = Parts \/ To(m) = Parts => from = Parts \/ to = Parts,
         NEW i, i = mover[m].item, Whole(i)
  PROVE  Whole(i)'
<1>1. PICK t : t = mover[m]
  OBVIOUS
<1>2. /\ t.item = i /\ t.slot \in Slots /\ t.place \in Places /\ t.op \in {"put", "restore"}
      /\ slot[t.slot].meta /\ slot[t.slot].item = i
  BY <1>1 DEF TrashInv, TypeOK, Fits, Active
<1>3. Leaving(t, from, to)
  BY <1>1, Left
<1>4. at[i][t.place] = Parts \/ slot[t.slot].tree = Parts => from = Parts \/ to = Parts
  BY <1>1, <1>2 DEF From, To
<1>5. from = Parts \/ to = Parts => Whole(i)'
  <2>1. from = Parts \/ to = Parts => at'[i][t.place] = Parts \/ slot'[t.slot].tree = Parts
    BY <1>2, <1>3 DEF Leaving
  <2>2. at'[i][t.place] = Parts => Whole(i)'
    BY <1>2 DEF Whole
  <2>3. slot'[t.slot].meta /\ slot'[t.slot].item = i
    BY <1>2, <1>3 DEF Leaving
  <2>4. slot'[t.slot].tree = Parts => Whole(i)'
    BY <1>2, <2>3 DEF Whole
  <2> QED  BY <2>1, <2>2, <2>4
<1>6. CASE \E p \in Places : at[i][p] = Parts
  BY <1>2, <1>3, <1>4, <1>5, <1>6 DEF Whole, Leaving
<1>7. CASE \E k \in Slots : slot[k].meta /\ slot[k].item = i /\ slot[k].tree = Parts
  BY <1>2, <1>3, <1>4, <1>5, <1>7 DEF Whole, Leaving
<1> QED  BY <1>6, <1>7 DEF Whole

-----------------------------------------------------------------------------
Homes == [Items -> [Places -> SUBSET Parts]]
Folders == [Slots -> [dir : BOOLEAN, meta : BOOLEAN, item : Items \cup {NoItem},
                      tree : SUBSET Parts]]
MoverPcs == {"idle", "describe", "move", "copy", "clear", "drop"}
Calls == [pc : MoverPcs, op : {"none", "put", "restore"}, item : Items \cup {NoItem},
          place : Places, slot : 0..MaxPuts, copied : SUBSET Parts]

LEMMA Counted ==
  ASSUME TypeOK, Fine \/ Event
  PROVE  used' \in [puts : 0..MaxPuts, events : 0..MaxEvents] /\ used'.puts = used.puts
<1>1. used \in [puts : 0..MaxPuts, events : 0..MaxEvents] /\ MaxEvents \in Nat
  BY BoundAssumption DEF TypeOK
<1>2. CASE Fine
  BY <1>1, <1>2 DEF Fine
<1>3. CASE Event
  BY <1>1, <1>3 DEF Event, Count
<1> QED  BY <1>2, <1>3

LEMMA MoveTypes ==
  ASSUME TypeOK, at' \in Homes, slot' \in Folders, mover' \in [Movers -> Calls],
         UNCHANGED <<expired, cleaner, gone>>, Fine \/ Event
  PROVE  TypeOK'
BY Counted DEF TypeOK, Homes, Folders, Calls, MoverPcs

LEMMA Goes ==
  ASSUME TypeOK, NEW m \in Movers, NEW pc \in MoverPcs, Goto(m, pc)
  PROVE  /\ mover' \in [Movers -> Calls]
         /\ \A n \in Movers \ {m} : mover'[n] = mover[n]
         /\ mover'[m] = [mover[m] EXCEPT !.pc = pc]
         /\ mover'[m].pc = pc
<1>1. mover \in [Movers -> Calls]
  BY DEF TypeOK, Calls, MoverPcs
<1>2. [mover[m] EXCEPT !.pc = pc] \in Calls
  BY <1>1 DEF Calls
<1> QED  BY <1>1, <1>2 DEF Goto, Calls

LEMMA Stops ==
  ASSUME TypeOK, NEW m \in Movers, Ends(m)
  PROVE  /\ mover' \in [Movers -> Calls]
         /\ \A n \in Movers \ {m} : mover'[n] = mover[n]
         /\ mover'[m].pc = "idle"
<1>1. mover \in [Movers -> Calls] /\ MaxPuts \in Nat
  BY BoundAssumption DEF TypeOK, Calls, MoverPcs
<1>2. IdleMover \in Calls /\ IdleMover.pc = "idle"
  BY <1>1 DEF IdleMover, Call, Calls, MoverPcs, Places
<1> QED  BY <1>1, <1>2 DEF Ends

\* A call under way changes its own item and slot only.
LEMMA Acts ==
  ASSUME TrashInv, TypeOK', NEW m \in Movers, Active(m), NEW t, t = mover[m],
         cleaner' = cleaner, gone' = gone, used'.puts = used.puts,
         \A n \in Movers \ {m} : mover'[n] = mover[n],
         mover'[m].pc # "idle" => mover'[m].item = t.item,
         mover'[m].pc # "idle" => mover'[m].slot = t.slot,
         \A i \in Items \ {t.item} : at'[i] = at[i],
         \A k \in Slots \ {t.slot} : slot'[k] = slot[k],
         slot'[t.slot].tree # {} => slot'[t.slot].item = t.item,
         Fits(m)',
         \A i \in {t.item} : Whole(i) => Whole(i)'
  PROVE  TrashInv'
<1>1. t.item \in Items /\ t.slot \in Slots /\ t.slot <= used.puts /\ slot[t.slot].item = t.item
  BY DEF TrashInv, Fits, Active
<1>2. Distinct'
  BY DEF TrashInv, Distinct, Active
<1>3. Numbered'
  <2>1. ASSUME NEW k \in Slots
        PROVE  /\ k > used'.puts => slot'[k] = NoSlot
               /\ slot'[k].tree # {} => slot'[k].item \in Items
    <3>1. CASE k = t.slot
      <4>1. ~(k > used'.puts)
        BY <1>1, <3>1 DEF TrashInv, TypeOK, Slots
      <4> QED  BY <1>1, <3>1, <4>1
    <3>2. CASE k # t.slot
      BY <3>2 DEF TrashInv, Numbered
    <3> QED  BY <3>1, <3>2
  <2> QED  BY <2>1 DEF Numbered, NoSlot
<1>4. Apart'
  BY DEF TrashInv, Apart, Active
<1>5. ASSUME NEW n \in Movers
      PROVE  Fits(n)'
  <2>1. CASE n = m
    BY <2>1
  <2>2. CASE n # m /\ mover[n].pc # "idle"
    <3>1. mover'[n] = mover[n] /\ mover[n].slot # t.slot /\ mover[n].item # t.item
      BY <2>2, OwnSlots DEF TrashInv, Distinct, Active
    <3>2. mover[n].slot \in Slots /\ mover[n].item \in Items /\ Fits(n)
      BY <2>2 DEF TrashInv, Fits
    <3>3. /\ slot'[mover[n].slot] = slot[mover[n].slot]
          /\ at'[mover[n].item] = at[mover[n].item]
      BY <3>1, <3>2
    <3> QED  BY <3>1, <3>2, <3>3 DEF Fits, From, To
  <2>3. CASE n # m /\ mover[n].pc = "idle"
    BY <2>3 DEF Fits
  <2> QED  BY <2>1, <2>2, <2>3
<1>6. ASSUME NEW i \in Items
      PROVE  i \in gone' \/ Whole(i)'
  <2>1. CASE i = t.item
    BY <2>1 DEF TrashInv
  <2>2. CASE i # t.item
    <3>1. at'[i] = at[i]
      BY <2>2
    <3>2. \A k \in Slots : slot[k].item = i => slot'[k] = slot[k]
      BY <1>1, <2>2
    <3>3. Whole(i) => Whole(i)'
      BY <3>1, <3>2 DEF Whole
    <3> QED  BY <3>3 DEF TrashInv
  <2> QED  BY <2>1, <2>2
<1> QED  BY <1>2, <1>3, <1>4, <1>5, <1>6 DEF TrashInv

-----------------------------------------------------------------------------
LEMMA DescribeKeeps ==
  ASSUME TrashInv, NEW m \in Movers, PutDescribes(m)
  PROVE  TrashInv'
<1>1. PICK t : t = mover[m]
  OBVIOUS
<1>2. /\ t.pc = "describe" /\ t.op = "put" /\ t.slot \in Slots /\ t.slot <= used.puts
      /\ t.item \in Items /\ slot[t.slot].item = t.item /\ slot[t.slot].tree = {}
      /\ t.copied = {} /\ t \in Calls
  BY <1>1 DEF TrashInv, Fits, To, PutDescribes, TypeOK, Calls, MoverPcs
<1>3. /\ mover' \in [Movers -> Calls] /\ \A n \in Movers \ {m} : mover'[n] = mover[n]
      /\ mover'[m] = [t EXCEPT !.pc = "move"]
  BY <1>1, Goes DEF TrashInv, PutDescribes, MoverPcs
<1>4. slot \in Folders /\ at \in Homes
  BY DEF TrashInv, TypeOK, Folders, Homes
<1>5. /\ slot' \in Folders /\ \A k \in Slots \ {t.slot} : slot'[k] = slot[k]
      /\ slot'[t.slot] = [slot[t.slot] EXCEPT !.meta = TRUE]
  BY <1>1, <1>2, <1>4 DEF PutDescribes, Folders
<1>6. /\ slot'[t.slot].meta /\ slot'[t.slot].item = t.item /\ slot'[t.slot].tree = {}
  BY <1>2, <1>4, <1>5 DEF Folders
<1>7. TypeOK' /\ used'.puts = used.puts
  BY <1>3, <1>4, <1>5, MoveTypes, Counted DEF PutDescribes, TrashInv
<1>8. Fits(m)'
  BY <1>2, <1>3, <1>6, <1>7 DEF Fits, To, Calls
<1>9. \A i \in {t.item} : Whole(i) => Whole(i)'
  <2>1. \A k \in Slots : slot[k].tree = Parts => slot'[k] = slot[k]
    BY <1>2, <1>5, ItemAssumption
  <2> QED  BY <2>1 DEF Whole, PutDescribes
<1>10. mover'[m].item = t.item /\ mover'[m].slot = t.slot
  BY <1>2, <1>3 DEF Calls
<1>11. Active(m) /\ UNCHANGED <<at, cleaner, gone>>
  BY <1>1, <1>2 DEF Active, PutDescribes
<1> QED  BY <1>1, <1>3, <1>5, <1>6, <1>7, <1>8, <1>9, <1>10, <1>11, Acts

\* A call ends, and its slot stays or goes.
LEMMA EndKeeps ==
  ASSUME TrashInv, NEW m \in Movers, Active(m), Ends(m), UNCHANGED at,
         UNCHANGED <<expired, cleaner, gone>>, Fine \/ Event,
         \/ UNCHANGED slot
         \/ /\ slot' = [slot EXCEPT ![mover[m].slot] = NoSlot]
            /\ \/ To(m) \subseteq From(m) /\ mover[m].op = "put"
               \/ From(m) \subseteq To(m) /\ mover[m].op = "restore"
               \/ slot[mover[m].slot].tree = {}
  PROVE  TrashInv'
<1>1. PICK t : t = mover[m]
  OBVIOUS
<1>2. /\ t.slot \in Slots /\ t.item \in Items /\ slot[t.slot].item = t.item /\ t.place \in Places
      /\ at[t.item][t.place] \in SUBSET Parts
  BY <1>1 DEF TrashInv, Fits, TypeOK, Active
<1>3. slot \in Folders /\ at \in Homes
  BY DEF TrashInv, TypeOK, Folders, Homes
<1>4. /\ mover' \in [Movers -> Calls] /\ mover'[m].pc = "idle"
      /\ \A n \in Movers \ {m} : mover'[n] = mover[n]
  BY Stops DEF TrashInv
<1>5. /\ slot' \in Folders /\ \A k \in Slots \ {t.slot} : slot'[k] = slot[k]
      /\ slot'[t.slot].tree # {} => slot'[t.slot].item = t.item
      /\ \A i \in {t.item} : Whole(i) => Whole(i)'
  <2>1. CASE UNCHANGED slot
    BY <1>2, <1>3, <2>1 DEF Whole
  <2>2. CASE ~UNCHANGED slot
    <3>1. slot' = [slot EXCEPT ![t.slot] = NoSlot]
      BY <1>1, <2>2
    <3>2. slot[t.slot].tree = Parts => at[t.item][t.place] = Parts
      <4>1. slot[t.slot].tree \subseteq at[t.item][t.place] \/ slot[t.slot].tree = {}
        BY <1>1, <2>2 DEF From, To
      <4> QED  BY <1>2, <4>1, ItemAssumption
    <3>3. NoSlot \in [dir : BOOLEAN, meta : BOOLEAN, item : Items \cup {NoItem},
                      tree : SUBSET Parts] /\ NoSlot.tree = {}
      BY DEF NoSlot
    <3>4. /\ slot' \in Folders /\ slot'[t.slot].tree = {}
          /\ \A k \in Slots \ {t.slot} : slot'[k] = slot[k]
      BY <1>2, <1>3, <3>1, <3>3 DEF Folders
    <3>5. \A i \in {t.item} : Whole(i) => Whole(i)'
      <4>1. CASE at[t.item][t.place] = Parts
        BY <1>2, <4>1 DEF Whole
      <4>2. CASE slot[t.slot].tree # Parts
        BY <3>4, <4>2 DEF Whole
      <4> QED  BY <3>2, <4>1, <4>2
    <3> QED  BY <3>4, <3>5
  <2> QED  BY <2>1, <2>2
<1>6. TypeOK' /\ used'.puts = used.puts
  BY <1>3, <1>4, <1>5, MoveTypes, Counted DEF TrashInv
<1>7. Fits(m)'
  BY <1>4 DEF Fits
<1> QED  BY <1>1, <1>4, <1>5, <1>6, <1>7, Acts

-----------------------------------------------------------------------------
\* A move leaves from and to at its two ends, and goes on or ends.
LEMMA LeavesKeeps ==
  ASSUME TrashInv, NEW m \in Movers, Active(m), mover[m].pc # "describe",
         NEW from \in SUBSET Parts, NEW to \in SUBSET Parts, Leaves(m, from, to),
         From(m) = Parts \/ To(m) = Parts => from = Parts \/ to = Parts,
         UNCHANGED <<expired, cleaner, gone>>, Fine \/ Event,
         mover' \in [Movers -> Calls], \A n \in Movers \ {m} : mover'[n] = mover[n],
         NEW u, u = mover'[m],
         u.pc # "idle" => /\ u.op = mover[m].op /\ u.item = mover[m].item
                          /\ u.place = mover[m].place /\ u.slot = mover[m].slot
                          /\ u.pc \in {"copy", "clear"} \/ (u.pc = "drop" /\ u.op = "restore")
                          /\ u.pc = "copy" => u.copied \subseteq to /\ to \subseteq from
                          /\ u.pc \in {"clear", "drop"} => from \subseteq to
  PROVE  TrashInv'
<1>1. PICK t : t = mover[m]
  OBVIOUS
<1>2. /\ t.slot \in Slots /\ t.item \in Items /\ slot[t.slot].item = t.item /\ t.place \in Places
      /\ slot[t.slot].meta /\ t.op \in {"put", "restore"} /\ t.slot <= used.puts
  BY <1>1 DEF TrashInv, Fits, TypeOK, Active
<1>3. Leaving(t, from, to)
  BY <1>1, Left
<1>4. TypeOK' /\ used'.puts = used.puts
  BY <1>3, MoveTypes, Counted DEF TrashInv, Leaving, Homes, Folders
<1>5. slot'[t.slot].meta /\ slot'[t.slot].item = t.item
  BY <1>2, <1>3 DEF Leaving
<1>6. Fits(m)'
  <2>1. CASE u.pc = "idle"
    BY <2>1 DEF Fits
  <2>2. CASE u.pc # "idle"
    <3>1. /\ u.op = t.op /\ u.item = t.item /\ u.place = t.place /\ u.slot = t.slot
      BY <1>1, <2>2
    <3>2. From(m)' = from /\ To(m)' = to
      BY <1>2, <1>3, <3>1 DEF From, To, Leaving
    <3> QED  BY <1>2, <1>4, <1>5, <2>2, <3>1, <3>2 DEF Fits
  <2> QED  BY <2>1, <2>2
<1>7. ASSUME NEW i \in {t.item}, Whole(i)
      PROVE  Whole(i)'
  BY <1>1, <1>7, LeftWhole
<1>8. /\ \A i \in Items \ {t.item} : at'[i] = at[i]
      /\ \A k \in Slots \ {t.slot} : slot'[k] = slot[k]
  BY <1>3 DEF Leaving
<1>9. mover'[m].pc # "idle" => mover'[m].item = t.item /\ mover'[m].slot = t.slot
  BY <1>1
<1> QED  BY <1>1, <1>4, <1>5, <1>6, <1>7, <1>8, <1>9, Acts

LEMMA Stays ==
  ASSUME TrashInv, NEW m \in Movers, Active(m), UNCHANGED disk
  PROVE  Leaves(m, From(m), To(m)) /\ From(m) \in SUBSET Parts /\ To(m) \in SUBSET Parts
<1>1. PICK t : t = mover[m]
  OBVIOUS
<1>2. /\ t.slot \in Slots /\ t.item \in Items /\ t.place \in Places /\ t.op \in {"put", "restore"}
  BY <1>1 DEF TrashInv, Fits, TypeOK, Active
<1>3. at \in Homes /\ slot \in Folders
  BY DEF TrashInv, TypeOK, Homes, Folders
<1>4. /\ at[t.item][t.place] \in SUBSET Parts /\ slot[t.slot].tree \in SUBSET Parts
  BY <1>2, <1>3 DEF Homes, Folders
<1>5. /\ at = [at EXCEPT ![t.item][t.place] = at[t.item][t.place]]
      /\ slot = [slot EXCEPT ![t.slot].tree = slot[t.slot].tree]
  BY <1>2, <1>3 DEF Homes, Folders
<1>6. at' = at /\ slot' = slot
  BY DEF disk
<1>7. CASE t.op = "put"
  BY <1>1, <1>4, <1>5, <1>6, <1>7 DEF Leaves, From, To
<1>8. CASE t.op = "restore"
  BY <1>1, <1>4, <1>5, <1>6, <1>8 DEF Leaves, From, To
<1> QED  BY <1>2, <1>7, <1>8

\* What the calls' steps need to know of the call.
LEMMA Known ==
  ASSUME TrashInv, NEW m \in Movers, Active(m), NEW t, t = mover[m]
  PROVE  /\ t \in Calls /\ t.slot \in Slots /\ t.op \in {"put", "restore"}
         /\ From(m) \in SUBSET Parts /\ To(m) \in SUBSET Parts
         /\ t.pc \in {"describe", "move"} => To(m) = {} /\ t.copied = {}
         /\ t.pc = "copy" => t.copied \subseteq To(m) /\ To(m) \subseteq From(m)
         /\ t.pc \in {"clear", "drop"} => From(m) \subseteq To(m)
         /\ t.pc = "drop" => t.op = "restore"
         /\ t.pc = "describe" => t.op = "put"
<1>1. /\ t \in Calls /\ t.slot \in Slots /\ t.op \in {"put", "restore"} /\ t.item \in Items
      /\ t.place \in Places
  BY DEF TrashInv, Fits, TypeOK, Active, Calls, MoverPcs
<1>2. at \in Homes /\ slot \in Folders
  BY DEF TrashInv, TypeOK, Homes, Folders
<1>3. at[t.item][t.place] \in SUBSET Parts /\ slot[t.slot].tree \in SUBSET Parts
  BY <1>1, <1>2 DEF Homes, Folders
<1>4. From(m) \in SUBSET Parts /\ To(m) \in SUBSET Parts
  BY <1>3 DEF From, To
<1>5. Fits(m) /\ t.pc # "idle"
  BY DEF TrashInv, Active
<1> QED  BY <1>1, <1>4, <1>5 DEF Fits

\* A call goes on to pc or, having moved, to its end.
LEMMA GoesOn ==
  ASSUME TrashInv, NEW m \in Movers, Active(m), NEW t, t = mover[m], NEW pc \in MoverPcs,
         Goto(m, pc)
  PROVE  /\ mover' \in [Movers -> Calls] /\ \A n \in Movers \ {m} : mover'[n] = mover[n]
         /\ mover'[m].pc = pc /\ mover'[m].op = t.op /\ mover'[m].item = t.item
         /\ mover'[m].place = t.place /\ mover'[m].slot = t.slot /\ mover'[m].copied = t.copied
<1>1. /\ mover' \in [Movers -> Calls] /\ \A n \in Movers \ {m} : mover'[n] = mover[n]
      /\ mover'[m] = [t EXCEPT !.pc = pc] /\ mover'[m].pc = pc
  BY Goes DEF TrashInv
<1>2. t \in Calls
  BY Known
<1> QED  BY <1>1, <1>2 DEF Calls

LEMMA HasMoved ==
  ASSUME TrashInv, NEW m \in Movers, Active(m), NEW t, t = mover[m], Moved(m)
  PROVE  /\ mover' \in [Movers -> Calls] /\ \A n \in Movers \ {m} : mover'[n] = mover[n]
         /\ \/ mover'[m].pc = "idle"
            \/ /\ mover'[m].pc = "drop" /\ mover'[m].op = "restore"
               /\ mover'[m].op = t.op /\ mover'[m].item = t.item
               /\ mover'[m].place = t.place /\ mover'[m].slot = t.slot
<1>1. CASE t.op = "put"
  BY <1>1, Stops DEF Moved, TrashInv
<1>2. CASE t.op = "restore"
  BY <1>2, GoesOn DEF Moved, MoverPcs
<1> QED  BY <1>1, <1>2, Known

LEMMA RenameKeeps ==
  ASSUME TrashInv, NEW m \in Movers, Rename(m)
  PROVE  TrashInv'
<1>1. PICK t : t = mover[m]
  OBVIOUS
<1>2. PICK u : u = mover'[m]
  OBVIOUS
<1>3. /\ Active(m) /\ t.pc = "move" /\ Moved(m) /\ Leaves(m, {}, From(m)) /\ Fine
      /\ UNCHANGED <<expired, cleaner, gone>>
  BY <1>1 DEF Rename, Active
<1>4. /\ From(m) \in SUBSET Parts /\ To(m) = {} /\ {} \in SUBSET Parts
      /\ From(m) = Parts \/ To(m) = Parts => {} = Parts \/ From(m) = Parts
  BY <1>1, <1>3, Known, ItemAssumption
<1>5. /\ mover' \in [Movers -> Calls] /\ \A n \in Movers \ {m} : mover'[n] = mover[n]
      /\ \/ u.pc = "idle"
         \/ /\ u.pc = "drop" /\ u.op = "restore" /\ u.op = t.op /\ u.item = t.item
            /\ u.place = t.place /\ u.slot = t.slot
  BY <1>1, <1>2, <1>3, HasMoved
<1> QED  BY <1>1, <1>2, <1>3, <1>4, <1>5, LeavesKeeps

LEMMA StartCopyKeeps ==
  ASSUME TrashInv, NEW m \in Movers, StartCopy(m)
  PROVE  TrashInv'
<1>1. PICK t : t = mover[m]
  OBVIOUS
<1>2. PICK u : u = mover'[m]
  OBVIOUS
<1>3. /\ Active(m) /\ t.pc = "move" /\ Goto(m, "copy") /\ Fine /\ UNCHANGED disk
      /\ UNCHANGED <<expired, cleaner, gone>>
  BY <1>1 DEF StartCopy, Active
<1>4. Leaves(m, From(m), To(m)) /\ From(m) \in SUBSET Parts /\ To(m) \in SUBSET Parts
  BY <1>3, Stays
<1>5. t.copied = {} /\ To(m) = {}
  BY <1>1, <1>3, Known
<1>6. /\ mover' \in [Movers -> Calls] /\ \A n \in Movers \ {m} : mover'[n] = mover[n]
      /\ u.pc = "copy" /\ u.op = t.op /\ u.item = t.item /\ u.place = t.place /\ u.slot = t.slot
      /\ u.copied = {}
  BY <1>1, <1>2, <1>3, <1>5, GoesOn DEF MoverPcs
<1> QED  BY <1>1, <1>2, <1>3, <1>4, <1>5, <1>6, LeavesKeeps

LEMMA CopyPartKeeps ==
  ASSUME TrashInv, NEW m \in Movers, CopyPart(m)
  PROVE  TrashInv'
<1>1. PICK t : t = mover[m]
  OBVIOUS
<1>2. PICK x \in From(m) : /\ Leaves(m, From(m), To(m) \cup {x})
                           /\ mover' = [mover EXCEPT ![m].copied = @ \cup {x}]
  BY DEF CopyPart
<1>3. PICK u : u = mover'[m]
  OBVIOUS
<1>4. Active(m) /\ t.pc = "copy" /\ Fine /\ UNCHANGED <<expired, cleaner, gone>>
  BY <1>1 DEF CopyPart, Active
<1>5. /\ t \in Calls /\ From(m) \in SUBSET Parts /\ To(m) \cup {x} \in SUBSET Parts
      /\ t.copied \cup {x} \subseteq To(m) \cup {x} /\ To(m) \cup {x} \subseteq From(m)
      /\ From(m) = Parts \/ To(m) = Parts => From(m) = Parts \/ To(m) \cup {x} = Parts
  BY <1>1, <1>2, <1>4, Known
<1>6. mover \in [Movers -> Calls]
  BY DEF TrashInv, TypeOK, Calls, MoverPcs
<1>7. /\ u = [t EXCEPT !.copied = t.copied \cup {x}]
      /\ \A n \in Movers \ {m} : mover'[n] = mover[n]
  BY <1>1, <1>2, <1>3, <1>6
<1>8. x \in Parts
  BY <1>2, <1>5
<1>9. /\ u \in Calls /\ u.pc = "copy" /\ u.op = t.op /\ u.item = t.item /\ u.place = t.place
      /\ u.slot = t.slot /\ u.copied = t.copied \cup {x}
  BY <1>4, <1>5, <1>7, <1>8 DEF Calls
<1>10. mover' \in [Movers -> Calls]
  BY <1>2, <1>3, <1>6, <1>7, <1>9
<1>11. PICK to : to = To(m) \cup {x}
  OBVIOUS
<1>12. /\ Leaves(m, From(m), to) /\ From(m) \in SUBSET Parts /\ to \in SUBSET Parts
       /\ u.copied \subseteq to /\ to \subseteq From(m)
       /\ From(m) = Parts \/ To(m) = Parts => From(m) = Parts \/ to = Parts
  BY <1>2, <1>5, <1>9, <1>11
<1>13. /\ u.op = mover[m].op /\ u.item = mover[m].item /\ u.place = mover[m].place
       /\ u.slot = mover[m].slot /\ u.pc = "copy" /\ mover[m].pc # "describe"
  BY <1>1, <1>4, <1>9
<1>14. \A n \in Movers \ {m} : mover'[n] = mover[n]
  BY <1>7
<1> QED  BY <1>3, <1>4, <1>10, <1>12, <1>13, <1>14, LeavesKeeps

LEMMA CopyEndsKeeps ==
  ASSUME TrashInv, NEW m \in Movers, CopyEnds(m)
  PROVE  TrashInv'
<1>1. PICK t : t = mover[m]
  OBVIOUS
<1>2. PICK u : u = mover'[m]
  OBVIOUS
<1>3. /\ Active(m) /\ t.pc = "copy" /\ Goto(m, "clear") /\ Fine /\ UNCHANGED disk
      /\ UNCHANGED <<expired, cleaner, gone>> /\ From(m) \subseteq t.copied
  BY <1>1 DEF CopyEnds, Active
<1>4. Leaves(m, From(m), To(m)) /\ From(m) \in SUBSET Parts /\ To(m) \in SUBSET Parts
  BY <1>3, Stays
<1>5. From(m) \subseteq To(m)
  BY <1>1, <1>3, Known
<1>6. /\ mover' \in [Movers -> Calls] /\ \A n \in Movers \ {m} : mover'[n] = mover[n]
      /\ u.pc = "clear" /\ u.op = t.op /\ u.item = t.item /\ u.place = t.place /\ u.slot = t.slot
  BY <1>1, <1>2, <1>3, GoesOn DEF MoverPcs
<1> QED  BY <1>1, <1>2, <1>3, <1>4, <1>5, <1>6, LeavesKeeps

LEMMA CopyFailsKeeps ==
  ASSUME TrashInv, NEW m \in Movers, CopyFails(m)
  PROVE  TrashInv'
<1>1. PICK t : t = mover[m]
  OBVIOUS
<1>2. PICK u : u = mover'[m]
  OBVIOUS
<1>3. /\ Active(m) /\ t.pc = "copy" /\ Ends(m) /\ (Fine \/ Event)
      /\ UNCHANGED <<expired, cleaner, gone>>
  BY <1>1 DEF CopyFails, Active
<1>4. From(m) \in SUBSET Parts /\ To(m) \in SUBSET Parts /\ To(m) \subseteq From(m)
  BY <1>1, <1>3, Known
<1>5. CASE UNCHANGED disk
  BY <1>3, <1>5, EndKeeps DEF disk
<1>6. CASE Leaves(m, From(m), {})
  <2>1. From(m) = Parts \/ To(m) = Parts => From(m) = Parts \/ {} = Parts
    BY <1>4
  <2>2. /\ mover' \in [Movers -> Calls] /\ \A n \in Movers \ {m} : mover'[n] = mover[n]
        /\ u.pc = "idle"
    BY <1>2, <1>3, Stops DEF TrashInv
  <2> QED  BY <1>1, <1>2, <1>3, <1>4, <1>6, <2>1, <2>2, LeavesKeeps
<1>7. CASE /\ mover[m].op = "put" /\ UNCHANGED at
           /\ slot' = [slot EXCEPT ![mover[m].slot] = NoSlot]
  BY <1>3, <1>4, <1>7, EndKeeps
<1> QED  BY <1>5, <1>6, <1>7 DEF CopyFails

LEMMA ClearPartKeeps ==
  ASSUME TrashInv, NEW m \in Movers, ClearPart(m)
  PROVE  TrashInv'
<1>1. PICK t : t = mover[m]
  OBVIOUS
<1>2. PICK x \in From(m) : Leaves(m, From(m) \ {x}, To(m))
  BY DEF ClearPart
<1>3. Active(m) /\ t.pc = "clear" /\ Fine /\ UNCHANGED <<expired, mover, cleaner, gone>>
  BY <1>1 DEF ClearPart, Active
<1>4. /\ From(m) \ {x} \in SUBSET Parts /\ To(m) \in SUBSET Parts /\ From(m) \subseteq To(m)
      /\ From(m) = Parts \/ To(m) = Parts => From(m) \ {x} = Parts \/ To(m) = Parts
  BY <1>1, <1>3, Known
<1>5. mover' = mover /\ mover \in [Movers -> Calls] /\ t = mover'[m]
  BY <1>1, <1>3 DEF TrashInv, TypeOK, Calls, MoverPcs
<1> QED  BY <1>1, <1>2, <1>3, <1>4, <1>5, LeavesKeeps

LEMMA ClearEndsKeeps ==
  ASSUME TrashInv, NEW m \in Movers, ClearEnds(m)
  PROVE  TrashInv'
<1>1. PICK t : t = mover[m]
  OBVIOUS
<1>2. PICK u : u = mover'[m]
  OBVIOUS
<1>3. /\ Active(m) /\ t.pc = "clear" /\ Moved(m) /\ (Fine \/ Event) /\ UNCHANGED disk
      /\ UNCHANGED <<expired, cleaner, gone>>
  BY <1>1 DEF ClearEnds, Active
<1>4. Leaves(m, From(m), To(m)) /\ From(m) \in SUBSET Parts /\ To(m) \in SUBSET Parts
  BY <1>3, Stays
<1>5. From(m) \subseteq To(m)
  BY <1>1, <1>3, Known
<1>6. /\ mover' \in [Movers -> Calls] /\ \A n \in Movers \ {m} : mover'[n] = mover[n]
      /\ \/ u.pc = "idle"
         \/ /\ u.pc = "drop" /\ u.op = "restore" /\ u.op = t.op /\ u.item = t.item
            /\ u.place = t.place /\ u.slot = t.slot
  BY <1>1, <1>2, <1>3, HasMoved
<1> QED  BY <1>1, <1>2, <1>3, <1>4, <1>5, <1>6, LeavesKeeps

LEMMA PutFailsKeeps ==
  ASSUME TrashInv, NEW m \in Movers, PutFails(m)
  PROVE  TrashInv'
<1>1. PICK t : t = mover[m]
  OBVIOUS
<1>2. /\ Active(m) /\ t.pc \in {"describe", "move"} /\ t.op = "put" /\ Ends(m) /\ UNCHANGED at
      /\ (Fine \/ Event) /\ UNCHANGED <<expired, cleaner, gone>>
      /\ UNCHANGED slot \/ slot' = [slot EXCEPT ![mover[m].slot] = NoSlot]
  BY <1>1 DEF PutFails, Active
<1>3. To(m) = {}
  BY <1>1, <1>2, Known
<1> QED  BY <1>1, <1>2, <1>3, EndKeeps

LEMMA RestoreEndsKeep ==
  ASSUME TrashInv, NEW m \in Movers, RestoreFails(m) \/ RestoreDrops(m)
  PROVE  TrashInv'
<1>1. PICK t : t = mover[m]
  OBVIOUS
<1>2. CASE RestoreFails(m)
  BY <1>2, EndKeeps DEF RestoreFails, Active, disk
<1>3. CASE RestoreDrops(m)
  <2>1. /\ Active(m) /\ t.pc = "drop" /\ Ends(m) /\ UNCHANGED at /\ (Fine \/ Event)
        /\ UNCHANGED <<expired, cleaner, gone>>
        /\ UNCHANGED slot \/ slot' = [slot EXCEPT ![mover[m].slot] = NoSlot]
    BY <1>1, <1>3 DEF RestoreDrops, Active
  <2>2. From(m) \subseteq To(m) /\ t.op = "restore"
    BY <1>1, <2>1, Known
  <2> QED  BY <1>1, <2>1, <2>2, EndKeeps
<1> QED  BY <1>2, <1>3

LEMMA MovesKeep ==
  ASSUME TrashInv, NEW m \in Movers, Moves(m)
  PROVE  TrashInv'
BY DescribeKeeps, PutFailsKeeps, RestoreEndsKeep, RenameKeeps, StartCopyKeeps, CopyPartKeeps,
   CopyEndsKeeps, CopyFailsKeeps, ClearPartKeeps, ClearEndsKeeps DEF Moves

-----------------------------------------------------------------------------
LEMMA PutBeginsKeeps ==
  ASSUME TrashInv, NEW m \in Movers, NEW i \in Items, NEW p \in Places, PutBegins(m, i, p)
  PROVE  TrashInv'
<1> DEFINE k == used.puts + 1
           t == Call("describe", "put", i, p, k)
           s == [NoSlot EXCEPT !.dir = TRUE, !.item = i]
<1>1. /\ used \in [puts : 0..MaxPuts, events : 0..MaxEvents] /\ used.puts < MaxPuts
      /\ MaxPuts \in Nat /\ used.puts \in Nat
  BY BoundAssumption DEF PutBegins, TrashInv, TypeOK
<1>2. k \in Slots /\ k > used.puts /\ k <= MaxPuts
  BY <1>1 DEF Slots
<1>3. /\ mover \in [Movers -> Calls] /\ slot \in Folders /\ at \in Homes
  BY DEF TrashInv, TypeOK, Calls, MoverPcs, Folders, Homes
<1>4. t \in Calls /\ t.item = i /\ t.slot = k /\ t.pc = "describe" /\ t.op = "put" /\ t.copied = {}
  <2>1. k \in 0..MaxPuts
    BY <1>1
  <2> HIDE DEF k
  <2> QED  BY <2>1 DEF Call, Calls, MoverPcs
<1>5. /\ s \in [dir : BOOLEAN, meta : BOOLEAN, item : Items \cup {NoItem}, tree : SUBSET Parts]
      /\ s.item = i /\ s.tree = {}
  BY DEF NoSlot
<1>6. slot' = [slot EXCEPT ![k] = s] /\ mover' = [mover EXCEPT ![m] = t]
  BY DEF PutBegins
<1> HIDE DEF s, t
<1>7. /\ slot' \in Folders /\ slot'[k] = s /\ \A j \in Slots \ {k} : slot'[j] = slot[j]
  BY <1>2, <1>3, <1>5, <1>6 DEF Folders
<1>8. /\ mover' \in [Movers -> Calls] /\ mover'[m] = t
      /\ \A n \in Movers \ {m} : mover'[n] = mover[n]
  BY <1>3, <1>4, <1>6
<1>9. /\ used' \in [puts : 0..MaxPuts, events : 0..MaxEvents] /\ used'.puts = k
  BY <1>1, <1>2 DEF PutBegins, Count
<1>10. UNCHANGED <<at, expired, cleaner, gone>>
  BY DEF PutBegins
<1>11. TypeOK'
  BY <1>7, <1>8, <1>9, <1>10 DEF TrashInv, TypeOK, Calls, MoverPcs, Folders
<1>12. Distinct'
  BY <1>4, <1>8 DEF TrashInv, Distinct, PutBegins, Free, Active
<1>13. Numbered'
  <2>1. ASSUME NEW j \in Slots
        PROVE  /\ j > used'.puts => slot'[j] = NoSlot
               /\ slot'[j].tree # {} => slot'[j].item \in Items
    BY <1>1, <1>2, <1>5, <1>7, <1>9 DEF TrashInv, Numbered, Slots
  <2> QED  BY <2>1 DEF Numbered, NoSlot
<1>14. Apart'
  <2>1. cleaner' = cleaner /\ 1..used.puts \subseteq 1..used'.puts
    BY <1>1, <1>9, <1>10
  <2>2. (cleaner.due \cup cleaner.kept) \subseteq 1..used'.puts
    BY <2>1 DEF TrashInv, Apart
  <2>3. CASE cleaner.pc = "remove"
    <3>1. /\ cleaner.now \in Slots /\ cleaner.now <= used.puts
          /\ cleaner.now \notin cleaner.due => cleaner.total > 0
          /\ \A n \in Movers : Active(n) => mover[n].slot # cleaner.now
      BY <2>3 DEF TrashInv, Apart
    <3>2. cleaner.now <= used'.puts /\ cleaner.now # k
      BY <1>1, <1>9, <3>1 DEF Slots
    <3>3. \A n \in Movers : Active(n)' => mover'[n].slot # cleaner.now
      BY <1>4, <1>8, <3>1, <3>2 DEF Active
    <3> QED  BY <2>1, <2>2, <3>1, <3>2, <3>3 DEF Apart
  <2>4. CASE cleaner.pc # "remove"
    BY <2>1, <2>2, <2>4 DEF Apart
  <2> QED  BY <2>3, <2>4
<1>15. ASSUME NEW n \in Movers
       PROVE  Fits(n)'
  <2>1. CASE n = m
    BY <1>1, <1>2, <1>4, <1>5, <1>7, <1>8, <1>9, <2>1 DEF Fits, To
  <2>2. CASE n # m /\ mover[n].pc = "idle"
    BY <1>8, <2>2 DEF Fits
  <2>3. CASE n # m /\ mover[n].pc # "idle"
    <3>1. Fits(n) /\ mover'[n] = mover[n] /\ mover[n].slot \in Slots /\ mover[n].slot <= used.puts
      BY <1>8, <2>3 DEF TrashInv, Fits
    <3>2. mover[n].slot # k /\ mover[n].slot <= used'.puts
      BY <1>1, <1>9, <3>1 DEF Slots
    <3>3. slot'[mover[n].slot] = slot[mover[n].slot] /\ at' = at
      BY <1>7, <1>10, <3>1, <3>2
    <3> QED  BY <3>1, <3>2, <3>3 DEF Fits, From, To
  <2> QED  BY <2>1, <2>2, <2>3
<1>16. ASSUME NEW j \in Items
       PROVE  j \in gone' \/ Whole(j)'
  <2>1. slot[k].tree = {}
    BY <1>2 DEF TrashInv, Numbered, NoSlot
  <2>2. \A l \in Slots : slot[l].tree = Parts => slot'[l] = slot[l]
    BY <1>7, <2>1, ItemAssumption
  <2> QED  BY <1>10, <2>2 DEF TrashInv, Whole
<1> QED  BY <1>11, <1>12, <1>13, <1>14, <1>15, <1>16 DEF TrashInv

LEMMA RestoreBeginsKeeps ==
  ASSUME TrashInv, NEW m \in Movers, NEW k \in Slots, RestoreBegins(m, k),
         ~Putting(k), ~Removing(k)
  PROVE  TrashInv'
<1> DEFINE i == slot[k].item
           free == {p \in Places : at[i][p] = {}}
           t == Call("move", "restore", i, Target(i), k)
<1>1. /\ slot[k].meta /\ slot[k].tree # {} /\ Free(i) /\ free # {}
      /\ mover' = [mover EXCEPT ![m] = t] /\ mover[m].pc = "idle"
      /\ UNCHANGED <<at, slot, expired, cleaner, gone, used>>
  BY DEF RestoreBegins, Listed, disk, Fine
<1>2. k <= used.puts /\ i \in Items
  <2>1. k > used.puts => slot[k].tree = {}
    BY DEF TrashInv, Numbered, NoSlot
  <2>2. k \in Nat /\ used.puts \in Nat
    BY BoundAssumption DEF TrashInv, TypeOK, Slots
  <2> QED  BY <1>1, <2>1, <2>2 DEF TrashInv, Numbered
<1>3. Target(i) \in free
  BY <1>1, FirstName DEF Target
<1>4. mover \in [Movers -> Calls] /\ at \in Homes /\ slot \in Folders
  BY DEF TrashInv, TypeOK, Calls, MoverPcs, Homes, Folders
<1> HIDE DEF i
<1>5. /\ t \in Calls /\ t.item = i /\ t.slot = k /\ t.pc = "move" /\ t.op = "restore"
      /\ t.copied = {} /\ t.place = Target(i)
  <2>1. k \in 0..MaxPuts /\ Target(i) \in Places
    BY <1>3, BoundAssumption DEF Slots
  <2> QED  BY <1>2, <2>1 DEF Call, Calls, MoverPcs
<1> HIDE DEF t
<1>6. /\ mover' \in [Movers -> Calls] /\ mover'[m] = t
      /\ \A n \in Movers \ {m} : mover'[n] = mover[n]
  BY <1>1, <1>4, <1>5
<1>7. TypeOK'
  BY <1>1, <1>6 DEF TrashInv, TypeOK, Calls, MoverPcs
<1>8. Distinct'
  BY <1>1, <1>5, <1>6 DEF TrashInv, Distinct, Free, Active
<1>9. Numbered'
  BY <1>1 DEF TrashInv, Numbered
<1>10. Apart'
  <2>1. cleaner.pc = "remove" => k # cleaner.now
    BY DEF Removing
  <2> QED  BY <1>1, <1>5, <1>6, <2>1 DEF TrashInv, Apart, Active
<1>11. ASSUME NEW n \in Movers
       PROVE  Fits(n)'
  <2>1. CASE n = m
    <3>1. To(m)' = {}
      BY <1>1, <1>3, <1>5, <1>6 DEF To
    <3> QED  BY <1>1, <1>2, <1>5, <1>6, <2>1, <3>1 DEF Fits, i
  <2>2. CASE n # m
    BY <1>1, <1>6, <2>2 DEF TrashInv, Fits, From, To
  <2> QED  BY <2>1, <2>2
<1>12. ASSUME NEW j \in Items
       PROVE  j \in gone' \/ Whole(j)'
  BY <1>1 DEF TrashInv, Whole
<1> QED  BY <1>7, <1>8, <1>9, <1>10, <1>11, <1>12 DEF TrashInv

-----------------------------------------------------------------------------
\* The cleaner, the time and the end of the launcher move no item.
LEMMA OthersKeep ==
  ASSUME TrashInv, TypeOK', Apart', UNCHANGED <<at, slot, gone>>, used'.puts = used.puts,
         mover' = mover \/ \A m \in Movers : mover'[m].pc = "idle"
  PROVE  TrashInv'
<1>1. Distinct'
  BY DEF TrashInv, Distinct, Active
<1>2. Numbered'
  BY DEF TrashInv, Numbered
<1>3. \A m \in Movers : Fits(m)'
  BY DEF TrashInv, Fits, From, To
<1>4. \A i \in Items : (i \in gone \/ Whole(i))'
  BY DEF TrashInv, Whole
<1> QED  BY <1>1, <1>2, <1>3, <1>4 DEF TrashInv

LEMMA InUse ==
  ASSUME TrashInv, NEW k \in Slots, slot[k].dir \/ slot[k].meta \/ slot[k].tree # {}
  PROVE  k \in 1..used.puts
<1>1. k \in Nat /\ k >= 1 /\ used.puts \in Nat
  BY BoundAssumption DEF TrashInv, TypeOK, Slots
<1>2. ~(k > used.puts)
  BY DEF TrashInv, Numbered, NoSlot
<1> QED  BY <1>1, <1>2

\* A purge, deletion or emptying begins with slots in use.
LEMMA CleaningKeeps ==
  ASSUME TrashInv, NEW due \in SUBSET Slots, NEW kept \in SUBSET Slots,
         \A k \in due \cup kept : slot[k].dir \/ slot[k].tree # {},
         NEW pc \in {"idle", "next"}, cleaner' = Cleaning(pc, due, kept),
         UNCHANGED <<at, slot, expired, gone>>, Fine \/ Event,
         \/ mover' = mover
         \/ mover' = [m \in Movers |-> IdleMover]
  PROVE  TrashInv'
<1>1. due \cup kept \subseteq 1..used.puts
  BY InUse
<1>2. used' \in [puts : 0..MaxPuts, events : 0..MaxEvents] /\ used'.puts = used.puts
  BY Counted DEF TrashInv
<1>3. /\ cleaner'.due = due /\ cleaner'.kept = kept /\ cleaner'.pc = pc
      /\ cleaner' \in [pc : {"idle", "next", "remove"}, due : SUBSET Slots,
                       kept : SUBSET Slots, total : 0..MaxPuts, now : 0..MaxPuts]
  <2>1. Cardinality(kept) \in 0..MaxPuts /\ 0 \in 0..MaxPuts
    BY CountFits, BoundAssumption
  <2> QED  BY <2>1 DEF Cleaning
<1>4. /\ mover' \in [Movers -> Calls]
      /\ mover' = mover \/ \A m \in Movers : mover'[m].pc = "idle"
  <2>1. IdleMover \in Calls /\ IdleMover.pc = "idle"
    BY BoundAssumption DEF IdleMover, Call, Calls, MoverPcs, Places
  <2> QED  BY <2>1 DEF TrashInv, TypeOK, Calls, MoverPcs
<1>5. TypeOK'
  BY <1>2, <1>3, <1>4 DEF TrashInv, TypeOK, Calls, MoverPcs
<1>6. Apart'
  BY <1>1, <1>2, <1>3 DEF Apart
<1> QED  BY <1>2, <1>4, <1>5, <1>6, OthersKeep

LEMMA CleaningBegins ==
  ASSUME TrashInv, PurgeBegins \/ Empty \/ Crash \/ \E k \in Slots : Delete(k)
  PROVE  TrashInv'
<1>1. CASE PurgeBegins
  <2>1. Past \cup Leftovers \in SUBSET Slots /\ Kept \in SUBSET Slots
    BY DEF Past, Leftovers, Kept
  <2>2. \A k \in (Past \cup Leftovers) \cup Kept : slot[k].dir \/ slot[k].tree # {}
    BY DEF Past, Leftovers, Kept, Listed
  <2> QED  BY <1>1, <2>1, <2>2, CleaningKeeps DEF PurgeBegins, disk
<1>2. CASE Empty
  <2> DEFINE due == {k \in Slots : slot[k].dir}
  <2>1. due \in SUBSET Slots /\ {} \in SUBSET Slots
    OBVIOUS
  <2>2. \A k \in due \cup {} : slot[k].dir \/ slot[k].tree # {}
    OBVIOUS
  <2>3. cleaner' = Cleaning("next", due, {}) /\ Event /\ UNCHANGED <<disk, expired, mover, gone>>
    BY <1>2 DEF Empty, Asks
  <2> HIDE DEF due
  <2> QED  BY <2>1, <2>2, <2>3, CleaningKeeps DEF disk
<1>3. CASE Crash
  <2>1. /\ cleaner' = Cleaning("idle", {}, {}) /\ Event /\ UNCHANGED <<disk, expired, gone>>
        /\ mover' = [m \in Movers |-> IdleMover]
    BY <1>3 DEF Crash, IdleCleaner
  <2> QED  BY <2>1, CleaningKeeps DEF disk
<1>4. ASSUME NEW k \in Slots, Delete(k)
      PROVE  TrashInv'
  <2>1. /\ cleaner' = Cleaning("next", {k}, {}) /\ Event
        /\ UNCHANGED <<disk, expired, mover, gone>> /\ slot[k].tree # {}
    BY <1>4 DEF Delete, Asks, Listed
  <2>2. {k} \in SUBSET Slots /\ {} \in SUBSET Slots
    OBVIOUS
  <2> QED  BY <2>1, <2>2, CleaningKeeps DEF disk
<1> QED  BY <1>1, <1>2, <1>3, <1>4

Cleanings == [pc : {"idle", "next", "remove"}, due : SUBSET Slots, kept : SUBSET Slots,
              total : 0..MaxPuts, now : 0..MaxPuts]

LEMMA CleanNextKeeps ==
  ASSUME TrashInv, NEW k \in Slots, CleanNext(k), ~Putting(k), ~Restoring(k)
  PROVE  TrashInv'
<1>1. PICK c : c = cleaner
  OBVIOUS
<1>2. PICK d : d = cleaner'
  OBVIOUS
<1>3. c \in Cleanings /\ Cap \in Nat /\ MaxPuts \in Nat
  BY <1>1, BoundAssumption DEF TrashInv, TypeOK, Cleanings
<1>4. /\ d = [c EXCEPT !.pc = "remove", !.now = k, !.kept = c.kept \ {k}]
      /\ UNCHANGED <<at, slot, expired, mover, gone, used>>
  BY <1>1, <1>2 DEF CleanNext, disk, Fine
<1>5. k \in c.due \/ (k \in c.kept /\ c.total > Cap)
  BY <1>1 DEF CleanNext, Over
<1>6. /\ d \in Cleanings /\ d.pc = "remove" /\ d.now = k /\ d.due = c.due
      /\ d.kept = c.kept \ {k} /\ d.total = c.total
  <2>1. k \in 0..MaxPuts /\ c.kept \ {k} \in SUBSET Slots
    BY <1>3 DEF Slots, Cleanings
  <2> QED  BY <1>3, <1>4, <2>1 DEF Cleanings
<1>7. TypeOK'
  BY <1>2, <1>4, <1>6 DEF TrashInv, TypeOK, Cleanings
<1>8. Apart'
  <2>1. c.due \cup c.kept \subseteq 1..used.puts /\ used.puts \in Nat
    BY <1>1, BoundAssumption DEF TrashInv, Apart, TypeOK
  <2>2. k <= used.puts
    BY <1>5, <2>1
  <2>3. k \notin c.due => c.total > 0
    BY <1>3, <1>5 DEF Cleanings
  <2>4. \A m \in Movers : Active(m) => mover[m].slot # k
    BY DEF Putting, Restoring, TrashInv, Fits, Active
  <2> QED  BY <1>2, <1>4, <1>6, <2>1, <2>2, <2>3, <2>4 DEF Apart, Active
<1> QED  BY <1>4, <1>7, <1>8, OthersKeep

LEMMA CleanEndsKeeps ==
  ASSUME TrashInv, CleanEnds
  PROVE  TrashInv'
<1>1. cleaner' = Cleaning("idle", {}, {}) /\ UNCHANGED <<disk, expired, mover, gone>> /\ Fine
  BY DEF CleanEnds, IdleCleaner
<1> QED  BY <1>1, CleaningKeeps DEF disk

\* What the cleaner knows when it has removed a slot, or has given up.
LEMMA RemovedFits ==
  ASSUME TrashInv, cleaner.pc = "remove", NEW n \in {0, 1}, Removed(n),
         UNCHANGED <<expired, mover, gone, at>>, slot' \in Folders, Fine \/ Event
  PROVE  TypeOK' /\ Apart' /\ used'.puts = used.puts
<1>1. PICK c : c = cleaner
  OBVIOUS
<1>2. PICK d : d = cleaner'
  OBVIOUS
<1>3. c \in Cleanings /\ MaxPuts \in Nat /\ (c.now \notin c.due => c.total > 0)
  BY <1>1, BoundAssumption DEF TrashInv, TypeOK, Apart, Cleanings
<1>4. PICK total : total = IF c.now \in c.due THEN c.total ELSE c.total - n
  OBVIOUS
<1>5. total \in 0..MaxPuts
  BY <1>3, <1>4 DEF Cleanings
<1>6. d = [c EXCEPT !.pc = "next", !.due = c.due \ {c.now}, !.total = total]
  BY <1>1, <1>2, <1>4 DEF Removed
<1>7. d \in Cleanings /\ d.pc = "next" /\ d.due = c.due \ {c.now} /\ d.kept = c.kept
  BY <1>3, <1>5, <1>6 DEF Cleanings
<1>8. used' \in [puts : 0..MaxPuts, events : 0..MaxEvents] /\ used'.puts = used.puts
  BY Counted DEF TrashInv
<1>9. TypeOK'
  BY <1>2, <1>7, <1>8 DEF TrashInv, TypeOK, Cleanings, Folders
<1>10. Apart'
  BY <1>1, <1>2, <1>7, <1>8 DEF TrashInv, Apart
<1> QED  BY <1>8, <1>9, <1>10

LEMMA RemoveStopsKeeps ==
  ASSUME TrashInv, RemoveStops
  PROVE  TrashInv'
<1>1. /\ cleaner.pc = "remove" /\ Removed(0) /\ Event
      /\ UNCHANGED <<at, slot, expired, mover, gone>>
  BY DEF RemoveStops, disk
<1>2. slot' \in Folders
  BY <1>1 DEF TrashInv, TypeOK, Folders
<1>3. TypeOK' /\ Apart' /\ used'.puts = used.puts
  BY <1>1, <1>2, RemovedFits
<1> QED  BY <1>1, <1>3, OthersKeep

\* The slot the cleaner removes changes; what was whole in it is gone for good.
LEMMA SlotRemoved ==
  ASSUME TrashInv, cleaner.pc = "remove", NEW k, k = cleaner.now,
         NEW s, slot' = [slot EXCEPT ![k] = s], s.tree # {} => s.item = slot[k].item,
         s.tree \subseteq slot[k].tree,
         slot[k].tree = Parts => slot[k].item \in gone' \/ (s.meta /\ s.tree = Parts),
         s.item = slot[k].item \/ slot[k].tree = {},
         gone \subseteq gone', TypeOK', Apart', UNCHANGED <<at, mover>>, used'.puts = used.puts
  PROVE  TrashInv'
<1>1. /\ k \in Slots /\ k <= used.puts /\ \A m \in Movers : Active(m) => mover[m].slot # k
  BY DEF TrashInv, Apart
<1>2. slot'[k] = s /\ \A j \in Slots \ {k} : slot'[j] = slot[j]
  BY <1>1 DEF TrashInv, TypeOK
<1>3. Distinct'
  BY DEF TrashInv, Distinct, Active
<1>4. Numbered'
  <2>1. ASSUME NEW j \in Slots
        PROVE  /\ j > used'.puts => slot'[j] = NoSlot
               /\ slot'[j].tree # {} => slot'[j].item \in Items
    <3>1. CASE j = k
      <4>1. ~(k > used.puts)
        BY <1>1, BoundAssumption DEF TrashInv, TypeOK, Slots
      <4> QED  BY <1>1, <1>2, <3>1, <4>1 DEF TrashInv, Numbered
    <3>2. CASE j # k
      BY <1>2, <3>2 DEF TrashInv, Numbered
    <3> QED  BY <3>1, <3>2
  <2> QED  BY <2>1 DEF Numbered, NoSlot
<1>5. ASSUME NEW m \in Movers
      PROVE  Fits(m)'
  <2>1. CASE mover[m].pc = "idle"
    BY <2>1 DEF Fits
  <2>2. CASE mover[m].pc # "idle"
    <3>1. Fits(m) /\ mover[m].slot \in Slots /\ mover[m].slot # k
      BY <1>1, <2>2 DEF TrashInv, Fits, Active
    <3>2. slot'[mover[m].slot] = slot[mover[m].slot]
      BY <1>2, <3>1
    <3> QED  BY <3>1, <3>2 DEF Fits, From, To
  <2> QED  BY <2>1, <2>2
<1>6. ASSUME NEW i \in Items
      PROVE  i \in gone' \/ Whole(i)'
  <2>1. CASE i \in gone \/ \E p \in Places : at[i][p] = Parts
    BY <2>1 DEF Whole
  <2>2. CASE \E j \in Slots : slot[j].meta /\ slot[j].item = i /\ slot[j].tree = Parts
    <3>1. PICK j \in Slots : slot[j].meta /\ slot[j].item = i /\ slot[j].tree = Parts
      BY <2>2
    <3>2. CASE j # k
      BY <1>2, <3>1, <3>2 DEF Whole
    <3>3. CASE j = k
      <4>1. i \in gone' \/ (s.meta /\ s.tree = Parts /\ s.item = i)
        BY <3>1, <3>3, ItemAssumption
      <4> QED  BY <1>1, <1>2, <4>1 DEF Whole
    <3> QED  BY <3>2, <3>3
  <2> QED  BY <2>1, <2>2 DEF TrashInv, Whole
<1> QED  BY <1>3, <1>4, <1>5, <1>6 DEF TrashInv

LEMMA RemoveEndsKeeps ==
  ASSUME TrashInv, RemoveEnds
  PROVE  TrashInv'
<1>1. PICK k : k = cleaner.now
  OBVIOUS
<1>2. /\ cleaner.pc = "remove" /\ slot[k].tree = {} /\ slot' = [slot EXCEPT ![k] = NoSlot]
      /\ Removed(1) /\ Fine /\ UNCHANGED <<at, expired, mover, gone>>
  BY <1>1 DEF RemoveEnds
<1>3. NoSlot \in [dir : BOOLEAN, meta : BOOLEAN, item : Items \cup {NoItem}, tree : SUBSET Parts]
      /\ NoSlot.tree = {}
  BY DEF NoSlot
<1>4. slot' \in Folders
  BY <1>2, <1>3 DEF TrashInv, TypeOK, Folders
<1>5. TypeOK' /\ Apart' /\ used'.puts = used.puts
  BY <1>2, <1>4, RemovedFits
<1>6. slot[k].tree # Parts
  BY <1>2, ItemAssumption
<1> QED  BY <1>1, <1>2, <1>3, <1>5, <1>6, SlotRemoved

LEMMA RemoveFileKeeps ==
  ASSUME TrashInv, RemoveFile
  PROVE  TrashInv'
<1>1. PICK k : k = cleaner.now
  OBVIOUS
<1>2. /\ cleaner.pc = "remove" /\ Fine /\ UNCHANGED <<at, expired, mover, cleaner>>
      /\ gone' = gone \cup IF slot[k].tree = Parts /\ ~Copying(k) THEN {slot[k].item} ELSE {}
  BY <1>1 DEF RemoveFile
<1>3. k \in Slots /\ slot \in Folders
  BY <1>1, <1>2 DEF TrashInv, Apart, TypeOK, Folders
<1>4. ~Copying(k)
  BY <1>1, <1>2 DEF TrashInv, Apart, Copying, Active
<1>5. PICK s : /\ slot' = [slot EXCEPT ![k] = s]
               /\ s \in [dir : BOOLEAN, meta : BOOLEAN, item : Items \cup {NoItem},
                         tree : SUBSET Parts]
               /\ s.item = slot[k].item /\ s.tree \subseteq slot[k].tree
  <2>1. CASE slot' = [slot EXCEPT ![k].meta = FALSE]
    <3>1. PICK s : s = [slot[k] EXCEPT !.meta = FALSE]
      OBVIOUS
    <3>2. slot' = [slot EXCEPT ![k] = s]
      BY <2>1, <3>1
    <3>3. s \in [dir : BOOLEAN, meta : BOOLEAN, item : Items \cup {NoItem}, tree : SUBSET Parts]
          /\ s.item = slot[k].item /\ s.tree \subseteq slot[k].tree
      BY <1>3, <3>1 DEF Folders
    <3> QED  BY <3>2, <3>3
  <2>2. CASE \E x \in slot[k].tree : slot' = [slot EXCEPT ![k].tree = @ \ {x}]
    <3>1. PICK x \in slot[k].tree : slot' = [slot EXCEPT ![k].tree = @ \ {x}]
      BY <2>2
    <3>2. PICK s : s = [slot[k] EXCEPT !.tree = @ \ {x}]
      OBVIOUS
    <3>3. slot' = [slot EXCEPT ![k] = s]
      BY <3>1, <3>2
    <3>4. s \in [dir : BOOLEAN, meta : BOOLEAN, item : Items \cup {NoItem}, tree : SUBSET Parts]
          /\ s.item = slot[k].item /\ s.tree \subseteq slot[k].tree
      BY <1>3, <3>2 DEF Folders
    <3> QED  BY <3>3, <3>4
  <2> QED  BY <1>1, <2>1, <2>2 DEF RemoveFile
<1>6. slot' \in Folders
  BY <1>3, <1>5 DEF Folders
<1>7. slot[k].tree = Parts => slot[k].item \in gone'
  BY <1>2, <1>4
<1>8. gone \subseteq gone' /\ gone' \subseteq Items
  <2>1. slot[k].tree = Parts => slot[k].item \in Items
    BY <1>3, ItemAssumption DEF TrashInv, Numbered
  <2> QED  BY <1>2, <2>1 DEF TrashInv, TypeOK
<1>9. used' = used
  BY <1>2 DEF Fine
<1>10. TypeOK'
  BY <1>2, <1>6, <1>8, <1>9 DEF TrashInv, TypeOK, Folders
<1>11. Apart'
  BY <1>2, <1>9 DEF TrashInv, Apart, Active
<1> QED  BY <1>1, <1>2, <1>5, <1>7, <1>8, <1>9, <1>10, <1>11, SlotRemoved

LEMMA AgesKeeps ==
  ASSUME TrashInv, NEW k \in Slots, Ages(k)
  PROVE  TrashInv'
<1>1. UNCHANGED <<at, slot, mover, cleaner, gone, used>> /\ expired' = k
  BY DEF Ages, disk, Fine
<1>2. k \in 0..MaxPuts
  BY BoundAssumption DEF Slots
<1>3. TypeOK'
  BY <1>1, <1>2 DEF TrashInv, TypeOK
<1>4. Apart'
  BY <1>1 DEF TrashInv, Apart, Active
<1> QED  BY <1>1, <1>3, <1>4, OthersKeep

-----------------------------------------------------------------------------
LEMMA Begun ==
  ASSUME Init
  PROVE  TrashInv
<1>1. /\ IdleMover \in Calls /\ IdleMover.pc = "idle"
  BY BoundAssumption DEF IdleMover, Call, Calls, MoverPcs, Places
<1>2. /\ IdleCleaner \in Cleanings /\ IdleCleaner.pc = "idle"
      /\ IdleCleaner.due = {} /\ IdleCleaner.kept = {}
  <2>1. Cardinality({}) = 0 /\ 0 \in 0..MaxPuts
    BY FS_EmptySet, BoundAssumption
  <2> QED  BY <2>1 DEF IdleCleaner, Cleaning, Cleanings
<1>3. \A k \in Slots : slot[k] = NoSlot
  BY DEF Init
<1>4. NoSlot \in [dir : BOOLEAN, meta : BOOLEAN, item : Items \cup {NoItem}, tree : SUBSET Parts]
      /\ NoSlot.tree = {}
  BY DEF NoSlot
<1>5. TypeOK
  <2>1. at \in Homes
    BY DEF Init, Homes
  <2>2. slot \in Folders /\ mover \in [Movers -> Calls] /\ cleaner \in Cleanings
    BY <1>1, <1>2, <1>4 DEF Init, Folders
  <2>3. expired \in 0..MaxPuts /\ gone \subseteq Items
        /\ used \in [puts : 0..MaxPuts, events : 0..MaxEvents]
    BY BoundAssumption DEF Init
  <2> QED  BY <2>1, <2>2, <2>3 DEF TypeOK, Homes, Folders, Calls, MoverPcs, Cleanings
<1>6. \A m \in Movers : mover[m].pc = "idle"
  BY <1>1 DEF Init
<1>7. Distinct /\ Numbered /\ Apart /\ \A m \in Movers : Fits(m)
  BY <1>2, <1>3, <1>4, <1>6 DEF Distinct, Numbered, Apart, Fits, Active, Init
<1>8. \A i \in Items : Whole(i)
  <2>1. \A i \in Items : at[i][1] = Parts /\ 1 \in Places
    BY DEF Init, Places
  <2> QED  BY <2>1 DEF Whole
<1> QED  BY <1>5, <1>7, <1>8 DEF TrashInv

LEMMA StepKeeps ==
  ASSUME TrashInv, [OrderlyNext]_vars
  PROVE  TrashInv'
<1>1. ASSUME NEW m \in Movers, Begins(m) \/ Moves(m)
      PROVE  TrashInv'
  BY <1>1, PutBeginsKeeps, MovesKeep DEF Begins
<1>2. ASSUME NEW m \in Movers, NEW k \in Slots, ~Putting(k), ~Removing(k), RestoreBegins(m, k)
      PROVE  TrashInv'
  BY <1>2, RestoreBeginsKeeps
<1>3. ASSUME NEW k \in Slots, ~Putting(k), ~Restoring(k), CleanNext(k)
      PROVE  TrashInv'
  BY <1>3, CleanNextKeeps
<1>4. ASSUME NEW k \in Slots, Delete(k) \/ Ages(k)
      PROVE  TrashInv'
  BY <1>4, CleaningBegins, AgesKeeps
<1>5. ASSUME Empty \/ Rest
      PROVE  TrashInv'
  BY <1>5, CleaningBegins, CleanEndsKeeps, RemoveFileKeeps, RemoveEndsKeeps, RemoveStopsKeeps
     DEF Rest
<1>6. CASE UNCHANGED vars
  <2>1. UNCHANGED <<at, slot, expired, mover, cleaner, gone, used>>
    BY <1>6 DEF vars
  <2>2. TypeOK' /\ Apart'
    BY <2>1 DEF TrashInv, TypeOK, Apart, Active
  <2> QED  BY <2>1, <2>2, OthersKeep
<1> QED  BY <1>1, <1>2, <1>3, <1>4, <1>5, <1>6 DEF OrderlyNext

(* An item put into the launcher's trash, put back, purged or deleted      *)
(* (gamefiles/trash.rs) is whole at home or in a listed slot until a whole *)
(* copy is deleted for good: through crashes, failures and two disks, for  *)
(* any number of items, parts, calls and any size cap.                     *)
THEOREM NothingLostInTrash == OrderlySpec => []NothingVanishes
<1>1. Init => TrashInv
  BY Begun
<1>2. TrashInv /\ [OrderlyNext]_vars => TrashInv'
  BY StepKeeps
<1>3. TrashInv => NothingVanishes
  BY DEF TrashInv, NothingVanishes
<1> QED  BY <1>1, <1>2, <1>3, PTL DEF OrderlySpec
=============================================================================
