-------------------------- MODULE MemoryBodyProofs --------------------------
(***************************************************************************)
(* Proofs about MemoryBody, for every set of ids and values and every      *)
(* bound.  BodyInv is shown to be inductive with one lemma per action;     *)
(* under each lemma there is one step per part of BodyInv.  The lemmas     *)
(* about slots say what a write to a slot does to the newest decodable     *)
(* record, the lemmas about views what it does to the state that the file  *)
(* stands for.                                                             *)
(***************************************************************************)
EXTENDS MemoryBody, TLAPS

USE DEF Installed

(* A body that no process has loaded yet satisfies the invariant. *)
LEMMA InitInv == Init => BodyInv
<1> SUFFICES ASSUME Init PROVE BodyInv
  OBVIOUS
<1> USE ConstantsAssumption DEF Init, Records, NoRecs, NoMuts, NoSlot, Mutations
<1>1. slots \in [{0, 1} -> Slot] /\ slots[0].seq = 0 /\ slots[1].seq = 0
  BY DEF Slot
<1>2. TypeOK
  BY <1>1 DEF TypeOK, Disciplined, Idle, Edit, NoLanes, Lane
<1>3. EngineInv
  BY DEF EngineInv, Idle, Edit, NoLanes
<1>4. SlotInv
  BY <1>1 DEF SlotInv
<1>5. AckedDurable
  BY <1>1 DEF AckedDurable, DiskView, BestSlot, Disciplined
<1> QED
  BY <1>2, <1>3, <1>4, <1>5 DEF BodyInv

(* The slot that the next write goes to is never the one that holds the    *)
(* newest decodable record.                                                *)
LEMMA NextSlotIsOther ==
  ASSUME TypeOK, SlotInv
  PROVE  /\ BestSlot \in Slot
         /\ BestSlot.seq % 2 \in {0, 1}
         /\ ((BestSlot.seq + 1) - 1) % 2 = BestSlot.seq % 2
         /\ BestSlot.seq > 0 => BestSlot = slots[1 - (BestSlot.seq % 2)]
         /\ BestSlot.seq >= slots[0].seq /\ BestSlot.seq >= slots[1].seq
<1>1. slots[0] \in Slot /\ slots[1] \in Slot
  BY DEF TypeOK
<1>2. slots[0].seq \in Nat /\ slots[1].seq \in Nat
  BY <1>1, ConstantsAssumption DEF Slot
<1>3. BestSlot \in Slot /\ BestSlot.seq \in Nat
  BY <1>1, <1>2 DEF BestSlot
<1>4. BestSlot.seq > 0 => BestSlot = slots[1 - (BestSlot.seq % 2)]
  <2>1. CASE slots[1].seq > slots[0].seq
    <3>1. BestSlot = slots[1]
      BY <2>1 DEF BestSlot
    <3>2. slots[1].seq > 0 => (slots[1].seq - 1) % 2 = 1
      BY DEF SlotInv
    <3>3. slots[1].seq > 0 => slots[1].seq % 2 = 0
      BY <3>2, <1>2
    <3>4. slots[1].seq > 0 => 1 - (slots[1].seq % 2) = 1
      BY <3>3
    <3> QED BY <3>1, <3>4
  <2>2. CASE ~(slots[1].seq > slots[0].seq)
    <3>1. BestSlot = slots[0]
      BY <2>2 DEF BestSlot
    <3>2. slots[0].seq > 0 => (slots[0].seq - 1) % 2 = 0
      BY DEF SlotInv
    <3>3. slots[0].seq > 0 => slots[0].seq % 2 = 1
      BY <3>2, <1>2
    <3>4. slots[0].seq > 0 => 1 - (slots[0].seq % 2) = 0
      BY <3>3
    <3> QED BY <3>1, <3>4
  <2> QED BY <2>1, <2>2
<1>5. BestSlot.seq >= slots[0].seq /\ BestSlot.seq >= slots[1].seq
  BY <1>2 DEF BestSlot
<1>6. BestSlot.seq % 2 \in {0, 1} /\ ((BestSlot.seq + 1) - 1) % 2 = BestSlot.seq % 2
  BY <1>3
<1> QED BY <1>3, <1>4, <1>5, <1>6

(* A completed slot write becomes the newest record. *)
LEMMA SlotWritten ==
  ASSUME TypeOK, SlotInv, pc = "journal",
         slots' = NextSlot(WrittenSlot), base' = base, region' = region
  PROVE  /\ slots' \in [{0, 1} -> Slot]
         /\ BestSlot' = WrittenSlot
         /\ \A i \in {0, 1} : slots'[i].seq > 0 =>
              region /\ (slots'[i].seq - 1) % 2 = i /\ slots'[i].base = base
<1> DEFINE n == BestSlot.seq
           k == n % 2
<1>1. n \in Nat /\ n < MaxSeq /\ k \in {0, 1} /\ region
  BY NextSlotIsOther, ConstantsAssumption DEF SlotInv, Slot
<1>2. slots' = [slots EXCEPT ![k] = WrittenSlot]
  BY NextSlotIsOther DEF NextSlot
<1>3. WrittenSlot \in Slot /\ WrittenSlot.seq = n + 1 /\ WrittenSlot.base = base
  BY <1>1, ConstantsAssumption DEF WrittenSlot, Slot, TypeOK
<1>4. slots'[k] = WrittenSlot /\ slots'[1 - k] = slots[1 - k]
  BY <1>1, <1>2 DEF TypeOK
<1>5. slots[0].seq \in Nat /\ slots[1].seq \in Nat /\ n >= slots[0].seq /\ n >= slots[1].seq
  BY NextSlotIsOther, ConstantsAssumption DEF TypeOK, Slot
<1>6. BestSlot' = WrittenSlot
  <2>1. CASE k = 0
    BY <1>1, <1>3, <1>4, <1>5, <2>1 DEF BestSlot
  <2>2. CASE k = 1
    BY <1>1, <1>3, <1>4, <1>5, <2>2 DEF BestSlot
  <2> QED BY <1>1, <2>1, <2>2
<1>7. slots' \in [{0, 1} -> Slot]
  BY <1>2, <1>3 DEF TypeOK
<1>8. ASSUME NEW i \in {0, 1}, slots'[i].seq > 0
      PROVE  region /\ (slots'[i].seq - 1) % 2 = i /\ slots'[i].base = base
  <2>1. CASE i = k
    <3>1. ((n + 1) - 1) % 2 = k
      BY <1>1
    <3> QED BY <1>1, <1>3, <1>4, <2>1, <3>1
  <2>2. CASE i # k
    <3>1. i = 1 - k
      BY <1>1, <2>2
    <3> QED BY <1>4, <1>8, <3>1 DEF SlotInv
  <2> QED BY <2>1, <2>2
<1> QED BY <1>6, <1>7, <1>8

(* A torn slot write leaves the newest record alone. *)
LEMMA SlotTorn ==
  ASSUME TypeOK, SlotInv,
         slots' = NextSlot(NoSlot), base' = base, region' = region
  PROVE  /\ slots' \in [{0, 1} -> Slot]
         /\ BestSlot'.seq = BestSlot.seq
         /\ BestSlot.seq > 0 => BestSlot' = BestSlot
         /\ \A i \in {0, 1} : slots'[i].seq > 0 =>
              region /\ (slots'[i].seq - 1) % 2 = i /\ slots'[i].base = base
<1> DEFINE n == BestSlot.seq
           k == n % 2
<1>1. n \in Nat /\ k \in {0, 1}
  BY NextSlotIsOther, ConstantsAssumption DEF Slot
<1>2. slots' = [slots EXCEPT ![k] = NoSlot]
  BY NextSlotIsOther DEF NextSlot
<1>3. NoSlot \in Slot /\ NoSlot.seq = 0
  BY ConstantsAssumption DEF NoSlot, Slot, NoRecs, NoMuts, Mutations, Records
<1>4. slots'[k] = NoSlot /\ slots'[1 - k] = slots[1 - k]
  BY <1>1, <1>2 DEF TypeOK
<1>5. slots[0].seq \in Nat /\ slots[1].seq \in Nat /\ n >= slots[0].seq /\ n >= slots[1].seq
  BY NextSlotIsOther, ConstantsAssumption DEF TypeOK, Slot
<1>6. CASE n > 0
  <2>1. BestSlot = slots[1 - k]
    BY <1>6, NextSlotIsOther
  <2>2. BestSlot' = slots[1 - k]
    <3>1. CASE k = 0
      BY <1>3, <1>4, <1>5, <1>6, <2>1, <3>1 DEF BestSlot
    <3>2. CASE k = 1
      BY <1>3, <1>4, <1>5, <1>6, <2>1, <3>2 DEF BestSlot
    <3> QED BY <1>1, <3>1, <3>2
  <2>3. ASSUME NEW i \in {0, 1}, slots'[i].seq > 0
        PROVE  region /\ (slots'[i].seq - 1) % 2 = i /\ slots'[i].base = base
    <3>1. i # k
      BY <1>3, <1>4, <2>3
    <3>2. i = 1 - k
      BY <1>1, <3>1
    <3> QED BY <1>4, <2>3, <3>2 DEF SlotInv
  <2> QED BY <1>2, <1>3, <2>1, <2>2, <2>3 DEF TypeOK
<1>7. CASE n = 0
  <2>1. slots'[0].seq = 0 /\ slots'[1].seq = 0
    BY <1>1, <1>3, <1>4, <1>5, <1>7
  <2>2. BestSlot'.seq = 0
    BY <2>1 DEF BestSlot
  <2> QED BY <1>2, <1>3, <1>7, <2>1, <2>2 DEF TypeOK
<1> QED BY <1>1, <1>6, <1>7

(* A memory_* primitive changes the cached record and its mark together. *)
LEMMA ModifyInv ==
  ASSUME NEW id \in Ids, NEW v \in Vals, BodyInv, Modify(id, v)
  PROVE  BodyInv'
<1> USE ConstantsAssumption DEF Modify, LaneFree, engineVars, persistVars, diskVars, historyVars
<1>1. TypeOK'
  BY DEF BodyInv, TypeOK, Disciplined, Records, Perform, Only, NoMuts, Overlay, Mutations
<1>2. EngineInv'
  BY DEF BodyInv, EngineInv, Pending
<1>3. SlotInv'
  BY DEF BodyInv, SlotInv, BestSlot
<1>4. AckedDurable'
  BY DEF BodyInv, AckedDurable, DiskView, BestSlot, Disciplined, Perform, Only, NoMuts, Overlay
<1>5. ASSUME NEW j \in Disciplined, up'
      PROVE  TrackInv(j)' /\ LaneInv(j)' /\ CopyInv(j)'
  <2>1. TrackInv(j)'
    BY DEF BodyInv, TrackInv, View, Pending, DiskView, BestSlot, Editing, Disciplined, TypeOK, Records, Perform, Only, NoMuts, Overlay
  <2>2. LaneInv(j)'
    BY DEF BodyInv, LaneInv, View
  <2>3. CopyInv(j)'
    BY DEF BodyInv, CopyInv, View, Pending, Editing, Disciplined, TypeOK, Records, Perform, Only, NoMuts, Overlay
  <2> QED BY <2>1, <2>2, <2>3
<1> QED
  BY <1>1, <1>2, <1>3, <1>4, <1>5 DEF BodyInv

(* A program_* primitive leaves an unmarked change behind, which LaneInv and *)
(* the exceptions for Editing(id) account for.                             *)
LEMMA EditInPlaceInv ==
  ASSUME NEW id \in Ids, NEW v \in Vals, BodyInv, EditInPlace(id, v)
  PROVE  BodyInv'
<1> USE ConstantsAssumption DEF EditInPlace, LaneFree, engineVars, persistVars, diskVars, historyVars
<1>1. TypeOK'
  BY DEF BodyInv, TypeOK, Disciplined, Records, Perform, Only, NoMuts, Overlay, Mutations, Lane, Idle, Edit, NoLanes
<1>2. EngineInv'
  BY DEF BodyInv, EngineInv, Pending
<1>3. SlotInv'
  BY DEF BodyInv, SlotInv, BestSlot
<1>4. AckedDurable'
  BY DEF BodyInv, AckedDurable, DiskView, BestSlot, Disciplined, Perform, Only, NoMuts, Overlay
<1>5. ASSUME NEW j \in Disciplined, up'
      PROVE  TrackInv(j)' /\ LaneInv(j)' /\ CopyInv(j)'
  <2>1. TrackInv(j)'
    BY DEF BodyInv, TrackInv, View, Pending, DiskView, BestSlot, Editing, Disciplined, TypeOK, Records, Perform, Only, NoMuts, Overlay, Idle, Edit, NoLanes
  <2>2. LaneInv(j)'
    BY DEF BodyInv, LaneInv, View, TrackInv, Pending, Idle, Edit, NoLanes, TypeOK, Lane, Records, Disciplined
  <2>3. CopyInv(j)'
    BY DEF BodyInv, CopyInv, View, Pending, Editing, Disciplined, TypeOK, Records, Perform, Only, NoMuts, Overlay, Idle, Edit, NoLanes
  <2> QED BY <2>1, <2>2, <2>3
<1> QED
  BY <1>1, <1>2, <1>3, <1>4, <1>5 DEF BodyInv

(* markDirty turns the unmarked change into a pending mutation. *)
LEMMA MarkDirtyInv ==
  ASSUME NEW id \in Ids, BodyInv, MarkDirty(id)
  PROVE  BodyInv'
<1> USE ConstantsAssumption DEF MarkDirty, engineVars, persistVars, diskVars, historyVars
<1>1. TypeOK'
  BY DEF BodyInv, TypeOK, Records, Idle, Edit, NoLanes, Lane
<1>2. EngineInv'
  BY DEF BodyInv, EngineInv, Pending, Idle, Edit, NoLanes
<1>3. SlotInv'
  BY DEF BodyInv, SlotInv, BestSlot
<1>4. AckedDurable'
  BY DEF BodyInv, AckedDurable, DiskView, BestSlot, Disciplined
<1>5. ASSUME NEW j \in Disciplined, up'
      PROVE  TrackInv(j)' /\ LaneInv(j)' /\ CopyInv(j)'
  <2>1. TrackInv(j)'
    BY DEF BodyInv, TrackInv, View, Pending, DiskView, BestSlot, Editing, Disciplined, TypeOK, Records, Idle, Edit, NoLanes, LaneInv
  <2>2. LaneInv(j)'
    BY DEF BodyInv, LaneInv, View, Idle, Edit, NoLanes
  <2>3. CopyInv(j)'
    BY DEF BodyInv, CopyInv, View, Pending, Editing, Disciplined, TypeOK, Records, Idle, Edit, NoLanes
  <2> QED BY <2>1, <2>2, <2>3
<1> QED
  BY <1>1, <1>2, <1>3, <1>4, <1>5 DEF BodyInv

(* program_import of another Engine leaves the record of an imported id    *)
(* unmarked, ...                                                           *)
LEMMA ImportOwnedInv ==
  ASSUME NEW id \in Ids, NEW v \in Vals, BodyInv, ImportOwned(id, v)
  PROVE  BodyInv'
<1> USE ConstantsAssumption DEF ImportOwned, LaneFree, engineVars, persistVars, diskVars, historyVars
<1>0. \A j \in Disciplined : j # id /\ j \in Ids
  BY DEF Disciplined
<1>1. TypeOK'
  BY <1>0 DEF BodyInv, TypeOK, Records, Perform, Only, NoMuts
<1>2. EngineInv'
  BY DEF BodyInv, EngineInv, Pending
<1>3. SlotInv'
  BY DEF BodyInv, SlotInv, BestSlot
<1>4. expect' = expect /\ recover' = recover /\ since' = since
  BY <1>0 DEF BodyInv, TypeOK, Perform, Only, NoMuts
<1>5. AckedDurable'
  BY <1>4 DEF BodyInv, AckedDurable, DiskView, BestSlot, Overlay
<1>6. ASSUME NEW j \in Disciplined, up'
      PROVE  TrackInv(j)' /\ LaneInv(j)' /\ CopyInv(j)'
  <2>1. cache'[j] = cache[j] /\ j \in Ids
    BY <1>0 DEF BodyInv, TypeOK
  <2>2. TrackInv(j)'
    BY <1>4, <2>1 DEF BodyInv, TrackInv, View, Pending, DiskView, BestSlot, Editing, Overlay
  <2>3. LaneInv(j)'
    BY <2>1 DEF BodyInv, LaneInv, View
  <2>4. CopyInv(j)'
    BY <1>4, <2>1 DEF BodyInv, CopyInv, View, Pending, Editing, Overlay
  <2> QED BY <2>2, <2>3, <2>4
<1> QED
  BY <1>1, <1>2, <1>3, <1>5, <1>6 DEF BodyInv

(* ... and marks one where there is none.                                  *)
LEMMA ImportForeignInv ==
  ASSUME NEW id \in Ids, BodyInv, ImportForeign(id)
  PROVE  BodyInv'
<1> USE ConstantsAssumption DEF ImportForeign, LaneFree, engineVars, persistVars, diskVars, historyVars
<1>1. TypeOK'
  BY DEF BodyInv, TypeOK
<1>2. EngineInv'
  BY DEF BodyInv, EngineInv, Pending
<1>3. SlotInv'
  BY DEF BodyInv, SlotInv, BestSlot
<1>4. AckedDurable'
  BY DEF BodyInv, AckedDurable, DiskView, BestSlot, Overlay
<1>5. ASSUME NEW j \in Disciplined, up'
      PROVE  TrackInv(j)' /\ LaneInv(j)' /\ CopyInv(j)'
  <2>1. j # id /\ j \in Ids /\ (j \in Pending' <=> j \in Pending)
    BY DEF Disciplined, Pending
  <2>2. TrackInv(j)'
    BY <2>1 DEF BodyInv, TrackInv, View, DiskView, BestSlot, Editing, Overlay
  <2>3. LaneInv(j)'
    BY DEF BodyInv, LaneInv, View
  <2>4. CopyInv(j)'
    BY <2>1 DEF BodyInv, CopyInv, View, Editing, Overlay
  <2> QED BY <2>2, <2>3, <2>4
<1> QED
  BY <1>1, <1>2, <1>3, <1>4, <1>5 DEF BodyInv

(* A record that cache_drop may drop is the one in the store. *)
LEMMA CacheDropInv ==
  ASSUME NEW id \in Ids, BodyInv, CacheDrop(id)
  PROVE  BodyInv'
<1> USE ConstantsAssumption DEF CacheDrop, engineVars, persistVars, diskVars, historyVars
<1>1. TypeOK'
  BY DEF BodyInv, TypeOK, Records
<1>2. EngineInv'
  BY DEF BodyInv, EngineInv, Pending
<1>3. SlotInv'
  BY DEF BodyInv, SlotInv, BestSlot
<1>4. AckedDurable'
  BY DEF BodyInv, AckedDurable, DiskView, BestSlot, Overlay
<1>5. ASSUME NEW j \in Disciplined, up'
      PROVE  TrackInv(j)' /\ LaneInv(j)' /\ CopyInv(j)'
  <2>1. /\ j \in Ids /\ TrackInv(j) /\ LaneInv(j) /\ CopyInv(j)
        /\ cache'[j] = IF j = id THEN None ELSE cache[j]
    BY DEF BodyInv, TypeOK, Disciplined
  <2>2. View(j)' = View(j)
    BY <2>1 DEF TrackInv, View, Pending, Editing
  <2>3. TrackInv(j)'
    BY <2>1, <2>2 DEF TrackInv, Pending, DiskView, BestSlot, Editing, Overlay
  <2>4. LaneInv(j)'
    BY <2>1, <2>2 DEF LaneInv
  <2>5. CopyInv(j)'
    BY <2>1, <2>2 DEF CopyInv, Pending, Editing, Overlay
  <2> QED BY <2>3, <2>4, <2>5
<1> QED
  BY <1>1, <1>2, <1>3, <1>4, <1>5 DEF BodyInv

(* The lookup of an upsert only caches what readers see already. *)
LEMMA UpsertLookupInv ==
  ASSUME NEW id \in Ids, NEW v \in Vals, BodyInv, UpsertLookup(id, v)
  PROVE  BodyInv'
<1> USE ConstantsAssumption DEF UpsertLookup, LaneFree, engineVars, persistVars, diskVars, historyVars
<1>1. TypeOK'
  BY DEF BodyInv, TypeOK, Records, Lane, View
<1>2. EngineInv'
  BY DEF BodyInv, EngineInv, Pending
<1>3. SlotInv'
  BY DEF BodyInv, SlotInv, BestSlot
<1>4. AckedDurable'
  BY DEF BodyInv, AckedDurable, DiskView, BestSlot, Disciplined
<1>5. ASSUME NEW j \in Disciplined, up'
      PROVE  TrackInv(j)' /\ LaneInv(j)' /\ CopyInv(j)'
  <2>1. TrackInv(j)'
    BY DEF BodyInv, TrackInv, View, Pending, DiskView, BestSlot, Editing, Disciplined, TypeOK, Records
  <2>2. LaneInv(j)'
    BY DEF BodyInv, LaneInv, View, TrackInv, Pending, TypeOK, Lane, Records, Disciplined
  <2>3. CopyInv(j)'
    BY DEF BodyInv, CopyInv, View, Pending, Editing, Disciplined, TypeOK, Records
  <2> QED BY <2>1, <2>2, <2>3
<1> QED
  BY <1>1, <1>2, <1>3, <1>4, <1>5 DEF BodyInv

(* The upsert uses the answer the store gave before dataMu was taken: a full *)
(* save in between may have added the id to the store, never removed it.   *)
LEMMA UpsertOnOwnerInv ==
  ASSUME NEW id \in Ids, BodyInv, UpsertOnOwner(id)
  PROVE  BodyInv'
<1> USE ConstantsAssumption DEF UpsertOnOwner, engineVars, persistVars, diskVars, historyVars
<1>1. TypeOK'
  BY DEF BodyInv, TypeOK, Disciplined, Records, Perform, Only, NoMuts, Overlay, Mutations, Idle, Edit, NoLanes, Lane
<1>2. EngineInv'
  BY DEF BodyInv, EngineInv, Pending, Idle, Edit, NoLanes
<1>3. SlotInv'
  BY DEF BodyInv, SlotInv, BestSlot
<1>4. AckedDurable'
  BY DEF BodyInv, AckedDurable, DiskView, BestSlot, Disciplined, Perform, Only, NoMuts, Overlay, TypeOK
<1>5. ASSUME NEW j \in Disciplined, up'
      PROVE  TrackInv(j)' /\ LaneInv(j)' /\ CopyInv(j)'
  <2>1. TrackInv(j)'
    BY DEF BodyInv, TrackInv, View, Pending, DiskView, BestSlot, Editing, Disciplined, TypeOK, Records, Perform, Only, NoMuts, Overlay, Idle, Edit, NoLanes, LaneInv, Lane
  <2>2. LaneInv(j)'
    BY DEF BodyInv, LaneInv, View, Idle, Edit, NoLanes, Disciplined, TypeOK, Pending
  <2>3. CopyInv(j)'
    BY DEF BodyInv, CopyInv, View, Pending, Editing, Disciplined, TypeOK, Records, Perform, Only, NoMuts, Overlay, Idle, Edit, NoLanes, LaneInv, Lane
  <2> QED BY <2>1, <2>2, <2>3
<1> QED
  BY <1>1, <1>2, <1>3, <1>4, <1>5 DEF BodyInv

(* A record that was found nowhere is added as a new one. *)
LEMMA AddRuntimeMemoryInv ==
  ASSUME NEW id \in Ids, BodyInv, AddRuntimeMemory(id)
  PROVE  BodyInv'
<1> USE ConstantsAssumption DEF AddRuntimeMemory, engineVars, persistVars, diskVars, historyVars
<1>1. TypeOK'
  BY DEF BodyInv, TypeOK, Disciplined, Records, Perform, Only, NoMuts, Overlay, Mutations, Idle, Edit, NoLanes, Lane
<1>2. EngineInv'
  BY DEF BodyInv, EngineInv, Pending, Idle, Edit, NoLanes
<1>3. SlotInv'
  BY DEF BodyInv, SlotInv, BestSlot
<1>4. AckedDurable'
  BY DEF BodyInv, AckedDurable, DiskView, BestSlot, Disciplined, Perform, Only, NoMuts, Overlay, TypeOK
<1>5. ASSUME NEW j \in Disciplined, up'
      PROVE  TrackInv(j)' /\ LaneInv(j)' /\ CopyInv(j)'
  <2>1. TrackInv(j)'
    BY DEF BodyInv, TrackInv, View, Pending, DiskView, BestSlot, Editing, Disciplined, TypeOK, Records, Perform, Only, NoMuts, Overlay, Idle, Edit, NoLanes, LaneInv, Lane
  <2>2. LaneInv(j)'
    BY DEF BodyInv, LaneInv, View, Idle, Edit, NoLanes, Disciplined, TypeOK, Pending
  <2>3. CopyInv(j)'
    BY DEF BodyInv, CopyInv, View, Pending, Editing, Disciplined, TypeOK, Records, Perform, Only, NoMuts, Overlay, Idle, Edit, NoLanes, LaneInv, Lane
  <2> QED BY <2>1, <2>2, <2>3
<1> QED
  BY <1>1, <1>2, <1>3, <1>4, <1>5 DEF BodyInv

(* A deletion replaces the marks of the id by a tombstone. *)
LEMMA DeleteInv ==
  ASSUME NEW id \in Ids, BodyInv, Delete(id)
  PROVE  BodyInv'
<1> USE ConstantsAssumption DEF Delete, LaneFree, engineVars, persistVars, diskVars, historyVars
<1>1. TypeOK'
  BY DEF BodyInv, TypeOK, Disciplined, Records, Perform, Only, NoMuts, Overlay, Mutations
<1>2. EngineInv'
  BY DEF BodyInv, EngineInv, Pending
<1>3. SlotInv'
  BY DEF BodyInv, SlotInv, BestSlot
<1>4. AckedDurable'
  BY DEF BodyInv, AckedDurable, DiskView, BestSlot, Disciplined, Perform, Only, NoMuts, Overlay
<1>5. ASSUME NEW j \in Disciplined, up'
      PROVE  TrackInv(j)' /\ LaneInv(j)' /\ CopyInv(j)'
  <2>1. TrackInv(j)'
    BY DEF BodyInv, TrackInv, View, Pending, DiskView, BestSlot, Editing, Disciplined, TypeOK, Records, Perform, Only, NoMuts, Overlay
  <2>2. LaneInv(j)'
    BY DEF BodyInv, LaneInv, View
  <2>3. CopyInv(j)'
    BY DEF BodyInv, CopyInv, View, Pending, Editing, Disciplined, TypeOK, Records, Perform, Only, NoMuts, Overlay
  <2> QED BY <2>1, <2>2, <2>3
<1> QED
  BY <1>1, <1>2, <1>3, <1>4, <1>5 DEF BodyInv

(* A transaction installs its writes and deletions id by id, under one lock. *)
LEMMA SpeculativeCommitInv ==
  ASSUME NEW w \in Mutations, BodyInv, SpeculativeCommit(w)
  PROVE  BodyInv'
<1> USE ConstantsAssumption DEF SpeculativeCommit, LaneFree, engineVars, persistVars, diskVars, historyVars
<1>1. TypeOK'
  BY DEF BodyInv, TypeOK, Disciplined, Records, Perform, Only, NoMuts, Overlay, Mutations
<1>2. EngineInv'
  BY DEF BodyInv, EngineInv, Pending, TypeOK
<1>3. SlotInv'
  BY DEF BodyInv, SlotInv, BestSlot
<1>4. AckedDurable'
  BY DEF BodyInv, AckedDurable, DiskView, BestSlot, Disciplined, Perform, Only, NoMuts, Overlay, Mutations
<1>5. ASSUME NEW j \in Disciplined, up'
      PROVE  TrackInv(j)' /\ LaneInv(j)' /\ CopyInv(j)'
  <2>1. TrackInv(j)'
    BY DEF BodyInv, TrackInv, View, Pending, DiskView, BestSlot, Editing, Disciplined, TypeOK, Records, Perform, Only, NoMuts, Overlay, Mutations
  <2>2. LaneInv(j)'
    BY DEF BodyInv, LaneInv, View, Overlay, Mutations, Disciplined, TypeOK, Records
  <2>3. CopyInv(j)'
    BY DEF BodyInv, CopyInv, View, Pending, Editing, Disciplined, TypeOK, Records, Perform, Only, NoMuts, Overlay, Mutations
  <2> QED BY <2>1, <2>2, <2>3
<1> QED
  BY <1>1, <1>2, <1>3, <1>4, <1>5 DEF BodyInv

(* A handler that reads the store changes no state that others see. *)
LEMMA PageInReadInv ==
  ASSUME NEW id \in Ids, BodyInv, PageInRead(id)
  PROVE  BodyInv'
<1> USE ConstantsAssumption DEF PageInRead, engineVars, persistVars, diskVars, historyVars
<1>1. TypeOK'
  BY DEF BodyInv, TypeOK, Records
<1>2. EngineInv'
  BY DEF BodyInv, EngineInv, Pending, TypeOK
<1>3. SlotInv'
  BY DEF BodyInv, SlotInv, BestSlot
<1>4. AckedDurable'
  BY DEF BodyInv, AckedDurable, DiskView, BestSlot, Disciplined
<1>5. ASSUME NEW j \in Disciplined, up'
      PROVE  TrackInv(j)' /\ LaneInv(j)' /\ CopyInv(j)'
  <2>1. TrackInv(j)'
    BY DEF BodyInv, TrackInv, View, Pending, DiskView, BestSlot, Editing, Disciplined, TypeOK, Records
  <2>2. LaneInv(j)'
    BY DEF BodyInv, LaneInv, View, TrackInv
  <2>3. CopyInv(j)'
    BY DEF BodyInv, CopyInv, View, Pending, Editing, Disciplined, TypeOK, Records
  <2> QED BY <2>1, <2>2, <2>3
<1> QED
  BY <1>1, <1>2, <1>3, <1>4, <1>5 DEF BodyInv

(* A handler caches what it read, for paged ids only. *)
LEMMA PageInInstallInv ==
  ASSUME NEW id \in Ids, BodyInv, PageInInstall(id)
  PROVE  BodyInv'
<1> USE ConstantsAssumption DEF PageInInstall, engineVars, persistVars, diskVars, historyVars
<1>1. TypeOK'
  BY DEF BodyInv, TypeOK, Records
<1>2. EngineInv'
  BY DEF BodyInv, EngineInv, Pending, TypeOK
<1>3. SlotInv'
  BY DEF BodyInv, SlotInv, BestSlot
<1>4. AckedDurable'
  BY DEF BodyInv, AckedDurable, DiskView, BestSlot, Disciplined
<1>5. ASSUME NEW j \in Disciplined, up'
      PROVE  TrackInv(j)' /\ LaneInv(j)' /\ CopyInv(j)'
  <2>1. TrackInv(j)'
    BY DEF BodyInv, TrackInv, View, Pending, DiskView, BestSlot, Editing, Disciplined, TypeOK, Records, EngineInv
  <2>2. LaneInv(j)'
    BY DEF BodyInv, LaneInv, View, EngineInv, TypeOK, Records, Disciplined
  <2>3. CopyInv(j)'
    BY DEF BodyInv, CopyInv, View, Pending, Editing, Disciplined, TypeOK, Records, EngineInv
  <2> QED BY <2>1, <2>2, <2>3
<1> QED
  BY <1>1, <1>2, <1>3, <1>4, <1>5 DEF BodyInv

(* A persist call that writes nothing may promise the present records: the *)
(* file stands for them already.                                           *)
LEMMA PersistNothingInv ==
  ASSUME BodyInv, PersistNothing
  PROVE  BodyInv'
<1> USE ConstantsAssumption DEF PersistNothing, engineVars, persistVars, diskVars, historyVars
<1>1. TypeOK'
  BY DEF BodyInv, TypeOK, Records, Promised
<1>2. EngineInv'
  BY DEF BodyInv, EngineInv, Pending, TypeOK
<1>3. SlotInv'
  BY DEF BodyInv, SlotInv, BestSlot
<1>4. AckedDurable'
  <2> SUFFICES ASSUME NEW j \in Disciplined
               PROVE  DiskView[j] \in Promised[j]
    BY DEF AckedDurable, DiskView, BestSlot, Overlay
  <2>1. j \in Ids /\ TrackInv(j) /\ DiskView[j] \in recover[j] /\ cache \in [Ids -> Records]
    BY DEF BodyInv, AckedDurable, Disciplined, TypeOK
  <2>2. CASE Editing(j)
    BY <2>1, <2>2 DEF Promised
  <2>3. CASE ~Editing(j) /\ j \notin Pending
    BY <2>1, <2>3 DEF Promised, TrackInv
  <2>4. CASE ~Editing(j) /\ j \in Pending
    <3>1. region /\ BestSlot.seq > 0 /\ BestSlot.muts = Snapshot
      BY <2>4 DEF BodyInv, EngineInv
    <3>2. Snapshot[j] = View(j) /\ View(j) # NoEntry
      BY <2>1, <2>4 DEF Snapshot, View, TrackInv, Records
    <3>3. DiskView[j] = View(j)
      BY <2>1, <3>1, <3>2 DEF DiskView, Overlay
    <3> QED BY <2>1, <2>4, <3>3 DEF Promised, TrackInv
  <2> QED BY <2>2, <2>3, <2>4
<1>5. ASSUME NEW j \in Disciplined, up'
      PROVE  TrackInv(j)' /\ LaneInv(j)' /\ CopyInv(j)'
  <2>1. TrackInv(j)'
    BY DEF BodyInv, TrackInv, View, Pending, DiskView, BestSlot, Editing, Disciplined, TypeOK, Records, Promised, EngineInv, Snapshot, Overlay
  <2>2. LaneInv(j)'
    BY DEF BodyInv, LaneInv, View
  <2>3. CopyInv(j)'
    BY DEF BodyInv, CopyInv, View, Pending, Editing, Disciplined, TypeOK, Records, Promised, EngineInv, TrackInv
  <2> QED BY <2>1, <2>2, <2>3
<1> QED
  BY <1>1, <1>2, <1>3, <1>4, <1>5 DEF BodyInv

(* The mutations copied under dataMu, over the base, are the present records. *)
LEMMA JournalSnapshotInv ==
  ASSUME BodyInv, JournalSnapshot
  PROVE  BodyInv'
<1> USE ConstantsAssumption DEF JournalSnapshot, engineVars, persistVars, diskVars, historyVars
<1>1. TypeOK'
  BY DEF BodyInv, TypeOK, Records, BeginPromise, Promised, Snapshot, Mutations
<1>2. EngineInv'
  BY DEF BodyInv, EngineInv, Pending, TypeOK
<1>3. SlotInv'
  BY DEF BodyInv, SlotInv, BestSlot, Pending, TypeOK
<1>4. AckedDurable'
  BY DEF BodyInv, AckedDurable, DiskView, BestSlot, Disciplined, BeginPromise
<1>5. ASSUME NEW j \in Disciplined, up'
      PROVE  TrackInv(j)' /\ LaneInv(j)' /\ CopyInv(j)'
  <2>1. TrackInv(j)'
    BY DEF BodyInv, TrackInv, View, Pending, DiskView, BestSlot, Editing, Disciplined, TypeOK, Records, BeginPromise
  <2>2. LaneInv(j)'
    BY DEF BodyInv, LaneInv, View
  <2>3. CopyInv(j)'
    <3>1. j \in Ids /\ TrackInv(j) /\ DiskView[j] \in recover[j] /\ cache \in [Ids -> Records]
      BY DEF BodyInv, AckedDurable, Disciplined, TypeOK
    <3>2. since'[j] = Promised[j] /\ recover' = recover /\ expect' = expect
      BY DEF BeginPromise
    <3>3. payload'[j] # NoEntry => j \in Pending
      BY <3>1 DEF Snapshot
    <3>4. Overlay(base, payload')[j] \in Promised[j]
      <4>1. CASE j \in Pending
        <5>1. Overlay(base, payload')[j] = View(j)
          BY <3>1, <4>1 DEF Snapshot, View, TrackInv, Records, Overlay
        <5> QED BY <3>1, <5>1 DEF TrackInv, Promised
      <4>2. CASE j \notin Pending
        <5>1. payload'[j] = NoEntry
          BY <3>1, <4>2 DEF Snapshot
        <5>2. Overlay(base, payload')[j] = DiskView[j]
          BY <3>1, <4>2, <5>1 DEF TrackInv, DiskView, Overlay
        <5> QED BY <3>1, <4>2, <5>2 DEF TrackInv, Promised
      <4> QED BY <4>1, <4>2
    <3>5. Promised[j] \subseteq recover[j] /\ expect[j] \in Promised[j]
          /\ (~Editing(j) => Promised[j] = {expect[j]})
      BY <3>1 DEF Promised, TrackInv
    <3> QED
      BY <3>1, <3>2, <3>3, <3>4, <3>5 DEF CopyInv, Editing, Pending, Overlay
  <2> QED BY <2>1, <2>2, <2>3
<1> QED
  BY <1>1, <1>2, <1>3, <1>4, <1>5 DEF BodyInv

(* A full save lists the ids it will copy; an id not listed is absent. *)
LEMMA SaveBeginInv ==
  ASSUME BodyInv, SaveBegin
  PROVE  BodyInv'
<1> USE ConstantsAssumption DEF SaveBegin, engineVars, persistVars, diskVars, historyVars
<1>1. TypeOK'
  BY DEF BodyInv, TypeOK, Records, BeginPromise, Promised, NoRecs, LocalIDs
<1>2. EngineInv'
  BY DEF BodyInv, EngineInv, Pending, TypeOK
<1>3. SlotInv'
  BY DEF BodyInv, SlotInv, BestSlot
<1>4. AckedDurable'
  BY DEF BodyInv, AckedDurable, DiskView, BestSlot, Disciplined, BeginPromise
<1>5. ASSUME NEW j \in Disciplined, up'
      PROVE  TrackInv(j)' /\ LaneInv(j)' /\ CopyInv(j)'
  <2>1. TrackInv(j)'
    BY DEF BodyInv, TrackInv, View, Pending, DiskView, BestSlot, Editing, Disciplined, TypeOK, Records, BeginPromise
  <2>2. LaneInv(j)'
    BY DEF BodyInv, LaneInv, View
  <2>3. CopyInv(j)'
    BY DEF BodyInv, CopyInv, View, Pending, Editing, Disciplined, TypeOK, Records, BeginPromise, Promised, TrackInv, LocalIDs, NoRecs
  <2> QED BY <2>1, <2>2, <2>3
<1> QED
  BY <1>1, <1>2, <1>3, <1>4, <1>5 DEF BodyInv

(* A copied record is the one readers see at that moment. *)
LEMMA SaveCopyInv ==
  ASSUME NEW id \in Ids, BodyInv, SaveCopy(id)
  PROVE  BodyInv'
<1> USE ConstantsAssumption DEF SaveCopy, engineVars, persistVars, diskVars, historyVars
<1>1. TypeOK'
  BY DEF BodyInv, TypeOK, Records, View
<1>2. EngineInv'
  BY DEF BodyInv, EngineInv, Pending, TypeOK
<1>3. SlotInv'
  BY DEF BodyInv, SlotInv, BestSlot
<1>4. AckedDurable'
  BY DEF BodyInv, AckedDurable, DiskView, BestSlot, Disciplined
<1>5. ASSUME NEW j \in Disciplined, up'
      PROVE  TrackInv(j)' /\ LaneInv(j)' /\ CopyInv(j)'
  <2>1. TrackInv(j)'
    BY DEF BodyInv, TrackInv, View, Pending, DiskView, BestSlot, Editing, Disciplined, TypeOK, Records
  <2>2. LaneInv(j)'
    BY DEF BodyInv, LaneInv, View, TrackInv, TypeOK, Records
  <2>3. CopyInv(j)'
    BY DEF BodyInv, CopyInv, View, Pending, Editing, Disciplined, TypeOK, Records, TrackInv
  <2> QED BY <2>1, <2>2, <2>3
<1> QED
  BY <1>1, <1>2, <1>3, <1>4, <1>5 DEF BodyInv

(* The rename makes the copied records the contents of the file. *)
LEMMA SaveRenameInv ==
  ASSUME BodyInv, SaveRename
  PROVE  BodyInv'
<1> USE ConstantsAssumption DEF SaveRename, engineVars, persistVars, diskVars, historyVars
<1>1. TypeOK'
  BY DEF BodyInv, TypeOK, Records, NoSlot, NoRecs, NoMuts, Slot, Mutations, Renamed
<1>2. EngineInv'
  BY DEF BodyInv, EngineInv, Pending, TypeOK
<1>3. SlotInv'
  BY DEF BodyInv, SlotInv, BestSlot, NoSlot, Renamed
<1>4. AckedDurable'
  BY DEF BodyInv, AckedDurable, DiskView, BestSlot, Disciplined, NoSlot, Renamed, CopyInv, EngineInv
<1>5. ASSUME NEW j \in Disciplined, up'
      PROVE  TrackInv(j)' /\ LaneInv(j)' /\ CopyInv(j)'
  <2>1. TrackInv(j)'
    BY DEF BodyInv, TrackInv, View, Pending, DiskView, BestSlot, Editing, Disciplined, TypeOK, Records, NoSlot, Renamed, CopyInv
  <2>2. LaneInv(j)'
    BY DEF BodyInv, LaneInv, View
  <2>3. CopyInv(j)'
    BY DEF BodyInv, CopyInv, View, Pending, Editing, Disciplined, TypeOK, Records, Renamed
  <2> QED BY <2>1, <2>2, <2>3
<1> QED
  BY <1>1, <1>2, <1>3, <1>4, <1>5 DEF BodyInv

(* The two outcomes of a slot write that change the file.  Whatever was    *)
(* written, the record it stands for has been current since the call began *)
(* (CopyInv), and an id it does not mention has no pending mutation.       *)
LEMMA WrittenView ==
  ASSUME BodyInv, up, pc = "journal",
         slots' = NextSlot(WrittenSlot), base' = base, region' = region,
         NEW j \in Disciplined
  PROVE  /\ DiskView'[j] = Overlay(base, payload)[j]
         /\ DiskView'[j] \in since[j] /\ DiskView'[j] \in recover[j]
         /\ BestSlot'.seq > 0 /\ BestSlot'.muts = payload
         /\ payload[j] # NoEntry => j \in Pending
         /\ j \notin Pending /\ ~Editing(j) => DiskView'[j] = View(j)
<1>1. TypeOK /\ SlotInv /\ TrackInv(j) /\ CopyInv(j) /\ j \in Ids
  BY DEF BodyInv, Disciplined
<1>2. BestSlot' = WrittenSlot /\ region
  BY <1>1, SlotWritten DEF SlotInv
<1>3. BestSlot \in Slot
  BY <1>1, NextSlotIsOther
<1>4. BestSlot'.seq > 0 /\ BestSlot'.muts = payload
  BY <1>2, <1>3, ConstantsAssumption DEF WrittenSlot, Slot
<1>5. DiskView' = Overlay(base, payload)
  BY <1>2, <1>4 DEF DiskView, Overlay
<1>6. payload[j] # NoEntry => j \in Pending
  BY <1>1 DEF CopyInv
<1>7. ASSUME j \notin Pending, ~Editing(j)
      PROVE  DiskView'[j] = View(j)
  <2>1. payload[j] = NoEntry
    BY <1>6, <1>7
  <2>2. DiskView[j] = base[j]
    BY <1>1, <1>7 DEF TrackInv, DiskView, Overlay
  <2> QED BY <1>1, <1>5, <1>7, <2>1, <2>2 DEF TrackInv, Overlay
<1> QED
  BY <1>1, <1>4, <1>5, <1>6, <1>7 DEF CopyInv

(* A torn slot write leaves what the file stands for alone. *)
LEMMA TornView ==
  ASSUME BodyInv, slots' = NextSlot(NoSlot), base' = base, region' = region
  PROVE  /\ DiskView' = DiskView
         /\ BestSlot'.seq = BestSlot.seq
         /\ BestSlot.seq > 0 => BestSlot' = BestSlot
  BY SlotTorn DEF BodyInv, DiskView, Overlay

(* A completed journal write keeps the promise of its persist call. *)
LEMMA JournalWriteInv ==
  ASSUME BodyInv, JournalWrite
  PROVE  BodyInv'
<1> USE ConstantsAssumption DEF JournalWrite, PersistDone, KeepPromise, engineVars
<1>1. TypeOK'
  BY SlotWritten DEF BodyInv, TypeOK, Records, NoRecs, NoMuts, Mutations
<1>2. EngineInv'
  BY DEF BodyInv, EngineInv, Pending
<1>3. SlotInv'
  BY SlotWritten DEF BodyInv, SlotInv
<1>4. AckedDurable'
  BY WrittenView DEF AckedDurable, Disciplined
<1>5. ASSUME NEW j \in Disciplined
      PROVE  TrackInv(j)' /\ LaneInv(j)' /\ CopyInv(j)'
  <2>1. TrackInv(j)'
    BY WrittenView DEF BodyInv, TrackInv, CopyInv, View, Pending, Editing, Disciplined
  <2>2. LaneInv(j)'
    BY DEF BodyInv, LaneInv, View
  <2>3. CopyInv(j)'
    BY DEF CopyInv
  <2> QED BY <2>1, <2>2, <2>3
<1> QED
  BY <1>1, <1>2, <1>3, <1>4, <1>5 DEF BodyInv

(* A failed journal write leaves old or new contents, and promises nothing. *)
LEMMA JournalWriteFailsInv ==
  ASSUME BodyInv, JournalWriteFails
  PROVE  BodyInv'
<1> USE ConstantsAssumption DEF JournalWriteFails, PersistDone, BreakOff, engineVars
<1>0. slots' = slots \/ slots' = NextSlot(NoSlot) \/ slots' = NextSlot(WrittenSlot)
  OBVIOUS
<1>1. slots' \in [{0, 1} -> Slot]
      /\ \A i \in {0, 1} : slots'[i].seq > 0 =>
           region /\ (slots'[i].seq - 1) % 2 = i /\ slots'[i].base = base
  BY <1>0, SlotTorn, SlotWritten DEF BodyInv, SlotInv, TypeOK
<1>2. TypeOK'
  BY <1>1 DEF BodyInv, TypeOK, Records, NoRecs, NoMuts, Mutations
<1>3. EngineInv'
  BY DEF BodyInv, EngineInv, Pending
<1>4. SlotInv'
  BY <1>1 DEF SlotInv
<1>5. ASSUME NEW j \in Disciplined
      PROVE  /\ DiskView'[j] \in recover[j]
             /\ j \notin Pending /\ ~Editing(j) => DiskView'[j] = View(j)
             /\ BestSlot'.seq > 0 /\ BestSlot'.muts[j] # NoEntry => j \in Pending
  <2>1. CASE slots' = slots
    BY <2>1 DEF BodyInv, AckedDurable, TrackInv, DiskView, BestSlot, Overlay
  <2>2. CASE slots' = NextSlot(NoSlot)
    BY <2>2, TornView DEF BodyInv, AckedDurable, TrackInv
  <2>3. CASE slots' = NextSlot(WrittenSlot)
    BY <2>3, WrittenView
  <2> QED BY <1>0, <2>1, <2>2, <2>3
<1>6. AckedDurable'
  BY <1>5 DEF AckedDurable, Disciplined
<1>7. ASSUME NEW j \in Disciplined
      PROVE  TrackInv(j)' /\ LaneInv(j)' /\ CopyInv(j)'
  <2>1. TrackInv(j)'
    BY <1>5 DEF BodyInv, TrackInv, View, Pending, Editing, Disciplined
  <2>2. LaneInv(j)'
    BY DEF BodyInv, LaneInv, View
  <2>3. CopyInv(j)'
    BY DEF CopyInv
  <2> QED BY <2>1, <2>2, <2>3
<1> QED
  BY <1>2, <1>3, <1>4, <1>6, <1>7 DEF BodyInv

(* The file that a rename installs, with its empty journal. *)
LEMMA RenamedView ==
  ASSUME BodyInv, up, pc = "copy", todo = {}, Renamed
  PROVE  /\ slots' \in [{0, 1} -> Slot] /\ base' \in [Ids -> Records]
         /\ slots'[0].seq = 0 /\ slots'[1].seq = 0 /\ BestSlot'.seq = 0
         /\ DiskView' = snap
         /\ \A j \in Disciplined :
              /\ snap[j] \in recover[j]
              /\ j \notin Pending /\ ~Editing(j) => snap[j] = View(j)
<1>1. slots' \in [{0, 1} -> Slot] /\ slots'[0].seq = 0 /\ slots'[1].seq = 0
  BY ConstantsAssumption DEF Renamed, NoSlot, Slot, NoRecs, NoMuts, Mutations, Records
<1>2. BestSlot'.seq = 0
  BY <1>1 DEF BestSlot
<1>3. DiskView' = snap
  BY <1>2 DEF DiskView, Renamed
<1>4. base' \in [Ids -> Records]
  BY DEF BodyInv, TypeOK, Renamed
<1>5. ASSUME NEW j \in Disciplined
      PROVE  snap[j] \in recover[j] /\ (j \notin Pending /\ ~Editing(j) => snap[j] = View(j))
  BY DEF BodyInv, CopyInv
<1> QED BY <1>1, <1>2, <1>3, <1>4, <1>5

(* A failed full save, before or after its rename, promises nothing. *)
LEMMA SaveFailsInv ==
  ASSUME BodyInv, SaveFails
  PROVE  BodyInv'
<1> USE ConstantsAssumption DEF PersistDone, BreakOff, engineVars, diskVars
<1>0. UNCHANGED diskVars \/ (pc = "copy" /\ todo = {} /\ Renamed)
  BY DEF SaveFails
<1>u. up /\ PersistDone /\ BreakOff /\ UNCHANGED engineVars
  BY DEF SaveFails
<1>1. slots' \in [{0, 1} -> Slot] /\ base' \in [Ids -> Records] /\ region' \in BOOLEAN
      /\ \A i \in {0, 1} : slots'[i].seq > 0 =>
           region' /\ (slots'[i].seq - 1) % 2 = i /\ slots'[i].base = base'
  <2>1. CASE UNCHANGED diskVars
    BY <2>1 DEF BodyInv, TypeOK, SlotInv
  <2>2. CASE pc = "copy" /\ todo = {} /\ Renamed
    <3>1. slots' \in [{0, 1} -> Slot] /\ base' \in [Ids -> Records]
          /\ slots'[0].seq = 0 /\ slots'[1].seq = 0
      BY <2>2, <1>u, RenamedView
    <3>2. region' = TRUE
      BY <2>2 DEF Renamed
    <3> QED BY <3>1, <3>2
  <2> QED BY <1>0, <2>1, <2>2
<1>2. TypeOK'
  BY <1>1, <1>u DEF BodyInv, TypeOK, Records, NoRecs, NoMuts, Mutations
<1>3. EngineInv'
  BY <1>u DEF BodyInv, EngineInv, Pending
<1>4. SlotInv'
  BY <1>1, <1>u DEF SlotInv
<1>5. ASSUME NEW j \in Disciplined
      PROVE  /\ DiskView'[j] \in recover[j]
             /\ j \notin Pending /\ ~Editing(j) => DiskView'[j] = View(j)
             /\ BestSlot'.seq > 0 /\ BestSlot'.muts[j] # NoEntry => j \in Pending
  <2>1. CASE UNCHANGED diskVars
    BY <2>1, <1>u DEF BodyInv, AckedDurable, TrackInv, DiskView, BestSlot, Overlay
  <2>2. CASE pc = "copy" /\ todo = {} /\ Renamed
    BY <2>2, <1>u, RenamedView
  <2> QED BY <1>0, <2>1, <2>2
<1>6. AckedDurable'
  BY <1>5, <1>u DEF AckedDurable, Disciplined
<1>7. ASSUME NEW j \in Disciplined
      PROVE  TrackInv(j)' /\ LaneInv(j)' /\ CopyInv(j)'
  <2>1. TrackInv(j)'
    BY <1>5, <1>u DEF BodyInv, TrackInv, View, Pending, Editing, Disciplined
  <2>2. LaneInv(j)'
    BY <1>u DEF BodyInv, LaneInv, View
  <2>3. CopyInv(j)'
    BY <1>u DEF CopyInv
  <2> QED BY <2>1, <2>2, <2>3
<1> QED
  BY <1>2, <1>3, <1>4, <1>6, <1>7 DEF BodyInv

(* The wait for the speculative runs changes nothing. *)
LEMMA SaveWaitsInv ==
  ASSUME BodyInv, SaveWaits
  PROVE  BodyInv'
<1> USE DEF SaveWaits, engineVars, diskVars, historyVars
<1>1. TypeOK'
  BY DEF BodyInv, TypeOK
<1>2. EngineInv'
  BY DEF BodyInv, EngineInv, Pending
<1>3. SlotInv'
  BY DEF BodyInv, SlotInv, BestSlot
<1>4. AckedDurable'
  BY DEF BodyInv, AckedDurable, DiskView, BestSlot, Overlay
<1>5. ASSUME NEW j \in Disciplined, up'
      PROVE  TrackInv(j)' /\ LaneInv(j)' /\ CopyInv(j)'
  BY DEF BodyInv, TrackInv, LaneInv, CopyInv, View, Pending, DiskView, BestSlot, Editing, Overlay
<1> QED
  BY <1>1, <1>2, <1>3, <1>4, <1>5 DEF BodyInv

(* finalizePersistedBody, id by id: the id keeps a mark, or the record in  *)
(* the new store is the one every reader sees.                             *)
LEMMA FinalizeView ==
  ASSUME BodyInv, up, pc \in Installed, Swap, NEW j \in Disciplined
  PROVE  /\ View(j)' = View(j)
         /\ j \in deletedIDs' => cache[j] = None
         /\ j \in Pending' \ deletedIDs' => cache[j] # None
         /\ j \notin Pending' /\ ~Editing(j) =>
              (cache[j] # None => cache[j] = base[j]) /\ base[j] = View(j)'
         /\ cache[j] # None /\ base[j] = None => j \in newIDs'
         /\ j \notin deletedIDs => j \notin deletedIDs'
         /\ base[j] = None /\ store[j] # None => j \in deletedIDs
<1> USE DEF Swap
<1>1. /\ j \in Ids /\ TrackInv(j) /\ LaneInv(j) /\ CopyInv(j)
      /\ base = snap /\ todo = {} /\ TypeOK
  BY DEF BodyInv, SlotInv, Disciplined
<1>2. /\ deletedIDs \subseteq Ids /\ Pending \subseteq Ids
      /\ cache' = cache /\ store' = base /\ lane' = lane
  BY <1>1 DEF TypeOK, Pending
<1>3. /\ snap[j] = None /\ store[j] # None => j \in deletedIDs
      /\ j \notin Pending /\ ~Editing(j) => snap[j] = View(j)
  BY <1>1 DEF CopyInv
<1>4. /\ deletedIDs' = StillDeleted
      /\ Pending' = StillDirty \cup StillDeleted
      /\ newIDs' = {id \in StillDirty : base[id] = None}
  BY DEF Pending, StillDirty
<1>5. CASE j \in deletedIDs
  BY <1>1, <1>2, <1>3, <1>4, <1>5 DEF StillDeleted, StillDirty, View, TrackInv
<1>6. CASE j \in Pending /\ j \notin deletedIDs
  BY <1>1, <1>2, <1>3, <1>4, <1>6 DEF StillDeleted, StillDirty, View, TrackInv
<1>7. CASE j \notin Pending
  <2>1. j \notin Pending' /\ j \notin deletedIDs /\ j \notin deletedIDs' /\ j \notin newIDs
    BY <1>4, <1>7 DEF StillDeleted, StillDirty, Pending
  <2>2. CASE Editing(j)
    BY <1>1, <1>2, <1>3, <2>1, <2>2 DEF View, TrackInv, LaneInv, Editing
  <2>3. CASE ~Editing(j)
    BY <1>1, <1>2, <1>3, <1>7, <2>1, <2>3 DEF View, TrackInv
  <2> QED BY <2>2, <2>3
<1> QED BY <1>5, <1>6, <1>7

(* finalizePersistedBody swaps the store and clears marks, and readers     *)
(* see no difference.                                                      *)
LEMMA SwapInv ==
  ASSUME BodyInv, up, pc \in Installed, Swap
  PROVE  BodyInv'
<1> USE ConstantsAssumption
<1>0. /\ up /\ up' /\ pc \in Installed /\ TypeOK /\ EngineInv /\ SlotInv /\ AckedDurable
      /\ base = snap /\ todo = {} /\ BestSlot.seq = 0
      /\ UNCHANGED <<base, region, slots, cache, pagein, lane, expect>>
  BY DEF BodyInv, SlotInv, Swap, diskVars, KeepPromise, BreakOff
<1>1. TypeOK'
  <2>1. StillDirty \subseteq Ids /\ StillDeleted \subseteq Ids
    BY <1>0 DEF TypeOK, StillDirty, StillDeleted, Pending
  <2>2. /\ deletedIDs' \subseteq Ids /\ dirtyIDs' \subseteq Ids /\ newIDs' \subseteq Ids
        /\ dirty' \in BOOLEAN
    BY <2>1 DEF Swap
  <2>3. /\ pc' = "idle" /\ todo' = {} /\ snap' = NoRecs /\ payload' = NoMuts
        /\ store' = base
        /\ since' = [id \in Disciplined |-> {}]
    BY DEF Swap, PersistDone, KeepPromise, BreakOff
  <2>4. recover' \in [Disciplined -> SUBSET Records]
    BY <1>0 DEF Swap, KeepPromise, BreakOff, TypeOK
  <2> QED
    BY <1>0, <2>2, <2>3, <2>4 DEF TypeOK, Records, NoRecs, NoMuts, Mutations
<1>2. EngineInv'
  BY <1>0 DEF EngineInv, Pending, Swap, StillDirty, StillDeleted, PersistDone
<1>3. SlotInv'
  BY <1>0 DEF SlotInv, Swap, PersistDone
<1>4. ASSUME NEW j \in Disciplined
      PROVE  /\ TrackInv(j) /\ LaneInv(j) /\ CopyInv(j) /\ j \in Ids
             /\ DiskView[j] = base[j] /\ DiskView'[j] = base[j]
             /\ base[j] \in since[j] /\ base[j] \in recover[j]
             /\ expect[j] \in since[j] /\ expect[j] \in recover[j]
             /\ recover[j] \cap since[j] \subseteq recover'[j]
  <2>1. TrackInv(j) /\ LaneInv(j) /\ CopyInv(j) /\ j \in Ids
    BY <1>0 DEF BodyInv, Disciplined
  <2>2. DiskView = base /\ DiskView' = base
    BY <1>0 DEF DiskView, BestSlot
  <2>3. recover[j] \cap since[j] \subseteq recover'[j]
    BY <2>1 DEF Swap, KeepPromise, BreakOff
  <2> QED BY <1>0, <2>1, <2>2, <2>3 DEF CopyInv, TrackInv
<1>5. AckedDurable'
  BY <1>4 DEF AckedDurable, Disciplined
<1>6. ASSUME NEW j \in Disciplined
      PROVE  TrackInv(j)' /\ LaneInv(j)' /\ CopyInv(j)'
  <2>1. store' = base /\ pc' = "idle"
    BY DEF Swap, PersistDone
  <2>2. TrackInv(j)'
    <3>1. View(j)' = expect'[j] /\ expect'[j] \in recover'[j]
      BY <1>0, <1>4, FinalizeView DEF TrackInv
    <3>2. BestSlot'.seq = 0
      BY <1>0 DEF BestSlot
    <3> QED
      BY <1>0, <1>4, <2>1, <3>1, <3>2, FinalizeView DEF TrackInv, Editing
  <2>3. LaneInv(j)'
    <3>1. View(j) # None => j \notin deletedIDs
      BY DEF View
    <3> QED BY <1>0, <1>4, <2>1, <3>1, FinalizeView DEF LaneInv
  <2>4. CopyInv(j)'
    BY <2>1 DEF CopyInv
  <2> QED BY <2>2, <2>3, <2>4
<1> QED
  BY <1>1, <1>2, <1>3, <1>5, <1>6 DEF BodyInv

(* A crash tears at most the slot that was being written. *)
LEMMA CrashInv ==
  ASSUME BodyInv, Crash
  PROVE  BodyInv'
<1> USE ConstantsAssumption DEF Crash, PersistDone, BreakOff
<1>0. slots' = slots \/ slots' = NextSlot(NoSlot)
  OBVIOUS
<1>1. slots' \in [{0, 1} -> Slot]
      /\ \A i \in {0, 1} : slots'[i].seq > 0 =>
           region /\ (slots'[i].seq - 1) % 2 = i /\ slots'[i].base = base
  BY <1>0, SlotTorn DEF BodyInv, SlotInv, TypeOK
<1>2. DiskView' = DiskView
  <2>1. CASE slots' = slots
    BY <2>1 DEF DiskView, BestSlot, Overlay
  <2>2. CASE slots' = NextSlot(NoSlot)
    BY <2>2, TornView
  <2> QED BY <1>0, <2>1, <2>2
<1>3. TypeOK'
  BY <1>1 DEF BodyInv, TypeOK, Records, NoRecs, NoMuts, Mutations, Idle, Edit, NoLanes, Lane
<1>4. EngineInv'
  BY DEF EngineInv, NoRecs, Idle, Edit, NoLanes
<1>5. SlotInv'
  BY <1>1 DEF SlotInv
<1>6. AckedDurable'
  BY <1>2 DEF BodyInv, AckedDurable, Disciplined
<1> QED
  BY <1>3, <1>4, <1>5, <1>6 DEF BodyInv

(* A restart rebuilds from the file what the file stands for. *)
LEMMA RestartInv ==
  ASSUME BodyInv, Restart
  PROVE  BodyInv'
<1> USE ConstantsAssumption
<1> DEFINE ids == {id \in Ids : Restored[id] # NoEntry}
<1>0. /\ ~up /\ up' /\ TypeOK /\ EngineInv /\ SlotInv /\ AckedDurable
      /\ pc = "idle" /\ lane = NoLanes
      /\ UNCHANGED <<base, region, pagein, lane, since, pc, todo, snap, payload>>
  BY DEF BodyInv, EngineInv, Restart, persistVars
<1>1. /\ store' = base
      /\ cache' = Overlay(NoRecs, Restored)
      /\ dirtyIDs' = ids
      /\ deletedIDs' = {id \in ids : Restored[id] = None}
      /\ newIDs' = {id \in ids : Restored[id] # None /\ base[id] = None}
      /\ dirty' = (ids # {})
      /\ expect' = [id \in Disciplined |-> DiskView[id]]
      /\ recover' = [id \in Disciplined |-> {DiskView[id]}]
  BY DEF Restart
<1>2. BestSlot \in Slot /\ (BestSlot.seq > 0 => region /\ BestSlot.base = base)
  <2>1. BestSlot = slots[0] \/ BestSlot = slots[1]
    BY DEF BestSlot
  <2> QED BY <1>0, <2>1, NextSlotIsOther DEF SlotInv
<1>3. slots' = slots
  BY <1>2 DEF Restart
<1>4. Restored \in Mutations
      /\ Restored = IF BestSlot.seq > 0 THEN BestSlot.muts ELSE NoMuts
  BY <1>2 DEF Restored, Slot, NoMuts, Mutations
<1>5. DiskView = Overlay(base, Restored)
  BY <1>0, <1>2, <1>4 DEF DiskView, Overlay, NoMuts, TypeOK
<1>6. DiskView' = DiskView /\ BestSlot' = BestSlot
  BY <1>0, <1>3 DEF DiskView, BestSlot, Overlay
<1>7. DiskView \in [Ids -> Records] /\ cache' \in [Ids -> Records]
  BY <1>0, <1>1, <1>4, <1>5 DEF Overlay, Mutations, Records, NoRecs, TypeOK
<1>8. TypeOK'
  BY <1>0, <1>1, <1>3, <1>7 DEF TypeOK, Disciplined
<1>9. EngineInv'
  BY <1>0, <1>1 DEF EngineInv, Pending
<1>10. SlotInv'
  BY <1>0, <1>3, <1>6 DEF SlotInv
<1>11. AckedDurable'
  BY <1>1, <1>6 DEF AckedDurable, Disciplined
<1>12. ASSUME NEW j \in Disciplined
       PROVE  TrackInv(j)' /\ LaneInv(j)' /\ CopyInv(j)'
  <2>1. j \in Ids /\ cache'[j] = IF Restored[j] = NoEntry THEN None ELSE Restored[j]
    BY <1>1 DEF Disciplined, Overlay, NoRecs
  <2>2. DiskView[j] = IF Restored[j] = NoEntry THEN base[j] ELSE Restored[j]
    BY <1>5, <2>1 DEF Overlay
  <2>3. /\ j \in Pending' <=> Restored[j] # NoEntry
        /\ j \in deletedIDs' <=> Restored[j] = None
        /\ j \in newIDs' <=> Restored[j] \notin {None, NoEntry} /\ base[j] = None
    BY <1>1, <2>1 DEF Pending
  <2>4. View(j)' = DiskView[j]
    BY <1>1, <2>1, <2>2, <2>3 DEF View
  <2>5. BestSlot.seq > 0 /\ BestSlot.muts[j] # NoEntry => Restored[j] # NoEntry
    BY <1>4
  <2>6. expect'[j] = DiskView[j] /\ recover'[j] = {DiskView[j]}
    BY <1>1, <2>1
  <2>7. TrackInv(j)'
    BY <1>1, <1>6, <2>1, <2>2, <2>3, <2>4, <2>5, <2>6 DEF TrackInv
  <2>8. LaneInv(j)' /\ CopyInv(j)'
    BY <1>0 DEF LaneInv, CopyInv, NoLanes, Idle, Disciplined
  <2> QED BY <2>7, <2>8
<1> QED
  BY <1>8, <1>9, <1>10, <1>11, <1>12 DEF BodyInv

(* BodyInv is inductive: one lemma per action. *)
LEMMA NextInv == BodyInv /\ [Next]_vars => BodyInv'
<1> SUFFICES ASSUME BodyInv, [Next]_vars PROVE BodyInv'
  OBVIOUS
<1>1. CASE Mutate
  BY <1>1, ModifyInv, EditInPlaceInv, ImportOwnedInv, ImportForeignInv, CacheDropInv,
     UpsertLookupInv, MarkDirtyInv, UpsertOnOwnerInv, AddRuntimeMemoryInv, DeleteInv, SpeculativeCommitInv DEF Mutate
<1>2. CASE PageIn
  BY <1>2, PageInReadInv, PageInInstallInv DEF PageIn
<1>3. CASE Persist
  BY <1>3, PersistNothingInv, JournalSnapshotInv, JournalWriteInv, JournalWriteFailsInv,
     SaveBeginInv, SaveCopyInv, SaveRenameInv, SaveFailsInv, SaveWaitsInv, SwapInv
     DEF Persist, SaveFinalize, SaveUnpinned
<1>4. CASE Crash
  BY <1>4, CrashInv
<1>5. CASE Restart
  BY <1>5, RestartInv
<1>6. CASE UNCHANGED vars
  BY <1>6 DEF vars, engineVars, persistVars, diskVars, historyVars,
     BodyInv, TypeOK, EngineInv, SlotInv, AckedDurable, Disciplined, TrackInv, LaneInv,
     CopyInv, View, Pending, DiskView, BestSlot, Editing, Overlay
<1> QED
  BY <1>1, <1>2, <1>3, <1>4, <1>5, <1>6 DEF Next

(* BodyInv holds in every reachable state of a body of any size: the state *)
(* of cache, store, marks, file and journal that persistEngineIncremental, *)
(* saveBody and restoreMutationJournal rely on.                            *)
THEOREM BodyInvariant == Spec => []BodyInv
  BY InitInv, NextInv, PTL DEF Spec

(* Every variable keeps its type; in particular a journal sequence number  *)
(* stays within its bound and an upsert under way carries a record.        *)
THEOREM TypeCorrect == Spec => []TypeOK
<1>1. BodyInv => TypeOK
  BY DEF BodyInv
<1> QED BY <1>1, BodyInvariant, PTL

(* Readers of a running body see exactly the mutations performed, across   *)
(* page-ins, journal writes, concurrent full saves and restarts.           *)
THEOREM ReadsAreCurrent == Spec => []ReadYourWrites
<1>1. BodyInv => ReadYourWrites
  BY DEF BodyInv, TrackInv, ReadYourWrites
<1> QED BY <1>1, BodyInvariant, PTL

(* In every reachable state the file alone yields, for every id, a record  *)
(* no older than the last persist call that reported success: a crash      *)
(* anywhere, with either slot torn, loses no acknowledged mutation.        *)
THEOREM AcknowledgedIsDurable == Spec => []AckedDurable
<1>1. BodyInv => AckedDurable
  BY DEF BodyInv
<1> QED BY <1>1, BodyInvariant, PTL

(* A body this code wrote is never refused for a journal of another base.  *)
THEOREM JournalBelongsToBase == Spec => []JournalOfThisBase
<1>1. BodyInv => JournalOfThisBase
  BY DEF BodyInv, SlotInv, BestSlot, JournalOfThisBase
<1> QED BY <1>1, BodyInvariant, PTL

(* snapshotMutationJournal never fails for want of a cached record.        *)
THEOREM PersistIsNeverRefused == Spec => []PersistNeverRefused
<1>1. BodyInv => PersistNeverRefused
  BY DEF BodyInv, TrackInv, PersistNeverRefused
<1> QED BY <1>1, BodyInvariant, PTL

----------------------------------------------------------------------------
(* MemoryBody implements DurableMap.  The map a user of the body sees is    *)
(* what readers may expect of the disciplined ids, while the process is up *)
(* and while it is down.                                                   *)
Seen == [id \in Disciplined |-> IF up THEN View(id) ELSE expect[id]]
Back == recover

LEMMA SeenIsExpected ==
  ASSUME BodyInv
  PROVE  Seen = [id \in Disciplined |-> expect[id]]
<1>1. up => \A id \in Disciplined : View(id) = expect[id]
  BY DEF BodyInv, TrackInv
<1> QED BY <1>1 DEF Seen

LEMMA SeenIsExpectedNext ==
  ASSUME BodyInv'
  PROVE  Seen' = [id \in Disciplined |-> expect'[id]]
<1>1. up' => \A id \in Disciplined : View(id)' = expect'[id]
  BY DEF BodyInv, TrackInv
<1> QED BY <1>1 DEF Seen

(* What the promise says of ids and records holds of the disciplined ids. *)
LEMMA DisciplinedType ==
  ASSUME BodyInv
  PROVE  /\ Disciplined \subseteq Ids
         /\ \A id \in Disciplined : expect[id] \in Records
         /\ up => \A id \in Disciplined : expect[id] \in recover[id]
BY DEF BodyInv, TypeOK, Disciplined, TrackInv

(* Mutations are writes: a record written over itself adds nothing to what *)
(* a restart may bring back, for it may be brought back already.           *)
LEMMA PerformWrites ==
  ASSUME BodyInv, BodyInv', up, NEW w \in Mutations, Perform(w)
  PROVE  Promise!Write
<1>1. /\ Seen = [id \in Disciplined |-> expect[id]]
      /\ Seen' = [id \in Disciplined |-> expect'[id]]
  BY SeenIsExpected, SeenIsExpectedNext
<1>2. \A id \in Disciplined : expect'[id] \in Records
  BY DEF BodyInv, TypeOK, Disciplined
<1>3. \A id \in Disciplined :
        recover'[id] = IF expect'[id] = expect[id] THEN recover[id]
                       ELSE recover[id] \cup {expect'[id]}
  <2> SUFFICES ASSUME NEW id \in Disciplined
               PROVE  recover'[id] = IF expect'[id] = expect[id] THEN recover[id]
                                     ELSE recover[id] \cup {expect'[id]}
    OBVIOUS
  <2>1. id \in Ids /\ expect[id] \in recover[id]
    BY DisciplinedType
  <2>2. /\ expect'[id] = IF w[id] = NoEntry THEN expect[id] ELSE w[id]
        /\ recover'[id] = IF w[id] = NoEntry THEN recover[id]
                          ELSE recover[id] \cup {w[id]}
    BY <2>1 DEF Perform, Overlay
  <2> QED BY <2>1, <2>2
<1>4. Seen' \in [Disciplined -> Records]
  BY <1>1, <1>2
<1>5. Back' = [id \in Disciplined |-> IF Seen'[id] = Seen[id] THEN Back[id]
                                      ELSE Back[id] \cup {Seen'[id]}]
  BY <1>1, <1>3 DEF Back, BodyInv, TypeOK
<1> QED BY <1>4, <1>5 DEF Promise!Write, Seen, Back

(* A persist call that reports success forgets older records, and never    *)
(* the current one.                                                        *)
LEMMA PromisePersists ==
  ASSUME BodyInv, BodyInv', UNCHANGED expect,
         \A id \in Disciplined :
           expect[id] \in recover'[id] /\ recover'[id] \subseteq recover[id]
  PROVE  Promise!Persist
<1>1. /\ Seen = [id \in Disciplined |-> expect[id]]
      /\ Seen' = [id \in Disciplined |-> expect'[id]]
  BY SeenIsExpected, SeenIsExpectedNext
<1>2. Seen' = Seen
  BY <1>1
<1>3. DOMAIN Back' = Disciplined
  BY DEF Back, BodyInv, TypeOK
<1>4. \A id \in Disciplined : Seen[id] \in Back'[id] /\ Back'[id] \subseteq Back[id]
  BY <1>1 DEF Back
<1> QED BY <1>2, <1>3, <1>4 DEF Promise!Persist, Seen, Back

(* A step that neither performs a mutation nor reports success is not seen. *)
LEMMA Unseen ==
  ASSUME BodyInv, BodyInv', UNCHANGED <<expect, recover>>
  PROVE  UNCHANGED Promise!vars
<1>1. /\ Seen = [id \in Disciplined |-> expect[id]]
      /\ Seen' = [id \in Disciplined |-> expect'[id]]
  BY SeenIsExpected, SeenIsExpectedNext
<1>2. Seen' = Seen /\ Back' = Back
  BY <1>1 DEF Back
<1> QED BY <1>2 DEF Promise!vars, Seen, Back

LEMMA OnlyIsMutation ==
  ASSUME NEW id \in Ids, NEW r \in Records
  PROVE  Only(id, r) \in Mutations
BY DEF Only, NoMuts, Mutations

LEMMA MutateMaps ==
  ASSUME BodyInv, BodyInv', Mutate
  PROVE  [Promise!Next]_(Promise!vars)
<1>1. CASE \E id \in Ids, v \in Vals :
             Modify(id, v) \/ EditInPlace(id, v) \/ ImportOwned(id, v)
  <2>1. PICK id \in Ids, v \in Vals :
          Modify(id, v) \/ EditInPlace(id, v) \/ ImportOwned(id, v)
    BY <1>1
  <2>2. up /\ Perform(Only(id, v))
    BY <2>1 DEF Modify, EditInPlace, ImportOwned, LaneFree
  <2>3. Only(id, v) \in Mutations
    BY OnlyIsMutation DEF Records
  <2> QED BY <2>2, <2>3, PerformWrites DEF Promise!Next
<1>2. CASE \E id \in Ids : UpsertOnOwner(id) \/ AddRuntimeMemory(id)
  <2>1. PICK id \in Ids : UpsertOnOwner(id) \/ AddRuntimeMemory(id)
    BY <1>2
  <2>2. up /\ Perform(Only(id, lane[id].val))
    BY <2>1 DEF UpsertOnOwner, AddRuntimeMemory
  <2>3. lane[id].val \in Records
    BY DEF BodyInv, TypeOK, Lane
  <2>4. PICK w \in Mutations : w = Only(id, lane[id].val)
    BY <2>3, OnlyIsMutation
  <2> QED BY <2>2, <2>4, PerformWrites DEF Promise!Next
<1>3. CASE \E id \in Ids : Delete(id)
  <2>1. PICK id \in Ids : Delete(id)
    BY <1>3
  <2>2. up /\ Perform(Only(id, None))
    BY <2>1 DEF Delete, LaneFree
  <2>3. Only(id, None) \in Mutations
    BY OnlyIsMutation DEF Records
  <2> QED BY <2>2, <2>3, PerformWrites DEF Promise!Next
<1>4. CASE \E w \in Mutations : SpeculativeCommit(w)
  <2>1. PICK w \in Mutations : SpeculativeCommit(w)
    BY <1>4
  <2>2. Perform(w)
    BY <2>1 DEF SpeculativeCommit
  <2>3. up
    <3>1. PICK id \in Ids : LaneFree(id)
      BY <2>1 DEF SpeculativeCommit
    <3> QED BY <3>1 DEF LaneFree
  <2> QED BY <2>2, <2>3, PerformWrites DEF Promise!Next
<1>5. CASE \E id \in Ids : \/ MarkDirty(id) \/ ImportForeign(id) \/ CacheDrop(id)
                         \/ \E v \in Vals : UpsertLookup(id, v)
  BY <1>5, Unseen DEF MarkDirty, ImportForeign, CacheDrop, UpsertLookup, historyVars
<1> QED BY <1>1, <1>2, <1>3, <1>4, <1>5 DEF Mutate

LEMMA PersistMaps ==
  ASSUME BodyInv, BodyInv', Persist
  PROVE  [Promise!Next]_(Promise!vars)
<1>1. CASE PersistNothing
  <2>1. up /\ UNCHANGED expect /\ recover' = Promised
    BY <1>1 DEF PersistNothing
  <2>2. \A id \in Disciplined :
          expect[id] \in recover'[id] /\ recover'[id] \subseteq recover[id]
    BY <2>1, DisciplinedType DEF Promised
  <2> QED BY <2>1, <2>2, PromisePersists DEF Promise!Next
<1>2. CASE (JournalWrite \/ SaveFinalize \/ SaveUnpinned) /\ KeepPromise
  <2>1. up /\ pc # "idle" /\ UNCHANGED expect
        /\ recover' = [id \in Disciplined |-> recover[id] \cap since[id]]
    BY <1>2 DEF JournalWrite, SaveFinalize, SaveUnpinned, Swap, KeepPromise
  <2>2. \A id \in Disciplined : expect[id] \in since[id]
    BY <2>1 DEF BodyInv, CopyInv
  <2>3. \A id \in Disciplined :
          expect[id] \in recover'[id] /\ recover'[id] \subseteq recover[id]
    BY <2>1, <2>2, DisciplinedType
  <2> QED BY <2>1, <2>3, PromisePersists DEF Promise!Next
<1>3. CASE \/ JournalSnapshot \/ JournalWriteFails \/ SaveBegin \/ SaveRename \/ SaveFails
           \/ SaveWaits \/ ((SaveFinalize \/ SaveUnpinned) /\ BreakOff)
           \/ \E id \in Ids : SaveCopy(id)
  <2>1. UNCHANGED <<expect, recover>>
    BY <1>3 DEF JournalSnapshot, JournalWriteFails, SaveBegin, SaveRename, SaveFails, SaveCopy,
       SaveWaits, BeginPromise, BreakOff, historyVars
  <2> QED BY <2>1, Unseen
<1> QED BY <1>1, <1>2, <1>3 DEF Persist, JournalWrite, SaveFinalize, SaveUnpinned, Swap

(* A restart brings back what the file stands for, which AckedDurable says *)
(* is a record that may come back.                                         *)
LEMMA RestartMaps ==
  ASSUME BodyInv, BodyInv', Restart
  PROVE  Promise!Restart
<1>1. /\ expect' = [id \in Disciplined |-> DiskView[id]]
      /\ recover' = [id \in Disciplined |-> {DiskView[id]}]
  BY DEF Restart
<1>2. Seen' = [id \in Disciplined |-> expect'[id]]
  BY SeenIsExpectedNext
<1>3. \A id \in Disciplined : id \in Ids /\ DiskView[id] \in recover[id]
  BY DisciplinedType DEF BodyInv, AckedDurable
<1>4. DOMAIN Seen' = Disciplined
  BY <1>2
<1>5. \A id \in Disciplined : Seen'[id] \in Back[id]
  BY <1>1, <1>2, <1>3 DEF Back
<1>6. Back' = [id \in Disciplined |-> {Seen'[id]}]
  BY <1>1, <1>2, <1>3 DEF Back
<1> QED BY <1>4, <1>5, <1>6 DEF Promise!Restart, Seen, Back

(* A body of any size, with crashes, torn slots, failed writes and saves   *)
(* interleaved with mutations, keeps the promise DurableMap makes to the   *)
(* mesh journal, the replay ledger and the external-I/O executor.          *)
THEOREM KeepsPromise == Spec => Implements
<1>1. Init => Promise!Init
  <2> SUFFICES ASSUME Init PROVE Promise!Init
    OBVIOUS
  <2>1. /\ ~up /\ base \in [Ids -> Records]
        /\ expect = [id \in Disciplined |-> base[id]]
        /\ recover = [id \in Disciplined |-> {base[id]}]
    BY DEF Init
  <2>2. Seen \in [Disciplined -> Records]
    BY <2>1 DEF Seen, Disciplined
  <2>3. Back = [id \in Disciplined |-> {Seen[id]}]
    BY <2>1 DEF Seen, Back, Disciplined
  <2> QED BY <2>2, <2>3 DEF Promise!Init, Seen, Back
<1>2. BodyInv /\ BodyInv' /\ [Next]_vars => [Promise!Next]_(Promise!vars)
  <2> SUFFICES ASSUME BodyInv, BodyInv', [Next]_vars
               PROVE  [Promise!Next]_(Promise!vars)
    OBVIOUS
  <2>1. CASE Mutate
    BY <2>1, MutateMaps
  <2>2. CASE Persist
    BY <2>2, PersistMaps
  <2>3. CASE Restart
    BY <2>3, RestartMaps DEF Promise!Next
  <2>4. CASE PageIn \/ Crash \/ UNCHANGED vars
    <3>1. UNCHANGED <<expect, recover>>
      BY <2>4 DEF PageIn, PageInRead, PageInInstall, Crash, BreakOff, vars, historyVars
    <3> QED BY <3>1, Unseen
  <2> QED BY <2>1, <2>2, <2>3, <2>4 DEF Next
<1> QED BY <1>1, <1>2, BodyInvariant, PTL DEF Spec, Implements, Promise!Spec
============================================================================
