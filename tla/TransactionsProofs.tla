-------------------------- MODULE TransactionsProofs --------------------------
(***************************************************************************)
(* Theorems about Transactions: the inductive invariant TxnInv, and from   *)
(* it that no update and no run is lost, that speculation leaves no trace  *)
(* and that an effect happens at most once, for any number of requests,    *)
(* records, primitives and whatever the size of a snapshot.                *)
(***************************************************************************)
EXTENDS Transactions, TLAPS

(* A cache entry is a record, or one of the two that are not.              *)
LEMMA EntryFacts ==
  /\ Unread \notin Memory /\ Gone \notin Memory /\ Unread # Gone
  /\ None \notin Memory /\ None # Gone /\ None # Unread
<1>1. \A m \in Memory : DOMAIN m = {"mark", "ran"}
  BY DEF Memory
<1>2. DOMAIN Unread = {"entry"} /\ DOMAIN Gone = {"entry"}
  BY DEF Unread, Gone
<1>3. Unread.entry = "unread" /\ Gone.entry = "gone"
  BY DEF Unread, Gone
<1>4. {"mark", "ran"} # {"entry"} /\ "unread" # "gone"
  OBVIOUS
<1> QED BY <1>1, <1>2, <1>3, <1>4, TxnConstants DEF Entries

(* The fields of a record, and its updates.                                *)
LEMMA RecordFields ==
  ASSUME NEW m \in Memory
  PROVE  /\ m.mark \in SUBSET Txns /\ m.ran \in SUBSET Txns
         /\ \A s \in SUBSET Txns :
              /\ [m EXCEPT !.mark = s] \in Memory
              /\ [m EXCEPT !.mark = s].mark = s /\ [m EXCEPT !.mark = s].ran = m.ran
              /\ [m EXCEPT !.ran = s] \in Memory
              /\ [m EXCEPT !.ran = s].ran = s /\ [m EXCEPT !.ran = s].mark = m.mark
BY DEF Memory

LEMMA RecordNew ==
  ASSUME NEW s \in SUBSET Txns, NEW r \in SUBSET Txns
  PROVE  /\ [mark |-> s, ran |-> r] \in Memory
         /\ [mark |-> s, ran |-> r].mark = s /\ [mark |-> s, ran |-> r].ran = r
BY DEF Memory

LEMMA InitInv == Init => TxnInv
<1> SUFFICES ASSUME Init PROVE TxnInv
  OBVIOUS
<1> USE DEF Init
<1>1. [mark |-> {}, ran |-> {}] \in Memory
  BY DEF Memory
<1>2. TypeOK
  BY <1>1, EntryFacts, TxnConstants DEF TypeOK, Stages, Unpinned, Nothing, Entries, Ids
<1>3. LaneInv /\ HistoryInv /\ SpecInv /\ SnapInv /\ CanonInv /\ CreatedInv
  BY TxnConstants DEF LaneInv, HistoryInv, SpecInv, SnapInv, CanonInv, CreatedInv, Ids
<1>4. NoLostUpdate /\ RunsCounted /\ EffectAtMostOnce
  BY DEF NoLostUpdate, RunsCounted, EffectAtMostOnce
<1>5. NoTrace
  BY EntryFacts DEF NoTrace, Exists
<1> QED BY <1>2, <1>3, <1>4, <1>5 DEF TxnInv

(* The parts that speak of the records and the history stay true when      *)
(* neither changes.                                                        *)
Records == NoLostUpdate /\ RunsCounted /\ NoTrace /\ EffectAtMostOnce /\ CreatedInv

LEMMA Quiet ==
  ASSUME TxnInv, UNCHANGED <<rec, history>>
  PROVE  Records'
BY DEF TxnInv, Records, NoLostUpdate, RunsCounted, NoTrace, EffectAtMostOnce, CreatedInv,
       Exists, history

(* What a speculative run has of its own stays as it is.                    *)
Private(u) == snap'[u] = snap[u] /\ base'[u] = base[u] /\ view'[u] = view[u]

(* The private Engine of a request is dropped.                             *)
LEMMA ReleasedType ==
  ASSUME TypeOK, NEW t \in Txns, Released(t)
  PROVE  /\ snap' \in [Txns -> [Primary -> Entries \cup {None}]]
         /\ base' \in [Txns -> [Ids -> Memory \cup {Unread}]]
         /\ view' \in [Txns -> [Ids -> Entries]]
         /\ pend' \in [Txns -> SUBSET Ids]
         /\ ops' \in [Txns -> Nat]
         /\ \A u \in Txns \ {t} : Private(u)
         /\ \A id \in Ids : view'[t][id] = Unread
<1>1. Unpinned \in [Primary -> Entries \cup {None}]
  BY DEF Unpinned, Entries
<1>2. Nothing \in [Ids -> Memory \cup {Unread}] /\ Nothing \in [Ids -> Entries]
  BY DEF Nothing, Entries
<1>3. \A id \in Ids : Nothing[id] = Unread
  BY DEF Nothing
<1> QED BY <1>1, <1>2, <1>3 DEF TypeOK, Released, Private

-----------------------------------------------------------------------------
(* The speculative run                                                     *)

(* What is said of one request and record.                                 *)
Lane1(t) == stage[t] = "canonical" => lane = t

History1(t) ==
  /\ stage[t] \in {"idle", "running", "diffed", "blocked", "limited"} =>
       took[t] = {} /\ called[t] = {} /\ effects[t] = 0
  /\ stage[t] = "canonical" => effects[t] = IF did[t] THEN 1 ELSE 0

Spec1(t, id) ==
  stage[t] \in {"running", "diffed"} =>
    /\ view[t][id] # Unread => base[t][id] # Unread
    /\ base[t][id] \in Memory => rec[id] # None /\ Behind(base[t][id], id)
    /\ view[t][id] \in Memory =>
         /\ base[t][id].mark \subseteq view[t][id].mark
         /\ Exists(id) =>
              /\ view[t][id].mark \subseteq rec[id].mark \cup {t}
              /\ view[t][id].ran \subseteq base[t][id].ran \cup {t} \cup
                     IF id \in Shard THEN rec[id].ran ELSE {}

Snap1(t, id) ==
  id \in Primary /\ stage[t] = "running" /\ snap[t][id] \in Memory =>
    /\ rec[id] # None /\ Behind(snap[t][id], id)
    /\ base[t][id] # Unread => base[t][id] = snap[t][id]

Canon1(t, id) ==
  stage[t] = "canonical" /\ view[t][id] \in Memory =>
    rec[id] = Gone \/ SameDigest(id, view[t][id])

Run1(t, id) == Spec1(t, id) /\ Snap1(t, id) /\ Canon1(t, id)

LEMMA Parts ==
  TxnInv <=> /\ TypeOK /\ Records
             /\ \A t \in Txns : Lane1(t) /\ History1(t)
             /\ \A t \in Txns, id \in Ids : Run1(t, id)
BY DEF TxnInv, Records, LaneInv, HistoryInv, SpecInv, SnapInv, CanonInv,
       Lane1, History1, Run1, Spec1, Snap1, Canon1, Ids

LEMMA PartsNext ==
  ASSUME TypeOK', Records', \A t \in Txns : Lane1(t)' /\ History1(t)',
         \A t \in Txns, id \in Ids : Run1(t, id)'
  PROVE  TxnInv'
BY DEF TxnInv, Records, LaneInv, HistoryInv, SpecInv, SnapInv, CanonInv,
       Lane1, History1, Run1, Spec1, Snap1, Canon1, Ids

(* A step of one request that leaves the records, the lane and the history *)
(* alone says nothing new of the others.                                   *)
LEMMA Alone ==
  ASSUME TxnInv, TypeOK', NEW t \in Txns, UNCHANGED <<rec, lane, history>>,
         \A u \in Txns \ {t} : stage'[u] = stage[u] /\ did'[u] = did[u] /\ Private(u),
         stage'[t] = stage[t] \/ stage'[t] # "canonical",
         History1(t)', \A id \in Ids : Run1(t, id)'
  PROVE  TxnInv'
<1>1. Records'
  BY Quiet
<1>2. ASSUME NEW u \in Txns \ {t} PROVE Lane1(u)' /\ History1(u)'
  BY <1>2, Parts DEF Lane1, History1, history
<1>3. ASSUME NEW u \in Txns \ {t}, NEW id \in Ids PROVE Run1(u, id)'
  <2>1. Run1(u, id) /\ Private(u) /\ stage'[u] = stage[u]
    BY <1>3, Parts
  <2> QED BY <2>1 DEF Run1, Spec1, Snap1, Canon1, SameDigest, Exists, Behind, Private
<1>4. Lane1(t)'
  BY Parts DEF Lane1
<1> QED BY <1>1, <1>2, <1>3, <1>4, PartsNext

LEMMA SnapshotInv ==
  ASSUME TxnInv, NEW t \in Txns, Snapshot(t)
  PROVE  TxnInv'
<1> DEFINE copies == [id \in Ids |-> IF id \in Working THEN rec[id] ELSE Unread]
<1> USE DEF Snapshot
<1>0. TypeOK
  BY DEF TxnInv
<1>1. /\ copies \in [Ids -> Memory \cup {Unread}] /\ copies \in [Ids -> Entries]
      /\ [id \in Primary |-> rec[id]] \in [Primary -> Entries \cup {None}]
  BY <1>0 DEF TypeOK, Working, Exists, Entries, Ids
<1>2. /\ base' = [base EXCEPT ![t] = copies] /\ view' = [view EXCEPT ![t] = copies]
      /\ stage' = [stage EXCEPT ![t] = "running"]
      /\ snap' = [snap EXCEPT ![t] = [id \in Primary |-> rec[id]]]
  OBVIOUS
<1>a. \A id \in Ids : copies[id] = IF id \in Working THEN rec[id] ELSE Unread
  OBVIOUS
<1>b. \A id \in Working : rec[id] \in Memory
  BY DEF Working, Exists
<1> HIDE DEF copies
<1>3. TypeOK'
  BY <1>0, <1>1, <1>2 DEF TypeOK, Stages, history
<1>4. \A u \in Txns \ {t} : stage'[u] = stage[u] /\ Private(u)
  BY <1>0, <1>2 DEF TypeOK, Private
<1>5. /\ stage'[t] = "running" /\ base'[t] = copies /\ view'[t] = copies
      /\ \A id \in Primary : snap'[t][id] = rec[id]
  BY <1>0, <1>2 DEF TypeOK
<1>6. History1(t)'
  BY <1>5, Parts DEF History1, history
<1>7. ASSUME NEW id \in Ids PROVE Run1(t, id)'
  <2>1. CASE id \in Working
    <3>1. base'[t][id] = rec[id] /\ view'[t][id] = rec[id] /\ rec[id] \in Memory /\ rec' = rec
      BY <1>5, <1>a, <1>b, <2>1
    <3> QED BY <1>5, <3>1, EntryFacts DEF Run1, Spec1, Snap1, Canon1, Behind, Exists
  <2>2. CASE id \notin Working
    <3>1. base'[t][id] = Unread /\ view'[t][id] = Unread /\ rec' = rec
      BY <1>5, <1>a, <2>2
    <3> QED BY <1>5, <3>1, EntryFacts DEF Run1, Spec1, Snap1, Canon1, Behind, Exists
  <2> QED BY <2>1, <2>2
<1> QED BY <1>3, <1>4, <1>5, <1>6, <1>7, Alone

LEMMA SnapshotLimitInv ==
  ASSUME TxnInv, NEW t \in Txns, SnapshotLimit(t)
  PROVE  TxnInv'
<1> USE DEF SnapshotLimit, runVars
<1>0. TypeOK
  BY DEF TxnInv
<1>1. TypeOK'
  BY <1>0 DEF TypeOK, Stages, history
<1>2. \A u \in Txns \ {t} : stage'[u] = stage[u] /\ Private(u)
  BY <1>0 DEF TypeOK, Private
<1>3. stage'[t] = "limited"
  BY <1>0 DEF TypeOK
<1>4. History1(t)' /\ \A id \in Ids : Run1(t, id)'
  BY <1>3, Parts DEF History1, Run1, Spec1, Snap1, Canon1, history
<1> QED BY <1>1, <1>2, <1>3, <1>4, Alone

(* A speculative run ends without a commit.                                *)
LEMMA DroppedInv ==
  ASSUME TxnInv, NEW t \in Txns, stage[t] = "running", Released(t),
         NEW s \in {"failed", "blocked"}, stage' = [stage EXCEPT ![t] = s],
         did' \in [Txns -> BOOLEAN], \A u \in Txns \ {t} : did'[u] = did[u],
         UNCHANGED <<rec, dirty, lane, history>>
  PROVE  TxnInv'
<1>0. TypeOK
  BY DEF TxnInv
<1>1. TypeOK'
  BY <1>0, ReleasedType DEF TypeOK, Stages, history
<1>2. \A u \in Txns \ {t} : stage'[u] = stage[u] /\ Private(u)
  BY <1>0, ReleasedType DEF TypeOK
<1>3. stage'[t] = s
  BY <1>0 DEF TypeOK
<1>4. History1(t)' /\ \A id \in Ids : Run1(t, id)'
  BY <1>3, Parts DEF History1, Run1, Spec1, Snap1, Canon1, history
<1> QED BY <1>1, <1>2, <1>3, <1>4, Alone

LEMMA SpecEndsInv ==
  ASSUME TxnInv, NEW t \in Txns,
         \/ Forbidden(t) \/ SpecError(t) \/ FrameOver(t)
         \/ \E id \in Ids : SpecReadLimit(t, id)
  PROVE  TxnInv'
<1>0. did \in [Txns -> BOOLEAN]
  BY DEF TxnInv, TypeOK
<1>1. CASE Forbidden(t)
  BY <1>0, <1>1, DroppedInv DEF Forbidden
<1>2. CASE SpecError(t)
  BY <1>0, <1>2, DroppedInv DEF SpecError, SpecFails
<1>3. CASE \E id \in Ids : SpecReadLimit(t, id)
  BY <1>0, <1>3, DroppedInv DEF SpecReadLimit, SpecFails
<1>4. CASE FrameOver(t)
  BY <1>0, <1>4, DroppedInv DEF FrameOver
<1> QED BY <1>1, <1>2, <1>3, <1>4

LEMMA ForbiddenTriedInv ==
  ASSUME TxnInv, NEW t \in Txns, ForbiddenTried(t)
  PROVE  TxnInv'
<1> USE DEF ForbiddenTried, Op
<1>0. TypeOK
  BY DEF TxnInv
<1>1. TypeOK'
  BY <1>0 DEF TypeOK, history
<1>2. \A u \in Txns \ {t} : did'[u] = did[u] /\ Private(u)
  BY <1>0 DEF TypeOK, Private
<1>3. History1(t)' /\ \A id \in Ids : Run1(t, id)'
  BY Parts DEF History1, Run1, Spec1, Snap1, Canon1, Behind, Exists, history
<1> QED BY <1>1, <1>2, <1>3, Alone

LEMMA SpecReturnInv ==
  ASSUME TxnInv, NEW t \in Txns, SpecReturn(t)
  PROVE  TxnInv'
<1> USE DEF SpecReturn
<1>0. TypeOK
  BY DEF TxnInv
<1>1. Unpinned \in [Primary -> Entries \cup {None}]
  BY DEF Unpinned, Entries
<1>2. TypeOK'
  BY <1>0, <1>1 DEF TypeOK, Stages, history
<1>3. \A u \in Txns \ {t} : stage'[u] = stage[u] /\ Private(u)
  BY <1>0 DEF TypeOK, Private
<1>4. stage'[t] = "diffed"
  BY <1>0 DEF TypeOK
<1>5. History1(t)' /\ \A id \in Ids : Run1(t, id)'
  BY <1>4, Parts DEF History1, Run1, Spec1, Snap1, Canon1, Behind, Exists, history
<1> QED BY <1>2, <1>3, <1>4, <1>5, Alone

(* A primitive of the run changes one entry of its cache, and records the  *)
(* baseline if it is the first to look at the record.                      *)
LEMMA PrimitiveInv ==
  ASSUME TxnInv, NEW t \in Txns, NEW id \in Ids, stage[t] = "running", Op(t),
         base' \in [Txns -> [Ids -> Memory \cup {Unread}]],
         view' \in [Txns -> [Ids -> Entries]], pend' \in [Txns -> SUBSET Ids],
         \A u \in Txns, i \in Ids :
           u # t \/ i # id => base'[u][i] = base[u][i] /\ view'[u][i] = view[u][i],
         Spec1(t, id)', Snap1(t, id)',
         UNCHANGED <<rec, dirty, lane, stage, snap, did, history>>
  PROVE  TxnInv'
<1>0. TypeOK
  BY DEF TxnInv
<1>1. TypeOK'
  BY <1>0 DEF TypeOK, Op, history
<1>2. \A u \in Txns \ {t} : Private(u)
  BY <1>0 DEF TypeOK, Private
<1>3. History1(t)'
  BY Parts DEF History1, history
<1>4. ASSUME NEW i \in Ids PROVE Run1(t, i)'
  <2>1. CASE i = id
    BY <2>1 DEF Run1, Canon1
  <2>2. CASE i # id
    <3>1. base'[t][i] = base[t][i] /\ view'[t][i] = view[t][i] /\ Run1(t, i)
      BY <2>2, Parts
    <3> QED BY <3>1 DEF Run1, Spec1, Snap1, Canon1, Behind, Exists
  <2> QED BY <2>1, <2>2
<1> QED BY <1>1, <1>2, <1>3, <1>4, Alone

LEMMA SpecReadInv ==
  ASSUME TxnInv, NEW t \in Txns, NEW id \in Ids, SpecRead(t, id)
  PROVE  TxnInv'
<1> DEFINE m == Found(t, id)  b == base[t][id]
           b1 == IF b = Unread THEN m ELSE b
<1>0. TypeOK /\ Spec1(t, id) /\ Snap1(t, id)
  BY Parts DEF Run1
<1>1. m \in Memory /\ m \in Entries /\ m # Unread /\ b \in Memory \cup {Unread}
  BY <1>0, EntryFacts DEF SpecRead, PagesIn, Entries, TypeOK
<1>2. /\ base' = [base EXCEPT ![t][id] = b1] /\ view' = [view EXCEPT ![t][id] = m]
      /\ stage[t] = "running" /\ Op(t)
      /\ UNCHANGED <<rec, dirty, lane, stage, snap, pend, did, history>>
  BY DEF SpecRead
<1>3. b1 \in Memory
  BY <1>1
<1>4. id \in Primary => m = snap[t][id] /\ b1 = m
  BY <1>0, <1>1, <1>2 DEF Found, Snap1
<1>5. id \notin Primary => m = rec[id]
  BY DEF Found
<1>6. rec[id] # None /\ Behind(m, id) /\ Behind(b1, id) /\ b1.mark \subseteq m.mark
  <2>1. CASE id \in Primary
    BY <1>0, <1>1, <1>2, <1>4, <2>1 DEF Snap1
  <2>2. CASE id \notin Primary /\ b = Unread
    BY <1>1, <1>5, <2>2, EntryFacts DEF Behind
  <2>3. CASE id \notin Primary /\ b # Unread
    BY <1>0, <1>1, <1>2, <1>5, <2>3, EntryFacts DEF Behind, Spec1, Exists
  <2> QED BY <2>1, <2>2, <2>3
<1>7. id \in Shard => id \notin Primary
  BY TxnConstants
<1> HIDE DEF m, b1, b
<1>8. /\ base' \in [Txns -> [Ids -> Memory \cup {Unread}]] /\ view' \in [Txns -> [Ids -> Entries]]
      /\ \A u \in Txns, i \in Ids :
           u # t \/ i # id => base'[u][i] = base[u][i] /\ view'[u][i] = view[u][i]
      /\ base'[t][id] = b1 /\ view'[t][id] = m
  BY <1>0, <1>1, <1>2, <1>3 DEF TypeOK
<1>9. Spec1(t, id)'
  <2>1. rec' = rec /\ b1 # Unread
    BY <1>2, <1>3, EntryFacts
  <2>2. Exists(id) => m.ran \subseteq b1.ran \cup {t} \cup IF id \in Shard THEN rec[id].ran ELSE {}
    BY <1>4, <1>5, <1>7 DEF Ids
  <2>3. Exists(id) => m.mark \subseteq rec[id].mark
    BY <1>6 DEF Behind
  <2> QED BY <1>6, <1>8, <2>1, <2>2, <2>3 DEF Spec1, Behind, Exists
<1>10. Snap1(t, id)'
  <2>1. rec' = rec /\ snap' = snap
    BY <1>2
  <2> QED BY <1>4, <1>6, <1>8, <2>1 DEF Snap1, Behind, Exists
<1>11. pend' \in [Txns -> SUBSET Ids]
  BY <1>0, <1>2 DEF TypeOK
<1> QED BY <1>2, <1>8, <1>9, <1>10, <1>11, PrimitiveInv

LEMMA SpecChangeInv ==
  ASSUME TxnInv, NEW t \in Txns, NEW id \in Ids,
         SpecEdit(t, id) \/ SpecDelete(t, id) \/ SpecCall(t, id) \/ SpecDrop(t, id)
  PROVE  TxnInv'
<1> DEFINE b == base[t][id]  m == view[t][id]
<1>0. TypeOK /\ Spec1(t, id) /\ Snap1(t, id)
  BY Parts DEF Run1
<1>1. /\ stage[t] = "running" /\ Op(t) /\ m \in Memory
      /\ UNCHANGED <<rec, dirty, lane, stage, snap, base, did, history>>
  BY DEF SpecEdit, SpecDelete, SpecCall, SpecDrop
<1>2. b \in Memory /\ b # Unread
  BY <1>0, <1>1, EntryFacts DEF TypeOK, Spec1
<1>3. m.mark \cup {t} \in SUBSET Txns /\ m.ran \cup {t} \in SUBSET Txns
  BY <1>1, RecordFields
<1>4. PICK v \in Entries :
        /\ view' = [view EXCEPT ![t][id] = v]
        /\ v \in Memory => /\ v.mark \in {m.mark, m.mark \cup {t}}
                           /\ v.ran \in {m.ran, m.ran \cup {t}}
  <2>1. CASE SpecEdit(t, id)
    <3>1. view' = [view EXCEPT ![t][id] = [m EXCEPT !.mark = m.mark \cup {t}]]
      BY <2>1 DEF SpecEdit
    <3>2. [m EXCEPT !.mark = m.mark \cup {t}] \in Memory
      BY <1>1, <1>3, RecordFields
    <3>3. /\ [m EXCEPT !.mark = m.mark \cup {t}].mark = m.mark \cup {t}
          /\ [m EXCEPT !.mark = m.mark \cup {t}].ran = m.ran
      BY <1>1, <1>3, RecordFields
    <3> QED BY <3>1, <3>2, <3>3 DEF Entries
  <2>2. CASE SpecDelete(t, id)
    BY <2>2, EntryFacts DEF SpecDelete, Entries
  <2>3. CASE SpecCall(t, id)
    <3>1. view' = [view EXCEPT ![t][id] = [m EXCEPT !.ran = m.ran \cup {t}]]
      BY <2>3 DEF SpecCall
    <3>2. [m EXCEPT !.ran = m.ran \cup {t}] \in Memory
      BY <1>1, <1>3, RecordFields
    <3>3. /\ [m EXCEPT !.ran = m.ran \cup {t}].ran = m.ran \cup {t}
          /\ [m EXCEPT !.ran = m.ran \cup {t}].mark = m.mark
      BY <1>1, <1>3, RecordFields
    <3> QED BY <3>1, <3>2, <3>3 DEF Entries
  <2>4. CASE SpecDrop(t, id)
    BY <2>4, EntryFacts DEF SpecDrop, Entries
  <2> QED BY <2>1, <2>2, <2>3, <2>4
<1>5. /\ base' \in [Txns -> [Ids -> Memory \cup {Unread}]] /\ view' \in [Txns -> [Ids -> Entries]]
      /\ \A u \in Txns, i \in Ids :
           u # t \/ i # id => base'[u][i] = base[u][i] /\ view'[u][i] = view[u][i]
      /\ base'[t][id] = b /\ view'[t][id] = v
  BY <1>0, <1>1, <1>4 DEF TypeOK
<1>6. pend' \in [Txns -> SUBSET Ids]
  <2>1. \/ pend' = [pend EXCEPT ![t] = @ \cup {id}] \/ pend' = [pend EXCEPT ![t] = @ \ {id}]
        \/ pend' = pend
    BY DEF SpecEdit, SpecDelete, SpecCall, SpecDrop
  <2>2. pend \in [Txns -> SUBSET Ids]
    BY <1>0 DEF TypeOK
  <2>3. pend[t] \cup {id} \in SUBSET Ids /\ pend[t] \ {id} \in SUBSET Ids
    BY <2>2
  <2> QED BY <2>1, <2>2, <2>3
<1>7. Spec1(t, id)'
  <2>1. rec' = rec /\ stage' = stage
    BY <1>1
  <2>2. /\ rec[id] # None /\ Behind(b, id) /\ b.mark \subseteq m.mark
        /\ Exists(id) =>
             /\ m.mark \subseteq rec[id].mark \cup {t}
             /\ m.ran \subseteq b.ran \cup {t} \cup IF id \in Shard THEN rec[id].ran ELSE {}
    BY <1>0, <1>1, <1>2 DEF Spec1
  <2> HIDE DEF b, m
  <2>3. v \in Memory =>
          /\ b.mark \subseteq v.mark
          /\ Exists(id) =>
               /\ v.mark \subseteq rec[id].mark \cup {t}
               /\ v.ran \subseteq b.ran \cup {t} \cup IF id \in Shard THEN rec[id].ran ELSE {}
    BY <1>4, <2>2
  <2> QED BY <1>2, <1>5, <2>1, <2>2, <2>3 DEF Spec1, Behind, Exists
<1>8. Snap1(t, id)'
  BY <1>0, <1>1, <1>5 DEF Snap1, Behind, Exists
<1> HIDE DEF b, m
<1> QED BY <1>1, <1>5, <1>6, <1>7, <1>8, PrimitiveInv

LEMMA SpeculateInv ==
  ASSUME TxnInv, NEW t \in Txns, Speculate(t)
  PROVE  TxnInv'
BY SnapshotInv, SnapshotLimitInv, SpecEndsInv, ForbiddenTriedInv, SpecReturnInv,
   SpecReadInv, SpecChangeInv DEF Speculate

-----------------------------------------------------------------------------
(* Commit and the canonical run                                            *)

(* What is said of one request's traces in one record.                     *)
Trace1(u, i) ==
  /\ i \in took[u] \cup called[u] => rec[i] # None
  /\ Exists(i) => /\ i \in took[u] <=> u \in rec[i].mark
                  /\ i \in called[u] <=> u \in rec[i].ran

LEMMA Traces ==
  ASSUME TxnInv
  PROVE  \A u \in Txns, i \in Ids : Trace1(u, i)
BY DEF TxnInv, TypeOK, NoLostUpdate, RunsCounted, NoTrace, CreatedInv, Trace1

LEMMA TracesNext ==
  ASSUME TypeOK', EffectAtMostOnce', \A u \in Txns, i \in Ids : Trace1(u, i)'
  PROVE  Records'
<1>1. \A u \in Txns : took'[u] \in SUBSET Ids /\ called'[u] \in SUBSET Ids
  BY DEF TypeOK
<1>2. NoLostUpdate'
  BY <1>1 DEF NoLostUpdate, Trace1, Exists
<1>3. RunsCounted'
  BY <1>1 DEF RunsCounted, Trace1, Exists
<1>4. NoTrace'
  BY DEF NoTrace, Trace1, Exists
<1>5. CreatedInv'
  BY <1>1 DEF CreatedInv, Trace1
<1> QED BY <1>2, <1>3, <1>4, <1>5 DEF Records

(* commitMu is held by one run at most.                                    *)
LEMMA Sole ==
  ASSUME TxnInv
  PROVE  /\ LaneFree => \A u \in Txns : stage[u] # "canonical"
         /\ \A t \in Txns : InLane(t) => \A u \in Txns \ {t} : stage[u] # "canonical"
BY TxnConstants DEF TxnInv, LaneInv, LaneFree, InLane

(* What a record says of the transactions grows as long as it exists, but  *)
(* for the counter of a record of the core body.                           *)
Grows(i) ==
  /\ rec[i] # None => rec'[i] # None
  /\ rec[i] # None /\ rec'[i] \in Memory =>
       /\ rec[i] \in Memory /\ rec[i].mark \subseteq rec'[i].mark
       /\ i \in Shard => rec[i].ran \subseteq rec'[i].ran

(* Then the speculative runs of the others stay behind it.                 *)
LEMMA OthersBehind ==
  ASSUME TxnInv, NEW u \in Txns, NEW i \in Ids, Grows(i), Private(u), stage'[u] = stage[u]
  PROVE  Spec1(u, i)' /\ Snap1(u, i)'
<1>0. TypeOK /\ Spec1(u, i) /\ Snap1(u, i)
  BY Parts DEF Run1
<1>1. base[u][i] # Unread => base[u][i] \in Memory
  BY <1>0 DEF TypeOK
<1>2. view[u][i] \in Memory => view[u][i] # Unread
  BY EntryFacts
<1>3. Spec1(u, i)'
  BY <1>0, <1>1, <1>2 DEF Spec1, Behind, Exists, Grows, Private
<1>4. Snap1(u, i)'
  BY <1>0 DEF Snap1, Behind, Exists, Grows, Private
<1> QED BY <1>3, <1>4

(* One request takes or leaves the lane, or commits while it is free.      *)
LEMMA TurnInv ==
  ASSUME TxnInv, NEW t \in Txns, Released(t), TypeOK', Records',
         \A u \in Txns \ {t} :
           /\ stage[u] # "canonical" /\ stage'[u] = stage[u]
           /\ took'[u] = took[u] /\ called'[u] = called[u] /\ effects'[u] = effects[u],
         \A i \in Ids : Grows(i),
         stage'[t] \notin {"running", "diffed"}, Lane1(t)', History1(t)'
  PROVE  TxnInv'
<1>0. TypeOK
  BY DEF TxnInv
<1>1. /\ \A u \in Txns \ {t} : Private(u)
      /\ \A id \in Ids : view'[t][id] \notin Memory
  BY <1>0, ReleasedType, EntryFacts
<1>2. ASSUME NEW u \in Txns \ {t} PROVE Lane1(u)' /\ History1(u)'
  BY <1>2, Parts DEF Lane1, History1
<1>3. ASSUME NEW u \in Txns \ {t}, NEW id \in Ids PROVE Run1(u, id)'
  <2>1. Canon1(u, id)'
    BY <1>3 DEF Canon1
  <2> QED BY <1>1, <1>3, <2>1, OthersBehind DEF Run1
<1>4. ASSUME NEW id \in Ids PROVE Run1(t, id)'
  BY <1>1, <1>4 DEF Run1, Spec1, Snap1, Canon1
<1> QED BY <1>2, <1>3, <1>4, PartsNext

(* What the commit makes of a record.                                      *)
LEMMA Merged ==
  ASSUME TxnInv, NEW t \in Txns, stage[t] = "diffed", Valid(t), NEW id \in Ids
  PROVE  /\ Applied(t, id) \in Memory \cup {None, Gone}
         /\ rec[id] \in Memory \cup {None, Gone}
         /\ id \in Changed(t) \cup Deleted(t) \cup Executed(t) => Exists(id)
         /\ id \notin Changed(t) \cup Deleted(t) \cup Executed(t) => Applied(t, id) = rec[id]
         /\ id \in Deleted(t) => Applied(t, id) = Gone
         /\ id \in Changed(t) \cup Executed(t) =>
              /\ Applied(t, id) \in Memory
              /\ Applied(t, id).mark = IF id \in Changed(t) THEN rec[id].mark \cup {t}
                                                            ELSE rec[id].mark
              /\ Applied(t, id).ran = IF id \in Counted(t) THEN rec[id].ran \cup {t}
                                                           ELSE rec[id].ran
<1> DEFINE b == base[t][id]  v == view[t][id]  r == rec[id]
<1>0. TypeOK /\ Spec1(t, id)
  BY Parts DEF Run1
<1>1. b \in Memory \cup {Unread} /\ v \in Entries /\ r \in Memory \cup {None, Gone}
  BY <1>0 DEF TypeOK
<1>2. id \in Changed(t) \cup Deleted(t) \cup Executed(t) => Exists(id)
  BY DEF Valid, SameDigest
<1>3. id \in Changed(t) \cup Executed(t) => id \notin Deleted(t)
  BY DEF Changed, Executed
<1>4. ASSUME id \in Changed(t) \cup Executed(t)
      PROVE  /\ b \in Memory /\ v \in Memory /\ r \in Memory
             /\ b.mark \subseteq v.mark /\ v.mark \subseteq r.mark \cup {t}
             /\ v.ran \subseteq b.ran \cup {t} \cup r.ran
  <2>1. b # Unread /\ v # Gone /\ v # Unread
    BY <1>4 DEF Changed, Executed, Deleted, Baselined
  <2>2. v \in Memory /\ b \in Memory
    BY <1>1, <2>1 DEF Entries
  <2> QED BY <1>0, <1>2, <1>4, <2>2 DEF Spec1, Exists
<1>5. id \in Changed(t) => v.mark # b.mark /\ r.mark = b.mark
  BY DEF Changed, Valid, SameDigest
<1>6. id \in Changed(t) \cup Executed(t) => (id \in Counted(t) <=> t \in v.ran \ b.ran)
  <2>1. id \in Changed(t) \ Executed(t) => v.ran = b.ran
    BY DEF Executed, Changed
  <2>2. id \in Counted(t) <=> id \in Executed(t) /\ t \in v.ran \ b.ran
    BY DEF Counted, Executed
  <2> HIDE DEF b, v
  <2> QED BY <2>1, <2>2
<1>7. Applied(t, id) =
        IF id \in Deleted(t) THEN Gone
        ELSE IF id \in Changed(t) \cup Executed(t)
             THEN [mark |-> IF id \in Changed(t) THEN v.mark ELSE r.mark,
                   ran  |-> r.ran \cup (v.ran \ b.ran)]
             ELSE r
  BY <1>3 DEF Applied
<1> HIDE DEF b, v, r
<1>8. ASSUME id \in Changed(t) \cup Executed(t)
      PROVE  /\ Applied(t, id) \in Memory
             /\ Applied(t, id).mark = IF id \in Changed(t) THEN r.mark \cup {t} ELSE r.mark
             /\ Applied(t, id).ran = IF id \in Counted(t) THEN r.ran \cup {t} ELSE r.ran
  <2> DEFINE ms == IF id \in Changed(t) THEN v.mark ELSE r.mark
             rs == r.ran \cup (v.ran \ b.ran)
  <2>1. ms \in SUBSET Txns /\ rs \in SUBSET Txns
    BY <1>4, <1>8, RecordFields
  <2>2. Applied(t, id) = [mark |-> ms, ran |-> rs]
    BY <1>3, <1>7, <1>8
  <2>3. ms = IF id \in Changed(t) THEN r.mark \cup {t} ELSE r.mark
    BY <1>4, <1>5, <1>8
  <2>4. rs = IF id \in Counted(t) THEN r.ran \cup {t} ELSE r.ran
    BY <1>4, <1>6, <1>8
  <2> HIDE DEF ms, rs
  <2> QED BY <2>1, <2>2, <2>3, <2>4, RecordNew
<1>9. /\ id \in Deleted(t) => Applied(t, id) = Gone
      /\ id \notin Changed(t) \cup Deleted(t) \cup Executed(t) => Applied(t, id) = r
  BY <1>7
<1>10. Applied(t, id) \in Memory \cup {None, Gone}
  BY <1>1, <1>8, <1>9
<1> QED BY <1>1, <1>2, <1>8, <1>9, <1>10 DEF r

LEMMA CommitInv ==
  ASSUME TxnInv, NEW t \in Txns, Commit(t)
  PROVE  TxnInv'
<1> DEFINE C == Changed(t)  D == Deleted(t)  E == Executed(t)  K == Counted(t)
<1>0. TypeOK
  BY DEF TxnInv
<1>1. /\ stage[t] = "diffed" /\ LaneFree /\ Valid(t) /\ Released(t)
      /\ rec' = [id \in Ids |-> Applied(t, id)]
      /\ dirty' = (dirty \cup (C \cap Primary)) \ D
      /\ stage' = [stage EXCEPT ![t] = "committed"]
      /\ took' = [took EXCEPT ![t] = C \cup D] /\ called' = [called EXCEPT ![t] = K]
      /\ UNCHANGED <<lane, did, effects>>
  BY DEF Commit
<1>2. C \in SUBSET Ids /\ D \in SUBSET Ids /\ E \in SUBSET Ids
      /\ C \cap D = {} /\ E \cap D = {} /\ K \subseteq E
  BY DEF Changed, Deleted, Executed, Counted, Baselined
<1>3. rec' \in [Ids -> Memory \cup {None, Gone}]
  BY <1>1, Merged
<1>4. took' \in [Txns -> SUBSET Ids] /\ called' \in [Txns -> SUBSET Ids]
  <2> HIDE DEF C, D, E, K
  <2> QED BY <1>0, <1>1, <1>2 DEF TypeOK
<1>5. dirty' \in SUBSET Ids
  <2> HIDE DEF C, D, E, K
  <2> QED BY <1>0, <1>1, <1>2 DEF TypeOK
<1>6. TypeOK'
  BY <1>0, <1>1, <1>3, <1>4, <1>5, ReleasedType DEF TypeOK, Stages
<1>7. /\ \A u \in Txns \ {t} : stage'[u] = stage[u] /\ took'[u] = took[u] /\ called'[u] = called[u]
      /\ stage'[t] = "committed" /\ took'[t] = C \cup D /\ called'[t] = K
  <2> HIDE DEF C, D, E, K
  <2> QED BY <1>0, <1>1 DEF TypeOK
<1>8. took[t] = {} /\ called[t] = {}
  BY <1>1 DEF TxnInv, HistoryInv
<1>9. ASSUME NEW u \in Txns, NEW i \in Ids PROVE Trace1(u, i)'
  <2>1. Trace1(u, i)
    BY Traces
  <2>2. rec'[i] = Applied(t, i)
    BY <1>1
  <2>3. CASE i \in D
    BY <1>1, <2>2, <2>3, Merged, EntryFacts DEF Trace1, Exists
  <2>4. CASE i \notin C \cup D \cup E
    <3>1. rec'[i] = rec[i]
      BY <1>1, <2>2, <2>4, Merged
    <3>2. i \in took'[u] <=> i \in took[u]
      BY <1>7, <1>8, <2>4
    <3>3. i \in called'[u] <=> i \in called[u]
      BY <1>2, <1>7, <1>8, <2>4
    <3> QED BY <2>1, <3>1, <3>2, <3>3 DEF Trace1, Exists
  <2>5. CASE i \in C \cup E
    <3>1. /\ rec[i] \in Memory /\ rec'[i] \in Memory
          /\ rec'[i].mark = IF i \in C THEN rec[i].mark \cup {t} ELSE rec[i].mark
          /\ rec'[i].ran = IF i \in K THEN rec[i].ran \cup {t} ELSE rec[i].ran
      BY <1>1, <2>2, <2>5, Merged DEF Exists
    <3>2. i \notin D
      BY <1>2, <2>5
    <3> HIDE DEF C, D, E, K
    <3>3. i \in took'[u] <=> u \in rec'[i].mark
      BY <1>7, <1>8, <2>1, <3>1, <3>2 DEF Trace1, Exists
    <3>4. i \in called'[u] <=> u \in rec'[i].ran
      BY <1>7, <1>8, <2>1, <3>1, <3>2 DEF Trace1, Exists
    <3> QED BY <3>1, <3>3, <3>4, EntryFacts DEF Trace1, Exists
  <2> QED BY <2>3, <2>4, <2>5
<1>10. EffectAtMostOnce'
  BY <1>1 DEF TxnInv, EffectAtMostOnce
<1>11. Records'
  BY <1>6, <1>9, <1>10, TracesNext
<1>12. Lane1(t)' /\ History1(t)'
  BY <1>7 DEF Lane1, History1
<1>13. ASSUME NEW i \in Ids PROVE Grows(i)
  <2>1. rec'[i] = Applied(t, i)
    BY <1>1
  <2>2. i \in C \cup D \cup E \/ rec'[i] = rec[i]
    BY <1>1, <2>1, Merged
  <2>3. CASE rec'[i] = rec[i]
    BY <1>0, <2>3, EntryFacts DEF TypeOK, Grows
  <2>4. CASE i \in D
    BY <1>1, <2>1, <2>4, Merged, EntryFacts DEF Grows
  <2>5. CASE i \in C \cup E
    <3>1. /\ rec[i] \in Memory /\ rec'[i] \in Memory
          /\ rec[i].mark \subseteq rec'[i].mark /\ rec[i].ran \subseteq rec'[i].ran
      BY <1>1, <2>1, <2>5, Merged DEF Exists
    <3> QED BY <3>1, EntryFacts DEF Grows
  <2> QED BY <2>2, <2>3, <2>4, <2>5
<1> QED BY <1>1, <1>6, <1>7, <1>11, <1>12, <1>13, Sole, TurnInv

LEMMA CanonicalInv ==
  ASSUME TxnInv, NEW t \in Txns, Canonical(t)
  PROVE  TxnInv'
<1> USE DEF Canonical
<1>0. TypeOK
  BY DEF TxnInv
<1>1. TypeOK'
  BY <1>0, ReleasedType DEF TypeOK, Stages, history
<1>2. Records'
  BY Quiet
<1>3. /\ \A u \in Txns \ {t} : stage'[u] = stage[u]
      /\ stage'[t] = "canonical" /\ did'[t] = FALSE
  BY <1>0 DEF TypeOK
<1>4. Lane1(t)' /\ History1(t)'
  BY <1>3, Parts DEF Lane1, History1, NeedsLane, history
<1>5. \A i \in Ids : Grows(i)
  BY <1>0, EntryFacts DEF Grows, TypeOK
<1> QED BY <1>1, <1>2, <1>3, <1>4, <1>5, Sole, TurnInv DEF history

LEMMA CanonReturnInv ==
  ASSUME TxnInv, NEW t \in Txns, CanonReturn(t)
  PROVE  TxnInv'
<1> USE DEF CanonReturn
<1>0. TypeOK
  BY DEF TxnInv
<1>2. TypeOK'
  BY <1>0, ReleasedType DEF TypeOK, Stages, history
<1>3. Records'
  BY Quiet
<1>4. /\ \A u \in Txns \ {t} : stage'[u] = stage[u]
      /\ stage'[t] = "replayed"
  BY <1>0 DEF TypeOK
<1>5. Lane1(t)' /\ History1(t)'
  BY <1>4 DEF Lane1, History1
<1>6. \A i \in Ids : Grows(i)
  BY <1>0, EntryFacts DEF Grows, TypeOK
<1> QED BY <1>2, <1>3, <1>4, <1>5, <1>6, Sole, TurnInv DEF history

(* A primitive of the canonical run.                                       *)
LEMMA InLaneInv ==
  ASSUME TxnInv, NEW t \in Txns, InLane(t), TypeOK', Records',
         UNCHANGED <<lane, stage, snap, base>>,
         \A u \in Txns \ {t} :
           /\ view'[u] = view[u] /\ did'[u] = did[u]
           /\ took'[u] = took[u] /\ called'[u] \subseteq called[u] /\ effects'[u] = effects[u],
         effects'[t] = IF did'[t] THEN 1 ELSE 0,
         \A i \in Ids : Grows(i),
         \A id \in Ids : Canon1(t, id)'
  PROVE  TxnInv'
<1>1. \A u \in Txns \ {t} : stage[u] # "canonical"
  BY Sole
<1>2. ASSUME NEW u \in Txns PROVE Lane1(u)' /\ History1(u)'
  BY <1>2, Parts DEF Lane1, History1, InLane
<1>3. ASSUME NEW u \in Txns \ {t}, NEW id \in Ids PROVE Run1(u, id)'
  <2>1. Canon1(u, id)'
    BY <1>1, <1>3 DEF Canon1
  <2>2. Private(u) /\ stage'[u] = stage[u]
    BY <1>3 DEF Private
  <2> QED BY <1>3, <2>1, <2>2, OthersBehind DEF Run1
<1>4. ASSUME NEW id \in Ids PROVE Run1(t, id)'
  BY DEF Run1, Spec1, Snap1, InLane
<1> QED BY <1>2, <1>3, <1>4, PartsNext

LEMMA CanonReadInv ==
  ASSUME TxnInv, NEW t \in Txns, NEW id \in Ids, CanonRead(t, id)
  PROVE  TxnInv'
<1> USE DEF CanonRead
<1>0. TypeOK /\ History1(t)
  BY Parts
<1>1. rec[id] \in Memory /\ rec[id] \in Entries
  BY DEF Exists, Entries
<1>2. TypeOK'
  BY <1>0, <1>1 DEF TypeOK, Op, history
<1>3. Records'
  BY Quiet
<1>4. /\ \A u \in Txns \ {t} : view'[u] = view[u]
      /\ \A i \in Ids : view'[t][i] = IF i = id THEN rec[id] ELSE view[t][i]
  BY <1>0 DEF TypeOK
<1>5. \A i \in Ids : Canon1(t, i)'
  BY <1>1, <1>4, Parts DEF Run1, Canon1, SameDigest, Exists
<1>6. effects'[t] = IF did'[t] THEN 1 ELSE 0
  BY <1>0 DEF History1, InLane, history
<1>7. \A i \in Ids : Grows(i)
  BY <1>0, EntryFacts DEF Grows, TypeOK
<1> QED BY <1>2, <1>3, <1>4, <1>5, <1>6, <1>7, InLaneInv DEF history

LEMMA EffectInv ==
  ASSUME TxnInv, NEW t \in Txns, Effect(t)
  PROVE  TxnInv'
<1> USE DEF Effect
<1>0. TypeOK /\ History1(t) /\ Records
  BY Parts
<1>1. TypeOK'
  BY <1>0 DEF TypeOK, Op
<1>2. /\ \A u \in Txns \ {t} : did'[u] = did[u] /\ effects'[u] = effects[u]
      /\ did'[t] = TRUE /\ effects'[t] = effects[t] + 1
  BY <1>0 DEF TypeOK
<1>3. effects[t] = 0
  BY <1>0 DEF History1, InLane
<1>4. EffectAtMostOnce'
  BY <1>0, <1>2, <1>3 DEF Records, EffectAtMostOnce
<1>5. Records'
  BY <1>0, <1>4 DEF Records, NoLostUpdate, RunsCounted, NoTrace, CreatedInv, Exists
<1>6. \A i \in Ids : Canon1(t, i)'
  BY Parts DEF Run1, Canon1, SameDigest, Exists
<1>7. effects'[t] = IF did'[t] THEN 1 ELSE 0
  BY <1>2, <1>3
<1>8. \A i \in Ids : Grows(i)
  BY <1>0, EntryFacts DEF Grows, TypeOK
<1> QED BY <1>1, <1>2, <1>5, <1>6, <1>7, <1>8, InLaneInv

(* A primitive of the canonical run that writes one record: what it writes *)
(* keeps the updates of the others, and their runs or, dropped from the    *)
(* cache, forgets some of them; it adds its own.                           *)
LEMMA WriteInv ==
  ASSUME TxnInv, NEW t \in Txns, NEW id \in Ids, InLane(t), TypeOK',
         UNCHANGED <<lane, stage, snap, base, did, effects>>,
         \A i \in Ids \ {id} : rec'[i] = rec[i],
         \A u \in Txns : \A i \in Ids : u # t \/ i # id =>
           /\ view'[u][i] = view[u][i]
           /\ i \in took'[u] <=> i \in took[u]
           /\ i \in called'[u] => i \in called[u]
           /\ i # id => (i \in called'[u] <=> i \in called[u]),
         Grows(id),
         \A u \in Txns : Trace1(u, id)', Canon1(t, id)'
  PROVE  TxnInv'
<1>0. TypeOK /\ History1(t) /\ Records
  BY Parts
<1>1. ASSUME NEW u \in Txns \ {t}
      PROVE  view'[u] = view[u] /\ took'[u] = took[u] /\ called'[u] \subseteq called[u]
  <2>1. /\ view'[u] \in [Ids -> Entries] /\ view[u] \in [Ids -> Entries]
        /\ took'[u] \in SUBSET Ids /\ took[u] \in SUBSET Ids
        /\ called'[u] \in SUBSET Ids /\ called[u] \in SUBSET Ids
    BY <1>0 DEF TypeOK
  <2>2. view'[u] = view[u]
    BY <2>1
  <2>3. took'[u] = took[u]
    BY <2>1
  <2>4. called'[u] \subseteq called[u]
    BY <2>1
  <2> QED BY <2>2, <2>3, <2>4
<1>2. ASSUME NEW u \in Txns, NEW i \in Ids \ {id} PROVE Trace1(u, i)'
  BY <1>2, Traces DEF Trace1, Exists
<1>3. EffectAtMostOnce'
  BY <1>0 DEF Records, EffectAtMostOnce
<1>4. Records'
  BY <1>2, <1>3, TracesNext
<1>5. ASSUME NEW i \in Ids \ {id} PROVE Canon1(t, i)'
  BY <1>5, Parts DEF Run1, Canon1, SameDigest, Exists
<1>6. effects'[t] = IF did'[t] THEN 1 ELSE 0
  BY <1>0 DEF History1, InLane
<1>7. ASSUME NEW i \in Ids PROVE Grows(i)
  BY <1>0, EntryFacts DEF Grows, TypeOK
<1> QED BY <1>1, <1>4, <1>5, <1>6, <1>7, InLaneInv

LEMMA CanonEditInv ==
  ASSUME TxnInv, NEW t \in Txns, NEW id \in Ids, CanonEdit(t, id)
  PROVE  TxnInv'
<1> DEFINE r == rec[id]  v == view[t][id]  marks == v.mark \cup {t}
           r1 == [r EXCEPT !.mark = marks]  v1 == [v EXCEPT !.mark = marks]
<1>0. TypeOK /\ Canon1(t, id)
  BY Parts DEF Run1
<1>1. /\ InLane(t) /\ Op(t) /\ r \in Memory /\ v \in Memory
      /\ rec' = [rec EXCEPT ![id] = r1] /\ view' = [view EXCEPT ![t][id] = v1]
      /\ dirty' = dirty \cup ({id} \cap Primary)
      /\ took' = [took EXCEPT ![t] = @ \cup {id}]
      /\ UNCHANGED <<lane, stage, snap, base, pend, did, effects, called>>
  BY DEF CanonEdit, Exists
<1>2. r.mark = v.mark
  BY <1>0, <1>1, EntryFacts DEF Canon1, SameDigest, InLane
<1>3. marks \in SUBSET Txns
  BY <1>1, RecordFields
<1>4. /\ r1 \in Memory /\ r1.mark = marks /\ r1.ran = r.ran
      /\ v1 \in Memory /\ v1.mark = marks
  BY <1>1, <1>3, RecordFields
<1> HIDE DEF r1, v1
<1>5. TypeOK'
  BY <1>0, <1>1, <1>4 DEF TypeOK, Op, Entries
<1>6. /\ \A i \in Ids : rec'[i] = IF i = id THEN r1 ELSE rec[i]
      /\ \A u \in Txns, i \in Ids : view'[u][i] = IF u = t /\ i = id THEN v1 ELSE view[u][i]
      /\ \A u \in Txns : took'[u] = IF u = t THEN took[u] \cup {id} ELSE took[u]
  BY <1>0, <1>1 DEF TypeOK
<1>7. ASSUME NEW u \in Txns PROVE Trace1(u, id)'
  <2>1. Trace1(u, id)
    BY Traces
  <2>2. id \in took'[u] <=> u \in rec'[id].mark
    BY <1>1, <1>2, <1>4, <1>6, <2>1 DEF Trace1, Exists
  <2>3. id \in called'[u] <=> u \in rec'[id].ran
    BY <1>1, <1>4, <1>6, <2>1 DEF Trace1, Exists
  <2> QED BY <1>4, <1>6, <2>2, <2>3, EntryFacts DEF Trace1, Exists
<1>8. Canon1(t, id)'
  BY <1>4, <1>6 DEF Canon1, SameDigest, Exists
<1>9. Grows(id)
  BY <1>1, <1>2, <1>4, <1>6, EntryFacts DEF Grows
<1> QED BY <1>1, <1>5, <1>6, <1>7, <1>8, <1>9, WriteInv

LEMMA CanonDeleteInv ==
  ASSUME TxnInv, NEW t \in Txns, NEW id \in Ids, CanonDelete(t, id)
  PROVE  TxnInv'
<1> USE DEF CanonDelete
<1>0. TypeOK
  BY DEF TxnInv
<1>1. TypeOK'
  BY <1>0 DEF TypeOK, Op
<1>2. /\ \A i \in Ids : rec'[i] = IF i = id THEN Gone ELSE rec[i]
      /\ \A u \in Txns : took'[u] = IF u = t THEN took[u] \cup {id} ELSE took[u]
  BY <1>0 DEF TypeOK
<1>3. \A u \in Txns : Trace1(u, id)'
  BY <1>2, EntryFacts DEF Trace1, Exists
<1>4. Canon1(t, id)'
  BY <1>2 DEF Canon1
<1>5. Grows(id)
  BY <1>2, EntryFacts DEF Grows
<1> QED BY <1>1, <1>2, <1>3, <1>4, <1>5, WriteInv

LEMMA CanonCallInv ==
  ASSUME TxnInv, NEW t \in Txns, NEW id \in Ids, CanonCall(t, id)
  PROVE  TxnInv'
<1> DEFINE r == rec[id]  r1 == [r EXCEPT !.ran = r.ran \cup {t}]
<1>0. TypeOK /\ Canon1(t, id)
  BY Parts DEF Run1
<1>1. /\ InLane(t) /\ Op(t) /\ r \in Memory /\ rec' = [rec EXCEPT ![id] = r1]
      /\ called' = [called EXCEPT ![t] = @ \cup {id}]
      /\ UNCHANGED <<dirty, lane, stage, snap, base, view, pend, did, effects, took>>
  BY DEF CanonCall, Exists
<1>2. r.ran \cup {t} \in SUBSET Txns
  BY <1>1, RecordFields
<1>3. r1 \in Memory /\ r1.ran = r.ran \cup {t} /\ r1.mark = r.mark
  BY <1>1, <1>2, RecordFields
<1> HIDE DEF r1
<1>4. TypeOK'
  BY <1>0, <1>1, <1>3 DEF TypeOK, Op
<1>5. /\ \A i \in Ids : rec'[i] = IF i = id THEN r1 ELSE rec[i]
      /\ \A u \in Txns : called'[u] = IF u = t THEN called[u] \cup {id} ELSE called[u]
  BY <1>0, <1>1 DEF TypeOK
<1>6. ASSUME NEW u \in Txns PROVE Trace1(u, id)'
  <2>1. Trace1(u, id)
    BY Traces
  <2>2. id \in took'[u] <=> u \in rec'[id].mark
    BY <1>1, <1>3, <1>5, <2>1 DEF Trace1, Exists
  <2>3. id \in called'[u] <=> u \in rec'[id].ran
    BY <1>1, <1>3, <1>5, <2>1 DEF Trace1, Exists
  <2> QED BY <1>3, <1>5, <2>2, <2>3, EntryFacts DEF Trace1, Exists
<1>7. Canon1(t, id)'
  BY <1>0, <1>1, <1>3, <1>5, EntryFacts DEF Canon1, SameDigest, Exists
<1>8. Grows(id)
  BY <1>1, <1>3, <1>5, EntryFacts DEF Grows
<1> QED BY <1>1, <1>4, <1>5, <1>6, <1>7, <1>8, WriteInv

LEMMA CanonDropInv ==
  ASSUME TxnInv, NEW t \in Txns, NEW id \in Ids, CanonDrop(t, id)
  PROVE  TxnInv'
<1> DEFINE r == rec[id]
<1>0. TypeOK /\ Canon1(t, id)
  BY Parts DEF Run1
<1>1. PICK w \in SUBSET r.ran :
        /\ rec' = [rec EXCEPT ![id] = [r EXCEPT !.ran = w]]
        /\ called' = [u \in Txns |-> IF u \in w THEN called[u] ELSE called[u] \ {id}]
  BY DEF CanonDrop
<1> DEFINE r1 == [r EXCEPT !.ran = w]
<1>2. /\ InLane(t) /\ Op(t) /\ r \in Memory /\ id \in Primary /\ rec' = [rec EXCEPT ![id] = r1]
      /\ UNCHANGED <<dirty, lane, stage, snap, base, view, pend, did, effects, took>>
  BY <1>1 DEF CanonDrop, Exists
<1>3. w \in SUBSET Txns
  BY <1>2, RecordFields
<1>4. r1 \in Memory /\ r1.ran = w /\ r1.mark = r.mark
  BY <1>2, <1>3, RecordFields
<1> HIDE DEF r1
<1>5. /\ \A i \in Ids : rec'[i] = IF i = id THEN r1 ELSE rec[i]
      /\ \A u \in Txns : called'[u] = IF u \in w THEN called[u] ELSE called[u] \ {id}
  BY <1>0, <1>1, <1>2 DEF TypeOK
<1>6. TypeOK'
  <2>1. called' \in [Txns -> SUBSET Ids]
    BY <1>0, <1>1 DEF TypeOK
  <2>2. rec' \in [Ids -> Memory \cup {None, Gone}]
    BY <1>0, <1>2, <1>4 DEF TypeOK
  <2>3. ops' \in [Txns -> Nat]
    BY <1>0, <1>2 DEF TypeOK, Op
  <2> QED BY <1>0, <1>2, <2>1, <2>2, <2>3 DEF TypeOK
<1>7. ASSUME NEW u \in Txns PROVE Trace1(u, id)'
  <2>1. Trace1(u, id)
    BY Traces
  <2>2. id \in took'[u] <=> u \in rec'[id].mark
    BY <1>2, <1>4, <1>5, <2>1 DEF Trace1, Exists
  <2>3. id \in called'[u] <=> u \in rec'[id].ran
    BY <1>1, <1>2, <1>4, <1>5, <2>1 DEF Trace1, Exists
  <2> QED BY <1>4, <1>5, <2>2, <2>3, EntryFacts DEF Trace1, Exists
<1>8. Canon1(t, id)'
  BY <1>0, <1>2, <1>4, <1>5, EntryFacts DEF Canon1, SameDigest, Exists
<1>9. Grows(id)
  BY <1>2, <1>4, <1>5, EntryFacts, TxnConstants DEF Grows
<1> HIDE DEF r
<1> QED BY <1>2, <1>5, <1>6, <1>7, <1>8, <1>9, WriteInv

LEMMA CanonNewInv ==
  ASSUME TxnInv, NEW t \in Txns, NEW id \in Ids, CanonNew(t, id)
  PROVE  TxnInv'
<1> DEFINE r1 == [mark |-> {t}, ran |-> {}]
<1>0. TypeOK /\ Canon1(t, id)
  BY Parts DEF Run1
<1>1. /\ InLane(t) /\ Op(t) /\ rec[id] = None /\ rec' = [rec EXCEPT ![id] = r1]
      /\ dirty' = dirty \cup ({id} \cap Primary)
      /\ took' = [took EXCEPT ![t] = @ \cup {id}]
      /\ UNCHANGED <<lane, stage, snap, base, view, pend, did, effects, called>>
  BY DEF CanonNew
<1>2. r1 \in Memory /\ r1.mark = {t} /\ r1.ran = {}
  BY RecordNew
<1> HIDE DEF r1
<1>3. TypeOK'
  BY <1>0, <1>1, <1>2 DEF TypeOK, Op
<1>4. /\ \A i \in Ids : rec'[i] = IF i = id THEN r1 ELSE rec[i]
      /\ \A u \in Txns : took'[u] = IF u = t THEN took[u] \cup {id} ELSE took[u]
  BY <1>0, <1>1 DEF TypeOK
<1>5. ASSUME NEW u \in Txns PROVE Trace1(u, id)'
  <2>1. id \notin took[u] /\ id \notin called[u]
    BY <1>1, Traces DEF Trace1
  <2> QED BY <1>1, <1>2, <1>4, <2>1, EntryFacts DEF Trace1, Exists
<1>6. Canon1(t, id)'
  BY <1>0, <1>1, EntryFacts DEF Canon1, SameDigest, Exists, InLane
<1>7. Grows(id)
  BY <1>1, <1>2, <1>4, EntryFacts DEF Grows
<1> QED BY <1>1, <1>3, <1>4, <1>5, <1>6, <1>7, WriteInv

(* Saving the body touches neither records nor requests.                   *)
LEMMA PersistInv ==
  ASSUME TxnInv, NEW id \in Ids, Persist(id)
  PROVE  TxnInv'
<1> USE DEF Persist, runVars
<1>1. TypeOK'
  BY DEF TxnInv, TypeOK, history
<1>2. Records'
  BY Quiet
<1>3. \A t \in Txns : Lane1(t)' /\ History1(t)'
  BY Parts DEF Lane1, History1, history
<1>4. \A t \in Txns, i \in Ids : Run1(t, i)'
  BY Parts DEF Run1, Spec1, Snap1, Canon1, SameDigest, Exists, Behind
<1> QED BY <1>1, <1>2, <1>3, <1>4, PartsNext

LEMMA StutterInv == TxnInv /\ UNCHANGED vars => TxnInv'
<1> SUFFICES ASSUME TxnInv, UNCHANGED vars PROVE TxnInv'
  OBVIOUS
<1> USE DEF vars
<1>1. TypeOK' /\ Records'
  BY Quiet DEF TxnInv, TypeOK, history
<1>2. \A t \in Txns : Lane1(t)' /\ History1(t)'
  BY Parts DEF Lane1, History1
<1>3. \A t \in Txns, i \in Ids : Run1(t, i)'
  BY Parts DEF Run1, Spec1, Snap1, Canon1, SameDigest, Exists, Behind
<1> QED BY <1>1, <1>2, <1>3, PartsNext

LEMMA StepInv == TxnInv /\ [Next]_vars => TxnInv'
<1> SUFFICES ASSUME TxnInv, [Next]_vars PROVE TxnInv'
  OBVIOUS
<1>1. ASSUME NEW t \in Txns, Replay(t) PROVE TxnInv'
  BY <1>1, CanonReadInv, CanonEditInv, CanonDeleteInv, CanonCallInv, CanonDropInv, CanonNewInv,
     EffectInv, CanonReturnInv DEF Replay
<1>2. ASSUME NEW t \in Txns, Run(t) PROVE TxnInv'
  BY <1>1, <1>2, SpeculateInv, CommitInv, CanonicalInv DEF Run
<1> QED BY <1>2, PersistInv, StutterInv DEF Next

-----------------------------------------------------------------------------
(* txnScheduler.run keeps the inductive invariant: a speculative copy      *)
(* differs from its baseline only by the request's own update and run, and *)
(* what a canonical run has read changes under nobody else's hand.         *)
THEOREM TransactionInvariant == Spec => []TxnInv
BY InitInv, StepInv, PTL DEF Spec

(* commitFabricSnapshotDiff and the canonical lane lose no update: a       *)
(* record that exists has the mark of every request that changed it.       *)
THEOREM UpdatesKept == Spec => []NoLostUpdate
<1>1. TxnInv => NoLostUpdate
  BY DEF TxnInv
<1> QED BY <1>1, TransactionInvariant, PTL

(* applySpeculativeExecPlanLocked merges the execution counters: no run of *)
(* a record is forgotten.                                                  *)
THEOREM RunsKept == Spec => []RunsCounted
<1>1. TxnInv => RunsCounted
  BY DEF TxnInv
<1> QED BY <1>1, TransactionInvariant, PTL

(* A speculative run that is dropped, replayed or fails leaves nothing in  *)
(* the records of the Fabric.                                              *)
THEOREM SpeculationLeavesNoTrace == Spec => []NoTrace
<1>1. TxnInv => NoTrace
  BY DEF TxnInv
<1> QED BY <1>1, TransactionInvariant, PTL

(* execPrimitive refuses effects in a speculative run, and a request has   *)
(* one canonical run: an external effect happens at most once.             *)
THEOREM EffectsOnce == Spec => []EffectAtMostOnce
<1>1. TxnInv => EffectAtMostOnce
  BY DEF TxnInv
<1> QED BY <1>1, TransactionInvariant, PTL
=============================================================================
