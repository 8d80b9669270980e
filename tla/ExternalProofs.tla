--------------------------- MODULE ExternalProofs ---------------------------
(***************************************************************************)
(* Theorems about requests that leave the kernel.                          *)
(*                                                                         *)
(* ExternalIO: the inductive invariant IOInv, and from it that the source  *)
(* is called at most once for a request, that a request is done only when  *)
(* its response was handled, and that a response on disk is never lost.    *)
(* StorageNode: the inductive invariant NodeInv, and from it that one      *)
(* connection at a time works on the body, that a body is never both       *)
(* mounted and open, and that records change by compare-and-swap, for any  *)
(* number of clients, connections and lock entries.                        *)
(***************************************************************************)
EXTENDS ExternalIO, StorageNode, TLAPS

----------------------------------------------------------------------------
(* ExternalIO *)

(* Marking a record changes its status and nothing else. *)
LEMMA MarkedRecord ==
  ASSUME NEW r \in Records, NEW s \in Statuses
  PROVE  /\ Marked(r, s) \in Records
         /\ Marked(r, s).status = s /\ Marked(r, s).fields = r.fields
BY DEF Marked, Records

(* The initial state satisfies the invariant. *)
LEMMA InitInv == Init => IOInv
<1> SUFFICES ASSUME Init PROVE IOInv
  OBVIOUS
<1> USE DEF Init
<1>1. Absent \in Records /\ Absent.status = "absent"
  BY DEF Absent, Records, Statuses
<1>2. TypeOK
  BY <1>1, IOConstants DEF TypeOK
<1>3. RecordInv
  BY <1>1 DEF RecordInv, EffectAtMostOnce, Says
<1>4. ListInv /\ StepInv
  BY DEF ListInv, StepInv
<1> QED BY <1>2, <1>3, <1>4 DEF IOInv

(* Records stay what they say while body and history do not change. *)
LEMMA RecordFrame ==
  ASSUME RecordInv, UNCHANGED <<bodyVars, author, historyVars>>
  PROVE  RecordInv'
BY DEF RecordInv, EffectAtMostOnce, Says, bodyVars, historyVars

(* A program changes the fields of its request, or creates it. *)
LEMMA ChangedInv ==
  ASSUME IOInv, NEW id \in Ids, NEW r \in Records,
         Changed(id, r), Says(id, r),
         \/ r.status = request[id].status
         \/ author[id] = "new" /\ r.status = "pending",
         UNCHANGED <<executorVars, restarts, historyVars>>,
         author' \in [Ids -> {"new", "finished"} \cup Fields],
         pointer' \in [Ids -> {"none", "cached", "replaced"}],
         author'[id] # "new",
         \A i \in Ids : author'[i] = "new" => author[i] = "new"
  PROVE  IOInv'
<1> USE DEF IOInv, executorVars, historyVars
<1>1. /\ request' = [request EXCEPT ![id] = r]
      /\ requestBack' = [requestBack EXCEPT ![id] = @ \cup {r}]
  BY DEF Changed
<1>2. TypeOK'
  BY <1>1 DEF TypeOK
<1>3. RecordInv'
  BY <1>1 DEF RecordInv, EffectAtMostOnce, Says, TypeOK
<1>4. author[id] = "new" => request[id].status = "absent"
  BY DEF RecordInv, Absent
<1>5. \A i \in Ids : \/ request'[i].status = request[i].status
                     \/ i = id /\ request[i].status = "absent"
  BY <1>1, <1>4 DEF TypeOK
<1>6. ListInv'
  BY <1>5 DEF ListInv, ListedIn, WithStatus, TypeOK
<1>7. StepInv'
  <2>1. step # "next" => cur \in Ids
    BY DEF ListInv
  <2>2. step # "next" => request'[cur].status = request[cur].status
    <3>1. step # "next" => request[cur].status # "absent"
      BY <2>1 DEF StepInv, Moves, RecordInv, TypeOK
    <3> QED BY <1>5, <2>1, <3>1
  <2>3. step = "call" => \A q \in requestBack'[cur] : q.status = "executing"
    <3>1. step = "call" => request[cur].status = "executing"
      BY <2>1 DEF StepInv, RecordInv
    <3>2. step = "call" /\ cur = id => r.status = "executing"
      BY <1>4, <3>1
    <3> QED BY <1>1, <2>1, <3>2 DEF StepInv, TypeOK
  <2> QED BY <2>1, <2>2, <2>3 DEF StepInv, Says
<1> QED BY <1>2, <1>3, <1>6, <1>7

(* memory_new and state_set *)
LEMMA AuthorInv ==
  ASSUME IOInv, NEW id \in Ids, Author(id)
  PROVE  IOInv'
<1> USE DEF IOInv
<1>1. CASE MemoryNew(id)
  <2> DEFINE r == [status |-> "pending", fields |-> {}]
  <2>1. r \in Records /\ r.status = "pending"
    BY DEF Records, Statuses
  <2>2. effects[id] = 0
    BY <1>1 DEF MemoryNew, RecordInv, Says, Absent
  <2>3. Says(id, r)
    BY <2>1, <2>2 DEF Says
  <2>4. /\ Changed(id, r) /\ author[id] = "new"
        /\ author' = [author EXCEPT ![id] = "source_adapter_id"]
        /\ UNCHANGED <<pointer, executorVars, restarts, historyVars>>
    BY <1>1 DEF MemoryNew
  <2> HIDE DEF r
  <2>5. /\ author' \in [Ids -> {"new", "finished"} \cup Fields]
        /\ pointer' \in [Ids -> {"none", "cached", "replaced"}]
        /\ author'[id] # "new" /\ \A i \in Ids : author'[i] = "new" => author[i] = "new"
    BY <2>4 DEF TypeOK, Fields
  <2> QED BY <2>1, <2>3, <2>4, <2>5, ChangedInv
<1>2. CASE StateSetResolve(id)
  <2> USE <1>2 DEF StateSetResolve, bodyVars, executorVars, historyVars
  <2>1. TypeOK'
    BY DEF TypeOK
  <2>2. RecordInv'
    BY RecordFrame
  <2>3. ListInv' /\ StepInv'
    BY DEF ListInv, ListedIn, WithStatus, StepInv, Says
  <2> QED BY <2>1, <2>2, <2>3
<1>3. CASE StateSet(id)
  <2> DEFINE r == [request[id] EXCEPT !.fields = @ \cup {author[id]}]
  <2>1. /\ author[id] \in Fields /\ request[id] \in Records
        /\ pointer' = [pointer EXCEPT ![id] = "none"]
        /\ author' = [author EXCEPT ![id] =
                        IF @ = "source_adapter_id" THEN "response_event" ELSE "finished"]
        /\ UNCHANGED <<executorVars, restarts, historyVars>>
    BY <1>3 DEF StateSet, TypeOK
  <2>2. /\ r \in Records /\ r.status = request[id].status
        /\ r.fields = request[id].fields \cup {author[id]}
    BY <2>1 DEF Records
  <2>3. Says(id, r)
    BY <2>1, <2>2 DEF RecordInv, Says
  <2>4. /\ author' \in [Ids -> {"new", "finished"} \cup Fields]
        /\ pointer' \in [Ids -> {"none", "cached", "replaced"}]
        /\ author'[id] # "new" /\ \A i \in Ids : author'[i] = "new" => author[i] = "new"
    BY <2>1 DEF TypeOK, Fields
  <2> HIDE DEF r
  <2>5. CASE Changed(id, r)
    BY <2>1, <2>2, <2>3, <2>4, <2>5, ChangedInv
  <2>6. CASE UNCHANGED bodyVars
    <3> USE <2>1, <2>6 DEF bodyVars, executorVars, historyVars
    <3>1. TypeOK'
      BY <2>4 DEF TypeOK
    <3>2. RecordInv'
      BY <2>4 DEF RecordInv, EffectAtMostOnce, Says
    <3>3. ListInv' /\ StepInv'
      BY DEF ListInv, ListedIn, WithStatus, StepInv, Says
    <3> QED BY <3>1, <3>2, <3>3
  <2>7. Changed(id, r) \/ UNCHANGED bodyVars
    BY <1>3 DEF StateSet, r
  <2> QED BY <2>5, <2>6, <2>7
<1> QED BY <1>1, <1>2, <1>3 DEF Author

(* The pass goes from phase to phase. *)
LEMMA PhaseInv == IOInv /\ (Tick \/ NextPhase) => IOInv'
<1> SUFFICES ASSUME IOInv, Tick \/ NextPhase PROVE IOInv'
  OBVIOUS
<1> USE DEF IOInv
<1>1. /\ step = "next" /\ UNCHANGED <<step, cur, copy, request, requestBack>>
      /\ UNCHANGED <<author, pointer, restarts, effects, delivered>>
  BY DEF Tick, NextPhase, ListInv, bodyVars, authorVars, historyVars
<1>2. \/ phase' = "idle" /\ todo' = {}
      \/ /\ phase' \in {"quarantine", "response", "pending"}
         /\ todo' \subseteq ListedIn(phase') /\ todo' \subseteq Ids
  <2>1. \A p \in {"quarantine", "response", "pending"} : Begin(p) =>
          phase' = p /\ todo' \subseteq ListedIn(p) /\ todo' \subseteq Ids
    BY DEF Begin, ListedIn, WithStatus
  <2> QED BY <2>1 DEF Tick, NextPhase
<1>3. TypeOK'
  BY <1>1, <1>2 DEF TypeOK
<1>4. RecordInv'
  BY <1>1, RecordFrame DEF bodyVars, historyVars
<1>5. ListInv'
  BY <1>1, <1>2 DEF ListInv, ListedIn, WithStatus
<1>6. StepInv'
  BY <1>1 DEF StepInv
<1> QED BY <1>3, <1>4, <1>5, <1>6

(* A request is taken from the list, or dropped from it. *)
LEMMA TakeInv ==
  ASSUME IOInv, NEW id \in Ids,
         Unreadable(id) \/ Quarantine(id) \/ Redeliver(id) \/ Execute(id)
  PROVE  IOInv'
<1> USE DEF IOInv
<1>1. /\ step = "next" /\ id \in todo /\ todo' = todo \ {id} /\ phase # "idle"
      /\ UNCHANGED <<phase, request, requestBack, author, pointer, restarts, effects, delivered>>
  BY DEF Unreadable, Quarantine, Redeliver, Execute, Taken, ListInv,
         bodyVars, authorVars, historyVars
<1>2. RecordInv'
  BY <1>1, RecordFrame DEF bodyVars, historyVars
<1>3. request[id] \in Records /\ Says(id, request[id])
  BY DEF TypeOK, RecordInv
<1>4. request[id].status = CASE phase = "quarantine" -> "executing"
                             [] phase = "response" -> "response-ready"
                             [] phase = "pending" -> "pending"
  BY <1>1 DEF ListInv, ListedIn, WithStatus, TypeOK
<1>5. CASE Unreadable(id)
  <2>1. UNCHANGED <<step, cur, copy>>
    BY <1>5 DEF Unreadable
  <2> QED BY <1>1, <1>2, <2>1 DEF TypeOK, ListInv, ListedIn, WithStatus, StepInv
<1>6. ASSUME NEW s \in {"ambiguous", "executing", "failed"},
             cur' = id, copy' = Marked(request[id], s), step' = "write",
             <<request[id].status, s>> \in Moves,
             s = "executing" => request[id].fields = Fields
      PROVE  IOInv'
  <2>1. /\ copy' \in Records /\ copy'.status = s /\ copy'.fields = request[id].fields
    BY <1>3, <1>6, MarkedRecord DEF Statuses
  <2>2. TypeOK' /\ ListInv'
    BY <1>1, <1>6, <2>1 DEF TypeOK, ListInv, ListedIn, WithStatus
  <2>3. s = "executing" => effects[id] = 0
    BY <1>3, <1>6 DEF Moves, Says
  <2>4. StepInv'
    BY <1>1, <1>6, <2>1, <2>3 DEF StepInv, Says
  <2> QED BY <1>2, <2>2, <2>4
<1>7. CASE Quarantine(id)
  BY <1>4, <1>6, <1>7 DEF Quarantine, Moves
<1>8. CASE Execute(id)
  BY <1>4, <1>6, <1>8 DEF Execute, Moves
<1>9. CASE Redeliver(id)
  <2>1. cur' = id /\ copy' = request[id] /\ step' = "deliver"
        /\ request[id].status = "response-ready"
    BY <1>4, <1>9 DEF Redeliver
  <2>2. TypeOK' /\ ListInv'
    BY <1>1, <1>3, <2>1 DEF TypeOK, ListInv, ListedIn, WithStatus
  <2>3. StepInv'
    BY <1>1, <1>3, <2>1 DEF StepInv, Says
  <2> QED BY <1>2, <2>2, <2>3
<1> QED BY <1>5, <1>7, <1>8, <1>9

(* The record of the request being processed is replaced: the other       *)
(* listed ones keep theirs.                                               *)
LEMMA ReplacedInv ==
  ASSUME IOInv, step = "write", Replaced,
         UNCHANGED <<phase, todo, author, restarts, historyVars>>,
         \/ requestBack' = [id \in Ids |-> {request'[id]}]
         \/ requestBack' = [requestBack EXCEPT ![cur] = @ \cup {copy}]
  PROVE  /\ cur \in Ids /\ request'[cur] = copy
         /\ request' \in [Ids -> Records] /\ requestBack' \in [Ids -> SUBSET Records]
         /\ pointer' \in [Ids -> {"none", "cached", "replaced"}]
         /\ RecordInv'
         /\ phase # "idle" /\ todo \subseteq (Ids \ {cur})
         /\ todo' \subseteq ListedIn(phase)'
<1> USE DEF IOInv, historyVars
<1>1. cur \in Ids \ todo /\ phase # "idle" /\ todo \subseteq Ids /\ copy \in Records
  BY DEF ListInv, TypeOK
<1>2. /\ request' = [request EXCEPT ![cur] = copy]
      /\ pointer' = [pointer EXCEPT ![cur] = IF @ = "cached" THEN "replaced" ELSE @]
  BY DEF Replaced
<1>3. /\ request' \in [Ids -> Records] /\ requestBack' \in [Ids -> SUBSET Records]
      /\ pointer' \in [Ids -> {"none", "cached", "replaced"}]
      /\ request'[cur] = copy
  BY <1>1, <1>2 DEF TypeOK
<1>4. Says(cur, copy) /\ request[cur].status # "absent"
  BY DEF StepInv, Moves
<1>5. author[cur] # "new"
  BY <1>1, <1>4 DEF RecordInv, Absent
<1>6. RecordInv'
  <2>1. \A id \in Ids : request'[id] \in requestBack'[id]
    BY <1>1, <1>2, <1>3 DEF RecordInv, TypeOK
  <2>2. \A id \in Ids : \A r \in requestBack'[id] :
          r \in requestBack[id] \/ (id = cur /\ r = copy)
    BY <1>1, <1>2, <1>3 DEF RecordInv, TypeOK
  <2>3. \A id \in Ids : \A r \in requestBack'[id] : Says(id, r)'
    BY <1>4, <2>2 DEF RecordInv, Says
  <2>4. \A id \in Ids : author'[id] = "new" => requestBack'[id] = {Absent}
    <3> SUFFICES ASSUME NEW id \in Ids, author'[id] = "new" PROVE requestBack'[id] = {Absent}
      OBVIOUS
    <3>1. id # cur /\ requestBack[id] = {Absent}
      BY <1>5 DEF RecordInv
    <3>2. requestBack'[id] \subseteq {Absent} /\ request'[id] \in requestBack'[id]
      BY <2>1, <2>2, <3>1
    <3> QED BY <3>2
  <2> QED BY <2>1, <2>3, <2>4 DEF RecordInv, EffectAtMostOnce
<1>7. todo' \subseteq ListedIn(phase)'
  <2>1. \A id \in todo : request'[id] = request[id]
    BY <1>1, <1>2 DEF TypeOK
  <2> QED BY <1>1, <2>1 DEF ListInv, ListedIn, WithStatus, TypeOK
<1> QED BY <1>1, <1>3, <1>6, <1>7

(* A pass that goes on to the next request. *)
LEMMA ResumeInv ==
  ASSUME Resume PROVE StepInv' /\ step' = "next" /\ cur' = NoId /\ copy' \in Records
BY DEF Resume, StepInv, Absent, Records, Statuses

(* The write of a record, with each of its outcomes. *)
LEMMA WriteInv == IOInv /\ (Write \/ PersistFails \/ UpsertFails) => IOInv'
<1> SUFFICES ASSUME IOInv, Write \/ PersistFails \/ UpsertFails PROVE IOInv'
  OBVIOUS
<1> USE DEF IOInv
<1>1. CASE UpsertFails
  <2>1. /\ step = "write" /\ Resume
        /\ UNCHANGED <<phase, todo, request, requestBack, author, pointer, restarts, effects, delivered>>
    BY <1>1 DEF UpsertFails, bodyVars, authorVars, historyVars
  <2>2. RecordInv'
    BY <2>1, RecordFrame DEF bodyVars, historyVars
  <2>3. TypeOK' /\ ListInv'
    BY <2>1, ResumeInv DEF TypeOK, ListInv, ListedIn, WithStatus
  <2> QED BY <2>1, <2>2, <2>3, ResumeInv
<1>2. CASE PersistFails
  <2>1. /\ step = "write" /\ Resume /\ Replaced
        /\ UNCHANGED <<phase, todo, author, restarts, historyVars>>
        /\ requestBack' = [requestBack EXCEPT ![cur] = @ \cup {copy}]
    BY <1>2 DEF PersistFails
  <2>2. RecordInv' /\ todo' \subseteq ListedIn(phase)' /\ phase # "idle"
        /\ request' \in [Ids -> Records] /\ requestBack' \in [Ids -> SUBSET Records]
        /\ pointer' \in [Ids -> {"none", "cached", "replaced"}]
    BY <2>1, ReplacedInv
  <2>3. TypeOK'
    BY <2>1, <2>2, ResumeInv DEF TypeOK, historyVars
  <2>4. ListInv'
    BY <2>1, <2>2, ResumeInv DEF ListInv, ListedIn, WithStatus
  <2> QED BY <2>1, <2>2, <2>3, <2>4, ResumeInv
<1>3. CASE Write
  <2>1. /\ step = "write" /\ AfterWrite /\ Replaced
        /\ UNCHANGED <<phase, todo, author, restarts, historyVars>>
        /\ requestBack' = [id \in Ids |-> {request'[id]}]
    BY <1>3 DEF Write
  <2>2. /\ RecordInv' /\ todo' \subseteq ListedIn(phase)' /\ phase # "idle"
        /\ todo \subseteq (Ids \ {cur})
        /\ request' \in [Ids -> Records] /\ requestBack' \in [Ids -> SUBSET Records]
        /\ pointer' \in [Ids -> {"none", "cached", "replaced"}]
        /\ cur \in Ids /\ request'[cur] = copy
    BY <2>1, ReplacedInv
  <2>3. CASE Resume
    <3>1. TypeOK'
      BY <2>1, <2>2, <2>3, ResumeInv DEF TypeOK, historyVars
    <3>2. ListInv'
      BY <2>1, <2>2, <2>3, ResumeInv DEF ListInv, ListedIn, WithStatus
    <3> QED BY <2>2, <2>3, <3>1, <3>2, ResumeInv
  <2>4. CASE /\ UNCHANGED <<cur, copy>>
             /\ \/ step' = "call" /\ copy.status = "executing"
                \/ step' = "deliver" /\ copy.status = "response-ready"
    <3>1. TypeOK'
      BY <2>1, <2>2, <2>4 DEF TypeOK, historyVars
    <3>2. ListInv'
      BY <2>1, <2>2, <2>4 DEF ListInv, ListedIn, WithStatus
    <3>3. Says(cur, copy) /\ (copy.status = "executing" => effects[cur] = 0 /\ copy.fields = Fields)
      BY <2>1 DEF StepInv
    <3>4. StepInv'
      BY <2>1, <2>2, <2>4, <3>3 DEF StepInv, Says, historyVars
    <3> QED BY <2>2, <3>1, <3>2, <3>4
  <2> QED BY <2>1, <2>3, <2>4 DEF AfterWrite
<1> QED BY <1>1, <1>2, <1>3

(* The source is called, after the request was durably marked. *)
LEMMA CallInv == IOInv /\ Call => IOInv'
<1> SUFFICES ASSUME IOInv, Call PROVE IOInv'
  OBVIOUS
<1> USE DEF IOInv
<1>1. /\ step = "call" /\ step' = "write" /\ cur \in Ids /\ effects[cur] = 0
      /\ copy \in Records /\ copy.status = "executing" /\ copy.fields = Fields
      /\ UNCHANGED <<phase, todo, cur, request, requestBack, author, pointer, restarts, delivered>>
  BY DEF Call, StepInv, ListInv, TypeOK, bodyVars, authorVars
<1>2. PICK s \in {"response-ready", "failed"} :
        /\ copy' = Marked(copy, s)
        /\ \/ effects' = [effects EXCEPT ![cur] = @ + 1]
           \/ s = "failed" /\ effects' = effects
  BY DEF Call
<1>3. copy' \in Records /\ copy'.status = s /\ copy'.fields = Fields
  BY <1>1, <1>2, MarkedRecord DEF Statuses
<1>4. /\ effects' \in [Ids -> Nat]
      /\ \A id \in Ids : id # cur => effects'[id] = effects[id]
      /\ effects'[cur] <= 1 /\ (s = "response-ready" => effects'[cur] = 1)
  BY <1>1, <1>2 DEF TypeOK
<1>5. TypeOK' /\ ListInv'
  BY <1>1, <1>3, <1>4 DEF TypeOK, ListInv, ListedIn, WithStatus
<1>6. \A r \in requestBack[cur] : r.status = "executing"
  BY <1>1 DEF StepInv
<1>7. RecordInv'
  <2>1. \A id \in Ids : \A r \in requestBack[id] : Says(id, r)'
    BY <1>1, <1>4, <1>6 DEF RecordInv, Says
  <2> QED BY <1>1, <1>4, <2>1 DEF RecordInv, EffectAtMostOnce
<1>8. request[cur].status = "executing"
  BY <1>1, <1>6 DEF RecordInv
<1>9. StepInv'
  BY <1>1, <1>3, <1>4, <1>8 DEF StepInv, Moves, Says
<1> QED BY <1>5, <1>7, <1>9

(* The response is delivered, or a handler fails. *)
LEMMA DeliverInv == IOInv /\ (Deliver \/ DeliverFails) => IOInv'
<1> SUFFICES ASSUME IOInv, Deliver \/ DeliverFails PROVE IOInv'
  OBVIOUS
<1> USE DEF IOInv
<1>1. /\ step = "deliver" /\ cur \in Ids /\ copy \in Records /\ request[cur] \in Records
      /\ request[cur].status = "response-ready"
      /\ effects[cur] = 1
      /\ UNCHANGED <<phase, todo, request, requestBack, author, pointer, restarts, effects>>
  BY DEF Deliver, DeliverFails, StepInv, Says, ListInv, TypeOK, bodyVars, authorVars, historyVars
<1>2. CASE DeliverFails
  <2>1. Resume /\ UNCHANGED delivered
    BY <1>2 DEF DeliverFails, historyVars
  <2>2. RecordInv'
    BY <1>1, <2>1, RecordFrame DEF bodyVars, historyVars
  <2>3. TypeOK' /\ ListInv'
    BY <1>1, <2>1, ResumeInv DEF TypeOK, ListInv, ListedIn, WithStatus
  <2> QED BY <2>1, <2>2, <2>3, ResumeInv
<1>3. CASE Deliver
  <2>1. PICK r \in Records : copy' = Marked(r, "done")
    BY <1>1, <1>3 DEF Deliver
  <2>2. copy' \in Records /\ copy'.status = "done"
    BY <2>1, MarkedRecord DEF Statuses
  <2>3. delivered' = delivered \cup {cur} /\ step' = "write" /\ cur' = cur
    BY <1>3 DEF Deliver
  <2>4. TypeOK' /\ ListInv'
    BY <1>1, <2>2, <2>3 DEF TypeOK, ListInv, ListedIn, WithStatus
  <2>5. RecordInv'
    BY <1>1, <2>3 DEF RecordInv, EffectAtMostOnce, Says
  <2>6. StepInv'
    BY <1>1, <2>2, <2>3 DEF StepInv, Moves, Says
  <2> QED BY <2>4, <2>5, <2>6
<1> QED BY <1>2, <1>3

(* Another persist call, and a restart *)
LEMMA EnvironmentInv == IOInv /\ (BackgroundPersist \/ Restart) => IOInv'
<1> SUFFICES ASSUME IOInv, BackgroundPersist \/ Restart PROVE IOInv'
  OBVIOUS
<1> USE DEF IOInv
<1>1. /\ requestBack' = [id \in Ids |-> {request'[id]}]
      /\ request' \in [Ids -> Records] /\ \A id \in Ids : request'[id] \in requestBack[id]
      /\ UNCHANGED <<effects, delivered>>
      /\ \A id \in Ids : author'[id] = "new" => author[id] = "new"
  BY DEF BackgroundPersist, Restart, TypeOK, RecordInv, historyVars, authorVars
<1>2. RecordInv'
  BY <1>1 DEF RecordInv, EffectAtMostOnce, Says
<1>3. CASE BackgroundPersist
  <2>1. UNCHANGED <<request, author, pointer, phase, todo, step, cur, copy, restarts>>
    BY <1>3 DEF BackgroundPersist, authorVars, executorVars
  <2>2. TypeOK' /\ ListInv'
    BY <1>1, <2>1 DEF TypeOK, ListInv, ListedIn, WithStatus
  <2>3. StepInv'
    BY <1>1, <2>1 DEF StepInv, Says, ListInv, RecordInv
  <2> QED BY <1>2, <2>2, <2>3
<1>4. CASE Restart
  <2>1. /\ restarts' = restarts + 1 /\ phase' = "idle" /\ todo' = {} /\ Resume
        /\ author' = [id \in Ids |-> IF author[id] = "new" THEN "new" ELSE "finished"]
        /\ pointer' = [id \in Ids |-> "none"]
    BY <1>4 DEF Restart
  <2>2. TypeOK'
    BY <1>1, <2>1, ResumeInv DEF TypeOK
  <2>3. ListInv'
    BY <2>1, ResumeInv DEF ListInv
  <2> QED BY <1>2, <2>1, <2>2, <2>3, ResumeInv
<1> QED BY <1>3, <1>4

(* Every step keeps the invariant. *)
LEMMA NextInv == IOInv /\ [Next]_vars => IOInv'
<1> SUFFICES ASSUME IOInv, [Next]_vars PROVE IOInv'
  OBVIOUS
<1>1. CASE UNCHANGED vars
  <2> USE <1>1 DEF vars, bodyVars, authorVars, executorVars, historyVars, IOInv
  <2>1. TypeOK' /\ RecordInv'
    BY RecordFrame DEF TypeOK
  <2>2. ListInv' /\ StepInv'
    BY DEF ListInv, ListedIn, WithStatus, StepInv, Says
  <2> QED BY <2>1, <2>2
<1> QED BY <1>1, AuthorInv, PhaseInv, TakeInv, WriteInv, CallInv, DeliverInv, EnvironmentInv
        DEF Next, Executor

----------------------------------------------------------------------------
(* The inductive invariant of the external request executor               *)
(* (source_adapter_runtime.go).                                           *)
THEOREM ExecutorInvariant == Spec => []IOInv
BY InitInv, NextInv, PTL DEF Spec

(* processExternalIORequests calls the source at most once for a request, *)
(* whatever fails to be written and wherever the kernel restarts.         *)
THEOREM EffectsHappenAtMostOnce == Spec => []EffectAtMostOnce
<1>1. IOInv => EffectAtMostOnce
  BY DEF IOInv, RecordInv
<1> QED BY <1>1, ExecutorInvariant, PTL

(* A request that is done, now or after a restart, was called and its     *)
(* response was handled.                                                  *)
THEOREM DoneWasDelivered == Spec => []DoneIsDelivered
<1>1. IOInv => DoneIsDelivered
  BY DEF IOInv, RecordInv, Says, DoneIsDelivered
<1> QED BY <1>1, ExecutorInvariant, PTL

(* A response that reached the disk is never lost: no write of the        *)
(* executor, no program and no restart takes it back.                     *)
THEOREM ResponsesAreKept == Spec => ResponseKept
<1> DEFINE Kept == \A id \in Ids :
                     HasResponse(requestBack[id]) => HasResponse(requestBack'[id])
<1>1. IOInv /\ [Next]_vars => [Kept]_vars
  <2> SUFFICES ASSUME IOInv, [Next]_vars, ~UNCHANGED vars,
                      NEW id \in Ids, HasResponse(requestBack[id])
               PROVE  HasResponse(requestBack'[id])
    OBVIOUS
  <2> USE DEF IOInv
  <2>1. request[id].status \in {"response-ready", "done"} /\ author[id] # "new"
    BY DEF RecordInv, HasResponse, Absent
  <2>2. CASE requestBack' = requestBack
    BY <2>2
  <2>3. ASSUME NEW i \in Ids, Author(i) PROVE HasResponse(requestBack'[id])
    <3>1. CASE MemoryNew(i)
      BY <2>1, <3>1 DEF MemoryNew, Changed, TypeOK
    <3>2. CASE StateSetResolve(i)
      BY <2>2, <3>2 DEF StateSetResolve, bodyVars
    <3>3. CASE StateSet(i) /\ UNCHANGED bodyVars
      BY <2>2, <3>3 DEF bodyVars
    <3>4. CASE Changed(i, [request[i] EXCEPT !.fields = @ \cup {author[i]}])
      <4>1. [request[i] EXCEPT !.fields = @ \cup {author[i]}].status = request[i].status
        BY DEF TypeOK, Records
      <4> QED BY <2>1, <3>4, <4>1 DEF Changed, HasResponse, TypeOK
    <3> QED BY <2>3, <3>1, <3>2, <3>3, <3>4 DEF Author, StateSet
  <2>4. CASE Write \/ PersistFails
    <3>1. step = "write" /\ cur \in Ids
          /\ request' = [request EXCEPT ![cur] = copy]
          /\ \/ requestBack' = [q \in Ids |-> {request'[q]}]
             \/ requestBack' = [requestBack EXCEPT ![cur] = @ \cup {copy}]
      BY <2>4 DEF Write, PersistFails, Replaced, ListInv
    <3>2. id = cur => copy.status = "done"
      BY <2>1, <3>1 DEF StepInv, Moves
    <3>3. request'[id].status \in {"response-ready", "done"}
      BY <2>1, <3>1, <3>2 DEF TypeOK
    <3> QED BY <3>1, <3>2, <3>3 DEF HasResponse, TypeOK
  <2>5. CASE BackgroundPersist
    BY <2>1, <2>5 DEF BackgroundPersist, HasResponse
  <2>6. CASE Restart
    BY <2>6 DEF Restart, HasResponse
  <2>7. CASE \/ Tick \/ NextPhase \/ UpsertFails \/ Call \/ Deliver \/ DeliverFails
             \/ \E i \in Ids : Unreadable(i) \/ Quarantine(i) \/ Redeliver(i) \/ Execute(i)
    <3>1. requestBack' = requestBack
      BY <2>7 DEF Tick, NextPhase, UpsertFails, Call, Deliver, DeliverFails,
         Unreadable, Quarantine, Redeliver, Execute, bodyVars
    <3> QED BY <2>2, <3>1
  <2> QED BY <2>3, <2>4, <2>5, <2>6, <2>7 DEF Next, Executor
<1>2. Spec => [][Kept]_vars
  BY <1>1, ExecutorInvariant, PTL DEF Spec
<1> QED BY <1>2 DEF ResponseKept

----------------------------------------------------------------------------
(* StorageNode *)

(* The owner of the registered entry is the only connection inside. *)
LEMMA OneInside == LockInv => Exclusive
BY DEF LockInv, Exclusive

(* Connections at another place, with another image or entry, and idle     *)
(* ones and clients are well typed.                                        *)
LEMMA RecordTypes ==
  /\ \A r \in ConnType :
       /\ \A pc \in {"stat", "make", "enter", "wait", "open", "act", "persist", "close",
                     "leave"} : [r EXCEPT !.pc = pc] \in ConnType
       /\ \A e \in Entries : [r EXCEPT !.entry = e] \in ConnType
       /\ \A i \in BodyRecords \cup {Missing} : [r EXCEPT !.image = i] \in ConnType
       /\ [r EXCEPT !.for = None] \in ConnType
  /\ Unused \in ConnType /\ NoCall \in ClientType
  /\ \A r \in ClientType : \A seen \in BodyRecords :
       [r EXCEPT !.pc = "observed", !.seen = seen] \in ClientType
<1>1. None \in BodyRecords
  BY DEF BodyRecords
<1>2. ASSUME NEW r \in ConnType
      PROVE  /\ \A pc \in {"stat", "make", "enter", "wait", "open", "act", "persist",
                           "close", "leave"} : [r EXCEPT !.pc = pc] \in ConnType
             /\ \A e \in Entries : [r EXCEPT !.entry = e] \in ConnType
             /\ \A i \in BodyRecords \cup {Missing} : [r EXCEPT !.image = i] \in ConnType
             /\ [r EXCEPT !.for = None] \in ConnType
  BY DEF ConnType
<1>3. Unused \in ConnType
  BY <1>1 DEF ConnType, Unused
<1>4. NoCall \in ClientType
  BY <1>1 DEF ClientType, NoCall
<1>5. ASSUME NEW r \in ClientType, NEW seen \in BodyRecords
      PROVE  [r EXCEPT !.pc = "observed", !.seen = seen] \in ClientType
  BY DEF ClientType
<1> QED BY <1>2, <1>3, <1>4, <1>5

(* The initial states satisfy the invariant. *)
LEMMA NodeInitInv == NodeInit => NodeInv
<1> SUFFICES ASSUME NodeInit PROVE NodeInv
  OBVIOUS
<1> USE DEF NodeInit
<1>1. NodeType
  BY RecordTypes DEF NodeType, BodyRecords
<1>2. LockInv
  BY DEF LockInv, Using, Inside, Unused
<1>3. MountedOrPassive /\ ImageInv
  BY DEF MountedOrPassive, ImageInv, Unused
<1> QED BY <1>1, <1>2, <1>3 DEF NodeInv

----------------------------------------------------------------------------
(* Frames: what keeps a part of the invariant *)

(* The entries' users stay the same while nobody starts or stops using. *)
LEMMA SameUsers ==
  ASSUME \A k \in Conns : /\ Using(k)' <=> Using(k)
                          /\ Using(k) => conn'[k].entry = conn[k].entry
  PROVE  \A e \in Entries : {k \in Conns : Using(k)' /\ conn'[k].entry = e}
                              = {k \in Conns : Using(k) /\ conn[k].entry = e}
OBVIOUS

(* Connections that neither enter nor leave the lock keep LockInv. *)
LEMMA LockFrame ==
  ASSUME LockInv, UNCHANGED lockVars,
         \A k \in Conns : /\ Using(k)' <=> Using(k)
                          /\ Inside(k)' <=> Inside(k)
                          /\ Using(k) => conn'[k].entry = conn[k].entry
  PROVE  LockInv'
BY SameUsers DEF LockInv, lockVars

(* Connections that read or write nothing keep what is said of images. *)
LEMMA ImageFrame ==
  ASSUME MountedOrPassive, ImageInv, UNCHANGED nodeVars,
         \A k \in Conns : conn'[k].pc \in {"act", "persist"} =>
           /\ conn'[k].pc = conn[k].pc
           /\ conn'[k].image = conn[k].image /\ conn'[k].exp = conn[k].exp
  PROVE  (MountedOrPassive /\ ImageInv)'
BY DEF MountedOrPassive, ImageInv, nodeVars

(* Replies to clients are well typed. *)
LEMMA ReplyType ==
  ASSUME NodeType, NEW k \in Conns, NEW seen \in BodyRecords, Reply(k, seen) \/ Fail(k)
  PROVE  client' \in [Clients -> ClientType]
<1>1. conn[k].for \in Clients \cup {None}
  BY DEF NodeType, ConnType
<1>2. CASE Reply(k, seen)
  <2>1. client' = client
        \/ client' = [client EXCEPT ![conn[k].for] = NoCall]
        \/ client' = [client EXCEPT ![conn[k].for] =
                        [@ EXCEPT !.pc = "observed", !.seen = seen]]
    BY <1>1, <1>2 DEF Reply, NodeType
  <2>2. CASE client' = [client EXCEPT ![conn[k].for] = NoCall]
    BY <2>2, RecordTypes DEF NodeType
  <2>3. CASE client' = [client EXCEPT ![conn[k].for] =
                          [@ EXCEPT !.pc = "observed", !.seen = seen]]
    <3>1. CASE conn[k].for \in Clients
      <4>1. [client[conn[k].for] EXCEPT !.pc = "observed", !.seen = seen] \in ClientType
        BY <3>1, RecordTypes DEF NodeType
      <4> QED BY <2>3, <3>1, <4>1 DEF NodeType
    <3>2. CASE conn[k].for = None
      BY <2>3, <3>2, NodeAssumption DEF NodeType
    <3> QED BY <1>1, <3>1, <3>2
  <2> QED BY <2>1, <2>2, <2>3 DEF NodeType
<1>3. CASE Fail(k)
  BY <1>3, RecordTypes DEF NodeType, Fail
<1> QED BY <1>2, <1>3

----------------------------------------------------------------------------
(* The lock *)

(* A connection enters the registry, in the entry all its users use. *)
LEMMA EnterInv ==
  ASSUME NodeInv, NEW k \in Conns, Enter(k)
  PROVE  NodeInv'
<1> USE DEF NodeInv
<1>1. PICK e \in Entries :
        /\ IF registry = None THEN refs[e] = {} ELSE e = registry
        /\ registry' = e
        /\ refs' = [refs EXCEPT ![e] = @ \cup {k}]
        /\ conn' = [conn EXCEPT ![k].pc = "wait", ![k].entry = e]
        /\ conn[k].pc = "enter" /\ UNCHANGED <<nodeVars, owner, client, calls>>
  BY DEF Enter
<1>2. NodeType'
  BY <1>1, RecordTypes DEF NodeType, nodeVars
<1>3. /\ \A l \in Conns : l # k => conn'[l] = conn[l]
      /\ conn'[k].pc = "wait" /\ conn'[k].entry = e
  BY <1>1 DEF NodeType, ConnType
<1>4. \A l \in Conns : Using(l) => l # k /\ e = registry /\ conn[l].entry = e
  BY <1>1 DEF LockInv, Using, Inside
<1>5. \A l \in Conns : /\ Using(l)' <=> (Using(l) \/ l = k)
                       /\ Inside(l)' <=> Inside(l)
  BY <1>1, <1>3 DEF Using, Inside
<1>6. \A d \in Entries : refs'[d] = {l \in Conns : Using(l)' /\ conn'[l].entry = d}
  <2> TAKE d \in Entries
  <2>1. refs[d] = {l \in Conns : Using(l) /\ conn[l].entry = d}
    BY DEF LockInv
  <2>2. refs'[d] = IF d = e THEN refs[d] \cup {k} ELSE refs[d]
    BY <1>1 DEF NodeType
  <2> QED BY <1>3, <1>4, <1>5, <2>1, <2>2
<1>7. LockInv'
  <2>1. \A l \in Conns : Using(l)' => conn'[l].entry = registry' /\ registry' # None
    BY <1>1, <1>3, <1>4, <1>5, NodeAssumption
  <2>2. \A l \in Conns : Inside(l)' => (owner[registry])' = l
    BY <1>1, <1>4, <1>5 DEF LockInv, Using
  <2> QED BY <1>6, <2>1, <2>2 DEF LockInv
<1>8. (MountedOrPassive /\ ImageInv)'
  BY <1>1, <1>3, ImageFrame
<1> QED BY <1>2, <1>7, <1>8

(* The mutex is free: nobody is inside. *)
LEMMA AcquireInv ==
  ASSUME NodeInv, NEW k \in Conns, Acquire(k)
  PROVE  NodeInv'
<1> USE DEF NodeInv, Acquire
<1>1. conn[k].entry = registry /\ registry \in Entries
  BY DEF LockInv, Using, NodeType
<1>2. \A l \in Conns : ~Inside(l)
  BY <1>1, NodeAssumption DEF LockInv
<1>3. NodeType'
  BY <1>1, RecordTypes DEF NodeType, nodeVars
<1>4. /\ \A l \in Conns : l # k => conn'[l] = conn[l]
      /\ conn'[k].pc = "open" /\ conn'[k].entry = conn[k].entry
      /\ owner'[registry] = k
  BY <1>1 DEF NodeType, ConnType
<1>5. \A l \in Conns : /\ Using(l)' <=> Using(l)
                       /\ Inside(l)' <=> l = k
  BY <1>2, <1>4 DEF Using, Inside
<1>6. LockInv'
  BY <1>4, <1>5, SameUsers DEF LockInv
<1>7. (MountedOrPassive /\ ImageInv)'
  BY <1>4, ImageFrame
<1> QED BY <1>3, <1>6, <1>7

(* The mutex is released. *)
LEMMA CloseInv ==
  ASSUME NodeInv, NEW k \in Conns, Close(k)
  PROVE  NodeInv'
<1> USE DEF NodeInv, Close
<1>1. conn[k].entry = registry /\ registry \in Entries
  BY DEF LockInv, Using, Inside, NodeType
<1>2. \A l \in Conns : Inside(l) => l = k
  BY OneInside DEF Exclusive, Inside
<1>3. NodeType'
  BY <1>1, RecordTypes DEF NodeType, nodeVars
<1>4. /\ \A l \in Conns : l # k => conn'[l] = conn[l]
      /\ conn'[k].pc = "leave" /\ conn'[k].entry = conn[k].entry
  BY DEF NodeType, ConnType
<1>5. \A l \in Conns : (Using(l)' <=> Using(l)) /\ ~Inside(l)'
  BY <1>2, <1>4 DEF Using, Inside
<1>6. LockInv'
  BY <1>4, <1>5, SameUsers DEF LockInv
<1>7. (MountedOrPassive /\ ImageInv)'
  BY <1>4, ImageFrame
<1> QED BY <1>3, <1>6, <1>7

(* The entry is dropped only when nobody else uses it. *)
LEMMA LeaveInv ==
  ASSUME NodeInv, NEW k \in Conns, Leave(k)
  PROVE  NodeInv'
<1> USE DEF NodeInv
<1> DEFINE e == conn[k].entry
<1>1. /\ conn[k].pc = "leave"
      /\ refs' = [refs EXCEPT ![e] = @ \ {k}]
      /\ registry' = IF refs[e] = {k} /\ registry = e THEN None ELSE registry
      /\ conn' = [conn EXCEPT ![k] = Unused]
      /\ UNCHANGED <<nodeVars, owner, client, calls>>
  BY DEF Leave
<1>2. e = registry /\ e \in Entries
  BY <1>1 DEF LockInv, Using, Inside, NodeType
<1>3. NodeType'
  BY <1>1, <1>2, RecordTypes DEF NodeType, nodeVars
<1>4. (\A l \in Conns : l # k => conn'[l] = conn[l]) /\ conn'[k] = Unused
  BY <1>1 DEF NodeType
<1>5. \A l \in Conns : /\ Using(l)' <=> Using(l) /\ l # k
                       /\ Inside(l)' <=> Inside(l)
  BY <1>1, <1>4 DEF Using, Inside, Unused
<1>6. \A l \in Conns : Using(l)' => registry' = registry
  BY <1>1, <1>2, <1>5 DEF LockInv
<1>7. \A d \in Entries : refs'[d] = {l \in Conns : Using(l)' /\ conn'[l].entry = d}
  <2> TAKE d \in Entries
  <2>1. refs[d] = {l \in Conns : Using(l) /\ conn[l].entry = d}
    BY DEF LockInv
  <2>2. refs'[d] = IF d = e THEN refs[d] \ {k} ELSE refs[d]
    BY <1>1 DEF NodeType
  <2> QED BY <1>4, <1>5, <2>1, <2>2
<1>8. LockInv'
  <2>1. \A l \in Conns : Using(l)' => conn'[l].entry = registry' /\ registry' # None
    BY <1>4, <1>5, <1>6 DEF LockInv
  <2>2. \A l \in Conns : Inside(l)' => (owner[registry])' = l
    <3>1. \A l \in Conns : Inside(l)' => Using(l)'
      BY DEF Using
    <3> QED BY <1>1, <1>5, <1>6, <3>1 DEF LockInv
  <2> QED BY <1>7, <2>1, <2>2 DEF LockInv
<1>9. (MountedOrPassive /\ ImageInv)'
  BY <1>1, <1>4, ImageFrame DEF Unused
<1> QED BY <1>3, <1>8, <1>9

----------------------------------------------------------------------------
(* Requests *)

(* A connection goes on from one place outside the lock to another, or    *)
(* from one inside to another inside.                                     *)
LEMMA MoveLock ==
  ASSUME NodeType, LockInv, NEW k \in Conns, UNCHANGED lockVars,
         \A l \in Conns : l # k => conn'[l] = conn[l],
         \/ Inside(k) /\ Inside(k)' /\ conn'[k].entry = conn[k].entry
         \/ ~Using(k) /\ ~Using(k)'
  PROVE  LockInv'
<1>1. \A l \in Conns : /\ Using(l)' <=> Using(l)
                       /\ Inside(l)' <=> Inside(l)
                       /\ Using(l) => conn'[l].entry = conn[l].entry
  BY DEF Using, Inside
<1> QED BY <1>1, LockFrame

(* create and put look for the file, and create makes one. *)
LEMMA StatMakeInv ==
  ASSUME NodeInv, NEW k \in Conns, Stat(k) \/ Make(k)
  PROVE  NodeInv'
<1> USE DEF NodeInv, Step
<1>1. /\ conn[k].pc \in {"stat", "make"} /\ UNCHANGED <<live, lockVars, calls>>
      /\ file' \in {file, None} /\ buried' \in {buried, FALSE}
      /\ \/ \E pc \in {"make", "enter"} : conn' = [conn EXCEPT ![k].pc = pc]
         \/ conn' = [conn EXCEPT ![k] = Unused]
      /\ client' = client \/ Fail(k)
  BY DEF Stat, Make, nodeVars
<1>2. /\ \A l \in Conns : l # k => conn'[l] = conn[l]
      /\ conn'[k].pc \in {"make", "enter", "idle"}
  BY <1>1 DEF NodeType, ConnType, Unused
<1>3. None \in BodyRecords
  BY DEF BodyRecords
<1>4. NodeType'
  <2>1. client' \in [Clients -> ClientType]
    BY <1>1, <1>3, ReplyType DEF NodeType
  <2>2. conn' \in [Conns -> ConnType]
    <3>1. \A pc \in {"make", "enter"} : [conn[k] EXCEPT !.pc = pc] \in ConnType
      BY RecordTypes DEF NodeType
    <3> QED BY <1>1, <3>1, RecordTypes DEF NodeType
  <2> QED BY <1>1, <1>3, <2>1, <2>2 DEF NodeType, lockVars
<1>5. LockInv'
  BY <1>1, <1>2, MoveLock DEF Using, Inside
<1>6. (MountedOrPassive /\ ImageInv)'
  BY <1>1, <1>2 DEF MountedOrPassive, ImageInv
<1> QED BY <1>4, <1>5, <1>6

(* The image is read from the file when the body is not mounted. *)
LEMMA OpenInv ==
  ASSUME NodeInv, NEW k \in Conns, Open(k)
  PROVE  NodeInv'
<1> USE DEF NodeInv, Open, Step
<1>1. None \in BodyRecords
  BY DEF BodyRecords
<1>2. NodeType'
  <2>1. client' \in [Clients -> ClientType]
    BY <1>1, ReplyType DEF NodeType
  <2>2. \/ conn' = [conn EXCEPT ![k].pc = "close"]
        \/ conn' = [conn EXCEPT ![k].pc = "act", ![k].image = file]
    OBVIOUS
  <2>3. conn' \in [Conns -> ConnType]
    <3>1. /\ [conn[k] EXCEPT !.pc = "close"] \in ConnType
          /\ [conn[k] EXCEPT !.pc = "act", !.image = file] \in ConnType
      BY DEF NodeType, ConnType
    <3> QED BY <2>2, <3>1 DEF NodeType
  <2> QED BY <2>1, <2>3 DEF NodeType, nodeVars, lockVars
<1>3. /\ \A l \in Conns : l # k => conn'[l] = conn[l]
      /\ conn'[k].entry = conn[k].entry
      /\ \/ conn'[k].pc = "close"
         \/ /\ conn'[k].pc = "act" /\ conn'[k].image = file
            /\ live = Missing /\ file # Missing
  BY DEF NodeType, ConnType
<1>4. LockInv'
  BY <1>3, MoveLock DEF Inside
<1>5. (MountedOrPassive /\ ImageInv)'
  BY <1>3 DEF MountedOrPassive, ImageInv, NodeType, nodeVars
<1> QED BY <1>2, <1>4, <1>5

(* create, digest, put and delete work on the image. *)
LEMMA ActInv ==
  ASSUME NodeInv, NEW k \in Conns, Read(k) \/ Put(k) \/ Delete(k)
  PROVE  NodeInv'
<1> USE DEF NodeInv, Step
<1>1. /\ conn[k].pc = "act" /\ conn[k].image \in BodyRecords /\ None \in BodyRecords
      /\ UNCHANGED <<nodeVars, lockVars, calls>>
      /\ file \in {conn[k].image, None}
  BY DEF Read, Put, Delete, ImageInv, BodyRecords
<1>2. client' = client \/ \E seen \in BodyRecords : Reply(k, seen)
  BY <1>1 DEF Read, Put, Delete
<1>3. \/ conn' = [conn EXCEPT ![k].pc = "close"]
      \/ /\ conn' = [conn EXCEPT ![k].pc = "persist", ![k].image = conn[k].rec]
         /\ PutAccepted(k)
      \/ /\ conn' = [conn EXCEPT ![k].pc = "persist", ![k].image = None]
         /\ conn[k].image # None /\ conn[k].exp = conn[k].image
  BY DEF Read, Put, Delete
<1>4. NodeType'
  <2>1. client' \in [Clients -> ClientType]
    BY <1>2, ReplyType DEF NodeType
  <2>2. conn[k].rec \in BodyRecords
    BY DEF NodeType, ConnType
  <2>3. conn' \in [Conns -> ConnType]
    <3>1. /\ [conn[k] EXCEPT !.pc = "close"] \in ConnType
          /\ [conn[k] EXCEPT !.pc = "persist", !.image = conn[k].rec] \in ConnType
          /\ [conn[k] EXCEPT !.pc = "persist", !.image = None] \in ConnType
      BY <1>1, <2>2 DEF NodeType, ConnType
    <3> QED BY <1>3, <3>1 DEF NodeType
  <2> QED BY <1>1, <2>1, <2>3 DEF NodeType, nodeVars, lockVars
<1>5. /\ \A l \in Conns : l # k => conn'[l] = conn[l]
      /\ conn'[k].entry = conn[k].entry /\ conn'[k].exp = conn[k].exp
      /\ conn'[k].pc \in {"close", "persist"}
  BY <1>3 DEF NodeType, ConnType
<1>6. LockInv'
  BY <1>1, <1>5, MoveLock DEF Inside
<1>7. conn'[k].pc = "persist" =>
        /\ conn'[k].image \in BodyRecords
        /\ \/ file = None
           \/ /\ file \in Contents /\ conn[k].exp = file
              /\ conn'[k].image \in Contents => conn'[k].image.rev > file.rev
  <2>1. conn[k].image \in Contents \/ conn[k].image = None
    BY <1>1 DEF BodyRecords
  <2>2. conn[k].rec \in BodyRecords
    BY DEF NodeType, ConnType
  <2>3. CASE conn' = [conn EXCEPT ![k].pc = "close"]
    BY <2>3 DEF NodeType, ConnType
  <2>4. CASE /\ conn' = [conn EXCEPT ![k].pc = "persist", ![k].image = conn[k].rec]
             /\ PutAccepted(k)
    <3>1. conn'[k].image = conn[k].rec
      BY <2>4 DEF NodeType, ConnType
    <3> QED BY <1>1, <2>1, <2>2, <2>4, <3>1 DEF PutAccepted
  <2>5. CASE /\ conn' = [conn EXCEPT ![k].pc = "persist", ![k].image = None]
             /\ conn[k].image # None /\ conn[k].exp = conn[k].image
    <3>1. conn'[k].image = None
      BY <2>5 DEF NodeType, ConnType
    <3> QED BY <1>1, <2>1, <2>5, <3>1, NodeAssumption
  <2> QED BY <1>3, <2>3, <2>4, <2>5
<1>8. (MountedOrPassive /\ ImageInv)'
  BY <1>1, <1>5, <1>7 DEF MountedOrPassive, ImageInv, nodeVars
<1> QED BY <1>4, <1>6, <1>8

(* The image is written back. *)
LEMMA PersistInv ==
  ASSUME NodeInv, NEW k \in Conns, Persist(k)
  PROVE  NodeInv'
<1> USE DEF NodeInv, Persist, Step
<1>1. conn[k].image \in BodyRecords /\ None \in BodyRecords
  BY DEF ImageInv, BodyRecords
<1>2. NodeType'
  <2>1. client' \in [Clients -> ClientType]
    BY <1>1, ReplyType DEF NodeType
  <2> QED BY <1>1, <2>1, RecordTypes DEF NodeType, nodeVars, lockVars
<1>3. /\ \A l \in Conns : l # k => conn'[l] = conn[l]
      /\ conn'[k].entry = conn[k].entry /\ conn'[k].pc = "close"
  BY DEF NodeType, ConnType
<1>4. LockInv'
  BY <1>3, MoveLock DEF Inside
<1>5. \A l \in Conns : l # k => ~Inside(l)
  BY OneInside DEF Exclusive, Inside
<1>6. (MountedOrPassive /\ ImageInv)'
  BY <1>3, <1>5 DEF MountedOrPassive, ImageInv, Inside
<1> QED BY <1>2, <1>4, <1>6

----------------------------------------------------------------------------
(* Mounting, and the clients *)

(* The body is mounted or unmounted by the connection that is inside. *)
LEMMA MountInv ==
  ASSUME NodeInv, NEW k \in Conns, MountBody(k) \/ UnmountBody(k)
  PROVE  NodeInv'
<1> USE DEF NodeInv, Step
<1>1. /\ conn[k].pc = "open" /\ conn' = [conn EXCEPT ![k].pc = "close"]
      /\ live' \in {live, file, Missing} /\ UNCHANGED <<file, buried, lockVars, client, calls>>
  BY DEF MountBody, UnmountBody
<1>2. NodeType'
  BY <1>1, RecordTypes DEF NodeType, lockVars
<1>3. /\ \A l \in Conns : l # k => conn'[l] = conn[l]
      /\ conn'[k].entry = conn[k].entry /\ conn'[k].pc = "close"
  BY <1>1 DEF NodeType, ConnType
<1>4. LockInv'
  BY <1>1, <1>3, MoveLock DEF Inside
<1>5. \A l \in Conns : l # k => ~Inside(l)
  BY <1>1, OneInside DEF Exclusive, Inside
<1>6. (MountedOrPassive /\ ImageInv)'
  BY <1>1, <1>3, <1>5 DEF MountedOrPassive, ImageInv, Inside
<1> QED BY <1>2, <1>4, <1>6

(* The mounted Engine works while no connection has the body open. *)
LEMMA LiveEditInv ==
  ASSUME NodeInv, NEW r \in Contents, LiveEdit(r)
  PROVE  NodeInv'
<1> USE DEF NodeInv, LiveEdit
<1>1. NodeType'
  BY DEF NodeType, BodyRecords, lockVars
<1>2. LockInv'
  BY LockFrame DEF Using, Inside
<1>3. (MountedOrPassive /\ ImageInv)'
  BY DEF MountedOrPassive, ImageInv
<1> QED BY <1>1, <1>2, <1>3

(* Requests start on idle connections. *)
LEMMA StartMountInv ==
  ASSUME NodeInv, NEW k \in Conns, NEW op \in {"mount", "unmount"}, StartMount(k, op)
  PROVE  NodeInv'
<1> USE DEF NodeInv, StartMount
<1>1. NodeType'
  <2>1. [Unused EXCEPT !.pc = "enter", !.op = op] \in ConnType
    BY DEF Unused, ConnType, BodyRecords
  <2> QED BY <2>1 DEF NodeType, nodeVars, lockVars
<1>2. (\A l \in Conns : l # k => conn'[l] = conn[l]) /\ conn'[k].pc = "enter"
  BY DEF NodeType, ConnType, Unused
<1>3. LockInv'
  BY <1>2, MoveLock DEF Using, Inside
<1>4. (MountedOrPassive /\ ImageInv)'
  BY <1>2, ImageFrame
<1> QED BY <1>1, <1>3, <1>4

LEMMA SendInv ==
  ASSUME NodeInv, NEW c \in Clients, NEW k \in Conns, Send(c, k)
  PROVE  NodeInv'
<1> USE DEF NodeInv, Send
<1>1. NodeType'
  <2>1. Request(c) \in ConnType /\ [client[c] EXCEPT !.pc = "waiting"] \in ClientType
    BY DEF NodeType, Request, ConnType, ClientType, BodyRecords
  <2> QED BY <2>1 DEF NodeType, nodeVars, lockVars
<1>2. /\ \A l \in Conns : l # k => conn'[l] = conn[l]
      /\ conn'[k].pc \in {"stat", "enter"}
  BY DEF NodeType, ConnType, Request
<1>3. LockInv'
  BY <1>2, MoveLock DEF Using, Inside
<1>4. (MountedOrPassive /\ ImageInv)'
  BY <1>2, ImageFrame
<1> QED BY <1>1, <1>3, <1>4

(* Giving up takes nothing from the request that is being served. *)
LEMMA ClientInv ==
  ASSUME NodeInv, NEW c \in Clients,
         GiveUp(c) \/ \E op \in {"create", "put", "upsert", "delete"}, r \in Contents :
                        Start(c, op, r)
  PROVE  NodeInv'
<1> USE DEF NodeInv
<1>1. NodeType'
  <2>1. CASE GiveUp(c)
    BY <2>1, RecordTypes DEF NodeType, GiveUp, nodeVars, lockVars
  <2>2. ASSUME NEW op \in {"create", "put", "upsert", "delete"}, NEW r \in Contents,
               Start(c, op, r)
        PROVE  NodeType'
    <3>1. [pc |-> "send", op |-> op, rec |-> r, seen |-> None] \in ClientType
      BY DEF ClientType, BodyRecords
    <3> QED BY <2>2, <3>1 DEF NodeType, Start, nodeVars, lockVars
  <2> QED BY <2>1, <2>2
<1>2. UNCHANGED <<nodeVars, lockVars>>
  BY DEF GiveUp, Start
<1>3. \A k \in Conns : /\ conn'[k].pc = conn[k].pc /\ conn'[k].entry = conn[k].entry
                       /\ conn'[k].image = conn[k].image /\ conn'[k].exp = conn[k].exp
  BY DEF GiveUp, Start, NodeType, ConnType
<1>4. LockInv'
  BY <1>2, <1>3, LockFrame DEF Using, Inside
<1>5. (MountedOrPassive /\ ImageInv)'
  BY <1>2, <1>3, ImageFrame
<1> QED BY <1>1, <1>4, <1>5

----------------------------------------------------------------------------
(* NodeInv is an invariant: requests, mounts, edits and clients keep it,   *)
(* in whatever order their steps are taken.                                *)
THEOREM NodeInvariant == NodeSpec => []NodeInv
<1>1. NodeInv /\ [NodeNext]_storageVars => NodeInv'
  <2> SUFFICES ASSUME NodeInv, [NodeNext]_storageVars PROVE NodeInv'
    OBVIOUS
  <2>1. CASE UNCHANGED storageVars
    BY <2>1 DEF storageVars, nodeVars, lockVars, NodeInv, NodeType, LockInv, MountedOrPassive,
       ImageInv, Using, Inside
  <2>2. CASE \E k \in Conns : Serve(k)
    BY <2>2, EnterInv, AcquireInv, CloseInv, LeaveInv, StatMakeInv, OpenInv, ActInv,
       PersistInv DEF Serve
  <2>3. CASE \E k \in Conns : MountBody(k) \/ UnmountBody(k) \/ StartMount(k, "mount")
                                \/ StartMount(k, "unmount")
    BY <2>3, MountInv, StartMountInv
  <2>4. CASE \E r \in Contents : LiveEdit(r)
    BY <2>4, LiveEditInv
  <2>5. CASE \E c \in Clients, op \in {"create", "put", "upsert", "delete"},
                r \in Contents : r.by = c /\ Start(c, op, r)
    BY <2>5, ClientInv
  <2>6. CASE \E c \in Clients, k \in Conns : Send(c, k)
    BY <2>6, SendInv
  <2>7. CASE \E c \in Clients : GiveUp(c)
    BY <2>7, ClientInv
  <2> QED BY <2>1, <2>2, <2>3, <2>4, <2>5, <2>6, <2>7 DEF NodeNext
<1> QED BY <1>1, NodeInitInv, PTL DEF NodeSpec

(* At most one connection works on the body at a time, although the       *)
(* entries of the lock registry come and go                               *)
(* (acquireRemoteBodyTransaction).                                        *)
THEOREM ConnectionsExclude == NodeSpec => []Exclusive
<1>1. NodeInv => Exclusive
  BY OneInside DEF NodeInv
<1> QED BY <1>1, NodeInvariant, PTL

(* A body is never both mounted and open for a request                    *)
(* (loadPassiveStorageSerialized, mountSpace).                            *)
THEOREM NeverMountedAndPassive == NodeSpec => []MountedOrPassive
<1>1. NodeInv => MountedOrPassive
  BY DEF NodeInv
<1> QED BY <1>1, NodeInvariant, PTL

(* A record in the file is replaced or deleted only by a request whose    *)
(* client saw that very record, and replaced only by a later revision.    *)
THEOREM RecordsAreSwapped == NodeSpec => CompareAndSwap
<1> DEFINE Swap == \A k \in Conns :
       conn[k].pc = "persist" /\ file' # file /\ file \in Contents =>
         /\ conn[k].exp = file
         /\ file' \in Contents => file'.rev > file.rev
<1>1. NodeInv /\ [NodeNext]_storageVars => [Swap]_storageVars
  <2> SUFFICES ASSUME NodeInv, [NodeNext]_storageVars, ~UNCHANGED storageVars, NEW k \in Conns,
                      conn[k].pc = "persist", file' # file, file \in Contents
               PROVE  /\ conn[k].exp = file
                      /\ file' \in Contents => file'.rev > file.rev
    OBVIOUS
  <2> USE DEF NodeInv
  <2>1. /\ conn[k].exp = file
        /\ conn[k].image \in Contents => conn[k].image.rev > file.rev
    BY NodeAssumption DEF ImageInv
  <2>2. \A l \in Conns : conn[l].pc = "persist" => l = k
    BY OneInside DEF Exclusive, Inside
  <2>3. CASE \E l \in Conns : Persist(l)
    BY <2>1, <2>2, <2>3 DEF Persist
  <2>4. CASE \E l \in Conns : Make(l)
    BY <2>1, <2>4, NodeAssumption DEF Make
  <2>5. CASE \E r \in Contents : LiveEdit(r)
    BY <2>5 DEF LiveEdit, MountedOrPassive
  <2> QED
    BY <2>3, <2>4, <2>5 DEF NodeNext, Serve, Enter, Acquire, Close, Leave, Stat, Open, Read,
       Put, Delete, MountBody, UnmountBody, StartMount, Start, Send, GiveUp, nodeVars
<1>2. NodeSpec => [][Swap]_storageVars
  BY <1>1, NodeInvariant, PTL DEF NodeSpec
<1> QED BY <1>2 DEF CompareAndSwap

=============================================================================
