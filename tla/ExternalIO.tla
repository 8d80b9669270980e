----------------------------- MODULE ExternalIO -----------------------------
(***************************************************************************)
(* External requests (source_adapter_runtime.go): programs create request  *)
(* records, the daemon's idle ticker executes them, delivers the responses *)
(* as events and keeps the lifecycle of each request in its record, so     *)
(* that a restart finds out how far it got.                                *)
(*                                                                         *)
(* The executor (processExternalIORequests) holds externalIOMu, which      *)
(* programs do not take, and not commitMu, which they do: it runs between  *)
(* any two operations of a program.  The records are kept in a body that   *)
(* promises DurableMap.  Only the executor changes the lifecycle of a      *)
(* request once it is created.                                             *)
(***************************************************************************)
EXTENDS Integers, FiniteSets

CONSTANTS
  Ids,           \* ids of requests; nextID never repeats one
  MaxRestarts,   \* bound on restarts of the kernel
  Faults,        \* records cannot be read, upserted or persisted now and then
  NoId

ASSUME IOConstants ==
  /\ MaxRestarts \in Nat
  /\ Faults \in BOOLEAN
  /\ NoId \notin Ids

VARIABLES
  request,       \* the record of each request
  requestBack,   \* the records a restart may bring back
  author,        \* what the program that creates a request does next
  pointer,       \* the *Memory its state_set has resolved
  phase,         \* of the executor's pass
  todo,          \* ids listed for the phase and not yet taken
  step,          \* of the request being processed
  cur,           \* its id
  copy,          \* the executor's copy of its record
  restarts,
  (* History *)
  effects,       \* how often the source was called for a request
  delivered      \* requests whose response event was handled

bodyVars     == <<request, requestBack>>
authorVars   == <<author, pointer>>
executorVars == <<phase, todo, step, cur, copy>>
historyVars  == <<effects, delivered>>
vars == <<bodyVars, authorVars, executorVars, restarts, historyVars>>

(* The lifecycle tag of a record and the fields that the executor requires. *)
Statuses == {"absent", "pending", "executing", "response-ready", "done",
             "failed", "ambiguous"}
Fields  == {"source_adapter_id", "response_event"}
Records == [status : Statuses, fields : SUBSET Fields]
Absent  == [status |-> "absent", fields |-> {}]

----------------------------------------------------------------------------
(* The program that creates a request *)

(* A change of the body: persisted or not when the kernel restarts. *)
Changed(id, r) ==
  /\ request' = [request EXCEPT ![id] = r]
  /\ requestBack' = [requestBack EXCEPT ![id] = @ \cup {r}]

(* memory_new: the request is pending, its fields come one by one. *)
MemoryNew(id) ==
  /\ author[id] = "new"
  /\ Changed(id, [status |-> "pending", fields |-> {}])
  /\ author' = [author EXCEPT ![id] = "source_adapter_id"]
  /\ UNCHANGED <<pointer, executorVars, restarts, historyVars>>

(* state_set resolves the record ... *)
StateSetResolve(id) ==
  /\ author[id] \in Fields /\ pointer[id] = "none"
  /\ pointer' = [pointer EXCEPT ![id] = "cached"]
  /\ UNCHANGED <<bodyVars, author, executorVars, restarts, historyVars>>

(* ... and changes what it resolved, which the executor may have replaced *)
(* in the cache in the meantime.                                          *)
StateSet(id) ==
  /\ author[id] \in Fields /\ pointer[id] # "none"
  /\ IF pointer[id] = "cached"
     THEN Changed(id, [request[id] EXCEPT !.fields = @ \cup {author[id]}])
     ELSE UNCHANGED bodyVars
  /\ pointer' = [pointer EXCEPT ![id] = "none"]
  /\ author' = [author EXCEPT ![id] =
                  IF @ = "source_adapter_id" THEN "response_event" ELSE "finished"]
  /\ UNCHANGED <<executorVars, restarts, historyVars>>

----------------------------------------------------------------------------
(* The executor *)

WithStatus(s) == {id \in Ids : request[id].status = s}

(* Mutant of ListedIn: response-ready requests, which carry two lifecycle *)
(* tags, are taken for ambiguous ones.                                    *)
ListedDone(p) ==
  CASE p = "quarantine" -> WithStatus("executing") \cup WithStatus("response-ready")
    [] p = "response"   -> WithStatus("response-ready")
    [] p = "pending"    -> WithStatus("pending")

(* listTagFabric, by phase *)
ListedIn(p) ==
  CASE p = "quarantine" -> WithStatus("executing")
    [] p = "response"   -> WithStatus("response-ready")
    [] p = "pending"    -> WithStatus("pending")

(* A phase begins; it is empty when listing fails. *)
Begin(p) ==
  /\ phase' = p
  /\ \/ todo' = ListedIn(p)
     \/ Faults /\ todo' = {}

(* The ticker starts a pass. *)
Tick ==
  /\ phase = "idle"
  /\ Begin("quarantine")
  /\ UNCHANGED <<step, cur, copy, bodyVars, authorVars, restarts, historyVars>>

(* Mutant of NextPhase: responses are only delivered by the call that     *)
(* fetched them.                                                          *)
NextPhaseSkipping ==
  /\ step = "next" /\ todo = {}
  /\ \/ phase = "quarantine" /\ Begin("pending")
     \/ phase = "pending" /\ phase' = "idle" /\ UNCHANGED todo
  /\ UNCHANGED <<step, cur, copy, bodyVars, authorVars, restarts, historyVars>>

(* processExternalIORequests: leftovers of an earlier run of the kernel,  *)
(* undelivered responses, new requests.                                   *)
NextPhase ==
  /\ step = "next" /\ todo = {}
  /\ \/ phase = "quarantine" /\ Begin("response")
     \/ phase = "response" /\ Begin("pending")
     \/ phase = "pending" /\ phase' = "idle" /\ UNCHANGED todo
  /\ UNCHANGED <<step, cur, copy, bodyVars, authorVars, restarts, historyVars>>

Marked(r, s) == [r EXCEPT !.status = s]    \* replaceExternalRequestLifecycle

Resume == step' = "next" /\ cur' = NoId /\ copy' = Absent

Taken(id) == step = "next" /\ id \in todo /\ todo' = todo \ {id}

(* The record cannot be resolved. *)
Unreadable(id) ==
  /\ Faults /\ Taken(id)
  /\ UNCHANGED <<phase, step, cur, copy, bodyVars, authorVars, restarts, historyVars>>

(* quarantineAmbiguousExternalRequests *)
Quarantine(id) ==
  /\ phase = "quarantine" /\ Taken(id)
  /\ cur' = id /\ copy' = Marked(request[id], "ambiguous") /\ step' = "write"
  /\ UNCHANGED <<phase, bodyVars, authorVars, restarts, historyVars>>

(* processResponseReadyExternalRequests *)
Redeliver(id) ==
  /\ phase = "response" /\ Taken(id)
  /\ cur' = id /\ copy' = request[id] /\ step' = "deliver"
  /\ UNCHANGED <<phase, bodyVars, authorVars, restarts, historyVars>>

(* executePendingExternalRequest: a request without the required fields   *)
(* has failed.                                                            *)
Execute(id) ==
  /\ phase = "pending" /\ Taken(id)
  /\ cur' = id /\ step' = "write"
  /\ copy' = Marked(request[id], IF request[id].fields = Fields THEN "executing" ELSE "failed")
  /\ UNCHANGED <<phase, bodyVars, authorVars, restarts, historyVars>>

(* What follows a write that succeeds. *)
AfterWrite ==
  CASE copy.status = "executing"      -> step' = "call" /\ UNCHANGED <<cur, copy>>
    [] copy.status = "response-ready" -> step' = "deliver" /\ UNCHANGED <<cur, copy>>
    [] OTHER                          -> Resume

Replaced ==
  /\ request' = [request EXCEPT ![cur] = copy]
  /\ pointer' = [pointer EXCEPT ![cur] = IF @ = "cached" THEN "replaced" ELSE @]

(* Mutant of PersistFails: the error of persistAll is dropped. *)
PersistErrorDropped ==
  /\ Faults /\ step = "write"
  /\ Replaced
  /\ requestBack' = [requestBack EXCEPT ![cur] = @ \cup {copy}]
  /\ AfterWrite
  /\ UNCHANGED <<phase, todo, author, restarts, historyVars>>

(* persistExternalRequest succeeds, ... *)
Write ==
  /\ step = "write"
  /\ Replaced
  /\ requestBack' = [id \in Ids |-> {request'[id]}]
  /\ AfterWrite
  /\ UNCHANGED <<phase, todo, author, restarts, historyVars>>

(* ... the record is changed and not persisted, ... *)
PersistFails ==
  /\ Faults /\ step = "write"
  /\ Replaced
  /\ requestBack' = [requestBack EXCEPT ![cur] = @ \cup {copy}]
  /\ Resume
  /\ UNCHANGED <<phase, todo, author, restarts, historyVars>>

(* ... or the record is not even changed (too large, not resolvable). *)
UpsertFails ==
  /\ Faults /\ step = "write"
  /\ Resume
  /\ UNCHANGED <<phase, todo, bodyVars, authorVars, restarts, historyVars>>

(* executeSourceAdapterInput: the source is called, with or without a     *)
(* usable response, or the adapter is missing or incomplete.              *)
Call ==
  /\ step = "call" /\ step' = "write"
  /\ \/ /\ effects' = [effects EXCEPT ![cur] = @ + 1]
        /\ \E s \in {"response-ready", "failed"} : copy' = Marked(copy, s)
     \/ copy' = Marked(copy, "failed") /\ UNCHANGED effects
  /\ UNCHANGED <<phase, todo, cur, bodyVars, authorVars, restarts, delivered>>

(* deliverExternalResponse: the event is handled and the request done. *)
Deliver ==
  /\ step = "deliver" /\ "response_event" \in copy.fields
  /\ delivered' = delivered \cup {cur}
  /\ copy' = Marked(IF phase = "response" THEN request[cur] ELSE copy, "done")
  /\ step' = "write"
  /\ UNCHANGED <<phase, todo, cur, bodyVars, authorVars, restarts, effects>>

(* Mutant of DeliverFails: the request is done although the event failed. *)
DeliverErrorDropped ==
  /\ step = "deliver"
  /\ copy' = Marked(copy, "done") /\ step' = "write"
  /\ UNCHANGED <<phase, todo, cur, bodyVars, authorVars, restarts, historyVars>>

(* A handler fails, perhaps after others have run. *)
DeliverFails ==
  /\ step = "deliver"
  /\ Resume
  /\ UNCHANGED <<phase, todo, bodyVars, authorVars, restarts, historyVars>>

----------------------------------------------------------------------------
(* Any other persist call of the body succeeds. *)
BackgroundPersist ==
  /\ requestBack' = [id \in Ids |-> {request[id]}]
  /\ UNCHANGED <<request, authorVars, executorVars, restarts, historyVars>>

(* The kernel restarts: programs and the pass in progress are gone. *)
Restart ==
  /\ restarts < MaxRestarts
  /\ restarts' = restarts + 1
  /\ request' \in [Ids -> Records]
  /\ \A id \in Ids : request'[id] \in requestBack[id]
  /\ requestBack' = [id \in Ids |-> {request'[id]}]
  /\ author' = [id \in Ids |-> IF author[id] = "new" THEN "new" ELSE "finished"]
  /\ pointer' = [id \in Ids |-> "none"]
  /\ phase' = "idle" /\ todo' = {}
  /\ Resume
  /\ UNCHANGED historyVars

Init ==
  /\ request = [id \in Ids |-> Absent] /\ requestBack = [id \in Ids |-> {Absent}]
  /\ author = [id \in Ids |-> "new"] /\ pointer = [id \in Ids |-> "none"]
  /\ phase = "idle" /\ todo = {}
  /\ step = "next" /\ cur = NoId /\ copy = Absent
  /\ restarts = 0
  /\ effects = [id \in Ids |-> 0] /\ delivered = {}

Author(id) == MemoryNew(id) \/ StateSetResolve(id) \/ StateSet(id)

Executor ==
  \/ Tick \/ NextPhase
  \/ \E id \in Ids : Unreadable(id) \/ Quarantine(id) \/ Redeliver(id) \/ Execute(id)
  \/ Write \/ PersistFails \/ UpsertFails
  \/ Call \/ Deliver \/ DeliverFails

Next ==
  \/ \E id \in Ids : Author(id)
  \/ Executor
  \/ BackgroundPersist \/ Restart

Spec == Init /\ [][Next]_vars

Resolved(id) == Quarantine(id) \/ Redeliver(id) \/ Execute(id)
Listed(p) == phase' = p /\ todo' = ListedIn(p) /\ (Tick \/ NextPhase)

(* The ticker goroutine runs, and what is tried again and again (a        *)
(* listing, a read, a write, a delivery) does not fail every time.        *)
FairSpec ==
  /\ Spec
  /\ WF_vars(Executor)
  /\ \A p \in {"quarantine", "response", "pending"} : SF_vars(Listed(p))
  /\ \A id \in Ids :
       SF_vars(Resolved(id)) /\ SF_vars(cur = id /\ Write) /\ SF_vars(cur = id /\ Deliver)

----------------------------------------------------------------------------
(* The variables have their types. *)
TypeOK ==
  /\ request \in [Ids -> Records] /\ requestBack \in [Ids -> SUBSET Records]
  /\ author \in [Ids -> {"new", "finished"} \cup Fields]
  /\ pointer \in [Ids -> {"none", "cached", "replaced"}]
  /\ phase \in {"idle", "quarantine", "response", "pending"}
  /\ todo \in SUBSET Ids
  /\ step \in {"next", "write", "call", "deliver"}
  /\ cur \in Ids \cup {NoId} /\ copy \in Records
  /\ restarts \in Nat
  /\ effects \in [Ids -> Nat] /\ delivered \in SUBSET Ids

(* "External side effects are never automatically replayed": the source   *)
(* is called at most once for a request, whatever fails to be written and *)
(* wherever the kernel restarts.                                          *)
EffectAtMostOnce == \A id \in Ids : effects[id] <= 1

(* A request that is done, now or after a restart, had its response       *)
(* handled, and the response came from a call.                            *)
DoneIsDelivered ==
  \A id \in Ids : \A r \in requestBack[id] :
    r.status = "done" => id \in delivered /\ effects[id] = 1

(* A response on disk is never lost: from then on a restart finds the     *)
(* request response-ready or done, never ambiguous, failed or pending.    *)
HasResponse(back) == \A r \in back : r.status \in {"response-ready", "done"}
ResponseKept ==
  [][\A id \in Ids : HasResponse(requestBack[id]) => HasResponse(requestBack'[id])]_vars

(* Every request settles although the kernel restarts in between (unless  *)
(* the restart forgets its creation), and a response on disk is delivered. *)
Settles ==
  \A id \in Ids :
    /\ request[id].status = "pending" ~>
         request[id].status \in {"done", "failed", "ambiguous", "absent"}
    /\ HasResponse(requestBack[id]) ~> request[id].status = "done"

(***************************************************************************)
(* The inductive invariant behind EffectAtMostOnce, DoneIsDelivered and    *)
(* ResponseKept.                                                           *)
(***************************************************************************)

(* What each lifecycle tag, in memory or on disk, says of the past. *)
Says(id, r) ==
  /\ r.status \in {"absent", "pending"} => effects[id] = 0
  /\ r.status = "response-ready" => effects[id] = 1 /\ r.fields = Fields
  /\ r.status = "done" => effects[id] = 1 /\ id \in delivered

RecordInv ==
  /\ EffectAtMostOnce
  /\ \A id \in Ids : request[id] \in requestBack[id]
  /\ \A id \in Ids : \A r \in requestBack[id] : Says(id, r)
  /\ \A id \in Ids : author[id] = "new" => requestBack[id] = {Absent}

(* What is listed keeps its tag until it is taken. *)
ListInv ==
  /\ phase = "idle" => step = "next" /\ todo = {}
  /\ step # "next" => cur \in Ids \ todo
  /\ phase # "idle" => todo \subseteq ListedIn(phase)

(* The writes of the executor follow the lifecycle; when the source is    *)
(* called the body has durably marked the request.                        *)
Moves == {<<"pending", "executing">>, <<"pending", "failed">>,
          <<"executing", "response-ready">>, <<"executing", "failed">>,
          <<"executing", "ambiguous">>, <<"response-ready", "done">>}

StepInv ==
  /\ step = "write" =>
       /\ <<request[cur].status, copy.status>> \in Moves
       /\ Says(cur, copy)
       /\ copy.status = "executing" => effects[cur] = 0 /\ copy.fields = Fields
  /\ step = "call" =>
       /\ copy.status = "executing" /\ copy.fields = Fields
       /\ effects[cur] = 0
       /\ \A r \in requestBack[cur] : r.status = "executing"
  /\ step = "deliver" =>
       /\ copy.status = "response-ready" /\ Says(cur, copy)
       /\ request[cur].status = "response-ready"

(* The invariant of the executor: types, records, the pass, the request   *)
(* being processed.                                                       *)
IOInv == TypeOK /\ RecordInv /\ ListInv /\ StepInv

----------------------------------------------------------------------------
=============================================================================
