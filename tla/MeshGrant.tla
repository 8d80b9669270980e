------------------------------ MODULE MeshGrant ------------------------------
(***************************************************************************)
(* Grants of the mesh: how the Sovereign or a node sends a granted request *)
(* to another node (mesh_execution_routing.go,                             *)
(* mesh_observability_runtime.go, mesh_shared_runtime.go), and how the     *)
(* target consumes the grant before it executes (mesh_grant_runtime.go).   *)
(*                                                                         *)
(* Each request is served by a goroutine of its own.  Messages may be      *)
(* lost or delivered again, callers give up after eight seconds, processes *)
(* stop and start, saves fail, time passes.  Signatures are taken to be    *)
(* sound: a request or a grant comes from whom it says.                    *)
(***************************************************************************)
EXTENDS Integers, Sequences, FiniteSets, SequencesExt

CONSTANTS
  Targets,      \* nodes that execute for others
  Order,        \* the directory sorted by node id: Self and the targets
  Self,         \* the Sovereign's own node id
  Handlers,     \* goroutines that serve requests at the targets
  TTL,          \* meshGrantTTL
  ReceiptMax,   \* MEMORYAI_MESH_GRANT_RECEIPT_MAX
  MaxClock, MaxGrants, MaxCalls, MaxFaults   \* bounds

ASSUME GrantAssumption ==
  /\ TTL \in Nat \ {0} /\ ReceiptMax \in Nat \ {0}
  /\ {MaxClock, MaxGrants, MaxCalls, MaxFaults} \subseteq Nat
  /\ Self \notin Targets /\ ToSet(Order) = Targets \cup {Self}

VARIABLES
  clock,     \* seconds
  grants,    \* the grants issued, in order
  calls,     \* the calls of routeExecution, fanout, sharedExecute, sharedFetch
  nonces,    \* target -> consumedMeshGrantNonces of its process
  mem,       \* target -> receipts its Engine has
  disk,      \* target -> receipts in its body
  handler,   \* goroutine -> the granted request it serves
  ran,       \* grant -> times its program ran (history)
  stalled,   \* grants looked up after they had expired (history)
  faults     \* restarts and failed saves so far

targetVars == <<nonces, mem, disk, handler, ran, stalled>>
vars == <<clock, grants, calls, targetVars, faults>>

Grants == 1..MaxGrants
Expired(g, now) == grants[g].expires <= now
Idle == [pc |-> "idle", g |-> 0, now |-> 0]

Fault == faults < MaxFaults /\ faults' = faults + 1

----------------------------------------------------------------------------
(* The callers *)

Effect(kind) == kind \in {"route", "fanout", "execute"}

(* A call, with the nodes it has still to try, the grant whose answer it  *)
(* waits for, and how many of its attempts failed or were given up.       *)
Call(kind, todo) ==
  [kind |-> kind, todo |-> todo, waits |-> 0, local |-> 0, trouble |-> 0]

Rotation(start) ==
  [i \in DOMAIN Order |-> Order[((start + i - 2) % Len(Order)) + 1]]

(* The caller is one program, which makes its calls one after the other. *)
Begin(kind, todo) ==
  /\ Len(calls) < MaxCalls
  /\ \A c \in DOMAIN calls : calls[c].todo = <<>>
  /\ calls' = Append(calls, Call(kind, todo))
  /\ UNCHANGED <<clock, grants, targetVars, faults>>

(* routeExecution: itself first when it prefers to, then the directory    *)
(* from a place given by the digest of the Memory id.                     *)
RouteExecution ==
  \E start \in DOMAIN Order, preferLocal \in BOOLEAN :
    Begin("route", (IF preferLocal THEN <<Self>> ELSE <<>>) \o Rotation(start))

(* fanout: every node of the directory, itself or not. *)
Fanout == \E includeSelf \in BOOLEAN :
  Begin("fanout", IF includeSelf THEN Order ELSE SelectSeq(Order, LAMBDA n : n # Self))

(* sharedExecute and sharedFetch (also remoteEvidenceRead): the Sovereign *)
(* grants a registered node access to the node a record comes from, which *)
(* may be itself.                                                         *)
Shared == \E kind \in {"execute", "fetch"}, n \in Targets \cup {Self} :
  Begin(kind, <<n>>)

Running(c) == calls[c].todo # <<>>
Asks(c) == Running(c) /\ calls[c].waits = 0

(* What an attempt leaves to do: a route ends with its first success, a   *)
(* fanout goes through all nodes, the others make one attempt.            *)
Left(call, ok) ==
  IF call.kind = "fanout" \/ (call.kind = "route" /\ ~ok) THEN Tail(call.todo) ELSE <<>>

(* Mutant of Attempted: routing goes on to the next node after a success. *)
AttemptedOn(call, ok) ==
  [call EXCEPT !.todo = Tail(@), !.waits = 0, !.trouble = IF ok THEN @ ELSE @ + 1]

Attempted(call, ok) ==
  [call EXCEPT !.todo = Left(call, ok), !.waits = 0, !.trouble = IF ok THEN @ ELSE @ + 1]

RanHere(call, effect) == [call EXCEPT !.local = IF effect THEN @ + 1 ELSE @]

(* serveLocalExecution (serveLocalMemory) in the caller's own process; it *)
(* may fail without effect, or after a canonical run has changed records. *)
ServeLocal(c) ==
  /\ Asks(c) /\ Head(calls[c].todo) = Self
  /\ \E ok, effect \in BOOLEAN :
       /\ ok => effect = Effect(calls[c].kind)
       /\ effect => Effect(calls[c].kind)
       /\ calls' = [calls EXCEPT ![c] = Attempted(RanHere(@, effect), ok)]
  /\ UNCHANGED <<clock, grants, targetVars, faults>>

(* issueMeshGrant, and the request goes out. *)
Issue(c) ==
  /\ Asks(c) /\ Head(calls[c].todo) \in Targets
  /\ Len(grants) < MaxGrants
  /\ grants' = Append(grants, [target |-> Head(calls[c].todo), call |-> c,
                               effect |-> Effect(calls[c].kind), expires |-> clock + TTL])
  /\ calls' = [calls EXCEPT ![c].waits = Len(grants) + 1]
  /\ UNCHANGED <<clock, targetVars, faults>>

(* The client's timeout, or any error of the connection. *)
GiveUp(c) ==
  /\ Running(c) /\ calls[c].waits # 0
  /\ calls' = [calls EXCEPT ![c] = Attempted(@, FALSE)]
  /\ UNCHANGED <<clock, grants, targetVars, faults>>

----------------------------------------------------------------------------
(* The target: handleHTTP, handleRPC, consumeMeshGrant *)

At(h, pc) == handler[h].pc = pc
To(h, pc) == handler' = [handler EXCEPT ![h].pc = pc]
Target(h) == grants[handler[h].g].target

(* The request, or a copy of it, arrives; its grant is looked at, and the *)
(* time is read.  An expired one is refused: to its caller, GiveUp.       *)
Receive(h, g) ==
  /\ At(h, "idle")
  /\ g \in DOMAIN grants /\ ~Expired(g, clock)
  /\ handler' = [handler EXCEPT ![h] = [pc |-> "nonce", g |-> g, now |-> clock]]
  /\ UNCHANGED <<clock, grants, calls, nonces, mem, disk, ran, stalled, faults>>

(* The answer; its caller may have given up, or have been answered.       *)
Answer(h, ok) ==
  /\ handler' = [handler EXCEPT ![h] = Idle]
  /\ LET g == handler[h].g  c == grants[g].call IN
     calls' = IF calls[c].waits = g THEN [calls EXCEPT ![c] = Attempted(@, ok)] ELSE calls

Deny(h) ==
  /\ Answer(h, FALSE)
  /\ nonces' = [nonces EXCEPT ![Target(h)] = @ \ {handler[h].g}]

(* consumedMeshGrantNonces.LoadOrStore *)
LoadOrStore(h) ==
  LET g == handler[h].g  t == Target(h) IN
  /\ At(h, "nonce")
  /\ IF g \in nonces[t]
     THEN Answer(h, FALSE) /\ UNCHANGED nonces
     ELSE /\ nonces' = [nonces EXCEPT ![t] = @ \cup {g}]
          /\ To(h, IF grants[g].effect THEN "lookup" ELSE "clean")
          /\ UNCHANGED calls
  /\ UNCHANGED <<clock, grants, mem, disk, ran, stalled, faults>>

(* Mutant of Lookup: only the nonces of this process are consulted. *)
LookupNonces(h) ==
  /\ At(h, "lookup")
  /\ stalled' = IF Expired(handler[h].g, clock) THEN stalled \cup {handler[h].g} ELSE stalled
  /\ To(h, "prune")
  /\ UNCHANGED <<clock, grants, calls, nonces, mem, disk, ran, faults>>

(* persistConsumedMeshGrant: is there a receipt already? *)
Lookup(h) ==
  LET g == handler[h].g IN
  /\ At(h, "lookup")
  /\ stalled' = IF Expired(g, clock) THEN stalled \cup {g} ELSE stalled
  /\ \/ g \in mem[Target(h)] /\ Deny(h)
     \/ g \notin mem[Target(h)] /\ To(h, "prune") /\ UNCHANGED <<calls, nonces>>
  /\ UNCHANGED <<clock, grants, mem, disk, ran, faults>>

(* pruneExpiredMeshGrantReceipts: under pressure, expired receipts go ... *)
Prune(h) ==
  LET t == Target(h) IN
  /\ At(h, "prune")
  /\ IF Cardinality(mem[t]) < ReceiptMax
     THEN UNCHANGED mem /\ To(h, "count")
     ELSE /\ mem' = [mem EXCEPT ![t] = {g \in @ : ~Expired(g, clock)}]
          /\ To(h, IF mem'[t] = disk[t] THEN "count" ELSE "pruned")
  /\ UNCHANGED <<clock, grants, calls, nonces, disk, ran, stalled, faults>>

(* persistAll.  A save that fails may have reached the disk. *)
Saved(t)   == disk' = [disk EXCEPT ![t] = mem[t]]
SaveFailed(t) == Fault /\ (UNCHANGED disk \/ Saved(t))

(* ... and the body is saved. *)
PruneSave(h) ==
  /\ At(h, "pruned")
  /\ \/ Saved(Target(h)) /\ To(h, "count") /\ UNCHANGED <<calls, nonces, faults>>
     \/ SaveFailed(Target(h)) /\ Deny(h)
  /\ UNCHANGED <<clock, grants, mem, ran, stalled>>

(* Still no room: backpressure. *)
Count(h) ==
  /\ At(h, "count")
  /\ IF Cardinality(mem[Target(h)]) >= ReceiptMax
     THEN Deny(h)
     ELSE To(h, "upsert") /\ UNCHANGED <<calls, nonces>>
  /\ UNCHANGED <<clock, grants, mem, disk, ran, stalled, faults>>

(* upsertExplicitMemoryBounded of the receipt *)
Upsert(h) ==
  /\ At(h, "upsert")
  /\ mem' = [mem EXCEPT ![Target(h)] = @ \cup {handler[h].g}]
  /\ To(h, "save")
  /\ UNCHANGED <<clock, grants, calls, nonces, disk, ran, stalled, faults>>

(* Mutant of Save: the program is run although the receipt was not saved. *)
SaveTried(h) ==
  /\ At(h, "save") /\ To(h, "clean")
  /\ (Saved(Target(h)) /\ UNCHANGED faults) \/ SaveFailed(Target(h))
  /\ UNCHANGED <<clock, grants, calls, nonces, mem, ran, stalled>>

(* The receipt is saved before the program may run. *)
Save(h) ==
  /\ At(h, "save")
  /\ \/ Saved(Target(h)) /\ To(h, "clean") /\ UNCHANGED <<calls, nonces, faults>>
     \/ SaveFailed(Target(h)) /\ Deny(h)
  /\ UNCHANGED <<clock, grants, mem, ran, stalled>>

(* Nonces that had expired when the request was looked at are dropped. *)
Clean(h) ==
  /\ At(h, "clean") /\ To(h, "run")
  /\ nonces' = [nonces EXCEPT ![Target(h)] = {g \in @ : ~Expired(g, handler[h].now)}]
  /\ UNCHANGED <<clock, grants, calls, mem, disk, ran, stalled, faults>>

(* serveLocalExecution or serveLocalMemory, and the answer. *)
Serve(h) ==
  LET g == handler[h].g IN
  /\ At(h, "run")
  /\ \E ok, effect \in BOOLEAN :
       /\ ok => effect = grants[g].effect
       /\ effect => grants[g].effect
       /\ ran' = [ran EXCEPT ![g] = IF effect THEN @ + 1 ELSE @]
       /\ Answer(h, ok)
  /\ UNCHANGED <<clock, grants, nonces, mem, disk, stalled, faults>>

(* A target stops and starts: its goroutines and its nonces are gone. *)
Restart(t) ==
  /\ Fault
  /\ handler' = [h \in Handlers |-> IF ~At(h, "idle") /\ Target(h) = t THEN Idle ELSE handler[h]]
  /\ nonces' = [nonces EXCEPT ![t] = {}]
  /\ mem' = [mem EXCEPT ![t] = disk[t]]
  /\ UNCHANGED <<clock, grants, calls, disk, ran, stalled>>

Tick ==
  /\ clock < MaxClock
  /\ clock' = clock + 1
  /\ UNCHANGED <<grants, calls, targetVars, faults>>

----------------------------------------------------------------------------
Init ==
  /\ clock = 0 /\ grants = <<>> /\ calls = <<>> /\ faults = 0
  /\ nonces = [t \in Targets |-> {}] /\ mem = [t \in Targets |-> {}]
  /\ disk = [t \in Targets |-> {}]
  /\ handler = [h \in Handlers |-> Idle]
  /\ ran = [g \in Grants |-> 0] /\ stalled = {}

CallStep == \E c \in (1..MaxCalls) \cap DOMAIN calls : ServeLocal(c) \/ Issue(c) \/ GiveUp(c)

HandlerStep == \E h \in Handlers :
  \/ \E g \in DOMAIN grants : Receive(h, g)
  \/ LoadOrStore(h) \/ Lookup(h) \/ Prune(h) \/ PruneSave(h) \/ Count(h)
  \/ Upsert(h) \/ Save(h) \/ Clean(h) \/ Serve(h)

Next ==
  \/ RouteExecution \/ Fanout \/ Shared \/ CallStep
  \/ HandlerStep \/ (\E t \in Targets : Restart(t)) \/ Tick

Spec == Init /\ [][Next]_vars

----------------------------------------------------------------------------
(* A side-effect grant runs its program at most once, whatever is          *)
(* delivered again and whenever the target restarts: the nonces of the     *)
(* process and the receipts of the body together.  The exception is a      *)
(* request that was looked at in time and stalled until the grant, and     *)
(* with it the receipt, had expired (consumeMeshGrant reads the clock      *)
(* once, before it looks for the receipt).                                 *)
ExecutedOnce == \A g \in DOMAIN grants : ran[g] > 1 => g \in stalled

(* "Side-effect grants ... are durably fenced in Memory.mem before          *)
(* execution": while a grant is valid, a program it ran has its receipt in *)
(* the body (persistConsumedMeshGrant, pruneExpiredMeshGrantReceipts).     *)
FencedFirst ==
  \A g \in DOMAIN grants : ran[g] > 0 /\ ~Expired(g, clock) => g \in disk[grants[g].target]

(* How often the Memory of a call was run: at home, and each run of the   *)
(* program of one of its grants.                                           *)
Own(c) == {g \in DOMAIN grants : grants[g].call = c}
Runs(c) == calls[c].local + Cardinality(UNION {{g} \X (1..ran[g]) : g \in Own(c)})

(* routeExecution runs its Memory once, and once more for each attempt     *)
(* that failed or that it gave up: it goes to the next node not knowing    *)
(* whether the last one ran.                                               *)
RouteOnce ==
  \A c \in DOMAIN calls :
    calls[c].kind = "route" /\ (\A g \in stalled : grants[g].call # c)
      => Runs(c) <= 1 + calls[c].trouble

----------------------------------------------------------------------------
(* The inductive invariant of ExecutedOnce and FencedFirst *)

Checks   == {"lookup", "prune", "pruned", "count", "upsert", "save"}
Cleared  == {"clean", "run"}
Past(h, g)   == handler[h].g = g /\ handler[h].pc \in Checks \cup Cleared
Looked(h, g) == Past(h, g) /\ ~At(h, "lookup")

TypeOK ==
  /\ clock \in Nat
  /\ grants \in Seq([target : Targets, call : Nat, effect : BOOLEAN, expires : Nat])
  /\ Len(grants) <= MaxGrants
  /\ {nonces, mem, disk} \subseteq [Targets -> SUBSET Grants]
  /\ handler \in [Handlers -> [pc : {"idle", "nonce"} \cup Checks \cup Cleared,
                               g : Nat, now : Nat]]
  /\ ran \in [Grants -> Nat]

(* Requests in progress are of grants that were issued, looked at before   *)
(* now; only side-effect grants are checked for receipts, and only they    *)
(* run a program.                                                          *)
RequestInv ==
  /\ \A h \in Handlers :
       /\ ~At(h, "idle") => handler[h].g \in DOMAIN grants /\ handler[h].now <= clock
       /\ handler[h].pc \in Checks => grants[handler[h].g].effect
  /\ \A g \in Grants : ran[g] > 0 => g \in DOMAIN grants /\ grants[g].effect

(* While a side-effect grant is valid, its receipt is in the Engine before *)
(* the save, and in the body too before the program runs.                  *)
FenceInv ==
  \A g \in DOMAIN grants : grants[g].effect /\ ~Expired(g, clock) =>
    LET t == grants[g].target IN
    /\ \A h \in Handlers : handler[h].g = g /\ At(h, "save") => g \in mem[t]
    /\ (\E h \in Handlers : handler[h].g = g /\ handler[h].pc \in Cleared) \/ ran[g] > 0
         => g \in mem[t] /\ g \in disk[t]

(* Of the requests with one grant, one at a time is past the receipt, and  *)
(* none once the program has run; while the grant is valid, one at a time  *)
(* is past the nonce, which it holds.                                      *)
OnceInv ==
  \A g \in DOMAIN grants : grants[g].effect /\ g \notin stalled =>
    /\ ran[g] <= 1
    /\ \A h \in Handlers : Looked(h, g) => ran[g] = 0
    /\ \A h, k \in Handlers : Looked(h, g) /\ Looked(k, g) => h = k
    /\ ~Expired(g, clock) =>
         /\ \A h, k \in Handlers : Past(h, g) /\ Past(k, g) => h = k
         /\ \A h \in Handlers : Past(h, g) => g \in nonces[grants[g].target]

GrantInv == TypeOK /\ RequestInv /\ FenceInv /\ OnceInv

----------------------------------------------------------------------------
(* The inductive invariant of RouteOnce *)

(* A call is a record of this shape. *)
CallType ==
  /\ calls \in Seq(ToSet(calls))
  /\ \A c \in DOMAIN calls :
       calls[c] \in [kind : {"route", "fanout", "execute", "fetch"},
                    todo : {calls[c].todo}, waits : Nat, local : Nat, trouble : Nat]

(* A call that is not a fanout has run at home and has issued grants no    *)
(* more often than its attempts had trouble, but for the attempt that is   *)
(* under way or that ended the call.                                       *)
AttemptInv ==
  /\ \A g \in DOMAIN grants : grants[g].call \in DOMAIN calls
  /\ \A c \in DOMAIN calls :
       /\ calls[c].waits # 0 => Running(c)
       /\ calls[c].kind # "fanout" =>
            calls[c].local + Cardinality(Own(c))
              <= calls[c].trouble + (IF Asks(c) THEN 0 ELSE 1)

RouteInv == CallType /\ AttemptInv
=============================================================================
