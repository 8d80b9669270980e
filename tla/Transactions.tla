----------------------------- MODULE Transactions -----------------------------
(***************************************************************************)
(* The transaction scheduler of scheduler_runtime.go with the snapshots of *)
(* speculative_lazy.go and the commit of speculative_fabric_commit.go.     *)
(*                                                                         *)
(* A request is first run on a private copy of the Fabric, which records   *)
(* the baseline of every record it reads.  It is then committed under      *)
(* commitMu if the records it wrote still are what it had read, and is     *)
(* run again in place ("canonically"), under commitMu, otherwise.  External *)
(* effects are only allowed in the second kind of run.                      *)
(*                                                                         *)
(* A record is what its state says, reduced to the transactions whose      *)
(* updates it reflects (mark), and its execution counter, reduced to the   *)
(* transactions that have run it (ran).  A program computes what it writes *)
(* from what it has read: an update adds its mark to the marks seen.       *)
(***************************************************************************)
EXTENDS Integers, FiniteSets

CONSTANTS
  Txns,        \* requests
  Primary,     \* ids placed in the core body
  Shard,       \* ids placed in mounted shards
  Fresh,       \* the ids of both that do not exist at first
  MaxWorking,  \* MEMORYAI_SNAPSHOT_MAX_MEMORIES
  MaxOps,      \* bound on the primitives of one execution
  TryCalls,    \* programs use call_try_isolated or call_parallel
  None         \* no record, no transaction

Ids == Primary \cup Shard

Memory == [mark: SUBSET Txns, ran: SUBSET Txns]

\* What a cache may hold: no entry, a record, a deletion.
Unread  == [entry |-> "unread"]
Gone    == [entry |-> "gone"]
Entries == Memory \cup {Unread, Gone}

ASSUME TxnConstants ==
  /\ Primary \cap Shard = {} /\ Fresh \subseteq Ids
  /\ IsFiniteSet(Ids)
  /\ MaxWorking \in Nat /\ MaxOps \in Nat /\ TryCalls \in BOOLEAN
  /\ None \notin Txns \cup Entries

Stages == {"idle", "running", "diffed", "blocked", "limited", "canonical",
           "committed", "replayed", "failed"}

VARIABLES
  rec,      \* the records of the Fabric; None is an id not yet created
  dirty,    \* dirtyIDs and newIDs of the core body
  lane,     \* holder of commitMu
  stage,    \* where the request is in txnScheduler.run
  snap,     \* the core body a speculative run reads: pinned Store and copies
  base,     \* base.memories of a speculative run
  view,     \* its cache; in a canonical run, what the program has read
  pend,     \* dirtyIDs and newIDs of its private Engine
  ops,      \* primitives executed in the current run
  did,      \* whether the current run has come to its external effect
  \* History
  effects,  \* external effects performed
  took,     \* ids whose record was changed by the transaction
  called    \* ids the transaction has run, in an execution that counts and
            \* with a count that no cache_drop has discarded since

vars == <<rec, dirty, lane, stage, snap, base, view, pend, ops, did,
          effects, took, called>>
runVars == <<snap, base, view, pend, ops, did>>
history == <<effects, took, called>>

Exists(id) == rec[id] \in Memory

Nothing == [id \in Ids |-> Unread]
Unpinned == [id \in Primary |-> Unread]

\* releaseLazySpeculation: the private Engine of the request is dropped.
Released(t) == /\ snap' = [snap EXCEPT ![t] = Unpinned]
               /\ base' = [base EXCEPT ![t] = Nothing]
               /\ view' = [view EXCEPT ![t] = Nothing]
               /\ pend' = [pend EXCEPT ![t] = {}]
               /\ ops' = [ops EXCEPT ![t] = 0]

-----------------------------------------------------------------------------
(* snapshotForSpeculationLazy: the records with pending changes are copied  *)
(* and are baselines from the beginning; the others are read from the       *)
(* Store, which is pinned.                                                  *)

Working == {id \in dirty : Exists(id)}

Snapshot(t) ==
  /\ stage[t] = "idle"
  /\ Cardinality(dirty) =< MaxWorking
  /\ LET copies == [id \in Ids |-> IF id \in Working THEN rec[id] ELSE Unread]
     IN  /\ base' = [base EXCEPT ![t] = copies]
         /\ view' = [view EXCEPT ![t] = copies]
  /\ snap' = [snap EXCEPT ![t] = [id \in Primary |-> rec[id]]]
  /\ pend' = [pend EXCEPT ![t] = dirty]
  /\ stage' = [stage EXCEPT ![t] = "running"]
  /\ UNCHANGED <<rec, dirty, lane, ops, did, history>>

\* Too many pending records: the request goes to the canonical lane at once.
SnapshotLimit(t) ==
  /\ stage[t] = "idle"
  /\ Cardinality(dirty) > MaxWorking
  /\ stage' = [stage EXCEPT ![t] = "limited"]
  /\ UNCHANGED <<rec, dirty, lane, runVars, history>>

-----------------------------------------------------------------------------
(* The speculative run: Engine.run on the private Engine.                   *)

Op(t) == /\ ops[t] < MaxOps
         /\ ops' = [ops EXCEPT ![t] = @ + 1]

\* storeGetID of a speculative Engine: the pinned Store for the core body,
\* the record of this moment for a shard.
Found(t, id) == IF id \in Primary THEN snap[t][id] ELSE rec[id]

Baselined(t) == {id \in Ids : base[t][id] # Unread}

\* Not in the private cache: the record is looked for where Found says.
PagesIn(t, id) ==
  /\ view[t][id] = Unread
  /\ Found(t, id) \in Memory

\* recordSpeculativeBaselineOwned: a record read again keeps its baseline.
SetIsFull(t, id) ==
  base[t][id] = Unread /\ Cardinality(Baselined(t)) >= MaxWorking

\* resolveIDLocal and recordSpeculativeBaselineOwned.
SpecRead(t, id) ==
  /\ stage[t] = "running" /\ Op(t)
  /\ PagesIn(t, id)
  /\ ~SetIsFull(t, id)
  /\ base' = [base EXCEPT ![t][id] = IF @ = Unread THEN Found(t, id) ELSE @]
  /\ view' = [view EXCEPT ![t][id] = Found(t, id)]
  /\ UNCHANGED <<rec, dirty, lane, stage, snap, pend, did, history>>

\* txnScheduler.run after an error: if a forbidden primitive has been met, also
\* one whose refusal was swallowed, the request is replayed.
SpecFails(t) ==
  /\ stage' = [stage EXCEPT ![t] = IF did[t] THEN "blocked" ELSE "failed"]
  /\ Released(t)
  /\ UNCHANGED <<rec, dirty, lane, did, history>>

\* The working set is full: the read fails, and the run with it.
SpecReadLimit(t, id) ==
  /\ stage[t] = "running" /\ ops[t] < MaxOps
  /\ PagesIn(t, id)
  /\ SetIsFull(t, id)
  /\ SpecFails(t)

\* cache_drop of a record without pending changes.  Its baseline stays, and
\* with the copy goes what the run has counted in it.
SpecDrop(t, id) ==
  /\ stage[t] = "running" /\ Op(t)
  /\ view[t][id] \in Memory /\ id \notin pend[t]
  /\ view' = [view EXCEPT ![t][id] = Unread]
  /\ UNCHANGED <<rec, dirty, lane, stage, snap, base, pend, did, history>>

\* Mutant of SpecEdit: the snapshot shares the record with the Fabric.
SpecEditShared(t, id) ==
  /\ stage[t] = "running" /\ Op(t)
  /\ view[t][id] \in Memory
  /\ view' = [view EXCEPT ![t][id].mark = @ \cup {t}]
  /\ rec' = IF Exists(id) THEN [rec EXCEPT ![id].mark = @ \cup {t}] ELSE rec
  /\ pend' = [pend EXCEPT ![t] = @ \cup {id}]
  /\ UNCHANGED <<dirty, lane, stage, snap, base, did, history>>

SpecEdit(t, id) ==
  /\ stage[t] = "running" /\ Op(t)
  /\ view[t][id] \in Memory
  /\ view' = [view EXCEPT ![t][id].mark = @ \cup {t}]
  /\ pend' = [pend EXCEPT ![t] = @ \cup {id}]
  /\ UNCHANGED <<rec, dirty, lane, stage, snap, base, did, history>>

SpecDelete(t, id) ==
  /\ stage[t] = "running" /\ Op(t)
  /\ view[t][id] \in Memory
  /\ view' = [view EXCEPT ![t][id] = Gone]
  /\ pend' = [pend EXCEPT ![t] = @ \ {id}]
  /\ UNCHANGED <<rec, dirty, lane, stage, snap, base, did, history>>

\* Engine.run of a nested call or an event handler: the counter.
SpecCall(t, id) ==
  /\ stage[t] = "running" /\ Op(t)
  /\ view[t][id] \in Memory
  /\ view' = [view EXCEPT ![t][id].ran = @ \cup {t}]
  /\ UNCHANGED <<rec, dirty, lane, stage, snap, base, pend, did, history>>

\* Mutant of Forbidden: the primitive is refused after it has acted.
ForbiddenLate(t) ==
  /\ stage[t] = "running" /\ ops[t] < MaxOps /\ ~did[t]
  /\ did' = [did EXCEPT ![t] = TRUE]
  /\ effects' = [effects EXCEPT ![t] = @ + 1]
  /\ stage' = [stage EXCEPT ![t] = "blocked"]
  /\ Released(t)
  /\ UNCHANGED <<rec, dirty, lane, took, called>>

\* execPrimitive refuses a forbidden primitive, and the error ends the run.
Forbidden(t) ==
  /\ stage[t] = "running" /\ ops[t] < MaxOps /\ ~did[t]
  /\ did' = [did EXCEPT ![t] = TRUE]
  /\ stage' = [stage EXCEPT ![t] = "blocked"]
  /\ Released(t)
  /\ UNCHANGED <<rec, dirty, lane, history>>

\* The same below call_try_isolated or call_parallel: the caller goes on.
ForbiddenTried(t) ==
  /\ TryCalls
  /\ stage[t] = "running" /\ Op(t) /\ ~did[t]
  /\ did' = [did EXCEPT ![t] = TRUE]
  /\ UNCHANGED <<rec, dirty, lane, stage, snap, base, view, pend, history>>

\* Any other error ends the run.
SpecError(t) ==
  /\ stage[t] = "running"
  /\ SpecFails(t)

\* The run returns a Frame over its limit: nothing is replayed.
FrameOver(t) ==
  /\ stage[t] = "running"
  /\ stage' = [stage EXCEPT ![t] = "failed"]
  /\ Released(t)
  /\ UNCHANGED <<rec, dirty, lane, did, history>>

\* The run returns: the diff is formed and the Store lease released.
SpecReturn(t) ==
  /\ stage[t] = "running"
  /\ stage' = [stage EXCEPT ![t] = "diffed"]
  /\ snap' = [snap EXCEPT ![t] = Unpinned]
  /\ ops' = [ops EXCEPT ![t] = 0]
  /\ UNCHANGED <<rec, dirty, lane, base, view, pend, did, history>>

-----------------------------------------------------------------------------
(* diffSnapshot and commitFabricSnapshotDiff.                               *)

\* A record that is no longer in the private cache is taken for deleted.
Deleted(t) == {id \in Baselined(t) : view[t][id] \in {Gone, Unread}}
Changed(t) == {id \in Baselined(t) \ Deleted(t) :
                 view[t][id].mark # base[t][id].mark}
Executed(t) == {id \in Baselined(t) \ Deleted(t) :
                 view[t][id].ran # base[t][id].ran}

\* The runs of the transaction itself: the copy of a shard's record that was
\* dropped and read again counts those of others since the baseline as well.
Counted(t) == {id \in Executed(t) : t \in view[t][id].ran \ base[t][id].ran}

\* The digest leaves the counter out.
SameDigest(id, m) == Exists(id) /\ rec[id].mark = m.mark

\* Mutant of Valid: it is only asked whether the records still exist.
ValidExists(t) ==
  \A id \in Changed(t) \cup Deleted(t) \cup Executed(t) : Exists(id)

Valid(t) ==
  /\ \A id \in Changed(t) \cup Deleted(t) : SameDigest(id, base[t][id])
  /\ \A id \in Executed(t) : Exists(id)

\* Mutant of Applied: the counter of the private copy is written back.
AppliedCopy(t, id) ==
  CASE id \in Deleted(t) -> Gone
    [] id \in Changed(t) \cup Executed(t) ->
         [mark |-> IF id \in Changed(t) THEN view[t][id].mark ELSE rec[id].mark,
          ran  |-> view[t][id].ran]
    [] OTHER -> rec[id]

\* applySpeculativeStructuralPlanLocked, applySpeculativeExecPlanLocked.
Applied(t, id) ==
  CASE id \in Deleted(t) -> Gone
    [] id \in Changed(t) \cup Executed(t) ->
         [mark |-> IF id \in Changed(t) THEN view[t][id].mark ELSE rec[id].mark,
          ran  |-> rec[id].ran \cup (view[t][id].ran \ base[t][id].ran)]
    [] OTHER -> rec[id]

LaneFree == lane = None

Commit(t) ==
  /\ stage[t] = "diffed" /\ LaneFree
  /\ Valid(t)
  /\ rec' = [id \in Ids |-> Applied(t, id)]
  /\ dirty' = (dirty \cup (Changed(t) \cap Primary)) \ Deleted(t)
  /\ stage' = [stage EXCEPT ![t] = "committed"]
  /\ took' = [took EXCEPT ![t] = Changed(t) \cup Deleted(t)]
  /\ called' = [called EXCEPT ![t] = Counted(t)]
  /\ Released(t)
  /\ UNCHANGED <<lane, did, effects>>

\* A conflict: the caller keeps commitMu and replays.
NeedsLane(t) == \/ stage[t] \in {"blocked", "limited"}
                \/ stage[t] = "diffed" /\ ~Valid(t)

Canonical(t) ==
  /\ NeedsLane(t) /\ LaneFree
  /\ lane' = t
  /\ stage' = [stage EXCEPT ![t] = "canonical"]
  /\ Released(t)
  /\ did' = [did EXCEPT ![t] = FALSE]
  /\ UNCHANGED <<rec, dirty, history>>

-----------------------------------------------------------------------------
(* The canonical run: Engine.run on the core Engine, in place.              *)

InLane(t) == stage[t] = "canonical" /\ lane = t

CanonRead(t, id) ==
  /\ InLane(t) /\ Op(t)
  /\ Exists(id)
  /\ view' = [view EXCEPT ![t][id] = rec[id]]
  /\ UNCHANGED <<rec, dirty, lane, stage, snap, base, pend, did, history>>

CanonEdit(t, id) ==
  /\ InLane(t) /\ Op(t)
  /\ Exists(id) /\ view[t][id] \in Memory
  /\ LET marks == view[t][id].mark \cup {t}
     IN  /\ rec' = [rec EXCEPT ![id].mark = marks]
         /\ view' = [view EXCEPT ![t][id].mark = marks]
  /\ dirty' = dirty \cup ({id} \cap Primary)
  /\ took' = [took EXCEPT ![t] = @ \cup {id}]
  /\ UNCHANGED <<lane, stage, snap, base, pend, did, effects, called>>

CanonDelete(t, id) ==
  /\ InLane(t) /\ Op(t)
  /\ Exists(id)
  /\ rec' = [rec EXCEPT ![id] = Gone]
  /\ dirty' = dirty \ {id}
  /\ took' = [took EXCEPT ![t] = @ \cup {id}]
  /\ UNCHANGED <<lane, stage, snap, base, view, pend, did, effects, called>>

CanonCall(t, id) ==
  /\ InLane(t) /\ Op(t)
  /\ Exists(id)
  /\ rec' = [rec EXCEPT ![id].ran = @ \cup {t}]
  /\ called' = [called EXCEPT ![t] = @ \cup {id}]
  /\ UNCHANGED <<dirty, lane, stage, snap, base, view, pend, did,
                 effects, took>>

\* cache_drop of a record without pending changes: the counter goes back to
\* what it was when the record was written.
CanonDrop(t, id) ==
  /\ InLane(t) /\ Op(t)
  /\ id \in Primary \ dirty /\ Exists(id)
  /\ \E written \in SUBSET rec[id].ran :
       /\ rec' = [rec EXCEPT ![id].ran = written]
       /\ called' = [u \in Txns |-> IF u \in written THEN called[u]
                                                     ELSE called[u] \ {id}]
  /\ UNCHANGED <<dirty, lane, stage, snap, base, view, pend, did,
                 effects, took>>

\* memory_new, memory_copy.
CanonNew(t, id) ==
  /\ InLane(t) /\ Op(t)
  /\ rec[id] = None
  /\ rec' = [rec EXCEPT ![id] = [mark |-> {t}, ran |-> {}]]
  /\ dirty' = dirty \cup ({id} \cap Primary)
  /\ took' = [took EXCEPT ![t] = @ \cup {id}]
  /\ UNCHANGED <<lane, stage, snap, base, view, pend, did, effects, called>>

\* A primitive that speculation forbids; a program has one.
Effect(t) ==
  /\ InLane(t) /\ Op(t) /\ ~did[t]
  /\ did' = [did EXCEPT ![t] = TRUE]
  /\ effects' = [effects EXCEPT ![t] = @ + 1]
  /\ UNCHANGED <<rec, dirty, lane, stage, snap, base, view, pend,
                 took, called>>

\* The run returns, with or without an error; what it did stays.
CanonReturn(t) ==
  /\ InLane(t)
  /\ stage' = [stage EXCEPT ![t] = "replayed"]
  /\ lane' = None
  /\ Released(t)
  /\ UNCHANGED <<rec, dirty, did, history>>

-----------------------------------------------------------------------------
\* A full save drops the marks of records it has written (MemoryBody), with
\* dataMu and the guard of the Store: no run has the Store pinned then.
Persist(id) ==
  /\ id \in dirty
  /\ \A t \in Txns : stage[t] # "running"
  /\ dirty' = dirty \ {id}
  /\ UNCHANGED <<rec, lane, stage, runVars, history>>

Init ==
  /\ rec = [id \in Ids |-> IF id \in Fresh THEN None
                                           ELSE [mark |-> {}, ran |-> {}]]
  /\ dirty \in SUBSET (Primary \ Fresh)
  /\ lane = None
  /\ stage = [t \in Txns |-> "idle"]
  /\ snap = [t \in Txns |-> Unpinned]
  /\ base = [t \in Txns |-> Nothing]
  /\ view = [t \in Txns |-> Nothing]
  /\ pend = [t \in Txns |-> {}]
  /\ ops = [t \in Txns |-> 0]
  /\ did = [t \in Txns |-> FALSE]
  /\ effects = [t \in Txns |-> 0]
  /\ took = [t \in Txns |-> {}]
  /\ called = [t \in Txns |-> {}]

Speculate(t) ==
  \/ Snapshot(t) \/ SnapshotLimit(t)
  \/ \E id \in Ids : SpecRead(t, id) \/ SpecReadLimit(t, id)
                     \/ SpecEdit(t, id) \/ SpecDelete(t, id) \/ SpecCall(t, id)
                     \/ SpecDrop(t, id)
  \/ Forbidden(t) \/ ForbiddenTried(t) \/ SpecError(t) \/ FrameOver(t)
  \/ SpecReturn(t)

Replay(t) ==
  \/ \E id \in Ids : CanonRead(t, id) \/ CanonEdit(t, id) \/ CanonDelete(t, id)
                     \/ CanonCall(t, id) \/ CanonDrop(t, id) \/ CanonNew(t, id)
  \/ Effect(t) \/ CanonReturn(t)

Run(t) == Speculate(t) \/ Commit(t) \/ Canonical(t) \/ Replay(t)

Next == \/ \E t \in Txns : Run(t)
        \/ \E id \in Ids : Persist(id)

Spec == Init /\ [][Next]_vars

-----------------------------------------------------------------------------
(* No update is lost: a record that still exists reflects the update of     *)
(* every transaction that changed it, although transactions compute what    *)
(* they write from copies made long before they commit, and canonical runs  *)
(* change records while others speculate.                                   *)
NoLostUpdate ==
  \A t \in Txns : \A id \in took[t] : Exists(id) => t \in rec[id].mark

(* The counters of executions are merged: a record that exists counts every *)
(* run of it by a committed or canonical execution, also when another       *)
(* transaction has changed the record in between.  Only a cache_drop, whose *)
(* losses the history leaves out of called, makes a count be forgotten: in  *)
(* the private cache before the commit, in the core body afterwards.        *)
RunsCounted ==
  \A t \in Txns : \A id \in called[t] : Exists(id) => t \in rec[id].ran

(* Speculation leaves no trace: what the records say of a transaction, they *)
(* say because of a commit or a canonical run.  A failed request, and the   *)
(* discarded run of a replayed one, have changed nothing.                   *)
NoTrace ==
  \A t \in Txns, id \in Ids : Exists(id) =>
    /\ t \in rec[id].mark => id \in took[t]
    /\ t \in rec[id].ran => id \in called[t]

(* An external effect happens at most once per request, whatever the number *)
(* of times its program is run.                                             *)
EffectAtMostOnce == \A t \in Txns : effects[t] =< 1

-----------------------------------------------------------------------------
(* The inductive invariant of the four *)

TypeOK ==
  /\ rec \in [Ids -> Memory \cup {None, Gone}]
  /\ dirty \subseteq Ids
  /\ lane \in Txns \cup {None}
  /\ stage \in [Txns -> Stages]
  /\ snap \in [Txns -> [Primary -> Entries \cup {None}]]
  /\ base \in [Txns -> [Ids -> Memory \cup {Unread}]]
  /\ view \in [Txns -> [Ids -> Entries]]
  /\ pend \in [Txns -> SUBSET Ids]
  /\ ops \in [Txns -> Nat] /\ did \in [Txns -> BOOLEAN]
  /\ effects \in [Txns -> Nat]
  /\ {took, called} \subseteq [Txns -> SUBSET Ids]

(* The canonical run is the one that holds commitMu. *)
LaneInv == \A t \in Txns : stage[t] = "canonical" => lane = t

(* Before its commit or canonical run a request has changed nothing and     *)
(* has had no effect; a canonical run has had the one it has come to.       *)
HistoryInv ==
  \A t \in Txns :
    /\ stage[t] \in {"idle", "running", "diffed", "blocked", "limited"} =>
         took[t] = {} /\ called[t] = {} /\ effects[t] = 0
    /\ stage[t] = "canonical" => effects[t] = IF did[t] THEN 1 ELSE 0

(* What the records say of others only grows: the pinned Store and the      *)
(* baselines are behind the Fabric.  A copy has what its baseline has, and  *)
(* beyond it the run's own update and run; that of a shard's record, which  *)
(* may have been read again, also has what the record has by now.           *)
Behind(m, id) == Exists(id) => m.mark \subseteq rec[id].mark

SpecInv ==
  \A t \in Txns, id \in Ids : stage[t] \in {"running", "diffed"} =>
    /\ view[t][id] # Unread => base[t][id] # Unread
    /\ base[t][id] \in Memory => rec[id] # None /\ Behind(base[t][id], id)
    /\ view[t][id] \in Memory =>
         /\ base[t][id].mark \subseteq view[t][id].mark
         /\ Exists(id) =>
              /\ view[t][id].mark \subseteq rec[id].mark \cup {t}
              /\ view[t][id].ran \subseteq base[t][id].ran \cup {t} \cup
                     IF id \in Shard THEN rec[id].ran ELSE {}

(* The baseline of a record of the core body is that of the pinned Store.   *)
SnapInv ==
  \A t \in Txns, id \in Primary :
    stage[t] = "running" /\ snap[t][id] \in Memory =>
      /\ rec[id] # None /\ Behind(snap[t][id], id)
      /\ base[t][id] # Unread => base[t][id] = snap[t][id]

(* What a canonical run has read is not changed by anybody else.            *)
CanonInv ==
  \A t \in Txns, id \in Ids : stage[t] = "canonical" /\ view[t][id] \in Memory =>
    rec[id] = Gone \/ SameDigest(id, view[t][id])

(* Only a record that was created is changed or run.                        *)
CreatedInv ==
  \A t \in Txns : \A id \in took[t] \cup called[t] : rec[id] # None

TxnInv == /\ TypeOK /\ LaneInv /\ HistoryInv /\ SpecInv /\ SnapInv
          /\ CanonInv /\ CreatedInv
          /\ NoLostUpdate /\ RunsCounted /\ NoTrace /\ EffectAtMostOnce
=============================================================================
