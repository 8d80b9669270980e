----------------------------- MODULE KernelLocks -----------------------------
(***************************************************************************)
(* Who waits for whom.  Requests (txnScheduler.run) and persist calls take *)
(* four kinds of locks: commitMu of the scheduler, and for each body the   *)
(* persistence lock, dataMu and the lifetime guard of its open Store.      *)
(*                                                                         *)
(* What a goroutine does between two decisions is a sequence of lock and   *)
(* unlock operations; the decisions are the actions below.  dataMu and the *)
(* guards are sync.RWMutex: a waiting writer keeps new readers out, and    *)
(* lets those that wait in when it has finished.                            *)
(***************************************************************************)
EXTENDS Integers, Sequences, FiniteSets

CONSTANTS
  Requests,     \* goroutines that run requests
  Persisters,   \* goroutines that persist, mount and unmount
  Body,         \* open bodies
  Core,         \* the core body; the others are shards
  Place,        \* body -> the place of its path among those of the others
  Mesh,         \* the node has a role in a mesh: an unknown id is asked for there
  Emits         \* programs emit events in speculative runs

Procs == Requests \cup Persisters

ASSUME LockConstants ==
  /\ Requests \cap Persisters = {}
  /\ IsFiniteSet(Body) /\ Core \in Body
  /\ Place \in [Body -> 1 .. Cardinality(Body)]
  /\ \A b, c \in Body : Place[b] = Place[c] => b = c
  /\ Mesh \in BOOLEAN /\ Emits \in BOOLEAN

Commit    == [kind |-> "commitMu", body |-> Core]
Saving(b) == [kind |-> "persistence", body |-> b]
Data(b)   == [kind |-> "dataMu", body |-> b]
Guard(b)  == [kind |-> "guard", body |-> b]
Modes == {"R", "W"}

Lock(l, m)   == [op |-> "lock", lock |-> l, mode |-> m]
Unlock(l, m) == [op |-> "unlock", lock |-> l, mode |-> m]

VARIABLES
  phase,  \* what the goroutine is doing
  todo,   \* lock operations before its next decision
  held    \* locks it holds, with their modes

vars == <<phase, todo, held>>

-----------------------------------------------------------------------------
(* Pieces of code as sequences of lock operations.                          *)

\* engineStoreOpen, and every look at the maps of a body.
Peek(b) == <<Lock(Data(b), "R"), Unlock(Data(b), "R")>>

\* A change of a record, a page-in.
Edit(b) == <<Lock(Data(b), "W"), Unlock(Data(b), "W")>>

\* Mutant of Lease: the guard is taken before dataMu.
LeaseNested(b) == <<Lock(Guard(b), "R"), Lock(Data(b), "R"),
                    Unlock(Data(b), "R"), Unlock(Guard(b), "R")>>

\* acquireStoreLifetimeLease, the read, the release.
Lease(b) == <<Lock(Data(b), "R"), Lock(Guard(b), "R"), Unlock(Data(b), "R"),
              Unlock(Guard(b), "R")>>

\* snapshotForSpeculationLazy: the lease is kept for the run.
Pin == <<Lock(Data(Core), "R"), Lock(Guard(Core), "R"), Unlock(Data(Core), "R")>>

\* releaseSpeculativeStoreLease, then commitMu.
Unpin == <<Unlock(Guard(Core), "R")>>

\* Lists of owners as speculativeCommitOwners sorts them: by path.
OwnerLists ==
  {bs \in UNION {[1 .. n -> Body] : n \in 0 .. Cardinality(Body)} :
     \A i, j \in DOMAIN bs : i < j => Place[bs[i]] < Place[bs[j]]}

LockAll(bs)   == [i \in 1 .. Len(bs) |-> Lock(Data(bs[i]), "W")]
UnlockAll(bs) == [i \in 1 .. Len(bs) |-> Unlock(Data(bs[Len(bs) + 1 - i]), "W")]

\* physicalOwnerMemoryLocked, for each owner.
PageIns(bs) ==
  [i \in 1 .. 2 * Len(bs) |->
     LET guard == Guard(bs[(i + 1) \div 2])
     IN  IF i % 2 = 1 THEN Lock(guard, "R") ELSE Unlock(guard, "R")]

\* commitFabricSnapshotDiff: lock the owners, validate, apply, unlock.
CommitOwners(bs) == LockAll(bs) \o PageIns(bs) \o UnlockAll(bs)

\* persistEngineIncremental with the journal.
Journal(b) == <<Lock(Saving(b), "W")>> \o Peek(b) \o <<Unlock(Saving(b), "W")>>

\* finalizePersistedBody, closeStore: the Store is replaced.
Swap(b) == <<Lock(Data(b), "W"), Lock(Guard(b), "W"),
             Unlock(Guard(b), "W"), Unlock(Data(b), "W")>>

\* saveBody: ids and records are read, the Store is swapped, the activation
\* index is built.
Save(b) == <<Lock(Saving(b), "W")>> \o Lease(b) \o Peek(b) \o Swap(b)
           \o (IF b = Core THEN Lease(b) ELSE <<>>) \o <<Unlock(Saving(b), "W")>>

-----------------------------------------------------------------------------
(* The locks.                                                               *)

Has(p, l, m) == [lock |-> l, mode |-> m] \in held[p]
Holds(p, l) == \E m \in Modes : Has(p, l, m)

WantsLock(p) == todo[p] # <<>> /\ Head(todo[p]).op = "lock"

WaitsToWrite(p, l) == WantsLock(p) /\ Head(todo[p]) = Lock(l, "W")

\* The goroutines that keep p from taking the lock it wants.
BlockedBy(p) ==
  IF ~WantsLock(p) THEN {}
  ELSE LET want == Head(todo[p])
       IN  IF want.mode = "W"
           THEN {q \in Procs : Holds(q, want.lock)}
           ELSE {q \in Procs : Has(q, want.lock, "W")}
                \cup {q \in Procs \ {p} : WaitsToWrite(q, want.lock)}

LockStep(p) ==
  /\ WantsLock(p) /\ BlockedBy(p) = {}
  /\ held' = [held EXCEPT ![p] = @ \cup {[lock |-> Head(todo[p]).lock,
                                          mode |-> Head(todo[p]).mode]}]
  /\ todo' = [todo EXCEPT ![p] = Tail(@)]
  /\ UNCHANGED phase

\* The readers that wait when a writer unlocks come before the next writer.
Admitted(p) ==
  IF Head(todo[p]).mode = "W"
  THEN {q \in Procs : WantsLock(q) /\ Head(todo[q]) = Lock(Head(todo[p]).lock, "R")}
  ELSE {}

UnlockStep(p) ==
  /\ todo[p] # <<>> /\ Head(todo[p]).op = "unlock"
  /\ LET l == Head(todo[p]).lock
     IN  held' = [q \in Procs |->
                    CASE q = p -> held[p] \ {[lock |-> l, mode |-> Head(todo[p]).mode]}
                      [] q \in Admitted(p) -> held[q] \cup {[lock |-> l, mode |-> "R"]}
                      [] OTHER -> held[q]]
  /\ todo' = [q \in Procs |-> IF q \in {p} \cup Admitted(p) THEN Tail(todo[q])
                                                           ELSE todo[q]]
  /\ UNCHANGED phase

Decides(p, from) == phase[p] = from /\ todo[p] = <<>>

Does(p, to, operations) ==
  /\ phase' = [phase EXCEPT ![p] = to]
  /\ todo' = [todo EXCEPT ![p] = operations]
  /\ UNCHANGED held

-----------------------------------------------------------------------------
(* txnScheduler.run.                                                        *)

Begin(p) == Decides(p, "idle") /\ Does(p, "speculative", Peek(Core) \o Pin)

\* The working set is over its limit: no speculation.
BeginLimited(p) ==
  /\ Decides(p, "idle")
  /\ Does(p, "replay", Peek(Core) \o Pin \o Unpin \o <<Lock(Commit, "W")>>)

\* Reads of the core body go to the pinned Store.  Those of a shard look at its
\* maps, or lease its Store and page the record in.
SpecReadShard(p, b) ==
  /\ Decides(p, "speculative") /\ b # Core
  /\ \/ Does(p, "speculative", Peek(b))
     \/ Does(p, "speculative", Lease(b) \o Edit(b))

\* resolveID of an id nobody has here: sharedFetch, and where this node is the
\* authority serveLocalMemory, which looks in the core body itself and pages
\* in.  (Its lease of the pinned guard waits for nobody: who writes the guard
\* has dataMu.)
SpecFetch(p) ==
  /\ Mesh
  /\ Decides(p, "speculative")
  /\ \/ Does(p, "speculative", Peek(Core))
     \/ Does(p, "speculative", Edit(Core))

\* emit_event: enqueueEvent and dispatchPhysicalEvent ask for the Fabric root.
SpecEmit(p) ==
  /\ Emits
  /\ Decides(p, "speculative")
  /\ Does(p, "speculative", Peek(Core))

SpecError(p) ==
  /\ Decides(p, "speculative")
  /\ Does(p, "idle", <<Unlock(Guard(Core), "R")>>)

\* The run has met a forbidden primitive.
SpecBlocked(p) ==
  /\ Decides(p, "speculative")
  /\ Does(p, "replay", Unpin \o <<Lock(Commit, "W")>>)

SpecReturn(p) ==
  /\ Decides(p, "speculative")
  /\ Does(p, "commit", Unpin \o <<Lock(Commit, "W")>>)

\* The diff is valid and applied, or there is a conflict.
CommitDiff(p, owners) ==
  /\ Decides(p, "commit")
  /\ \/ Does(p, "idle", CommitOwners(owners) \o <<Unlock(Commit, "W")>>)
     \/ Does(p, "replay", CommitOwners(owners))

Canonical(p) == Decides(p, "replay") /\ Does(p, "canonical", Peek(Core))

CanonRead(p, b) == Decides(p, "canonical") /\ Does(p, "canonical", Lease(b))
CanonEdit(p, b) == Decides(p, "canonical") /\ Does(p, "canonical", Edit(b))

\* persist, space_unmount.
CanonPersist(p, b) ==
  /\ Decides(p, "canonical")
  /\ \/ Does(p, "canonical", Journal(b))
     \/ Does(p, "canonical", Save(b))

\* Mutant of CanonReturn: an error path forgets to unlock.
CanonReturnLocked(p) ==
  /\ Decides(p, "canonical")
  /\ \/ Does(p, "idle", <<Unlock(Commit, "W")>>)
     \/ Does(p, "idle", <<>>)

CanonReturn(p) ==
  /\ Decides(p, "canonical")
  /\ Does(p, "idle", <<Unlock(Commit, "W")>>)

\* emit_event below call_isolated: the new Frame does not say that this is a
\* canonical run, and the handler is scheduled like that of a new request.
InnerDispatch(p) ==
  /\ Decides(p, "canonical")
  /\ Does(p, "inner", Peek(Core) \o Pin \o Unpin \o <<Lock(Commit, "W")>>)

-----------------------------------------------------------------------------
(* persistAll and closeStore of other goroutines.                           *)

Persist(p, b) ==
  /\ Decides(p, "idle")
  /\ \E code \in {Journal(b), Save(b)} : Does(p, "saving", code)

\* unmountSpace closes the Store of a shard.
CloseStore(p, b) ==
  /\ Decides(p, "idle") /\ b # Core
  /\ Does(p, "saving", Swap(b))

Persisted(p) == Decides(p, "saving") /\ Does(p, "idle", <<>>)

Init ==
  /\ phase = [p \in Procs |-> "idle"]
  /\ todo = [p \in Procs |-> <<>>]
  /\ held = [p \in Procs |-> {}]

Request(p) ==
  \/ Begin(p) \/ BeginLimited(p)
  \/ SpecFetch(p) \/ SpecEmit(p)
  \/ SpecError(p) \/ SpecBlocked(p) \/ SpecReturn(p)
  \/ Canonical(p) \/ CanonReturn(p)
  \/ \E owners \in OwnerLists : CommitDiff(p, owners)
  \/ \E b \in Body : \/ SpecReadShard(p, b) \/ CanonRead(p, b)
                      \/ CanonEdit(p, b) \/ CanonPersist(p, b)

Storage(p) == Persisted(p) \/ \E b \in Body : Persist(p, b) \/ CloseStore(p, b)

Next == \/ \E p \in Procs : LockStep(p) \/ UnlockStep(p)
        \/ \E p \in Requests : Request(p)
        \/ \E p \in Persisters : Storage(p)

Spec == Init /\ [][Next]_vars

\* The same with programs that emit events from an isolated call of a canonical
\* run.
EventSpec == Init /\ [][Next \/ \E p \in Requests : InnerDispatch(p)]_vars

-----------------------------------------------------------------------------
(* Goroutines each of which waits for a lock another one of them, or itself, *)
(* keeps from it.                                                           *)
Deadlocked(S) == S # {} /\ \A p \in S : BlockedBy(p) \cap S # {}

(* Nobody waits for everybody.  The code says so of dataMu and the guard    *)
(* (persistence_runtime.go:183), of commitMu and the guard                  *)
(* (scheduler_runtime.go:91), and of nested events (event_runtime.go:299).  *)
NoDeadlock == \A S \in SUBSET Procs : ~Deadlocked(S)

(* The order that rules deadlocks over shards out: the path of the core     *)
(* comes first.  (Memory.mem comes after its shards Memory.*.mem.)          *)
CoreFirst == \A b \in Body : Place[Core] <= Place[b]

(* p replaces the Store of the core body and waits for those who read it.   *)
SwapsCore(p) == WaitsToWrite(p, Guard(Core))

(* p has pinned the Store of the core body and waits for the dataMu of a    *)
(* shard whose path comes before that of the core, or, in a mesh or with an *)
(* event, for that of the core itself.                                      *)
WaitsPinned(p) ==
  /\ Has(p, Guard(Core), "R") /\ WantsLock(p)
  /\ \E b \in Body : /\ Head(todo[p]).lock = Data(b)
                     /\ Place[b] < Place[Core] \/ (b = Core /\ (Mesh \/ Emits))

(* Unless an isolated call emits an event, every deadlock is one between a  *)
(* speculative run that pins the core's Store and goes back for an earlier  *)
(* dataMu, and a call that replaces the Store: commits of several owners,   *)
(* leases, page-ins, saves and closes are in no other                       *)
(* (lockSpeculativeCommitOwners, acquireStoreLifetimeLease,                 *)
(* finalizePersistedBody, closeStore).                                      *)
OnlyPinnedDeadlock ==
  \A S \in SUBSET Procs :
    Deadlocked(S) => (\E p \in S : SwapsCore(p)) /\ (\E p \in S : WaitsPinned(p))

(* What a goroutine holds at a decision. *)
Entitled(ph) ==
  CASE ph = "speculative" -> {[lock |-> Guard(Core), mode |-> "R"]}
    [] ph \in {"commit", "replay", "canonical"} -> {[lock |-> Commit, mode |-> "W"]}
    [] OTHER -> {}

(* At every decision a goroutine holds what it is entitled to and nothing   *)
(* else: the pinned Store while it speculates, commitMu from validation to  *)
(* the end of the replay, nothing at rest, whatever way its call has ended. *)
HoldsOnly == \A p \in Procs : todo[p] = <<>> => held[p] = Entitled(phase[p])
=============================================================================
