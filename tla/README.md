# MemoryAI kernel: TLA+ models, model checking and proofs

This directory holds a verification development for the Go kernel in
`Kernel/src`: TLA+ modules translated from the code, TLC configurations for small
instances, and TLAPS proofs for every value of the constants. File names below
are relative to `Kernel/src` unless they say otherwise.

## 1. The system

MemoryAI runs programs that are themselves data: a *Memory* is a record with an
id, tags, state and a program, and a *body* is a `.mem` file (a zip) that stores
Memories in an indexed store. The kernel loads a body into an `Engine`, executes
the programs of its Memories, and writes the changes back. Several kernels form a
mesh in which one node, the sovereign, authorises what others propose.

| Component | State | Operations | Talks to |
|---|---|---|---|
| **Engine** (`kernel.go`, `fabric_write_runtime.go`, `fabric_read_runtime.go`) | `cache`, `newIDs`, `dirtyIDs`, `deletedIDs`, `dirty`, tag deltas, the open `IndexedStore` | resolve an id (with page-in), the `memory_*` and `program_*` primitives, explicit upsert and delete | everything |
| **Mutation journal** (`mutation_journal_runtime.go`) | two 32 KiB slots in the zip comment of the body | snapshot, read, write a slot, restore, clear; `persistEngineIncremental` | Engine, file |
| **Full persistence** (`persistence_runtime.go`, `saveBody`) | the per-Engine persistence lock, the snapshot being written | list, copy, write, rename, reopen, reconcile | Engine, journal, activation index |
| **Indexed store** (`store.go`, `store_access_runtime.go`) | binary-searched id and tag indexes; a lifetime guard per store | `GetID`, `TagIDs`, leases | Engine, persistence |
| **Transaction scheduler** (`scheduler_runtime.go`, `speculative_*.go`, `parallel_runtime.go`) | `commitMu`, per-transaction snapshots and baselines | run speculatively, validate and commit, replay canonically | Engine, events |
| **Origin's mesh journal** (`mesh_journal_runtime.go`) | the spool of deferred requests, in a Memory record and in `m.journal` | defer, flush, proposal to ACK, remove | Engine, sovereign |
| **Sovereign's replay ledger** (`mesh_proposal_replay_runtime.go`, `mesh_authority_runtime.go`, `mesh_state_memory.go`) | receipts, per-slot fences, the slots being executed, shared records | prepare, dispatch, finalise, acknowledge | Engine, events, origins |
| **Mesh grants** (`mesh_grant_runtime.go`, `mesh_execution_routing.go`, `mesh_shared_runtime.go`) | consumed nonces, receipts, calls in progress | issue, route, consume, prune | Engine, HTTP |
| **Node directory** (`mesh_state_memory.go`, `mesh_authority_runtime.go`) | node id to public key, in the process and in the body | register, recover | Engine, HTTP |
| **Interpreter** (`kernel.go`, `resource_runtime.go`, `physical_limits_runtime.go`, `security_runtime.go`) | Frames, resource scopes, the Go stack | run, call, isolate, edit, check budgets and ceilings | everything |
| **External I/O** (`source_adapter_runtime.go`) | request records: pending, executing, response-ready, done, failed, ambiguous | execute, deliver, redeliver, quarantine | Engine, adapters |
| **Events and daemon** (`event_runtime.go`, `daemon_runtime.go`) | sockets, handlers, event queue | dispatch an event, persist, stop | scheduler |
| **Durable transfer** (`remote_durability_runtime.go`) | the candidate in the target, the tombstone in the source | copy or move a Memory between bodies | fabric, journal |
| **Remote storage** (`kernel.go` `handleMemNodeConn`, `remote_body_txn_runtime.go`) | per-path transaction locks, open images | create, read, put, delete; mount | file, clients |
| **Fabric** (`shard_runtime.go`, `fabric_context_runtime.go`, `scale_runtime.go`) | mounted bodies, writable shard | mount, place, enumerate | Engine |
| **Activation index** (`activation_*.go`) | exact and sparse index, overlay of pending changes | build, query | Engine, store |

What is hard about it: persist calls run concurrently with mutations and with
page-ins and swap the store under both; a crash may tear a slot or fall between
any two steps; a failed call leaves work half done; mesh requests are lost, time
out, are retried and overlap their own retries; external effects must not be
repeated; transactions validate optimistically; locks of four kinds nest; programs
edit programs, raise events and share Frames with the handlers of these; clients
give up on requests that go on.

What makes each component correct: *Engine and persistence*: a reader sees
every mutation performed, and a restart brings back no record older than the last
acknowledged persist call. *Mesh journal and ledger*: a proposal is executed at
most once, revisions are executed in order, a receipt is collected only when no
retry needs it. *External I/O*: an external effect happens at most once. *Grants*:
a side-effect grant is used at most once. *Directory*: an acknowledged identity
keeps its key. *Transfer*: a move never loses the newest content. *Storage node*: an
update replaces only what its client has seen. *Scheduler*: no committed update is
lost, a speculation leaves no trace, nobody waits for himself. *Interpreter*:
budgets and ceilings hold whatever programs do to each other. `PROJECT.json` lists the
hazards at their lines; section 5 has those at which the code gives way.

## 2. The modules

| Module | Content |
|---|---|
| `MemoryBody` | one body: Engine, mutation journal, full save, crash and restart |
| `DurableMap` | abstract specification: what a body promises to the components that persist through it |
| `MeshProposal` | the origin's spool and the sovereign's ledger, for one proposed Memory |
| `ExternalIO` | external requests: the programs that create them and the executor |
| `Transactions` | the scheduler: speculation, validation, commit, canonical replay |
| `KernelLocks` | the locks of requests and persist calls |
| `MemoryFabric` | the core body and its shards: placement, mounting, transfer, merge |
| `StorageNode` | a body served to remote clients, and mounted by the same process |
| `PrimitiveVM` | the interpreter, budgets, ceilings, events |
| `MeshGrant` | granted executions: routing, consumption, receipts |
| `MeshDirectory` | registration of node identities and their recovery |

`MC<Module>` instantiates a module for TLC; `<Module>Proofs` (for `MemoryBody`,
`MeshProposal`, `Transactions`, `KernelLocks`, `MemoryFabric`, `PrimitiveVM`) holds its
theorems, `MeshAuthorityProofs` those of `MeshGrant` and `MeshDirectory`, `ExternalProofs` those
of `ExternalIO` and `StorageNode`. The modules are layered: `MemoryBody` shows that a body implements
`DurableMap`, and the modules above it use that promise (a record written is seen at
once, a persist call that succeeds makes it durable, one that fails may or may not)
instead of the journal and the saves. Each `PROJECT.json` map entry names the lines a
definition stands for.

### MemoryBody

*State.* `cache`, `store`, `newIDs`, `dirtyIDs`, `deletedIDs`, `dirty` are the
fields of `Engine`; a record is a value of `Vals` and `None` stands for a nil
pointer, `io.EOF` or a journal tombstone. `pagein[id]` is the record a handler has
read in `resolveIDLocal` between releasing and retaking `dataMu`; `lane[id]` is a
mutation between two of its critical sections. `pc`, `todo`, `snap`, `payload` are
the holder of the persistence lock. `base`, `region`, `slots` are the file: the
records of its store, whether it has a journal region, the two slots. A slot with
sequence number 0 is one that `decodeMutationJournalSlot` rejects (zeroed or torn).
A base fingerprint is a hash of the deterministic contents, so the contents stand
for it.

*History.* `expect` is the record each id has according to the mutations
performed; `since[id]` collects the records an id has had since the persist call in
progress began; `recover[id]` is what a restart may bring back. A call that reports
success intersects `recover` with `since`; a call that fails promises nothing.

*Actions.*

| Action | Code |
|---|---|
| `Modify` | `memory_*` primitives: change and mark under `dataMu` |
| `EditInPlace`, `MarkDirty` | `program_*` primitives other than `program_import`: the cached record is changed, then `markDirty` takes the lock of the owner |
| `ImportOwned`, `ImportForeign` | `program_import` run by another Engine than the owner's: the owner's record is changed and not marked; the Engine that runs the program marks an id it does not have. Run by the owner it is a `Modify` |
| `CacheDrop` | `cache_drop` of a record that is not marked |
| `UpsertLookup`, `UpsertOnOwner`, `AddRuntimeMemory` | `upsertExplicitMemoryBounded`: lookup and store probe, then the maps under `dataMu` with the earlier answer |
| `Delete` | `memory_delete`, `deleteExplicitMemoryBounded` |
| `SpeculativeCommit(w)` | `commitFabricSnapshotDiff` once the baselines are validated: all ids of `w` under the owners' locks |
| `PageInRead`, `PageInInstall` | `resolveIDLocal` of a request handler |
| `PersistNothing` | the three ways `persistEngineIncremental` returns nil without writing |
| `JournalSnapshot`, `JournalWrite`, `JournalWriteFails` | the journal path; a failing write leaves old, torn or new bytes |
| `SaveBegin`, `SaveCopy(id)`, `SaveRename`, `SaveFails` | `saveBody`: list, copy id by id, rename; a failure before or after the rename |
| `SaveFinalize`, `SaveWaits`, `SaveUnpinned` | `finalizePersistedBody`: the store is swapped and the sets reconciled (`Swap`), at once or after a wait, with `dataMu` held, for the speculative runs that have pinned the old store |
| `Crash`, `Restart` | the process dies anywhere, tearing the slot being written; `loadEngineWithMutationJournal` |

`SaveBegin` is enabled whenever the lock is free: `saveBody` is also called
directly, and `persistEngineIncremental` releases the lock before it falls back
to it.

*Abstractions.* Record contents are atomic: the data race between `copyMemory`
and a `program_*` primitive that changes the same record without `dataMu` is not
modelled. Mutations of one id are serialised, as the code does for the VM
(`commitMu`), for explicit upserts (`automaticShardMu`) and for the records owned by
the mesh journal, the ledger and the external-I/O executor (a mutex each);
mutations of different ids interleave. The shared mesh record is the exception: two
handlers may upsert it concurrently. Tag deltas are left out; several mounted bodies
are the subject of `MemoryFabric`.

*Disciplined ids.* The code loses a mutation in four sequences (section 5). The
constants `Recreated`, `SpecDeleted`, `Paged` and `Imported` name the ids whose workload may run
into them; the properties are stated for the other ids (`Disciplined`), which share
the body, the journal and the saves with them. `MemoryBody.cfg` has one id of each
kind, so the disciplined id is checked next to one for which everything may happen.

### DurableMap

A map `view` of ids to records and, per id, the set `recover` of records a restart
may bring back: a write adds to the set, a successful persist call shrinks it but
keeps the current record, a restart picks from it. Durability is promised id by id:
a save overtaken by a transaction may hold some of its records and not others. The
modules of the mesh and of external I/O build on this promise.

### MeshProposal

A node proposes revisions of a Memory to the sovereign, which executes the event
`mesh.shared.proposal` for each, records what it approves and answers. The module
models one *slot*: one Memory of one origin.

*State of the origin.* `journal` is `m.journal`, `spool` the record it is saved in,
both sequences of requests in the order in which they are flushed. `stage`, `todo`,
`req`, `chained`, `server`, `answer` are the call in progress; there is one at a
time, because `mesh_shared_propose` and `mesh_journal_flush` never run speculatively
and hold the commit lane. *State of the sovereign.* `handler[h]` is a request being
handled, `live` is `st.live` of the slot, `receipt[r]` the receipt of revision `r`
(none, executing, or done with its result), `slot` the slot record with the latest
and the acknowledged revision, `shared` the shared record, `directory` the entry of
`m.shared`. Each persisted record has a companion (`spoolBack`, `receiptBack`,
`slotBack`, `sharedBack`): the values a restart may bring back, as in `DurableMap`.
*History.* `execs`, `decided`: what the event did; `claim`: whether the origin has
settled a revision.

| Action | Code |
|---|---|
| `ProposeShared` | `proposeSharedDurable` up to the RPC: the proposal replaces an older one in the spool, durably |
| `Flush`, `FlushNext` | `flushMeshDeferredJournal`: the entries pending at the beginning, in order |
| `Send`, `RpcFails` | `authorityRPC`: request lost, time-out while the handler goes on, error response |
| `ProposalAnswered` | spool entry becomes an ACK, which is sent next |
| `AckAnswered` | `removeDeferredMeshRequestExact` |
| `Prepare`, `Replay`, `Refuse` | the outcomes of `prepareMeshProposalReplay` |
| `FrameFull`, `Dispatch`, `Finalize` | `executeMeshProposalEventOnce` |
| `Share`, `Install` | `authorizeSharedProposal` after an approval |
| `Acknowledge`, `AckAgain`, `AckRefused` | `ackMeshProposalReplay`: fence, then deletion |
| `BackgroundPersist` | any other `persistAll` of either kernel |
| `OriginRestart`, `SovereignRestart` | recovery from the body |

*Abstractions.* A request is identified by its revision: the Memory is saved
together with the spool before the request leaves, so a revision that was sent
keeps its digest. Revisions start at 1, as those of proposals that can be
acknowledged do. "denied" also stands for the answer `pending-memory-policy`, which
takes the same path. A write and the persist call behind it are one step; a crash
between them is a failing persist call followed by a restart. With `Faults` a
persist call may fail after each of the writes of the call it belongs to. The
receipts and the slot are disciplined ids in the sense above: they are written
under `st.mu`, and a receipt is not created again once deleted, because the slot
refuses its revision. The branch "transition source missing" cannot be reached while
the origin's calls are serialised. A request waits for a free handler: the bound
on `Handlers` stands for the unbounded number of goroutines of the HTTP server.

### ExternalIO

A program creates a request record, the idle ticker of the daemon executes it against
a source, delivers the response as an event and marks the request done.

*State.* `request[id]` is the record: its lifecycle tag and which of the two fields
that the executor requires are set; `requestBack[id]` are the records a restart may
bring back, as in `DurableMap`. `author[id]` is the operation the creating program
does next, `pointer[id]` the `*Memory` its `state_set` has resolved: still the one in
the cache, or replaced by an upsert of the executor. `phase`, `todo`, `step`, `cur`,
`copy` are the pass of the executor. *History.* `effects` counts the calls of the source;
`delivered` are the requests whose response event was handled.

| Action | Code |
|---|---|
| `MemoryNew`, `StateSetResolve`, `StateSet` | the primitives of the creating program, with the lookup outside `dataMu` |
| `Tick`, `NextPhase` | `runPhysicalIdleTicker`, the three parts of `processExternalIORequests` |
| `Quarantine`, `Redeliver`, `Execute`, `Unreadable` | the next listed id of each part |
| `Write`, `PersistFails`, `UpsertFails` | `persistExternalRequest`, and which call follows |
| `Call` | `executeSourceAdapterInput`: called with or without usable response, or not called |
| `Deliver`, `DeliverFails` | `deliverExternalResponse` |
| `BackgroundPersist`, `Restart` | another `persistAll`; the kernel restarts |

*Abstractions.* Ids are taken in any order (the code sorts generated ids). A handler
that fails may have run in part; only a delivery without error counts. The programs
shipped in `Kernel/current-required-structures.json` never change the lifecycle tags of
a request nor delete it, and neither does `Author`. The ticker fires the event `idle`
before each pass; what its programs do is among the actions of `Author`.

### Transactions

`txnScheduler.run` for a set of requests. A record is reduced to the transactions
whose updates it reflects (`mark`) and those that have run it (`ran`): a program
computes what it writes from what it has read, so an update adds its mark to the
marks it saw, and a lost update shows as a missing mark. *State.* `rec` are the
records of the fabric, `dirty` the ids not yet in the base file, which is what a
snapshot has to copy and what counts against its limit. Of a request: `snap`, the
pinned Store and the copies made at the start; `view`, the private records; `base`, the
baselines of what it has read; `pend`, the ids its private Engine has marked dirty or new;
`stage`, `ops`; `lane` is the holder of `commitMu`.

| Action | Code |
|---|---|
| `Snapshot`, `SnapshotLimit` | `snapshotForSpeculationLazy`; the working set is over its limit |
| `SpecRead`, `SpecReadLimit`, `SpecEdit`, `SpecDelete`, `SpecCall` | primitives of a speculative run; shard records are copied when first read |
| `SpecDrop`, `CanonDrop` | `cache_drop` of a record that is not marked: of the private copy, whose loss the commit takes for a deletion, or of the core body's cached record, which comes back with an earlier counter |
| `Forbidden`, `ForbiddenTried`, `SpecError`, `SpecReturn` | how the run ends; `ForbiddenTried` is a forbidden primitive whose error a `call_try_isolated` swallows. An error is replayed when the side-effect flag is set (`SpecFails`) |
| `FrameOver` | the Frame of a finished run is over its ceiling: an error, whatever the flag says |
| `Commit` | `commitFabricSnapshotDiff` under `commitMu`: validation, then all of it, or a conflict |
| `Canonical`, `CanonRead` ... `CanonReturn`, `Effect` | the replay in place, under `commitMu`; external effects happen here only |
| `Persist` | `finalizePersistedBody` of a full save drops a record's mark, which takes it out of the snapshot's working set; it holds the Store's guard, so no speculative run is under way |

### KernelLocks

The goroutines of `Transactions` and `MemoryBody` reduced to the locks they take:
`commitMu`, and for each body the persistence lock, `dataMu` and the lifetime guard of
the open Store. Between two decisions a goroutine executes a sequence of lock and
unlock operations (`todo`), written once per function of the code (`Lease`, `Pin`,
`CommitOwners`, `Swap`, `Save`...). Read-write locks are those of Go: a waiting writer
keeps new readers out, and lets those that wait in when it unlocks. `Place` is the order of the
bodies' paths, in which a commit locks its owners (`OwnerLists`); the constants leave it
open, because it decides whether there is a deadlock, and the run takes that of the
default names: `Memory.mem` is the core and `Memory.*.mem` its shards, which come first. A run that
pins the core reads shards (`SpecReadShard`); with `Mesh` it also looks up ids that are not
local, and `sharedFetch` of a record whose origin is this node ends in `serveLocalMemory`, which
takes `dataMu` of the core (`SpecFetch`); with `Emits` it raises events, which take it too
(`SpecEmit`). `EventSpec` adds the way in which a handler below an isolated call enters the
scheduler again (`InnerDispatch`): a goroutine that waits for itself.

### MemoryFabric

Core body and mounted spaces. A body is what `MemoryBody` shows of it: records, tombstones,
creations, the ids of its base file, the durable contents and the deletions in its journal
(`graves`, which a load makes tombstones again); a persist call journals or
saves, and may fail before or after its bytes are in place. A journal write makes durable all
that the body answers with, where the code writes the marked ids: `MemoryBody` shows that
what is not marked is already in the file. `xfer` is the transfer in
progress: one, because the `space_*` primitives hold the commit lane. The actions of a
transfer are the steps of `transferMemoryDurable` between which handlers may upsert,
delete and persist the record: `TransferBegin`, `TransferLookup`, `TransferAdd`,
`TransferPersist`, `TransferFailed` (probe of the file, then roll back, keep or leave),
`TransferVerify`, `TransferDelete` (compare and delete), `TransferPersistSource`,
`TransferCheck`, `TransferRestore`, `TransferReturn`. `Upsert` places a new record under the shard
limit, `SpaceCreate`, `SpaceMount`, `SpaceUnmount`, `SelectWrite`, `SpaceMerge` are the
topology primitives, `Restart` mounts the automatic shards again. *History.*
`version[id]` is the newest content, `dead[id]` the newest one deleted on purpose.

### StorageNode

One record of one body. `registry`, `refs`, `owner` are `remoteBodyTxnLocks`:
entries are objects in memory, and the registry may point to another entry than the
one a connection waits for. `conn` is a request being served, with the image it has
loaded; `client` an operation in progress, with what the client has seen. Actions:
`Enter`, `Acquire`, `Close`, `Leave` (lock), `Stat`, `Make`, `Open`, `Read`, `Put`, `Delete`,
`Persist` (`handleMemNodeConn`), `Start`, `Request`, `Send`, `GiveUp` (the `remote_space_*`
primitives, which read a digest and send it as the expected one), `StartMount`,
`MountBody`, `LiveEdit`, `UnmountBody` (the same body in a live fabric; a body that cannot be
persisted stays mounted). `buried` says that the journal holds a deletion of the record: a put
is then stored and acknowledged, and stays hidden (section 5). `GiveUp` leaves the request running.

### PrimitiveVM

`Engine.run` with its stack made explicit: `stack` holds runs, transactions and event
dispatches, each with its Frame (`f`) as it was when it was left; `ret` is what the call that
has just ended answers and `back` the Frame it leaves. A Frame that the code shares by pointer is
passed to the callee when it is pushed and comes back with its answer; nobody looks at it
in between. A record has a `life`: an id that is
"unborn" may be given away once, one that is "gone" is never used again. Primitives are
grouped by what they do to records, Frames and control (`SetVar`, `ListAppend`, `Read`,
`ReadList`, `Parse`, `Grow`, `New`, `Delete`, `Splice`, `Cut`, `Call`, `EmitEvent`, `Jump`,
`Halt`...); the map lists the cases of `execPrimitive` each stands for. Before each
operation the capability and the budgets are checked (`Refuse`, `Allowed`), after it the
budgets again (`OverBudget`); `Exit` restores the resource scope on every way out.
`DispatchStart`, `HandleSerial`, `HandleFork`, `HandlerReturn`, `Merge`, `DispatchDone` are
`dispatchPhysicalEvent` and `enqueueEvent`. `TxnReturn` discards or keeps what a
scheduled run did; conflicts are the business of `Transactions`. A nested dispatch that enters
the scheduler below a canonical run never comes back, unless the handler fails before it
needs the lock (`Hang`; section 5): the dispatch is "hung" and the system stops there. A Go stack
that overflows ends the process (`crashed`).

*Ceilings.* A Frame has a ceiling of variables and one of bytes: a variable is one byte for
its key and one more for a value that is not empty (`Bytes`), so that a handler may grow a
Frame without adding a variable. A record has a ceiling of operations and one of bytes, which
counts its program too (`RecordBytes`). Which of them a primitive checks is taken from the code
and differs from one to the next.

`Operations` and `Events` are the operations of any programs and the names of any events.
`KeptAssumption`: `call_isolated` copies the variables it is told to keep without looking at the
ceiling of a Frame (section 5); the model assumes that no operation names more than fit.

### MeshGrant

`calls` are `routeExecution` (the nodes in rotated order until one answers), `fanout`,
`sharedExecute` and `sharedFetch`; `Issue` sends a grant to the next node, `GiveUp` is the
time-out, `Receive` delivers a request, again and again as long as somebody has it.
The goroutine that serves it goes through `LoadOrStore` (nonce), `Lookup`, `Prune`,
`PruneSave`, `Count`, `Upsert`, `Save`, `Clean` and `Serve`, with one step per access to shared
state; a failure at any of them is `Deny`, which drops the nonce. `Restart` empties the
nonces and brings back the receipts of the body. *History.* `ran` counts the executions,
`stalled` are the grants whose receipt was looked up after they had expired.

### MeshDirectory

`register_node` checks the directory (`RegisterNode`), writes the record (`RegisterUpsert`),
saves (`RegisterSave`) and publishes (`RegisterPublish`), in critical sections of their own.
`SovereignRestart` starts serving with an empty directory; `RecoverRead` and
`RecoverPublish` are `recoverSovereignMeshState`. *History.* `acked` are the acknowledged
keys, `loose` the ids registered before recovery was complete or with two keys at once.

## 3. The runs

| Run | Bounds | Shows |
|---|---|---|
| `body` | ids a, b; one content; two journal generations per file | every interleaving of all actions (379,351 states): `ReadYourWrites`, `AckedDurable`, `JournalOfThisBase`, `PersistNeverRefused`, the refinement `Implements` of `DurableMap`, and `PersistReturns`: a persist call ends although mutations never stop, unless it waits for a pinned run for ever |
| `mesh` | two handlers, two revisions, spool of 2, ledger of 2, restarts, failing persist calls | `OneAtATime`, `AnswerOfExecution`, `SharedIsApproved`, `AtMostOnce`, `InOrder`, `CollectedIsSettled`, `NeverResurrected` |
| `mesh_live` | one handler, two revisions, fair | `Drains`: proposals and ACKs leave the spool, superseded proposals included |
| `external` | one request, two restarts, failing reads and writes, fair | `EffectAtMostOnce`, `DoneIsDelivered`, `ResponseKept`, `Settles` |
| `txn` | two requests, three core records (one not yet created), one shard record, three operations each, working set of two | `NoLostUpdate`, `RunsCounted`, `NoTrace`, `EffectAtMostOnce` |
| `locks` | two requests, two persist calls, core and one shard, the shard's path first, in a mesh, with events | `OnlyPinnedDeadlock`: every deadlock is one of a pinned run and a swap, as in section 5; `HoldsOnly` |
| `fabric` | one id, three contents, one space, limit of one record, one failing persist call, one restart | `KeepInv` (every durable content that was not deleted has a body that keeps it), `NewestKept`, `TransferAnswers` |
| `node` | two clients, two connections, two lock entries, three revisions, two operations, mounts | `Exclusive`, `MountedOrPassive`, `CompareAndSwap` |
| `vm` | four ids, a library of 18 programs, event depth 1, two calls from outside, byte ceilings that some Frames reach before the count | `CeilingsKept`, `BudgetKept`, `SeesItsEvent`, `FailedChangesNothing`, `NoHandlerSuppressed`, `Ends` |
| `grants` | Sovereign and one target, two goroutines, two grants, two calls, one second of validity, one receipt, one fault | `ExecutedOnce`, `FencedFirst`, `RouteOnce` |
| `directory` | two ids, two keys, two goroutines, two faults | `IdentityKept` |
| `locks_events` | as `locks`, without a mesh, with `EventSpec` | the findings of section 5 |

*Why the bounds are enough.* In `body`, sequence numbers restart at 0 with every full save,
so two generations use both slots; a torn slot may come at each of them, any number of
times. One content together with `None` tells presence from absence, which is what the
mutation sets are about. Two ids are needed for a save that copies one record before and
one after a commit; the number of mutations, saves, failures and crashes is not bounded, and a
full save may begin whenever the lock is free, so the fall-back of a full journal needs no
full journal. In the mesh runs, two
handlers overlap a delivery with its retry or with the delivery of a newer revision;
retries, losses, time-outs, restarts and failures are not bounded. In `external`, two
restarts let the second one hit the recovery from the first; requests share
nothing but the order of the pass, and the theorem covers any number. In `txn`, two requests
and two existing core records give the conflicts on one and the overlap on two; the working set of two is
reached by creating or by reading. In `locks`, two requests and two savers give a
waiting writer of each kind behind readers of each kind. In `fabric`, three contents are an
old one, the one transferred and a newer one; one body at its limit and one with room; a
failure and a restart fall at every step. In `node`, two lock entries let a connection hold an
entry that the registry has already dropped. In `vm`, all records of the library are
combined (8 x 6 x 5) under three entry calls, and ceilings are reached with one item to spare
and with none; more values would repeat the same comparisons. In `grants`, the
clock passes the expiry once; two goroutines give every pair of deliveries, and one receipt
makes the ledger full at the second grant.

*Stopping.* `txn`, `fabric`, `node`, `vm` and `grants` stop when their bounds are used up, and
their configurations do not check for deadlock; in `locks` waiting is the subject of
`OnlyPinnedDeadlock`, and the system does stop.

*Fairness.* `body` assumes weak fairness of the steps of the goroutine that holds the
persistence lock (`PersistStep`), and nothing about mutations, handlers or crashes:
the Go scheduler runs a runnable goroutine, and these steps wait for nothing but `dataMu`.
The one step that waits for somebody else, `oldGuard.Lock()` in `finalizePersistedBody`
(`SaveUnpinned`), has no fairness: a speculative run may keep the guard as long as it runs, or for
ever in the deadlocks of section 5. `PersistReturns` has it as its antecedent: if the runs that
pin the old store end whenever it waits for them, the call returns. Other holders of `dataMu` do not block,
but for those cycles, and `OnlyPinnedDeadlock` says that each of them has such a run and such
a wait in it. Failing steps are in the
disjunction: the call returns, with success or with an error. `mesh_live` assumes
that the origin's program calls `mesh_journal_flush` again and again (the kernel has
no timer of its own for it: the fairness is that of the program), that of requests
sent again and again some arrive, that of handlers an origin waits for some are
faster than its time-out, and that handlers run on. Restarts and failing persist
calls are excluded there: a proposal whose execution a crash interrupted stays
fenced for ever, by design. So is an event that fails: its error is replayed to
each retry and the proposal stays in the spool. `external` assumes that the ticker
goroutine runs (`WF` of `Executor`; the programs of `idle` return, the source answers
or times out, and `persistAll` returns: it is not in one of the deadlocks of section 5)
and that of the deliveries tried again and again one succeeds. Nothing is
assumed of the creating programs. `vm` assumes no fairness: `Ends` says that no call takes
infinitely many steps, not that every call comes back; a program that is "hung" takes none.

## 4. What is proved

`MemoryBodyProofs` proves, for every choice of the constants that satisfies
`ConstantsAssumption` (any set of ids, any contents, any bounds):

* `BodyInvariant`: `Spec => []BodyInv`, and from it
* `TypeCorrect`, `ReadsAreCurrent`, `AcknowledgedIsDurable`,
  `JournalBelongsToBase`, `PersistIsNeverRefused`;
* `KeepsPromise`: `Spec => Implements`, a body implements `DurableMap`.

*The inductive invariant.* `AckedDurable` speaks about the file, the mutations
happen in memory, and a save carries records from one to the other while both
change; so the invariant relates the three. `TrackInv`: an id without a pending
mark has the same record in cache, store and file, and whatever the newest slot
mentions is still pending (otherwise a later snapshot would forget it while the
slot still says it). `SlotInv`: a slot that decodes lies where its sequence number
puts it, over the base it was written for; hence the next write never hits the
newest slot. `LaneInv`: what an upsert learned before taking `dataMu` errs only on
the harmless side: a save can put the id into the store, never take it out.
`CopyInv`: what the call in progress has copied is a record the id has had since it
began, and for an unmarked id it is the current one; so dropping the marks in
`finalizePersistedBody` is sound. There is one lemma per action and conjunct that
the action can disturb.

*The refinement.* What a reader sees is mapped to `Seen`, the records a restart may bring
back to `Back`, both over the disciplined ids. Under `BodyInv` `Seen` is `expect`
(`SeenIsExpected`), so every mutation maps to `Write` whatever map it goes through
(`PerformWrites`); page-ins, snapshots, copies and persist calls that fail map to stutters
(`Unseen`); a persist call that succeeds maps to `Persist`, as it forgets older
records and never the current one (`PromisePersists`); and `AckedDurable` makes the
record a restart finds a member of `Back` (`RestartMaps`).

`MeshProposalProofs` proves, for every choice of the constants that satisfies
`MeshConstants` (any set of handlers, any number of revisions, any bounds, with or
without failures and restarts):

* `LedgerInvariant`: `Spec => []LedgerInv`, and from it
* `MeshTypeCorrect`, `ExecutedAtMostOnce`, `ExecutedInOrder`, `ExecutionsExclude`,
  `AnswersAreOutcomes`, `SharedWasApproved`;
* `SettleInvariant`: `Spec => []SettleInv`, and from it and `LedgerInv`
* `SettledStaysSettled` (`NeverResurrected`), `ReceiptsOutlast` (`CollectedIsSettled`).

*The inductive invariant.* Receipts may be collected, so they cannot carry
`AtMostOnce`; the slot record does. `ExecInv`: an executed revision is covered by
the slot record and by every slot record a restart may bring back, and the
revision being executed is the latest of each of them. This is where the order of
`prepareMeshProposalReplay` matters: the slot is durable before the event is
dispatched, and a prepare whose persist call fails does not dispatch. `ResultInv`:
what a receipt says, or may say after a restart, what a handler is about to answer
or to record, and what the shared record says is the outcome of an execution.
`CallInv` ties the handler an origin waits for to the request it sent, so that the
answer to an earlier, abandoned delivery is never taken for that of the current
one. There is one lemma per action; `ExecFrame`, `ResultFrame` and `RespondCall`
are the parts they share.

*Both sides.* That a receipt is deleted only for a revision its origin has settled relates
two kernels with lost requests and two restarts between them. `SettleInv` follows the ACK: a
spool, in memory or one that a restart may bring back, has at most one proposal, and that is
not settled, unless the same revision was proposed again (`SpoolInv`); an ACK that is flushed,
on the wire or in a handler is of a settled revision (`AckInv`), so it may arrive late or
twice; and a receipt that is missing, or may be after a restart, is that of a settled
revision, or of one neither executed nor about to be (`CollectInv`). A revision goes from
open to settled to reopened and never back, which is why what is known of a message sent
long ago stays true.

`ExternalProofs` proves of `ExternalIO`, for every choice of the constants that satisfies `IOConstants`
(any requests, any number of restarts, with or without failures):

* `ExecutorInvariant`: `Spec => []IOInv`, and from it
* `EffectsHappenAtMostOnce`, `DoneWasDelivered`, `ResponsesAreKept`.

*The inductive invariant.* A lifecycle tag speaks about the past, in memory and in
every record a restart may bring back (`Says`): pending means not called,
response-ready means called once, done means delivered. The call is sound because of
`StepInv`: when it is made the body has durably marked the request, so no restart finds
it pending. The rest says why the tags can be trusted: what is listed keeps its tag
until it is taken (`ListInv`), because programs change fields and never tags, also when
they write to a record that was replaced; and the executor's writes follow the
lifecycle (`Moves`), so none of them takes a response back.

and of `StorageNode`, for every choice of the constants that satisfies
`NodeAssumption` (any clients, connections, revisions, with or without mounts):

* `NodeInvariant`: `Spec => []NodeInv`, and from it
* `ConnectionsExclude`, `NeverMountedAndPassive`, `RecordsAreSwapped`.

*The inductive invariant.* That two connections never have the body open is a fact
about objects: they may hold two entries. `LockInv`: an entry with users is the one in
the registry, its reference count is exactly the connections that have entered and not
left, and its mutex is held by the one that is inside. It is `refs` that makes the
deletion in the release function sound, and the mutant that deletes without looking at
it breaks `Exclusive`. `ImageInv`: the image of a request inside is the record of the file, unless a racing `create`
has emptied it, and what the request is about to write replaces that very record.

`MeshAuthorityProofs` proves of `MeshGrant`, for every choice of the constants that satisfies
`GrantAssumption` (any targets, goroutines, grants, calls and faults):

* `GrantInvariant`: `Spec => []GrantInv`, and from it
* `ExecutesOnce`, `EffectsAreFenced`;
* `RouteInvariant`: `Spec => []RouteInv`, and from it `RoutesOnce` (`RouteOnce`).

*The inductive invariant.* Two fences overlap: the nonce keeps a second delivery out
until the receipt is there, the receipt keeps it out afterwards, also after a restart.
`FenceInv`: while a side-effect grant is valid, its receipt is in the Engine when the
save begins and in the body when the program may run; so neither a restart nor a
pruning of expired receipts removes it. `OnceInv`: of the requests of one grant, one at a
time is past the receipt and none once the program has run; while the grant is valid
one at a time is past the nonce. The clause about valid grants is what a stalled
goroutine escapes, which is why `stalled` appears in `ExecutedOnce`.

`RouteOnce` bounds the runs of one routed call over all nodes by its troubled attempts.
`AttemptInv` counts attempts instead of runs: the grants a call has issued and its local run are at
most its troubles, and one more once an attempt is under way or has ended the call.
The runs of its grants are pairs of a grant and a number; by `GrantInv` only side-effect
grants run a program, each of them at most once, so there are no more runs than grants.

`TransactionsProofs` proves, for every choice of the constants that satisfies
`TxnConstants` (any requests, any finite set of ids, any working-set limit and length of
programs):

* `TransactionInvariant`: `Spec => []TxnInv`, and from it
* `UpdatesKept` (`NoLostUpdate`), `RunsKept` (`RunsCounted`), `SpeculationLeavesNoTrace`
  (`NoTrace`), `EffectsOnce` (`EffectAtMostOnce`).

*The inductive invariant.* The four properties are not inductive because they say nothing of
what a run holds privately. `SpecInv`: a speculative copy has what its baseline has and
nothing of its own but the run's update and call, so that a commit whose baselines are validated adds marks
to the records and takes none away. A copy that a `cache_drop` has thrown away is read again: of
the core body from the pinned Store, where the baseline came from (`SnapInv`), of a shard as it
is by then, which is why the invariant bounds the copy by the record too (`Behind`). `CanonInv`: what a canonical run has read is still
what the record says when it writes, because it alone holds `commitMu` (`LaneInv`) and
a commit takes it too. `HistoryInv`: a run that has not come to its commit has no
mark, no count and no effect anywhere; this is what lets a conflict, an error or a forbidden
primitive drop the run and replay it. `CreatedInv`: only a record that was created is
changed, so a creation never stands on top of another request's mark.

`MemoryFabricProofs` proves, for every choice of the constants that satisfies
`FabricAssumption` (any bodies and ids, any bounds):

* `FabricInvariant`: `Spec => []FabricInv`, and from it
* `DurableIsKept` (`KeepInv`), `NewestNeverLost` (`NewestKept`), `TransfersAnswerTruly`
  (`TransferAnswers`).

*The inductive invariant.* `NewestKept` is about the newest of all files, and a persist
call of any body may replace what that body's file says: a file that holds the newest
content is worth nothing if its body is about to persist less. `KeepInv` therefore asks
for a *keeper*: a body whose file has the content, or a newer one, and which answers
with no less while it is open. A keeper may lose its role in two ways. A deletion on
purpose raises `dead` above whatever any file holds (`VersionInv`). A transfer deletes
its source: `SourceInv` says that then the target has become a keeper, which is what the
order add, persist, verify on disk, compare, delete is for; the comparison in
`markTransferSourceDeletedIfUnchanged` is needed, because the source may hold a newer
content than was verified. The proof shows of each step that every keeper is followed by
one (`Forward`), from which both `KeepInv'` and `NewestKept` follow. A candidate that is
rolled back was not a keeper, because the file was probed first; a body that is loaded
answers with its file; a merge or an upsert only makes records newer (`Grows`). The last
conjunct of `SourceInv`, what the source holds after the deletion, is what
`TransferAnswers` needs of handlers that re-create the record meanwhile.

`MeshAuthorityProofs` proves of `MeshDirectory`, for every choice of the constants that
satisfies `DirectoryAssumption` (any ids, keys, goroutines and faults):

* `DirectoryInvariant`: `DirectorySpec => []DirectoryInv`, and from it `IdentitiesAreKept`.

*The inductive invariant.* `RegistrationsAgree`: the registrations in progress for an id that
is not loose have one key, run on a recovered directory, and have left their key in the
Engine and in the body where they have come. `AckedEverywhere`: an acknowledged key is in the
Engine and in the body, in what recovery has read, in the directory once recovery is
complete, and every registration in progress has it.

`KernelLocksProofs` proves, for every choice of the constants that satisfies `LockConstants`
(any requests and persist calls, any finite set of bodies, any order of their paths):

* `LockInvariant`: `Spec => []LockInv`, and from it
* `HoldsEntitled` (`HoldsOnly`), `DeadlockIsPinned` (`OnlyPinnedDeadlock`), and
* `CoreFirstNoDeadlock`: `CoreFirst /\ ~Mesh /\ ~Emits => (Spec => []NoDeadlock)`.

*The inductive invariant.* What a goroutine will do is a sequence as long as its commit has
owners. `Leads(h, s, f)` says of the whole sequence, by a witness that lists what is held
before each operation, that every operation of `s` is in order and that `f` is held at its end; `Followed` asks it
of every goroutine, from what it holds to what it is entitled to at its next decision. A step takes
one operation off. Each function of the code has a lemma of its own (`LeadsLease`,
`LeadsSave`, `LeadsOwners`...), and `LeadsConcat` puts them together. *In order* (`MayLock`, `MayUnlock`) is
where the order of the locks is: `commitMu`, the persistence locks, then for each body, by path,
`dataMu` and the guard. Two things do not follow it. A guard that is read need not come last, because
nobody ever waits to read a guard: it is read under `dataMu`, and whoever writes or waits to write
it holds `dataMu` for writing (`GuardReadable`, from `Covered` and `OneWriter`). And a run that pins the core reads shards, and fetches from the mesh and
raises events, which take `dataMu` of the core.
Of a set of goroutines that wait for each other, take one that waits for the last of the locks
they wait for: its holder waits for an earlier one, which only a pinned reader may.

`PrimitiveVMProofs` proves, for every choice of the constants that satisfies `VMAssumption`,
`LibraryAssumption` (what is there at the start is within the ceilings) and `KeptAssumption`
(any library of programs, any ceilings, any nesting of calls, transactions and events):

* `VMInvariant`: `Spec => []VMInv`, and from it
* `Ceilings`, `Budget`, `Sees` (`CeilingsKept`, `BudgetKept`, `SeesItsEvent`),
* `FailedChanges`, `NoSuppression` (`FailedChangesNothing`, `NoHandlerSuppressed`; the first
  needs no invariant).

*The inductive invariant.* A run counts its writes and events in the Frame that it shares with
whomever it calls, and so its budget depends on what they hand back. `VMInv` says of
each item of the stack what holds of it alone (`ItemOK`: the Frame fits its ceiling, a run's counts
are those of its scope and within its budget, it sees its event), and of two adjacent ones that the
upper one would hand back what the lower one may get (`Link`, `Handed`). What may be handed back
depends on who waits: to a caller, or to a dispatch that goes through its handlers one by one, the
Frame must come back as its own (`Shared`): variables are added and never taken, the metadata of an event
and the depth are as they were, the resource scope is the waiting one's, and a Frame within the
ceiling of variables still is. A transaction on a copy restores the scope itself; a call in a Frame of its own,
and a batch, take from it what they want. A dispatch carries the debt of its
depth: its Frame is within the ceiling once the depth of the one that raised the event is back
(`Raised`), which is why `DispatchDone` cannot overflow when there was an outer event. A step touches
the two topmost items only; the lemmas `TopStep`, `PushStep`, `PopStep` reduce it to one `Link`, so
no induction over the stack is needed. What the Frame's byte ceiling
promises does not survive a nested event, and so `VMInv` and `CeilingsKept` have the number of
variables; the bytes are checked where the code checks them, and `NoHandlerSuppressed` names the one
case in which the check fails between two handlers (`AppliedAgain`: by number it cannot).

*Only model-checked.* The liveness properties: `PersistReturns`, `Drains`, `Settles` (they need
fairness, which the prover does not handle) and `Ends` (an induction over programs). Every safety and every action property
that a run expects to pass is also a theorem.

## 5. Where the code and its claims disagree

* **Events and locks** (run `locks_events`). A speculative run holds the lifetime guard of the
  core Store for reading. `emit_event` is allowed in it, and asks for the fabric root, which
  takes `dataMu` for reading; a save that swaps the Store holds `dataMu` and waits for the guard. The two
  wait for each other (`SpecEmit`; run `locks` has them too and `OnlyPinnedDeadlock` names them), although `persistence_runtime.go:183` says that the order of the two
  locks is the same everywhere. A second way: a canonical run holds `commitMu`, an event
  raised below `call_isolated` finds a Frame that does not say so, and the handler is
  scheduled again and waits for `commitMu`; `event_runtime.go:299` says that nested dispatch
  avoids this. `authorizeSharedProposal` and `serveLocalExecution` called from a canonical run on the
  Sovereign take the same way.
* **Mesh lookups and locks.** The same pair without an event and without a shard: a pinned run
  whose id is not local asks `sharedFetch` (`kernel.go:761`); when this node is the record's origin,
  `serveLocalMemory` looks the id up in the core body and takes its `dataMu` (`SpecFetch`), which
  a save that swaps the Store holds while it waits for the guard.
* **Commits and pinned reads.** `lockSpeculativeCommitOwners` takes `dataMu` of the owners in
  the order of their paths, and `Memory.mem` comes after its shards `Memory.*.mem`. A
  speculative run keeps the guard of the core's Store and takes `dataMu` of the shard it reads, which is the
  opposite order. A commit that has locked the shard waits for `dataMu` of the core; a save holds that
  and waits for the guard; the run holds the guard and waits for the shard. Three
  goroutines, no event. `EventSpec` has these behaviours too; to see this deadlock rather than the
  shorter one above, replace `EventSpec` by `Spec` and set `Emits = FALSE` in `KernelLocksEvents.cfg`. `DeadlockIsPinned` proves
  that every deadlock without nested scheduling is one of these three: it has a swap of the core's Store
  and a run that pins it and waits for an earlier `dataMu`. `CoreFirstNoDeadlock` proves that in a standalone
  kernel whose programs raise no events from speculative runs none is left when the core's
  path comes first: locking the core before the shards would be a remedy for the third.

The following are visible in the models. The properties are stated so that they exclude
exactly these cases (`Disciplined`, `called`, `stalled`, `loose`), and hold next to them.

*Bodies.*
* `addRuntimeMemory` does not drop the tombstone: a record deleted and created again
  before the next full save is invisible, and the journal stores a deletion for it
  (`Recreated`).
* A speculative delete of a record in `newIDs` leaves no tombstone because it "has
  never reached this body's persisted Store" (`speculative_fabric_commit.go:101`); it may have reached the journal, and a
  restart restores it (`SpecDeleted`).
* `resolveIDLocal` caches what it read before taking `dataMu`: a delete and a full save
  in between drop the tombstone, and the record is back (`Paged`).
* `program_import` marks the record in the Engine that runs the program (`kernel.go:1913`), while
  the other `program_*` primitives call `markDirty`, which finds the owner. Of a record in a shard the
  edit is in the shard's cache and not marked: persist calls and `unmountSpace` succeed without it
  and a restart loses it (`ImportOwned`). The core is left with a dirty id that is not in its cache:
  its journal is refused ("dirty Memory missing from cache") and a full save keeps the mark, so
  until a restart every incremental persist call of the core fails (`ImportForeign`; both `Imported`).

*Scheduler.*
* The side-effect flag is looked at only when the run failed (`scheduler_runtime.go:89`): a
  forbidden primitive inside `call_try_isolated` or `call_parallel` becomes an ordinary failed call
  and the transaction commits without the effect; "the canonical fallback must emit one
  physical request" (`speculative_txn.go:370`) does not hold for it.
* `cache_drop` (`kernel.go:1395`) forgets a record that is not marked, and its execution counter,
  which marks nothing, is in memory only: in the core body the counts since the last save are
  lost (`CanonDrop`). In a speculative run the drop of a record that was read is taken for a deletion of it and
  committed (`speculative_txn.go:151`, `SpecDrop`); when the record is read again, the run's own
  earlier call of it is not counted. `RunsCounted` leaves the forgotten calls out (`called`) and deleted records too. That
  runs of others, in a shard's record read again, are added a second time is not visible in
  the model, where `ran` is a set.
* Records that were only read are not validated (write skew). A canonical run is not
  undone when it fails, and its intermediate states are read by speculative ones, whose
  reads are then not validated either.

*Mesh.*
* The shared record is written after the ledger has released the slot, and without
  comparing revisions: a delayed handler of an older approved revision overwrites the
  record of a newer one whose approval was answered (`Share`, `Install`).
* When the done receipt of a proposal cannot be persisted, the error says that the
  "request remains fenced"; `Finalize` leaves it done in memory, `Replay` answers the retry
  from it, and a restart brings back the executing receipt, which refuses the
  origin's ACK.
* Receipts of superseded or failed proposals are never acknowledged, and a ledger full of them
  refuses every new proposal; a revision proposed again after its receipt was collected is
  refused, and its spool entry stays; when the Frame has no room for the request id
  (`FrameFull`), the slot stays busy until a restart.
* The server starts before the directory is recovered (`bindMeshEngine`), and `register_node`
  checks and publishes in two critical sections: in the start-up window, or by two first
  registrations at once, an id gets a second key, although `docs/MESH_SECURITY.md:34` says that
  such a registration fails closed. Two nodes left with the default id meet this.
* A goroutine that stalls past the expiry of its grant between the nonce and the
  lookup may run a program a second time; receipts in automatic shards are not seen before
  these are mounted, which happens after the server has started; a failed save drops the
  nonce and keeps the receipt in memory, so the grant is used up without having run; concurrent
  requests can exceed the receipt ceiling. `routeExecution` asks the next node after a
  time-out, so a routed program may run once per attempt (`RouteOnce` bounds it).

*External I/O.* A pass between the `memory_new` of a request and the `state_set` of its fields
marks the request failed, and nothing executes it again: the executor does not take the
commit lane.

*Fabric and storage node.*
* A transfer interrupted between target and source leaves the record in two bodies, which
  the fabric reports as a duplicate identity until one is deleted; a deletion that races a
  transfer can be undone by it; a journalled tombstone blocks moving the record back.
* `mergeSpace` and the restoration of a source do not ask for capacity;
  `unmountSpace` forgets the selected write space even when its persist call fails.
* `create` of a storage node tests for the file and writes an empty body before it takes
  the body's lock (`kernel.go:3727`): of two creates, the second may replace a body that has got a record in
  between, although `loadPassiveStorageSerialized` says that two requests never overwrite one
  another.
* A delete sent again after its answer was lost answers "not found".
* A put of a record whose deletion is in the journal is answered "stored" and is hidden by the
  restored tombstone (`buried` in `Persist`), until a full save drops the tombstone.

*Interpreter.*
* `halt` returns the length of the record's current program, not of the copy that runs.
* `state_keys`, `memory_refs`, `tag_list` and others set a list without the item ceiling of
  `list_append`; `call_isolated` may keep more variables than the ceiling.
* The `program_*` primitives check the ceilings of a program and never that of the record, which
  counts its program (`kernel.go:1905`, 1965, 2049, 2088): a record may exceed it by its program,
  later edits of its state are then refused, and beyond the hard ceiling a full save of the whole
  body fails (`store.go:379`). `CeilingsKept` therefore bounds the program and the rest of the record.
* After a nested event `enqueueEvent` writes the outer event's variables back without a
  check (`event_runtime.go:434`): a Frame may exceed its byte ceiling, not its number of variables.
* The event is applied to the Frame again before each handler, and a handler may have filled the Frame
  to its byte ceiling: the dispatch then fails and the remaining handlers do not run
  (`event_runtime.go:308`), although the comment at 299 says that one Memory "cannot suppress
  unrelated handlers". `NoHandlerSuppressed` has this exception.
* A handler that changes a variable named like one of its event's has it restored after a
  nested event (`event_runtime.go:431`), while the comment at 398 says that payload
  variables "remain untouched".

## 6. Not modelled, and the plan

Kept out, for good: HTTP, TLS and signatures, path checks and the binary layout of the store
(pure functions over strings and bytes), GPU kernels, the offline tools, the one-way
legacy migration, the retired cognitive runtime (not built), and the sparse activation index, a
derived structure that ranks candidates numerically and never reaches a body. The
individual results of the value-computing primitives are left out of `PrimitiveVM`.

Open, in this order:

1. *MemoryFabric* with two ids, for placement that races over the last free place.
2. *Receipts in shards*: `MeshGrant` over a fabric whose shards are mounted late.
