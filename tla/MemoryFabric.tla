---------------------------- MODULE MemoryFabric ----------------------------
(***************************************************************************)
(* The local Memory fabric: the core body and the storage bodies mounted   *)
(* next to it, the placement of new records (shard_runtime.go), mounting   *)
(* and unmounting (kernel.go), and space_copy, space_move and space_merge  *)
(* (remote_durability_runtime.go).                                         *)
(*                                                                         *)
(* One body is abstracted to what MemoryBody.tla shows of it: the records  *)
(* it answers with, the ids its base file holds, its pending tombstones    *)
(* and creations, and the durable records of its file.  A persist call     *)
(* either journals the pending mutations, which keeps them pending, or     *)
(* saves the whole body, which settles them; it may fail before or after   *)
(* the bytes are in place.                                                 *)
(*                                                                         *)
(* The space_* primitives run in the canonical lane, one at a time; mesh   *)
(* handlers upsert, delete and persist records beside them.                *)
(***************************************************************************)
EXTENDS Integers, FiniteSets, FiniteSetsExt

CONSTANTS
  Core,         \* the core body
  Spaces,       \* the storage bodies that can be created and mounted
  Ids,          \* memory ids
  MaxVersion,   \* bound: contents an id goes through
  MaxMemories,  \* memoryShardMax
  MaxFails,     \* bound: persist calls that fail
  MaxRestarts,  \* bound: restarts of the process
  None

ASSUME FabricAssumption ==
  /\ Core \notin Spaces
  /\ MaxVersion \in Nat /\ MaxMemories \in Nat /\ None \notin Nat

VARIABLES
  rec,       \* body -> id -> content in the cache or the open store
  tomb,      \* body -> deletedIDs
  fresh,     \* body -> newIDs
  base,      \* body -> ids of the base file
  graves,    \* body -> deletions in the journal of its file
  disk,      \* body -> id -> durable content (base file and journal)
  exists,    \* the storage files that exist
  mounted,   \* Engine.spaces
  writeSpace,\* Engine.writeSpace
  xfer,      \* the transfer in progress
  (* History *)
  version,   \* newest content of each id
  dead,      \* newest content of each id that was deleted on purpose
  fails, restarts

engineVars == <<rec, tomb, fresh, mounted, writeSpace>>
diskVars   == <<base, graves, disk, exists>>
history    == <<version, dead>>
vars == <<engineVars, diskVars, xfer, history, fails, restarts>>

Bodies   == {Core} \cup Spaces
Contents == 1..MaxVersion
Records  == Contents \cup {None}
Nothing  == [id \in Ids |-> None]

----------------------------------------------------------------------------
(* Reading *)

(* Engine.resolveIDLocal of one body. *)
View(b, id) == IF id \in tomb[b] THEN None ELSE rec[b][id]

(* localFabricEngines *)
Open == {Core} \cup mounted

(* The bodies that answer for an id.  resolveLocalFabricMemory fails when *)
(* there are two of them.                                                 *)
Owners(id) == {b \in Open : View(b, id) # None}
Owned(b, id) == Owners(id) = {b}

(* localMemoryCountFast: the base file, and the new ids that are not      *)
(* deleted, less the deleted ids that the base file holds.                *)
Count(b) == Cardinality(base[b]) + Cardinality(fresh[b] \ tomb[b])
            - Cardinality(tomb[b] \cap base[b])

(* shardHasCapacity(b, 1) *)
HasCapacity(b) == Count(b) + 1 <= MaxMemories

----------------------------------------------------------------------------
(* Writing *)

(* addRuntimeMemory: a tombstone of the id stays. *)
Added(b, id, v) ==
  /\ rec' = [rec EXCEPT ![b][id] = v]
  /\ fresh' = [fresh EXCEPT ![b] = @ \cup {id}]
  /\ UNCHANGED tomb

(* deletedIDs[id] is set and the id leaves the cache and newIDs. *)
Removed(b, id) ==
  /\ rec' = [rec EXCEPT ![b][id] = None]
  /\ tomb' = [tomb EXCEPT ![b] = @ \cup {id}]
  /\ fresh' = [fresh EXCEPT ![b] = @ \ {id}]

(* mountedWritableShard: the selected space, then the core, then any      *)
(* mounted space that has room; that space is then selected.              *)
SelectedFull == writeSpace \in mounted => ~HasCapacity(writeSpace)
Writable(b) ==
  /\ b \in Open
  /\ HasCapacity(b)
  /\ b # writeSpace => SelectedFull
  /\ b \notin {writeSpace, Core} => ~HasCapacity(Core)

(* upsertExplicitMemoryBounded: the owner's record is replaced, or a new  *)
(* one is placed; under automaticShardMu.                                 *)
Upsert(id) ==
  LET v == version[id] + 1 IN
  /\ version[id] < MaxVersion
  /\ version' = [version EXCEPT ![id] = v]
  /\ \/ \E b \in Open :
          /\ Owned(b, id)
          /\ rec' = [rec EXCEPT ![b][id] = v]
          /\ fresh' = [fresh EXCEPT ![b] = IF id \in base[b] THEN @ \ {id} ELSE @ \cup {id}]
          /\ UNCHANGED <<tomb, writeSpace>>
     \/ \E b \in Bodies :
          /\ Owners(id) = {}
          /\ Writable(b)
          /\ Added(b, id, v)
          /\ writeSpace' = IF b = Core THEN writeSpace ELSE b
  /\ UNCHANGED <<mounted, diskVars, xfer, dead, fails, restarts>>

(* deleteExplicitMemoryBounded *)
Delete(id) ==
  \E b \in Open :
    /\ Owned(b, id)
    /\ Removed(b, id)
    /\ dead' = [dead EXCEPT ![id] = version[id]]
    /\ UNCHANGED <<mounted, writeSpace, diskVars, xfer, version, fails, restarts>>

----------------------------------------------------------------------------
(* Persisting *)

(* The journal records the pending mutations; they stay pending. *)
Journalled(b) ==
  /\ disk' = [disk EXCEPT ![b] = [id \in Ids |-> View(b, id)]]
  /\ graves' = [graves EXCEPT ![b] = tomb[b]]
  /\ UNCHANGED <<base, tomb, fresh>>

(* A full save writes what the body answers with and settles what it      *)
(* wrote.  The new file is the open store, so that a cached record hidden *)
(* by a tombstone comes into view again.                                  *)
Saved(b) ==
  /\ disk' = [disk EXCEPT ![b] = [id \in Ids |-> View(b, id)]]
  /\ base' = [base EXCEPT ![b] = {id \in Ids : View(b, id) # None}]
  /\ graves' = [graves EXCEPT ![b] = {}]
  /\ tomb' = [tomb EXCEPT ![b] = {}]
  /\ fresh' = [fresh EXCEPT ![b] = {}]

PersistOK(b) == Journalled(b) \/ Saved(b)

(* The call fails, with the old bytes or with the new ones in the file    *)
(* (of a full save: the Engine keeps the old store and its sets).         *)
PersistFails(b) ==
  /\ fails < MaxFails
  /\ fails' = fails + 1
  /\ UNCHANGED <<tomb, fresh>>
  /\ \/ UNCHANGED <<disk, base, graves>>
     \/ /\ disk' = [disk EXCEPT ![b] = [id \in Ids |-> View(b, id)]]
        /\ \/ graves' = [graves EXCEPT ![b] = tomb[b]] /\ UNCHANGED base
           \/ /\ base' = [base EXCEPT ![b] = {id \in Ids : View(b, id) # None}]
              /\ graves' = [graves EXCEPT ![b] = {}]

(* persistAll, from a mesh handler or the daemon, one body at a time. *)
Persist(b) ==
  /\ b \in Open
  /\ \/ PersistOK(b) /\ UNCHANGED fails
     \/ PersistFails(b)
  /\ UNCHANGED <<rec, mounted, writeSpace, exists, xfer, history, restarts>>

----------------------------------------------------------------------------
(* Spaces; each in the canonical lane, so that no transfer is under way *)

Idle == [pc |-> "idle", id |-> None, src |-> None, dst |-> None,
         val |-> None, move |-> FALSE]
LaneFree == xfer.pc = "idle"

(* loadEngineWithMutationJournal: the journal's mutations are pending. *)
Loaded(b) ==
  /\ rec' = [rec EXCEPT ![b] = disk[b]]
  /\ tomb' = [tomb EXCEPT ![b] = graves[b]]
  /\ fresh' = [fresh EXCEPT ![b] = {id \in Ids \ base[b] : disk[b][id] # None}]
  /\ mounted' = mounted \cup {b}

(* createAndMountSpace: the file is created when there is none. *)
SpaceCreate(s) ==
  /\ LaneFree /\ s \notin exists
  /\ exists' = exists \cup {s}
  /\ Loaded(s)
  /\ UNCHANGED <<writeSpace, base, graves, disk, xfer, history, fails, restarts>>

(* space_mount *)
SpaceMount(s) ==
  /\ LaneFree /\ s \in exists \ mounted
  /\ Loaded(s)
  /\ UNCHANGED <<writeSpace, diskVars, xfer, history, fails, restarts>>

(* space_select_write of a space, or of the core *)
SelectWrite(b) ==
  /\ LaneFree /\ b \in Open
  /\ writeSpace' = IF b = Core THEN None ELSE b
  /\ UNCHANGED <<rec, tomb, fresh, mounted, diskVars, xfer, history, fails, restarts>>

(* unmountSpace: the write target is given up first; a space that cannot  *)
(* be persisted is put back and stays open.                               *)
SpaceUnmount(s) ==
  /\ LaneFree /\ s \in mounted
  /\ writeSpace' = IF writeSpace = s THEN None ELSE writeSpace
  /\ \/ PersistOK(s) /\ mounted' = mounted \ {s} /\ UNCHANGED fails
     \/ PersistFails(s) /\ UNCHANGED mounted
  /\ UNCHANGED <<rec, exists, xfer, history, restarts>>

(* mergeSpace: every record the target does not answer for is added to it *)
(* (no capacity check, nothing is persisted, the source keeps its own).   *)
SpaceMerge(s, t) ==
  LET new == {id \in Ids : View(s, id) # None /\ View(t, id) = None} IN
  /\ LaneFree /\ s \in mounted /\ t \in Open \ {s}
  /\ new # {}
  /\ rec' = [rec EXCEPT ![t] = [id \in Ids |-> IF id \in new THEN View(s, id) ELSE @[id]]]
  /\ fresh' = [fresh EXCEPT ![t] = @ \cup new]
  /\ UNCHANGED <<tomb, mounted, writeSpace, diskVars, xfer, history, fails, restarts>>

----------------------------------------------------------------------------
(* transferMemoryDurable *)

Goto(pc) == xfer' = [xfer EXCEPT !.pc = pc]
Return == xfer' = Idle

(* The only owner's record is copied; the target is mounted if need be    *)
(* (transferTargetEngine).  A transfer to the owner itself is done.       *)
TransferBegin(id, t, move) ==
  \E s \in Open :
    /\ LaneFree
    /\ Owned(s, id)
    /\ t \in ({Core} \cup exists) \ {s}
    /\ xfer' = [pc |-> "lookup", id |-> id, src |-> s, dst |-> t,
                val |-> View(s, id), move |-> move]
    /\ IF t \in Open THEN UNCHANGED <<rec, tomb, fresh, mounted>> ELSE Loaded(t)
    /\ UNCHANGED <<writeSpace, diskVars, history, fails, restarts>>

(* The target's own record: none, the same, or a divergent one (refused). *)
TransferLookup ==
  LET there == View(xfer.dst, xfer.id) IN
  /\ xfer.pc = "lookup"
  /\ IF there = None THEN Goto("add")
     ELSE IF there = xfer.val THEN Goto("persist-same") ELSE Return
  /\ UNCHANGED <<engineVars, diskVars, history, fails, restarts>>

(* addTransferTargetCandidateBounded, under automaticShardMu *)
TransferAdd ==
  /\ xfer.pc = "add"
  /\ IF View(xfer.dst, xfer.id) = None /\ HasCapacity(xfer.dst)
     THEN Added(xfer.dst, xfer.id, xfer.val) /\ Goto("persist")
     ELSE Return /\ UNCHANGED <<rec, tomb, fresh>>
  /\ UNCHANGED <<mounted, writeSpace, diskVars, history, fails, restarts>>

TransferPersist ==
  /\ xfer.pc \in {"persist", "persist-same"}
  /\ \/ PersistOK(xfer.dst) /\ Goto("verify") /\ UNCHANGED fails
     \/ /\ PersistFails(xfer.dst)
        /\ IF xfer.pc = "persist" THEN Goto("failed") ELSE Return
  /\ UNCHANGED <<rec, mounted, writeSpace, exists, history, restarts>>

(* Mutant of TransferFailed: the candidate is taken back whatever the     *)
(* file holds.                                                            *)
TransferFailedBlindly ==
  /\ xfer.pc = "failed"
  /\ rec' = [rec EXCEPT ![xfer.dst][xfer.id] = None]
  /\ fresh' = [fresh EXCEPT ![xfer.dst] = @ \ {xfer.id}]
  /\ Goto("rolled back")
  /\ UNCHANGED <<tomb, mounted, writeSpace, diskVars, history, fails, restarts>>

(* handleFailedTransferTargetPersistence, under the persistence lock: a   *)
(* candidate that is not in the file, and still as it was added, is taken *)
(* back (rollbackUnpersistedTransferCandidate).                           *)
TransferFailed ==
  LET d == xfer.dst  id == xfer.id
      rollback == /\ disk[d][id] = None
                  /\ id \in fresh[d] \ tomb[d]
                  /\ rec[d][id] = xfer.val
  IN
  /\ xfer.pc = "failed"
  /\ IF rollback
     THEN /\ rec' = [rec EXCEPT ![d][id] = None]
          /\ fresh' = [fresh EXCEPT ![d] = @ \ {id}]
          /\ Goto("rolled back")
     ELSE UNCHANGED <<rec, fresh>> /\ Return
  /\ UNCHANGED <<tomb, mounted, writeSpace, diskVars, history, fails, restarts>>

(* durableTargetMatches reads the target's file. *)
TransferVerify ==
  /\ xfer.pc = "verify"
  /\ IF disk[xfer.dst][xfer.id] = xfer.val
     THEN Goto(IF xfer.move THEN "delete" ELSE "done")
     ELSE Return
  /\ UNCHANGED <<engineVars, diskVars, history, fails, restarts>>

(* Mutant of TransferDelete: the source is deleted whatever it holds now. *)
TransferDeleteAnyway ==
  /\ xfer.pc = "delete"
  /\ Removed(xfer.src, xfer.id) /\ Goto("deleted")
  /\ UNCHANGED <<mounted, writeSpace, diskVars, history, fails, restarts>>

(* markTransferSourceDeletedIfUnchanged *)
TransferDelete ==
  /\ xfer.pc = "delete"
  /\ IF View(xfer.src, xfer.id) = xfer.val
     THEN Removed(xfer.src, xfer.id) /\ Goto("deleted")
     ELSE Return /\ UNCHANGED <<rec, tomb, fresh>>
  /\ UNCHANGED <<mounted, writeSpace, diskVars, history, fails, restarts>>

TransferPersistSource ==
  /\ xfer.pc = "deleted"
  /\ \/ PersistOK(xfer.src) /\ Goto("check") /\ UNCHANGED fails
     \/ PersistFails(xfer.src) /\ Goto("restore")
  /\ UNCHANGED <<rec, mounted, writeSpace, exists, history, restarts>>

(* The source's file must no longer hold the record. *)
TransferCheck ==
  /\ xfer.pc = "check"
  /\ Goto(IF disk[xfer.src][xfer.id] = None THEN "done" ELSE "restore")
  /\ UNCHANGED <<engineVars, diskVars, history, fails, restarts>>

(* restoreTransferSourceAfterDeleteFailure, unless the tombstone is gone  *)
(* or the id has been created again.                                      *)
TransferRestore ==
  LET s == xfer.src  id == xfer.id IN
  /\ xfer.pc = "restore"
  /\ IF id \in tomb[s] /\ rec[s][id] = None
     THEN /\ rec' = [rec EXCEPT ![s][id] = xfer.val]
          /\ fresh' = [fresh EXCEPT ![s] = @ \cup {id}]
          /\ tomb' = [tomb EXCEPT ![s] = @ \ {id}]
     ELSE UNCHANGED <<rec, tomb, fresh>>
  /\ Return
  /\ UNCHANGED <<mounted, writeSpace, diskVars, history, fails, restarts>>

(* The caller has its answer. *)
TransferReturn ==
  /\ xfer.pc \in {"done", "rolled back"}
  /\ Return
  /\ UNCHANGED <<engineVars, diskVars, history, fails, restarts>>

----------------------------------------------------------------------------
(* The process dies and is started again: what was not in a file is lost, *)
(* and mountAutomaticStorageShards mounts every storage file it finds.    *)
Restart ==
  /\ restarts < MaxRestarts
  /\ restarts' = restarts + 1
  /\ rec' = disk
  /\ tomb' = graves
  /\ fresh' = [b \in Bodies |-> {id \in Ids \ base[b] : disk[b][id] # None}]
  /\ mounted' = exists
  /\ writeSpace' = None
  /\ Return
  /\ UNCHANGED <<diskVars, history, fails>>

Init ==
  /\ rec = [b \in Bodies |-> Nothing]
  /\ tomb = [b \in Bodies |-> {}] /\ fresh = [b \in Bodies |-> {}]
  /\ base = [b \in Bodies |-> {}] /\ graves = [b \in Bodies |-> {}] /\ disk = [b \in Bodies |-> Nothing]
  /\ exists = {} /\ mounted = {} /\ writeSpace = None
  /\ xfer = Idle
  /\ version = [id \in Ids |-> 0] /\ dead = [id \in Ids |-> 0]
  /\ fails = 0 /\ restarts = 0

Transfer ==
  \/ \E id \in Ids, t \in Bodies, move \in BOOLEAN : TransferBegin(id, t, move)
  \/ TransferLookup \/ TransferAdd \/ TransferPersist \/ TransferFailed
  \/ TransferVerify \/ TransferDelete \/ TransferPersistSource
  \/ TransferCheck \/ TransferRestore \/ TransferReturn

Next ==
  \/ \E id \in Ids : Upsert(id) \/ Delete(id)
  \/ \E b \in Bodies : Persist(b) \/ SelectWrite(b)
  \/ \E s \in Spaces : SpaceCreate(s) \/ SpaceMount(s) \/ SpaceUnmount(s)
  \/ \E s \in Spaces, t \in Bodies : SpaceMerge(s, t)
  \/ Transfer
  \/ Restart

Spec == Init /\ [][Next]_vars

----------------------------------------------------------------------------
(* Properties *)

(* The newest content of an id that some file holds; 0 when none does. *)
Newest(id) == Max({0} \cup {disk[b][id] : b \in {x \in Bodies : disk[x][id] # None}})

(* A content that reached a file is not lost: until the id is deleted on  *)
(* purpose the newest durable content never gives way to an older one or  *)
(* to none, whatever fails during a move, an unmount or a merge, and      *)
(* wherever the process dies (transferMemoryDurable persists and verifies *)
(* the target before it deletes an unchanged source).                     *)
NewestKept ==
  [][\A id \in Ids : Newest(id) > dead'[id] => Newest(id)' >= Newest(id)]_vars

(* What a transfer answers is true when it answers.  "Rolled back": the   *)
(* target holds the record neither in memory nor in its file.  Success of *)
(* a move: the source no longer holds that content, and it is in the      *)
(* target's file unless the id has been changed or deleted since.         *)
TransferAnswers ==
  [][LET id == xfer.id IN
     /\ xfer.pc # "rolled back" /\ xfer'.pc = "rolled back" =>
          (View(xfer.dst, id))' = None /\ disk'[xfer.dst][id] = None
     /\ xfer.pc = "check" /\ xfer'.pc = "done" =>
          /\ xfer.val \notin {View(xfer.src, id), disk[xfer.src][id]}
          /\ \/ disk[xfer.dst][id] = xfer.val
             \/ version[id] > xfer.val \/ dead[id] >= xfer.val]_vars

----------------------------------------------------------------------------
(* The inductive invariant of NewestKept and TransferAnswers *)

(* The journal of a file deletes no record that the file holds. *)
GravesOK ==
  /\ graves \in [Bodies -> SUBSET Ids]
  /\ \A b \in Bodies : \A id \in graves[b] : disk[b][id] = None

TypeOK ==
  /\ rec \in [Bodies -> [Ids -> Records]] /\ disk \in [Bodies -> [Ids -> Records]]
  /\ {tomb, fresh, base} \subseteq [Bodies -> SUBSET Ids]
  /\ GravesOK
  /\ mounted \subseteq Spaces /\ exists \subseteq Spaces
  /\ version \in [Ids -> 0..MaxVersion] /\ dead \in [Ids -> 0..MaxVersion]
  /\ \/ xfer = Idle
     \/ /\ xfer \in [pc : {"lookup", "add", "persist", "persist-same", "failed", "verify",
                          "delete", "deleted", "check", "restore", "done", "rolled back"},
                    id : Ids, src : Bodies, dst : Bodies, val : Contents, move : BOOLEAN]
        /\ xfer.src # xfer.dst

AtLeast(r, v) == r # None /\ r >= v

(* No content is newer than the newest. *)
VersionInv ==
  /\ \A id \in Ids : dead[id] <= version[id]
  /\ \A b \in Bodies, id \in Ids : \A r \in {rec[b][id], disk[b][id]} :
       r # None => r <= version[id]
  /\ xfer # Idle => xfer.val <= version[xfer.id]

(* A body keeps a content: its file holds it or a newer one, and the body  *)
(* would not persist less while it is open.                                *)
Keeps(b, id, v) == AtLeast(disk[b][id], v) /\ (b \in Open => AtLeast(View(b, id), v))

(* Every durable content that was not deleted on purpose is kept: no file  *)
(* is the last one that holds it while its body is about to persist less   *)
(* (persistEngineIncremental writes what the body answers with).           *)
KeepInv ==
  \A b \in Bodies, id \in Ids :
    disk[b][id] # None /\ disk[b][id] > dead[id] =>
      \E c \in Bodies : Keeps(c, id, disk[b][id])

(* Both bodies of a transfer stay open.  What is known of the target       *)
(* before the source is deleted, and of the source afterwards, unless the  *)
(* id was deleted meanwhile.                                               *)
SourceInv ==
  LET id == xfer.id  val == xfer.val  there == View(xfer.dst, xfer.id) IN
  /\ xfer # Idle => {xfer.src, xfer.dst} \subseteq Open
  /\ xfer.pc = "verify" /\ disk[xfer.dst][id] = val =>
       AtLeast(there, val) \/ dead[id] >= val
  /\ xfer.pc \in {"delete", "deleted", "check"} =>
       (AtLeast(disk[xfer.dst][id], val) /\ AtLeast(there, val)) \/ dead[id] >= val
  /\ xfer.pc \in {"deleted", "check"} =>
       rec[xfer.src][id] = None \/ rec[xfer.src][id] > val

FabricInv == TypeOK /\ VersionInv /\ KeepInv /\ SourceInv
=============================================================================
