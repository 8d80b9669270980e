----------------------------- MODULE MemoryBody -----------------------------
(***************************************************************************)
(* One Memory body: the Engine that serves it in memory (kernel.go), the   *)
(* physical .mem file with its two-slot mutation journal                   *)
(* (mutation_journal_runtime.go) and the full rewrite of the file          *)
(* (saveBody, persistence_runtime.go).                                     *)
(*                                                                         *)
(* Mutations of one id run one at a time: the VM's in the scheduler's      *)
(* commit lane, those of the mesh journal, the replay ledger and the       *)
(* external-I/O executor under the mutex of each.  Mutations of different  *)
(* ids interleave.  Persist calls run concurrently with all of them        *)
(* (daemon "persist", persistAll) and with page-ins by request handlers;   *)
(* only the per-Engine persistence lock orders persist calls among         *)
(* themselves.  The process may crash at any step, a slot write may be     *)
(* torn, a write or a rename may fail.                                     *)
(*                                                                         *)
(* A Memory record is a value of Vals; None stands for the absent record   *)
(* (a nil pointer, io.EOF, a journal tombstone) and NoEntry for an id that *)
(* a set of mutations does not mention.  A base fingerprint is a hash of   *)
(* the deterministic body contents, so the contents stand for it.          *)
(***************************************************************************)
EXTENDS Integers, FiniteSets

CONSTANTS
  Ids,          \* Memory ids of this body
  Vals,         \* structural contents of a record
  None,         \* no record
  NoEntry,      \* no mutation of this id
  MaxSeq,       \* bound on journal sequence numbers of one body file
  MaxEntries,   \* mutationJournalMaxEntries
  Recreated,    \* ids the workload creates again while their tombstone is pending
  SpecDeleted,  \* ids a speculative commit deletes before their first full save
  Paged,        \* ids that request handlers page in outside the commit lane
  Imported      \* ids whose program another Engine's program_import replaces

ASSUME ConstantsAssumption ==
  /\ None \notin Ids \cup Vals
  /\ NoEntry \notin Vals \cup {None}
  /\ MaxSeq \in Nat
  /\ MaxEntries \in Nat
  /\ Recreated \subseteq Ids
  /\ SpecDeleted \subseteq Ids
  /\ Paged \subseteq Ids
  /\ Imported \subseteq Ids

VARIABLES
  (* The Engine, lost in a crash *)
  up,           \* the process is running and the body is loaded
  cache,        \* e.cache
  store,        \* e.store: contents of the inode the Engine has open
  newIDs, dirtyIDs, deletedIDs, dirty,
  pagein,       \* record a handler has read from the store and not yet cached
  lane,         \* the mutation of each id that is under way
  (* The holder of the persistence lock *)
  pc,           \* where it is: "idle", "journal", "copy", "finalize", "pinned"
  todo,         \* ids saveBody has still to copy
  snap,         \* persistenceSnapshot.present and the records written
  payload,      \* mutationJournalPayload.Mutations to be written
  (* The .mem file *)
  base,         \* records of the indexed store in the file
  region,       \* the file has a mutation-journal region
  slots,        \* the two journal slots
  (* History, of the disciplined ids *)
  expect,       \* the record each id has according to the mutations performed
  recover,      \* the records a restart may bring back
  since         \* the records an id has had since the persist call in progress began

engineVars  == <<up, cache, store, newIDs, dirtyIDs, deletedIDs, dirty, pagein, lane>>
persistVars == <<pc, todo, snap, payload>>
diskVars    == <<base, region, slots>>
historyVars == <<expect, recover, since>>
vars == <<engineVars, persistVars, diskVars, historyVars>>

----------------------------------------------------------------------------
(* Ids whose workload stays clear of the four sequences in which the code *)
(* loses a mutation (README.md, section 5).                               *)
Disciplined == Ids \ (Recreated \cup SpecDeleted \cup Paged \cup Imported)

Records   == Vals \cup {None}
Mutations == [Ids -> Records \cup {NoEntry}]
NoMuts    == [id \in Ids |-> NoEntry]
NoRecs    == [id \in Ids |-> None]
NoSlot    == [seq |-> 0, base |-> NoRecs, muts |-> NoMuts]
Slot      == [seq : 0..MaxSeq, base : [Ids -> Records], muts : Mutations]
Lane      == [op : {"idle", "upsert", "edit"}, val : Records,
              found : Records, stored : Records]
Idle      == [op |-> "idle", val |-> None, found |-> None, stored |-> None]
Edit      == [Idle EXCEPT !.op = "edit"]
NoLanes   == [id \in Ids |-> Idle]

(* What resolveIDLocal answers: tombstone, then cache, then store. *)
View(id) == IF id \in deletedIDs THEN None
            ELSE IF cache[id] # None THEN cache[id] ELSE store[id]

(* The new file is in place, and not yet the store of the Engine. *)
Installed == {"finalize", "pinned"}

(* Nobody replaces the store: finalizePersistedBody keeps dataMu while it   *)
(* waits for those who read the old one.                                   *)
DataMuFree == pc # "pinned"

(* Ids with a mutation that the open store does not hold. *)
Pending == dirtyIDs \cup newIDs \cup deletedIDs

(* localIDs *)
LocalIDs == ({id \in Ids : store[id] # None} \cup newIDs) \ deletedIDs

(* Mutations m laid over records r: what restoreMutationJournal rebuilds. *)
Overlay(r, m) == [id \in Ids |-> IF m[id] = NoEntry THEN r[id] ELSE m[id]]

(* Mutant of BestSlot: the first slot that decodes is taken. *)
FirstSlot == IF slots[0].seq > 0 THEN slots[0] ELSE slots[1]

(* readMutationJournal: of the two slots that decode, the one with the    *)
(* highest sequence number.  A zeroed or torn slot does not decode; it is *)
(* a slot with sequence number 0.                                         *)
BestSlot == IF slots[1].seq > slots[0].seq THEN slots[1] ELSE slots[0]

(* The logical state the file alone stands for. *)
DiskView == IF region /\ BestSlot.seq > 0 THEN Overlay(base, BestSlot.muts) ELSE base

(* snapshotMutationJournal *)
Snapshot == [id \in Ids |-> IF id \notin Pending THEN NoEntry
                            ELSE IF id \in deletedIDs THEN None ELSE cache[id]]

(* snapshotMutationJournal fails: "dirty Memory missing from cache". *)
MissingFromCache == \E id \in Pending \ deletedIDs : cache[id] = None

----------------------------------------------------------------------------
(* History.  Performing the mutations w changes what readers may expect;  *)
(* a successful persist call promises the records that each id has had    *)
(* since the call began.  A record that is being edited in place and not  *)
(* yet marked dirty is promised by the next call.                         *)
Editing(id) == lane[id].op = "edit"

Perform(w) ==
  LET performed(h, id) == IF w[id] = NoEntry THEN h[id] ELSE h[id] \cup {w[id]}
  IN  /\ expect' = [id \in Disciplined |-> IF w[id] = NoEntry THEN expect[id] ELSE w[id]]
      /\ recover' = [id \in Disciplined |-> performed(recover, id)]
      /\ since' = [id \in Disciplined |-> IF pc = "idle" THEN since[id]
                                          ELSE performed(since, id)]

Only(id, r) == [NoMuts EXCEPT ![id] = r]

Promised == [id \in Disciplined |-> IF Editing(id) THEN recover[id] ELSE {expect[id]}]

BeginPromise == /\ since' = Promised
                /\ UNCHANGED <<expect, recover>>
KeepPromise  == /\ recover' = [id \in Disciplined |-> recover[id] \cap since[id]]
                /\ since' = [id \in Disciplined |-> {}]
                /\ UNCHANGED expect
BreakOff     == /\ since' = [id \in Disciplined |-> {}]
                /\ UNCHANGED <<expect, recover>>

----------------------------------------------------------------------------
(* Mutations *)

LaneFree(id) == up /\ lane[id].op = "idle"

(* A memory_* primitive: the record is resolved (and cached), then changed *)
(* and marked dirty under dataMu.                                         *)
Modify(id, v) ==
  /\ LaneFree(id)
  /\ View(id) # None
  /\ cache' = [cache EXCEPT ![id] = v]
  /\ dirtyIDs' = dirtyIDs \cup {id}
  /\ dirty' = TRUE
  /\ Perform(Only(id, v))
  /\ UNCHANGED <<up, store, newIDs, deletedIDs, pagein, lane>>
  /\ UNCHANGED <<persistVars, diskVars>>

(* A program_* primitive: the cached record is changed first ...          *)
EditInPlace(id, v) ==
  /\ LaneFree(id)
  /\ View(id) # None
  /\ cache' = [cache EXCEPT ![id] = v]
  /\ lane' = [lane EXCEPT ![id] = Edit]
  /\ Perform(Only(id, v))
  /\ UNCHANGED <<up, store, newIDs, dirtyIDs, deletedIDs, dirty, pagein>>
  /\ UNCHANGED <<persistVars, diskVars>>

(* ... and marked dirty afterwards (markDirty). *)
MarkDirty(id) ==
  /\ up /\ lane[id].op = "edit"
  /\ dirtyIDs' = dirtyIDs \cup {id}
  /\ dirty' = TRUE
  /\ lane' = [lane EXCEPT ![id] = Idle]
  /\ UNCHANGED <<up, cache, store, newIDs, deletedIDs, pagein>>
  /\ UNCHANGED <<persistVars, diskVars, historyVars>>

(* program_import changes the record and marks it in the Engine that runs  *)
(* the program, whoever owns it.  Here the owner, ...                      *)
ImportOwned(id, v) ==
  /\ LaneFree(id) /\ id \in Imported
  /\ View(id) # None
  /\ cache' = [cache EXCEPT ![id] = v]
  /\ Perform(Only(id, v))
  /\ UNCHANGED <<up, store, newIDs, dirtyIDs, deletedIDs, dirty, pagein, lane>>
  /\ UNCHANGED <<persistVars, diskVars>>

(* ... and here the Engine that runs the program and has no such record.   *)
ImportForeign(id) ==
  /\ LaneFree(id) /\ id \in Imported
  /\ View(id) = None
  /\ dirtyIDs' = dirtyIDs \cup {id}
  /\ dirty' = TRUE
  /\ UNCHANGED <<up, cache, store, newIDs, deletedIDs, pagein, lane>>
  /\ UNCHANGED <<persistVars, diskVars, historyVars>>

(* cache_drop, in the commit lane: a record that is not marked leaves the  *)
(* cache, also between the two steps of an upsert.                         *)
CacheDrop(id) ==
  /\ up /\ lane[id].op # "edit"
  /\ cache[id] # None /\ id \notin dirtyIDs \cup newIDs
  /\ cache' = [cache EXCEPT ![id] = None]
  /\ UNCHANGED <<up, store, newIDs, dirtyIDs, deletedIDs, dirty, pagein, lane>>
  /\ UNCHANGED <<persistVars, diskVars, historyVars>>

(* upsertExplicitMemoryBounded looks the id up and, when it is there,     *)
(* upsertExplicitMemoryOnOwner asks the store whether it holds the id ... *)
UpsertLookup(id, v) ==
  /\ LaneFree(id)
  /\ id \in deletedIDs => id \in Recreated
  /\ cache' = [cache EXCEPT ![id] = IF View(id) # None THEN View(id) ELSE @]
  /\ lane' = [lane EXCEPT ![id] = [op |-> "upsert", val |-> v,
                                   found |-> View(id), stored |-> store[id]]]
  /\ UNCHANGED <<up, store, newIDs, dirtyIDs, deletedIDs, dirty, pagein>>
  /\ UNCHANGED <<persistVars, diskVars, historyVars>>

(* ... and changes the maps under dataMu, with the answer it got then.    *)
UpsertOnOwner(id) ==
  /\ up /\ lane[id].op = "upsert" /\ lane[id].found # None
  /\ cache' = [cache EXCEPT ![id] = lane[id].val]
  /\ newIDs' = IF lane[id].stored # None THEN newIDs \ {id} ELSE newIDs \cup {id}
  /\ deletedIDs' = deletedIDs \ {id}
  /\ dirtyIDs' = dirtyIDs \cup {id}
  /\ dirty' = TRUE
  /\ lane' = [lane EXCEPT ![id] = Idle]
  /\ Perform(Only(id, lane[id].val))
  /\ UNCHANGED <<up, store, pagein>>
  /\ UNCHANGED <<persistVars, diskVars>>

(* Nothing was found: placeRuntimeMemory ends in addRuntimeMemory. *)
AddRuntimeMemory(id) ==
  /\ up /\ lane[id].op = "upsert" /\ lane[id].found = None
  /\ cache' = [cache EXCEPT ![id] = lane[id].val]
  /\ newIDs' = newIDs \cup {id}
  /\ dirtyIDs' = dirtyIDs \cup {id}
  /\ dirty' = TRUE
  /\ lane' = [lane EXCEPT ![id] = Idle]
  /\ Perform(Only(id, lane[id].val))
  /\ UNCHANGED <<up, store, deletedIDs, pagein>>
  /\ UNCHANGED <<persistVars, diskVars>>

(* memory_delete, deleteExplicitMemoryBounded *)
Delete(id) ==
  /\ LaneFree(id)
  /\ View(id) # None
  /\ deletedIDs' = deletedIDs \cup {id}
  /\ cache' = [cache EXCEPT ![id] = None]
  /\ newIDs' = newIDs \ {id}
  /\ dirtyIDs' = dirtyIDs \ {id}
  /\ dirty' = TRUE
  /\ Perform(Only(id, None))
  /\ UNCHANGED <<up, store, pagein, lane>>
  /\ UNCHANGED <<persistVars, diskVars>>

(* applySpeculativeStructuralPlanLocked for every id of a transaction     *)
(* whose baselines have been validated, all under dataMu: w[id] = None    *)
(* deletes.  A record that is only pending creation gets no tombstone.    *)
SpeculativeCommit(w) ==
  LET written == {id \in Ids : w[id] \in Vals}
      removed == {id \in Ids : w[id] = None}
  IN  /\ written \cup removed # {}
      /\ \A id \in written \cup removed : LaneFree(id) /\ View(id) # None
      /\ removed \cap newIDs \subseteq SpecDeleted
      /\ cache' = Overlay(cache, w)
      /\ newIDs' = newIDs \ removed
      /\ deletedIDs' = (deletedIDs \ (written \cup removed)) \cup (removed \ newIDs)
      /\ dirtyIDs' = (dirtyIDs \ removed) \cup written
      /\ dirty' = TRUE
      /\ Perform(w)
      /\ UNCHANGED <<up, store, pagein, lane>>
      /\ UNCHANGED <<persistVars, diskVars>>

----------------------------------------------------------------------------
(* resolveIDLocal by a handler: the store is read without dataMu ...      *)
PageInRead(id) ==
  /\ up /\ id \in Paged
  /\ pagein[id] = None
  /\ id \notin deletedIDs /\ cache[id] = None /\ store[id] # None
  /\ pagein' = [pagein EXCEPT ![id] = store[id]]
  /\ UNCHANGED <<up, cache, store, newIDs, dirtyIDs, deletedIDs, dirty, lane>>
  /\ UNCHANGED <<persistVars, diskVars, historyVars>>

(* ... and the record cached under it, unless the id is now deleted or    *)
(* cached by someone else.                                                *)
PageInInstall(id) ==
  /\ up /\ pagein[id] # None
  /\ cache' = [cache EXCEPT ![id] = IF id \in deletedIDs \/ @ # None THEN @
                                    ELSE pagein[id]]
  /\ pagein' = [pagein EXCEPT ![id] = None]
  /\ UNCHANGED <<up, store, newIDs, dirtyIDs, deletedIDs, dirty, lane>>
  /\ UNCHANGED <<persistVars, diskVars, historyVars>>

----------------------------------------------------------------------------
(* persistEngineIncremental *)

PersistDone == /\ pc' = "idle" /\ todo' = {} /\ snap' = NoRecs /\ payload' = NoMuts

(* The calls that report success without writing: the body is not dirty   *)
(* (checked without the lock), there is no mutation to write, or the      *)
(* newest slot already holds these mutations.                             *)
PersistNothing ==
  /\ up /\ DataMuFree
  /\ \/ ~dirty
     \/ /\ pc = "idle"
        /\ ~MissingFromCache
        /\ \/ Pending = {}
           \/ /\ region /\ Cardinality(Pending) <= MaxEntries
              /\ BestSlot.seq > 0 /\ BestSlot.base = base
              /\ BestSlot.muts = Snapshot
  /\ recover' = Promised
  /\ UNCHANGED <<expect, since>>
  /\ UNCHANGED <<engineVars, persistVars, diskVars>>

(* The lock is taken and the mutations are copied under dataMu.  A payload *)
(* that is too large, or a file without a journal region, goes to         *)
(* SaveBegin instead.                                                     *)
JournalSnapshot ==
  /\ up /\ pc = "idle" /\ dirty
  /\ ~MissingFromCache /\ Pending # {}
  /\ region /\ Cardinality(Pending) <= MaxEntries
  /\ BestSlot.seq > 0 => BestSlot.base = base /\ BestSlot.muts # Snapshot
  /\ BestSlot.seq < MaxSeq
  /\ pc' = "journal"
  /\ payload' = Snapshot
  /\ BeginPromise
  /\ UNCHANGED <<todo, snap>>
  /\ UNCHANGED <<engineVars, diskVars>>

(* Mutant of NextSlot: one slot, so that the newest record is overwritten. *)
SingleSlot(s) == [slots EXCEPT ![0] = s]

(* writeMutationJournal: slot (next - 1) % 2, where next follows the      *)
(* sequence number that was read.                                         *)
NextSlot(s) ==
  LET next == BestSlot.seq + 1 IN [slots EXCEPT ![(next - 1) % 2] = s]
WrittenSlot == [seq |-> BestSlot.seq + 1, base |-> base, muts |-> payload]

JournalWrite ==
  /\ up /\ pc = "journal"
  /\ slots' = NextSlot(WrittenSlot)
  /\ PersistDone
  /\ KeepPromise
  /\ UNCHANGED <<base, region>>
  /\ UNCHANGED engineVars

(* The write or the sync fails: the slot keeps its old bytes, is torn, or *)
(* holds the new bytes, and the caller gets an error.                     *)
JournalWriteFails ==
  /\ up /\ pc = "journal"
  /\ slots' \in {slots, NextSlot(NoSlot), NextSlot(WrittenSlot)}
  /\ PersistDone
  /\ BreakOff
  /\ UNCHANGED <<base, region>>
  /\ UNCHANGED engineVars

----------------------------------------------------------------------------
(* saveBody to the Engine's own path *)

SaveBegin ==
  /\ up /\ pc = "idle"
  /\ pc' = "copy"
  /\ todo' = LocalIDs
  /\ snap' = NoRecs
  /\ BeginPromise
  /\ UNCHANGED payload
  /\ UNCHANGED <<engineVars, diskVars>>

(* Mutant of SaveCopy: the ids are listed again after every copy. *)
SaveCopyRelisting(id) ==
  /\ up /\ pc = "copy" /\ id \in todo
  /\ cache' = [cache EXCEPT ![id] = IF id \in deletedIDs THEN @ ELSE View(id)]
  /\ snap' = [snap EXCEPT ![id] = View(id)]
  /\ todo' = LocalIDs \ {id}
  /\ UNCHANGED <<up, store, newIDs, dirtyIDs, deletedIDs, dirty, pagein, lane>>
  /\ UNCHANGED <<pc, payload>>
  /\ UNCHANGED <<diskVars, historyVars>>

(* snapshotMemoriesForPersistence resolves one id (and caches it) and     *)
(* copies it; an id deleted meanwhile is left out.                        *)
SaveCopy(id) ==
  /\ up /\ pc = "copy" /\ id \in todo
  /\ cache' = [cache EXCEPT ![id] = IF id \in deletedIDs THEN @ ELSE View(id)]
  /\ snap' = [snap EXCEPT ![id] = View(id)]
  /\ todo' = todo \ {id}
  /\ UNCHANGED <<up, store, newIDs, dirtyIDs, deletedIDs, dirty, pagein, lane>>
  /\ UNCHANGED <<pc, payload>>
  /\ UNCHANGED <<diskVars, historyVars>>

(* Mutant of Renamed: the new file takes the journal over. *)
RenamedWithJournal == /\ base' = snap
                      /\ region' = TRUE
                      /\ UNCHANGED slots

(* writeDetZipWithMutationJournal: the new file, with an empty journal,   *)
(* is renamed over the old one.                                           *)
Renamed == /\ base' = snap
           /\ region' = TRUE
           /\ slots' = [i \in {0, 1} |-> NoSlot]

SaveRename ==
  /\ up /\ pc = "copy" /\ todo = {}
  /\ Renamed
  /\ pc' = "finalize"
  /\ UNCHANGED <<todo, snap, payload>>
  /\ UNCHANGED <<engineVars, historyVars>>

(* An error before the rename leaves the file alone; one after it (the    *)
(* directory sync, reopening the file) leaves the new file behind and the *)
(* Engine on the old inode.                                               *)
SaveFails ==
  /\ up
  /\ \/ pc \in {"copy", "finalize"} /\ UNCHANGED diskVars
     \/ pc = "copy" /\ todo = {} /\ Renamed
  /\ PersistDone
  /\ BreakOff
  /\ UNCHANGED engineVars

(* Mutants of StillDeleted and StillDirty: every tombstone is dropped; a  *)
(* deleted id is treated as a changed one.                                *)
NoneDeleted == {}
DeletedIsDirty == {id \in Pending :
                     cache[id] = None \/ snap[id] = None \/ cache[id] # snap[id]}

(* finalizePersistedBody: a tombstone is dropped when the id was left out *)
(* of the file, a change when the record in the cache is the one written. *)
(* The caller gets an error when the activation index of a core body      *)
(* cannot be rebuilt afterwards.                                          *)
StillDeleted == {id \in deletedIDs : snap[id] # None}
StillDirty   == {id \in Pending \ deletedIDs :
                   cache[id] = None \/ snap[id] = None \/ cache[id] # snap[id]}

(* dataMu is taken, and then the guard of the old store: *)
Swap ==
  /\ store' = base
  /\ deletedIDs' = StillDeleted
  /\ dirtyIDs' = StillDirty
  /\ newIDs' = {id \in StillDirty : base[id] = None}
  /\ dirty' = (StillDirty \cup StillDeleted # {})
  /\ PersistDone
  /\ KeepPromise \/ BreakOff
  /\ UNCHANGED <<up, cache, pagein, lane>>
  /\ UNCHANGED diskVars

(* at once, ...                                                           *)
SaveFinalize == up /\ pc = "finalize" /\ Swap

(* ... or after a wait, with dataMu, for the speculative runs that have    *)
(* pinned the old store, ...                                               *)
SaveWaits ==
  /\ up /\ pc = "finalize"
  /\ pc' = "pinned"
  /\ UNCHANGED <<todo, snap, payload>>
  /\ UNCHANGED <<engineVars, diskVars, historyVars>>

(* ... until the last of them ends: nobody pins it meanwhile.              *)
SaveUnpinned == up /\ pc = "pinned" /\ Swap

----------------------------------------------------------------------------
(* The process dies; a slot that was being written may be torn. *)
Crash ==
  /\ up
  /\ slots' \in (IF pc = "journal" THEN {slots, NextSlot(NoSlot)} ELSE {slots})
  /\ up' = FALSE
  /\ cache' = NoRecs /\ store' = NoRecs
  /\ newIDs' = {} /\ dirtyIDs' = {} /\ deletedIDs' = {} /\ dirty' = FALSE
  /\ pagein' = NoRecs /\ lane' = NoLanes
  /\ PersistDone
  /\ BreakOff
  /\ UNCHANGED <<base, region>>

(* mutationJournalMatchesBase *)
MatchesBase(m) == \A id \in Ids : m[id] # NoEntry => base[id] = m[id]

(* restoreMutationJournal refuses a journal written over another base. *)
LoadAccepted == region /\ BestSlot.seq > 0 =>
                  BestSlot.base = base \/ MatchesBase(BestSlot.muts)

(* loadEngineWithMutationJournal *)
Restored == IF region /\ BestSlot.seq > 0 /\ BestSlot.base = base
            THEN BestSlot.muts ELSE NoMuts

Restart ==
  LET ids == {id \in Ids : Restored[id] # NoEntry}
  IN  /\ ~up
      /\ LoadAccepted
      /\ up' = TRUE
      /\ store' = base
      /\ cache' = Overlay(NoRecs, Restored)
      /\ dirtyIDs' = ids
      /\ deletedIDs' = {id \in ids : Restored[id] = None}
      /\ newIDs' = {id \in ids : Restored[id] # None /\ base[id] = None}
      /\ dirty' = (ids # {})
      /\ slots' = IF region /\ BestSlot.seq > 0 /\ BestSlot.base # base
                  THEN [i \in {0, 1} |-> NoSlot] ELSE slots
      /\ expect' = [id \in Disciplined |-> DiskView[id]]
      /\ recover' = [id \in Disciplined |-> {DiskView[id]}]
      /\ UNCHANGED <<since, pagein, lane, base, region>>
      /\ UNCHANGED persistVars

----------------------------------------------------------------------------
Init ==
  /\ up = FALSE
  /\ cache = NoRecs /\ store = NoRecs
  /\ newIDs = {} /\ dirtyIDs = {} /\ deletedIDs = {} /\ dirty = FALSE
  /\ pagein = NoRecs /\ lane = NoLanes
  /\ pc = "idle" /\ todo = {} /\ snap = NoRecs /\ payload = NoMuts
  /\ base \in [Ids -> Records]
  /\ region \in BOOLEAN
  /\ slots = [i \in {0, 1} |-> NoSlot]
  /\ expect = [id \in Disciplined |-> base[id]]
  /\ recover = [id \in Disciplined |-> {base[id]}]
  /\ since = [id \in Disciplined |-> {}]

Mutate ==
  /\ DataMuFree
  /\ \/ \E id \in Ids, v \in Vals :
          Modify(id, v) \/ EditInPlace(id, v) \/ ImportOwned(id, v) \/ UpsertLookup(id, v)
     \/ \E id \in Ids : \/ MarkDirty(id) \/ ImportForeign(id) \/ CacheDrop(id)
                        \/ UpsertOnOwner(id) \/ AddRuntimeMemory(id) \/ Delete(id)
     \/ \E w \in Mutations : SpeculativeCommit(w)

PageIn == DataMuFree /\ \E id \in Ids : PageInRead(id) \/ PageInInstall(id)

Persist ==
  \/ PersistNothing \/ JournalSnapshot \/ JournalWrite \/ JournalWriteFails
  \/ SaveBegin \/ SaveRename \/ SaveFails \/ SaveFinalize \/ SaveWaits \/ SaveUnpinned
  \/ \E id \in Ids : SaveCopy(id)

Next == Mutate \/ PageIn \/ Persist \/ Crash \/ Restart

Spec == Init /\ [][Next]_vars

(* The goroutine that holds the persistence lock goes on, but for the wait *)
(* for speculative runs, until it returns.                                 *)
PersistStep ==
  \/ JournalWrite \/ JournalWriteFails
  \/ SaveRename \/ SaveFails \/ SaveFinalize
  \/ \E id \in Ids : SaveCopy(id)

FairSpec == Spec /\ WF_vars(PersistStep)

----------------------------------------------------------------------------
(* The variables have their types, and a sequence number picks its slot. *)
TypeOK ==
  /\ up \in BOOLEAN /\ dirty \in BOOLEAN /\ region \in BOOLEAN
  /\ cache \in [Ids -> Records] /\ store \in [Ids -> Records]
  /\ newIDs \subseteq Ids /\ dirtyIDs \subseteq Ids /\ deletedIDs \subseteq Ids
  /\ pagein \in [Ids -> Records]
  /\ lane \in [Ids -> Lane]
  /\ \A id \in Ids : lane[id].op = "upsert" => lane[id].val \in Vals
  /\ pc \in {"idle", "journal", "copy"} \cup Installed
  /\ todo \subseteq Ids
  /\ snap \in [Ids -> Records]
  /\ payload \in Mutations
  /\ base \in [Ids -> Records]
  /\ slots \in [{0, 1} -> Slot]
  /\ expect \in [Disciplined -> Records]
  /\ recover \in [Disciplined -> SUBSET Records]
  /\ since \in [Disciplined -> SUBSET Records]

(* A reader of a running body sees exactly the mutations performed, while *)
(* full saves swap the store under it, drop tombstones and clear marks.   *)
ReadYourWrites == up => \A id \in Disciplined : View(id) = expect[id]

(* Whenever the process dies, what the file stands for is, for every id,  *)
(* a record the id has had since the last persist call that reported      *)
(* success began: no acknowledged mutation is lost, no deleted record     *)
(* comes back, whichever slot was torn and wherever a save was.           *)
AckedDurable == \A id \in Disciplined : DiskView[id] \in recover[id]

(* restoreMutationJournal never refuses a body that this code wrote: a    *)
(* journal slot that decodes was written over the base it lies with.      *)
JournalOfThisBase == region /\ BestSlot.seq > 0 => BestSlot.base = base

(* A persist call is never refused because a dirty record left the cache, *)
(* by cache_drop, a deletion or a swap of the store.                      *)
PersistNeverRefused == up => \A id \in Disciplined :
                         id \in Pending \ deletedIDs => cache[id] # None

(* A persist call returns, however busy the commit lane is meanwhile, as  *)
(* long as the speculative runs that have pinned the old store end: the   *)
(* ids to copy are listed once, and nobody pins the store anew.           *)
PersistReturns == []<>(pc # "pinned") => (pc # "idle" ~> pc = "idle")

(* The body keeps the promise of DurableMap for the disciplined ids. *)
Promise == INSTANCE DurableMap WITH
  Ids     <- Disciplined,
  view    <- [id \in Disciplined |-> IF up THEN View(id) ELSE expect[id]],
  recover <- recover

Implements == Promise!Spec

----------------------------------------------------------------------------
(* The inductive invariant behind ReadYourWrites and AckedDurable.        *)

(* The dirty flag covers the mutation sets, a page-in is of a paged id,   *)
(* and nothing is under way in a process that is down.                    *)
EngineInv ==
  /\ up /\ ~dirty => Pending = {}
  /\ \A id \in Ids : pagein[id] # None => id \in Paged
  /\ ~up => pc = "idle" /\ lane = NoLanes

(* A slot that decodes lies where its sequence number puts it, over the   *)
(* base it was written for.                                               *)
SlotInv ==
  /\ \A i \in {0, 1} : slots[i].seq > 0 =>
       region /\ (slots[i].seq - 1) % 2 = i /\ slots[i].base = base
  /\ pc = "journal" => region /\ BestSlot.seq < MaxSeq
  /\ pc \in Installed => todo = {} /\ base = snap /\ region /\ BestSlot.seq = 0

(* What the mutation sets say about cache, store and file. *)
TrackInv(id) ==
  /\ View(id) = expect[id]
  /\ id \in deletedIDs => cache[id] = None
  /\ id \in Pending \ deletedIDs => cache[id] # None
  /\ id \notin Pending /\ ~Editing(id) =>
       /\ cache[id] # None => cache[id] = store[id]
       /\ DiskView[id] = View(id)
  /\ cache[id] # None /\ store[id] = None => id \in newIDs
  /\ BestSlot.seq > 0 /\ BestSlot.muts[id] # NoEntry => id \in Pending
  /\ expect[id] \in recover[id]

(* What a mutation under way knows about the record it is changing. *)
LaneInv(id) ==
  LET l == lane[id]
  IN  /\ l.op = "edit" => cache[id] # None /\ id \notin deletedIDs
      /\ l.op = "upsert" /\ l.found # None => View(id) # None
      /\ l.op = "upsert" /\ l.found # None /\ l.stored # None => store[id] # None
      /\ l.op = "upsert" /\ l.found = None => View(id) = None /\ id \notin deletedIDs

(* What the persist call in progress has copied is recent, and complete   *)
(* for every id without a pending mutation.                               *)
CopyInv(id) ==
  /\ pc # "idle" =>
       /\ since[id] \subseteq recover[id]
       /\ expect[id] \in since[id]
       /\ ~dirty /\ ~Editing(id) => since[id] = {expect[id]}
  /\ pc = "journal" =>
       /\ Overlay(base, payload)[id] \in since[id]
       /\ payload[id] # NoEntry => id \in Pending
  /\ pc \in {"copy"} \cup Installed /\ id \notin todo =>
       /\ snap[id] \in since[id]
       /\ id \notin Pending /\ ~Editing(id) => snap[id] = View(id)
       /\ snap[id] = None /\ store[id] # None => id \in deletedIDs

BodyInv ==
  /\ TypeOK
  /\ EngineInv
  /\ SlotInv
  /\ AckedDurable
  /\ up => \A id \in Disciplined : TrackInv(id) /\ LaneInv(id) /\ CopyInv(id)
============================================================================
