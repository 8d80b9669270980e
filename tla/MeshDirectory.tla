---------------------------- MODULE MeshDirectory ----------------------------
(***************************************************************************)
(* The Sovereign's directory of node identities: register_node             *)
(* (mesh_authority_runtime.go) binds a node id to a public key, in the     *)
(* process and in a directory record of the body (mesh_state_memory.go),   *)
(* and a Sovereign that starts serves requests while it still recovers the *)
(* directory (bindMeshEngine, recoverMeshJournalAfterBind).                *)
(*                                                                         *)
(* Two nodes left with the default id ("node-local") have one id and two   *)
(* keys.  Legacy records without a key are like no record.                 *)
(***************************************************************************)
EXTENDS Integers, FiniteSets

CONSTANTS
  Ids, Keys,    \* node ids that register, and the public keys they may have
  Regs,         \* goroutines that serve registrations
  MaxTroubles,  \* bound: restarts and failed saves
  None

ASSUME DirectoryAssumption == MaxTroubles \in Nat /\ None \notin Keys \cup Ids

VARIABLES
  dir,       \* the directory of the process: id -> key
  dirMem,    \* id -> key in the directory record the Engine has
  dirDisk,   \* id -> key in the directory record of the body
  boot,      \* how far the Sovereign has come in starting
  found,     \* id -> key that recovery has read
  reg,       \* goroutine -> the registration it serves
  acked,     \* id -> keys whose registration was acknowledged (history)
  loose,     \* ids registered before recovery, or twice at once (history)
  troubles   \* restarts and failed saves so far

directoryVars == <<dir, dirMem, dirDisk, boot, found, reg, acked, loose, troubles>>

NoReg == [pc |-> "idle", id |-> None, key |-> None]
Empty == [id \in Ids |-> None]
Trouble == troubles < MaxTroubles /\ troubles' = troubles + 1

RegAt(r, pc) == reg[r].pc = pc
RegTo(r, pc) == reg' = [reg EXCEPT ![r].pc = pc]

Rivals(r, id, key) ==
  \E q \in Regs \ {r} : ~RegAt(q, "idle") /\ reg[q].id = id /\ reg[q].key # key

(* A bound id takes no other key. *)
RegisterNode(r, id, key) ==
  /\ RegAt(r, "idle")
  /\ dir[id] \in {None, key}
  /\ reg' = [reg EXCEPT ![r] = [pc |-> "upsert", id |-> id, key |-> key]]
  /\ loose' = IF boot # "ready" \/ Rivals(r, id, key) THEN loose \cup {id} ELSE loose
  /\ UNCHANGED <<dir, dirMem, dirDisk, boot, found, acked, troubles>>

(* persistSovereignMeshNode: the directory record is changed ... *)
RegisterUpsert(r) ==
  /\ RegAt(r, "upsert") /\ RegTo(r, "save")
  /\ dirMem' = [dirMem EXCEPT ![reg[r].id] = reg[r].key]
  /\ UNCHANGED <<dir, dirDisk, boot, found, acked, loose, troubles>>

(* ... and saved. *)
RegisterSave(r) ==
  /\ RegAt(r, "save")
  /\ \/ dirDisk' = dirMem /\ RegTo(r, "publish") /\ UNCHANGED troubles
     \/ /\ Trouble /\ dirDisk' \in {dirDisk, dirMem}
        /\ reg' = [reg EXCEPT ![r] = NoReg]
  /\ UNCHANGED <<dir, dirMem, boot, found, acked, loose>>

(* The directory shows it, and the node is told. *)
RegisterPublish(r) ==
  /\ RegAt(r, "publish")
  /\ dir' = [dir EXCEPT ![reg[r].id] = reg[r].key]
  /\ acked' = [acked EXCEPT ![reg[r].id] = @ \cup {reg[r].key}]
  /\ reg' = [reg EXCEPT ![r] = NoReg]
  /\ UNCHANGED <<dirMem, dirDisk, boot, found, loose, troubles>>

(* The Sovereign stops and starts.  bindMeshEngine begins to serve before *)
(* the directory is recovered.                                            *)
SovereignRestart ==
  /\ Trouble
  /\ boot' = "serving" /\ dir' = Empty /\ found' = Empty /\ dirMem' = dirDisk
  /\ reg' = [r \in Regs |-> NoReg]
  /\ UNCHANGED <<dirDisk, acked, loose>>

(* recoverSovereignMeshState: the records are read ... *)
RecoverRead ==
  /\ boot = "serving"
  /\ boot' = "recovering" /\ found' = dirMem
  /\ UNCHANGED <<dir, dirMem, dirDisk, reg, acked, loose, troubles>>

(* Mutant of RecoverPublish: the records read are forgotten. *)
RecoverNothing ==
  /\ boot = "recovering"
  /\ boot' = "ready" /\ found' = Empty /\ UNCHANGED dir
  /\ UNCHANGED <<dirMem, dirDisk, reg, acked, loose, troubles>>

(* ... and put into the directory. *)
RecoverPublish ==
  /\ boot = "recovering"
  /\ boot' = "ready" /\ found' = Empty
  /\ dir' = [id \in Ids |-> IF found[id] # None THEN found[id] ELSE dir[id]]
  /\ UNCHANGED <<dirMem, dirDisk, reg, acked, loose, troubles>>

----------------------------------------------------------------------------
DirectoryInit ==
  /\ dir = Empty /\ dirMem = Empty /\ dirDisk = Empty /\ found = Empty
  /\ boot = "ready" /\ reg = [r \in Regs |-> NoReg]
  /\ acked = [id \in Ids |-> {}] /\ loose = {} /\ troubles = 0

RegisterStep == \E r \in Regs :
  \/ \E id \in Ids, key \in Keys : RegisterNode(r, id, key)
  \/ RegisterUpsert(r) \/ RegisterSave(r) \/ RegisterPublish(r)

DirectoryNext == RegisterStep \/ SovereignRestart \/ RecoverRead \/ RecoverPublish

DirectorySpec == DirectoryInit /\ [][DirectoryNext]_directoryVars

----------------------------------------------------------------------------
(* Types *)
DirectoryTypeOK ==
  /\ {dir, dirMem, dirDisk, found} \subseteq [Ids -> Keys \cup {None}]
  /\ boot \in {"serving", "recovering", "ready"}
  /\ reg \in [Regs -> [pc : {"idle", "upsert", "save", "publish"},
                       id : Ids \cup {None}, key : Keys \cup {None}]]
  /\ acked \in [Ids -> SUBSET Keys] /\ loose \subseteq Ids /\ troubles \in Nat

InFlight(r, id) == ~RegAt(r, "idle") /\ reg[r].id = id

(* The registrations in progress for an id agree with each other, run on   *)
(* a recovered directory, and have left their key where they have come.    *)
RegistrationsAgree ==
  /\ \A r \in Regs : ~RegAt(r, "idle") => reg[r].id \in Ids /\ reg[r].key \in Keys
  /\ \A id \in Ids \ loose, r \in Regs : InFlight(r, id) =>
       /\ boot = "ready"
       /\ \A q \in Regs : InFlight(q, id) => reg[q].key = reg[r].key
       /\ reg[r].pc \in {"save", "publish"} => dirMem[id] = reg[r].key
       /\ reg[r].pc = "publish" => dirDisk[id] = reg[r].key

(* An acknowledged key is in every copy of the directory, and every        *)
(* registration in progress has it.                                        *)
AckedEverywhere ==
  \A id \in Ids \ loose : \A key \in acked[id] :
    /\ dirMem[id] = key /\ dirDisk[id] = key
    /\ boot = "recovering" => found[id] = key
    /\ boot = "ready" => dir[id] = key
    /\ \A r \in Regs : InFlight(r, id) => reg[r].key = key

(* The inductive invariant *)
DirectoryInv == DirectoryTypeOK /\ RegistrationsAgree /\ AckedEverywhere

(* A node id keeps the key that was acknowledged, in the directory record  *)
(* of the body too, unless it registered before the Sovereign had          *)
(* recovered its directory or with two keys at once (register_node checks, *)
(* saves and publishes without a lock).                                    *)
IdentityKept ==
  \A id \in Ids \ loose : \A key \in acked[id] :
    dirDisk[id] = key /\ (boot = "ready" => dir[id] = key)
=============================================================================
