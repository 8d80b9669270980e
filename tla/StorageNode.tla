----------------------------- MODULE StorageNode -----------------------------
(***************************************************************************)
(* One storage body served by a remote-storage node (handleMemNodeConn in  *)
(* kernel.go), its clients (the remote_space_* primitives) and the lock    *)
(* that keeps its users apart (remote_body_txn_runtime.go).                *)
(*                                                                         *)
(* A request runs on a connection of its own: it takes the body's          *)
(* transaction lock, opens the file, answers from that image, possibly     *)
(* writes it back, and closes.  A client may give up while its request is  *)
(* still running and send the next one.  The same process may mount the    *)
(* body into a live fabric, under the same lock.                           *)
(*                                                                         *)
(* The body has one record of interest; its content is the client that     *)
(* wrote it and its revision, and stands for its structural digest.        *)
(***************************************************************************)
EXTENDS Integers, FiniteSets

CONSTANTS
  Clients,    \* programs that use the body
  Conns,      \* connections served at once (storageMaxConcurrent)
  Creators,   \* clients that create the body
  Entries,    \* lock registry entries (objects in memory)
  MaxRev,     \* bound: revisions
  MaxCalls,   \* bound: operations the clients start
  Mounts,     \* TRUE: the process also mounts the body
  None, Missing

VARIABLES
  file,      \* the record in the file; Missing when there is no file
  buried,    \* whether the file's journal has a deletion of the record
  live,      \* the record a mounted Engine has; Missing when not mounted
  registry,  \* remoteBodyTxnLocks of this path: an entry, or None
  refs,      \* entry -> the connections its refs count
  owner,     \* entry -> the connection that holds its mutex
  conn,      \* connection -> request being served
  client,    \* client -> operation in progress
  calls

nodeVars == <<file, buried, live>>
lockVars == <<registry, refs, owner>>
storageVars == <<nodeVars, lockVars, conn, client, calls>>

Contents == [rev : 1..MaxRev, by : Clients]
BodyRecords  == Contents \cup {None}

ASSUME NodeAssumption ==
  /\ MaxRev \in Nat /\ Missing # None
  /\ None \notin Contents \cup Conns \cup Entries \cup Clients /\ Missing \notin Contents

Unused   == [pc |-> "idle", op |-> "none", for |-> None, rec |-> None,
             exp |-> None, replace |-> FALSE, entry |-> None, image |-> Missing]
NoCall   == [pc |-> "idle", op |-> "none", rec |-> None, seen |-> None]

----------------------------------------------------------------------------
(* acquireRemoteBodyTransaction and its release *)

(* The registry's entry is found or made, and counted, under its mutex. *)
Enter(k) ==
  /\ conn[k].pc = "enter"
  /\ \E e \in Entries :
       /\ IF registry = None THEN refs[e] = {} ELSE e = registry
       /\ registry' = e
       /\ refs' = [refs EXCEPT ![e] = @ \cup {k}]
       /\ conn' = [conn EXCEPT ![k].pc = "wait", ![k].entry = e]
  /\ UNCHANGED <<nodeVars, owner, client, calls>>

(* entry.mu.Lock *)
Acquire(k) ==
  /\ conn[k].pc = "wait"
  /\ owner[conn[k].entry] = None
  /\ owner' = [owner EXCEPT ![conn[k].entry] = k]
  /\ conn' = [conn EXCEPT ![k].pc = "open"]
  /\ UNCHANGED <<nodeVars, registry, refs, client, calls>>

(* Engine.close: the file is closed, then entry.mu is unlocked ... *)
Close(k) ==
  /\ conn[k].pc = "close"
  /\ owner' = [owner EXCEPT ![conn[k].entry] = None]
  /\ conn' = [conn EXCEPT ![k].pc = "leave", ![k].image = Missing]
  /\ UNCHANGED <<nodeVars, registry, refs, client, calls>>

(* Mutant of Leave: the entry is dropped although others wait for it. *)
LeaveDropping(k) ==
  /\ conn[k].pc = "leave"
  /\ refs' = [refs EXCEPT ![conn[k].entry] = @ \ {k}]
  /\ registry' = IF registry = conn[k].entry THEN None ELSE registry
  /\ conn' = [conn EXCEPT ![k] = Unused]
  /\ UNCHANGED <<nodeVars, owner, client, calls>>

(* ... and the entry leaves the registry with its last user. *)
Leave(k) ==
  LET e == conn[k].entry IN
  /\ conn[k].pc = "leave"
  /\ refs' = [refs EXCEPT ![e] = @ \ {k}]
  /\ registry' = IF refs[e] = {k} /\ registry = e THEN None ELSE registry
  /\ conn' = [conn EXCEPT ![k] = Unused]
  /\ UNCHANGED <<nodeVars, owner, client, calls>>

----------------------------------------------------------------------------
(* Replies.  A client that has given up does not see them. *)

Waiting(k) == conn[k].for # None

(* The answer to the digest request of an upsert or a delete: what was    *)
(* seen goes into the next request, as its expected digest.  Any other    *)
(* answer ends the operation.                                             *)
Reply(k, seen) ==
  IF ~Waiting(k) THEN UNCHANGED client
  ELSE client' = [client EXCEPT ![conn[k].for] =
                    IF conn[k].op = "digest" /\ (seen # None \/ @.op = "upsert")
                    THEN [@ EXCEPT !.pc = "observed", !.seen = seen] ELSE NoCall]

Fail(k) == IF ~Waiting(k) THEN UNCHANGED client
           ELSE client' = [client EXCEPT ![conn[k].for] = NoCall]

Step(k, pc) == conn' = [conn EXCEPT ![k].pc = pc]

----------------------------------------------------------------------------
(* handleMemNodeConn *)

(* create looks for the file before it takes the lock; put refuses to     *)
(* create one.                                                            *)
Stat(k) ==
  /\ conn[k].pc = "stat"
  /\ \/ conn[k].op = "create" /\ file = Missing
        /\ Step(k, "make") /\ UNCHANGED client
     \/ conn[k].op = "put" /\ file = Missing
        /\ conn' = [conn EXCEPT ![k] = Unused] /\ Fail(k)
     \/ file # Missing /\ Step(k, "enter") /\ UNCHANGED client
  /\ UNCHANGED <<nodeVars, lockVars, calls>>

(* createEmptyBody: an empty body is renamed into place; or it fails (no  *)
(* room, an I/O error).                                                   *)
Make(k) ==
  /\ conn[k].pc = "make"
  /\ \/ file' = None /\ buried' = FALSE /\ Step(k, "enter") /\ UNCHANGED client
     \/ UNCHANGED <<file, buried>> /\ conn' = [conn EXCEPT ![k] = Unused] /\ Fail(k)
  /\ UNCHANGED <<live, lockVars, calls>>

(* Mutant of Open: a mounted body is opened all the same. *)
OpenMounted(k) ==
  /\ conn[k].pc = "open"
  /\ conn[k].op \notin {"mount", "unmount"}
  /\ IF file = Missing
     THEN Step(k, "close") /\ Fail(k)
     ELSE conn' = [conn EXCEPT ![k].pc = "act", ![k].image = file] /\ UNCHANGED client
  /\ UNCHANGED <<nodeVars, lockVars, calls>>

(* loadPassiveStorageSerialized: refused while the body is mounted. *)
Open(k) ==
  /\ conn[k].pc = "open"
  /\ conn[k].op \notin {"mount", "unmount"}
  /\ IF live # Missing \/ file = Missing
     THEN Step(k, "close") /\ Fail(k)
     ELSE conn' = [conn EXCEPT ![k].pc = "act", ![k].image = file] /\ UNCHANGED client
  /\ UNCHANGED <<nodeVars, lockVars, calls>>

(* create, digest (get, list and tag read as digest does) *)
Read(k) ==
  /\ conn[k].pc = "act"
  /\ conn[k].op \in {"create", "digest"}
  /\ Reply(k, conn[k].image)
  /\ Step(k, "close")
  /\ UNCHANGED <<nodeVars, lockVars, calls>>

(* Mutant of PutAccepted: the expected digest is not compared. *)
PutAcceptedStale(k) ==
  LET ex == conn[k].image IN
  IF ex = None THEN conn[k].replace => conn[k].exp = None
  ELSE conn[k].replace /\ conn[k].exp # None /\ conn[k].rec.rev > ex.rev

(* put: a record that is not there is stored, unless the caller saw one;  *)
(* a divergent one is replaced when the caller saw exactly that one and   *)
(* the revision advances.                                                 *)
PutAccepted(k) ==
  LET ex == conn[k].image IN
  IF ex = None THEN conn[k].replace => conn[k].exp = None
  ELSE conn[k].replace /\ conn[k].exp = ex /\ conn[k].rec.rev > ex.rev

Put(k) ==
  /\ conn[k].pc = "act" /\ conn[k].op = "put"
  /\ IF conn[k].image # conn[k].rec /\ PutAccepted(k)
     THEN conn' = [conn EXCEPT ![k].pc = "persist", ![k].image = conn[k].rec]
          /\ UNCHANGED client
     ELSE Step(k, "close") /\ Reply(k, None)     \* the same, or a conflict
  /\ UNCHANGED <<nodeVars, lockVars, calls>>

(* delete: only the record the caller saw. *)
Delete(k) ==
  /\ conn[k].pc = "act" /\ conn[k].op = "delete"
  /\ IF conn[k].image # None /\ conn[k].exp = conn[k].image
     THEN conn' = [conn EXCEPT ![k].pc = "persist", ![k].image = None]
          /\ UNCHANGED client
     ELSE Step(k, "close") /\ Reply(k, None)     \* not found, or a conflict
  /\ UNCHANGED <<nodeVars, lockVars, calls>>

(* persistEngineIncremental of the private image; when it fails the file  *)
(* has the old record or the new one.  A deletion is journalled, or the    *)
(* body is saved whole.  A record put over a journalled deletion stays     *)
(* hidden by the restored tombstone, and is answered as stored.            *)
Persist(k) ==
  LET new == IF buried /\ conn[k].op = "put" THEN file ELSE conn[k].image IN
  /\ conn[k].pc = "persist"
  /\ \/ file' = new /\ Reply(k, None)
     \/ file' \in {file, new} /\ Fail(k)
  /\ buried' \in {buried, FALSE, conn[k].op = "delete" /\ file' = None}
  /\ Step(k, "close")
  /\ UNCHANGED <<live, lockVars, calls>>

----------------------------------------------------------------------------
(* mountSpace and unmountSpace, under the same lock *)

MountBody(k) ==
  /\ conn[k].pc = "open" /\ conn[k].op = "mount"
  /\ live' = IF live = Missing THEN file ELSE live
  /\ Step(k, "close")
  /\ UNCHANGED <<file, buried, lockVars, client, calls>>

(* The mounted Engine changes the record and persists it. *)
LiveEdit(r) ==
  /\ live # Missing
  /\ live' = r /\ file' = r /\ buried' = FALSE
  /\ UNCHANGED <<lockVars, conn, client, calls>>

(* The body is persisted and closed; if that fails it stays mounted. *)
UnmountBody(k) ==
  /\ conn[k].pc = "open" /\ conn[k].op = "unmount"
  /\ live' \in {Missing, live}
  /\ Step(k, "close")
  /\ UNCHANGED <<file, buried, lockVars, client, calls>>

StartMount(k, op) ==
  /\ Mounts /\ conn[k].pc = "idle"
  /\ IF op = "mount" THEN live = Missing /\ file # Missing ELSE live # Missing
  /\ calls < MaxCalls
  /\ calls' = calls + 1
  /\ conn' = [conn EXCEPT ![k] = [Unused EXCEPT !.pc = "enter", !.op = op]]
  /\ UNCHANGED <<nodeVars, lockVars, client>>

----------------------------------------------------------------------------
(* The clients *)

(* remote_space_create, remote_space_put, remote_space_upsert,            *)
(* remote_space_delete: r is the record the program has.                  *)
Start(c, op, r) ==
  /\ client[c].pc = "idle"
  /\ op = "create" => c \in Creators
  /\ calls < MaxCalls
  /\ calls' = calls + 1
  /\ client' = [client EXCEPT ![c] = [pc |-> "send", op |-> op, rec |-> r, seen |-> None]]
  /\ UNCHANGED <<nodeVars, lockVars, conn>>

(* The request the client sends next; an upsert and a delete first ask    *)
(* for the digest (remoteSpaceObservedDigest).                            *)
Request(c) ==
  LET op == client[c].op
      digest == op \in {"upsert", "delete"} /\ client[c].pc = "send"
  IN  [pc |-> IF op \in {"create", "put", "upsert"} /\ ~digest THEN "stat" ELSE "enter",
       op |-> IF digest THEN "digest" ELSE IF op = "upsert" THEN "put" ELSE op,
       for |-> c, rec |-> client[c].rec, exp |-> client[c].seen,
       replace |-> op = "upsert", entry |-> None, image |-> Missing]

(* A connection is admitted while there are fewer than the limit. *)
Send(c, k) ==
  /\ client[c].pc \in {"send", "observed"}
  /\ conn[k].pc = "idle"
  /\ conn' = [conn EXCEPT ![k] = Request(c)]
  /\ client' = [client EXCEPT ![c].pc = "waiting"]
  /\ UNCHANGED <<nodeVars, lockVars, calls>>

(* The client's deadline passes, the connection breaks, or the node has   *)
(* no connection to spare: the operation ends, the request does not.      *)
GiveUp(c) ==
  /\ client[c].pc # "idle"
  /\ client' = [client EXCEPT ![c] = NoCall]
  /\ conn' = [k \in Conns |-> IF conn[k].for = c THEN [conn[k] EXCEPT !.for = None]
                              ELSE conn[k]]
  /\ UNCHANGED <<nodeVars, lockVars, calls>>

----------------------------------------------------------------------------
NodeInit ==
  /\ file \in BodyRecords \cup {Missing} /\ buried = FALSE /\ live = Missing
  /\ registry = None
  /\ refs = [e \in Entries |-> {}] /\ owner = [e \in Entries |-> None]
  /\ conn = [k \in Conns |-> Unused]
  /\ client = [c \in Clients |-> NoCall]
  /\ calls = 0

Serve(k) ==
  \/ Enter(k) \/ Acquire(k) \/ Close(k) \/ Leave(k)
  \/ Stat(k) \/ Make(k) \/ Open(k) \/ Read(k) \/ Put(k) \/ Delete(k) \/ Persist(k)

NodeNext ==
  \/ \E k \in Conns : Serve(k)
  \/ \E k \in Conns : MountBody(k) \/ UnmountBody(k) \/ StartMount(k, "mount")
                        \/ StartMount(k, "unmount")
  \/ \E r \in Contents : LiveEdit(r)
  \/ \E c \in Clients, op \in {"create", "put", "upsert", "delete"}, r \in Contents :
       r.by = c /\ Start(c, op, r)
  \/ \E c \in Clients, k \in Conns : Send(c, k)
  \/ \E c \in Clients : GiveUp(c)

NodeSpec == NodeInit /\ [][NodeNext]_storageVars

----------------------------------------------------------------------------
(* Properties *)

Inside(k) == conn[k].pc \in {"open", "act", "persist", "close"}

(* A connection between acquireRemoteBodyTransaction and the end of its   *)
(* release.                                                               *)
Using(k) == Inside(k) \/ conn[k].pc \in {"wait", "leave"}

(* At most one connection works on the body at a time. *)
Exclusive == \A k, l \in Conns : Inside(k) /\ Inside(l) => k = l

(* "A body may be either mounted or opened as a temporary remote-node     *)
(* passive Engine, never both" (remote_body_txn_runtime.go).              *)
MountedOrPassive ==
  live # Missing => \A k \in Conns : conn[k].pc \notin {"act", "persist"}

(* The record changes in the file only as compare-and-swap allows: a      *)
(* request replaces the very record its client saw, by a later revision,  *)
(* and deletes only that record - also when the client has given up and   *)
(* the request comes late.                                                *)
CompareAndSwap ==
  [][\A k \in Conns :
       conn[k].pc = "persist" /\ file' # file /\ file \in Contents =>
         /\ conn[k].exp = file
         /\ file' \in Contents => file'.rev > file.rev]_storageVars

----------------------------------------------------------------------------
(* The inductive invariant *)

ConnType ==
  [pc : {"idle", "stat", "make", "enter", "wait", "open", "act", "persist", "close", "leave"},
   op : {"none", "create", "put", "delete", "digest", "mount", "unmount"},
   for : Clients \cup {None}, rec : BodyRecords, exp : BodyRecords, replace : BOOLEAN,
   entry : Entries \cup {None}, image : BodyRecords \cup {Missing}]

ClientType ==
  [pc : {"idle", "send", "waiting", "observed"},
   op : {"none", "create", "put", "upsert", "delete"}, rec : BodyRecords, seen : BodyRecords]

NodeType ==
  /\ file \in BodyRecords \cup {Missing} /\ live \in BodyRecords \cup {Missing}
  /\ buried \in BOOLEAN
  /\ registry \in Entries \cup {None}
  /\ refs \in [Entries -> SUBSET Conns] /\ owner \in [Entries -> Conns \cup {None}]
  /\ conn \in [Conns -> ConnType] /\ client \in [Clients -> ClientType]

(* The lock registry is sound although its entries come and go: whoever   *)
(* has the lock, waits for it or is leaving uses and is counted by the    *)
(* one entry that is registered, and whoever is inside owns its mutex.    *)
LockInv ==
  /\ \A k \in Conns : Using(k) => conn[k].entry = registry /\ registry # None
  /\ \A e \in Entries : refs[e] = {k \in Conns : Using(k) /\ conn[k].entry = e}
  /\ \A k \in Conns : Inside(k) => owner[registry] = k

(* What a connection has read is still in the file, unless the body was   *)
(* created over it; what it is about to write may replace it.             *)
ImageInv ==
  \A k \in Conns :
    /\ conn[k].pc = "act" => conn[k].image \in BodyRecords /\ file \in {conn[k].image, None}
    /\ conn[k].pc = "persist" =>
         /\ conn[k].image \in BodyRecords
         /\ \/ file = None
            \/ /\ file \in Contents /\ conn[k].exp = file
               /\ conn[k].image \in Contents => conn[k].image.rev > file.rev

NodeInv == NodeType /\ LockInv /\ MountedOrPassive /\ ImageInv
=============================================================================
