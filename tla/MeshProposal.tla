---------------------------- MODULE MeshProposal ----------------------------
(***************************************************************************)
(* A node proposes revisions of one of its Memories to the sovereign       *)
(* (mesh_shared_propose, mesh_journal_flush).  The origin keeps the        *)
(* request in a durable spool until it is settled                          *)
(* (mesh_journal_runtime.go); the sovereign executes the event             *)
(* mesh.shared.proposal under a durable receipt and a per-slot revision    *)
(* fence (mesh_proposal_replay_runtime.go), records what it approves       *)
(* (mesh_authority_runtime.go, mesh_state_memory.go) and collects the      *)
(* receipt when the origin acknowledges the answer.                        *)
(*                                                                         *)
(* The origin makes one call at a time (both primitives run in the commit  *)
(* lane); it gives a request up after a time-out while the sovereign's     *)
(* handler goes on, so handlers of one slot overlap.  Either process may   *)
(* restart at any step.                                                    *)
(*                                                                         *)
(* Both keep their state in a body that promises DurableMap: for each      *)
(* record there is the value the process sees and the set of values a      *)
(* restart may bring back.  A write and the persist call behind it are one *)
(* step; a restart between them is one after the step in which the persist *)
(* call fails.  Requests of one slot are identified by their revision.     *)
(***************************************************************************)
EXTENDS Integers, FiniteSets, Sequences, SequencesExt

CONSTANTS
  Handlers,      \* bound on the requests the sovereign's HTTP server handles at a time
  MaxRev,        \* bound on revisions of the proposed Memory
  Decisions,     \* outcomes of the event: "approved", "denied", "error"
  MaxEntries,    \* maxEntries of the origin's spool
  MaxReceipts,   \* maxEntries of the replay ledger
  Faults,        \* persist calls and bounded writes may fail
  Restarts,      \* processes may restart
  NoHandler, NoReq

ASSUME MeshConstants ==
  /\ MaxRev \in Nat /\ MaxEntries \in Nat /\ MaxReceipts \in Nat
  /\ Decisions \subseteq {"approved", "denied", "error"}
  /\ Faults \in BOOLEAN /\ Restarts \in BOOLEAN
  /\ NoHandler \notin Handlers

VARIABLES
  (* The origin *)
  rev,          \* Revision of the Memory
  journal,      \* m.journal
  spool,        \* the record memory-mesh-deferred-journal
  spoolBack,    \* the spools a restart may bring back
  stage,        \* of the call in progress
  todo,         \* requests that flushMeshDeferredJournal has still to send
  req,          \* the request being sent
  chained,      \* it is the ACK of a proposal just answered
  server,       \* the handler that serves it
  answer,       \* the response
  (* The sovereign *)
  handler,      \* what each handler is doing
  live,         \* st.live of the slot
  receipt, receiptBack,   \* the receipt of each revision
  slot, slotBack,         \* the slot record: latest and acknowledged revision
  shared, sharedBack,     \* revision in the shared record
  directory,    \* revision in m.shared
  (* History *)
  execs,        \* how often the event was dispatched for a revision
  decided,      \* what the event decided
  claim         \* what the origin has done about a revision

callVars     == <<stage, todo, req, chained, server, answer>>
spoolVars    == <<journal, spool, spoolBack>>
ledgerVars   == <<receipt, receiptBack, slot, slotBack>>
sharedVars   == <<shared, sharedBack>>
historyVars  == <<execs, decided, claim>>
originVars   == <<rev, spoolVars, callVars>>
sovereignVars == <<handler, live, ledgerVars, sharedVars, directory>>
vars == <<originVars, sovereignVars, historyVars>>

----------------------------------------------------------------------------
Revs      == 1..MaxRev
Propose(r) == [op |-> "propose", rev |-> r]
Ack(r)     == [op |-> "ack", rev |-> r]
Requests  == [op : {"propose", "ack"}, rev : Revs]
NoAnswer  == [ok |-> FALSE, decision |-> "none"]
Answers   == [ok : BOOLEAN, decision : Decisions \cup {"none"}]
Slots     == [rev : 0..MaxRev, acked : 0..MaxRev]
Free      == [pc |-> "free", req |-> NoReq, decision |-> "none"]
Receipts  == {"none", "executing"} \cup Decisions

----------------------------------------------------------------------------
(* The origin's spool *)

(* persistMeshDeferredJournalLocked succeeds, or its persist call fails   *)
(* and the record has changed while m.journal has not.                    *)
SpoolWritten(next) ==
  /\ journal' = next /\ spool' = next /\ spoolBack' = {next}
SpoolFails(next) ==
  /\ Faults
  /\ spool' = next /\ spoolBack' = spoolBack \cup {next}
  /\ UNCHANGED journal

(* deferMeshRequest: the newer proposal of a Memory replaces the older. *)
Deferred(r) ==
  LET i == SelectInSeq(journal, LAMBDA q : q.op = "propose")
  IN  IF i = 0 THEN Append(journal, Propose(r)) ELSE ReplaceAt(journal, i, Propose(r))

(* replaceDeferredMeshRequestExact *)
Acked(q) ==
  ReplaceAt(journal, SelectInSeq(journal, LAMBDA e : e = q), Ack(q.rev))

Idle == stage' = "idle" /\ todo' = <<>> /\ req' = NoReq
Continue(rest) ==
  /\ stage' = IF rest = <<>> THEN "idle" ELSE "flush"
  /\ todo' = rest /\ req' = NoReq
Hangup == chained' = FALSE /\ server' = NoHandler /\ answer' = NoAnswer

Claimed(r) == claim' = [claim EXCEPT ![r] = CASE @ = "none" -> "open"
                                              [] @ = "settled" -> "reopened"
                                              [] OTHER -> @]

(* A program changes the Memory. *)
Edit ==
  /\ stage = "idle" /\ rev < MaxRev
  /\ rev' = rev + 1
  /\ UNCHANGED <<spoolVars, callVars, sovereignVars, historyVars>>

(* proposeSharedDurable: the request is spooled before it is sent; when   *)
(* that fails the call returns ("backpressure").                          *)
ProposeShared ==
  /\ stage = "idle" /\ rev > 0
  /\ Len(Deferred(rev)) <= MaxEntries
  /\ \/ /\ SpoolWritten(Deferred(rev))
        /\ stage' = "send" /\ req' = Propose(rev)
     \/ /\ SpoolFails(Deferred(rev))
        /\ UNCHANGED <<stage, req>>
  /\ Claimed(rev)
  /\ UNCHANGED <<rev, todo, chained, server, answer, sovereignVars>>
  /\ UNCHANGED <<execs, decided>>

(* flushMeshDeferredJournal *)
Flush ==
  /\ stage = "idle" /\ journal # <<>>
  /\ stage' = "flush" /\ todo' = journal
  /\ UNCHANGED <<rev, spoolVars, req, chained, server, answer, sovereignVars, historyVars>>

FlushNext ==
  /\ stage = "flush"
  /\ req' = Head(todo) /\ todo' = Tail(todo)
  /\ stage' = "send"
  /\ UNCHANGED <<rev, spoolVars, chained, server, answer, sovereignVars, historyVars>>

(* authorityRPC: the request reaches the sovereign ... *)
Send(h) ==
  /\ stage = "send" /\ handler[h] = Free
  /\ handler' = [handler EXCEPT ![h] = [Free EXCEPT !.pc = "arrived", !.req = req]]
  /\ stage' = "wait" /\ server' = h
  /\ UNCHANGED <<rev, spoolVars, todo, req, chained, answer>>
  /\ UNCHANGED <<live, ledgerVars, sharedVars, directory, historyVars>>

(* ... or not, or the client's time-out expires first, or the answer is   *)
(* an error: the request stays in the spool and the call goes on.         *)
RpcFails ==
  /\ \/ stage = "send" /\ \E h \in Handlers : handler[h] = Free
     \/ stage = "wait"
     \/ stage = "answer" /\ ~answer.ok
  /\ Continue(todo) /\ Hangup
  /\ UNCHANGED <<rev, spoolVars, sovereignVars, historyVars>>

(* Mutant of ProposalAnswered: the ACK is sent from memory only. *)
AnsweredInMemory ==
  /\ stage = "answer" /\ answer.ok /\ req.op = "propose"
  /\ journal' = Acked(req)
  /\ spool' = journal' /\ spoolBack' = spoolBack \cup {spool'}
  /\ claim' = [claim EXCEPT ![req.rev] = IF @ = "open" THEN "settled" ELSE @]
  /\ stage' = "send" /\ req' = Ack(req.rev)
  /\ chained' = TRUE /\ server' = NoHandler /\ answer' = NoAnswer
  /\ UNCHANGED todo
  /\ UNCHANGED <<rev, sovereignVars, execs, decided>>

(* The answer to a proposal: the spool entry becomes an ACK                *)
(* (replaceDeferredMeshRequestExact), which is sent next; when that write  *)
(* fails the call returns.                                                *)
ProposalAnswered ==
  /\ stage = "answer" /\ answer.ok /\ req.op = "propose"
  /\ \/ /\ SpoolWritten(Acked(req))
        /\ claim' = [claim EXCEPT ![req.rev] = IF @ = "open" THEN "settled" ELSE @]
        /\ stage' = "send" /\ req' = Ack(req.rev) /\ chained' = TRUE
        /\ server' = NoHandler /\ answer' = NoAnswer
        /\ UNCHANGED todo
     \/ /\ SpoolFails(Acked(req))
        /\ Idle /\ Hangup
        /\ UNCHANGED claim
  /\ UNCHANGED <<rev, sovereignVars, execs, decided>>

(* The answer to an ACK: removeDeferredMeshRequestExact.  When that write *)
(* fails a flush returns, unless the ACK was that of a proposal.          *)
AckAnswered ==
  /\ stage = "answer" /\ answer.ok /\ req.op = "ack"
  /\ \/ SpoolWritten(RemoveFirst(journal, req)) /\ Continue(todo)
     \/ SpoolFails(RemoveFirst(journal, req)) /\ IF chained THEN Continue(todo) ELSE Idle
  /\ Hangup
  /\ UNCHANGED <<rev, sovereignVars, historyVars>>

----------------------------------------------------------------------------
(* The sovereign's ledger *)

(* persistAll succeeds for what the body then holds. *)
Persisted ==
  /\ receiptBack' = [r \in Revs |-> {receipt'[r]}]
  /\ slotBack' = {slot'}
  /\ sharedBack' = {shared'}

(* It does not, and the records may come back as they were. *)
NotPersisted ==
  /\ Faults
  /\ receiptBack' = [r \in Revs |-> receiptBack[r] \cup {receipt'[r]}]
  /\ slotBack' = slotBack \cup {slot'}
  /\ sharedBack' = sharedBack \cup {shared'}

(* The handler writes its response, which the origin gets if it has not   *)
(* given up.                                                              *)
Respond(h, ok, d) ==
  /\ handler' = [handler EXCEPT ![h] = Free]
  /\ IF server = h
     THEN /\ stage' = "answer" /\ server' = NoHandler
          /\ answer' = [ok |-> ok, decision |-> d]
     ELSE UNCHANGED <<stage, server, answer>>
  /\ UNCHANGED <<rev, spoolVars, todo, req, chained>>

(* Mutant of Authorize: a denied proposal is recorded like an approved one. *)
AuthorizeAny(h, d) ==
  IF d = "error" THEN Respond(h, FALSE, "none")
  ELSE /\ handler' = [handler EXCEPT ![h].pc = "share", ![h].decision = d]
       /\ UNCHANGED originVars

(* authorizeSharedProposal after the event *)
Authorize(h, d) ==
  CASE d = "error" -> Respond(h, FALSE, "none")
    [] d = "denied" -> Respond(h, TRUE, d)
    [] d = "approved" ->
         /\ handler' = [handler EXCEPT ![h].pc = "share", ![h].decision = d]
         /\ UNCHANGED originVars

Serving(h, op, pc) == handler[h].pc = pc /\ handler[h].req.op = op

LedgerFull == Cardinality({r \in Revs : receipt[r] # "none"}) >= MaxReceipts

(* Mutant of Admissible: a revision is compared with its receipt only. *)
NoReceipt(r) == receipt[r] = "none" /\ ~live /\ ~LedgerFull

(* Mutant of Admissible: any other revision is taken for a new one. *)
OtherRevision(r) ==
  /\ receipt[r] = "none"
  /\ ~live
  /\ slot.rev # r
  /\ ~LedgerFull

(* Mutant of Admissible: the slot may be executing. *)
NotYetSeen(r) == receipt[r] = "none" /\ slot.rev < r /\ ~LedgerFull

(* prepareMeshProposalReplay goes on: the request is new, the slot is not *)
(* executing, and the revision is ahead of the slot's.                    *)
Admissible(r) ==
  /\ receipt[r] = "none"
  /\ ~live
  /\ slot.rev < r
  /\ ~LedgerFull

(* The receipt and the slot are written before the event is dispatched; a *)
(* failure leaves both, or the receipt alone, in the body.                *)
Prepare(h) ==
  LET r == handler[h].req.rev
  IN  /\ Serving(h, "propose", "arrived") /\ Admissible(r)
      /\ UNCHANGED <<shared, directory, historyVars>>
      /\ \/ /\ receipt' = [receipt EXCEPT ![r] = "executing"]
            /\ slot' = [slot EXCEPT !.rev = r]
            /\ Persisted
            /\ live' = TRUE
            /\ handler' = [handler EXCEPT ![h].pc = "run"]
            /\ UNCHANGED originVars
         \/ /\ receipt' = [receipt EXCEPT ![r] = "executing"]
            /\ slot' \in {slot, [slot EXCEPT !.rev = r]}
            /\ NotPersisted
            /\ Respond(h, FALSE, "none")
            /\ UNCHANGED live

(* Mutant of Replay: the recorded result is not applied to the frame. *)
ReplayWithoutResult(h) ==
  /\ Serving(h, "propose", "arrived")
  /\ receipt[handler[h].req.rev] \in Decisions
  /\ Respond(h, TRUE, "denied")
  /\ UNCHANGED <<live, ledgerVars, sharedVars, directory, historyVars>>

(* A receipt that is done answers for the event; every other request that *)
(* is not admissible is refused.                                          *)
Replay(h) ==
  /\ Serving(h, "propose", "arrived")
  /\ receipt[handler[h].req.rev] \in Decisions
  /\ Authorize(h, receipt[handler[h].req.rev])
  /\ UNCHANGED <<live, ledgerVars, sharedVars, directory, historyVars>>

Refuse(h) ==
  /\ Serving(h, "propose", "arrived")
  /\ receipt[handler[h].req.rev] \notin Decisions
  /\ ~Admissible(handler[h].req.rev)
  /\ Respond(h, FALSE, "none")
  /\ UNCHANGED <<live, ledgerVars, sharedVars, directory, historyVars>>

(* setFrameVarBounded refuses before the event; the slot stays live. *)
FrameFull(h) ==
  /\ Faults /\ Serving(h, "propose", "run")
  /\ Respond(h, FALSE, "none")
  /\ UNCHANGED <<live, ledgerVars, sharedVars, directory, historyVars>>

(* The event is dispatched. *)
Dispatch(h) ==
  LET r == handler[h].req.rev
  IN  /\ Serving(h, "propose", "run")
      /\ \E d \in Decisions :
           /\ handler' = [handler EXCEPT ![h].pc = "ran", ![h].decision = d]
           /\ decided' = [decided EXCEPT ![r] = d]
      /\ execs' = [execs EXCEPT ![r] = @ + 1]
      /\ UNCHANGED <<originVars, live, ledgerVars, sharedVars, directory, claim>>

(* Mutant of Finalize: the slot stays live. *)
FinalizeStillLive(h) ==
  /\ Serving(h, "propose", "ran")
  /\ UNCHANGED <<live, slot, shared, directory, historyVars>>
  /\ receipt' = [receipt EXCEPT ![handler[h].req.rev] = handler[h].decision]
  /\ Persisted
  /\ Authorize(h, handler[h].decision)

(* finalizeMeshProposalReplay *)
Finalize(h) ==
  LET r == handler[h].req.rev
  IN  /\ Serving(h, "propose", "ran")
      /\ UNCHANGED <<slot, shared, directory, historyVars>>
      /\ live' = FALSE
      /\ \/ /\ receipt' = [receipt EXCEPT ![r] = handler[h].decision]
            /\ Persisted
            /\ Authorize(h, handler[h].decision)
         \/ /\ receipt' \in {receipt, [receipt EXCEPT ![r] = handler[h].decision]}
            /\ NotPersisted
            /\ Respond(h, FALSE, "none")

(* persistSovereignSharedRecord ... *)
Share(h) ==
  /\ Serving(h, "propose", "share")
  /\ UNCHANGED <<live, receipt, slot, directory, historyVars>>
  /\ shared' = handler[h].req.rev
  /\ \/ /\ Persisted
        /\ handler' = [handler EXCEPT ![h].pc = "install"]
        /\ UNCHANGED originVars
     \/ NotPersisted /\ Respond(h, FALSE, "none")

(* Mutant of Install: the receipt is collected with the response. *)
InstallAndCollect(h) ==
  /\ Serving(h, "propose", "install")
  /\ directory' = handler[h].req.rev
  /\ receipt' = [receipt EXCEPT ![handler[h].req.rev] = "none"]
  /\ UNCHANGED <<live, slot, shared, historyVars>>
  /\ Persisted
  /\ Respond(h, TRUE, "approved")

(* ... and m.shared after it. *)
Install(h) ==
  /\ Serving(h, "propose", "install")
  /\ directory' = handler[h].req.rev
  /\ Respond(h, TRUE, "approved")
  /\ UNCHANGED <<live, ledgerVars, sharedVars, historyVars>>

(* ackMeshProposalReplay: the fence is made durable before the receipt is *)
(* deleted; either persist call may fail.                                 *)
Acknowledge(h) ==
  LET r == handler[h].req.rev
  IN  /\ Serving(h, "ack", "arrived")
      /\ r <= slot.rev /\ receipt[r] \in Decisions
      /\ UNCHANGED <<live, shared, directory, historyVars>>
      /\ slot' = [slot EXCEPT !.acked = IF r > @ THEN r ELSE @]
      /\ \/ /\ receipt' = [receipt EXCEPT ![r] = "none"]
            /\ Persisted
            /\ Respond(h, TRUE, "none")
         \/ /\ Faults
            /\ receipt' = [receipt EXCEPT ![r] = "none"]
            /\ slotBack' = {slot'} /\ sharedBack' = {shared}
            /\ receiptBack' = [q \in Revs |-> {receipt[q], receipt'[q]}]
            /\ Respond(h, FALSE, "none")
         \/ /\ UNCHANGED receipt
            /\ NotPersisted
            /\ Respond(h, FALSE, "none")

(* No receipt: a repeated ACK is recognised by the fence. *)
AckAgain(h) ==
  /\ Serving(h, "ack", "arrived")
  /\ handler[h].req.rev <= slot.rev
  /\ receipt[handler[h].req.rev] = "none" /\ slot.acked >= handler[h].req.rev
  /\ Respond(h, TRUE, "none")
  /\ UNCHANGED <<live, ledgerVars, sharedVars, directory, historyVars>>

AckRefused(h) ==
  LET r == handler[h].req.rev
  IN  /\ Serving(h, "ack", "arrived")
      /\ r <= slot.rev => receipt[r] \notin Decisions
      /\ r <= slot.rev /\ receipt[r] = "none" => slot.acked < r
      /\ Respond(h, FALSE, "none")
      /\ UNCHANGED <<live, ledgerVars, sharedVars, directory, historyVars>>

----------------------------------------------------------------------------
(* Some other persist call of either body succeeds. *)
BackgroundPersist ==
  /\ UNCHANGED <<rev, journal, spool, callVars, handler, live>>
  /\ UNCHANGED <<receipt, slot, shared, directory, historyVars>>
  /\ \/ spoolBack' = {spool} /\ UNCHANGED <<receiptBack, slotBack, sharedBack>>
     \/ Persisted /\ UNCHANGED spoolBack

(* The origin restarts; recoverMeshDeferredJournal takes the spool over. *)
OriginRestart ==
  /\ Restarts
  /\ \E s \in spoolBack :
       /\ journal' = s /\ spool' = s /\ spoolBack' = {s}
       /\ claim' = [r \in Revs |-> IF claim[r] = "open" /\ Ack(r) \in Range(s)
                                    THEN "settled" ELSE claim[r]]
  /\ Idle /\ Hangup
  /\ UNCHANGED <<rev, sovereignVars, execs, decided>>

(* The sovereign restarts; recoverSovereignMeshState fills m.shared. *)
SovereignRestart ==
  /\ Restarts
  /\ receipt' \in [Revs -> Receipts]
  /\ \A r \in Revs : receipt'[r] \in receiptBack[r]
  /\ slot' \in slotBack /\ shared' \in sharedBack
  /\ Persisted
  /\ directory' = shared'
  /\ live' = FALSE
  /\ handler' = [h \in Handlers |-> Free]
  /\ server' = NoHandler
  /\ UNCHANGED <<rev, spoolVars, stage, todo, req, chained, answer, historyVars>>

Init ==
  /\ rev = 0
  /\ journal = <<>> /\ spool = <<>> /\ spoolBack = {<<>>}
  /\ stage = "idle" /\ todo = <<>> /\ req = NoReq
  /\ chained = FALSE /\ server = NoHandler /\ answer = NoAnswer
  /\ handler = [h \in Handlers |-> Free] /\ live = FALSE
  /\ receipt = [r \in Revs |-> "none"] /\ receiptBack = [r \in Revs |-> {"none"}]
  /\ slot = [rev |-> 0, acked |-> 0] /\ slotBack = {[rev |-> 0, acked |-> 0]}
  /\ shared = 0 /\ sharedBack = {0} /\ directory = 0
  /\ execs = [r \in Revs |-> 0] /\ decided = [r \in Revs |-> "none"]
  /\ claim = [r \in Revs |-> "none"]

Origin == ProposeShared \/ Flush \/ FlushNext \/ RpcFails
          \/ ProposalAnswered \/ AckAnswered

Handle(h) ==
  \/ Prepare(h) \/ Replay(h) \/ Refuse(h) \/ FrameFull(h) \/ Dispatch(h)
  \/ Finalize(h) \/ Share(h) \/ Install(h)
  \/ Acknowledge(h) \/ AckAgain(h) \/ AckRefused(h)

Next ==
  \/ Edit \/ Origin
  \/ \E h \in Handlers : Send(h) \/ Handle(h)
  \/ BackgroundPersist \/ OriginRestart \/ SovereignRestart

Spec == Init /\ [][Next]_vars

(* The origin's program flushes again and again, a request that is sent   *)
(* again and again gets through, a handler that serves a waiting origin   *)
(* again and again gets on before the time-out, and handlers run until    *)
(* they respond whether the origin waits or not.                          *)
Answering(op, pc) == \E h \in Handlers : server = h /\ Serving(h, op, pc) /\ Handle(h)

FairSpec ==
  /\ Spec
  /\ SF_vars(Flush)
  /\ WF_vars(FlushNext \/ ProposalAnswered \/ AckAnswered \/ RpcFails)
  /\ \A op \in {"propose", "ack"} :
       /\ SF_vars(stage = "send" /\ req.op = op /\ \E h \in Handlers : Send(h))
       /\ SF_vars(Answering(op, "arrived"))
  /\ SF_vars(Answering("propose", "share"))
  /\ SF_vars(Answering("propose", "install"))
  /\ \A h \in Handlers : WF_vars(Handle(h))

----------------------------------------------------------------------------
(* Types of the origin's, the sovereign's and the history variables. *)
OriginType ==
  /\ rev \in 0..MaxRev
  /\ journal \in Seq(Requests) /\ spool \in Seq(Requests)
  /\ \A s \in spoolBack : s \in Seq(Requests)
  /\ stage \in {"idle", "flush", "send", "wait", "answer"}
  /\ todo \in Seq(Requests) /\ req \in Requests \cup {NoReq}
  /\ chained \in BOOLEAN /\ server \in Handlers \cup {NoHandler}
  /\ answer \in Answers

SovereignType ==
  /\ handler \in [Handlers ->
       [pc : {"free", "arrived", "run", "ran", "share", "install"},
        req : Requests \cup {NoReq}, decision : Decisions \cup {"none"}]]
  /\ live \in BOOLEAN
  /\ receipt \in [Revs -> Receipts] /\ receiptBack \in [Revs -> SUBSET Receipts]
  /\ slot \in Slots /\ slotBack \subseteq Slots
  /\ shared \in 0..MaxRev /\ sharedBack \subseteq 0..MaxRev
  /\ directory \in 0..MaxRev

HistoryType ==
  /\ execs \in [Revs -> Nat]
  /\ decided \in [Revs -> Decisions \cup {"none"}]
  /\ claim \in [Revs -> {"none", "open", "settled", "reopened"}]

(* The variables have their types. *)
TypeOK == OriginType /\ SovereignType /\ HistoryType

(* However often a proposal is sent, repeated while an earlier delivery is *)
(* still being handled, or sent again after restarts of either side and   *)
(* after its receipt was collected, its event is dispatched at most once. *)
AtMostOnce == \A r \in Revs : execs[r] <= 1

(* The event is never dispatched for a revision older than one it was     *)
(* dispatched for before.                                                 *)
InOrder == [][\A r \in Revs : execs'[r] > execs[r] =>
                \A q \in Revs : q > r => execs[q] = 0]_vars

(* Two handlers never execute the event of one slot at the same time. *)
OneAtATime == \A g, h \in Handlers :
  {handler[g].pc, handler[h].pc} \subseteq {"run", "ran"} => g = h

(* An answer the origin accepts is the outcome of the one execution,      *)
(* also when it comes from a receipt, after restarts and retries.         *)
AnswerOfExecution ==
  stage = "answer" /\ answer.ok /\ req.op = "propose" =>
    execs[req.rev] = 1 /\ answer.decision = decided[req.rev]

(* A receipt is collected only when the origin has durably settled the    *)
(* proposal: no restart of the origin makes it ask again.                 *)
CollectedIsSettled ==
  \A r \in Revs : execs[r] > 0 /\ receipt[r] = "none" =>
    claim[r] \in {"settled", "reopened"}

(* mesh_journal_runtime.go: the spool goes from proposal to ACK before the *)
(* ACK is sent, "A crash can therefore never resurrect the proposal".     *)
NeverResurrected ==
  \A r \in Revs : claim[r] = "settled" => \A s \in spoolBack : Propose(r) \notin Range(s)

(* What the sovereign's directory says, now or after a restart, is a      *)
(* revision the event approved.                                           *)
SharedIsApproved ==
  \A r \in sharedBack \cup {shared, directory} : r > 0 => decided[r] = "approved"

(***************************************************************************)
(* The inductive invariant behind AtMostOnce, InOrder, OneAtATime,         *)
(* AnswerOfExecution and SharedIsApproved.                                 *)
(***************************************************************************)
CallInv ==
  /\ stage \in {"send", "wait", "answer"} => req \in Requests
  /\ stage = "flush" => todo # <<>>
  /\ server # NoHandler => /\ stage = "wait"
                           /\ handler[server].pc # "free" /\ handler[server].req = req
  /\ \A h \in Handlers : handler[h].pc # "free" => handler[h].req \in Requests

Running(h) == handler[h].pc \in {"run", "ran"}

(* An executed revision is covered by the slot record and by every slot   *)
(* record a restart may bring back; the one being executed is the latest  *)
(* of each of them.                                                       *)
ExecInv ==
  /\ AtMostOnce
  /\ \A r \in Revs : execs[r] > 0 => \A s \in slotBack \cup {slot} : s.rev >= r
  /\ \A h \in Handlers : Running(h) =>
       /\ live
       /\ execs[handler[h].req.rev] = IF handler[h].pc = "run" THEN 0 ELSE 1
       /\ \A s \in slotBack \cup {slot} : s.rev = handler[h].req.rev
  /\ OneAtATime

(* v is the outcome of an execution of revision r. *)
Outcome(r, v) == execs[r] = 1 /\ decided[r] = v

(* Whatever a receipt says or may say after a restart, whatever a handler *)
(* is about to answer or to record, is the outcome of an execution.       *)
ResultInv ==
  /\ \A r \in Revs : \A v \in Decisions :
       v \in receiptBack[r] \cup {receipt[r]} => Outcome(r, v)
  /\ \A h \in Handlers :
       /\ handler[h].pc = "ran" => handler[h].decision \in Decisions
       /\ handler[h].pc \in {"ran", "share", "install"} =>
            Outcome(handler[h].req.rev, handler[h].decision)
       /\ handler[h].pc \in {"share", "install"} => handler[h].decision = "approved"
  /\ AnswerOfExecution
  /\ \A r \in sharedBack \cup {shared, directory} : r > 0 => Outcome(r, "approved")

(* The ledger's invariant: types, the call in progress, executions and    *)
(* what is said of them.                                                  *)
LedgerInv == TypeOK /\ CallInv /\ ExecInv /\ ResultInv

(***************************************************************************)
(* The inductive invariant behind NeverResurrected and CollectedIsSettled. *)
(***************************************************************************)
OnePropose(s) ==
  \A i, j \in DOMAIN s : s[i].op = "propose" /\ s[j].op = "propose" => i = j

(* Under the claims c: *)
Settled(r, c) == c[r] \in {"settled", "reopened"}

(* a spool, the one in use or one a restart may bring back, has one        *)
(* proposal, which is not settled, and an ACK that a failed write has left *)
(* is not beside the proposal it is of;                                    *)
Sound(s, c) ==
  /\ OnePropose(s)
  /\ \A r \in Revs :
       /\ Propose(r) \in Range(s) => c[r] \in {"open", "reopened"}
       /\ Ack(r) \in Range(s) => c[r] # "none"
       /\ {Propose(r), Ack(r)} \subseteq Range(s) => c[r] = "reopened"

(* a proposal that is flushed, sent or served is known, and an ACK is of   *)
(* one that is settled.                                                    *)
Backed(q, c) == q \in Requests =>
  IF q.op = "ack" THEN Settled(q.rev, c) ELSE c[q.rev] # "none"

SpoolInv ==
  /\ spool \in spoolBack
  /\ \A s \in spoolBack \cup {journal} : Sound(s, claim)
  /\ \A q \in Range(journal) \cup Range(todo) : Backed(q, claim)

AckInv ==
  /\ stage \in {"send", "wait", "answer"} => Backed(req, claim)
  /\ \A h \in Handlers : handler[h].pc # "free" => Backed(handler[h].req, claim)

(* A receipt that is missing, or may be after a restart, is that of a      *)
(* revision not executed nor about to be, or settled.                      *)
CollectInv ==
  \A r \in Revs : "none" \in receiptBack[r] \cup {receipt[r]} =>
    /\ execs[r] > 0 => Settled(r, claim)
    /\ \A h \in Handlers : handler[h].pc = "run" => handler[h].req.rev # r

SettleInv == SpoolInv /\ AckInv /\ CollectInv

(* Without restarts and faults an open proposal leaves the spool, settled *)
(* or replaced by a newer one, and so does every ACK.                     *)
Drains ==
  \A r \in Revs :
    /\ claim[r] = "open" ~> (claim[r] # "open" \/ Propose(r) \notin Range(journal))
    /\ Ack(r) \in Range(journal) ~> Ack(r) \notin Range(journal)

============================================================================
