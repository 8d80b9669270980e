------------------------- MODULE MeshProposalProofs -------------------------
(***************************************************************************)
(* Proofs about MeshProposal, for any number of handlers, revisions and    *)
(* entries, with or without failing persist calls and restarts.  LedgerInv *)
(* is shown to be inductive with one lemma per action.                     *)
(***************************************************************************)
EXTENDS MeshProposal, SequenceTheorems, WellFoundedInduction, TLAPS

----------------------------------------------------------------------------
(* Sequences *)

(* Replacing an element keeps a sequence over S one. *)
LEMMA ReplaceAtType ==
  ASSUME NEW S, NEW s \in Seq(S), NEW i, NEW e \in S
  PROVE  ReplaceAt(s, i, e) \in Seq(S)
<1>1. CASE i \in 1..Len(s)
  BY <1>1, ExceptSeq DEF ReplaceAt
<1>2. CASE i \notin 1..Len(s)
  <2>1. [s EXCEPT ![i] = e] = s
    BY <1>2, LenProperties
  <2> QED BY <2>1 DEF ReplaceAt
<1> QED BY <1>1, <1>2

(* A nonempty set of naturals has its minimum in it. *)
LEMMA MinInSet ==
  ASSUME NEW T \in SUBSET Nat, T # {}
  PROVE  Min(T) \in T
<1>1. PICK x \in T : \A y \in T : ~(<<y, x>> \in OpToRel(<, Nat))
  BY WFMin, NatLessThanWellFounded
<1>2. \A y \in Nat : y < x => <<y, x>> \in OpToRel(<, Nat)
  <2>1. TAKE y \in Nat
  <2>2. HAVE y < x
  <2>3. <<y, x>> \in Nat \X Nat /\ <<y, x>>[1] < <<y, x>>[2]
    BY <2>2
  <2> QED BY <2>3, Zenon DEF OpToRel
<1>3. \A y \in T : ~(y < x)
  BY <1>1, <1>2, Zenon
<1>4. \A y \in T : x =< y
  BY <1>3
<1> QED BY <1>4 DEF Min

(* Removing the first occurrence keeps a sequence over S one. *)
LEMMA RemoveFirstType ==
  ASSUME NEW S, NEW s \in Seq(S), NEW e
  PROVE  RemoveFirst(s, e) \in Seq(S)
<1>1. CASE \E i \in 1..Len(s) : s[i] = e
  <2> DEFINE I == {i \in 1..Len(s) : s[i] = e}
             k == Min(I)
  <2>1. Len(s) \in Nat /\ \A i \in 1..Len(s) : s[i] \in S
    BY LenProperties, ElementOfSeq
  <2>2. k \in 1..Len(s)
    <3>1. I \in SUBSET Nat /\ I # {}
      BY <1>1, <2>1
    <3>2. k \in I
      BY <3>1, MinInSet
    <3> QED BY <3>2
  <2>3. RemoveFirst(s, e) = RemoveAt(s, k)
    BY <1>1 DEF RemoveFirst, SelectInSeq
  <2> HIDE DEF k
  <2>4. SubSeq(s, 1, k - 1) \in Seq(S)
    <3>1. \A i \in 1..(k - 1) : s[i] \in S
      BY <2>1, <2>2
    <3> QED BY <2>2, <3>1, SubSeqProperties
  <2>5. SubSeq(s, k + 1, Len(s)) \in Seq(S)
    <3>1. \A i \in (k + 1)..Len(s) : s[i] \in S
      BY <2>1, <2>2
    <3> QED BY <2>1, <2>2, <3>1, SubSeqProperties
  <2> QED BY <2>3, <2>4, <2>5, ConcatProperties DEF RemoveAt
<1>2. CASE ~\E i \in 1..Len(s) : s[i] = e
  BY <1>2 DEF RemoveFirst
<1> QED BY <1>1, <1>2

(* What the origin writes into its spool is a sequence of requests. *)
LEMMA SpoolTypes ==
  ASSUME OriginType
  PROVE  /\ \A r \in Revs : Deferred(r) \in Seq(Requests)
         /\ \A q \in Requests : Acked(q) \in Seq(Requests)
         /\ RemoveFirst(journal, req) \in Seq(Requests)
<1>1. \A r \in Revs : Propose(r) \in Requests /\ Ack(r) \in Requests
  BY DEF Propose, Ack, Requests
<1>2. journal \in Seq(Requests)
  BY DEF OriginType
<1>3. ASSUME NEW r \in Revs PROVE Deferred(r) \in Seq(Requests)
  BY <1>1, <1>2, ReplaceAtType, AppendProperties DEF Deferred
<1>4. ASSUME NEW q \in Requests PROVE Acked(q) \in Seq(Requests)
  <2>1. q.rev \in Revs
    BY DEF Requests
  <2> QED BY <1>1, <1>2, <2>1, ReplaceAtType DEF Acked
<1> QED BY <1>2, <1>3, <1>4, RemoveFirstType

----------------------------------------------------------------------------
(* The origin *)

(* The answer of a call that has none. *)
LEMMA NoAnswerType == NoAnswer \in Answers
BY DEF NoAnswer, Answers

(* The initial state satisfies the invariant. *)
LEMMA InitInv == Init => LedgerInv
<1> SUFFICES ASSUME Init PROVE LedgerInv
  OBVIOUS
<1> USE MeshConstants DEF Init
<1>1. OriginType
  <2>1. <<>> \in Seq(Requests)
    BY EmptySeq
  <2>2. \A t \in spoolBack : t \in Seq(Requests)
    BY <2>1
  <2>3. answer \in Answers
    BY NoAnswerType
  <2>4. chained \in BOOLEAN /\ server \in Handlers \cup {NoHandler}
    OBVIOUS
  <2>5. rev \in 0..MaxRev /\ req \in Requests \cup {NoReq}
    OBVIOUS
  <2>6. journal \in Seq(Requests) /\ spool \in Seq(Requests) /\ todo \in Seq(Requests)
    BY <2>1
  <2>7. stage \in {"idle", "flush", "send", "wait", "answer"}
    OBVIOUS
  <2> HIDE DEF Init
  <2> QED BY <2>2, <2>3, <2>4, <2>5, <2>6, <2>7 DEF OriginType
<1>2. SovereignType
  <2>1. slot \in Slots /\ slotBack \subseteq Slots
    BY DEF Slots
  <2>2. Free \in [pc : {"free", "arrived", "run", "ran", "share", "install"},
                  req : Requests \cup {NoReq}, decision : Decisions \cup {"none"}]
    BY DEF Free
  <2>3. receipt \in [Revs -> Receipts] /\ receiptBack \in [Revs -> SUBSET Receipts]
    BY DEF Receipts
  <2>4. handler = [h \in Handlers |-> Free] /\ live \in BOOLEAN
    OBVIOUS
  <2>5. shared \in 0..MaxRev /\ sharedBack \subseteq 0..MaxRev /\ directory \in 0..MaxRev
    OBVIOUS
  <2> HIDE DEF Init
  <2> QED BY <2>1, <2>2, <2>3, <2>4, <2>5 DEF SovereignType
<1>3. HistoryType
  BY DEF HistoryType
<1>4. CallInv
  BY DEF CallInv, Free
<1>5. ExecInv
  BY DEF ExecInv, AtMostOnce, OneAtATime, Running, Free
<1>6. ResultInv
  BY DEF ResultInv, AnswerOfExecution, Free
<1> QED BY <1>1, <1>2, <1>3, <1>4, <1>5, <1>6 DEF LedgerInv, TypeOK

(* A step of the origin leaves what is said about executions alone, but   *)
(* for the answer it holds.                                               *)
LEMMA OriginFrame ==
  ASSUME LedgerInv, UNCHANGED <<sovereignVars, execs, decided>>, AnswerOfExecution'
  PROVE  SovereignType' /\ ExecInv' /\ ResultInv'
<1> USE DEF LedgerInv, TypeOK, sovereignVars, ledgerVars, sharedVars
<1>1. SovereignType'
  BY DEF SovereignType
<1>2. ExecInv'
  BY DEF ExecInv, AtMostOnce, OneAtATime, Running
<1>3. ResultInv'
  BY DEF ResultInv, Outcome
<1> QED BY <1>1, <1>2, <1>3

(* Writing the spool keeps its type. *)
LEMMA SpoolWriteType ==
  ASSUME OriginType, NEW next \in Seq(Requests), SpoolWritten(next) \/ SpoolFails(next)
  PROVE  /\ journal' \in Seq(Requests) /\ spool' \in Seq(Requests)
         /\ \A t \in spoolBack' : t \in Seq(Requests)
BY DEF OriginType, SpoolWritten, SpoolFails

(* Editing the Memory touches neither calls nor ledger. *)
LEMMA EditInv == LedgerInv /\ Edit => LedgerInv'
<1> SUFFICES ASSUME LedgerInv, Edit PROVE LedgerInv'
  OBVIOUS
<1> USE MeshConstants DEF LedgerInv, TypeOK, Edit, spoolVars, callVars, historyVars
<1>1. OriginType' /\ HistoryType'
  BY DEF OriginType, HistoryType
<1>2. CallInv'
  BY DEF CallInv, sovereignVars
<1>3. AnswerOfExecution'
  BY DEF ResultInv, AnswerOfExecution
<1> QED BY <1>1, <1>2, <1>3, OriginFrame

(* A proposal that is sent is a request. *)
LEMMA ProposeInv == LedgerInv /\ ProposeShared => LedgerInv'
<1> SUFFICES ASSUME LedgerInv, ProposeShared PROVE LedgerInv'
  OBVIOUS
<1> USE MeshConstants DEF LedgerInv, TypeOK
<1>1. rev \in Revs /\ Propose(rev) \in Requests /\ Deferred(rev) \in Seq(Requests)
  <2>1. rev \in Revs
    BY DEF ProposeShared, OriginType, Revs
  <2>2. Propose(rev) \in Requests
    BY <2>1 DEF Propose, Requests
  <2> QED BY <2>1, <2>2, SpoolTypes
<1>2. OriginType'
  BY <1>1, SpoolWriteType DEF ProposeShared, OriginType
<1>3. HistoryType'
  BY <1>1 DEF ProposeShared, HistoryType, Claimed
<1>4. CallInv'
  BY <1>1 DEF ProposeShared, CallInv, sovereignVars
<1>5. AnswerOfExecution'
  BY DEF ProposeShared, AnswerOfExecution
<1> QED BY <1>2, <1>3, <1>4, <1>5, OriginFrame DEF ProposeShared

(* A flush that begins has something to send. *)
LEMMA FlushInv == LedgerInv /\ Flush => LedgerInv'
<1> SUFFICES ASSUME LedgerInv, Flush PROVE LedgerInv'
  OBVIOUS
<1> USE DEF LedgerInv, TypeOK, Flush, spoolVars, historyVars
<1>1. OriginType' /\ HistoryType'
  BY DEF OriginType, HistoryType
<1>2. CallInv'
  BY DEF CallInv, sovereignVars
<1>3. AnswerOfExecution'
  BY DEF AnswerOfExecution
<1> QED BY <1>1, <1>2, <1>3, OriginFrame

(* What a flush sends next is a request. *)
LEMMA FlushNextInv == LedgerInv /\ FlushNext => LedgerInv'
<1> SUFFICES ASSUME LedgerInv, FlushNext PROVE LedgerInv'
  OBVIOUS
<1> USE DEF LedgerInv, TypeOK, FlushNext, spoolVars, historyVars
<1>1. Head(todo) \in Requests /\ Tail(todo) \in Seq(Requests)
  BY HeadTailProperties DEF OriginType, CallInv
<1>2. OriginType' /\ HistoryType'
  BY <1>1 DEF OriginType, HistoryType
<1>3. CallInv'
  BY <1>1 DEF CallInv, sovereignVars
<1>4. AnswerOfExecution'
  BY DEF AnswerOfExecution
<1> QED BY <1>2, <1>3, <1>4, OriginFrame

(* A failed call leaves no handler behind that it waits for. *)
LEMMA RpcFailsInv == LedgerInv /\ RpcFails => LedgerInv'
<1> SUFFICES ASSUME LedgerInv, RpcFails PROVE LedgerInv'
  OBVIOUS
<1> USE DEF LedgerInv, TypeOK, RpcFails, Continue, Hangup, spoolVars, historyVars
<1>1. OriginType' /\ HistoryType'
  BY DEF OriginType, HistoryType, Answers, NoAnswer
<1>2. CallInv'
  BY DEF CallInv, sovereignVars
<1>3. AnswerOfExecution'
  BY DEF AnswerOfExecution, NoAnswer
<1> QED BY <1>1, <1>2, <1>3, OriginFrame

(* The ACK that follows an answer is a request. *)
LEMMA ProposalAnsweredInv == LedgerInv /\ ProposalAnswered => LedgerInv'
<1> SUFFICES ASSUME LedgerInv, ProposalAnswered PROVE LedgerInv'
  OBVIOUS
<1> USE DEF LedgerInv, TypeOK, ProposalAnswered, Idle, Hangup
<1>1. req \in Requests /\ req.rev \in Revs /\ Ack(req.rev) \in Requests
  BY DEF CallInv, Requests, Ack
<1>2. Acked(req) \in Seq(Requests)
  BY <1>1, SpoolTypes
<1>3. OriginType'
  <2>1. /\ journal' \in Seq(Requests) /\ spool' \in Seq(Requests)
        /\ \A t \in spoolBack' : t \in Seq(Requests)
    BY <1>2, SpoolWriteType
  <2>2. todo' \in Seq(Requests)
    BY EmptySeq DEF OriginType
  <2>3. answer' \in Answers
    BY NoAnswerType
  <2> QED BY <1>1, <2>1, <2>2, <2>3 DEF OriginType
<1>4. HistoryType'
  BY <1>1 DEF HistoryType, Revs
<1>5. CallInv'
  BY <1>1 DEF CallInv, sovereignVars
<1>6. AnswerOfExecution'
  BY DEF AnswerOfExecution, NoAnswer
<1> QED BY <1>3, <1>4, <1>5, <1>6, OriginFrame

(* Dropping an acknowledged entry keeps the spool a spool. *)
LEMMA AckAnsweredInv == LedgerInv /\ AckAnswered => LedgerInv'
<1> SUFFICES ASSUME LedgerInv, AckAnswered PROVE LedgerInv'
  OBVIOUS
<1> USE DEF LedgerInv, TypeOK, AckAnswered, Idle, Continue, Hangup, historyVars
<1>1. RemoveFirst(journal, req) \in Seq(Requests)
  BY SpoolTypes
<1>2. OriginType' /\ HistoryType'
  BY <1>1, SpoolWriteType, EmptySeq DEF OriginType, HistoryType, Answers, NoAnswer
<1>3. CallInv'
  BY DEF CallInv, sovereignVars
<1>4. AnswerOfExecution'
  BY DEF AnswerOfExecution, NoAnswer
<1> QED BY <1>2, <1>3, <1>4, OriginFrame

(* A restarted origin waits for no handler. *)
LEMMA OriginRestartInv == LedgerInv /\ OriginRestart => LedgerInv'
<1> SUFFICES ASSUME LedgerInv, OriginRestart PROVE LedgerInv'
  OBVIOUS
<1> USE DEF LedgerInv, TypeOK, OriginRestart, Idle, Hangup
<1>1. OriginType'
  BY EmptySeq DEF OriginType, Answers, NoAnswer
<1>2. HistoryType'
  BY DEF HistoryType
<1>3. CallInv'
  BY DEF CallInv, sovereignVars
<1>4. AnswerOfExecution'
  BY DEF AnswerOfExecution, NoAnswer
<1> QED BY <1>1, <1>2, <1>3, <1>4, OriginFrame

----------------------------------------------------------------------------
(* The sovereign *)

HandlerType == [Handlers ->
  [pc : {"free", "arrived", "run", "ran", "share", "install"},
   req : Requests \cup {NoReq}, decision : Decisions \cup {"none"}]]

(* A handler that is not free has a request with a revision. *)
LEMMA HandlerRev ==
  ASSUME LedgerInv, NEW h \in Handlers, handler[h].pc # "free"
  PROVE  handler[h].req \in Requests /\ handler[h].req.rev \in Revs
BY DEF LedgerInv, CallInv, Requests

(* The types of the calls and handlers survive a change of the handlers   *)
(* that leaves the request of a busy handler alone.                       *)
LEMMA AdvanceCall ==
  ASSUME LedgerInv, UNCHANGED originVars, NEW h \in Handlers, handler[h].pc # "free",
         NEW rec, handler' = [handler EXCEPT ![h] = rec],
         rec \in [pc : {"arrived", "run", "ran", "share", "install"},
                  req : {handler[h].req}, decision : Decisions \cup {"none"}]
  PROVE  OriginType' /\ CallInv' /\ handler' \in HandlerType
<1> USE DEF LedgerInv, TypeOK, originVars, spoolVars, callVars
<1>1. OriginType'
  BY DEF OriginType
<1>2. handler' \in HandlerType
  BY HandlerRev DEF SovereignType, HandlerType
<1>3. CallInv'
  BY HandlerRev DEF CallInv, OriginType, SovereignType
<1> QED BY <1>1, <1>2, <1>3

(* A response frees the handler and reaches the origin only as the answer *)
(* to the request it has out.                                             *)
LEMMA RespondCall ==
  ASSUME LedgerInv, NEW h \in Handlers, handler[h].pc # "free",
         NEW ok \in BOOLEAN, NEW d \in Decisions \cup {"none"}, Respond(h, ok, d),
         UNCHANGED <<execs, decided>>,
         ok /\ handler[h].req.op = "propose" => Outcome(handler[h].req.rev, d)
  PROVE  /\ OriginType' /\ CallInv' /\ AnswerOfExecution'
         /\ handler' \in HandlerType
         /\ handler' = [handler EXCEPT ![h] = Free]
<1> USE DEF LedgerInv, TypeOK, Respond, spoolVars
<1>1. Free \in [pc : {"free", "arrived", "run", "ran", "share", "install"},
               req : Requests \cup {NoReq}, decision : Decisions \cup {"none"}]
  BY DEF Free
<1>2. handler' \in HandlerType
  BY <1>1 DEF SovereignType, HandlerType
<1>3. [ok |-> ok, decision |-> d] \in Answers
  BY DEF Answers
<1>4. OriginType'
  BY <1>3 DEF OriginType
<1>5. CASE server = h
  <2>1. req = handler[h].req /\ req \in Requests
    BY <1>5, HandlerRev, MeshConstants DEF CallInv
  <2>2. CallInv'
    BY <1>5, <2>1, MeshConstants DEF CallInv, SovereignType, Free
  <2>3. AnswerOfExecution'
    BY <1>5, <2>1 DEF AnswerOfExecution, Outcome
  <2> QED BY <1>2, <1>4, <2>2, <2>3
<1>6. CASE server # h
  <2>1. CallInv'
    BY <1>6 DEF CallInv, OriginType, SovereignType, Free
  <2>2. AnswerOfExecution'
    BY <1>6 DEF ResultInv, AnswerOfExecution
  <2> QED BY <1>2, <1>4, <2>1, <2>2
<1> QED BY <1>5, <1>6

(* A persist call, successful or not, adds nothing but the current record *)
(* to what a restart may bring back.                                      *)
LEMMA PersistShrinks ==
  ASSUME SovereignType, receipt' \in [Revs -> Receipts], slot' \in Slots,
         shared' \in 0..MaxRev, Persisted \/ NotPersisted
  PROVE  /\ receiptBack' \in [Revs -> SUBSET Receipts]
         /\ slotBack' \subseteq Slots /\ sharedBack' \subseteq 0..MaxRev
         /\ \A r \in Revs : receiptBack'[r] \subseteq receiptBack[r] \cup {receipt'[r]}
         /\ slotBack' \subseteq slotBack \cup {slot'}
         /\ sharedBack' \subseteq sharedBack \cup {shared'}
<1>1. CASE Persisted
  BY <1>1 DEF SovereignType, Persisted
<1>2. CASE NotPersisted
  <2>1. /\ slotBack' \subseteq slotBack \cup {slot'} /\ slotBack' \subseteq Slots
        /\ sharedBack' \subseteq sharedBack \cup {shared'} /\ sharedBack' \subseteq 0..MaxRev
    BY <1>2 DEF SovereignType, NotPersisted
  <2>2. receiptBack' = [r \in Revs |-> receiptBack[r] \cup {receipt'[r]}]
    BY <1>2 DEF NotPersisted
  <2>3. \A r \in Revs : receiptBack[r] \cup {receipt'[r]} \in SUBSET Receipts
    BY DEF SovereignType
  <2> QED BY <2>1, <2>2, <2>3
<1> QED BY <1>1, <1>2

(* A handler that only responds leaves the ledger alone. *)
LEMMA RespondOnly ==
  ASSUME LedgerInv, NEW h \in Handlers, handler[h].pc # "free",
         NEW ok \in BOOLEAN, NEW d \in Decisions \cup {"none"}, Respond(h, ok, d),
         UNCHANGED <<live, ledgerVars, sharedVars, directory, historyVars>>,
         ok /\ handler[h].req.op = "propose" => Outcome(handler[h].req.rev, d)
  PROVE  LedgerInv'
<1> USE DEF LedgerInv, TypeOK, ledgerVars, sharedVars, historyVars
<1>1. /\ OriginType' /\ CallInv' /\ AnswerOfExecution'
      /\ handler' \in HandlerType
      /\ handler' = [handler EXCEPT ![h] = Free]
  BY RespondCall
<1>2. SovereignType' /\ HistoryType'
  BY <1>1 DEF SovereignType, HistoryType, HandlerType
<1>3. ExecInv'
  BY <1>1 DEF ExecInv, AtMostOnce, OneAtATime, Running, Free, SovereignType
<1>4. ResultInv'
  BY <1>1 DEF ResultInv, Outcome, Free, SovereignType
<1> QED BY <1>1, <1>2, <1>3, <1>4

(* A handler that takes a request has not executed anything. *)
LEMMA SendInv ==
  ASSUME LedgerInv, NEW h \in Handlers, Send(h)
  PROVE  LedgerInv'
<1> USE DEF LedgerInv, TypeOK, Send, spoolVars, ledgerVars, sharedVars, historyVars
<1>1. req \in Requests
  BY DEF CallInv
<1>2. handler' \in HandlerType
  BY <1>1 DEF SovereignType, HandlerType, Free
<1>3. OriginType' /\ HistoryType'
  BY DEF OriginType, HistoryType
<1>4. SovereignType'
  BY <1>2 DEF SovereignType, HandlerType
<1>5. CallInv'
  BY <1>1 DEF CallInv, SovereignType, Free
<1>6. ExecInv'
  BY DEF ExecInv, AtMostOnce, OneAtATime, Running, SovereignType, Free
<1>7. ResultInv'
  BY DEF ResultInv, Outcome, AnswerOfExecution, SovereignType, Free
<1> QED BY <1>3, <1>4, <1>5, <1>6, <1>7

(* A refusal leaves the ledger alone. *)
LEMMA RefuseInv ==
  ASSUME LedgerInv, NEW h \in Handlers,
         Refuse(h) \/ FrameFull(h) \/ AckRefused(h) \/ AckAgain(h)
  PROVE  LedgerInv'
<1>1. CASE Refuse(h) \/ FrameFull(h) \/ AckRefused(h)
  BY <1>1, RespondOnly DEF Refuse, FrameFull, AckRefused, Serving
<1>2. CASE AckAgain(h)
  BY <1>2, RespondOnly DEF AckAgain, Serving
<1> QED BY <1>1, <1>2

(* Answering a proposal with an outcome of its execution: the handler     *)
(* responds, or goes on to the shared record when it was approved.        *)
LEMMA AuthorizeCall ==
  ASSUME LedgerInv, NEW h \in Handlers, handler[h].pc # "free",
         NEW d \in Decisions, Authorize(h, d), UNCHANGED <<execs, decided>>,
         Outcome(handler[h].req.rev, d)
  PROVE  /\ OriginType' /\ CallInv' /\ AnswerOfExecution'
         /\ handler' \in HandlerType
         /\ \/ handler' = [handler EXCEPT ![h] = Free]
            \/ /\ d = "approved"
               /\ handler' = [handler EXCEPT ![h].pc = "share", ![h].decision = d]
<1>1. CASE d = "error"
  BY <1>1, RespondCall DEF Authorize
<1>2. CASE d = "denied"
  BY <1>2, RespondCall DEF Authorize
<1>3. CASE d = "approved"
  <2> DEFINE rec == [handler[h] EXCEPT !.pc = "share", !.decision = d]
  <2>1. handler[h].req \in Requests /\ handler \in HandlerType
    BY HandlerRev DEF LedgerInv, TypeOK, SovereignType, HandlerType
  <2>2. UNCHANGED originVars /\ handler' = [handler EXCEPT ![h] = rec]
    BY <1>3, <2>1 DEF Authorize, HandlerType
  <2>3. rec \in [pc : {"arrived", "run", "ran", "share", "install"},
                req : {handler[h].req}, decision : Decisions \cup {"none"}]
    BY <2>1 DEF HandlerType
  <2>4. OriginType' /\ CallInv' /\ handler' \in HandlerType
    BY <2>2, <2>3, AdvanceCall
  <2>5. AnswerOfExecution'
    BY <2>2 DEF originVars, callVars, LedgerInv, ResultInv, AnswerOfExecution
  <2>6. handler' = [handler EXCEPT ![h].pc = "share", ![h].decision = d]
    BY <1>3 DEF Authorize
  <2> QED BY <1>3, <2>4, <2>5, <2>6
<1> QED BY <1>1, <1>2, <1>3, MeshConstants

(* A receipt that is done answers with the outcome it records. *)
LEMMA ReplayInv ==
  ASSUME LedgerInv, NEW h \in Handlers, Replay(h)
  PROVE  LedgerInv'
<1> USE DEF LedgerInv, TypeOK, ledgerVars, sharedVars, historyVars
<1> DEFINE r == handler[h].req.rev
           d == receipt[r]
<1>1. handler[h].pc = "arrived" /\ r \in Revs /\ d \in Decisions /\ Authorize(h, d)
      /\ UNCHANGED <<live, ledgerVars, sharedVars, directory, historyVars>>
  BY HandlerRev DEF Replay, Serving
<1>2. Outcome(r, d)
  BY <1>1 DEF ResultInv
<1>3. /\ OriginType' /\ CallInv' /\ AnswerOfExecution'
      /\ handler' \in HandlerType
      /\ \/ handler' = [handler EXCEPT ![h] = Free]
         \/ /\ d = "approved"
            /\ handler' = [handler EXCEPT ![h].pc = "share", ![h].decision = d]
  BY <1>1, <1>2, AuthorizeCall
<1> HIDE DEF d
<1>4. SovereignType' /\ HistoryType'
  BY <1>1, <1>3 DEF SovereignType, HistoryType, HandlerType
<1>5. ExecInv'
  BY <1>1, <1>3 DEF ExecInv, AtMostOnce, OneAtATime, Running, Free, SovereignType
<1>6. ResultInv'
  BY <1>1, <1>2, <1>3 DEF ResultInv, Outcome, Free, SovereignType
<1> QED BY <1>3, <1>4, <1>5, <1>6

(* The event is dispatched for a revision that was never executed and is  *)
(* the latest of every slot record.                                       *)
LEMMA DispatchInv ==
  ASSUME LedgerInv, NEW h \in Handlers, Dispatch(h)
  PROVE  LedgerInv'
<1> USE DEF LedgerInv, TypeOK, ledgerVars, sharedVars
<1> DEFINE r == handler[h].req.rev
<1>1. handler[h].pc = "run" /\ r \in Revs /\ handler[h].req \in Requests
  BY HandlerRev DEF Dispatch, Serving
<1>2. PICK d \in Decisions :
        /\ handler' = [handler EXCEPT ![h].pc = "ran", ![h].decision = d]
        /\ decided' = [decided EXCEPT ![r] = d]
  BY DEF Dispatch
<1>3. /\ execs' = [execs EXCEPT ![r] = @ + 1]
      /\ UNCHANGED <<originVars, live, ledgerVars, sharedVars, directory, claim>>
  BY DEF Dispatch
<1>4. execs[r] = 0 /\ live /\ \A s \in slotBack \cup {slot} : s.rev = r
  BY <1>1 DEF ExecInv, Running
<1> HIDE DEF r
<1>5. HistoryType'
  BY <1>1, <1>2, <1>3 DEF HistoryType
<1>6. OriginType' /\ CallInv' /\ handler' \in HandlerType
  <2> DEFINE rec == [handler[h] EXCEPT !.pc = "ran", !.decision = d]
  <2>1. handler \in HandlerType
    BY DEF SovereignType, HandlerType
  <2>2. handler' = [handler EXCEPT ![h] = rec]
    BY <1>2, <2>1 DEF HandlerType
  <2>3. rec \in [pc : {"arrived", "run", "ran", "share", "install"},
                req : {handler[h].req}, decision : Decisions \cup {"none"}]
    BY <1>2, <2>1 DEF HandlerType
  <2> QED BY <1>1, <1>3, <2>2, <2>3, AdvanceCall
<1>7. SovereignType'
  BY <1>3, <1>6 DEF SovereignType, HandlerType
<1>8. ExecInv'
  BY <1>1, <1>2, <1>3, <1>4, MeshConstants
     DEF ExecInv, AtMostOnce, OneAtATime, Running, SovereignType, HistoryType, r, Slots, Revs
<1>9. ResultInv'
  <2> DEFINE Now(q, v) == execs'[q] = 1 /\ decided'[q] = v
  <2>1. \A q \in Revs : \A v : Outcome(q, v) => Now(q, v)
    BY <1>1, <1>2, <1>3, <1>4 DEF Outcome, HistoryType
  <2>2. Now(r, d)
    BY <1>1, <1>2, <1>3, <1>4 DEF HistoryType
  <2>3. AnswerOfExecution'
    BY <1>1, <1>3, <1>4, <2>1
       DEF ResultInv, AnswerOfExecution, Outcome, originVars, callVars, CallInv, Requests, HistoryType
  <2>4. \A q \in sharedBack' \cup {shared', directory'} : q > 0 => Now(q, "approved")
    BY <1>3, <2>1, MeshConstants DEF ResultInv, SovereignType, Revs
  <2>5. \A q \in Revs : \A v \in Decisions :
          v \in receiptBack'[q] \cup {receipt'[q]} => Now(q, v)
    BY <1>3, <2>1 DEF ResultInv
  <2>6. ASSUME NEW g \in Handlers
        PROVE  /\ handler'[g].pc = "ran" => handler'[g].decision \in Decisions
               /\ handler'[g].pc \in {"ran", "share", "install"} =>
                    Now(handler'[g].req.rev, handler'[g].decision)
               /\ handler'[g].pc \in {"share", "install"} => handler'[g].decision = "approved"
    <3>1. CASE g = h
      <4>1. handler'[h].pc = "ran" /\ handler'[h].decision = d /\ handler'[h].req.rev = r
        BY <1>2 DEF SovereignType, r
      <4> QED BY <2>2, <3>1, <4>1
    <3>2. CASE g # h
      <4>1. handler'[g] = handler[g]
        BY <1>2, <3>2 DEF SovereignType
      <4>2. handler[g].pc # "free" => handler[g].req.rev \in Revs
        BY HandlerRev
      <4> QED BY <2>1, <4>1, <4>2 DEF ResultInv
    <3> QED BY <3>1, <3>2
  <2> QED BY <2>3, <2>4, <2>5, <2>6 DEF ResultInv, Outcome
<1> QED BY <1>5, <1>6, <1>7, <1>8, <1>9

(* What is said about executions stays true when receipts and shared      *)
(* records only change to outcomes, and one handler goes on.              *)
LEMMA ResultFrame ==
  ASSUME LedgerInv, UNCHANGED <<execs, decided>>, AnswerOfExecution',
         NEW h \in Handlers, NEW rec, handler' = [handler EXCEPT ![h] = rec],
         rec.pc # "ran",
         rec.pc \in {"share", "install"} =>
           rec.decision = "approved" /\ Outcome(rec.req.rev, rec.decision),
         \A r \in Revs : \A v \in Decisions :
           v \in receiptBack'[r] \cup {receipt'[r]} => Outcome(r, v),
         \A r \in sharedBack' \cup {shared', directory'} : r > 0 => Outcome(r, "approved")
  PROVE  ResultInv'
<1> USE DEF LedgerInv, TypeOK
<1>1. ASSUME NEW g \in Handlers
      PROVE  /\ handler'[g].pc = "ran" => handler'[g].decision \in Decisions
             /\ handler'[g].pc \in {"ran", "share", "install"} =>
                  Outcome(handler'[g].req.rev, handler'[g].decision)
             /\ handler'[g].pc \in {"share", "install"} => handler'[g].decision = "approved"
  BY DEF ResultInv, SovereignType
<1> QED BY <1>1 DEF ResultInv, Outcome

(* What is said about the order of executions stays true when no handler  *)
(* starts and the latest revision of the slot stays.                      *)
LEMMA ExecFrame ==
  ASSUME LedgerInv, UNCHANGED execs,
         NEW h \in Handlers, NEW rec, handler' = [handler EXCEPT ![h] = rec],
         rec.pc \notin {"run", "ran"}, live' = live \/ Running(h),
         slot'.rev = slot.rev, slotBack' \subseteq slotBack \cup {slot'}
  PROVE  ExecInv'
<1> USE DEF LedgerInv, TypeOK
<1>1. \A g \in Handlers : Running(g)' => g # h /\ Running(g) /\ handler'[g] = handler[g]
  BY DEF Running, SovereignType
<1>2. \A g \in Handlers : Running(g)' => live' = live
  BY <1>1 DEF ExecInv, OneAtATime, Running, SovereignType
<1>3. OneAtATime'
  BY <1>1 DEF ExecInv, OneAtATime, Running
<1>4. \A r \in Revs : execs[r] > 0 => \A s \in slotBack' \cup {slot'} : s.rev >= r
  BY DEF ExecInv
<1>5. ASSUME NEW g \in Handlers, Running(g)'
      PROVE  /\ live'
             /\ execs[handler'[g].req.rev] = IF handler'[g].pc = "run" THEN 0 ELSE 1
             /\ \A s \in slotBack' \cup {slot'} : s.rev = handler'[g].req.rev
  BY <1>1, <1>2, <1>5 DEF ExecInv
<1> QED BY <1>3, <1>4, <1>5 DEF ExecInv, AtMostOnce, Running

(* The receipt and the slot are written for a revision that is ahead of   *)
(* the slot, hence was never executed.                                    *)
LEMMA PrepareInv ==
  ASSUME LedgerInv, NEW h \in Handlers, Prepare(h)
  PROVE  LedgerInv'
<1> USE DEF LedgerInv, TypeOK, historyVars
<1> DEFINE r == handler[h].req.rev
<1>1. /\ handler[h].pc = "arrived" /\ r \in Revs /\ handler[h].req \in Requests
      /\ ~live /\ slot.rev < r /\ receipt[r] = "none"
      /\ UNCHANGED <<shared, directory, execs, decided, claim>>
  BY HandlerRev DEF Prepare, Serving, Admissible
<1>2. HistoryType'
  BY <1>1 DEF HistoryType
<1>3. /\ receipt' = [receipt EXCEPT ![r] = "executing"]
      /\ slot' \in {slot, [slot EXCEPT !.rev = r]}
      /\ Persisted \/ NotPersisted
  BY DEF Prepare
<1>4. receipt' \in [Revs -> Receipts] /\ slot' \in Slots /\ shared' \in 0..MaxRev
  BY <1>1, <1>3, MeshConstants DEF SovereignType, Receipts, Slots, Revs
<1>5. /\ receiptBack' \in [Revs -> SUBSET Receipts]
      /\ slotBack' \subseteq Slots /\ sharedBack' \subseteq 0..MaxRev
      /\ \A q \in Revs : receiptBack'[q] \subseteq receiptBack[q] \cup {receipt'[q]}
      /\ slotBack' \subseteq slotBack \cup {slot'}
      /\ sharedBack' \subseteq sharedBack \cup {shared'}
  BY <1>3, <1>4, PersistShrinks
<1>6. \A q \in Revs : \A v \in Decisions :
        v \in receiptBack'[q] \cup {receipt'[q]} => Outcome(q, v)
  BY <1>1, <1>3, <1>5, MeshConstants DEF ResultInv, SovereignType
<1>7. \A q \in sharedBack' \cup {shared', directory'} : q > 0 => Outcome(q, "approved")
  BY <1>1, <1>5 DEF ResultInv
<1>8. \A q \in Revs : execs[q] > 0 => q < r
  BY <1>1, MeshConstants DEF ExecInv, SovereignType, Slots, Revs
<1>9. CASE /\ slot' = [slot EXCEPT !.rev = r] /\ Persisted /\ live' = TRUE
           /\ handler' = [handler EXCEPT ![h].pc = "run"]
           /\ UNCHANGED originVars
  <2> DEFINE rec == [handler[h] EXCEPT !.pc = "run"]
  <2>1. handler \in HandlerType
    BY DEF SovereignType, HandlerType
  <2>2. handler' = [handler EXCEPT ![h] = rec]
    BY <1>9, <2>1 DEF HandlerType
  <2>3. rec \in [pc : {"arrived", "run", "ran", "share", "install"},
                req : {handler[h].req}, decision : Decisions \cup {"none"}]
    BY <2>1 DEF HandlerType
  <2>4. OriginType' /\ CallInv' /\ handler' \in HandlerType
    BY <1>1, <1>9, <2>2, <2>3, AdvanceCall
  <2>5. SovereignType'
    BY <1>1, <1>4, <1>5, <1>9, <2>4 DEF SovereignType, HandlerType
  <2>6. AnswerOfExecution'
    BY <1>1, <1>9 DEF originVars, callVars, ResultInv, AnswerOfExecution
  <2>7. ResultInv'
    <3>1. rec.pc = "run"
      BY <2>1 DEF HandlerType
    <3> HIDE DEF rec
    <3> QED BY <1>1, <1>6, <1>7, <2>2, <2>6, <3>1, ResultFrame
  <2>8. slot'.rev = r /\ slotBack' = {slot'}
    BY <1>9 DEF Persisted, SovereignType, Slots
  <2>9. \A g \in Handlers : Running(g)' => g = h
    BY <1>1, <1>9 DEF ExecInv, Running, SovereignType
  <2>10. handler'[h].pc = "run" /\ handler'[h].req.rev = r
    BY <2>1, <2>2 DEF HandlerType
  <2>11. execs[r] = 0
    BY <1>1, <1>8, MeshConstants DEF HistoryType, Revs
  <2>12. OneAtATime'
    BY <2>9 DEF OneAtATime, Running
  <2>13. \A q \in Revs : execs[q] > 0 => \A s \in slotBack' \cup {slot'} : s.rev >= q
    BY <1>1, <1>8, <2>8, MeshConstants DEF Revs
  <2>14. ASSUME NEW g \in Handlers, Running(g)'
         PROVE  /\ live'
                /\ execs[handler'[g].req.rev] = IF handler'[g].pc = "run" THEN 0 ELSE 1
                /\ \A s \in slotBack' \cup {slot'} : s.rev = handler'[g].req.rev
    BY <1>9, <2>8, <2>9, <2>10, <2>11, <2>14
  <2>15. ExecInv'
    BY <1>1, <2>12, <2>13, <2>14 DEF ExecInv, AtMostOnce, Running
  <2> QED BY <1>2, <2>4, <2>5, <2>7, <2>15
<1>10. CASE NotPersisted /\ Respond(h, FALSE, "none") /\ UNCHANGED live
  <2>1. /\ OriginType' /\ CallInv' /\ AnswerOfExecution'
        /\ handler' \in HandlerType
        /\ handler' = [handler EXCEPT ![h] = Free]
    BY <1>1, <1>10, RespondCall
  <2>2. SovereignType'
    BY <1>1, <1>4, <1>5, <1>10, <2>1 DEF SovereignType, HandlerType
  <2>3. ResultInv'
    <3>1. Free.pc = "free"
      BY DEF Free
    <3> QED BY <1>1, <1>6, <1>7, <2>1, <3>1, ResultFrame
  <2>4. ~\E g \in Handlers : Running(g)
    BY <1>1 DEF ExecInv
  <2>5. ~\E g \in Handlers : Running(g)'
    BY <2>1, <2>4 DEF Running, Free, SovereignType
  <2>6. slot'.rev >= slot.rev
    BY <1>1, <1>3, MeshConstants DEF SovereignType, Slots, Revs
  <2>7. \A q \in Revs : execs[q] > 0 => \A s \in slotBack' \cup {slot'} : s.rev >= q
    <3>1. slot.rev \in Int /\ slot'.rev \in Int
      BY <1>4, MeshConstants DEF SovereignType, Slots
    <3> QED BY <1>5, <2>6, <3>1, MeshConstants DEF ExecInv, Revs
  <2>8. ExecInv'
    BY <1>1, <2>5, <2>7 DEF ExecInv, AtMostOnce, OneAtATime, Running
  <2> QED BY <1>2, <2>1, <2>2, <2>3, <2>8
<1> QED BY <1>9, <1>10 DEF Prepare

(* The receipt gets the outcome of the execution that ends. *)
LEMMA FinalizeInv ==
  ASSUME LedgerInv, NEW h \in Handlers, Finalize(h)
  PROVE  LedgerInv'
<1> USE DEF LedgerInv, TypeOK, historyVars
<1> DEFINE r == handler[h].req.rev
           d == handler[h].decision
<1>1. /\ handler[h].pc = "ran" /\ r \in Revs /\ handler[h].req \in Requests
      /\ UNCHANGED <<slot, shared, directory, execs, decided, claim>>
      /\ live' = FALSE
  BY HandlerRev DEF Finalize, Serving
<1>2. d \in Decisions /\ Outcome(r, d) /\ Running(h)
  BY <1>1 DEF ResultInv, Running
<1>3. /\ receipt' \in {receipt, [receipt EXCEPT ![r] = d]}
      /\ Persisted \/ NotPersisted
  BY DEF Finalize
<1>4. receipt' \in [Revs -> Receipts] /\ slot' \in Slots /\ shared' \in 0..MaxRev
  BY <1>1, <1>2, <1>3 DEF SovereignType, Receipts
<1>5. /\ receiptBack' \in [Revs -> SUBSET Receipts]
      /\ slotBack' \subseteq Slots /\ sharedBack' \subseteq 0..MaxRev
      /\ \A q \in Revs : receiptBack'[q] \subseteq receiptBack[q] \cup {receipt'[q]}
      /\ slotBack' \subseteq slotBack \cup {slot'}
      /\ sharedBack' \subseteq sharedBack \cup {shared'}
  BY <1>3, <1>4, PersistShrinks
<1>6. \A q \in Revs : \A v \in Decisions :
        v \in receiptBack'[q] \cup {receipt'[q]} => Outcome(q, v)
  BY <1>1, <1>2, <1>3, <1>5 DEF ResultInv, SovereignType
<1>7. \A q \in sharedBack' \cup {shared', directory'} : q > 0 => Outcome(q, "approved")
  BY <1>1, <1>5 DEF ResultInv
<1>8. /\ OriginType' /\ CallInv' /\ AnswerOfExecution'
      /\ handler' \in HandlerType
      /\ \/ handler' = [handler EXCEPT ![h] = Free]
         \/ /\ d = "approved"
            /\ handler' = [handler EXCEPT ![h].pc = "share", ![h].decision = d]
  <2>1. CASE Authorize(h, d)
    BY <1>1, <1>2, <2>1, AuthorizeCall
  <2>2. CASE Respond(h, FALSE, "none")
    BY <1>1, <2>2, RespondCall
  <2> QED BY <2>1, <2>2 DEF Finalize
<1>9. PICK rec : /\ handler' = [handler EXCEPT ![h] = rec]
                 /\ rec.pc \in {"free", "share"}
                 /\ rec.pc = "share" => rec.decision = "approved" /\ Outcome(rec.req.rev, rec.decision)
  <2>1. CASE handler' = [handler EXCEPT ![h] = Free]
    <3>1. Free.pc = "free"
      BY DEF Free
    <3> QED BY <2>1, <3>1
  <2>2. CASE d = "approved" /\ handler' = [handler EXCEPT ![h].pc = "share", ![h].decision = d]
    <3> DEFINE new == [handler[h] EXCEPT !.pc = "share", !.decision = d]
    <3>1. handler' = [handler EXCEPT ![h] = new]
      BY <2>2 DEF SovereignType
    <3>2. new.pc = "share" /\ new.decision = d /\ new.req.rev = r
      BY DEF SovereignType
    <3> HIDE DEF new
    <3> QED BY <1>2, <2>2, <3>1, <3>2
  <2> QED BY <1>8, <2>1, <2>2
<1>10. SovereignType' /\ HistoryType'
  BY <1>1, <1>4, <1>5, <1>8 DEF SovereignType, HistoryType, HandlerType
<1>11. ExecInv'
  BY <1>1, <1>2, <1>5, <1>9, ExecFrame
<1>12. ResultInv'
  BY <1>1, <1>6, <1>7, <1>8, <1>9, ResultFrame
<1> QED BY <1>8, <1>10, <1>11, <1>12

(* The shared record gets a revision that was approved. *)
LEMMA ShareInv ==
  ASSUME LedgerInv, NEW h \in Handlers, Share(h)
  PROVE  LedgerInv'
<1> USE DEF LedgerInv, TypeOK, historyVars
<1> DEFINE r == handler[h].req.rev
<1>1. /\ handler[h].pc = "share" /\ r \in Revs /\ handler[h].req \in Requests
      /\ UNCHANGED <<live, receipt, slot, directory, execs, decided, claim>>
      /\ shared' = r
  BY HandlerRev DEF Share, Serving
<1>2. handler[h].decision = "approved" /\ Outcome(r, "approved")
  BY <1>1 DEF ResultInv
<1>3. receipt' \in [Revs -> Receipts] /\ slot' \in Slots /\ shared' \in 0..MaxRev
  BY <1>1, MeshConstants DEF SovereignType, Revs
<1>4. Persisted \/ NotPersisted
  BY DEF Share
<1>5. /\ receiptBack' \in [Revs -> SUBSET Receipts]
      /\ slotBack' \subseteq Slots /\ sharedBack' \subseteq 0..MaxRev
      /\ \A q \in Revs : receiptBack'[q] \subseteq receiptBack[q] \cup {receipt'[q]}
      /\ slotBack' \subseteq slotBack \cup {slot'}
      /\ sharedBack' \subseteq sharedBack \cup {shared'}
  BY <1>3, <1>4, PersistShrinks
<1>6. \A q \in Revs : \A v \in Decisions :
        v \in receiptBack'[q] \cup {receipt'[q]} => Outcome(q, v)
  BY <1>1, <1>5 DEF ResultInv
<1>7. \A q \in sharedBack' \cup {shared', directory'} : q > 0 => Outcome(q, "approved")
  BY <1>1, <1>2, <1>5 DEF ResultInv
<1>8. CASE handler' = [handler EXCEPT ![h].pc = "install"] /\ UNCHANGED originVars
  <2> DEFINE rec == [handler[h] EXCEPT !.pc = "install"]
  <2>1. handler \in HandlerType
    BY DEF SovereignType, HandlerType
  <2>2. handler' = [handler EXCEPT ![h] = rec]
    BY <1>8, <2>1 DEF HandlerType
  <2>3. rec \in [pc : {"arrived", "run", "ran", "share", "install"},
                req : {handler[h].req}, decision : Decisions \cup {"none"}]
    BY <2>1 DEF HandlerType
  <2>4. OriginType' /\ CallInv' /\ handler' \in HandlerType
    BY <1>1, <1>8, <2>2, <2>3, AdvanceCall
  <2>5. AnswerOfExecution'
    BY <1>1, <1>8 DEF originVars, callVars, ResultInv, AnswerOfExecution
  <2>6. rec.pc = "install" /\ rec.decision = "approved" /\ rec.req.rev = r
    BY <1>2, <2>1 DEF HandlerType
  <2> HIDE DEF rec
  <2>7. SovereignType' /\ HistoryType'
    BY <1>1, <1>3, <1>5, <2>4 DEF SovereignType, HistoryType, HandlerType
  <2>8. ExecInv'
    BY <1>1, <1>5, <2>2, <2>6, ExecFrame
  <2>9. ResultInv'
    BY <1>1, <1>2, <1>6, <1>7, <2>2, <2>5, <2>6, ResultFrame
  <2> QED BY <2>4, <2>7, <2>8, <2>9
<1>9. CASE Respond(h, FALSE, "none")
  <2>1. /\ OriginType' /\ CallInv' /\ AnswerOfExecution'
        /\ handler' \in HandlerType
        /\ handler' = [handler EXCEPT ![h] = Free]
    BY <1>1, <1>9, RespondCall
  <2>2. Free.pc = "free"
    BY DEF Free
  <2>3. SovereignType' /\ HistoryType'
    BY <1>1, <1>3, <1>5, <2>1 DEF SovereignType, HistoryType, HandlerType
  <2>4. ExecInv'
    BY <1>1, <1>5, <2>1, <2>2, ExecFrame
  <2>5. ResultInv'
    BY <1>1, <1>6, <1>7, <2>1, <2>2, ResultFrame
  <2> QED BY <2>1, <2>3, <2>4, <2>5
<1> QED BY <1>8, <1>9 DEF Share

(* So does the directory, and the answer says so. *)
LEMMA InstallInv ==
  ASSUME LedgerInv, NEW h \in Handlers, Install(h)
  PROVE  LedgerInv'
<1> USE DEF LedgerInv, TypeOK, ledgerVars, sharedVars, historyVars
<1> DEFINE r == handler[h].req.rev
<1>1. /\ handler[h].pc = "install" /\ r \in Revs /\ handler[h].req \in Requests
      /\ directory' = r /\ Respond(h, TRUE, "approved")
      /\ UNCHANGED <<live, receipt, receiptBack, slot, slotBack, shared, sharedBack>>
      /\ UNCHANGED <<execs, decided, claim>>
  BY HandlerRev DEF Install, Serving
<1>2. Outcome(r, "approved") /\ "approved" \in Decisions \cup {"none"}
  BY <1>1 DEF ResultInv, SovereignType
<1>3. /\ OriginType' /\ CallInv' /\ AnswerOfExecution'
      /\ handler' \in HandlerType
      /\ handler' = [handler EXCEPT ![h] = Free]
  BY <1>1, <1>2, RespondCall
<1>4. Free.pc = "free"
  BY DEF Free
<1>5. SovereignType' /\ HistoryType'
  BY <1>1, <1>3, MeshConstants DEF SovereignType, HistoryType, HandlerType, Revs
<1>6. ExecInv'
  BY <1>1, <1>3, <1>4, ExecFrame
<1>7. ResultInv'
  <2>1. \A q \in sharedBack' \cup {shared', directory'} : q > 0 => Outcome(q, "approved")
    BY <1>1, <1>2 DEF ResultInv
  <2>2. \A q \in Revs : \A v \in Decisions :
          v \in receiptBack'[q] \cup {receipt'[q]} => Outcome(q, v)
    BY <1>1 DEF ResultInv
  <2> QED BY <1>1, <1>3, <1>4, <2>1, <2>2, ResultFrame
<1> QED BY <1>3, <1>5, <1>6, <1>7

(* Acknowledging moves the fence, never the latest revision. *)
LEMMA AcknowledgeInv ==
  ASSUME LedgerInv, NEW h \in Handlers, Acknowledge(h)
  PROVE  LedgerInv'
<1> USE DEF LedgerInv, TypeOK, historyVars
<1> DEFINE r == handler[h].req.rev
<1>1. /\ handler[h].pc = "arrived" /\ handler[h].req.op = "ack"
      /\ r \in Revs /\ handler[h].req \in Requests
      /\ UNCHANGED <<live, shared, directory, execs, decided, claim>>
      /\ slot' = [slot EXCEPT !.acked = IF r > @ THEN r ELSE @]
  BY HandlerRev DEF Acknowledge, Serving
<1>2. PICK ok \in BOOLEAN : Respond(h, ok, "none")
  BY DEF Acknowledge
<1>3. receipt' \in {receipt, [receipt EXCEPT ![r] = "none"]}
  BY DEF Acknowledge
<1>4. /\ receipt' \in [Revs -> Receipts] /\ slot' \in Slots /\ shared' \in 0..MaxRev
      /\ slot'.rev = slot.rev
  <2>1. receipt' \in [Revs -> Receipts]
    <3>1. "none" \in Receipts /\ receipt \in [Revs -> Receipts]
      BY DEF Receipts, SovereignType
    <3> QED BY <1>1, <1>3, <3>1
  <2>2. r \in 0..MaxRev /\ slot \in Slots
    BY <1>1, MeshConstants DEF SovereignType, Revs
  <2>3. \E a \in {r, slot.acked} : slot' = [slot EXCEPT !.acked = a]
    BY <1>1
  <2>4. slot' \in Slots /\ slot'.rev = slot.rev
    BY <2>2, <2>3 DEF Slots
  <2> QED BY <1>1, <2>1, <2>4 DEF SovereignType
<1>5. /\ receiptBack' \in [Revs -> SUBSET Receipts]
      /\ slotBack' \subseteq Slots /\ sharedBack' \subseteq 0..MaxRev
      /\ \A q \in Revs : receiptBack'[q] \subseteq receiptBack[q] \cup {receipt[q], receipt'[q]}
      /\ slotBack' \subseteq slotBack \cup {slot'}
      /\ sharedBack' \subseteq sharedBack \cup {shared'}
  <2>1. CASE Persisted \/ NotPersisted
    BY <1>4, <2>1, PersistShrinks
  <2>2. CASE /\ slotBack' = {slot'} /\ sharedBack' = {shared}
             /\ receiptBack' = [q \in Revs |-> {receipt[q], receipt'[q]}]
    BY <1>1, <1>4, <2>2 DEF SovereignType
  <2> QED BY <2>1, <2>2 DEF Acknowledge
<1>6. /\ OriginType' /\ CallInv' /\ AnswerOfExecution'
      /\ handler' \in HandlerType
      /\ handler' = [handler EXCEPT ![h] = Free]
  BY <1>1, <1>2, RespondCall
<1>7. Free.pc = "free"
  BY DEF Free
<1>8. SovereignType' /\ HistoryType'
  BY <1>1, <1>4, <1>5, <1>6 DEF SovereignType, HistoryType, HandlerType
<1>9. ExecInv'
  BY <1>1, <1>4, <1>5, <1>6, <1>7, ExecFrame
<1>10. ResultInv'
  <2>1. \A q \in Revs : \A v \in Decisions :
          v \in receiptBack'[q] \cup {receipt'[q]} => Outcome(q, v)
    BY <1>1, <1>3, <1>5, MeshConstants DEF ResultInv, SovereignType
  <2>2. \A q \in sharedBack' \cup {shared', directory'} : q > 0 => Outcome(q, "approved")
    BY <1>1, <1>5 DEF ResultInv
  <2> QED BY <1>1, <1>6, <1>7, <2>1, <2>2, ResultFrame
<1> QED BY <1>6, <1>8, <1>9, <1>10

(* A persist call only narrows what a restart may bring back. *)
LEMMA BackgroundPersistInv == LedgerInv /\ BackgroundPersist => LedgerInv'
<1> SUFFICES ASSUME LedgerInv, BackgroundPersist PROVE LedgerInv'
  OBVIOUS
<1> USE DEF LedgerInv, TypeOK, callVars, historyVars
<1>1. /\ UNCHANGED <<rev, journal, spool, stage, todo, req, chained, server, answer>>
      /\ UNCHANGED <<handler, live, receipt, slot, shared, directory>>
      /\ UNCHANGED <<execs, decided, claim>>
      /\ spoolBack' = {spool} \/ spoolBack' = spoolBack
      /\ \/ UNCHANGED <<receiptBack, slotBack, sharedBack>>
         \/ Persisted
  BY DEF BackgroundPersist
<1>2. OriginType' /\ HistoryType' /\ CallInv'
  BY <1>1 DEF OriginType, HistoryType, CallInv
<1>3. /\ receiptBack' \in [Revs -> SUBSET Receipts]
      /\ slotBack' \subseteq Slots /\ sharedBack' \subseteq 0..MaxRev
      /\ \A q \in Revs : receiptBack'[q] \subseteq receiptBack[q] \cup {receipt[q]}
      /\ slotBack' \subseteq slotBack \cup {slot}
      /\ sharedBack' \subseteq sharedBack \cup {shared}
  BY <1>1, PersistShrinks DEF SovereignType
<1>4. SovereignType'
  BY <1>1, <1>3 DEF SovereignType
<1>5. ExecInv'
  BY <1>1, <1>3 DEF ExecInv, AtMostOnce, OneAtATime, Running
<1>6. ResultInv'
  BY <1>1, <1>3 DEF ResultInv, Outcome, AnswerOfExecution
<1> QED BY <1>2, <1>4, <1>5, <1>6

(* A restart brings back records that the invariant covers. *)
LEMMA SovereignRestartInv == LedgerInv /\ SovereignRestart => LedgerInv'
<1> SUFFICES ASSUME LedgerInv, SovereignRestart PROVE LedgerInv'
  OBVIOUS
<1> USE DEF LedgerInv, TypeOK, spoolVars, historyVars
<1>1. /\ UNCHANGED <<rev, journal, spool, spoolBack, stage, todo, req, chained, answer>>
      /\ UNCHANGED <<execs, decided, claim>>
      /\ server' = NoHandler /\ live' = FALSE /\ directory' = shared'
      /\ receipt' \in [Revs -> Receipts] /\ \A r \in Revs : receipt'[r] \in receiptBack[r]
      /\ slot' \in slotBack /\ shared' \in sharedBack /\ Persisted
      /\ handler' = [h \in Handlers |-> Free]
  BY DEF SovereignRestart
<1>2. OriginType' /\ HistoryType'
  BY <1>1 DEF OriginType, HistoryType
<1>3. handler' \in HandlerType /\ \A h \in Handlers : handler'[h].pc = "free"
  BY <1>1 DEF HandlerType, Free
<1>4. CallInv'
  BY <1>1, <1>3 DEF CallInv
<1>5. slot' \in Slots /\ shared' \in 0..MaxRev
  BY <1>1 DEF SovereignType
<1>6. /\ receiptBack' = [r \in Revs |-> {receipt'[r]}]
      /\ slotBack' = {slot'} /\ sharedBack' = {shared'}
  BY <1>1 DEF Persisted
<1>7. SovereignType'
  BY <1>1, <1>3, <1>5, <1>6 DEF SovereignType, HandlerType
<1>8. ExecInv'
  BY <1>1, <1>3, <1>6 DEF ExecInv, AtMostOnce, OneAtATime, Running
<1>9. ResultInv'
  BY <1>1, <1>3, <1>6 DEF ResultInv, Outcome, AnswerOfExecution
<1> QED BY <1>2, <1>4, <1>7, <1>8, <1>9

----------------------------------------------------------------------------
(* The theorems *)

(* Every step keeps the invariant. *)
LEMMA NextInv == LedgerInv /\ [Next]_vars => LedgerInv'
<1> SUFFICES ASSUME LedgerInv, [Next]_vars PROVE LedgerInv'
  OBVIOUS
<1>1. CASE Edit \/ Origin
  BY <1>1, EditInv, ProposeInv, FlushInv, FlushNextInv, RpcFailsInv,
     ProposalAnsweredInv, AckAnsweredInv DEF Origin
<1>2. ASSUME NEW h \in Handlers, Send(h) \/ Handle(h) PROVE LedgerInv'
  BY <1>2, SendInv, PrepareInv, ReplayInv, RefuseInv, DispatchInv, FinalizeInv,
     ShareInv, InstallInv, AcknowledgeInv DEF Handle
<1>3. CASE BackgroundPersist \/ OriginRestart \/ SovereignRestart
  BY <1>3, BackgroundPersistInv, OriginRestartInv, SovereignRestartInv
<1>4. CASE UNCHANGED vars
  <2> USE <1>4 DEF vars, originVars, spoolVars, callVars, historyVars
  <2>1. OriginType' /\ HistoryType' /\ AnswerOfExecution'
    BY DEF LedgerInv, TypeOK, OriginType, HistoryType, ResultInv, AnswerOfExecution
  <2>2. CallInv'
    BY DEF LedgerInv, CallInv, sovereignVars
  <2> QED BY <2>1, <2>2, OriginFrame DEF LedgerInv, TypeOK
<1> QED BY <1>1, <1>2, <1>3, <1>4 DEF Next

(* The inductive invariant of the origin's calls and the sovereign's      *)
(* ledger (mesh_journal_runtime.go, mesh_proposal_replay_runtime.go).     *)
THEOREM LedgerInvariant == Spec => []LedgerInv
BY InitInv, NextInv, PTL DEF Spec

(* The variables of the mesh proposal protocol keep their types. *)
THEOREM MeshTypeCorrect == Spec => []TypeOK
<1>1. LedgerInv => TypeOK
  BY DEF LedgerInv
<1> QED BY <1>1, LedgerInvariant, PTL

(* executeMeshProposalEventOnce executes a proposal at most once, whatever *)
(* is lost, repeated, delayed, fails to persist or restarts.              *)
THEOREM ExecutedAtMostOnce == Spec => []AtMostOnce
<1>1. LedgerInv => AtMostOnce
  BY DEF LedgerInv, ExecInv
<1> QED BY <1>1, LedgerInvariant, PTL

(* st.live: no two handlers execute the event of one slot at a time. *)
THEOREM ExecutionsExclude == Spec => []OneAtATime
<1>1. LedgerInv => OneAtATime
  BY DEF LedgerInv, ExecInv
<1> QED BY <1>1, LedgerInvariant, PTL

(* An answer the origin accepts, from an execution or from a receipt, is  *)
(* the outcome of the one execution.                                      *)
THEOREM AnswersAreOutcomes == Spec => []AnswerOfExecution
<1>1. LedgerInv => AnswerOfExecution
  BY DEF LedgerInv, ResultInv
<1> QED BY <1>1, LedgerInvariant, PTL

(* authorizeSharedProposal: whatever the shared record says, now or after *)
(* a restart, was approved.                                               *)
THEOREM SharedWasApproved == Spec => []SharedIsApproved
<1>1. LedgerInv => SharedIsApproved
  BY DEF LedgerInv, ResultInv, SharedIsApproved, Outcome
<1> QED BY <1>1, LedgerInvariant, PTL

(* prepareMeshProposalReplay: the event is never dispatched for a revision *)
(* older than one it was dispatched for.                                  *)
THEOREM ExecutedInOrder == Spec => InOrder
<1> DEFINE Ordered == \A r \in Revs : execs'[r] > execs[r] =>
                        \A q \in Revs : q > r => execs[q] = 0
<1>1. LedgerInv /\ [Next]_vars => [Ordered]_vars
  <2> SUFFICES ASSUME LedgerInv, [Next]_vars PROVE Ordered \/ UNCHANGED vars
    OBVIOUS
  <2>1. HistoryType /\ SovereignType
    BY DEF LedgerInv, TypeOK
  <2>2. ASSUME execs' = execs PROVE Ordered
    BY <2>1, <2>2 DEF HistoryType
  <2>3. ASSUME NEW h \in Handlers, Dispatch(h) PROVE Ordered
    <3> DEFINE r == handler[h].req.rev
    <3>1. handler[h].pc = "run" /\ execs' = [execs EXCEPT ![r] = @ + 1]
      BY <2>3 DEF Dispatch, Serving
    <3>2. slot.rev = r
      BY <3>1 DEF LedgerInv, ExecInv, Running
    <3>3. \A q \in Revs : q > r => execs[q] = 0
      <4> SUFFICES ASSUME NEW q \in Revs, q > r PROVE execs[q] = 0
        OBVIOUS
      <4>1. execs[q] > 0 => r >= q
        BY <3>2 DEF LedgerInv, ExecInv
      <4>2. r \in Int /\ q \in Int /\ execs[q] \in Nat
        BY <2>1, <3>2, MeshConstants DEF HistoryType, SovereignType, Slots, Revs
      <4> QED BY <4>1, <4>2
    <3>4. \A q \in Revs : execs'[q] > execs[q] => q = r
      BY <2>1, <3>1 DEF HistoryType
    <3> QED BY <3>3, <3>4
  <2>4. ASSUME NEW h \in Handlers, Send(h) \/ Handle(h) PROVE Ordered
    <3>1. execs' = execs \/ Dispatch(h)
      BY <2>4 DEF Send, Handle, Prepare, Replay, Refuse, FrameFull, Finalize, Share,
         Install, Acknowledge, AckAgain, AckRefused, historyVars
    <3> QED BY <2>2, <2>3, <3>1
  <2>5. CASE Edit \/ Origin
    <3>1. execs' = execs
      BY <2>5 DEF Edit, Origin, ProposeShared, Flush, FlushNext, RpcFails,
         ProposalAnswered, AckAnswered, historyVars
    <3> QED BY <2>2, <3>1
  <2>6. CASE BackgroundPersist \/ OriginRestart \/ SovereignRestart
    <3>1. execs' = execs
      BY <2>6 DEF BackgroundPersist, OriginRestart, SovereignRestart, historyVars
    <3> QED BY <2>2, <3>1
  <2> HIDE DEF Ordered
  <2> QED BY <2>4, <2>5, <2>6 DEF Next
<1>2. Spec => [][Ordered]_vars
  BY <1>1, LedgerInvariant, PTL DEF Spec
<1> QED BY <1>2 DEF InOrder

----------------------------------------------------------------------------
(* Settling: what the spool and the receipts say of each other *)

(* The positions of what is left when an element is removed. *)
LEMMA RemoveFirstShape ==
  ASSUME NEW S, NEW s \in Seq(S), NEW e
  PROVE  \/ RemoveFirst(s, e) = s
         \/ \E k \in 1..Len(s) :
              LET n == RemoveFirst(s, e) IN
              /\ DOMAIN n = 1..(Len(s) - 1)
              /\ \A i \in DOMAIN n : n[i] = IF i < k THEN s[i] ELSE s[i + 1]
<1>1. CASE \E i \in 1..Len(s) : s[i] = e
  <2> DEFINE I == {i \in 1..Len(s) : s[i] = e}
             k == Min(I)
             a == SubSeq(s, 1, k - 1)
             b == SubSeq(s, k + 1, Len(s))
  <2>1. Len(s) \in Nat /\ \A i \in 1..Len(s) : s[i] \in S
    BY LenProperties, ElementOfSeq
  <2>2. k \in 1..Len(s)
    <3>1. I \in SUBSET Nat /\ I # {}
      BY <1>1, <2>1
    <3>2. k \in I
      BY <3>1, MinInSet
    <3> QED BY <3>2
  <2>3. RemoveFirst(s, e) = RemoveAt(s, k)
    BY <1>1 DEF RemoveFirst, SelectInSeq
  <2> HIDE DEF k
  <2>4. a \in Seq(S) /\ Len(a) = k - 1 /\ \A i \in 1..(k - 1) : a[i] = s[i]
    <3>1. \A i \in 1..(k - 1) : s[i] \in S
      BY <2>1, <2>2
    <3> QED BY <2>2, <3>1, SubSeqProperties
  <2>5. /\ b \in Seq(S) /\ Len(b) = Len(s) - k
        /\ \A i \in 1..(Len(s) - k) : b[i] = s[k + i]
    <3>1. \A i \in (k + 1)..Len(s) : s[i] \in S
      BY <2>1, <2>2
    <3>2. /\ b \in Seq(S)
          /\ Len(b) = IF k + 1 <= Len(s) THEN Len(s) - (k + 1) + 1 ELSE 0
          /\ \A i \in 1..(Len(s) - (k + 1) + 1) : b[i] = s[k + 1 + i - 1]
      BY <2>1, <2>2, <3>1, SubSeqProperties
    <3> QED BY <2>1, <2>2, <3>2
  <2> HIDE DEF a, b
  <2>6. /\ Len(a \o b) = Len(s) - 1 /\ a \o b \in Seq(S)
        /\ \A i \in 1..(Len(s) - 1) : (a \o b)[i] = IF i <= k - 1 THEN a[i] ELSE b[i - (k - 1)]
    BY <2>1, <2>2, <2>4, <2>5, ConcatProperties
  <2>7. DOMAIN (a \o b) = 1..(Len(s) - 1)
    BY <2>6, LenProperties
  <2>8. \A i \in 1..(Len(s) - 1) : (a \o b)[i] = IF i < k THEN s[i] ELSE s[i + 1]
    <3> TAKE i \in 1..(Len(s) - 1)
    <3>1. CASE i < k
      BY <2>1, <2>2, <2>4, <2>6, <3>1
    <3>2. CASE ~(i < k)
      <4>1. i - (k - 1) \in 1..(Len(s) - k) /\ k + (i - (k - 1)) = i + 1 /\ ~(i <= k - 1)
        BY <2>1, <2>2, <3>2
      <4> QED BY <2>5, <2>6, <3>2, <4>1
    <3> QED BY <3>1, <3>2
  <2>9. RemoveFirst(s, e) = a \o b
    BY <2>3 DEF RemoveAt, a, b
  <2> QED BY <2>2, <2>7, <2>8, <2>9
<1>2. CASE ~\E i \in 1..Len(s) : s[i] = e
  BY <1>2 DEF RemoveFirst
<1> QED BY <1>1, <1>2

(* Removing a request from a spool leaves some of its requests. *)
LEMMA RemovedSound ==
  ASSUME NEW s \in Seq(Requests), OnePropose(s), NEW e
  PROVE  OnePropose(RemoveFirst(s, e)) /\ Range(RemoveFirst(s, e)) \subseteq Range(s)
<1> DEFINE n == RemoveFirst(s, e)
<1>1. CASE n = s
  BY <1>1
<1>2. ASSUME NEW k \in 1..Len(s), DOMAIN n = 1..(Len(s) - 1),
             \A i \in DOMAIN n : n[i] = IF i < k THEN s[i] ELSE s[i + 1]
      PROVE  OnePropose(n) /\ Range(n) \subseteq Range(s)
  <2> HIDE DEF n
  <2> DEFINE at(i) == IF i < k THEN i ELSE i + 1
  <2>1. Len(s) \in Nat /\ DOMAIN s = 1..Len(s)
    BY LenProperties
  <2>2. \A i \in DOMAIN n : at(i) \in DOMAIN s /\ n[i] = s[at(i)]
    BY <1>2, <2>1
  <2>3. \A i, j \in DOMAIN n : at(i) = at(j) => i = j
    BY <1>2, <2>1
  <2> HIDE DEF at
  <2>4. OnePropose(n)
    BY <2>2, <2>3 DEF OnePropose
  <2>5. Range(n) \subseteq Range(s)
    BY <2>2 DEF Range
  <2> QED BY <2>4, <2>5
<1>3. \/ n = s
      \/ \E k \in 1..Len(s) : /\ DOMAIN n = 1..(Len(s) - 1)
                              /\ \A i \in DOMAIN n : n[i] = IF i < k THEN s[i] ELSE s[i + 1]
  BY RemoveFirstShape
<1> HIDE DEF n
<1>4. OnePropose(n) /\ Range(n) \subseteq Range(s)
  BY <1>1, <1>2, <1>3
<1> QED BY <1>4 DEF n

(* deferMeshRequest leaves one proposal, the new one, and the ACKs. *)
LEMMA DeferredSound ==
  ASSUME OriginType, OnePropose(journal), NEW r \in Revs
  PROVE  /\ OnePropose(Deferred(r))
         /\ Propose(r) \in Range(Deferred(r))
         /\ \A q \in Range(Deferred(r)) : q = Propose(r) \/ (q.op = "ack" /\ q \in Range(journal))
<1> DEFINE I == {j \in 1..Len(journal) : journal[j].op = "propose"}
           i == SelectInSeq(journal, LAMBDA q : q.op = "propose")
<1>1. /\ journal \in Seq(Requests) /\ Len(journal) \in Nat
      /\ DOMAIN journal = 1..Len(journal)
      /\ \A j \in 1..Len(journal) : journal[j] \in Requests
  BY LenProperties, ElementOfSeq DEF OriginType
<1>2. Propose(r) \in Requests /\ Propose(r).op = "propose"
  BY DEF Propose, Requests
<1>3. \A q \in Requests : q.op = "propose" \/ q.op = "ack"
  BY DEF Requests
<1>4. i = IF I # {} THEN Min(I) ELSE 0
  BY DEF SelectInSeq
<1>5. CASE I = {}
  <2>1. i = 0
    BY <1>4, <1>5
  <2>2. Deferred(r) = Append(journal, Propose(r))
    BY <2>1 DEF Deferred
  <2>3. /\ DOMAIN Deferred(r) = 1..(Len(journal) + 1)
        /\ \A j \in 1..Len(journal) : Deferred(r)[j] = journal[j]
        /\ Deferred(r)[Len(journal) + 1] = Propose(r)
    BY <1>1, <1>2, <2>2, AppendProperties, LenProperties
  <2>4. \A j \in 1..Len(journal) : journal[j].op = "ack" /\ journal[j].op # "propose"
    BY <1>1, <1>3, <1>5
  <2>5. \A j \in 1..(Len(journal) + 1) : j \in 1..Len(journal) \/ j = Len(journal) + 1
    BY <1>1
  <2> QED BY <1>1, <1>2, <2>3, <2>4, <2>5 DEF OnePropose, Range
<1>6. CASE I # {}
  <2>1. I \in SUBSET Nat
    BY <1>1
  <2>2. i \in I
    BY <1>4, <1>6, <2>1, MinInSet
  <2> HIDE DEF i
  <2>3. i # 0 /\ i \in DOMAIN journal /\ journal[i].op = "propose"
    BY <1>1, <2>2
  <2>4. Deferred(r) = [journal EXCEPT ![i] = Propose(r)]
    BY <2>3 DEF Deferred, ReplaceAt, i
  <2>5. /\ DOMAIN Deferred(r) = DOMAIN journal
        /\ \A j \in DOMAIN journal : Deferred(r)[j] = IF j = i THEN Propose(r) ELSE journal[j]
    BY <2>4
  <2>6. \A j \in DOMAIN journal : j # i => journal[j].op = "ack" /\ journal[j].op # "propose"
    BY <1>1, <1>3, <2>3 DEF OnePropose
  <2> QED BY <1>2, <2>3, <2>5, <2>6 DEF OnePropose, Range
<1> QED BY <1>5, <1>6

(* replaceDeferredMeshRequestExact leaves no proposal of the revision. *)
LEMMA AckedSound ==
  ASSUME OriginType, OnePropose(journal), NEW r \in Revs
  PROVE  /\ OnePropose(Acked(Propose(r)))
         /\ \A q \in Range(Acked(Propose(r))) :
              q # Propose(r) /\ (q = Ack(r) \/ q \in Range(journal))
<1> DEFINE e == Propose(r)
           I == {j \in 1..Len(journal) : journal[j] = e}
           i == SelectInSeq(journal, LAMBDA q : q = e)
<1>1. /\ journal \in Seq(Requests) /\ Len(journal) \in Nat
      /\ DOMAIN journal = 1..Len(journal)
  BY LenProperties DEF OriginType
<1>2. e.op = "propose" /\ e.rev = r /\ Ack(r).op = "ack"
  BY DEF Propose, Ack
<1>3. i = IF I # {} THEN Min(I) ELSE 0
  BY DEF SelectInSeq
<1>4. Acked(e) = [journal EXCEPT ![i] = Ack(r)]
  BY <1>2 DEF Acked, ReplaceAt
<1>5. CASE I = {}
  <2>1. i \notin DOMAIN journal
    BY <1>1, <1>3, <1>5
  <2>2. Acked(e) = journal
    <3> HIDE DEF i
    <3> QED BY <1>1, <1>4, <2>1
  <2> QED BY <1>1, <1>5, <2>2 DEF Range
<1>6. CASE I # {}
  <2>1. I \in SUBSET Nat
    BY <1>1
  <2>2. i \in I
    BY <1>3, <1>6, <2>1, MinInSet
  <2> HIDE DEF i
  <2>3. i \in DOMAIN journal /\ journal[i].op = "propose"
    BY <1>1, <1>2, <2>2
  <2>4. /\ DOMAIN Acked(e) = DOMAIN journal
        /\ \A j \in DOMAIN journal : Acked(e)[j] = IF j = i THEN Ack(r) ELSE journal[j]
    BY <1>4
  <2>5. \A j \in DOMAIN journal : j # i => journal[j].op # "propose"
    BY <2>3 DEF OnePropose
  <2> HIDE DEF e
  <2>6. OnePropose(Acked(e))
    BY <1>2, <2>4, <2>5 DEF OnePropose
  <2>7. \A q \in Range(Acked(e)) : q # e /\ (q = Ack(r) \/ q \in Range(journal))
    BY <1>2, <2>3, <2>4, <2>5 DEF Range
  <2> QED BY <2>6, <2>7 DEF e
<1> QED BY <1>5, <1>6

(* The two kinds of requests. *)
LEMMA RequestKinds ==
  /\ \A q \in Requests : q.rev \in Revs /\ q \in {Propose(q.rev), Ack(q.rev)}
  /\ \A r \in Revs : /\ Propose(r) \in Requests /\ Ack(r) \in Requests
                     /\ Propose(r).op = "propose" /\ Propose(r).rev = r
                     /\ Ack(r).op = "ack" /\ Ack(r).rev = r /\ Propose(r) # Ack(r)
BY DEF Requests, Propose, Ack

(* A claim is never withdrawn, nor is what has been settled. *)
Grows ==
  \A r \in Revs : /\ Settled(r, claim) => Settled(r, claim')
                  /\ claim[r] # "none" => claim'[r] # "none"

LEMMA BackedGrows ==
  ASSUME Grows, NEW q, Backed(q, claim)
  PROVE  Backed(q, claim')
<1> SUFFICES ASSUME q \in Requests PROVE Backed(q, claim')
  BY DEF Backed
<1>1. q.rev \in Revs
  BY RequestKinds
<1> QED BY <1>1 DEF Grows, Backed, Settled

LEMMA SettleInit == Init => SettleInv
<1> SUFFICES ASSUME Init PROVE SettleInv
  OBVIOUS
<1> USE DEF Init
<1>1. Range(<<>>) = {}
  BY DEF Range
<1>2. Sound(<<>>, claim)
  BY <1>1 DEF Sound, OnePropose
<1>3. SpoolInv
  BY <1>1, <1>2 DEF SpoolInv
<1>4. AckInv /\ CollectInv
  BY DEF AckInv, CollectInv, Free
<1> QED BY <1>3, <1>4 DEF SettleInv

(* Steps that leave the spool and the claims alone. *)
LEMMA SpoolFrame ==
  ASSUME SpoolInv, UNCHANGED <<spoolVars, claim>>, Range(todo') \subseteq Range(todo) \cup Range(journal)
  PROVE  SpoolInv'
<1> USE DEF spoolVars
<1>1. \A t \in spoolBack \cup {journal} : Sound(t, claim')
  BY DEF SpoolInv, Sound
<1>2. \A q \in Range(journal) \cup Range(todo') : Backed(q, claim')
  BY DEF SpoolInv, Backed, Settled
<1> QED BY <1>1, <1>2 DEF SpoolInv

(* Receipts that may be missing after a step were missing before, and no  *)
(* handler has come to the event.                                         *)
LEMMA CollectFrame ==
  ASSUME CollectInv, Grows, UNCHANGED execs,
         \A r \in Revs : "none" \in receiptBack'[r] \cup {receipt'[r]} =>
                          "none" \in receiptBack[r] \cup {receipt[r]},
         \A h \in Handlers : handler'[h].pc = "run" => handler'[h] = handler[h]
  PROVE  CollectInv'
<1> SUFFICES ASSUME NEW r \in Revs, "none" \in receiptBack'[r] \cup {receipt'[r]}
             PROVE  /\ execs'[r] > 0 => Settled(r, claim')
                    /\ \A h \in Handlers : handler'[h].pc = "run" => handler'[h].req.rev # r
  BY DEF CollectInv
<1>1. /\ execs[r] > 0 => Settled(r, claim)
      /\ \A h \in Handlers : handler[h].pc = "run" => handler[h].req.rev # r
  BY DEF CollectInv
<1> QED BY <1>1 DEF Grows

(* The steps of the origin that are not answers. *)
LEMMA SettleOriginQuiet ==
  ASSUME LedgerInv, SettleInv, Edit \/ Flush \/ FlushNext \/ RpcFails
  PROVE  SettleInv'
<1>0. OriginType /\ CallInv
  BY DEF LedgerInv, TypeOK
<1>1. UNCHANGED <<spoolVars, claim, execs, sovereignVars>>
  BY DEF Edit, Flush, FlushNext, RpcFails, historyVars
<1>2. Range(todo') \subseteq Range(todo) \cup Range(journal)
  <2>1. CASE Edit \/ Flush \/ RpcFails
    BY <2>1 DEF Edit, Flush, RpcFails, Continue, callVars
  <2>2. CASE FlushNext
    <3>1. todo # <<>> /\ todo \in Seq(Requests) /\ todo' = Tail(todo)
      BY <1>0, <2>2 DEF FlushNext, OriginType, CallInv
    <3>2. /\ Len(todo) \in Nat /\ DOMAIN todo = 1..Len(todo)
          /\ DOMAIN Tail(todo) = 1..(Len(todo) - 1)
          /\ \A i \in 1..(Len(todo) - 1) : Tail(todo)[i] = todo[i + 1]
      BY <3>1, HeadTailProperties, LenProperties
    <3> QED BY <3>1, <3>2 DEF Range
  <2> QED BY <2>1, <2>2
<1>3. SpoolInv'
  BY <1>1, <1>2, SpoolFrame DEF SettleInv
<1>4. Grows
  BY <1>1 DEF Grows, Settled
<1>5. stage' \in {"send", "wait", "answer"} => Backed(req', claim')
  <2>1. CASE Edit
    BY <2>1, <1>4, BackedGrows DEF Edit, callVars, SettleInv, AckInv
  <2>2. CASE FlushNext
    <3>1. todo # <<>> /\ todo \in Seq(Requests) /\ req' = Head(todo)
      BY <1>0, <2>2 DEF FlushNext, OriginType, CallInv
    <3>2. Len(todo) \in Nat /\ Len(todo) # 0 /\ DOMAIN todo = 1..Len(todo) /\ Head(todo) = todo[1]
      BY <3>1, EmptySeq, LenProperties
    <3>3. Head(todo) \in Range(todo)
      BY <3>2 DEF Range
    <3>4. Backed(req', claim)
      BY <3>1, <3>3 DEF SettleInv, SpoolInv
    <3> QED BY <1>1, <3>4 DEF Backed, Settled
  <2>3. CASE Flush \/ RpcFails
    BY <2>3 DEF Flush, RpcFails, Continue
  <2> QED BY <2>1, <2>2, <2>3
<1>6. AckInv'
  <2>1. \A h \in Handlers : handler'[h].pc # "free" => Backed(handler'[h].req, claim')
    BY <1>1, <1>4, BackedGrows DEF SettleInv, AckInv, sovereignVars
  <2> QED BY <1>5, <2>1 DEF AckInv
<1>7. CollectInv'
  BY <1>1, <1>4, CollectFrame DEF SettleInv, sovereignVars, ledgerVars
<1> QED BY <1>3, <1>6, <1>7 DEF SettleInv

(* The spool is written: what is new in it is sound. *)
LEMMA SpoolWriteInv ==
  ASSUME SpoolInv, NEW next, SpoolWritten(next) \/ SpoolFails(next), Grows,
         Sound(next, claim'), \A q \in Range(todo') : Backed(q, claim'),
         SpoolWritten(next) => \A q \in Range(next) : Backed(q, claim'),
         SpoolFails(next) => \A t \in spoolBack \cup {journal} : Sound(t, claim')
  PROVE  SpoolInv'
<1>1. CASE SpoolWritten(next)
  <2>1. journal' = next /\ spool' = next /\ spoolBack' = {next}
    BY <1>1 DEF SpoolWritten
  <2> QED BY <1>1, <2>1 DEF SpoolInv
<1>2. CASE SpoolFails(next)
  <2>1. journal' = journal /\ spool' = next /\ spoolBack' = spoolBack \cup {next}
    BY <1>2 DEF SpoolFails
  <2>2. \A q \in Range(journal) : Backed(q, claim')
    BY BackedGrows DEF SpoolInv
  <2>3. \A t \in spoolBack' \cup {journal'} : Sound(t, claim')
    BY <1>2, <2>1
  <2>4. spool' \in spoolBack'
    BY <2>1
  <2> QED BY <2>1, <2>2, <2>3, <2>4 DEF SpoolInv
<1> QED BY <1>1, <1>2

(* The sovereign's side of a step of the origin that may settle claims. *)
LEMMA SettleSovereign ==
  ASSUME SettleInv, Grows, UNCHANGED <<sovereignVars, execs>>,
         stage' \in {"send", "wait", "answer"} => Backed(req', claim')
  PROVE  AckInv' /\ CollectInv'
<1>1. \A h \in Handlers : handler'[h].pc # "free" => Backed(handler'[h].req, claim')
  BY BackedGrows DEF SettleInv, AckInv, sovereignVars
<1>2. CollectInv'
  BY CollectFrame DEF SettleInv, sovereignVars, ledgerVars
<1> QED BY <1>1, <1>2 DEF AckInv

LEMMA SettlePropose ==
  ASSUME LedgerInv, SettleInv, ProposeShared
  PROVE  SettleInv'
<1> DEFINE next == Deferred(rev)
<1>0. OriginType /\ HistoryType
  BY DEF LedgerInv, TypeOK
<1>1. rev \in Revs
  BY <1>0, MeshConstants DEF OriginType, ProposeShared, Revs
<1>2. /\ SpoolWritten(next) \/ SpoolFails(next)
      /\ Claimed(rev) /\ todo' = todo /\ UNCHANGED <<sovereignVars, execs>>
      /\ (stage' = "send" /\ req' = Propose(rev)) \/ stage' = "idle"
  BY DEF ProposeShared
<1>3. \A r \in Revs : claim'[r] = IF r # rev THEN claim[r]
                                  ELSE IF claim[r] = "none" THEN "open"
                                  ELSE IF claim[r] = "settled" THEN "reopened"
                                  ELSE claim[r]
  BY <1>0, <1>1, <1>2 DEF Claimed, HistoryType
<1>4. Grows /\ claim'[rev] \in {"open", "reopened"}
  BY <1>0, <1>1, <1>3 DEF Grows, Settled, HistoryType
<1>5. /\ OnePropose(next) /\ Sound(journal, claim)
      /\ \A q \in Range(next) : q = Propose(rev) \/ (q.op = "ack" /\ q \in Range(journal))
  BY <1>0, <1>1, DeferredSound DEF SettleInv, SpoolInv, Sound
<1>6. \A q \in Range(journal) \cup Range(todo) : Backed(q, claim) /\ Backed(q, claim')
  BY <1>4, BackedGrows DEF SettleInv, SpoolInv
<1> HIDE DEF next
<1>7. Sound(next, claim')
  <2>1. ASSUME NEW r \in Revs, Propose(r) \in Range(next) PROVE r = rev
    BY <1>1, <1>5, <2>1, RequestKinds
  <2>2. ASSUME NEW r \in Revs, Ack(r) \in Range(next) PROVE Settled(r, claim)
    <3>1. Ack(r) \in Range(journal)
      BY <1>1, <1>5, <2>2, RequestKinds
    <3> QED BY <1>6, <3>1, RequestKinds DEF Backed
  <2>3. ASSUME NEW r \in Revs, Ack(r) \in Range(next), Propose(r) \in Range(next)
        PROVE  claim'[r] = "reopened"
    BY <1>3, <2>1, <2>2, <2>3 DEF Settled
  <2>4. ASSUME NEW r \in Revs, Ack(r) \in Range(next) PROVE claim'[r] # "none"
    BY <1>4, <2>2, <2>4 DEF Grows, Settled
  <2> QED BY <1>4, <1>5, <2>1, <2>3, <2>4 DEF Sound
<1>8. \A q \in Range(next) \cup Range(todo') : Backed(q, claim')
  <2>1. Backed(Propose(rev), claim')
    BY <1>1, <1>4, RequestKinds DEF Backed
  <2> QED BY <1>2, <1>5, <1>6, <2>1
<1>9. \A t \in spoolBack \cup {journal} : Sound(t, claim')
  <2> SUFFICES ASSUME NEW t, Sound(t, claim) PROVE Sound(t, claim')
    BY DEF SettleInv, SpoolInv
  <2> QED BY <1>3 DEF Sound
<1>10. SpoolInv'
  BY <1>2, <1>4, <1>7, <1>8, <1>9, SpoolWriteInv DEF SettleInv
<1>11. stage' \in {"send", "wait", "answer"} => Backed(req', claim')
  BY <1>1, <1>2, <1>4, RequestKinds DEF Backed
<1> QED BY <1>2, <1>4, <1>10, <1>11, SettleSovereign DEF SettleInv

LEMMA SettleProposalAnswered ==
  ASSUME LedgerInv, SettleInv, ProposalAnswered
  PROVE  SettleInv'
<1> DEFINE r == req.rev  next == Acked(req)
<1>0. OriginType /\ HistoryType /\ CallInv
  BY DEF LedgerInv, TypeOK
<1>1. req \in Requests /\ r \in Revs /\ req = Propose(r)
  BY <1>0, RequestKinds DEF ProposalAnswered, CallInv
<1>2. /\ UNCHANGED <<sovereignVars, execs>>
      /\ \/ /\ SpoolWritten(next) /\ todo' = todo /\ req' = Ack(r)
            /\ claim' = [claim EXCEPT ![r] = IF @ = "open" THEN "settled" ELSE @]
         \/ SpoolFails(next) /\ stage' = "idle" /\ todo' = <<>> /\ claim' = claim
  BY DEF ProposalAnswered, Idle
<1>3. claim[r] # "none"
  BY <1>1, RequestKinds DEF ProposalAnswered, SettleInv, AckInv, Backed
<1>4. /\ OnePropose(next) /\ Sound(journal, claim)
      /\ \A q \in Range(next) : q # Propose(r) /\ (q = Ack(r) \/ q \in Range(journal))
  BY <1>0, <1>1, AckedSound DEF SettleInv, SpoolInv, Sound
<1>5. \A q \in Range(journal) \cup Range(todo) : Backed(q, claim)
  BY DEF SettleInv, SpoolInv
<1> HIDE DEF r, next
<1>6. \A x \in Revs : claim'[x] = claim[x] \/ (x = r /\ claim[x] = "open" /\ claim'[x] = "settled")
  BY <1>0, <1>1, <1>2 DEF HistoryType
<1>7. Grows
  BY <1>6 DEF Grows, Settled
<1>8. \A q \in Range(journal) \cup Range(todo) : Backed(q, claim')
  BY <1>5, <1>7, BackedGrows
<1>9. ASSUME NEW x \in Revs, Ack(x) \in Range(next) PROVE x = r \/ Settled(x, claim)
  <2>1. x = r \/ Ack(x) \in Range(journal)
    BY <1>1, <1>4, <1>9, RequestKinds
  <2> QED BY <1>5, <2>1, RequestKinds DEF Backed
<1>10. ASSUME NEW x \in Revs, Propose(x) \in Range(next) PROVE x # r /\ Propose(x) \in Range(journal)
  BY <1>1, <1>4, <1>10, RequestKinds
<1>11. Sound(next, claim')
  <2>1. ASSUME NEW x \in Revs, Propose(x) \in Range(next) PROVE claim'[x] \in {"open", "reopened"}
    BY <1>4, <1>6, <1>10, <2>1 DEF Sound
  <2>2. ASSUME NEW x \in Revs, Ack(x) \in Range(next) PROVE claim'[x] # "none"
    BY <1>3, <1>6, <1>9, <2>2 DEF Settled
  <2>3. ASSUME NEW x \in Revs, Ack(x) \in Range(next), Propose(x) \in Range(next)
        PROVE  claim'[x] = "reopened"
    BY <1>6, <1>9, <1>10, <2>1, <2>3 DEF Settled
  <2> QED BY <1>4, <2>1, <2>2, <2>3 DEF Sound
<1>12. CASE SpoolWritten(next) /\ todo' = todo /\ req' = Ack(r)
            /\ claim' = [claim EXCEPT ![r] = IF @ = "open" THEN "settled" ELSE @]
  <2>1. Settled(r, claim')
    BY <1>0, <1>1, <1>3, <1>12 DEF HistoryType, Settled
  <2>2. Backed(Ack(r), claim')
    BY <1>1, <2>1, RequestKinds DEF Backed
  <2>3. \A q \in Range(next) \cup Range(todo') : Backed(q, claim')
    BY <1>4, <1>8, <1>12, <2>2
  <2>4. SpoolFails(next) => \A t \in spoolBack \cup {journal} : Sound(t, claim')
    <3>1. ASSUME SpoolFails(next) PROVE \A t \in spoolBack \cup {journal} : Sound(t, claim')
      BY <1>12, <3>1, <1>11 DEF SpoolWritten, SpoolFails
    <3> QED BY <3>1
  <2>5. SpoolInv'
    BY <1>7, <1>11, <1>12, <2>3, <2>4, SpoolWriteInv DEF SettleInv
  <2> QED BY <1>2, <1>7, <1>12, <2>2, <2>5, SettleSovereign DEF SettleInv
<1>13. CASE SpoolFails(next) /\ stage' = "idle" /\ todo' = <<>> /\ claim' = claim
  <2>0. Range(<<>>) = {}
    BY DEF Range
  <2>1. \A t \in spoolBack \cup {journal} : Sound(t, claim')
    BY <1>13 DEF SettleInv, SpoolInv, Sound
  <2>2. SpoolWritten(next) => \A q \in Range(next) : Backed(q, claim')
    <3>1. SpoolWritten(next) => next = journal
      BY <1>13 DEF SpoolWritten, SpoolFails
    <3> QED BY <1>8, <3>1
  <2>3. \A q \in Range(todo') : Backed(q, claim')
    BY <1>13, <2>0
  <2>4. SpoolInv'
    BY <1>7, <1>11, <1>13, <2>1, <2>2, <2>3, SpoolWriteInv DEF SettleInv
  <2> QED BY <1>2, <1>7, <1>13, <2>4, SettleSovereign DEF SettleInv
<1> QED BY <1>2, <1>12, <1>13

LEMMA SettleAckAnswered ==
  ASSUME LedgerInv, SettleInv, AckAnswered
  PROVE  SettleInv'
<1> DEFINE next == RemoveFirst(journal, req)
<1>0. OriginType
  BY DEF LedgerInv, TypeOK
<1>1. /\ SpoolWritten(next) \/ SpoolFails(next)
      /\ claim' = claim /\ UNCHANGED <<sovereignVars, execs>>
      /\ stage' \in {"idle", "flush"} /\ todo' \in {todo, <<>>}
  BY DEF AckAnswered, Continue, Idle, historyVars
<1>2. Range(<<>>) = {}
  BY DEF Range
<1>3. Sound(journal, claim) /\ \A q \in Range(journal) \cup Range(todo) : Backed(q, claim')
  BY <1>1 DEF SettleInv, SpoolInv
<1>4. OnePropose(next) /\ Range(next) \subseteq Range(journal)
  BY <1>0, <1>3, RemovedSound DEF OriginType, Sound
<1> HIDE DEF next
<1>5. Sound(next, claim')
  BY <1>1, <1>3, <1>4 DEF Sound
<1>6. \A t \in spoolBack \cup {journal} : Sound(t, claim')
  BY <1>1 DEF SettleInv, SpoolInv
<1>7. Grows
  BY <1>1 DEF Grows, Settled
<1>8. /\ \A q \in Range(todo') : Backed(q, claim')
      /\ \A q \in Range(next) : Backed(q, claim')
  BY <1>1, <1>2, <1>3, <1>4
<1>9. SpoolInv'
  BY <1>1, <1>5, <1>6, <1>7, <1>8, SpoolWriteInv DEF SettleInv
<1> QED BY <1>1, <1>7, <1>9, SettleSovereign DEF SettleInv

LEMMA SettleOriginRestart ==
  ASSUME LedgerInv, SettleInv, OriginRestart
  PROVE  SettleInv'
<1>0. OriginType /\ HistoryType
  BY DEF LedgerInv, TypeOK
<1>1. PICK s \in spoolBack :
        /\ journal' = s /\ spool' = s /\ spoolBack' = {s}
        /\ claim' = [r \in Revs |-> IF claim[r] = "open" /\ Ack(r) \in Range(s)
                                   THEN "settled" ELSE claim[r]]
  BY DEF OriginRestart
<1>2. stage' = "idle" /\ todo' = <<>> /\ UNCHANGED <<sovereignVars, execs>>
  BY DEF OriginRestart, Idle
<1>3. Sound(s, claim) /\ s \in Seq(Requests)
  BY <1>0 DEF SettleInv, SpoolInv, OriginType
<1>4. \A r \in Revs : claim'[r] = IF claim[r] = "open" /\ Ack(r) \in Range(s)
                                  THEN "settled" ELSE claim[r]
  BY <1>1
<1>5. Grows
  BY <1>4 DEF Grows, Settled
<1>6. Sound(s, claim')
  BY <1>3, <1>4 DEF Sound
<1>7. \A q \in Range(s) : Backed(q, claim')
  <2> SUFFICES ASSUME NEW q \in Range(s), q \in Requests PROVE Backed(q, claim')
    BY DEF Backed
  <2> DEFINE r == q.rev
  <2>1. r \in Revs /\ claim[r] \in {"none", "open", "settled", "reopened"}
    BY <1>0, RequestKinds DEF HistoryType
  <2>2. CASE q.op = "ack"
    <3>1. Ack(r) \in Range(s)
      BY <2>2, RequestKinds DEF Propose
    <3>2. claim[r] # "none"
      BY <1>3, <2>1, <3>1 DEF Sound
    <3>3. Settled(r, claim')
      BY <1>4, <2>1, <3>1, <3>2 DEF Settled
    <3> QED BY <2>2, <3>3 DEF Backed
  <2>3. CASE q.op # "ack"
    <3>1. Propose(r) \in Range(s)
      BY <2>3, RequestKinds DEF Ack
    <3>2. claim'[r] # "none"
      BY <1>3, <1>5, <2>1, <3>1 DEF Sound, Grows
    <3> QED BY <2>3, <3>2 DEF Backed
  <2> QED BY <2>2, <2>3
<1>8. Range(<<>>) = {}
  BY DEF Range
<1>9. SpoolInv'
  BY <1>1, <1>2, <1>6, <1>7, <1>8 DEF SpoolInv
<1> QED BY <1>2, <1>5, <1>9, SettleSovereign DEF SettleInv

(* The sovereign's steps leave the spool and the claims alone; a handler   *)
(* keeps its request until it is free.                                     *)
LEMMA SettleHandler ==
  ASSUME LedgerInv, SettleInv, UNCHANGED <<spoolVars, todo, req, claim>>,
         stage' \in {"send", "wait", "answer"} => stage \in {"send", "wait", "answer"},
         \A h \in Handlers : handler'[h].pc # "free" =>
           handler[h].pc # "free" /\ handler'[h].req = handler[h].req,
         CollectInv'
  PROVE  SettleInv'
<1>1. SpoolInv'
  BY SpoolFrame DEF SettleInv
<1>2. AckInv'
  BY DEF SettleInv, AckInv
<1> QED BY <1>1, <1>2 DEF SettleInv

LEMMA RespondKeeps ==
  ASSUME LedgerInv, NEW h \in Handlers, NEW ok, NEW d, Respond(h, ok, d)
  PROVE  /\ UNCHANGED <<spoolVars, todo, req>>
         /\ stage' \in {"send", "wait", "answer"} => stage \in {"send", "wait", "answer"}
         /\ \A g \in Handlers : handler'[g] = IF g = h THEN Free ELSE handler[g]
<1>1. CallInv /\ SovereignType
  BY DEF LedgerInv, TypeOK
<1>2. stage' \in {"send", "wait", "answer"} => stage \in {"send", "wait", "answer"}
  BY <1>1, MeshConstants DEF Respond, CallInv
<1>3. \A g \in Handlers : handler'[g] = IF g = h THEN Free ELSE handler[g]
  BY <1>1 DEF Respond, SovereignType
<1> QED BY <1>2, <1>3 DEF Respond

(* A handler goes on with its request. *)
LEMMA AdvanceKeeps ==
  ASSUME LedgerInv, NEW h \in Handlers, handler[h].pc # "free", UNCHANGED originVars, NEW pc, NEW d,
         handler' = [handler EXCEPT ![h].pc = pc, ![h].decision = d]
  PROVE  /\ UNCHANGED <<spoolVars, todo, req, stage>>
         /\ handler'[h].pc = pc /\ handler'[h].req = handler[h].req
         /\ \A g \in Handlers \ {h} : handler'[g] = handler[g]
<1>1. handler \in HandlerType
  BY DEF LedgerInv, TypeOK, SovereignType, HandlerType
<1> QED BY <1>1 DEF originVars, callVars, HandlerType

LEMMA AdvancePcKeeps ==
  ASSUME LedgerInv, NEW h \in Handlers, handler[h].pc # "free", UNCHANGED originVars, NEW pc,
         handler' = [handler EXCEPT ![h].pc = pc]
  PROVE  /\ UNCHANGED <<spoolVars, todo, req, stage>>
         /\ handler'[h].pc = pc /\ handler'[h].req = handler[h].req
         /\ \A g \in Handlers \ {h} : handler'[g] = handler[g]
<1>1. handler \in HandlerType
  BY DEF LedgerInv, TypeOK, SovereignType, HandlerType
<1> QED BY <1>1 DEF originVars, callVars, HandlerType

(* After the event or a receipt: an answer, or on to the shared record. *)
LEMMA AuthorizeKeeps ==
  ASSUME LedgerInv, NEW h \in Handlers, handler[h].pc # "free", NEW d \in Decisions, Authorize(h, d)
  PROVE  /\ UNCHANGED <<spoolVars, todo, req>>
         /\ stage' \in {"send", "wait", "answer"} => stage \in {"send", "wait", "answer"}
         /\ \A g \in Handlers \ {h} : handler'[g] = handler[g]
         /\ \/ handler'[h] = Free
            \/ handler'[h].pc = "share" /\ handler'[h].req = handler[h].req
<1>1. CASE d = "error"
  BY <1>1, RespondKeeps DEF Authorize
<1>2. CASE d = "denied"
  BY <1>2, RespondKeeps DEF Authorize
<1>3. CASE d = "approved"
  <2>1. UNCHANGED originVars /\ handler' = [handler EXCEPT ![h].pc = "share", ![h].decision = d]
    BY <1>3 DEF Authorize
  <2> QED BY <2>1, AdvanceKeeps
<1> QED BY <1>1, <1>2, <1>3, MeshConstants

LEMMA SettleSend ==
  ASSUME LedgerInv, SettleInv, NEW h \in Handlers, Send(h)
  PROVE  SettleInv'
<1>0. handler \in HandlerType
  BY DEF LedgerInv, TypeOK, SovereignType, HandlerType
<1>1. /\ UNCHANGED <<spoolVars, todo, req, claim, execs, receipt, receiptBack>>
      /\ stage = "send" /\ stage' = "wait"
      /\ handler' = [handler EXCEPT ![h] = [Free EXCEPT !.pc = "arrived", !.req = req]]
  BY DEF Send, historyVars, ledgerVars
<1>2. [Free EXCEPT !.pc = "arrived", !.req = req].req = req
      /\ [Free EXCEPT !.pc = "arrived", !.req = req].pc = "arrived"
  BY DEF Free
<1>3. /\ handler'[h].pc = "arrived" /\ handler'[h].req = req
      /\ \A g \in Handlers \ {h} : handler'[g] = handler[g]
  BY <1>0, <1>1, <1>2 DEF HandlerType
<1>4. SpoolInv'
  BY <1>1, SpoolFrame DEF SettleInv
<1>5. AckInv'
  BY <1>1, <1>3 DEF SettleInv, AckInv
<1>6. Grows
  BY <1>1 DEF Grows, Settled
<1>7. CollectInv'
  BY <1>1, <1>3, <1>6, CollectFrame DEF SettleInv
<1> QED BY <1>4, <1>5, <1>7 DEF SettleInv

(* Handlers that change neither receipts nor executions. *)
LEMMA SettleReplies ==
  ASSUME LedgerInv, SettleInv, NEW h \in Handlers,
         Replay(h) \/ Refuse(h) \/ FrameFull(h) \/ Install(h) \/ AckAgain(h) \/ AckRefused(h)
  PROVE  SettleInv'
<1>1. UNCHANGED <<receipt, receiptBack, execs, claim>> /\ handler[h].pc # "free"
  BY DEF Replay, Refuse, FrameFull, Install, AckAgain, AckRefused, ledgerVars, historyVars, Serving
<1>2. Grows
  BY <1>1 DEF Grows, Settled
<1>3. /\ UNCHANGED <<spoolVars, todo, req>>
      /\ stage' \in {"send", "wait", "answer"} => stage \in {"send", "wait", "answer"}
      /\ \A g \in Handlers \ {h} : handler'[g] = handler[g]
      /\ \/ handler'[h] = Free
         \/ handler'[h].pc = "share" /\ handler'[h].req = handler[h].req
  <2>1. CASE Replay(h)
    BY <1>1, <2>1, AuthorizeKeeps DEF Replay
  <2>2. CASE Refuse(h) \/ FrameFull(h) \/ AckRefused(h)
    BY <2>2, RespondKeeps DEF Refuse, FrameFull, AckRefused
  <2>3. CASE Install(h) \/ AckAgain(h)
    BY <2>3, RespondKeeps DEF Install, AckAgain
  <2> QED BY <2>1, <2>2, <2>3
<1>4. \A g \in Handlers : handler'[g].pc = "run" => handler'[g] = handler[g]
  BY <1>3 DEF Free
<1>5. CollectInv'
  BY <1>1, <1>2, <1>4, CollectFrame DEF SettleInv
<1>6. \A g \in Handlers : handler'[g].pc # "free" =>
        handler[g].pc # "free" /\ handler'[g].req = handler[g].req
  BY <1>1, <1>3 DEF Free
<1> QED BY <1>1, <1>3, <1>5, <1>6, SettleHandler

(* A persist call adds nothing to what a receipt may be but what it is. *)
LEMMA PersistNone ==
  ASSUME Persisted \/ NotPersisted, NEW r \in Revs, "none" \in receiptBack'[r]
  PROVE  "none" \in receiptBack[r] \/ receipt'[r] = "none"
<1>1. CASE Persisted
  BY <1>1 DEF Persisted
<1>2. CASE NotPersisted
  BY <1>2 DEF NotPersisted
<1> QED BY <1>1, <1>2

LEMMA SettleShare ==
  ASSUME LedgerInv, SettleInv, NEW h \in Handlers, Share(h)
  PROVE  SettleInv'
<1>1. /\ UNCHANGED <<receipt, execs, claim>> /\ handler[h].pc # "free"
      /\ Persisted \/ NotPersisted
  BY DEF Share, historyVars, Serving
<1>2. Grows
  BY <1>1 DEF Grows, Settled
<1>3. /\ UNCHANGED <<spoolVars, todo, req>>
      /\ stage' \in {"send", "wait", "answer"} => stage \in {"send", "wait", "answer"}
      /\ \A g \in Handlers \ {h} : handler'[g] = handler[g]
      /\ \/ handler'[h] = Free
         \/ handler'[h].pc = "install" /\ handler'[h].req = handler[h].req
  <2>1. CASE handler' = [handler EXCEPT ![h].pc = "install"] /\ UNCHANGED originVars
    BY <1>1, <2>1, AdvancePcKeeps
  <2>2. CASE Respond(h, FALSE, "none")
    BY <2>2, RespondKeeps
  <2> QED BY <2>1, <2>2 DEF Share
<1>4. \A g \in Handlers : handler'[g].pc = "run" => handler'[g] = handler[g]
  BY <1>3 DEF Free
<1>5. CollectInv'
  BY <1>1, <1>2, <1>4, PersistNone, CollectFrame DEF SettleInv
<1>6. \A g \in Handlers : handler'[g].pc # "free" =>
        handler[g].pc # "free" /\ handler'[g].req = handler[g].req
  BY <1>1, <1>3 DEF Free
<1> QED BY <1>1, <1>3, <1>5, <1>6, SettleHandler

LEMMA SettleFinalize ==
  ASSUME LedgerInv, SettleInv, NEW h \in Handlers, Finalize(h)
  PROVE  SettleInv'
<1> DEFINE d == handler[h].decision
<1>0. SovereignType /\ ResultInv
  BY DEF LedgerInv, TypeOK
<1>1. /\ UNCHANGED <<execs, claim>> /\ handler[h].pc = "ran"
      /\ Persisted \/ NotPersisted
      /\ receipt' \in {receipt, [receipt EXCEPT ![handler[h].req.rev] = d]}
      /\ Authorize(h, d) \/ Respond(h, FALSE, "none")
  BY DEF Finalize, historyVars, Serving
<1>2. d \in Decisions /\ d # "none" /\ handler[h].req.rev \in Revs
  BY <1>0, <1>1, HandlerRev, MeshConstants DEF ResultInv
<1>3. /\ UNCHANGED <<spoolVars, todo, req>>
      /\ stage' \in {"send", "wait", "answer"} => stage \in {"send", "wait", "answer"}
      /\ \A g \in Handlers \ {h} : handler'[g] = handler[g]
      /\ \/ handler'[h] = Free
         \/ handler'[h].pc = "share" /\ handler'[h].req = handler[h].req
  BY <1>1, <1>2, AuthorizeKeeps, RespondKeeps
<1> HIDE DEF d
<1>4. \A r \in Revs : receipt'[r] = "none" => receipt[r] = "none"
  BY <1>0, <1>1, <1>2 DEF SovereignType
<1>5. Grows
  BY <1>1 DEF Grows, Settled
<1>6. \A g \in Handlers : handler'[g].pc = "run" => handler'[g] = handler[g]
  BY <1>3 DEF Free
<1>7. CollectInv'
  BY <1>1, <1>4, <1>5, <1>6, PersistNone, CollectFrame DEF SettleInv
<1>8. \A g \in Handlers : handler'[g].pc # "free" =>
        handler[g].pc # "free" /\ handler'[g].req = handler[g].req
  BY <1>1, <1>3 DEF Free
<1> QED BY <1>1, <1>3, <1>7, <1>8, SettleHandler

(* The event is dispatched behind a receipt that no restart takes back. *)
LEMMA SettleDispatch ==
  ASSUME LedgerInv, SettleInv, NEW h \in Handlers, Dispatch(h)
  PROVE  SettleInv'
<1> DEFINE r == handler[h].req.rev
<1>0. HistoryType /\ CollectInv
  BY DEF LedgerInv, TypeOK, SettleInv
<1>a. /\ UNCHANGED <<originVars, receipt, receiptBack, claim>> /\ handler[h].pc = "run"
      /\ execs' = [execs EXCEPT ![r] = @ + 1]
  BY DEF Dispatch, ledgerVars, Serving
<1>b. \E d \in Decisions : handler' = [handler EXCEPT ![h].pc = "ran", ![h].decision = d]
  BY Zenon DEF Dispatch
<1>1. /\ UNCHANGED <<originVars, receipt, receiptBack, claim>> /\ handler[h].pc = "run"
      /\ execs' = [execs EXCEPT ![r] = @ + 1]
      /\ \E d \in Decisions : handler' = [handler EXCEPT ![h].pc = "ran", ![h].decision = d]
  BY <1>a, <1>b
<1>2. /\ UNCHANGED <<spoolVars, todo, req, stage>>
      /\ handler'[h].pc = "ran" /\ handler'[h].req = handler[h].req
      /\ \A g \in Handlers \ {h} : handler'[g] = handler[g]
  <2>1. PICK d \in Decisions : handler' = [handler EXCEPT ![h].pc = "ran", ![h].decision = d]
    BY <1>b
  <2>2. handler[h].pc # "free" /\ UNCHANGED originVars
    BY <1>a
  <2> QED BY <2>1, <2>2, AdvanceKeeps
<1>3. \A q \in Revs \ {r} : execs'[q] = execs[q]
  BY <1>0, <1>1 DEF HistoryType
<1>4. "none" \notin receiptBack[r] \cup {receipt[r]}
  BY <1>0, <1>1, HandlerRev DEF CollectInv
<1>5. CollectInv'
  <2> SUFFICES ASSUME NEW q \in Revs, "none" \in receiptBack'[q] \cup {receipt'[q]}
               PROVE  /\ execs'[q] > 0 => Settled(q, claim')
                      /\ \A g \in Handlers : handler'[g].pc = "run" => handler'[g].req.rev # q
    BY DEF CollectInv
  <2>1. q # r /\ "none" \in receiptBack[q] \cup {receipt[q]}
    BY <1>1, <1>4
  <2>2. execs'[q] > 0 => Settled(q, claim')
    BY <1>0, <1>1, <1>3, <2>1 DEF CollectInv
  <2>3. \A g \in Handlers : handler'[g].pc = "run" => handler'[g].req.rev # q
    BY <1>0, <1>2, <2>1 DEF CollectInv
  <2> QED BY <2>2, <2>3
<1>6. \A g \in Handlers : handler'[g].pc # "free" =>
        handler[g].pc # "free" /\ handler'[g].req = handler[g].req
  BY <1>1, <1>2
<1> QED BY <1>1, <1>2, <1>5, <1>6, SettleHandler

(* prepareMeshProposalReplay writes the receipt first. *)
LEMMA SettlePrepare ==
  ASSUME LedgerInv, SettleInv, NEW h \in Handlers, Prepare(h)
  PROVE  SettleInv'
<1> DEFINE r == handler[h].req.rev
<1>0. SovereignType /\ ExecInv /\ CollectInv
  BY DEF LedgerInv, TypeOK, SettleInv
<1>1. /\ UNCHANGED <<execs, claim>> /\ handler[h].pc = "arrived" /\ ~live
      /\ receipt' = [receipt EXCEPT ![r] = "executing"]
  BY DEF Prepare, historyVars, Serving, Admissible
<1>2. r \in Revs /\ Grows
  BY <1>1, HandlerRev DEF Grows, Settled
<1>3. \A q \in Revs : receipt'[q] = IF q = r THEN "executing" ELSE receipt[q]
  BY <1>0, <1>1 DEF SovereignType
<1>4. \A g \in Handlers : handler[g].pc # "run"
  BY <1>0, <1>1 DEF ExecInv, Running
<1>5. CASE Persisted /\ handler' = [handler EXCEPT ![h].pc = "run"] /\ UNCHANGED originVars
  <2>1. /\ UNCHANGED <<spoolVars, todo, req, stage>>
        /\ handler'[h].pc = "run" /\ handler'[h].req = handler[h].req
        /\ \A g \in Handlers \ {h} : handler'[g] = handler[g]
    BY <1>1, <1>5, AdvancePcKeeps
  <2>2. \A q \in Revs : receiptBack'[q] = {receipt'[q]}
    BY <1>5 DEF Persisted
  <2>3. CollectInv'
    <3> SUFFICES ASSUME NEW q \in Revs, "none" \in receiptBack'[q] \cup {receipt'[q]}
                 PROVE  /\ execs'[q] > 0 => Settled(q, claim')
                        /\ \A g \in Handlers : handler'[g].pc = "run" => handler'[g].req.rev # q
      BY DEF CollectInv
    <3>1. q # r /\ receipt[q] = "none"
      BY <1>3, <2>2
    <3>2. execs'[q] > 0 => Settled(q, claim')
      BY <1>0, <1>1, <3>1 DEF CollectInv
    <3>3. \A g \in Handlers : handler'[g].pc = "run" => handler'[g].req.rev # q
      BY <1>4, <2>1, <3>1
    <3> QED BY <3>2, <3>3
  <2>4. \A g \in Handlers : handler'[g].pc # "free" =>
          handler[g].pc # "free" /\ handler'[g].req = handler[g].req
    BY <1>1, <2>1
  <2> QED BY <1>1, <2>1, <2>3, <2>4, SettleHandler
<1>6. CASE NotPersisted /\ Respond(h, FALSE, "none")
  <2>1. /\ UNCHANGED <<spoolVars, todo, req>>
        /\ stage' \in {"send", "wait", "answer"} => stage \in {"send", "wait", "answer"}
        /\ \A g \in Handlers : handler'[g] = IF g = h THEN Free ELSE handler[g]
    BY <1>6, RespondKeeps
  <2>2. \A q \in Revs : receipt'[q] = "none" => receipt[q] = "none"
    BY <1>3
  <2>3. CollectInv'
    BY <1>0, <1>1, <1>2, <1>6, <2>1, <2>2, PersistNone, CollectFrame DEF Free
  <2>4. \A g \in Handlers : handler'[g].pc # "free" =>
          handler[g].pc # "free" /\ handler'[g].req = handler[g].req
    BY <2>1 DEF Free
  <2> QED BY <1>1, <2>1, <2>3, <2>4, SettleHandler
<1> QED BY <1>5, <1>6 DEF Prepare

(* ackMeshProposalReplay collects the receipt of a settled revision. *)
LEMMA SettleAcknowledge ==
  ASSUME LedgerInv, SettleInv, NEW h \in Handlers, Acknowledge(h)
  PROVE  SettleInv'
<1> DEFINE r == handler[h].req.rev
<1>0. SovereignType /\ ExecInv /\ ResultInv /\ CollectInv /\ AckInv
  BY DEF LedgerInv, TypeOK, SettleInv
<1>1. /\ UNCHANGED <<execs, claim>> /\ handler[h].pc = "arrived"
      /\ handler[h].req.op = "ack" /\ receipt[r] \in Decisions
      /\ \E ok \in BOOLEAN : Respond(h, ok, "none")
      /\ receipt' \in {receipt, [receipt EXCEPT ![r] = "none"]}
      /\ \/ Persisted \/ NotPersisted
         \/ receiptBack' = [q \in Revs |-> {receipt[q], receipt'[q]}]
  BY DEF Acknowledge, historyVars, Serving
<1>2. r \in Revs /\ Settled(r, claim)
  <2>1. handler[h].req \in Requests /\ r \in Revs
    BY <1>1, HandlerRev
  <2> QED BY <1>0, <1>1, <2>1 DEF AckInv, Backed
<1>3. /\ UNCHANGED <<spoolVars, todo, req>>
      /\ stage' \in {"send", "wait", "answer"} => stage \in {"send", "wait", "answer"}
      /\ \A g \in Handlers : handler'[g] = IF g = h THEN Free ELSE handler[g]
  BY <1>1, RespondKeeps
<1>4. \A q \in Revs \ {r} : receipt'[q] = receipt[q]
  BY <1>0, <1>1 DEF SovereignType
<1>5. \A q \in Revs \ {r} : "none" \in receiptBack'[q] \cup {receipt'[q]} =>
        "none" \in receiptBack[q] \cup {receipt[q]}
  BY <1>1, <1>4, PersistNone
<1>6. execs[r] = 1
  BY <1>0, <1>1, <1>2 DEF ResultInv, Outcome
<1>7. \A g \in Handlers : handler[g].pc = "run" => handler[g].req.rev # r
  BY <1>0, <1>6 DEF ExecInv, Running
<1>8. CollectInv'
  <2> SUFFICES ASSUME NEW q \in Revs, "none" \in receiptBack'[q] \cup {receipt'[q]}
               PROVE  /\ execs'[q] > 0 => Settled(q, claim')
                      /\ \A g \in Handlers : handler'[g].pc = "run" => handler'[g].req.rev # q
    BY DEF CollectInv
  <2>1. CASE q = r
    BY <1>1, <1>2, <1>3, <1>7, <2>1 DEF Free
  <2>2. CASE q # r
    BY <1>0, <1>1, <1>3, <1>5, <2>2 DEF CollectInv, Free
  <2> QED BY <2>1, <2>2
<1>9. \A g \in Handlers : handler'[g].pc # "free" =>
        handler[g].pc # "free" /\ handler'[g].req = handler[g].req
  BY <1>3 DEF Free
<1> QED BY <1>1, <1>3, <1>8, <1>9, SettleHandler

LEMMA SettleBackground ==
  ASSUME LedgerInv, SettleInv, BackgroundPersist
  PROVE  SettleInv'
<1>1. /\ UNCHANGED <<journal, spool, todo, req, stage, handler, receipt, execs, claim>>
      /\ spoolBack' \in {{spool}, spoolBack}
      /\ Persisted \/ receiptBack' = receiptBack
  BY DEF BackgroundPersist, callVars, historyVars
<1>2. SpoolInv'
  BY <1>1 DEF SettleInv, SpoolInv
<1>3. AckInv'
  BY <1>1 DEF SettleInv, AckInv
<1>4. Grows
  BY <1>1 DEF Grows, Settled
<1>5. CollectInv'
  BY <1>1, <1>4, PersistNone, CollectFrame DEF SettleInv
<1> QED BY <1>2, <1>3, <1>5 DEF SettleInv

LEMMA SettleSovereignRestart ==
  ASSUME LedgerInv, SettleInv, SovereignRestart
  PROVE  SettleInv'
<1>1. /\ UNCHANGED <<spoolVars, todo, req, stage, execs, claim>>
      /\ \A r \in Revs : receipt'[r] \in receiptBack[r]
      /\ Persisted /\ handler' = [h \in Handlers |-> Free]
  BY DEF SovereignRestart, historyVars
<1>2. Grows
  BY <1>1 DEF Grows, Settled
<1>3. CollectInv'
  BY <1>1, <1>2, PersistNone, CollectFrame DEF SettleInv, Free
<1> QED BY <1>1, <1>3, SettleHandler DEF Free

LEMMA SettleNext == LedgerInv /\ SettleInv /\ [Next]_vars => SettleInv'
<1> SUFFICES ASSUME LedgerInv, SettleInv, [Next]_vars PROVE SettleInv'
  OBVIOUS
<1>1. CASE Edit \/ Origin
  BY <1>1, SettleOriginQuiet, SettlePropose, SettleProposalAnswered, SettleAckAnswered DEF Origin
<1>2. ASSUME NEW h \in Handlers, Send(h) \/ Handle(h) PROVE SettleInv'
  BY <1>2, SettleSend, SettlePrepare, SettleReplies, SettleDispatch, SettleFinalize,
     SettleShare, SettleAcknowledge DEF Handle
<1>3. CASE BackgroundPersist \/ OriginRestart \/ SovereignRestart
  BY <1>3, SettleBackground, SettleOriginRestart, SettleSovereignRestart
<1>4. CASE UNCHANGED vars
  <2> USE <1>4 DEF vars, originVars, spoolVars, callVars, sovereignVars, ledgerVars, historyVars
  <2>1. SpoolInv' /\ AckInv'
    BY DEF SettleInv, SpoolInv, AckInv
  <2>2. CollectInv'
    BY DEF SettleInv, CollectInv
  <2> QED BY <2>1, <2>2 DEF SettleInv
<1> QED BY <1>1, <1>2, <1>3, <1>4 DEF Next

(* The inductive invariant of the spool and the receipts together: every   *)
(* ACK in use, on its way or being served is of a settled proposal.        *)
THEOREM SettleInvariant == Spec => []SettleInv
BY SettleInit, SettleNext, LedgerInvariant, PTL DEF Spec

(* mesh_journal_runtime.go: once the spool entry of a proposal has become  *)
(* an ACK, no restart of the origin brings the proposal back.              *)
THEOREM SettledStaysSettled == Spec => []NeverResurrected
<1>1. SettleInv => NeverResurrected
  BY DEF SettleInv, SpoolInv, Sound, NeverResurrected
<1> QED BY <1>1, SettleInvariant, PTL

(* ackMeshProposalReplay deletes a receipt only when the origin has        *)
(* durably settled the proposal, also across restarts of the sovereign.    *)
THEOREM ReceiptsOutlast == Spec => []CollectedIsSettled
<1>1. SettleInv => CollectedIsSettled
  BY DEF SettleInv, CollectInv, CollectedIsSettled, Settled
<1> QED BY <1>1, SettleInvariant, PTL
============================================================================
