----------------------------- MODULE PrimitiveVM -----------------------------
(***************************************************************************)
(* The interpreter (Engine.run and execPrimitive in kernel.go), the        *)
(* resource budgets and physical ceilings it enforces (resource_runtime.go,*)
(* physical_limits_runtime.go, security_runtime.go) and the events that    *)
(* programs raise and other programs handle (event_runtime.go).            *)
(*                                                                         *)
(* A run executes a copy of its Memory's program in a Frame that it shares *)
(* with its caller, with the handlers of the events it raises and with the *)
(* programs it calls, unless these get a Frame of their own.  Errors       *)
(* unwind the Go stack, which is modelled item by item.                    *)
(*                                                                         *)
(* Values are 0 (empty, false) and 1.  Bytes are counted coarsely: a name  *)
(* is one, a value that is not empty is one, an operation of a program is  *)
(* one.  The many primitives that compute one value are all "set"; those   *)
(* that grow a record are "grow", and so on: the groups are named at their *)
(* actions.                                                                *)
(* A Frame that is shared is passed along: to the callee when it is pushed,*)
(* and back with its answer (back).  An item that waits shows its Frame as *)
(* it was when it was left.                                                *)
(* Handlers that the scheduler runs in parallel have private Frames and    *)
(* transactions (module Transactions); here they run one after another.    *)
(***************************************************************************)
EXTENDS Integers, Sequences, SequencesExt, FiniteSets

CONSTANTS
  N,            \* Memory ids are 1..N
  Operations,   \* what programs are made of
  Events,       \* names of events
  Library,      \* id -> the records it may have at the start
  Entries,      \* events raised and programs run from outside
  MaxProgram,   \* programMaxOps, programMaxBytes
  MaxRecord,    \* memoryRecordMaxBytes
  MaxVars,      \* frameVarMaxItems
  MaxBytes,     \* frameVarMaxBytes
  MaxList,      \* frameListMaxItems
  MaxEventVars, \* physicalEventVarMaxItems
  MaxEventBytes, \* physicalEventVarMaxBytes
  MaxDepth,     \* depth of nested events (64)
  Batch,        \* eventDispatchBatchSize
  MaxStack,     \* bound: the Go stack; beyond it the process dies
  MaxCalls,     \* bound: calls from outside
  None

VARIABLES
  mem,      \* id -> record
  stack,    \* runs, transactions and event dispatches, innermost last
  ret,      \* what the call that has just returned answers; "none" while running
  back,     \* the Frame that it leaves
  seq,      \* physicalEventSequence
  calls,    \* calls from outside so far
  crashed   \* the Go stack has overflowed

vars == <<mem, stack, ret, back, seq, calls, crashed>>

Ids == 1..N
Empty == [k \in {} |-> 0]

(* Op, with the arguments the model gives each code. *)
Op(code) == [code |-> code, id |-> 0, key |-> None, val |-> 0, from |-> 0, cond |-> None,
             ev |-> None, vars |-> {}]

Budgets == [ops : Nat, writes : Nat, events : Nat, time : BOOLEAN]

Programs == {p \in Seq(Operations) : Len(p) <= MaxProgram}

(* Memory; "unborn" before the id is given away.  size are the bytes of   *)
(* the record without its program.                                        *)
Records == [prog : Programs, size : 0..MaxRecord, trig : Events \cup {None},
            caps : BOOLEAN, life : {"unborn", "live", "gone"}, budget : Budgets]

ASSUME VMAssumption ==
  /\ {N, MaxProgram, MaxRecord, MaxVars, MaxBytes, MaxList, MaxEventVars, MaxEventBytes,
      MaxDepth, MaxStack, MaxCalls} \subseteq Nat
  /\ Batch \in Nat \ {0}
  /\ None \notin Nat

(* What is there at the start is within the ceilings. *)
ASSUME LibraryAssumption ==
  /\ \A id \in Ids : Library[id] \subseteq Records
  /\ \A e \in Entries : e.kind # "run" => IsFiniteSet(DOMAIN e.vars)

(* An isolated call keeps no more variables than a Frame holds: the code  *)
(* leaves that to the program.                                            *)
ASSUME KeptAssumption ==
  \A op \in Operations : IsFiniteSet(op.vars) /\ Cardinality(op.vars) <= MaxVars

----------------------------------------------------------------------------
(* Frames *)

NewFrame == [vars |-> Empty, meta |-> None, mirror |-> Empty, depth |-> None,
             canonical |-> FALSE, list |-> 0, scope |-> None]

(* Keys of f.Vars: a program's variables; __event, __event_id, __subject; *)
(* __event.<key>; __event_depth; __txn_canonical.                         *)
Size(f) == Cardinality(DOMAIN f.vars) + (IF f.meta = None THEN 0 ELSE 3)
           + Cardinality(DOMAIN f.mirror) + (IF f.depth = None THEN 0 ELSE 1)
           + (IF f.canonical THEN 1 ELSE 0)

Get(f, k) == IF k \in DOMAIN f.vars THEN f.vars[k] ELSE 0

(* The variables vs with the new ones over them. *)
Over(new, vs) ==
  [k \in DOMAIN vs \cup DOMAIN new |-> IF k \in DOMAIN new THEN new[k] ELSE vs[k]]

Set(f, k, v) == [f EXCEPT !.vars = Over([j \in {k} |-> v], @)]

Filled(vs) == Cardinality({k \in DOMAIN vs : vs[k] # 0})
Bytes(f) == Size(f) + Filled(f.vars) + Filled(f.mirror)

(* ensureFrameVarWriteWithinPhysicalLimit; an optional result without a   *)
(* key is not written.                                                    *)
Place(f, k) == k \in DOMAIN f.vars \/ Size(f) < MaxVars
Room(f, k, v) == Place(f, k) /\ Bytes(Set(f, k, v)) <= MaxBytes
Fits(f, k, v) == k = None \/ Room(f, k, v)
SetIf(f, k, v) == IF k = None THEN f ELSE Set(f, k, v)

(* frameVarsWithEventCandidate *)
Applied(f, ev) ==
  [f EXCEPT !.vars = Over(ev.vars, @), !.meta = ev.id, !.mirror = Over(ev.vars, @)]

(* ensureFrameVarsWithinPhysicalLimit *)
InCount(f) == Size(f) <= MaxVars
Within(f) == InCount(f) /\ Bytes(f) <= MaxBytes

----------------------------------------------------------------------------
(* The stack *)

Top == Last(stack)
F == Top.f
SetTop(item) == [stack EXCEPT ![Len(stack)] = item]

Live(id) == id \in Ids /\ mem[id].life = "live"

(* resolveExecutable *)
Executable(id) == Live(id) /\ (mem[id].prog # <<>> \/ mem[id].trig # None)

(* enterFrameResourceScope *)
Scoped(f, id) == [f EXCEPT !.scope = [writes |-> 0, events |-> 0, max |-> mem[id].budget]]

Run(id, f) ==
  [kind |-> "run", id |-> id, prog |-> mem[id].prog, pc |-> 1, ops |-> 0,
   budget |-> mem[id].budget, caps |-> mem[id].caps, prev |-> f.scope,
   meta |-> f.meta, mirror |-> f.mirror, wrote |-> 0, fired |-> 0, f |-> Scoped(f, id)]

(* The process runs out of stack. *)
Overflow == crashed' = TRUE /\ stack' = <<>> /\ ret' = "none" /\ back' = None

(* A run of id with Frame f is pushed on the items st. *)
Push(id, st, f) ==
  IF Len(st) >= MaxStack THEN Overflow
  ELSE /\ stack' = Append(st, Run(id, f))
       /\ ret' = "none" /\ back' = None
       /\ UNCHANGED crashed

(* Mutant of Exit: the caller's resource scope is not restored. *)
ExitUnscoped(answer, f) ==
  /\ stack' = Front(stack)
  /\ ret' = answer /\ back' = f
  /\ UNCHANGED crashed

(* The run at the top returns with the Frame f: its resource scope is     *)
(* left.                                                                  *)
Exit(answer, f) ==
  /\ stack' = Front(stack)
  /\ ret' = answer /\ back' = [f EXCEPT !.scope = Top.prev]
  /\ UNCHANGED crashed

----------------------------------------------------------------------------
(* Engine.run: what comes before and after a primitive *)

Writing == {"grow", "new", "delete", "splice", "cut"}
Privileged == Writing \cup {"emit_event"}

Running == stack # <<>> /\ Top.kind = "run" /\ ret = "none"
AtOp == Running /\ Top.pc <= Len(Top.prog)
Cur == Top.prog[Top.pc]

(* checkPrimitiveCapability, checkResourceBudgetBeforePrimitive *)
Allowed ==
  /\ Cur.code \in Privileged => Top.caps
  /\ Top.budget.ops > 0 => Top.ops < Top.budget.ops
  /\ Cur.code \in Writing /\ F.scope.max.writes > 0 => F.scope.writes < F.scope.max.writes
  /\ Cur.code = "emit_event" /\ F.scope.max.events > 0 =>
       F.scope.events < F.scope.max.events

Refuse == AtOp /\ ~Allowed /\ Exit("error", F) /\ UNCHANGED <<mem, seq, calls>>

(* The time or the memory a run may use is spent, before or after any of  *)
(* its primitives.                                                        *)
OverBudget ==
  /\ Running /\ Top.budget.time /\ Top.prog # <<>>
  /\ Exit("error", F)
  /\ UNCHANGED <<mem, seq, calls>>

Finish ==
  /\ Running /\ Top.pc > Len(Top.prog)
  /\ Exit("ok", F)
  /\ UNCHANGED <<mem, seq, calls>>

Is(code) == AtOp /\ Allowed /\ Cur.code = code

(* The reservation of a write or an event is made before the primitive.   *)
Reserved(f) ==
  [f EXCEPT !.scope.writes = @ + (IF Cur.code \in Writing THEN 1 ELSE 0),
            !.scope.events = @ + (IF Cur.code = "emit_event" THEN 1 ELSE 0)]

(* Mutant of Counted: operations are counted by their position. *)
CountedByPosition(pc, f) ==
  [Top EXCEPT !.pc = pc, !.ops = Top.pc, !.f = Reserved(f),
              !.wrote = @ + (IF Cur.code \in Writing THEN 1 ELSE 0),
              !.fired = @ + (IF Cur.code = "emit_event" THEN 1 ELSE 0)]

(* The run at the top with its primitive counted, at pc with the Frame f. *)
Counted(pc, f) ==
  [Top EXCEPT !.pc = pc, !.ops = @ + 1, !.f = Reserved(f),
              !.wrote = @ + (IF Cur.code \in Writing THEN 1 ELSE 0),
              !.fired = @ + (IF Cur.code = "emit_event" THEN 1 ELSE 0)]

(* The primitive succeeds with the Frame f, and the run goes on at pc. *)
Goto(pc, f) == stack' = SetTop(Counted(pc, f)) /\ UNCHANGED <<ret, back, crashed>>

Continue(f) == Goto(Top.pc + 1, f)

Fail == Exit("error", F) /\ UNCHANGED mem

----------------------------------------------------------------------------
(* execPrimitive: data and control *)

(* set, copy, var_*, num_*, cmp_*, str_*, ...: one bounded result. *)
SetVar ==
  /\ Is("set")
  /\ IF Room(F, Cur.key, Cur.val)
     THEN Continue(Set(F, Cur.key, Cur.val)) /\ UNCHANGED mem
     ELSE Fail
  /\ UNCHANGED <<seq, calls>>

(* list_append, list_unique_append, utf8_bytes, json_array_strings,       *)
(* regex_all, ...: a list within its ceiling, then its count; the list    *)
(* stays when there is no room for the count.                             *)
ListAppend ==
  LET f == [F EXCEPT !.list = @ + 1] IN
  /\ Is("list_append")
  /\ IF F.list >= MaxList THEN Exit("error", F)
     ELSE IF Room(f, Cur.key, 1) THEN Continue(Set(f, Cur.key, 1))
     ELSE Exit("error", f)
  /\ UNCHANGED <<mem, seq, calls>>

(* state_get, state_has, state_list_len, state_list_get, ...: a result     *)
(* from a record that must resolve.                                       *)
Read ==
  LET v == IF mem[Cur.id].size = 0 THEN 0 ELSE 1 IN
  /\ Is("read")
  /\ IF Live(Cur.id) /\ Room(F, Cur.key, v)
     THEN Continue(Set(F, Cur.key, v)) /\ UNCHANGED mem
     ELSE Fail
  /\ UNCHANGED <<seq, calls>>

(* memory_refs, tag_list, ...: a list as long as the record makes it; the *)
(* ceiling on lists is not consulted.                                     *)
ReadList ==
  /\ Is("read_list")
  /\ IF Live(Cur.id)
     THEN Continue([F EXCEPT !.list = mem[Cur.id].size]) /\ UNCHANGED mem
     ELSE Fail
  /\ UNCHANGED <<seq, calls>>

(* url_parse, json_get, json_keys, regex_first, ...: input that may not   *)
(* parse.                                                                 *)
Parse ==
  /\ Is("parse")
  /\ \/ Room(F, Cur.key, 1) /\ Continue(Set(F, Cur.key, 1)) /\ UNCHANGED mem
     \/ Fail
  /\ UNCHANGED <<seq, calls>>

(* The position of a label in the copy that is being run; the last one of *)
(* that name.                                                             *)
Labels(key) == {i \in 1..Len(Top.prog) : Top.prog[i].code = "label" /\ Top.prog[i].key = key}
Label(key) == CHOOSE i \in Labels(key) : \A j \in Labels(key) : j <= i

Jump ==
  /\ Is("jump") \/ Is("jump_if")
  /\ IF Cur.code = "jump_if" /\ Get(F, Cur.cond) = 0 THEN Continue(F) /\ UNCHANGED mem
     ELSE IF Labels(Cur.key) = {} THEN Fail
     ELSE Goto(Label(Cur.key), F) /\ UNCHANGED mem
  /\ UNCHANGED <<seq, calls>>

LabelOp == Is("label") /\ Continue(F) /\ UNCHANGED <<mem, seq, calls>>

(* halt goes to the end of the record's program as it is now, which need  *)
(* not be the program that is being run.                                  *)
Halt ==
  /\ Is("halt")
  /\ Goto(Len(mem[Top.id].prog) + 1, F)
  /\ UNCHANGED <<mem, seq, calls>>

(* An index out of range, an unknown code. *)
Bad == Is("bad") /\ Fail /\ UNCHANGED <<seq, calls>>

----------------------------------------------------------------------------
(* execPrimitive: Memory records.  Everything that can fail is checked    *)
(* before the record is changed: the result variable first.               *)

(* ensureMemoryRecordWithinPhysicalLimit measures the record with its     *)
(* program.                                                               *)
RecordBytes(r) == r.size + Len(r.prog)

(* Mutant of Grow: the result variable is checked last, by its setter. *)
GrowFirst ==
  /\ Is("grow")
  /\ LET grown == Live(Cur.id) /\ RecordBytes(mem[Cur.id]) < MaxRecord IN
     /\ mem' = IF grown THEN [mem EXCEPT ![Cur.id].size = @ + 1] ELSE mem
     /\ IF grown /\ Fits(F, Cur.key, 1) THEN Continue(SetIf(F, Cur.key, 1)) ELSE Exit("error", F)
  /\ UNCHANGED <<seq, calls>>

(* state_set, state_num_add, state_list_append, state_list_unique_append, *)
(* memory_history_append, memory_tag_add: a candidate within the record   *)
(* ceiling replaces the record.                                           *)
Grow ==
  /\ Is("grow")
  /\ IF Live(Cur.id) /\ Fits(F, Cur.key, 1) /\ RecordBytes(mem[Cur.id]) < MaxRecord
     THEN /\ mem' = [mem EXCEPT ![Cur.id].size = @ + 1]
          /\ Continue(SetIf(F, Cur.key, 1))
     ELSE Fail
  /\ UNCHANGED <<seq, calls>>

(* memory_new, memory_copy: nextID, result variable, placement (which     *)
(* measures the record and may find no room).                             *)
New ==
  /\ Is("new")
  /\ \/ \E id \in Ids :
          /\ mem[id].life = "unborn"
          /\ Fits(F, Cur.key, 1)
          /\ Cur.id # 0 => Live(Cur.id) /\ RecordBytes(mem[Cur.id]) <= MaxRecord
          /\ mem' = [mem EXCEPT ![id] =
                       IF Cur.id = 0
                       THEN [prog |-> <<>>, size |-> 0, trig |-> None, caps |-> FALSE,
                             life |-> "live",
                             budget |-> [ops |-> 0, writes |-> 0, events |-> 0,
                                         time |-> FALSE]]
                       ELSE mem[Cur.id]]
          /\ Continue(SetIf(F, Cur.key, 1))
     \/ Fail
  /\ UNCHANGED <<seq, calls>>

(* memory_delete *)
Delete ==
  /\ Is("delete")
  /\ IF Fits(F, Cur.key, 1)
     THEN /\ mem' = IF Live(Cur.id) THEN [mem EXCEPT ![Cur.id].life = "gone"] ELSE mem
          /\ Continue(SetIf(F, Cur.key, IF Live(Cur.id) THEN 1 ELSE 0))
     ELSE Fail
  /\ UNCHANGED <<seq, calls>>

(* Mutant of Splice: only the inserted fragment is measured. *)
SpliceFragment ==
  /\ Is("splice")
  /\ IF Executable(Cur.id) /\ Executable(Cur.from) /\ Len(mem[Cur.from].prog) <= MaxProgram
     THEN /\ mem' = [mem EXCEPT ![Cur.id].prog = mem[Cur.from].prog \o @]
          /\ Continue(F)
     ELSE Fail
  /\ UNCHANGED <<seq, calls>>

(* program_insert_from, program_replace_from, program_import,             *)
(* program_set_field, program_set_var_ref: a candidate program within its *)
(* own ceiling; that of the record, which it is part of, is not consulted. *)
Splice ==
  /\ Is("splice")
  /\ IF /\ Executable(Cur.id) /\ Executable(Cur.from)
        /\ Len(mem[Cur.id].prog) + Len(mem[Cur.from].prog) <= MaxProgram
     THEN /\ mem' = [mem EXCEPT ![Cur.id].prog = mem[Cur.from].prog \o @]
          /\ Continue(F)
     ELSE Fail
  /\ UNCHANGED <<seq, calls>>

(* program_delete: the first operation. *)
Cut ==
  /\ Is("cut")
  /\ IF Executable(Cur.id) /\ mem[Cur.id].prog # <<>>
     THEN mem' = [mem EXCEPT ![Cur.id].prog = Tail(@)] /\ Continue(F)
     ELSE Fail
  /\ UNCHANGED <<seq, calls>>

----------------------------------------------------------------------------
(* execPrimitive: calls.  "call" shares the Frame; the others give the    *)
(* callee one of its own with the kept variables, copied as they are      *)
(* whether set or not, and take one variable back.                        *)

Isolating == {"call_isolated", "call_try_isolated"}
Kept == [NewFrame EXCEPT !.vars = [k \in Cur.vars |-> Get(F, k)]]

Call ==
  LET waiting == Counted(Top.pc, F) IN
  /\ Is("call") \/ Is("call_isolated") \/ Is("call_try_isolated")
  /\ IF Executable(Cur.id)
     THEN Push(Cur.id, SetTop(waiting), IF Cur.code \in Isolating THEN Kept ELSE waiting.f)
     ELSE IF Cur.code = "call_try_isolated" /\ Fits(F, Cur.cond, 0)
     THEN Continue(SetIf(F, Cur.cond, 0))
     ELSE Exit("error", F)
  /\ UNCHANGED <<mem, seq, calls>>

Returned == stack # <<>> /\ Top.kind = "run" /\ ret # "none"

(* The run at the top goes on after the primitive that has called, with   *)
(* the Frame f.                                                           *)
GoOn(f) ==
  /\ stack' = SetTop([Top EXCEPT !.pc = @ + 1, !.f = f])
  /\ ret' = "none" /\ back' = None
  /\ UNCHANGED crashed

(* The call or the event of the run at the top has returned: an error is  *)
(* the run's own.                                                         *)
Resume ==
  /\ Returned /\ Cur.code \notin Isolating
  /\ IF ret = "ok" THEN GoOn(back) ELSE Exit("error", back)
  /\ UNCHANGED <<mem, seq, calls>>

(* The result variables are set one after the other; there may be no room *)
(* for them although the callee has done its work.                        *)
ResumeIsolated ==
  LET ok   == ret = "ok"
      flag == IF ok THEN 1 ELSE 0
      try  == Cur.code = "call_try_isolated"
      told == IF try THEN SetIf(F, Cur.cond, flag) ELSE F
      key  == IF ok THEN Cur.key ELSE None
      out  == Get(back, Cur.key)
      goes == (ok \/ try) /\ (try => Fits(F, Cur.cond, flag)) /\ Fits(told, key, out)
  IN  /\ Returned /\ Cur.code \in Isolating
      /\ IF goes THEN GoOn(SetIf(told, key, out)) ELSE Exit("error", F)
      /\ UNCHANGED <<mem, seq, calls>>

----------------------------------------------------------------------------
(* txnScheduler.run, as far as a caller can tell (module Transactions): a *)
(* run on a copy of the Frame that succeeds or leaves nothing, or one on  *)
(* the Frame itself, which is marked.                                     *)

Txn(f, atomic) == [kind |-> "txn", atomic |-> atomic, mem |-> mem, f |-> f]

PushTxn(id, st, f, atomic) ==
  Push(id, Append(st, Txn(f, atomic)),
       IF atomic THEN [f EXCEPT !.scope = None] ELSE [f EXCEPT !.canonical = TRUE])

(* The item at the top answers and is gone; nobody waits below the last.  *)
Answer(answer, f) ==
  /\ stack' = Front(stack)
  /\ ret' = IF Len(stack) = 1 THEN "none" ELSE answer
  /\ back' = IF Len(stack) = 1 THEN None ELSE f
  /\ UNCHANGED crashed

TxnReturn ==
  LET committed == ret = "ok" /\ Within(back) IN
  /\ stack # <<>> /\ Top.kind = "txn" /\ ret # "none"
  /\ IF ~Top.atomic THEN Answer(ret, [back EXCEPT !.canonical = FALSE]) /\ UNCHANGED mem
     ELSE IF committed THEN Answer("ok", [back EXCEPT !.scope = F.scope]) /\ UNCHANGED mem
     ELSE Answer("error", F) /\ mem' = Top.mem
  /\ UNCHANGED <<seq, calls>>

InTxn == \E i \in DOMAIN stack : stack[i].kind = "txn"
Speculative == \E i \in DOMAIN stack : stack[i].kind = "txn" /\ stack[i].atomic

----------------------------------------------------------------------------
(* enqueueEvent and dispatchPhysicalEvent *)

Event(name, vs, f) ==
  [id |-> seq + 1, name |-> name, vars |-> vs,
   depth |-> IF f.depth = None THEN 0 ELSE f.depth + 1]

Enqueueable(f, ev) ==
  /\ Within(Applied(f, ev))
  /\ Cardinality(DOMAIN ev.vars) <= MaxEventVars
  /\ Cardinality(DOMAIN ev.vars) + Filled(ev.vars) <= MaxEventBytes

(* The caller's metadata and depth are kept for the return. *)
Enqueue(st, f, ev) ==
  IF Len(st) >= MaxStack THEN Overflow
  ELSE /\ stack' = Append(st,
            [kind |-> "dispatch", ev |-> ev, phase |-> "start", mode |-> "lane",
             parent |-> [meta |-> f.meta, mirror |-> f.mirror], depth |-> f.depth,
             todo |-> {}, ran |-> 0, failed |-> FALSE, branches |-> <<>>,
             base |-> f, f |-> [f EXCEPT !.depth = ev.depth]])
       /\ UNCHANGED <<ret, back, crashed>>

EmitEvent ==
  LET ev == Event(Cur.ev, [k \in Cur.vars |-> Get(F, k)], F)
      waiting == Counted(Top.pc, F)
  IN  /\ Is("emit_event")
      /\ IF Enqueueable(F, ev) THEN Enqueue(SetTop(waiting), waiting.f, ev)
         ELSE Exit("error", F)
      /\ seq' = seq + 1
      /\ UNCHANGED <<mem, calls>>

Dispatching(phase) ==
  stack # <<>> /\ Top.kind = "dispatch" /\ ret = "none" /\ Top.phase = phase

(* eventCandidateIDs, memoryMatchesPhysicalEvent; taken in the order of   *)
(* ids.                                                                    *)
Matched(ev) == {id \in Ids : Live(id) /\ mem[id].trig = ev.name /\ mem[id].prog # <<>>}

Failing(item) == [item EXCEPT !.phase = "done", !.failed = TRUE]

(* The frame may be full although enqueueEvent has found room: the depth   *)
(* has taken one place since.                                             *)
DispatchStart ==
  LET f == Applied(F, Top.ev) IN
  /\ Dispatching("start")
  /\ IF Top.ev.depth > MaxDepth \/ ~Within(f) THEN stack' = SetTop(Failing(Top))
     ELSE \E mode \in IF InTxn THEN {"lane"} ELSE {"each", "fork"} :
            /\ mode = "fork" => Cardinality(Matched(Top.ev)) > 1
            /\ stack' = SetTop([Top EXCEPT !.phase = "next", !.mode = mode, !.f = f,
                                           !.todo = Matched(Top.ev), !.base = f])
  /\ UNCHANGED <<mem, ret, back, seq, calls, crashed>>

(* A Frame of its own has no mark of the canonical lane: the scheduler is *)
(* entered again by the goroutine that holds its lock, which never comes  *)
(* back ("hung") unless the handler fails before it needs the lock.       *)
Reenters == InTxn /\ ~Speculative /\ ~F.canonical

Hang ==
  /\ Dispatching("next") /\ Top.todo # {} /\ Reenters
  /\ stack' \in {SetTop([Top EXCEPT !.phase = "hung"]),
                 SetTop([Failing(Top) EXCEPT !.ran = @ + Cardinality(Top.todo), !.todo = {}])}
  /\ UNCHANGED <<mem, ret, back, seq, calls, crashed>>

(* The next handler is done with. *)
Handled(item, failed) == [item EXCEPT !.todo = @ \ {Min(@)}, !.ran = @ + 1,
                                      !.failed = @ \/ failed]

(* One handler after the other on the event's Frame, to which the event   *)
(* is applied again; every failure is kept and the next one runs.  When   *)
(* the event does not fit any more, the others are left out.              *)
HandleSerial ==
  LET f == Applied(F, Top.ev)
      item == [Top EXCEPT !.f = f]
      id == Min(Top.todo)
  IN  /\ Dispatching("next") /\ Top.todo # {} /\ Top.mode # "fork" /\ ~Reenters
      /\ IF ~Within(f) THEN stack' = SetTop(Failing(Top)) /\ UNCHANGED <<ret, back, crashed>>
         ELSE IF ~Executable(id)
         THEN stack' = SetTop(Handled(item, TRUE)) /\ UNCHANGED <<ret, back, crashed>>
         ELSE \/ Top.mode = "lane" /\ Push(id, SetTop(item), f)
              \/ /\ Top.mode = "each"
                 /\ \E atomic \in BOOLEAN : PushTxn(id, SetTop(item), f, atomic)
      /\ UNCHANGED <<mem, seq, calls>>

(* A handler of a batch, on a copy of the Frame as it was at the start. *)
HandleFork ==
  LET id == Min(Top.todo) IN
  /\ Dispatching("next") /\ Top.todo # {} /\ Top.mode = "fork"
  /\ Len(Top.branches) < Batch
  /\ IF ~Executable(id)
     THEN /\ stack' = SetTop([Handled(Top, TRUE) EXCEPT !.branches = Append(@, Top.base)])
          /\ UNCHANGED <<ret, back, crashed>>
     ELSE \E atomic \in BOOLEAN :
            PushTxn(id, stack, [Top.base EXCEPT !.scope = None], atomic)
  /\ UNCHANGED <<mem, seq, calls>>

(* The Frame of a handler of a batch is kept for the merge; another one   *)
(* is the event's.                                                        *)
TakenBack ==
  IF Top.mode = "fork" THEN [Top EXCEPT !.branches = Append(@, back)]
  ELSE [Top EXCEPT !.f = back]

(* Mutant of HandlerReturn: the first failure ends the dispatch. *)
HandlerReturnFirst ==
  /\ stack # <<>> /\ Top.kind = "dispatch" /\ ret # "none"
  /\ stack' = SetTop([Handled(TakenBack, ret = "error") EXCEPT
                        !.phase = IF ret = "error" /\ Top.mode # "fork" THEN "done" ELSE @])
  /\ ret' = "none" /\ back' = None
  /\ UNCHANGED <<mem, seq, calls, crashed>>

HandlerReturn ==
  /\ stack # <<>> /\ Top.kind = "dispatch" /\ ret # "none"
  /\ stack' = SetTop(Handled(TakenBack, ret = "error"))
  /\ ret' = "none" /\ back' = None
  /\ UNCHANGED <<mem, seq, calls, crashed>>

(* independentEventFrameVarsCandidate, mergeIndependentEventFrameNonVars: *)
(* what the branches have changed, a later one over an earlier one, into  *)
(* the Frame.                                                             *)
Changed(branch, base) ==
  {k \in DOMAIN branch.vars : k \notin DOMAIN base.vars \/ branch.vars[k] # base.vars[k]}

Merged(f, base, branches) ==
  LET by(k) == {i \in DOMAIN branches : k \in Changed(branches[i], base)}
      lists == {i \in DOMAIN branches : branches[i].list # base.list}
  IN  [f EXCEPT
         !.vars = [k \in DOMAIN @ \cup UNION {Changed(branches[i], base) :
                                                i \in DOMAIN branches} |->
                     IF by(k) = {} THEN f.vars[k] ELSE branches[Max(by(k))].vars[k]],
         !.list = IF lists = {} THEN @ ELSE branches[Max(lists)].list]

(* All of a batch or nothing of it. *)
Merge ==
  LET f == Merged(F, Top.base, Top.branches) IN
  /\ Dispatching("next") /\ Top.branches # <<>>
  /\ Len(Top.branches) = Batch \/ Top.todo = {}
  /\ stack' = SetTop(IF Within(f) THEN [Top EXCEPT !.branches = <<>>, !.f = f]
                     ELSE [Top EXCEPT !.branches = <<>>, !.failed = TRUE])
  /\ UNCHANGED <<mem, ret, back, seq, calls, crashed>>

(* Mutant of Shown: the caller's metadata is left as the event set it. *)
ShownLast(f) == IF Top.parent.meta = None THEN Applied(f, Top.ev) ELSE f

(* What the Frame shows after enqueueEvent: the caller's metadata and its *)
(* payload, put back whatever their bytes, or the event itself when there *)
(* was none.                                                              *)
Shown(f) ==
  IF Top.parent.meta = None THEN Applied(f, Top.ev)
  ELSE [f EXCEPT !.meta = Top.parent.meta, !.mirror = Top.parent.mirror,
                 !.vars = Over(Top.parent.mirror, @)]

DispatchDone ==
  LET f    == [F EXCEPT !.depth = Top.depth]
      fits == Top.parent.meta # None \/ Within(Shown(f))
  IN  /\ stack # <<>> /\ Top.kind = "dispatch" /\ ret = "none"
      /\ \/ Top.phase = "done"
         \/ Top.phase = "next" /\ Top.todo = {} /\ Top.branches = <<>>
      /\ Answer(IF Top.failed \/ ~fits THEN "error" ELSE "ok", IF fits THEN Shown(f) ELSE f)
      /\ UNCHANGED <<mem, seq, calls>>

----------------------------------------------------------------------------
(* From outside: a program for the scheduler, or an event. *)

RunProgram(id) ==
  /\ stack = <<>> /\ ~crashed /\ calls < MaxCalls
  /\ Executable(id)
  /\ \E atomic \in BOOLEAN : PushTxn(id, <<>>, NewFrame, atomic)
  /\ calls' = calls + 1
  /\ UNCHANGED <<mem, seq>>

(* fireEvent: every variable of the Frame is the event's. *)
FireEvent(name, vs) ==
  LET f == [NewFrame EXCEPT !.vars = vs] ev == Event(name, vs, f) IN
  /\ stack = <<>> /\ ~crashed /\ calls < MaxCalls
  /\ Enqueueable(f, ev)
  /\ Enqueue(<<>>, f, ev)
  /\ seq' = seq + 1
  /\ calls' = calls + 1
  /\ UNCHANGED mem

----------------------------------------------------------------------------
Init ==
  /\ mem \in {m \in [Ids -> UNION {Library[id] : id \in Ids}] :
                \A id \in Ids : m[id] \in Library[id]}
  /\ stack = <<>> /\ ret = "none" /\ back = None
  /\ seq = 0 /\ calls = 0 /\ crashed = FALSE

Primitive ==
  \/ SetVar \/ ListAppend \/ Read \/ ReadList \/ Parse \/ Jump \/ LabelOp \/ Halt \/ Bad
  \/ Grow \/ New \/ Delete \/ Splice \/ Cut \/ Call \/ EmitEvent

Unwind == Resume \/ ResumeIsolated \/ TxnReturn

Dispatch ==
  \/ DispatchStart \/ Hang \/ HandleSerial \/ HandleFork \/ HandlerReturn
  \/ Merge \/ DispatchDone

Step == Refuse \/ OverBudget \/ Finish \/ Primitive \/ Unwind \/ Dispatch

Next ==
  \/ Step
  \/ \E e \in Entries : IF e.kind = "run" THEN RunProgram(e.id) ELSE FireEvent(e.ev, e.vars)

Spec == Init /\ [][Next]_vars

----------------------------------------------------------------------------
(* Properties *)

Runs == {i \in DOMAIN stack : stack[i].kind = "run"}

(* The ceilings of physical_limits_runtime.go, whatever sequence of       *)
(* primitives, calls and merges led here: a program is within its own, the *)
(* rest of a record within that of the record, so that a record is beyond *)
(* it by no more than its program; and a Frame has no more variables than *)
(* it may, the kernel's own marks excepted (KeptAssumption excepts        *)
(* isolated calls that keep more).                                        *)
CeilingsKept ==
  /\ \A id \in Ids : Live(id) => /\ Len(mem[id].prog) <= MaxProgram
                                 /\ mem[id].size \in 0..MaxRecord
  /\ \A i \in DOMAIN stack : LET f == stack[i].f IN
       Size(f) <= MaxVars + (IF f.depth = None THEN 0 ELSE 1) + (IF f.canonical THEN 1 ELSE 0)

(* No run makes more writes, raises more events or executes more          *)
(* operations than its own Memory's budget allows, whatever the programs  *)
(* and handlers it calls do with the Frame they share with it             *)
(* (enterFrameResourceScope).                                             *)
BudgetKept ==
  \A i \in Runs :
    LET b == stack[i].budget IN
    /\ b.ops > 0 => stack[i].ops <= b.ops
    /\ b.writes > 0 => stack[i].wrote <= b.writes
    /\ b.events > 0 => stack[i].fired <= b.events

(* A run that has an event in its Frame sees the metadata of that event   *)
(* as long as it runs, however many events it raises and whatever their   *)
(* handlers do: "physical event metadata is stack-scoped" (enqueueEvent). *)
SeesItsEvent ==
  Running /\ Top.meta # None => F.meta = Top.meta /\ F.mirror = Top.mirror

(* A primitive that fails has changed no Memory: results are checked      *)
(* before the mutation, not after it (tracker entries PR-037, PR-044).    *)
FailedChangesNothing ==
  [][(Running /\ ret' = "error") => mem' = mem]_vars

(* Once a handler of an event has run, all of them do: the failure of one *)
(* "cannot suppress unrelated handlers" (dispatchPhysicalEvent).  The one *)
(* exception is a Frame that the handlers have filled so that the event   *)
(* cannot be applied to it again; the dispatch then fails.                *)
NoHandlerSuppressed ==
  [][(Len(stack') < Len(stack) /\ ~crashed' /\ Top.kind = "dispatch") =>
       \/ Top.ran = 0 \/ Top.todo = {}
       \/ Top.failed /\ ~Within(Applied(F, Top.ev))]_vars

(* With a budget of operations for every program nothing runs for ever:   *)
(* whatever programs, handlers and edits of programs do to each other,    *)
(* a call from outside takes finitely many steps (checkResourceBudget).   *)
Ends == <>[][FALSE]_vars
=============================================================================
