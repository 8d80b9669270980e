-------------------------- MODULE PrimitiveVMProofs --------------------------
(***************************************************************************)
(* Proofs about PrimitiveVM: budgets and ceilings, the event a run sees,   *)
(* the failure of a primitive, and the handlers of an event.               *)
(*                                                                         *)
(* A Frame is passed up and down the stack, so that every property of a    *)
(* run depends on what its callees and handlers hand back.  The invariant  *)
(* says of every item what holds of it alone (ItemOK), and of every two    *)
(* adjacent ones that what the upper one would hand back is what the lower *)
(* one may get (Link, Handed): the Frame has grown, its metadata and its   *)
(* resource scope are the lower one's, and if it had no more variables     *)
(* than it may it still has not.  Of bytes nothing of the kind holds.                                                            *)
(***************************************************************************)
EXTENDS PrimitiveVM, FiniteSetTheorems, SequenceTheorems, WellFoundedInduction, TLAPS

----------------------------------------------------------------------------
(* Frames *)

(* What a Frame holds without the mark of the canonical lane. *)
Load(f) == Cardinality(DOMAIN f.vars) + (IF f.meta = None THEN 0 ELSE 3)
           + Cardinality(DOMAIN f.mirror) + (IF f.depth = None THEN 0 ELSE 1)

IsFrame(f) ==
  /\ DOMAIN f = {"vars", "meta", "mirror", "depth", "canonical", "list", "scope"}
  /\ IsFiniteSet(DOMAIN f.vars) /\ IsFiniteSet(DOMAIN f.mirror)
  /\ DOMAIN f.mirror \subseteq DOMAIN f.vars
  /\ f.depth \in Nat \cup {None}
  /\ f.canonical \in BOOLEAN

Good(f) == IsFrame(f) /\ Load(f) <= MaxVars

(* f is what g has become in the hands of callees and handlers. *)
Later(g, f) ==
  /\ DOMAIN g.vars \subseteq DOMAIN f.vars
  /\ g.meta # None => f.meta = g.meta /\ f.mirror = g.mirror
  /\ f.depth = g.depth

(* ... and f comes back as the Frame g itself. *)
Shared(g, f) ==
  /\ Later(g, f)
  /\ f.scope = g.scope
  /\ InCount(g) => InCount(f)

----------------------------------------------------------------------------
(* Items *)

IsSeq(s) == s \in Seq({s[i] : i \in 1..Len(s)})

RunOK(it) ==
  /\ it.kind = "run"
  /\ DOMAIN it = {"kind", "id", "prog", "pc", "ops", "budget", "caps", "prev", "meta",
                  "mirror", "wrote", "fired", "f"}
  /\ it.id \in Ids /\ it.prog \in Programs /\ it.pc \in Nat \ {0}
  /\ it.ops \in Nat /\ it.wrote \in Nat /\ it.fired \in Nat
  /\ it.budget \in Budgets
  /\ Good(it.f)
  /\ DOMAIN it.f.scope = {"writes", "events", "max"}
  /\ it.f.scope.writes = it.wrote /\ it.f.scope.events = it.fired
  /\ it.f.scope.max = it.budget
  /\ it.budget.ops > 0 => it.ops <= it.budget.ops
  /\ it.budget.writes > 0 => it.wrote <= it.budget.writes
  /\ it.budget.events > 0 => it.fired <= it.budget.events
  /\ it.meta # None => it.f.meta = it.meta /\ it.f.mirror = it.mirror

TxnOK(it) ==
  /\ it.kind = "txn"
  /\ DOMAIN it = {"kind", "atomic", "mem", "f"}
  /\ it.atomic \in BOOLEAN
  /\ it.mem \in [Ids -> Records]
  /\ Good(it.f)

(* The Frame of the event, with the depth of the one who raised it. *)
Raised(it) == [it.f EXCEPT !.depth = it.depth]

(* None or all of the handlers have run, or the event does not fit.  *)
Complete(it) ==
  it.ran = 0 \/ it.todo = {} \/ (it.failed /\ ~Within(Applied(it.f, it.ev)))

DispatchOK(it) ==
  /\ it.kind = "dispatch"
  /\ DOMAIN it = {"kind", "ev", "phase", "mode", "parent", "depth", "todo", "ran", "failed",
                  "branches", "base", "f"}
  /\ it.phase \in {"start", "next", "done", "hung"} /\ it.mode \in {"lane", "each", "fork"}
  /\ it.ev.id \in Nat /\ IsFiniteSet(DOMAIN it.ev.vars)
  /\ it.depth \in Nat \cup {None}
  /\ IsFrame(it.f) /\ it.f.depth # None /\ Good(Raised(it))
  /\ it.parent.meta # None => /\ it.f.meta # None
                              /\ DOMAIN it.parent.mirror \subseteq DOMAIN it.f.mirror
  /\ Good(it.base)
  /\ IsSeq(it.branches)
  /\ \A i \in 1..Len(it.branches) : IsFiniteSet(DOMAIN it.branches[i].vars)
  /\ it.ran \in Nat /\ IsFiniteSet(it.todo)
  /\ it.phase = "start" => it.ran = 0
  /\ it.phase = "next" => /\ InCount(it.f) /\ it.f.meta # None
                          /\ DOMAIN it.ev.vars \subseteq DOMAIN it.f.mirror
  /\ it.phase = "done" => Complete(it)

ItemOK(it) == RunOK(it) \/ TxnOK(it) \/ DispatchOK(it)

(* The Frame b may be handed to the item lo, which waits for it. *)
Handed(lo, b) ==
  \/ /\ lo.kind = "run"
     /\ lo.prog[lo.pc].code \notin Isolating => Shared(lo.f, b)
  \/ /\ lo.kind = "txn"
     /\ Later(lo.f, b)
     /\ ~lo.atomic => b.scope = lo.f.scope
  \/ /\ lo.kind = "dispatch" /\ lo.phase = "next"
     /\ lo.mode # "fork" => Shared(lo.f, b)

(* hi is on top of lo. *)
Link(lo, hi) ==
  \/ hi.kind = "run" /\ Handed(lo, [hi.f EXCEPT !.scope = hi.prev])
  \/ /\ hi.kind = "txn" /\ lo.kind = "dispatch" /\ lo.phase = "next"
     /\ lo.mode # "fork" => hi.f = lo.f
  \/ /\ hi.kind = "dispatch" /\ lo.kind = "run"
     /\ hi.parent.meta = lo.f.meta /\ hi.parent.mirror = lo.f.mirror
     /\ hi.depth = lo.f.depth
     /\ DOMAIN lo.f.vars \subseteq DOMAIN hi.f.vars
     /\ hi.f.scope = lo.f.scope
     /\ InCount(lo.f) => InCount(Raised(hi))

StackOK(st) ==
  /\ IsSeq(st)
  /\ \A i \in 1..Len(st) : ItemOK(st[i])
  /\ \A i \in 2..Len(st) : Link(st[i - 1], st[i])
  /\ Len(st) > 0 => st[1].kind # "run"

RetOK(st) ==
  /\ ret \in {"none", "ok", "error"}
  /\ ret # "none" => Len(st) > 0 /\ Good(back) /\ Handed(st[Len(st)], back)

VMInv ==
  /\ mem \in [Ids -> Records]
  /\ seq \in Nat
  /\ StackOK(stack)
  /\ RetOK(stack)

----------------------------------------------------------------------------
(* Sequences of any items *)

LEMMA Retyped ==
  ASSUME NEW S, NEW T, NEW t \in Seq(S), \A i \in 1..Len(t) : t[i] \in T
  PROVE  t \in Seq(T)
  OBVIOUS

LEMMA SeqFacts ==
  ASSUME NEW s, IsSeq(s)
  PROVE  /\ Len(s) \in Nat /\ DOMAIN s = 1..Len(s)
         /\ s = <<>> <=> Len(s) = 0
  BY DEF IsSeq

LEMMA SeqAppend ==
  ASSUME NEW s, NEW x, IsSeq(s)
  PROVE  /\ IsSeq(Append(s, x)) /\ Len(Append(s, x)) = Len(s) + 1
         /\ \A i \in 1..Len(s) : Append(s, x)[i] = s[i]
         /\ Append(s, x)[Len(s) + 1] = x
<1> DEFINE S == {s[i] : i \in 1..Len(s)} \cup {x}
           t == Append(s, x)
<1>1. s \in Seq(S)
  BY DEF IsSeq
<1>2. /\ t \in Seq(S) /\ Len(t) = Len(s) + 1 /\ Len(s) \in Nat
      /\ \A i \in 1..Len(s) : t[i] = s[i]
      /\ t[Len(s) + 1] = x
  BY <1>1
<1>3. \A i \in 1..Len(t) : t[i] \in {t[j] : j \in 1..Len(t)}
  OBVIOUS
<1>4. t \in Seq({t[j] : j \in 1..Len(t)})
  <2> DEFINE T == {t[j] : j \in 1..Len(t)}
  <2> HIDE DEF t, S, T
  <2>1. \A i \in 1..Len(t) : t[i] \in T
    BY <1>3 DEF T
  <2> QED BY <1>2, <2>1, Retyped DEF T
<1> QED BY <1>2, <1>4 DEF IsSeq

LEMMA SeqFront ==
  ASSUME NEW s, IsSeq(s), Len(s) > 0
  PROVE  /\ IsSeq(Front(s)) /\ Len(Front(s)) = Len(s) - 1
         /\ \A i \in 1..(Len(s) - 1) : Front(s)[i] = s[i]
<1> DEFINE S == {s[i] : i \in 1..Len(s)}
           t == Front(s)
<1>1. s \in Seq(S)
  BY DEF IsSeq
<1>2. /\ t \in Seq(S) /\ Len(t) = Len(s) - 1 /\ Len(s) \in Nat
      /\ \A i \in 1..(Len(s) - 1) : t[i] = s[i]
  <2>1. Len(s) \in Nat /\ \A i \in 1..Len(s) : s[i] \in S
    BY <1>1
  <2> HIDE DEF S
  <2>2. t = SubSeq(s, 1, Len(s) - 1)
    BY DEF Front
  <2>3. \A m \in Int : \A n \in Int : (\A i \in m..n : s[i] \in S) =>
          /\ SubSeq(s, m, n) \in Seq(S)
          /\ Len(SubSeq(s, m, n)) = IF m <= n THEN n - m + 1 ELSE 0
          /\ \A i \in 1..(n - m + 1) : SubSeq(s, m, n)[i] = s[m + i - 1]
    BY SubSeqProperties
  <2>4. 1 \in Int /\ Len(s) - 1 \in Int /\ \A i \in 1..(Len(s) - 1) : s[i] \in S
    BY <2>1
  <2>5. /\ t \in Seq(S)
        /\ Len(t) = IF 1 <= Len(s) - 1 THEN (Len(s) - 1) - 1 + 1 ELSE 0
        /\ \A i \in 1..((Len(s) - 1) - 1 + 1) : t[i] = s[1 + i - 1]
    BY <2>2, <2>3, <2>4
  <2> HIDE DEF t
  <2>6. Len(t) = Len(s) - 1
    <3>1. Len(s) \in Nat /\ Len(s) > 0
      BY <2>1
    <3>2. Len(t) = IF 1 <= Len(s) - 1 THEN (Len(s) - 1) - 1 + 1 ELSE 0
      BY <2>5
    <3>3. CASE Len(s) = 1
      BY <3>2, <3>3
    <3>4. CASE Len(s) # 1
      BY <3>1, <3>2, <3>4
    <3> QED BY <3>3, <3>4
  <2>7. \A i \in 1..(Len(s) - 1) : t[i] = s[i]
    BY <2>1, <2>5
  <2> QED BY <2>1, <2>5, <2>6, <2>7
<1>3. \A i \in 1..Len(t) : t[i] \in {t[j] : j \in 1..Len(t)}
  OBVIOUS
<1>4. t \in Seq({t[j] : j \in 1..Len(t)})
  <2> DEFINE T == {t[j] : j \in 1..Len(t)}
  <2> HIDE DEF t, S, T
  <2>1. \A i \in 1..Len(t) : t[i] \in T
    BY <1>3 DEF T
  <2> QED BY <1>2, <2>1, Retyped DEF T
<1> QED BY <1>2, <1>4 DEF IsSeq

LEMMA SeqTop ==
  ASSUME NEW s, NEW x, IsSeq(s), Len(s) > 0
  PROVE  LET t == [s EXCEPT ![Len(s)] = x] IN
         /\ IsSeq(t) /\ Len(t) = Len(s)
         /\ \A i \in 1..(Len(s) - 1) : t[i] = s[i]
         /\ t[Len(s)] = x
<1> DEFINE S == {s[i] : i \in 1..Len(s)} \cup {x}
           t == [s EXCEPT ![Len(s)] = x]
<1>1. s \in Seq(S)
  BY DEF IsSeq
<1>2. /\ t \in Seq(S) /\ Len(t) = Len(s) /\ Len(s) \in Nat
      /\ \A i \in 1..(Len(s) - 1) : t[i] = s[i]
      /\ t[Len(s)] = x
  BY <1>1
<1>3. \A i \in 1..Len(t) : t[i] \in {t[j] : j \in 1..Len(t)}
  OBVIOUS
<1>4. t \in Seq({t[j] : j \in 1..Len(t)})
  <2> DEFINE T == {t[j] : j \in 1..Len(t)}
  <2> HIDE DEF t, S, T
  <2>1. \A i \in 1..Len(t) : t[i] \in T
    BY <1>3 DEF T
  <2> QED BY <1>2, <2>1, Retyped DEF T
<1> QED BY <1>2, <1>4 DEF IsSeq

LEMMA SeqEmpty == IsSeq(<<>>) /\ Len(<<>>) = 0
  BY DEF IsSeq

----------------------------------------------------------------------------
(* Stacks: the item at the top is replaced, pushed and popped *)

LEMMA StackTop ==
  ASSUME NEW st, StackOK(st), Len(st) > 0, NEW x, ItemOK(x),
         Len(st) > 1 => Link(st[Len(st) - 1], x),
         Len(st) = 1 => x.kind # "run"
  PROVE  StackOK([st EXCEPT ![Len(st)] = x])
<1> DEFINE t == [st EXCEPT ![Len(st)] = x]
<1>1. IsSeq(st) /\ Len(st) \in Nat
  BY SeqFacts DEF StackOK
<1>2. /\ IsSeq(t) /\ Len(t) = Len(st)
      /\ \A i \in 1..(Len(st) - 1) : t[i] = st[i]
      /\ t[Len(st)] = x
  BY <1>1, SeqTop
<1> HIDE DEF t
<1>3. \A i \in 1..Len(t) : ItemOK(t[i])
  BY <1>1, <1>2 DEF StackOK
<1>4. \A i \in 2..Len(t) : Link(t[i - 1], t[i])
  <2> TAKE i \in 2..Len(t)
  <2>1. i \in 2..Len(st) /\ i - 1 \in 1..(Len(st) - 1) /\ t[i - 1] = st[i - 1]
    BY <1>1, <1>2
  <2>2. CASE i = Len(st)
    BY <1>1, <1>2, <2>1, <2>2
  <2>3. CASE i # Len(st)
    BY <1>1, <1>2, <2>1, <2>3 DEF StackOK
  <2> QED BY <2>2, <2>3
<1>5. Len(t) > 0 => t[1].kind # "run"
  BY <1>1, <1>2 DEF StackOK
<1>6. StackOK(t)
  BY <1>2, <1>3, <1>4, <1>5 DEF StackOK
<1> QED BY <1>6 DEF t

LEMMA StackPush ==
  ASSUME NEW st, StackOK(st), NEW x, ItemOK(x),
         Len(st) > 0 => Link(st[Len(st)], x),
         Len(st) = 0 => x.kind # "run"
  PROVE  StackOK(Append(st, x))
<1> DEFINE t == Append(st, x)
<1>1. IsSeq(st) /\ Len(st) \in Nat
  BY SeqFacts DEF StackOK
<1>2. /\ IsSeq(t) /\ Len(t) = Len(st) + 1
      /\ \A i \in 1..Len(st) : t[i] = st[i]
      /\ t[Len(st) + 1] = x
  BY <1>1, SeqAppend
<1> HIDE DEF t
<1>3. \A i \in 1..Len(t) : ItemOK(t[i])
  BY <1>1, <1>2 DEF StackOK
<1>4. \A i \in 2..Len(t) : Link(t[i - 1], t[i])
  BY <1>1, <1>2 DEF StackOK
<1>5. Len(t) > 0 => t[1].kind # "run"
  BY <1>1, <1>2 DEF StackOK
<1>6. StackOK(t)
  BY <1>2, <1>3, <1>4, <1>5 DEF StackOK
<1> QED BY <1>6 DEF t

LEMMA StackPop ==
  ASSUME NEW st, StackOK(st), Len(st) > 0
  PROVE  StackOK(Front(st))
<1> DEFINE t == Front(st)
<1>1. IsSeq(st) /\ Len(st) \in Nat
  BY SeqFacts DEF StackOK
<1>2. /\ IsSeq(t) /\ Len(t) = Len(st) - 1
      /\ \A i \in 1..(Len(st) - 1) : t[i] = st[i]
  BY <1>1, SeqFront
<1> HIDE DEF t
<1>3. \A i \in 1..Len(t) : ItemOK(t[i])
  BY <1>1, <1>2 DEF StackOK
<1>4. \A i \in 2..Len(t) : Link(t[i - 1], t[i])
  BY <1>1, <1>2 DEF StackOK
<1>5. Len(t) > 0 => t[1].kind # "run"
  BY <1>1, <1>2 DEF StackOK
<1>6. StackOK(t)
  BY <1>2, <1>3, <1>4, <1>5 DEF StackOK
<1> QED BY <1>6 DEF t

LEMMA StackEmpty == StackOK(<<>>)
  BY SeqEmpty DEF StackOK

----------------------------------------------------------------------------
(* What a Frame holds *)

LEMMA Ceils == MaxVars \in Nat /\ MaxRecord \in Nat
  BY VMAssumption

LEMMA Counts ==
  ASSUME NEW f, IsFrame(f)
  PROVE  /\ Cardinality(DOMAIN f.vars) \in Nat /\ Cardinality(DOMAIN f.mirror) \in Nat
         /\ Load(f) \in Nat /\ Size(f) \in Nat
         /\ Size(f) = Load(f) + (IF f.canonical THEN 1 ELSE 0)
<1>1. Cardinality(DOMAIN f.vars) \in Nat /\ Cardinality(DOMAIN f.mirror) \in Nat
  BY FS_CardinalityType DEF IsFrame
<1> QED BY <1>1 DEF Load, Size, IsFrame

LEMMA SharedRefl == \A f : Shared(f, f)
  BY DEF Shared, Later

LEMMA LaterTrans ==
  ASSUME NEW f, NEW g, NEW h, Later(f, g), Later(g, h)
  PROVE  Later(f, h)
  BY DEF Later

LEMMA SharedTrans ==
  ASSUME NEW f, NEW g, NEW h, Shared(f, g), Shared(g, h)
  PROVE  Shared(f, h)
  BY LaterTrans DEF Shared

(* A variable set where there is room for it. *)
LEMMA SetKeeps ==
  ASSUME NEW f, Good(f), NEW k, NEW v, Place(f, k)
  PROVE  Good(Set(f, k, v)) /\ Shared(f, Set(f, k, v))
<1> DEFINE g == Set(f, k, v)
           D == DOMAIN f.vars
<1>1. IsFrame(f) /\ Load(f) <= MaxVars /\ MaxVars \in Nat
  BY VMAssumption DEF Good
<1>2. /\ DOMAIN g = DOMAIN f
      /\ g.vars = Over([j \in {k} |-> v], f.vars)
      /\ g.meta = f.meta /\ g.mirror = f.mirror /\ g.depth = f.depth
      /\ g.canonical = f.canonical /\ g.scope = f.scope
  BY <1>1 DEF Set, IsFrame
<1>3. DOMAIN g.vars = D \cup {k}
  BY <1>2 DEF Over
<1> HIDE DEF g
<1>4. IsFiniteSet(D) /\ IsFiniteSet(DOMAIN g.vars)
  BY <1>1, <1>3, FS_AddElement DEF IsFrame
<1>5. Cardinality(DOMAIN g.vars) = IF k \in D THEN Cardinality(D) ELSE Cardinality(D) + 1
  BY <1>3, <1>4, FS_AddElement
<1>6. IsFrame(g)
  BY <1>1, <1>2, <1>3, <1>4 DEF IsFrame
<1>7. /\ k \in D => Load(g) = Load(f) /\ Size(g) = Size(f)
      /\ k \notin D => Load(g) = Load(f) + 1 /\ Size(g) = Size(f) + 1
  BY <1>1, <1>2, <1>5, <1>6, Counts DEF Load, Size
<1>8. {Size(f), Size(g), Load(f), Load(g)} \subseteq Nat /\ Load(g) <= Size(g)
  BY <1>1, <1>6, Counts
<1>9. k \in D \/ Size(f) < MaxVars
  BY DEF Place
<1>10. Load(g) <= MaxVars /\ (InCount(f) => InCount(g))
  BY <1>1, <1>7, <1>8, <1>9 DEF InCount
<1>11. Good(g) /\ Shared(f, g)
  BY <1>2, <1>3, <1>6, <1>10 DEF Good, Shared, Later
<1> QED BY <1>11 DEF g

LEMMA SetIfKeeps ==
  ASSUME NEW f, Good(f), NEW k, NEW v, k = None \/ Place(f, k)
  PROVE  Good(SetIf(f, k, v)) /\ Shared(f, SetIf(f, k, v))
  BY SetKeeps, SharedRefl DEF SetIf

LEMMA RoomPlace ==
  /\ \A f, k, v : Room(f, k, v) => Place(f, k)
  /\ \A f, k, v : Fits(f, k, v) => k = None \/ Place(f, k)
  /\ \A f : Within(f) => InCount(f)
  BY DEF Room, Fits, Within

(* Nothing but the list or the scope of a Frame is changed. *)
LEMMA ListKeeps ==
  ASSUME NEW f, Good(f), NEW x
  PROVE  Good([f EXCEPT !.list = x]) /\ Shared(f, [f EXCEPT !.list = x])
  BY DEF Good, IsFrame, Load, Shared, Later, InCount, Size

LEMMA ScopeKeeps ==
  ASSUME NEW f, Good(f), NEW x
  PROVE  LET g == [f EXCEPT !.scope = x] IN
         /\ Good(g) /\ Later(f, g) /\ g.scope = x /\ (InCount(f) <=> InCount(g))
  BY DEF Good, IsFrame, Load, Later, InCount, Size

(* An event applied to a Frame: what the Frame had, its metadata and its  *)
(* variables.                                                             *)
LEMMA AppliedFrame ==
  ASSUME NEW f, IsFrame(f), NEW ev, ev.id \in Nat, IsFiniteSet(DOMAIN ev.vars)
  PROVE  LET g == Applied(f, ev) IN
         /\ IsFrame(g)
         /\ DOMAIN g.vars = DOMAIN f.vars \cup DOMAIN ev.vars
         /\ DOMAIN g.mirror = DOMAIN f.mirror \cup DOMAIN ev.vars
         /\ g.meta = ev.id /\ g.meta # None
         /\ g.depth = f.depth /\ g.canonical = f.canonical /\ g.scope = f.scope
         /\ Load(f) <= Load(g) /\ Load(g) <= Size(g) /\ Size(f) <= Size(g)
<1> DEFINE g == Applied(f, ev)
<1>1. /\ DOMAIN g = DOMAIN f
      /\ g.vars = Over(ev.vars, f.vars) /\ g.mirror = Over(ev.vars, f.mirror)
      /\ g.meta = ev.id /\ g.depth = f.depth
      /\ g.canonical = f.canonical /\ g.scope = f.scope
  BY DEF Applied, IsFrame
<1>2. /\ DOMAIN g.vars = DOMAIN f.vars \cup DOMAIN ev.vars
      /\ DOMAIN g.mirror = DOMAIN f.mirror \cup DOMAIN ev.vars
  BY <1>1 DEF Over
<1> HIDE DEF g
<1>3. IsFiniteSet(DOMAIN g.vars) /\ IsFiniteSet(DOMAIN g.mirror)
  <2>1. \A S, T : IsFiniteSet(S) /\ IsFiniteSet(T) => IsFiniteSet(S \cup T)
    BY FS_Union
  <2>2. /\ IsFiniteSet(DOMAIN f.vars) /\ IsFiniteSet(DOMAIN f.mirror)
        /\ IsFiniteSet(DOMAIN ev.vars)
    BY DEF IsFrame
  <2> QED BY <1>2, <2>1, <2>2
<1>4. IsFrame(g)
  BY <1>1, <1>2, <1>3 DEF IsFrame
<1>5. /\ Cardinality(DOMAIN f.vars) <= Cardinality(DOMAIN g.vars)
      /\ Cardinality(DOMAIN f.mirror) <= Cardinality(DOMAIN g.mirror)
  BY <1>2, <1>3, FS_Subset
<1>6. g.meta # None
  BY <1>1, VMAssumption
<1>7. Load(f) <= Load(g) /\ Load(g) <= Size(g) /\ Size(f) <= Size(g)
  <2>1. /\ {Cardinality(DOMAIN f.vars), Cardinality(DOMAIN g.vars),
            Cardinality(DOMAIN f.mirror), Cardinality(DOMAIN g.mirror)} \subseteq Nat
        /\ Size(f) = Load(f) + (IF f.canonical THEN 1 ELSE 0)
        /\ Size(g) = Load(g) + (IF g.canonical THEN 1 ELSE 0)
        /\ {Load(f), Load(g)} \subseteq Nat
    BY <1>4, Counts
  <2>2. Load(f) <= Load(g)
    BY <1>1, <1>5, <1>6, <2>1 DEF Load
  <2> QED BY <1>1, <2>1, <2>2
<1>8. /\ IsFrame(g)
      /\ DOMAIN g.vars = DOMAIN f.vars \cup DOMAIN ev.vars
      /\ DOMAIN g.mirror = DOMAIN f.mirror \cup DOMAIN ev.vars
      /\ g.meta = ev.id /\ g.meta # None
      /\ g.depth = f.depth /\ g.canonical = f.canonical /\ g.scope = f.scope
      /\ Load(f) <= Load(g) /\ Load(g) <= Size(g) /\ Size(f) <= Size(g)
  BY <1>1, <1>2, <1>4, <1>6, <1>7
<1> QED BY <1>8 DEF g

(* ... which is no more than before once it has been applied. *)
LEMMA AppliedAgain ==
  ASSUME NEW f, IsFrame(f), NEW ev, ev.id \in Nat, IsFiniteSet(DOMAIN ev.vars),
         f.meta # None, DOMAIN ev.vars \subseteq DOMAIN f.mirror
  PROVE  Size(Applied(f, ev)) = Size(f)
<1> DEFINE g == Applied(f, ev)
<1>1. /\ DOMAIN g.vars = DOMAIN f.vars \cup DOMAIN ev.vars
      /\ DOMAIN g.mirror = DOMAIN f.mirror \cup DOMAIN ev.vars
      /\ g.meta # None /\ g.depth = f.depth /\ g.canonical = f.canonical
  BY AppliedFrame
<1> HIDE DEF g
<1>2. DOMAIN g.vars = DOMAIN f.vars /\ DOMAIN g.mirror = DOMAIN f.mirror
  BY <1>1 DEF IsFrame
<1>3. Size(g) = Size(f)
  BY <1>1, <1>2 DEF Size
<1> QED BY <1>3 DEF g

(* The depth of a Frame that has one is changed or removed. *)
LEMMA DepthKeeps ==
  ASSUME NEW f, IsFrame(f), f.depth # None, NEW d \in Nat \cup {None}
  PROVE  LET g == [f EXCEPT !.depth = d] IN
         /\ IsFrame(g) /\ Load(g) <= Load(f) /\ Size(g) <= Size(f)
         /\ g.vars = f.vars /\ g.meta = f.meta /\ g.mirror = f.mirror /\ g.depth = d
         /\ g.canonical = f.canonical /\ g.scope = f.scope
<1> DEFINE g == [f EXCEPT !.depth = d]
<1>1. /\ DOMAIN g = DOMAIN f
      /\ g.vars = f.vars /\ g.meta = f.meta /\ g.mirror = f.mirror /\ g.depth = d
      /\ g.canonical = f.canonical /\ g.scope = f.scope
  BY DEF IsFrame
<1> HIDE DEF g
<1>2. IsFrame(g)
  BY <1>1 DEF IsFrame
<1>3. Cardinality(DOMAIN f.vars) \in Nat /\ Cardinality(DOMAIN f.mirror) \in Nat
  BY Counts
<1>4. Load(g) <= Load(f) /\ Size(g) <= Size(f)
  BY <1>1, <1>3 DEF Load, Size
<1> QED BY <1>1, <1>2, <1>4 DEF g

(* A Frame that is within the ceiling is good. *)
LEMMA WithinGood ==
  ASSUME NEW f, IsFrame(f), InCount(f)
  PROVE  Good(f)
<1>1. Size(f) = Load(f) + (IF f.canonical THEN 1 ELSE 0) /\ Load(f) \in Nat /\ Size(f) <= MaxVars
  BY Counts DEF InCount
<1> QED BY <1>1, VMAssumption DEF Good

(* The mark of the canonical lane is set and taken away. *)
LEMMA MarkKeeps ==
  ASSUME NEW f, Good(f), NEW c \in BOOLEAN
  PROVE  LET g == [f EXCEPT !.canonical = c] IN
         /\ Good(g) /\ Later(f, g) /\ g.scope = f.scope
         /\ ~c => InCount(g)
<1> DEFINE g == [f EXCEPT !.canonical = c]
<1>1. /\ DOMAIN g = DOMAIN f
      /\ g.vars = f.vars /\ g.meta = f.meta /\ g.mirror = f.mirror /\ g.depth = f.depth
      /\ g.canonical = c /\ g.scope = f.scope
  BY DEF Good, IsFrame
<1> HIDE DEF g
<1>2. IsFrame(g) /\ Load(g) = Load(f) /\ Load(f) <= MaxVars
  BY <1>1 DEF Good, IsFrame, Load
<1>3. Size(g) = Load(g) + (IF g.canonical THEN 1 ELSE 0)
  BY <1>2, Counts
<1>4. ~c => InCount(g)
  BY <1>1, <1>2, <1>3, Counts DEF InCount
<1>5. Good(g) /\ Later(f, g)
  BY <1>1, <1>2 DEF Good, Later
<1> QED BY <1>1, <1>4, <1>5 DEF g

----------------------------------------------------------------------------
(* Adjacent items *)

LEMMA HandedLater ==
  ASSUME NEW lo, NEW b, NEW c, Handed(lo, b), Shared(b, c)
  PROVE  Handed(lo, c)
<1>1. CASE lo.kind = "run"
  BY <1>1, SharedTrans DEF Handed
<1>2. CASE lo.kind = "txn"
  BY <1>2, LaterTrans DEF Handed, Shared
<1>3. CASE lo.kind = "dispatch"
  BY <1>3, SharedTrans DEF Handed
<1> QED BY <1>1, <1>2, <1>3 DEF Handed

LEMMA ScopedShared ==
  ASSUME NEW f, Good(f), NEW g, Good(g), Later(f, g), InCount(f) => InCount(g), NEW p
  PROVE  Shared([f EXCEPT !.scope = p], [g EXCEPT !.scope = p])
<1> DEFINE a == [f EXCEPT !.scope = p]
           b == [g EXCEPT !.scope = p]
<1>1. /\ a.vars = f.vars /\ a.meta = f.meta /\ a.mirror = f.mirror /\ a.scope = p
      /\ a.depth = f.depth
      /\ InCount(f) <=> InCount(a)
  BY ScopeKeeps DEF Good, IsFrame
<1>2. /\ b.vars = g.vars /\ b.meta = g.meta /\ b.mirror = g.mirror /\ b.scope = p
      /\ b.depth = g.depth
      /\ InCount(g) <=> InCount(b)
  BY ScopeKeeps DEF Good, IsFrame
<1> HIDE DEF a, b
<1>3. Shared(a, b)
  BY <1>1, <1>2 DEF Shared, Later
<1> QED BY <1>3 DEF a, b

(* The run at the top has gone on. *)
LEMMA RunGoes ==
  ASSUME NEW lo, NEW it, NEW x, it.kind = "run", x.kind = "run", Good(it.f), Good(x.f),
         Later(it.f, x.f), InCount(it.f) => InCount(x.f), x.prev = it.prev, Link(lo, it)
  PROVE  Link(lo, x)
<1>1. Handed(lo, [it.f EXCEPT !.scope = it.prev])
  BY DEF Link
<1>2. Shared([it.f EXCEPT !.scope = it.prev], [x.f EXCEPT !.scope = it.prev])
  BY ScopedShared
<1>3. Handed(lo, [x.f EXCEPT !.scope = x.prev])
  BY <1>1, <1>2, HandedLater
<1> QED BY <1>3 DEF Link

(* The dispatch at the top has gone on. *)
LEMMA DispatchGoes ==
  ASSUME NEW lo, NEW it, NEW x, it.kind = "dispatch", x.kind = "dispatch",
         x.parent = it.parent, x.depth = it.depth, x.f.scope = it.f.scope,
         DOMAIN it.f.vars \subseteq DOMAIN x.f.vars,
         InCount(Raised(it)) => InCount(Raised(x)), Link(lo, it)
  PROVE  Link(lo, x)
  BY DEF Link

----------------------------------------------------------------------------
(* Steps of the stack *)

LEMMA TopFacts ==
  ASSUME VMInv, stack # <<>>
  PROVE  /\ Len(stack) \in Nat /\ Len(stack) > 0
         /\ Top = stack[Len(stack)]
         /\ ItemOK(Top)
         /\ Top.kind = "run" => RunOK(Top) /\ Len(stack) > 1
         /\ Top.kind = "txn" => TxnOK(Top)
         /\ Top.kind = "dispatch" => DispatchOK(Top)
         /\ Len(stack) > 1 => Link(stack[Len(stack) - 1], Top)
<1>1. IsSeq(stack) /\ StackOK(stack)
  BY DEF VMInv, StackOK
<1>2. Len(stack) \in Nat /\ Len(stack) > 0
  BY <1>1, SeqFacts
<1>3. Top = stack[Len(stack)]
  BY DEF Top, Last
<1>4. ItemOK(stack[Len(stack)])
  BY <1>1, <1>2 DEF StackOK
<1>5. Len(stack) > 1 => Link(stack[Len(stack) - 1], stack[Len(stack)])
  BY <1>1, <1>2 DEF StackOK
<1>6. Len(stack) = 1 => stack[Len(stack)].kind # "run"
  BY <1>1, <1>2 DEF StackOK
<1>7. /\ Top.kind = "run" => RunOK(Top)
      /\ Top.kind = "txn" => TxnOK(Top)
      /\ Top.kind = "dispatch" => DispatchOK(Top)
  BY <1>3, <1>4 DEF ItemOK, RunOK, TxnOK, DispatchOK
<1> QED BY <1>2, <1>3, <1>4, <1>5, <1>6, <1>7

LEMMA TopStep ==
  ASSUME VMInv, stack # <<>>, NEW x, stack' = SetTop(x), ItemOK(x), x.kind = Top.kind,
         Len(stack) > 1 => Link(stack[Len(stack) - 1], x),
         mem' \in [Ids -> Records], seq' \in Nat, ret' = "none"
  PROVE  VMInv'
<1>1. /\ Len(stack) > 0 /\ StackOK(stack)
      /\ Len(stack) = 1 => x.kind # "run"
  BY TopFacts DEF VMInv
<1>2. StackOK(stack')
  BY <1>1, StackTop DEF SetTop
<1> QED BY <1>2 DEF VMInv, RetOK

LEMMA PopStep ==
  ASSUME VMInv, stack # <<>>, stack' = Front(stack),
         mem' \in [Ids -> Records], seq' \in Nat, ret' \in {"none", "ok", "error"},
         ret' # "none" => /\ Len(stack) > 1 /\ Good(back')
                          /\ Handed(stack[Len(stack) - 1], back')
  PROVE  VMInv'
<1>1. IsSeq(stack) /\ StackOK(stack) /\ Len(stack) > 0 /\ Len(stack) \in Nat
  BY TopFacts DEF VMInv, StackOK
<1>2. StackOK(stack')
  BY <1>1, StackPop
<1>3. /\ Len(stack') = Len(stack) - 1
      /\ \A i \in 1..(Len(stack) - 1) : stack'[i] = stack[i]
  BY <1>1, SeqFront
<1>4. ret' # "none" => /\ Len(stack') > 0 /\ Good(back')
                       /\ Handed(stack'[Len(stack')], back')
  BY <1>1, <1>3
<1> QED BY <1>2, <1>4 DEF VMInv, RetOK

LEMMA OverflowStep ==
  ASSUME Overflow, mem' \in [Ids -> Records], seq' \in Nat
  PROVE  VMInv'
  BY StackEmpty DEF Overflow, VMInv, RetOK

(* A run starts with the Frame g on the items st. *)
LEMMA PushStep ==
  ASSUME NEW st, StackOK(st), Len(st) > 0, NEW id, Live(id), NEW g, Good(g),
         Handed(st[Len(st)], g), Push(id, st, g),
         mem \in [Ids -> Records], mem' = mem, seq' \in Nat
  PROVE  VMInv'
<1> DEFINE x == Run(id, g)
<1>1. CASE Len(st) >= MaxStack
  BY <1>1, OverflowStep DEF Push
<1>2. CASE ~(Len(st) >= MaxStack)
  <2>1. stack' = Append(st, x) /\ ret' = "none"
    BY <1>2 DEF Push
  <2>2. id \in Ids /\ mem[id] \in Records
    BY DEF Live
  <2>3. mem[id].prog \in Programs /\ mem[id].budget \in Budgets
    BY <2>2 DEF Records
  <2> DEFINE s == Scoped(g, id)
  <2>4. /\ Good(s) /\ Later(g, s)
        /\ s.scope = [writes |-> 0, events |-> 0, max |-> mem[id].budget]
        /\ s.meta = g.meta /\ s.mirror = g.mirror
        /\ InCount(g) <=> InCount(s)
    BY ScopeKeeps DEF Scoped, Good, IsFrame
  <2> HIDE DEF s
  <2>5. /\ x.kind = "run" /\ x.id = id /\ x.prog = mem[id].prog /\ x.pc = 1 /\ x.ops = 0
        /\ x.budget = mem[id].budget /\ x.prev = g.scope /\ x.meta = g.meta
        /\ x.mirror = g.mirror /\ x.wrote = 0 /\ x.fired = 0 /\ x.f = s
        /\ DOMAIN x = {"kind", "id", "prog", "pc", "ops", "budget", "caps", "prev", "meta",
                       "mirror", "wrote", "fired", "f"}
    BY DEF Run, s
  <2> HIDE DEF x
  <2>6. RunOK(x)
    <3>1. /\ DOMAIN s.scope = {"writes", "events", "max"}
          /\ s.scope.writes = 0 /\ s.scope.events = 0 /\ s.scope.max = mem[id].budget
      BY <2>4
    <3>2. {x.budget.ops, x.budget.writes, x.budget.events} \subseteq Nat
      BY <2>3, <2>5 DEF Budgets
    <3> QED BY <2>2, <2>3, <2>4, <2>5, <3>1, <3>2 DEF RunOK
  <2>7. Link(st[Len(st)], x)
    <3>1. Shared([g EXCEPT !.scope = g.scope], [s EXCEPT !.scope = g.scope])
      BY <2>4, ScopedShared
    <3>2. Shared(g, [g EXCEPT !.scope = g.scope])
      BY ScopeKeeps DEF Shared
    <3>3. Shared(g, [x.f EXCEPT !.scope = x.prev])
      BY <2>5, <3>1, <3>2, SharedTrans
    <3>4. Handed(st[Len(st)], [x.f EXCEPT !.scope = x.prev])
      BY <3>3, HandedLater
    <3> QED BY <2>5, <3>4 DEF Link
  <2>8. StackOK(stack')
    BY <2>1, <2>6, <2>7, StackPush DEF ItemOK
  <2> QED BY <2>1, <2>8 DEF VMInv, RetOK
<1> QED BY <1>1, <1>2

----------------------------------------------------------------------------
(* A run and its primitives *)

LEMMA CurFacts ==
  ASSUME VMInv, AtOp
  PROVE  /\ stack # <<>> /\ Top.kind = "run" /\ ret = "none" /\ RunOK(Top) /\ Len(stack) > 1
         /\ Top.pc + 1 \in Nat \ {0}
         /\ Cur \in Operations /\ IsFiniteSet(Cur.vars) /\ Cardinality(Cur.vars) <= MaxVars
<1>1. stack # <<>> /\ Top.kind = "run" /\ ret = "none" /\ Top.pc <= Len(Top.prog)
  BY DEF AtOp, Running
<1>2. RunOK(Top) /\ Len(stack) > 1
  BY <1>1, TopFacts
<1>3. Top.prog \in Seq(Operations) /\ Top.pc \in Nat \ {0}
  BY <1>2 DEF RunOK, Programs
<1>4. Cur \in Operations
  BY <1>1, <1>3 DEF Cur
<1> QED BY <1>1, <1>2, <1>3, <1>4, KeptAssumption

(* The run at the top with its primitive counted, for a Frame that the    *)
(* primitive may leave.                                                   *)
LEMMA CountedOK ==
  ASSUME VMInv, AtOp, Allowed, NEW f, Good(f), Shared(F, f), NEW pc \in Nat \ {0}
  PROVE  LET x == Counted(pc, f) IN
         /\ RunOK(x) /\ x.kind = "run" /\ x.f = Reserved(f) /\ Good(x.f)
         /\ x.prog = Top.prog /\ x.pc = pc
         /\ Link(stack[Len(stack) - 1], x)
<1> DEFINE x == Counted(pc, f)
           w == IF Cur.code \in Writing THEN 1 ELSE 0
           e == IF Cur.code = "emit_event" THEN 1 ELSE 0
           r == Reserved(f)
<1>1. RunOK(Top) /\ Top.kind = "run" /\ Len(stack) > 1 /\ stack # <<>>
  BY CurFacts
<1>2. F = Top.f /\ f.scope = F.scope
  BY DEF F, Shared
<1>3. /\ DOMAIN f.scope = {"writes", "events", "max"}
      /\ f.scope.writes = Top.wrote /\ f.scope.events = Top.fired
      /\ f.scope.max = Top.budget
  BY <1>1, <1>2 DEF RunOK
<1>4. r = [f EXCEPT !.scope = [f.scope EXCEPT !.writes = @ + w, !.events = @ + e]]
  BY DEF Reserved, Good, IsFrame
<1> DEFINE p == [f.scope EXCEPT !.writes = @ + w, !.events = @ + e]
<1>5. /\ DOMAIN p = {"writes", "events", "max"}
      /\ p.writes = Top.wrote + w /\ p.events = Top.fired + e /\ p.max = Top.budget
  BY <1>3
<1> HIDE DEF p
<1>6. /\ Good(r) /\ Later(f, r) /\ r.scope = p
      /\ InCount(f) <=> InCount(r)
      /\ r.meta = f.meta /\ r.mirror = f.mirror
  <2>1. r = [f EXCEPT !.scope = p]
    BY <1>4 DEF p
  <2> HIDE DEF r
  <2>2. Good(r) /\ Later(f, r) /\ r.scope = p /\ (InCount(f) <=> InCount(r))
    BY <2>1, ScopeKeeps
  <2>3. r.meta = f.meta /\ r.mirror = f.mirror
    BY <2>1 DEF Good, IsFrame
  <2> QED BY <2>2, <2>3
<1> HIDE DEF r
<1>7. /\ DOMAIN x = DOMAIN Top
      /\ x.kind = Top.kind /\ x.id = Top.id /\ x.prog = Top.prog /\ x.pc = pc
      /\ x.ops = Top.ops + 1 /\ x.budget = Top.budget /\ x.prev = Top.prev
      /\ x.meta = Top.meta /\ x.mirror = Top.mirror /\ x.f = r
      /\ x.wrote = Top.wrote + w /\ x.fired = Top.fired + e
  BY <1>1 DEF Counted, RunOK, r
<1>8. /\ Top.budget.ops > 0 => Top.ops < Top.budget.ops
      /\ w = 1 /\ Top.budget.writes > 0 => Top.wrote < Top.budget.writes
      /\ e = 1 /\ Top.budget.events > 0 => Top.fired < Top.budget.events
  <2> USE <1>2, <1>3 DEF Allowed
  <2>1. Top.budget.ops > 0 => Top.ops < Top.budget.ops
    OBVIOUS
  <2>2. w = 1 => Cur.code \in Writing
    OBVIOUS
  <2>3. e = 1 => Cur.code = "emit_event"
    OBVIOUS
  <2>4. F.scope = f.scope
    OBVIOUS
  <2> QED BY <2>1, <2>2, <2>3, <2>4
<1>9. {Top.budget.ops, Top.budget.writes, Top.budget.events} \subseteq Nat
  BY <1>1 DEF RunOK, Budgets
<1>10. /\ w \in {0, 1} /\ e \in {0, 1}
  OBVIOUS
<1> HIDE DEF x, w, e
<1>11. Later(Top.f, f) /\ (InCount(Top.f) => InCount(f)) /\ Good(Top.f)
  BY <1>1, <1>2 DEF Shared, RunOK
<1>12. x.meta # None => r.meta = x.meta /\ r.mirror = x.mirror
  BY <1>1, <1>6, <1>7, <1>11 DEF RunOK, Later
<1>13. /\ x.budget.ops > 0 => x.ops <= x.budget.ops
       /\ x.budget.writes > 0 => x.wrote <= x.budget.writes
       /\ x.budget.events > 0 => x.fired <= x.budget.events
       /\ x.ops \in Nat /\ x.wrote \in Nat /\ x.fired \in Nat
  <2>1. /\ Top.budget.ops > 0 => Top.ops <= Top.budget.ops
        /\ Top.budget.writes > 0 => Top.wrote <= Top.budget.writes
        /\ Top.budget.events > 0 => Top.fired <= Top.budget.events
        /\ Top.ops \in Nat /\ Top.wrote \in Nat /\ Top.fired \in Nat
    BY <1>1 DEF RunOK
  <2>2. x.ops \in Nat /\ (x.budget.ops > 0 => x.ops <= x.budget.ops)
    BY <1>7, <1>8, <1>9, <2>1
  <2>3. x.wrote \in Nat /\ (x.budget.writes > 0 => x.wrote <= x.budget.writes)
    BY <1>7, <1>8, <1>9, <1>10, <2>1
  <2>4. x.fired \in Nat /\ (x.budget.events > 0 => x.fired <= x.budget.events)
    BY <1>7, <1>8, <1>9, <1>10, <2>1
  <2> QED BY <2>2, <2>3, <2>4
<1>14. RunOK(x)
  BY <1>1, <1>5, <1>6, <1>7, <1>12, <1>13 DEF RunOK
<1>15. Link(stack[Len(stack) - 1], x)
  <2>1. Link(stack[Len(stack) - 1], Top)
    BY <1>1, TopFacts
  <2>2. Later(Top.f, x.f) /\ (InCount(Top.f) => InCount(x.f))
    BY <1>6, <1>7, <1>11, LaterTrans
  <2> QED BY <1>1, <1>6, <1>7, <1>11, <2>1, <2>2, RunGoes
<1>16. RunOK(x) /\ x.kind = "run" /\ x.f = r /\ Good(x.f) /\ x.prog = Top.prog /\ x.pc = pc
  BY <1>1, <1>6, <1>7, <1>14
<1> QED BY <1>15, <1>16 DEF x, r

LEMMA GotoStep ==
  ASSUME VMInv, AtOp, Allowed, NEW f, Good(f), Shared(F, f), NEW pc \in Nat \ {0},
         Goto(pc, f), mem' \in [Ids -> Records], seq' \in Nat
  PROVE  VMInv'
<1> DEFINE x == Counted(pc, f)
<1>1. RunOK(x) /\ x.kind = "run" /\ Link(stack[Len(stack) - 1], x)
  BY CountedOK
<1>2. stack' = SetTop(x) /\ ret' = ret /\ ret = "none" /\ stack # <<>> /\ Top.kind = "run"
  BY CurFacts DEF Goto
<1> HIDE DEF x
<1> QED BY <1>1, <1>2, TopStep DEF ItemOK

LEMMA ContinueStep ==
  ASSUME VMInv, AtOp, Allowed, NEW f, Good(f), Shared(F, f), Continue(f),
         mem' \in [Ids -> Records], seq' \in Nat
  PROVE  VMInv'
  BY CurFacts, GotoStep DEF Continue

(* The run at the top returns, with a Frame that it may leave. *)
LEMMA ExitStep ==
  ASSUME VMInv, stack # <<>>, Top.kind = "run", NEW answer \in {"ok", "error"},
         NEW f, Good(f), Later(F, f), InCount(F) => InCount(f), Exit(answer, f),
         mem' \in [Ids -> Records], seq' \in Nat
  PROVE  VMInv'
<1> DEFINE b == [f EXCEPT !.scope = Top.prev]
<1>1. RunOK(Top) /\ Len(stack) > 1 /\ Link(stack[Len(stack) - 1], Top)
  BY TopFacts
<1>2. Handed(stack[Len(stack) - 1], [Top.f EXCEPT !.scope = Top.prev])
  BY <1>1 DEF Link, RunOK
<1>3. Shared([Top.f EXCEPT !.scope = Top.prev], b)
  BY <1>1, ScopedShared DEF F, RunOK
<1>4. Handed(stack[Len(stack) - 1], b)
  BY <1>2, <1>3, HandedLater
<1>5. Good(b)
  BY ScopeKeeps
<1>6. stack' = Front(stack) /\ ret' = answer /\ back' = b
  BY DEF Exit
<1> HIDE DEF b
<1> QED BY <1>1, <1>4, <1>5, <1>6, PopStep

LEMMA LeaveStep ==
  ASSUME VMInv, Running, NEW answer \in {"ok", "error"}, Exit(answer, F),
         mem' \in [Ids -> Records], seq' \in Nat
  PROVE  VMInv'
<1>1. stack # <<>> /\ Top.kind = "run" /\ Good(F) /\ Later(F, F)
  BY TopFacts, SharedRefl DEF Running, F, RunOK, Shared
<1> QED BY <1>1, ExitStep

(* What a primitive needs of the state. *)
LEMMA PrimitiveFacts ==
  ASSUME VMInv, NEW code, Is(code)
  PROVE  /\ AtOp /\ Allowed /\ Running /\ Cur.code = code /\ ret = "none" /\ RunOK(Top)
         /\ Good(F) /\ Shared(F, F)
         /\ mem \in [Ids -> Records] /\ seq \in Nat
  BY CurFacts, SharedRefl DEF Is, AtOp, VMInv, F, RunOK

LEMMA FailStep ==
  ASSUME VMInv, Running, Fail, seq' \in Nat
  PROVE  VMInv'
  BY LeaveStep DEF Fail, VMInv

(* set, list_append, read, read_list, parse *)
LEMMA DataStep ==
  ASSUME VMInv, SetVar \/ ListAppend \/ Read \/ ReadList \/ Parse
  PROVE  VMInv'
<1>1. CASE SetVar
  <2>1. AtOp /\ Allowed /\ Running /\ Good(F) /\ mem' = mem /\ seq' = seq
    BY <1>1, PrimitiveFacts DEF SetVar, Fail
  <2>2. \/ Place(F, Cur.key) /\ Continue(Set(F, Cur.key, Cur.val))
        \/ Fail
    BY <1>1, RoomPlace DEF SetVar
  <2> QED BY <2>1, <2>2, SetKeeps, ContinueStep, FailStep DEF VMInv
<1>2. CASE ListAppend
  <2> DEFINE f == [F EXCEPT !.list = @ + 1]
  <2>1. AtOp /\ Allowed /\ Running /\ Good(F) /\ mem' = mem /\ seq' = seq
    BY <1>2, PrimitiveFacts DEF ListAppend
  <2>2. \/ Exit("error", F)
        \/ Place(f, Cur.key) /\ Continue(Set(f, Cur.key, 1))
        \/ Exit("error", f)
    BY <1>2, RoomPlace DEF ListAppend
  <2>3. f = [F EXCEPT !.list = F.list + 1]
    BY <2>1 DEF Good, IsFrame
  <2>4. Good(f) /\ Shared(F, f)
    BY <2>1, <2>3, ListKeeps
  <2> HIDE DEF f
  <2>6. Place(f, Cur.key) => Good(Set(f, Cur.key, 1)) /\ Shared(F, Set(f, Cur.key, 1))
    BY <2>4, SetKeeps, SharedTrans
  <2>7. stack # <<>> /\ Top.kind = "run"
    BY <2>1 DEF Running
  <2>8. CASE Exit("error", F)
    BY <2>1, <2>8, LeaveStep DEF VMInv
  <2>9. CASE Place(f, Cur.key) /\ Continue(Set(f, Cur.key, 1))
    BY <2>1, <2>6, <2>9, ContinueStep DEF VMInv
  <2>10. CASE Exit("error", f)
    BY <2>1, <2>4, <2>7, <2>10, ExitStep DEF VMInv, Shared
  <2> QED BY <2>2, <2>8, <2>9, <2>10
<1>3. CASE Read
  <2>1. AtOp /\ Allowed /\ Running /\ Good(F) /\ mem' = mem /\ seq' = seq
    BY <1>3, PrimitiveFacts DEF Read, Fail
  <2>2. \/ Place(F, Cur.key) /\ \E v : Continue(Set(F, Cur.key, v))
        \/ Fail
    BY <1>3, RoomPlace DEF Read
  <2> QED BY <2>1, <2>2, SetKeeps, ContinueStep, FailStep DEF VMInv
<1>4. CASE ReadList
  <2>1. AtOp /\ Allowed /\ Running /\ Good(F) /\ mem' = mem /\ seq' = seq
    BY <1>4, PrimitiveFacts DEF ReadList, Fail
  <2>2. \/ \E x : Continue([F EXCEPT !.list = x])
        \/ Fail
    BY <1>4 DEF ReadList
  <2> QED BY <2>1, <2>2, ListKeeps, ContinueStep, FailStep DEF VMInv
<1>5. CASE Parse
  <2>1. AtOp /\ Allowed /\ Running /\ Good(F) /\ mem' = mem /\ seq' = seq
    BY <1>5, PrimitiveFacts DEF Parse, Fail
  <2>2. \/ Place(F, Cur.key) /\ Continue(Set(F, Cur.key, 1))
        \/ Fail
    BY <1>5, RoomPlace DEF Parse
  <2> QED BY <2>1, <2>2, SetKeeps, ContinueStep, FailStep DEF VMInv
<1> QED BY <1>1, <1>2, <1>3, <1>4, <1>5

(* A set of positions of a program that is not empty has a last one. *)
LEMMA LargestMember ==
  ASSUME NEW n \in Nat, NEW S \in SUBSET (1..n), S # {}
  PROVE  \E x \in S : \A y \in S : y <= x
<1> DEFINE T == {n - i : i \in S}
<1>1. T \in SUBSET Nat /\ T # {}
  <2>1. \A i \in S : n - i \in Nat
    OBVIOUS
  <2>2. T \subseteq Nat
    BY <2>1
  <2> QED BY <2>2
<1> HIDE DEF T
<1>2. PICK t \in T : \A u \in T : <<u, t>> \notin OpToRel(<, Nat)
  BY <1>1, NatLessThanWellFounded, WFMin
<1>3. \A u \in T : ~(u < t)
  BY <1>1, <1>2 DEF OpToRel
<1>4. PICK x \in S : t = n - x
  BY DEF T
<1>5. \A y \in S : n - y \in T
  BY DEF T
<1>6. \A y \in S : y <= x
  BY <1>3, <1>4, <1>5
<1> QED BY <1>6

(* jump, jump_if, label, halt, and what is no operation *)
LEMMA ControlStep ==
  ASSUME VMInv, Jump \/ LabelOp \/ Halt \/ Bad
  PROVE  VMInv'
<1>1. CASE Jump
  <2>1. AtOp /\ Allowed /\ Running /\ Good(F) /\ Shared(F, F) /\ mem' = mem /\ seq' = seq
    BY <1>1, PrimitiveFacts DEF Jump, Fail
  <2>2. \/ Continue(F)
        \/ Fail
        \/ Labels(Cur.key) # {} /\ Goto(Label(Cur.key), F)
    BY <1>1 DEF Jump
  <2>3. Len(Top.prog) \in Nat
    BY <2>1, CurFacts DEF RunOK, Programs
  <2>4. Labels(Cur.key) # {} => Label(Cur.key) \in Nat \ {0}
    <3> SUFFICES ASSUME Labels(Cur.key) # {}
                 PROVE  Label(Cur.key) \in Nat \ {0}
      OBVIOUS
    <3>1. Labels(Cur.key) \in SUBSET (1..Len(Top.prog))
      BY DEF Labels
    <3>2. \E x \in Labels(Cur.key) : \A y \in Labels(Cur.key) : y <= x
      BY <2>3, <3>1, LargestMember
    <3>3. Label(Cur.key) \in Labels(Cur.key)
      BY <3>2 DEF Label
    <3> QED BY <2>3, <3>1, <3>3
  <2> QED BY <2>1, <2>2, <2>4, ContinueStep, GotoStep, FailStep DEF VMInv
<1>2. CASE LabelOp
  <2>1. AtOp /\ Allowed /\ Good(F) /\ Shared(F, F) /\ mem' = mem /\ seq' = seq /\ Continue(F)
    BY <1>2, PrimitiveFacts DEF LabelOp
  <2> QED BY <2>1, ContinueStep DEF VMInv
<1>3. CASE Halt
  <2>1. /\ AtOp /\ Allowed /\ Good(F) /\ Shared(F, F) /\ mem' = mem /\ seq' = seq
        /\ RunOK(Top) /\ mem \in [Ids -> Records]
    BY <1>3, PrimitiveFacts DEF Halt
  <2>2. mem[Top.id].prog \in Programs
    BY <2>1 DEF RunOK, Records
  <2>3. Len(mem[Top.id].prog) + 1 \in Nat \ {0}
    BY <2>2 DEF Programs
  <2>4. Goto(Len(mem[Top.id].prog) + 1, F)
    BY <1>3 DEF Halt
  <2> QED BY <2>1, <2>3, <2>4, GotoStep DEF VMInv
<1>4. CASE Bad
  BY <1>4, PrimitiveFacts, FailStep DEF Bad
<1> QED BY <1>1, <1>2, <1>3, <1>4

(* grow, new, delete, splice, cut: the records stay within their ceilings. *)
LEMMA RecordStep ==
  ASSUME VMInv, Grow \/ New \/ Delete \/ Splice \/ Cut
  PROVE  VMInv'
<1> DEFINE Records2 == [Ids -> Records]
<1>1. mem \in Records2 /\ \A id : Live(id) => id \in Ids /\ mem[id] \in Records
  BY DEF VMInv, Live
<1>2. CASE Grow
  <2>1. AtOp /\ Allowed /\ Running /\ Good(F) /\ seq' = seq
    BY <1>2, PrimitiveFacts DEF Grow
  <2>2. \/ Fail
        \/ /\ Live(Cur.id) /\ RecordBytes(mem[Cur.id]) < MaxRecord
           /\ Cur.key = None \/ Place(F, Cur.key)
           /\ mem' = [mem EXCEPT ![Cur.id].size = @ + 1]
           /\ Continue(SetIf(F, Cur.key, 1))
    BY <1>2, RoomPlace DEF Grow
  <2>3. ASSUME Live(Cur.id), RecordBytes(mem[Cur.id]) < MaxRecord,
               mem' = [mem EXCEPT ![Cur.id].size = @ + 1]
        PROVE  mem' \in Records2
    <3>1. mem[Cur.id].size + 1 \in 0..MaxRecord
      <4>1. Len(mem[Cur.id].prog) \in Nat /\ mem[Cur.id].size \in 0..MaxRecord
        BY <1>1, <2>3 DEF Records, Programs
      <4> QED BY <2>3, <4>1, Ceils DEF RecordBytes
    <3>2. [mem[Cur.id] EXCEPT !.size = @ + 1] \in Records
      BY <1>1, <2>3, <3>1 DEF Records
    <3>3. mem' = [mem EXCEPT ![Cur.id] = [mem[Cur.id] EXCEPT !.size = @ + 1]]
      BY <1>1, <2>3
    <3> QED BY <1>1, <3>2, <3>3
  <2> QED BY <2>1, <2>2, <2>3, SetIfKeeps, ContinueStep, FailStep DEF VMInv
<1>3. CASE New
  <2>1. AtOp /\ Allowed /\ Running /\ Good(F) /\ seq' = seq
    BY <1>3, PrimitiveFacts DEF New
  <2> DEFINE new == [prog |-> <<>>, size |-> 0, trig |-> None, caps |-> FALSE, life |-> "live",
                     budget |-> [ops |-> 0, writes |-> 0, events |-> 0, time |-> FALSE]]
  <2>2. \/ Fail
        \/ \E id \in Ids :
             /\ Cur.key = None \/ Place(F, Cur.key)
             /\ Cur.id # 0 => Live(Cur.id)
             /\ mem' = [mem EXCEPT ![id] = IF Cur.id = 0 THEN new ELSE mem[Cur.id]]
             /\ Continue(SetIf(F, Cur.key, 1))
    BY <1>3, RoomPlace DEF New
  <2>3. new \in Records
    <3>1. <<>> \in Programs
      BY VMAssumption DEF Programs
    <3>2. 0 \in 0..MaxRecord
      BY VMAssumption
    <3> QED BY <3>1, <3>2 DEF Records, Budgets
  <2> HIDE DEF new
  <2>4. ASSUME NEW id \in Ids, Cur.id # 0 => Live(Cur.id),
               mem' = [mem EXCEPT ![id] = IF Cur.id = 0 THEN new ELSE mem[Cur.id]]
        PROVE  mem' \in Records2
    BY <1>1, <2>3, <2>4
  <2> QED BY <2>1, <2>2, <2>4, SetIfKeeps, ContinueStep, FailStep DEF VMInv
<1>4. CASE Delete
  <2>1. AtOp /\ Allowed /\ Running /\ Good(F) /\ seq' = seq
    BY <1>4, PrimitiveFacts DEF Delete
  <2>2. \/ Fail
        \/ /\ Cur.key = None \/ Place(F, Cur.key)
           /\ \/ mem' = mem
              \/ Live(Cur.id) /\ mem' = [mem EXCEPT ![Cur.id].life = "gone"]
           /\ \E v : Continue(SetIf(F, Cur.key, v))
    BY <1>4, RoomPlace DEF Delete
  <2>3. ASSUME Live(Cur.id), mem' = [mem EXCEPT ![Cur.id].life = "gone"]
        PROVE  mem' \in Records2
    <3>1. [mem[Cur.id] EXCEPT !.life = "gone"] \in Records
      BY <1>1, <2>3 DEF Records
    <3> QED BY <1>1, <2>3, <3>1
  <2> QED BY <1>1, <2>1, <2>2, <2>3, SetIfKeeps, ContinueStep, FailStep DEF VMInv
<1>5. CASE Splice
  <2>1. AtOp /\ Allowed /\ Running /\ Good(F) /\ Shared(F, F) /\ seq' = seq
    BY <1>5, PrimitiveFacts DEF Splice
  <2>2. \/ Fail
        \/ /\ Live(Cur.id) /\ Live(Cur.from)
           /\ Len(mem[Cur.id].prog) + Len(mem[Cur.from].prog) <= MaxProgram
           /\ mem' = [mem EXCEPT ![Cur.id].prog = mem[Cur.from].prog \o @]
           /\ Continue(F)
    BY <1>5 DEF Splice, Executable
  <2>3. ASSUME Live(Cur.id), Live(Cur.from),
               Len(mem[Cur.id].prog) + Len(mem[Cur.from].prog) <= MaxProgram,
               mem' = [mem EXCEPT ![Cur.id].prog = mem[Cur.from].prog \o @]
        PROVE  mem' \in Records2
    <3> DEFINE p == mem[Cur.id].prog
               q == mem[Cur.from].prog
    <3>1. p \in Seq(Operations) /\ q \in Seq(Operations)
      BY <1>1, <2>3 DEF Records, Programs
    <3>2. q \o p \in Programs
      <4> HIDE DEF p, q
      <4>1. q \o p \in Seq(Operations) /\ Len(q \o p) = Len(q) + Len(p)
        BY <3>1
      <4>2. Len(p) + Len(q) <= MaxProgram
        BY <2>3 DEF p, q
      <4>3. Len(p) \in Nat /\ Len(q) \in Nat
        BY <3>1
      <4> QED BY <4>1, <4>2, <4>3 DEF Programs
    <3>3. [mem[Cur.id] EXCEPT !.prog = q \o p] \in Records
      <4> DEFINE r == q \o p
      <4>1. r \in Programs /\ mem[Cur.id] \in Records
        BY <1>1, <2>3, <3>2
      <4> HIDE DEF p, q, r
      <4>2. [mem[Cur.id] EXCEPT !.prog = r] \in Records
        BY <4>1 DEF Records
      <4> QED BY <4>2 DEF r
    <3>4. mem' = [mem EXCEPT ![Cur.id] = [mem[Cur.id] EXCEPT !.prog = q \o p]]
      BY <1>1, <2>3
    <3> QED BY <1>1, <3>3, <3>4
  <2> QED BY <2>1, <2>2, <2>3, ContinueStep, FailStep DEF VMInv
<1>6. CASE Cut
  <2>1. AtOp /\ Allowed /\ Running /\ Good(F) /\ Shared(F, F) /\ seq' = seq
    BY <1>6, PrimitiveFacts DEF Cut
  <2>2. \/ Fail
        \/ /\ Live(Cur.id) /\ mem[Cur.id].prog # <<>>
           /\ mem' = [mem EXCEPT ![Cur.id].prog = Tail(@)]
           /\ Continue(F)
    BY <1>6 DEF Cut, Executable
  <2>3. ASSUME Live(Cur.id), mem[Cur.id].prog # <<>>,
               mem' = [mem EXCEPT ![Cur.id].prog = Tail(@)]
        PROVE  mem' \in Records2
    <3> DEFINE p == mem[Cur.id].prog
    <3>1. p \in Seq(Operations) /\ Len(p) <= MaxProgram
      BY <1>1, <2>3 DEF Records, Programs
    <3>2. Tail(p) \in Programs
      <4>1. p # <<>>
        BY <2>3
      <4> HIDE DEF p
      <4>2. Tail(p) \in Seq(Operations) /\ Len(Tail(p)) = Len(p) - 1 /\ Len(p) \in Nat
        BY <3>1, <4>1, HeadTailProperties
      <4> QED BY <3>1, <4>2, VMAssumption DEF Programs
    <3>3. [mem[Cur.id] EXCEPT !.prog = Tail(p)] \in Records
      BY <1>1, <2>3, <3>2 DEF Records
    <3>4. mem' = [mem EXCEPT ![Cur.id] = [mem[Cur.id] EXCEPT !.prog = Tail(p)]]
      BY <1>1, <2>3
    <3> QED BY <1>1, <3>3, <3>4
  <2> QED BY <2>1, <2>2, <2>3, ContinueStep, FailStep DEF VMInv
<1> QED BY <1>2, <1>3, <1>4, <1>5, <1>6

----------------------------------------------------------------------------
(* Calls and returns *)

LEMMA KeptGood ==
  ASSUME VMInv, AtOp
  PROVE  Good(Kept)
<1> DEFINE vs == [k \in Cur.vars |-> Get(F, k)]
           f == Kept
<1>1. IsFiniteSet(Cur.vars) /\ Cardinality(Cur.vars) <= MaxVars
  BY CurFacts
<1>2. DOMAIN vs = Cur.vars /\ DOMAIN Empty = {}
  BY DEF Empty
<1>3. f = [NewFrame EXCEPT !.vars = vs]
  BY DEF Kept
<1> HIDE DEF vs
<1>4. /\ DOMAIN f = {"vars", "meta", "mirror", "depth", "canonical", "list", "scope"}
      /\ f.vars = vs /\ f.meta = None /\ f.mirror = Empty /\ f.depth = None
      /\ f.canonical = FALSE
  BY <1>3 DEF NewFrame
<1> HIDE DEF f
<1>5. IsFiniteSet({}) /\ Cardinality({}) = 0 /\ Cardinality(Cur.vars) \in Nat
  BY <1>1, FS_EmptySet, FS_CardinalityType
<1>6. IsFrame(f)
  BY <1>1, <1>2, <1>4, <1>5 DEF IsFrame
<1>7. Load(f) <= MaxVars
  BY <1>1, <1>2, <1>4, <1>5 DEF Load
<1>8. Good(f)
  BY <1>6, <1>7 DEF Good
<1> QED BY <1>8 DEF f

LEMMA CallStep ==
  ASSUME VMInv, Call
  PROVE  VMInv'
<1> DEFINE x == Counted(Top.pc, F)
           st == SetTop(x)
           g == IF Cur.code \in Isolating THEN Kept ELSE x.f
<1>1. /\ AtOp /\ Allowed /\ Running /\ Good(F) /\ Shared(F, F) /\ mem' = mem /\ seq' = seq
      /\ mem \in [Ids -> Records] /\ seq \in Nat
  BY PrimitiveFacts DEF Call
<1>2. \/ Executable(Cur.id) /\ Push(Cur.id, st, g)
      \/ /\ Cur.cond = None \/ Place(F, Cur.cond)
         /\ Continue(SetIf(F, Cur.cond, 0))
      \/ Exit("error", F)
  BY RoomPlace DEF Call
<1>3. CASE Executable(Cur.id) /\ Push(Cur.id, st, g)
  <2>1. RunOK(Top) /\ Len(stack) > 1 /\ stack # <<>> /\ Top.pc \in Nat \ {0}
    BY <1>1, CurFacts DEF RunOK
  <2>2. /\ RunOK(x) /\ x.kind = "run" /\ Good(x.f) /\ x.prog = Top.prog /\ x.pc = Top.pc
        /\ Link(stack[Len(stack) - 1], x)
    BY <1>1, <2>1, CountedOK
  <2>3. Good(g)
    BY <1>1, <2>2, KeptGood
  <2>4. x.prog[x.pc] = Cur
    BY <2>2 DEF Cur
  <2>5. Handed(x, g)
    BY <2>2, <2>4, SharedRefl DEF Handed
  <2> HIDE DEF x, g
  <2>6. StackOK(st)
    BY <2>1, <2>2, StackTop, TopFacts DEF SetTop, ItemOK, VMInv
  <2>7. Len(st) = Len(stack) /\ st[Len(st)] = x /\ Len(st) > 0
    BY <2>1, SeqTop, TopFacts DEF SetTop, VMInv, StackOK
  <2> HIDE DEF st
  <2> QED BY <1>1, <1>3, <2>3, <2>5, <2>6, <2>7, PushStep DEF Executable
<1>4. CASE /\ Cur.cond = None \/ Place(F, Cur.cond)
           /\ Continue(SetIf(F, Cur.cond, 0))
  BY <1>1, <1>4, SetIfKeeps, ContinueStep
<1>5. CASE Exit("error", F)
  BY <1>1, <1>5, LeaveStep
<1> QED BY <1>2, <1>3, <1>4, <1>5

LEMMA GoOnStep ==
  ASSUME VMInv, stack # <<>>, Top.kind = "run", NEW f, Good(f), Shared(F, f), GoOn(f),
         mem' = mem, seq' = seq
  PROVE  VMInv'
<1> DEFINE x == [Top EXCEPT !.pc = @ + 1, !.f = f]
<1>1. RunOK(Top) /\ Len(stack) > 1 /\ Link(stack[Len(stack) - 1], Top)
  BY TopFacts
<1>2. /\ DOMAIN x = DOMAIN Top
      /\ x.kind = Top.kind /\ x.id = Top.id /\ x.prog = Top.prog /\ x.pc = Top.pc + 1
      /\ x.ops = Top.ops /\ x.budget = Top.budget /\ x.prev = Top.prev
      /\ x.meta = Top.meta /\ x.mirror = Top.mirror /\ x.f = f
      /\ x.wrote = Top.wrote /\ x.fired = Top.fired
  BY <1>1 DEF RunOK
<1> HIDE DEF x
<1>3. /\ Later(Top.f, f) /\ f.scope = Top.f.scope /\ (InCount(Top.f) => InCount(f))
      /\ Good(Top.f)
  BY <1>1 DEF Shared, F, RunOK
<1>4. x.meta # None => f.meta = x.meta /\ f.mirror = x.mirror
  BY <1>1, <1>2, <1>3 DEF RunOK, Later
<1>5. x.pc \in Nat \ {0}
  BY <1>1, <1>2 DEF RunOK
<1>6. RunOK(x)
  BY <1>1, <1>2, <1>3, <1>4, <1>5 DEF RunOK
<1>7. Link(stack[Len(stack) - 1], x)
  BY <1>1, <1>2, <1>3, RunGoes
<1>8. stack' = SetTop(x) /\ ret' = "none"
  BY DEF GoOn, x
<1> QED BY <1>2, <1>6, <1>7, <1>8, TopStep DEF ItemOK, VMInv

LEMMA ReturnFacts ==
  ASSUME VMInv, Returned
  PROVE  /\ stack # <<>> /\ Top.kind = "run" /\ Good(F) /\ Good(back) /\ Shared(F, F)
         /\ Cur.code \notin Isolating => Shared(F, back)
         /\ mem \in [Ids -> Records] /\ seq \in Nat
<1>1. stack # <<>> /\ Top.kind = "run" /\ ret # "none"
  BY DEF Returned
<1>2. RunOK(Top) /\ Top = stack[Len(stack)]
  BY <1>1, TopFacts
<1>3. Good(back) /\ Handed(Top, back)
  BY <1>1, <1>2 DEF VMInv, RetOK
<1>4. Cur.code \notin Isolating => Shared(F, back)
  BY <1>1, <1>3 DEF Handed, Cur, F
<1> QED BY <1>1, <1>2, <1>3, <1>4, SharedRefl DEF F, RunOK, VMInv

LEMMA ResumeStep ==
  ASSUME VMInv, Resume \/ ResumeIsolated
  PROVE  VMInv'
<1>1. CASE Resume
  <2>1. Returned /\ Cur.code \notin Isolating /\ mem' = mem /\ seq' = seq
    BY <1>1 DEF Resume
  <2>2. GoOn(back) \/ Exit("error", back)
    BY <1>1 DEF Resume
  <2>3. /\ stack # <<>> /\ Top.kind = "run" /\ Good(back) /\ Shared(F, back)
        /\ mem \in [Ids -> Records] /\ seq \in Nat
    BY <2>1, ReturnFacts
  <2>4. CASE GoOn(back)
    BY <2>1, <2>3, <2>4, GoOnStep
  <2>5. CASE Exit("error", back)
    BY <2>1, <2>3, <2>5, ExitStep DEF Shared
  <2> QED BY <2>2, <2>4, <2>5
<1>2. CASE ResumeIsolated
  <2> DEFINE told == IF Cur.code = "call_try_isolated"
                     THEN SetIf(F, Cur.cond, IF ret = "ok" THEN 1 ELSE 0) ELSE F
             key  == IF ret = "ok" THEN Cur.key ELSE None
  <2>1. Returned /\ mem' = mem /\ seq' = seq
    BY <1>2 DEF ResumeIsolated
  <2>2. \/ /\ Cur.code = "call_try_isolated" => Cur.cond = None \/ Place(F, Cur.cond)
           /\ key = None \/ Place(told, key)
           /\ GoOn(SetIf(told, key, Get(back, Cur.key)))
        \/ Exit("error", F)
    BY <1>2, RoomPlace DEF ResumeIsolated
  <2>3. /\ stack # <<>> /\ Top.kind = "run" /\ Good(F) /\ Shared(F, F)
        /\ mem \in [Ids -> Records] /\ seq \in Nat
    BY <2>1, ReturnFacts
  <2>4. (Cur.code = "call_try_isolated" => Cur.cond = None \/ Place(F, Cur.cond))
          => Good(told) /\ Shared(F, told)
    BY <2>3, SetIfKeeps
  <2> HIDE DEF told, key
  <2>5. CASE /\ Cur.code = "call_try_isolated" => Cur.cond = None \/ Place(F, Cur.cond)
             /\ key = None \/ Place(told, key)
             /\ GoOn(SetIf(told, key, Get(back, Cur.key)))
    <3> DEFINE f == SetIf(told, key, Get(back, Cur.key))
    <3>1. Good(f) /\ Shared(told, f)
      BY <2>4, <2>5, SetIfKeeps
    <3>2. Shared(F, f)
      BY <2>4, <2>5, <3>1, SharedTrans
    <3> QED BY <2>1, <2>3, <2>5, <3>1, <3>2, GoOnStep
  <2>6. CASE Exit("error", F)
    BY <2>1, <2>3, <2>6, ExitStep DEF Shared
  <2> QED BY <2>2, <2>5, <2>6
<1> QED BY <1>1, <1>2

----------------------------------------------------------------------------
(* Transactions *)

LEMMA AnswerStep ==
  ASSUME VMInv, stack # <<>>, NEW answer \in {"ok", "error"}, NEW f,
         Len(stack) > 1 => Good(f) /\ Handed(stack[Len(stack) - 1], f),
         Answer(answer, f), mem' \in [Ids -> Records], seq' \in Nat
  PROVE  VMInv'
<1>1. Len(stack) \in Nat /\ Len(stack) > 0
  BY TopFacts
<1>2. stack' = Front(stack) /\ ret' \in {"none", "ok", "error"}
  BY DEF Answer
<1>3. ret' # "none" => /\ Len(stack) > 1 /\ Good(back')
                       /\ Handed(stack[Len(stack) - 1], back')
  <2>1. ret' # "none" => Len(stack) > 1 /\ back' = f
    BY <1>1 DEF Answer
  <2>2. CASE Len(stack) > 1 /\ back' = f
    <3>1. Good(f) /\ Handed(stack[Len(stack) - 1], f)
      BY <2>2
    <3> QED BY <2>2, <3>1
  <2> QED BY <2>1, <2>2
<1> QED BY <1>2, <1>3, PopStep

(* What a transaction may leave of its Frame f when it hands g back. *)
LEMMA TxnHands ==
  ASSUME VMInv, stack # <<>>, Top.kind = "txn", NEW g, Good(g), Later(F, g),
         g.scope = F.scope, InCount(F) => InCount(g)
  PROVE  Len(stack) > 1 => Handed(stack[Len(stack) - 1], g)
<1> SUFFICES ASSUME Len(stack) > 1
             PROVE  Handed(stack[Len(stack) - 1], g)
  OBVIOUS
<1> DEFINE lo == stack[Len(stack) - 1]
<1>1. Link(lo, Top) /\ TxnOK(Top)
  BY TopFacts
<1>2. /\ lo.kind = "dispatch" /\ lo.phase = "next"
      /\ lo.mode # "fork" => Top.f = lo.f
  BY <1>1 DEF Link, TxnOK
<1>3. Shared(F, g)
  BY DEF Shared
<1> QED BY <1>2, <1>3 DEF Handed, F

LEMMA TxnStep ==
  ASSUME VMInv, TxnReturn
  PROVE  VMInv'
<1>1. stack # <<>> /\ Top.kind = "txn" /\ ret # "none" /\ seq' = seq
  BY DEF TxnReturn
<1>2. TxnOK(Top) /\ Top = stack[Len(stack)]
  BY <1>1, TopFacts
<1>3. /\ Good(back) /\ Later(F, back) /\ (~Top.atomic => back.scope = F.scope)
      /\ ret \in {"ok", "error"}
  <2>1. Good(back) /\ Handed(Top, back) /\ ret \in {"ok", "error"}
    BY <1>1, <1>2 DEF VMInv, RetOK
  <2> QED BY <1>1, <2>1 DEF Handed, F
<1>4. Good(F) /\ Top.atomic \in BOOLEAN /\ Top.mem \in [Ids -> Records]
      /\ mem \in [Ids -> Records] /\ seq \in Nat
  BY <1>2 DEF TxnOK, F, VMInv
<1>5. CASE ~Top.atomic
  <2> DEFINE g == [back EXCEPT !.canonical = FALSE]
  <2>1. Answer(ret, g) /\ mem' = mem
    BY <1>5 DEF TxnReturn
  <2>2. Good(g) /\ Later(back, g) /\ g.scope = back.scope /\ InCount(g)
    BY <1>3, MarkKeeps
  <2> HIDE DEF g
  <2>3. Later(F, g) /\ g.scope = F.scope
    BY <1>3, <1>5, <2>2, LaterTrans
  <2>4. Len(stack) > 1 => Handed(stack[Len(stack) - 1], g)
    BY <1>1, <2>2, <2>3, TxnHands
  <2> QED BY <1>1, <1>3, <1>4, <2>1, <2>2, <2>4, AnswerStep
<1>6. CASE Top.atomic /\ ret = "ok" /\ Within(back)
  <2> DEFINE g == [back EXCEPT !.scope = F.scope]
  <2>1. Answer("ok", g) /\ mem' = mem
    BY <1>6 DEF TxnReturn
  <2>2. Good(g) /\ Later(back, g) /\ g.scope = F.scope /\ InCount(g)
    BY <1>3, <1>6, ScopeKeeps, RoomPlace
  <2> HIDE DEF g
  <2>3. Later(F, g)
    BY <1>3, <2>2, LaterTrans
  <2>4. Len(stack) > 1 => Handed(stack[Len(stack) - 1], g)
    BY <1>1, <2>2, <2>3, TxnHands
  <2> QED BY <1>1, <1>4, <2>1, <2>2, <2>4, AnswerStep
<1>7. CASE Top.atomic /\ ~(ret = "ok" /\ Within(back))
  <2>1. Answer("error", F) /\ mem' = Top.mem
    BY <1>7 DEF TxnReturn
  <2>2. Later(F, F)
    BY DEF Later
  <2>3. Len(stack) > 1 => Handed(stack[Len(stack) - 1], F)
    BY <1>1, <1>4, <2>2, TxnHands
  <2> QED BY <1>1, <1>4, <2>1, <2>3, AnswerStep
<1> QED BY <1>4, <1>5, <1>6, <1>7

(* A transaction starts with a run in it. *)
LEMMA PushTxnStep ==
  ASSUME NEW st, StackOK(st), NEW f, Good(f), NEW id, Live(id), NEW atomic \in BOOLEAN,
         Len(st) > 0 => /\ st[Len(st)].kind = "dispatch" /\ st[Len(st)].phase = "next"
                        /\ st[Len(st)].mode # "fork" => f = st[Len(st)].f,
         PushTxn(id, st, f, atomic), mem \in [Ids -> Records], mem' = mem, seq' \in Nat
  PROVE  VMInv'
<1> DEFINE x == Txn(f, atomic)
           t == Append(st, x)
           h == IF atomic THEN [f EXCEPT !.scope = None] ELSE [f EXCEPT !.canonical = TRUE]
<1>1. /\ x.kind = "txn" /\ x.atomic = atomic /\ x.mem = mem /\ x.f = f
      /\ DOMAIN x = {"kind", "atomic", "mem", "f"}
  BY DEF Txn
<1> HIDE DEF x
<1>2. ItemOK(x)
  BY <1>1 DEF ItemOK, TxnOK
<1>3. Len(st) > 0 => Link(st[Len(st)], x)
  BY <1>1 DEF Link
<1>4. Len(st) \in Nat /\ IsSeq(st)
  BY SeqFacts DEF StackOK
<1>5. StackOK(t)
  BY <1>1, <1>2, <1>3, <1>4, StackPush
<1>6. Len(t) = Len(st) + 1 /\ t[Len(t)] = x /\ Len(t) > 0
  BY <1>4, SeqAppend
<1>7. Good(h) /\ Later(f, h) /\ (~atomic => h.scope = f.scope)
  BY ScopeKeeps, MarkKeeps
<1>8. Push(id, t, h)
  BY DEF PushTxn, x
<1> HIDE DEF t, h
<1>9. Handed(x, h)
  BY <1>1, <1>7 DEF Handed
<1> QED BY <1>5, <1>6, <1>7, <1>8, <1>9, PushStep

----------------------------------------------------------------------------
(* Events *)

(* An event is raised with the Frame f by the run at the top of st, or    *)
(* from outside.                                                          *)
LEMMA EnqueueStep ==
  ASSUME NEW st, StackOK(st), NEW f, Good(f), NEW ev,
         ev.id \in Nat, IsFiniteSet(DOMAIN ev.vars), ev.depth \in Nat,
         Len(st) > 0 => st[Len(st)].kind = "run" /\ st[Len(st)].f = f,
         Enqueue(st, f, ev), ret = "none", mem' \in [Ids -> Records], seq' \in Nat
  PROVE  VMInv'
<1> DEFINE g == [f EXCEPT !.depth = ev.depth]
           x == [kind |-> "dispatch", ev |-> ev, phase |-> "start", mode |-> "lane",
                 parent |-> [meta |-> f.meta, mirror |-> f.mirror], depth |-> f.depth,
                 todo |-> {}, ran |-> 0, failed |-> FALSE, branches |-> <<>>,
                 base |-> f, f |-> g]
           r == Raised(x)
<1>1. CASE Len(st) >= MaxStack
  BY <1>1, OverflowStep DEF Enqueue
<1>2. CASE ~(Len(st) >= MaxStack)
  <2>1. stack' = Append(st, x) /\ ret' = "none"
    BY <1>2 DEF Enqueue
  <2>2. /\ DOMAIN g = DOMAIN f
        /\ g.vars = f.vars /\ g.meta = f.meta /\ g.mirror = f.mirror
        /\ g.depth = ev.depth /\ g.canonical = f.canonical /\ g.scope = f.scope
    BY DEF Good, IsFrame
  <2> HIDE DEF g
  <2>3. /\ x.kind = "dispatch" /\ x.ev = ev /\ x.phase = "start" /\ x.mode = "lane"
        /\ x.parent.meta = f.meta /\ x.parent.mirror = f.mirror /\ x.depth = f.depth
        /\ x.todo = {} /\ x.ran = 0 /\ x.branches = <<>> /\ x.base = f /\ x.f = g
        /\ DOMAIN x = {"kind", "ev", "phase", "mode", "parent", "depth", "todo", "ran",
                       "failed", "branches", "base", "f"}
    OBVIOUS
  <2> HIDE DEF x
  <2>4. IsFrame(g) /\ g.depth # None
    BY <2>2, VMAssumption DEF Good, IsFrame
  <2>5. f.depth \in Nat \cup {None}
    BY DEF Good, IsFrame
  <2>6. /\ IsFrame(r)
        /\ r.vars = g.vars /\ r.meta = g.meta /\ r.mirror = g.mirror /\ r.depth = f.depth
        /\ r.canonical = g.canonical
    BY <2>3, <2>4, <2>5, DepthKeeps DEF Raised
  <2> HIDE DEF r
  <2>7. Load(r) = Load(f) /\ Size(r) = Size(f)
    BY <2>2, <2>6 DEF Load, Size
  <2>8. Good(r) /\ (InCount(f) => InCount(r))
    BY <2>6, <2>7 DEF Good, InCount
  <2>9. IsFiniteSet({}) /\ IsSeq(<<>>) /\ Len(<<>>) = 0
    BY FS_EmptySet, SeqEmpty
  <2>10. DispatchOK(x)
    BY <2>2, <2>3, <2>4, <2>5, <2>8, <2>9 DEF DispatchOK, r, Good, IsFrame
  <2>11. Len(st) > 0 => Link(st[Len(st)], x)
    BY <2>2, <2>3, <2>8 DEF Link, r
  <2>12. StackOK(stack')
    BY <2>1, <2>3, <2>10, <2>11, StackPush DEF ItemOK
  <2> QED BY <2>1, <2>12 DEF VMInv, RetOK
<1> QED BY <1>1, <1>2

LEMMA EmitStep ==
  ASSUME VMInv, EmitEvent
  PROVE  VMInv'
<1> DEFINE vs == [k \in Cur.vars |-> Get(F, k)]
           ev == Event(Cur.ev, vs, F)
           x  == Counted(Top.pc, F)
           st == SetTop(x)
<1>1. /\ AtOp /\ Allowed /\ Running /\ Good(F) /\ Shared(F, F) /\ mem' = mem /\ seq' = seq + 1
      /\ mem \in [Ids -> Records] /\ seq \in Nat /\ ret = "none"
  BY PrimitiveFacts DEF EmitEvent
<1>2. Enqueue(st, x.f, ev) \/ Exit("error", F)
  BY DEF EmitEvent
<1>3. CASE Enqueue(st, x.f, ev)
  <2>1. RunOK(Top) /\ Len(stack) > 1 /\ stack # <<>> /\ Top.pc \in Nat \ {0}
    BY <1>1, CurFacts DEF RunOK
  <2>2. RunOK(x) /\ x.kind = "run" /\ Good(x.f) /\ Link(stack[Len(stack) - 1], x)
    BY <1>1, <2>1, CountedOK
  <2>3. IsFiniteSet(DOMAIN vs)
    BY <1>1, CurFacts
  <2> HIDE DEF vs
  <2>4. ev.id \in Nat /\ ev.vars = vs /\ ev.depth \in Nat
    BY <1>1 DEF Event, Good, IsFrame
  <2> HIDE DEF x, ev
  <2>5. StackOK(st)
    BY <2>1, <2>2, StackTop, TopFacts DEF SetTop, ItemOK, VMInv
  <2>6. Len(st) = Len(stack) /\ st[Len(st)] = x
    BY <2>1, SeqTop, TopFacts DEF SetTop, VMInv, StackOK
  <2> HIDE DEF st
  <2>7. seq' \in Nat /\ mem' \in [Ids -> Records]
    BY <1>1
  <2> QED BY <1>1, <1>3, <2>2, <2>3, <2>4, <2>5, <2>6, <2>7, EnqueueStep
<1>4. CASE Exit("error", F)
  <2>1. seq' \in Nat /\ mem' \in [Ids -> Records]
    BY <1>1
  <2> QED BY <1>1, <1>4, <2>1, LeaveStep
<1> QED BY <1>2, <1>3, <1>4

----------------------------------------------------------------------------
(* Dispatches: between two handlers, and done *)

(* What the Frame f of the event of a dispatch is between two handlers. *)
EventFrame(it, f) ==
  /\ IsFrame(f) /\ InCount(f) /\ f.depth # None /\ f.meta # None
  /\ DOMAIN it.ev.vars \subseteq DOMAIN f.mirror
  /\ it.parent.meta # None => DOMAIN it.parent.mirror \subseteq DOMAIN f.mirror
  /\ DOMAIN it.f.vars \subseteq DOMAIN f.vars
  /\ f.scope = it.f.scope

(* The parts of a dispatch that stay. *)
SameEvent(it, x) ==
  /\ x.kind = "dispatch" /\ DOMAIN x = DOMAIN it
  /\ x.ev = it.ev /\ x.parent = it.parent /\ x.depth = it.depth

LEMMA NextItem ==
  ASSUME NEW it, DispatchOK(it), NEW x, SameEvent(it, x), x.phase = "next",
         x.mode \in {"lane", "each", "fork"}, EventFrame(it, x.f), Good(x.base),
         IsSeq(x.branches), \A i \in 1..Len(x.branches) : IsFiniteSet(DOMAIN x.branches[i].vars),
         x.ran \in Nat, IsFiniteSet(x.todo)
  PROVE  /\ DispatchOK(x)
         /\ \A lo : Link(lo, it) => Link(lo, x)
<1> DEFINE r == Raised(x)
<1>1. IsFrame(x.f) /\ x.f.depth # None /\ x.depth \in Nat \cup {None} /\ InCount(x.f)
  BY DEF EventFrame, SameEvent, DispatchOK
<1>2. IsFrame(r) /\ Size(r) <= Size(x.f)
  BY <1>1, DepthKeeps DEF Raised
<1> HIDE DEF r
<1>3. InCount(r)
  BY <1>1, <1>2, Counts, Ceils DEF InCount
<1>4. Good(r)
  BY <1>2, <1>3, WithinGood
<1>5. DispatchOK(x)
  BY <1>1, <1>4 DEF DispatchOK, SameEvent, EventFrame, r
<1>6. ASSUME NEW lo, Link(lo, it)
      PROVE  Link(lo, x)
  BY <1>3, <1>6, DispatchGoes DEF SameEvent, EventFrame, DispatchOK, r
<1> QED BY <1>5, <1>6

(* A dispatch that has failed, or hangs. *)
LEMMA DoneItem ==
  ASSUME NEW it, DispatchOK(it), NEW x, SameEvent(it, x), x.phase \in {"done", "hung"},
         x.mode = it.mode, x.f = it.f, x.base = it.base, x.branches = it.branches,
         x.ran \in Nat, IsFiniteSet(x.todo), x.phase = "done" => Complete(x)
  PROVE  /\ DispatchOK(x)
         /\ \A lo : Link(lo, it) => Link(lo, x)
<1>1. Raised(x) = Raised(it)
  BY DEF Raised, SameEvent
<1>2. DispatchOK(x)
  BY <1>1 DEF DispatchOK, SameEvent
<1>3. ASSUME NEW lo, Link(lo, it)
      PROVE  Link(lo, x)
  BY <1>1, <1>3, DispatchGoes DEF SameEvent, DispatchOK
<1> QED BY <1>2, <1>3

LEMMA DispatchFacts ==
  ASSUME VMInv, stack # <<>>, Top.kind = "dispatch"
  PROVE  /\ DispatchOK(Top) /\ F = Top.f /\ SameEvent(Top, Top)
         /\ mem \in [Ids -> Records] /\ seq \in Nat
         /\ Top.phase = "next" => EventFrame(Top, F)
  BY TopFacts DEF VMInv, DispatchOK, EventFrame, SameEvent, F

(* The dispatch at the top goes on as x. *)
LEMMA DispatchStep ==
  ASSUME VMInv, stack # <<>>, Top.kind = "dispatch", NEW x, DispatchOK(x),
         \A lo : Link(lo, Top) => Link(lo, x)
  PROVE  /\ StackOK(SetTop(x)) /\ Len(SetTop(x)) > 0 /\ SetTop(x)[Len(SetTop(x))] = x
         /\ stack' = SetTop(x) /\ mem' = mem /\ seq' = seq /\ ret' = "none" => VMInv'
<1>1. /\ Len(stack) > 0 /\ StackOK(stack) /\ IsSeq(stack)
      /\ Len(stack) > 1 => Link(stack[Len(stack) - 1], Top)
  BY TopFacts DEF VMInv, StackOK
<1>2. x.kind = "dispatch" /\ ItemOK(x)
  BY DEF DispatchOK, ItemOK
<1>3. StackOK(SetTop(x))
  BY <1>1, <1>2, StackTop DEF SetTop
<1>4. Len(SetTop(x)) > 0 /\ SetTop(x)[Len(SetTop(x))] = x
  BY <1>1, SeqTop DEF SetTop
<1>5. stack' = SetTop(x) /\ mem' = mem /\ seq' = seq /\ ret' = "none" => VMInv'
  BY <1>1, <1>2, TopStep DEF VMInv
<1> QED BY <1>3, <1>4, <1>5

(* The event's Frame, with the event applied to it again. *)
LEMMA AppliedEvent ==
  ASSUME NEW it, DispatchOK(it), it.phase = "next"
  PROVE  EventFrame(it, Applied(it.f, it.ev))
<1> DEFINE g == Applied(it.f, it.ev)
<1>1. /\ IsFrame(it.f) /\ it.ev.id \in Nat /\ IsFiniteSet(DOMAIN it.ev.vars)
      /\ it.f.meta # None /\ DOMAIN it.ev.vars \subseteq DOMAIN it.f.mirror
      /\ InCount(it.f) /\ it.f.depth # None
      /\ it.parent.meta # None => DOMAIN it.parent.mirror \subseteq DOMAIN it.f.mirror
  BY DEF DispatchOK
<1>2. /\ IsFrame(g)
      /\ DOMAIN g.vars = DOMAIN it.f.vars \cup DOMAIN it.ev.vars
      /\ DOMAIN g.mirror = DOMAIN it.f.mirror \cup DOMAIN it.ev.vars
      /\ g.meta # None /\ g.depth = it.f.depth /\ g.scope = it.f.scope
  BY <1>1, AppliedFrame
<1>3. Size(g) = Size(it.f)
  BY <1>1, AppliedAgain
<1> HIDE DEF g
<1>4. InCount(g)
  BY <1>1, <1>3 DEF InCount
<1>5. EventFrame(it, g)
  BY <1>1, <1>2, <1>4 DEF EventFrame
<1> QED BY <1>5 DEF g

LEMMA StartStep ==
  ASSUME VMInv, DispatchStart
  PROVE  VMInv'
<1> DEFINE f == Applied(F, Top.ev)
<1>1. /\ stack # <<>> /\ Top.kind = "dispatch" /\ ret = "none" /\ Top.phase = "start"
      /\ mem' = mem /\ seq' = seq /\ ret' = ret
  BY DEF DispatchStart, Dispatching
<1>2. DispatchOK(Top) /\ F = Top.f
  BY <1>1, DispatchFacts
<1>3. CASE stack' = SetTop(Failing(Top))
  <2> DEFINE x == Failing(Top)
  <2>1. /\ SameEvent(Top, x) /\ x.phase = "done" /\ x.mode = Top.mode /\ x.f = Top.f
        /\ x.base = Top.base /\ x.branches = Top.branches /\ x.ran = Top.ran
        /\ x.todo = Top.todo
    BY <1>2 DEF Failing, SameEvent, DispatchOK
  <2> HIDE DEF x
  <2>2. DispatchOK(x) /\ \A lo : Link(lo, Top) => Link(lo, x)
    BY <1>1, <1>2, <2>1, DoneItem DEF DispatchOK, Complete
  <2> QED BY <1>1, <1>3, <2>2, DispatchStep DEF x
<1>4. CASE /\ InCount(f)
           /\ \E mode \in {"lane", "each", "fork"} :
                stack' = SetTop([Top EXCEPT !.phase = "next", !.mode = mode, !.f = f,
                                            !.todo = Matched(Top.ev), !.base = f])
  <2>1. PICK mode \in {"lane", "each", "fork"} :
               stack' = SetTop([Top EXCEPT !.phase = "next", !.mode = mode, !.f = f,
                                           !.todo = Matched(Top.ev), !.base = f])
    BY <1>4
  <2> DEFINE x == [Top EXCEPT !.phase = "next", !.mode = mode, !.f = f,
                              !.todo = Matched(Top.ev), !.base = f]
  <2>2. /\ SameEvent(Top, x) /\ x.phase = "next" /\ x.mode = mode /\ x.f = f
        /\ x.base = f /\ x.branches = Top.branches /\ x.ran = Top.ran
        /\ x.todo = Matched(Top.ev)
    BY <1>2 DEF SameEvent, DispatchOK
  <2>3. /\ IsFrame(f) /\ f.meta # None /\ f.depth = F.depth /\ f.scope = F.scope
        /\ DOMAIN f.vars = DOMAIN F.vars \cup DOMAIN Top.ev.vars
        /\ DOMAIN f.mirror = DOMAIN F.mirror \cup DOMAIN Top.ev.vars
    BY <1>2, AppliedFrame DEF DispatchOK
  <2> HIDE DEF x, f
  <2>4. EventFrame(Top, f)
    BY <1>2, <1>4, <2>3 DEF EventFrame, DispatchOK
  <2>5. Good(f)
    BY <1>4, <2>3, WithinGood
  <2>6. IsFiniteSet(Matched(Top.ev))
    <3>1. N \in Int /\ Matched(Top.ev) \in SUBSET (1..N)
      BY VMAssumption DEF Matched, Ids
    <3>2. IsFiniteSet(1..N)
      BY <3>1, FS_Interval
    <3> QED BY <3>1, <3>2, FS_Subset
  <2>7. DispatchOK(x) /\ \A lo : Link(lo, Top) => Link(lo, x)
    BY <1>2, <2>2, <2>4, <2>5, <2>6, NextItem DEF DispatchOK
  <2> QED BY <1>1, <2>1, <2>7, DispatchStep DEF x
<1>5. stack' = SetTop(Failing(Top))
      \/ /\ InCount(f)
         /\ \E mode \in {"lane", "each", "fork"} :
              stack' = SetTop([Top EXCEPT !.phase = "next", !.mode = mode, !.f = f,
                                          !.todo = Matched(Top.ev), !.base = f])
  BY RoomPlace DEF DispatchStart
<1> QED BY <1>3, <1>4, <1>5

LEMMA HangStep ==
  ASSUME VMInv, Hang
  PROVE  VMInv'
<1> DEFINE x == [Failing(Top) EXCEPT !.ran = @ + Cardinality(Top.todo), !.todo = {}]
           y == [Top EXCEPT !.phase = "hung"]
<1>1. /\ stack # <<>> /\ Top.kind = "dispatch" /\ ret = "none" /\ ret' = ret
      /\ mem' = mem /\ seq' = seq
  BY DEF Hang, Dispatching
<1>2. DispatchOK(Top)
  BY <1>1, DispatchFacts
<1>3. CASE stack' = SetTop(y)
  <2>1. /\ SameEvent(Top, y) /\ y.phase = "hung" /\ y.mode = Top.mode /\ y.f = Top.f
        /\ y.base = Top.base /\ y.branches = Top.branches
        /\ y.ran = Top.ran /\ y.todo = Top.todo
    BY <1>2 DEF SameEvent, DispatchOK
  <2> HIDE DEF y
  <2>2. DispatchOK(y) /\ \A lo : Link(lo, Top) => Link(lo, y)
    BY <1>2, <2>1, DoneItem DEF DispatchOK
  <2> QED BY <1>1, <1>3, <2>2, DispatchStep
<1>4. CASE stack' = SetTop(x)
  <2>1. /\ SameEvent(Top, x) /\ x.phase = "done" /\ x.mode = Top.mode /\ x.f = Top.f
        /\ x.base = Top.base /\ x.branches = Top.branches
        /\ x.ran = Top.ran + Cardinality(Top.todo) /\ x.todo = {}
    BY <1>2 DEF Failing, SameEvent, DispatchOK
  <2>2. Cardinality(Top.todo) \in Nat /\ Top.ran \in Nat
    BY <1>2, FS_CardinalityType DEF DispatchOK
  <2>3. x.ran \in Nat /\ IsFiniteSet(x.todo) /\ Complete(x)
    BY <2>1, <2>2, FS_EmptySet DEF Complete
  <2> HIDE DEF x
  <2>4. DispatchOK(x) /\ \A lo : Link(lo, Top) => Link(lo, x)
    BY <1>2, <2>1, <2>3, DoneItem
  <2> QED BY <1>1, <1>4, <2>4, DispatchStep
<1>5. stack' = SetTop(x) \/ stack' = SetTop(y)
  BY DEF Hang
<1> QED BY <1>3, <1>4, <1>5

(* A handler of the dispatch it, which shows f, is done with. *)
LEMMA HandledItem ==
  ASSUME NEW it, DispatchOK(it), it.phase = "next", NEW y, y.kind = "dispatch",
         SameEvent(it, y), y.phase = "next", y.mode = it.mode, EventFrame(it, y.f),
         y.base = it.base, y.ran = it.ran, y.todo = it.todo, IsSeq(y.branches),
         \A i \in 1..Len(y.branches) : IsFiniteSet(DOMAIN y.branches[i].vars),
         NEW failed
  PROVE  /\ DispatchOK(Handled(y, failed))
         /\ \A lo : Link(lo, it) => Link(lo, Handled(y, failed))
<1> DEFINE x == Handled(y, failed)
<1>1. /\ SameEvent(it, x) /\ x.phase = "next" /\ x.mode = it.mode /\ x.f = y.f
      /\ x.base = it.base /\ x.branches = y.branches /\ x.ran = it.ran + 1
      /\ x.todo = it.todo \ {Min(it.todo)}
  BY DEF Handled, SameEvent, DispatchOK
<1>2. x.ran \in Nat /\ IsFiniteSet(x.todo)
  BY <1>1, FS_RemoveElement DEF DispatchOK
<1> HIDE DEF x
<1>3. DispatchOK(x) /\ \A lo : Link(lo, it) => Link(lo, x)
  BY <1>1, <1>2, NextItem DEF DispatchOK
<1> QED BY <1>3 DEF x

LEMMA SerialStep ==
  ASSUME VMInv, HandleSerial
  PROVE  VMInv'
<1> DEFINE f == Applied(F, Top.ev)
           y == [Top EXCEPT !.f = f]
           id == Min(Top.todo)
<1>1. /\ stack # <<>> /\ Top.kind = "dispatch" /\ ret = "none" /\ Top.phase = "next"
      /\ Top.mode # "fork" /\ mem' = mem /\ seq' = seq
  BY DEF HandleSerial, Dispatching
<1>2. DispatchOK(Top) /\ F = Top.f /\ mem \in [Ids -> Records] /\ seq \in Nat
  BY <1>1, DispatchFacts
<1>3. EventFrame(Top, f)
  BY <1>1, <1>2, AppliedEvent
<1>4. InCount(f) /\ IsFrame(f)
  BY <1>3 DEF EventFrame
<1>5. Good(f)
  BY <1>4, WithinGood
<1>6. /\ SameEvent(Top, y) /\ y.kind = "dispatch" /\ y.phase = "next" /\ y.mode = Top.mode
      /\ y.f = f /\ y.base = Top.base /\ y.branches = Top.branches /\ y.ran = Top.ran
      /\ y.todo = Top.todo
  BY <1>1, <1>2 DEF SameEvent, DispatchOK
<1>7. \/ stack' = SetTop(Failing(Top)) /\ ret' = ret /\ ~Within(f)
      \/ stack' = SetTop(Handled(y, TRUE)) /\ ret' = ret
      \/ Executable(id) /\ Push(id, SetTop(y), f)
      \/ Executable(id) /\ \E atomic \in BOOLEAN : PushTxn(id, SetTop(y), f, atomic)
  BY DEF HandleSerial
<1>13. CASE stack' = SetTop(Failing(Top)) /\ ret' = ret /\ ~Within(f)
  <2> DEFINE x == Failing(Top)
  <2>1. /\ SameEvent(Top, x) /\ x.phase = "done" /\ x.mode = Top.mode /\ x.f = Top.f
        /\ x.base = Top.base /\ x.branches = Top.branches /\ x.ran = Top.ran
        /\ x.todo = Top.todo /\ x.failed = TRUE /\ x.ev = Top.ev
    BY <1>2 DEF Failing, SameEvent, DispatchOK
  <2> HIDE DEF x
  <2>2. Complete(x)
    BY <1>2, <1>13, <2>1 DEF Complete
  <2>3. DispatchOK(x) /\ \A lo : Link(lo, Top) => Link(lo, x)
    BY <1>2, <2>1, <2>2, DoneItem DEF DispatchOK
  <2> QED BY <1>1, <1>13, <2>3, DispatchStep DEF x
<1> HIDE DEF f, y, id
<1>8. DispatchOK(y) /\ \A lo : Link(lo, Top) => Link(lo, y)
  BY <1>2, <1>3, <1>6, NextItem DEF DispatchOK
<1>9. StackOK(SetTop(y)) /\ Len(SetTop(y)) > 0 /\ SetTop(y)[Len(SetTop(y))] = y
  BY <1>1, <1>8, DispatchStep
<1>10. CASE stack' = SetTop(Handled(y, TRUE)) /\ ret' = ret
  <2>1. /\ DispatchOK(Handled(y, TRUE))
        /\ \A lo : Link(lo, Top) => Link(lo, Handled(y, TRUE))
    BY <1>1, <1>2, <1>3, <1>6, HandledItem DEF DispatchOK
  <2> QED BY <1>1, <1>10, <2>1, DispatchStep
<1>11. CASE Executable(id) /\ Push(id, SetTop(y), f)
  <2>1. Live(id) /\ Handed(y, f)
    BY <1>6, <1>11, SharedRefl DEF Executable, Handed
  <2> QED BY <1>1, <1>2, <1>5, <1>9, <1>11, <2>1, PushStep
<1>12. CASE Executable(id) /\ \E atomic \in BOOLEAN : PushTxn(id, SetTop(y), f, atomic)
  <2>1. PICK atomic \in BOOLEAN : PushTxn(id, SetTop(y), f, atomic)
    BY <1>12
  <2>2. Live(id)
    BY <1>12 DEF Executable
  <2> QED BY <1>1, <1>2, <1>5, <1>6, <1>9, <2>1, <2>2, PushTxnStep
<1> QED BY <1>7, <1>10, <1>11, <1>12, <1>13

LEMMA BranchKept ==
  ASSUME NEW s, IsSeq(s), \A i \in 1..Len(s) : IsFiniteSet(DOMAIN s[i].vars),
         NEW b, IsFiniteSet(DOMAIN b.vars)
  PROVE  /\ IsSeq(Append(s, b))
         /\ \A i \in 1..Len(Append(s, b)) : IsFiniteSet(DOMAIN Append(s, b)[i].vars)
<1> DEFINE t == Append(s, b)
<1>1. Len(s) \in Nat
  BY SeqFacts
<1>2. /\ IsSeq(t) /\ Len(t) = Len(s) + 1
      /\ \A i \in 1..Len(s) : t[i] = s[i]
      /\ t[Len(s) + 1] = b
  BY SeqAppend
<1> HIDE DEF t
<1>3. \A i \in 1..Len(t) : IsFiniteSet(DOMAIN t[i].vars)
  BY <1>1, <1>2
<1> QED BY <1>2, <1>3 DEF t

LEMMA ForkStep ==
  ASSUME VMInv, HandleFork
  PROVE  VMInv'
<1> DEFINE id == Min(Top.todo)
           y == [Top EXCEPT !.branches = Append(@, Top.base)]
           g == [Top.base EXCEPT !.scope = None]
<1>1. /\ stack # <<>> /\ Top.kind = "dispatch" /\ ret = "none" /\ Top.phase = "next"
      /\ Top.mode = "fork" /\ mem' = mem /\ seq' = seq
  BY DEF HandleFork, Dispatching
<1>2. /\ DispatchOK(Top) /\ F = Top.f /\ mem \in [Ids -> Records] /\ seq \in Nat
      /\ EventFrame(Top, F)
  BY <1>1, DispatchFacts
<1>3. CASE stack' = SetTop([Handled(Top, TRUE) EXCEPT !.branches = Append(@, Top.base)])
           /\ ret' = ret
  <2>1. /\ SameEvent(Top, y) /\ y.kind = "dispatch" /\ y.phase = "next" /\ y.mode = Top.mode
        /\ y.f = F /\ y.base = Top.base /\ y.ran = Top.ran /\ y.todo = Top.todo
        /\ y.branches = Append(Top.branches, Top.base)
    BY <1>1, <1>2 DEF SameEvent, DispatchOK
  <2>2. [Handled(Top, TRUE) EXCEPT !.branches = Append(@, Top.base)] = Handled(y, TRUE)
    BY <1>2 DEF Handled, DispatchOK
  <2> HIDE DEF y
  <2>3. IsSeq(y.branches)
        /\ \A i \in 1..Len(y.branches) : IsFiniteSet(DOMAIN y.branches[i].vars)
    <3>1. IsSeq(Top.branches) /\ IsFiniteSet(DOMAIN Top.base.vars)
          /\ \A i \in 1..Len(Top.branches) : IsFiniteSet(DOMAIN Top.branches[i].vars)
      BY <1>2 DEF DispatchOK, Good, IsFrame
    <3> QED BY <2>1, <3>1, BranchKept
  <2>4. /\ DispatchOK(Handled(y, TRUE))
        /\ \A lo : Link(lo, Top) => Link(lo, Handled(y, TRUE))
    BY <1>1, <1>2, <2>1, <2>3, HandledItem
  <2> QED BY <1>1, <1>3, <2>2, <2>4, DispatchStep
<1>4. CASE Executable(id) /\ \E atomic \in BOOLEAN : PushTxn(id, stack, g, atomic)
  <2>1. PICK atomic \in BOOLEAN : PushTxn(id, stack, g, atomic)
    BY <1>4
  <2>2. Live(id) /\ Good(g)
    BY <1>2, <1>4, ScopeKeeps DEF Executable, DispatchOK
  <2>3. StackOK(stack) /\ Len(stack) > 0 /\ Top = stack[Len(stack)]
    BY <1>1, TopFacts DEF VMInv
  <2> HIDE DEF id, g
  <2> QED BY <1>1, <1>2, <2>1, <2>2, <2>3, PushTxnStep
<1>5. \/ /\ stack' = SetTop([Handled(Top, TRUE) EXCEPT !.branches = Append(@, Top.base)])
         /\ ret' = ret
      \/ Executable(id) /\ \E atomic \in BOOLEAN : PushTxn(id, stack, g, atomic)
  BY DEF HandleFork
<1> QED BY <1>3, <1>4, <1>5

LEMMA HandlerReturnStep ==
  ASSUME VMInv, HandlerReturn
  PROVE  VMInv'
<1> DEFINE y == TakenBack
           x == Handled(y, ret = "error")
<1>1. /\ stack # <<>> /\ Top.kind = "dispatch" /\ ret # "none"
      /\ mem' = mem /\ seq' = seq /\ ret' = "none" /\ stack' = SetTop(x)
  BY DEF HandlerReturn
<1>2. DispatchOK(Top) /\ F = Top.f /\ Top = stack[Len(stack)]
  BY <1>1, DispatchFacts, TopFacts
<1>3. /\ Good(back) /\ Top.phase = "next"
      /\ Top.mode # "fork" => Shared(F, back)
  BY <1>1, <1>2 DEF VMInv, RetOK, Handed
<1>4. EventFrame(Top, F)
  BY <1>1, <1>3, DispatchFacts
<1>5. IsSeq(Top.branches) /\ Len(Top.branches) \in Nat
      /\ \A i \in 1..Len(Top.branches) : IsFiniteSet(DOMAIN Top.branches[i].vars)
  BY <1>2, SeqFacts DEF DispatchOK
<1>6. /\ SameEvent(Top, y) /\ y.kind = "dispatch" /\ y.phase = "next" /\ y.mode = Top.mode
      /\ y.base = Top.base /\ y.ran = Top.ran /\ y.todo = Top.todo
      /\ Top.mode = "fork" => y.f = F /\ y.branches = Append(Top.branches, back)
      /\ Top.mode # "fork" => y.f = back /\ y.branches = Top.branches
  <2>1. CASE Top.mode = "fork"
    BY <1>2, <1>3, <2>1 DEF TakenBack, SameEvent, DispatchOK
  <2>2. CASE Top.mode # "fork"
    BY <1>2, <1>3, <2>2 DEF TakenBack, SameEvent, DispatchOK
  <2> QED BY <2>1, <2>2
<1> HIDE DEF y
<1>7. EventFrame(Top, y.f)
  <2>1. Top.mode # "fork" => EventFrame(Top, back)
    BY <1>2, <1>3, <1>4 DEF EventFrame, Shared, Later, Good
  <2> QED BY <1>4, <1>6, <2>1
<1>8. IsSeq(y.branches)
      /\ \A i \in 1..Len(y.branches) : IsFiniteSet(DOMAIN y.branches[i].vars)
  <2>1. CASE Top.mode = "fork"
    <3>1. IsFiniteSet(DOMAIN back.vars)
      BY <1>3 DEF Good, IsFrame
    <3> QED BY <1>5, <1>6, <2>1, <3>1, BranchKept
  <2>2. CASE Top.mode # "fork"
    BY <1>5, <1>6, <2>2
  <2> QED BY <2>1, <2>2
<1>9. DispatchOK(x) /\ \A lo : Link(lo, Top) => Link(lo, x)
  BY <1>2, <1>3, <1>6, <1>7, <1>8, HandledItem
<1> HIDE DEF x
<1> QED BY <1>1, <1>9, DispatchStep

(* Merging keeps what the branches were given, and adds finitely many     *)
(* variables.                                                             *)
LEMMA MergedFrame ==
  ASSUME NEW f, IsFrame(f), NEW base, NEW branches, IsSeq(branches),
         \A i \in 1..Len(branches) : IsFiniteSet(DOMAIN branches[i].vars)
  PROVE  LET g == Merged(f, base, branches) IN
         /\ IsFrame(g)
         /\ DOMAIN f.vars \subseteq DOMAIN g.vars
         /\ g.meta = f.meta /\ g.mirror = f.mirror /\ g.depth = f.depth /\ g.scope = f.scope
<1> DEFINE g == Merged(f, base, branches)
           C == [i \in 1..Len(branches) |-> Changed(branches[i], base)]
           T == {C[i] : i \in 1..Len(branches)}
<1>1. Len(branches) \in Nat /\ DOMAIN branches = 1..Len(branches)
  BY SeqFacts
<1>2. IsFiniteSet(1..Len(branches))
  BY <1>1, FS_Interval
<1>3. IsFiniteSet(T)
  <2>1. C \in Surjection(1..Len(branches), T)
    BY DEF Surjection
  <2> HIDE DEF C, T
  <2> QED BY <1>2, <2>1, FS_Surjection
<1>4. \A S \in T : IsFiniteSet(S)
  <2>1. \A i \in 1..Len(branches) : C[i] \in SUBSET DOMAIN branches[i].vars
    BY DEF Changed
  <2>2. \A i \in 1..Len(branches) : IsFiniteSet(C[i])
    <3> HIDE DEF C
    <3> QED BY <2>1, FS_Subset
  <2> QED BY <2>2
<1>5. IsFiniteSet(UNION T)
  <2> HIDE DEF T
  <2> QED BY <1>3, <1>4, FS_UNION
<1>6. UNION T = UNION {Changed(branches[i], base) : i \in DOMAIN branches}
  BY <1>1
<1>7. /\ DOMAIN g = DOMAIN f
      /\ DOMAIN g.vars = DOMAIN f.vars
                         \cup UNION {Changed(branches[i], base) : i \in DOMAIN branches}
      /\ g.meta = f.meta /\ g.mirror = f.mirror /\ g.depth = f.depth /\ g.scope = f.scope
      /\ g.canonical = f.canonical
  BY DEF Merged, IsFrame
<1> HIDE DEF g, T
<1>8. IsFiniteSet(DOMAIN g.vars)
  <2> DEFINE U == UNION T
  <2>1. IsFiniteSet(DOMAIN f.vars) /\ DOMAIN g.vars = DOMAIN f.vars \cup U
    BY <1>6, <1>7 DEF IsFrame
  <2>2. IsFiniteSet(U)
    BY <1>5
  <2> HIDE DEF U
  <2>3. IsFiniteSet(DOMAIN f.vars \cup U)
    BY <2>1, <2>2, FS_Union
  <2> QED BY <2>1, <2>3
<1>9. IsFrame(g)
  BY <1>7, <1>8 DEF IsFrame
<1>10. DOMAIN f.vars \subseteq DOMAIN g.vars
  BY <1>7
<1> QED BY <1>7, <1>9, <1>10 DEF g

LEMMA MergeStep ==
  ASSUME VMInv, Merge
  PROVE  VMInv'
<1> DEFINE g == Merged(F, Top.base, Top.branches)
           x == IF Within(g) THEN [Top EXCEPT !.branches = <<>>, !.f = g]
                ELSE [Top EXCEPT !.branches = <<>>, !.failed = TRUE]
<1>1. /\ stack # <<>> /\ Top.kind = "dispatch" /\ ret = "none" /\ Top.phase = "next"
      /\ mem' = mem /\ seq' = seq /\ ret' = ret /\ stack' = SetTop(x)
  BY DEF Merge, Dispatching
<1>2. DispatchOK(Top) /\ F = Top.f /\ EventFrame(Top, F)
  BY <1>1, DispatchFacts
<1>3. /\ IsFrame(g) /\ DOMAIN F.vars \subseteq DOMAIN g.vars
      /\ g.meta = F.meta /\ g.mirror = F.mirror /\ g.depth = F.depth /\ g.scope = F.scope
  BY <1>2, MergedFrame DEF DispatchOK
<1> HIDE DEF g
<1>4. Within(g) => EventFrame(Top, g)
  BY <1>2, <1>3, RoomPlace DEF EventFrame
<1>5. /\ SameEvent(Top, x) /\ x.phase = "next" /\ x.mode = Top.mode /\ x.base = Top.base
      /\ x.ran = Top.ran /\ x.todo = Top.todo /\ x.branches = <<>>
      /\ x.f = IF Within(g) THEN g ELSE F
  <2>1. CASE Within(g)
    BY <1>1, <1>2, <2>1 DEF SameEvent, DispatchOK
  <2>2. CASE ~Within(g)
    BY <1>1, <1>2, <2>2 DEF SameEvent, DispatchOK
  <2> QED BY <2>1, <2>2
<1> HIDE DEF x
<1>6. EventFrame(Top, x.f)
  BY <1>2, <1>4, <1>5
<1>7. IsSeq(<<>>) /\ Len(<<>>) = 0
  BY SeqEmpty
<1>8. DispatchOK(x) /\ \A lo : Link(lo, Top) => Link(lo, x)
  BY <1>2, <1>5, <1>6, <1>7, NextItem DEF DispatchOK
<1> QED BY <1>1, <1>8, DispatchStep

LEMMA DoneStep ==
  ASSUME VMInv, DispatchDone
  PROVE  VMInv'
<1> DEFINE f == [F EXCEPT !.depth = Top.depth]
           a == Applied(f, Top.ev)
           g == [f EXCEPT !.meta = Top.parent.meta, !.mirror = Top.parent.mirror,
                          !.vars = Over(Top.parent.mirror, @)]
           lo == stack[Len(stack) - 1]
<1>1. /\ stack # <<>> /\ Top.kind = "dispatch" /\ mem' = mem /\ seq' = seq
  BY DEF DispatchDone
<1>2. /\ DispatchOK(Top) /\ F = Top.f /\ f = Raised(Top)
      /\ mem \in [Ids -> Records] /\ seq \in Nat
  BY <1>1, DispatchFacts DEF Raised
<1>3. PICK answer \in {"ok", "error"}, b \in {a, f, g} :
        /\ Answer(answer, b)
        /\ \/ Top.parent.meta # None /\ b = g
           \/ Top.parent.meta = None /\ InCount(a) /\ b = a
           \/ Top.parent.meta = None /\ b = f
  <2>1. \E answer \in {"ok", "error"} :
          Answer(answer, IF Top.parent.meta # None \/ Within(Shown(f)) THEN Shown(f) ELSE f)
    BY DEF DispatchDone
  <2>2. Shown(f) = IF Top.parent.meta = None THEN a ELSE g
    BY DEF Shown
  <2> QED BY <2>1, <2>2, RoomPlace
<1>4. Good(f) /\ IsFrame(f) /\ f.depth = Top.depth
  BY <1>2 DEF DispatchOK, Good, Raised, IsFrame
<1>5. f.mirror = F.mirror /\ f.vars = F.vars /\ f.scope = F.scope /\ f.meta = F.meta
  BY <1>2 DEF DispatchOK, IsFrame
<1>6. Top.parent.meta # None => /\ f.meta # None
                                /\ DOMAIN Top.parent.mirror \subseteq DOMAIN f.mirror
  BY <1>2, <1>5 DEF DispatchOK
<1>7. Len(stack) > 1 => /\ lo.kind = "run"
                        /\ Top.parent.meta = lo.f.meta /\ Top.parent.mirror = lo.f.mirror
                        /\ f.depth = lo.f.depth
                        /\ DOMAIN lo.f.vars \subseteq DOMAIN f.vars
                        /\ f.scope = lo.f.scope
                        /\ InCount(lo.f) => InCount(f)
  <2>1. Len(stack) > 1 => Link(lo, Top)
    BY <1>1, TopFacts
  <2> QED BY <1>1, <1>2, <1>4, <1>5, <2>1 DEF Link
<1> HIDE DEF f, lo
<1>8. CASE Top.parent.meta # None /\ b = g
  <2>1. /\ DOMAIN g = DOMAIN f /\ g.meta = Top.parent.meta /\ g.mirror = Top.parent.mirror
        /\ g.vars = Over(Top.parent.mirror, f.vars)
        /\ g.depth = f.depth /\ g.scope = f.scope /\ g.canonical = f.canonical
    BY <1>4 DEF IsFrame
  <2> HIDE DEF g
  <2>2. DOMAIN g.vars = DOMAIN f.vars /\ DOMAIN g.mirror \subseteq DOMAIN f.mirror
    BY <1>4, <1>6, <1>8, <2>1 DEF Over, IsFrame
  <2>3. IsFiniteSet(DOMAIN g.mirror)
        /\ Cardinality(DOMAIN g.mirror) <= Cardinality(DOMAIN f.mirror)
    BY <1>4, <2>2, FS_Subset DEF IsFrame
  <2>4. IsFrame(g)
    BY <1>4, <2>1, <2>2, <2>3 DEF IsFrame
  <2>5. /\ Cardinality(DOMAIN f.vars) \in Nat /\ Cardinality(DOMAIN f.mirror) \in Nat
        /\ Cardinality(DOMAIN g.mirror) \in Nat
    BY <1>4, <2>4, Counts
  <2>6. Load(g) <= Load(f) /\ Size(g) <= Size(f)
    BY <1>6, <1>8, <2>1, <2>2, <2>3, <2>5 DEF Load, Size
  <2>7. {Load(f), Load(g), Size(f), Size(g)} \subseteq Nat /\ Load(f) <= MaxVars
    BY <1>4, <2>4, Counts DEF Good
  <2>8. Good(g) /\ (InCount(f) => InCount(g))
    BY <2>4, <2>6, <2>7, VMAssumption DEF Good, InCount
  <2>9. Len(stack) > 1 => Handed(lo, g)
    BY <1>7, <2>1, <2>2, <2>8 DEF Handed, Shared, Later
  <2> QED BY <1>1, <1>2, <1>3, <1>8, <2>8, <2>9, AnswerStep DEF lo
<1>9. CASE Top.parent.meta = None /\ InCount(a) /\ b = a
  <2>1. /\ IsFrame(a) /\ DOMAIN a.vars = DOMAIN f.vars \cup DOMAIN Top.ev.vars
        /\ a.depth = f.depth /\ a.scope = f.scope
    BY <1>2, <1>4, AppliedFrame DEF DispatchOK
  <2> HIDE DEF a
  <2>2. Good(a)
    BY <1>9, <2>1, WithinGood
  <2>3. Len(stack) > 1 => Handed(lo, a)
    BY <1>7, <1>9, <2>1 DEF Handed, Shared, Later
  <2> QED BY <1>1, <1>2, <1>3, <1>9, <2>2, <2>3, AnswerStep DEF lo
<1>10. CASE Top.parent.meta = None /\ b = f
  <2>1. Len(stack) > 1 => Handed(lo, f)
    BY <1>7, <1>10 DEF Handed, Shared, Later
  <2> QED BY <1>1, <1>2, <1>3, <1>4, <1>10, <2>1, AnswerStep DEF lo
<1> QED BY <1>3, <1>8, <1>9, <1>10

----------------------------------------------------------------------------
(* The whole next-state relation *)

LEMMA NewFrameGood ==
  /\ Good(NewFrame)
  /\ \A vs : IsFiniteSet(DOMAIN vs) => IsFrame([NewFrame EXCEPT !.vars = vs])
<1>1. IsFiniteSet({}) /\ Cardinality({}) = 0 /\ DOMAIN Empty = {}
  BY FS_EmptySet DEF Empty
<1>2. /\ DOMAIN NewFrame = {"vars", "meta", "mirror", "depth", "canonical", "list", "scope"}
      /\ NewFrame.vars = Empty /\ NewFrame.meta = None /\ NewFrame.mirror = Empty
      /\ NewFrame.depth = None /\ NewFrame.canonical = FALSE
  BY DEF NewFrame
<1>3. Load(NewFrame) = 0 /\ MaxVars \in Nat
  BY <1>1, <1>2, VMAssumption DEF Load
<1>4. IsFrame(NewFrame)
  BY <1>1, <1>2 DEF IsFrame
<1>5. ASSUME NEW vs, IsFiniteSet(DOMAIN vs)
      PROVE  IsFrame([NewFrame EXCEPT !.vars = vs])
  <2> DEFINE f == [NewFrame EXCEPT !.vars = vs]
  <2>1. /\ DOMAIN f = DOMAIN NewFrame /\ f.vars = vs /\ f.mirror = Empty
        /\ f.depth = None /\ f.canonical = FALSE
    BY <1>2
  <2> HIDE DEF f
  <2>2. IsFrame(f)
    BY <1>1, <1>2, <1>5, <2>1 DEF IsFrame
  <2> QED BY <2>2 DEF f
<1> QED BY <1>3, <1>4, <1>5 DEF Good

(* A run that is refused, runs out of its budget, or is through. *)
LEMMA EndStep ==
  ASSUME VMInv, Refuse \/ OverBudget \/ Finish
  PROVE  VMInv'
<1>1. /\ Running /\ \E answer \in {"ok", "error"} : Exit(answer, F)
      /\ mem' = mem /\ seq' = seq
  BY DEF Refuse, OverBudget, Finish, AtOp
<1> QED BY <1>1, LeaveStep DEF VMInv

LEMMA RunProgramStep ==
  ASSUME VMInv, NEW id, RunProgram(id)
  PROVE  VMInv'
<1>1. /\ Executable(id) /\ \E atomic \in BOOLEAN : PushTxn(id, <<>>, NewFrame, atomic)
      /\ mem' = mem /\ seq' = seq
  BY DEF RunProgram
<1>2. PICK atomic \in BOOLEAN : PushTxn(id, <<>>, NewFrame, atomic)
  BY <1>1
<1>3. Live(id) /\ Good(NewFrame) /\ StackOK(<<>>) /\ Len(<<>>) = 0
  BY <1>1, NewFrameGood, StackEmpty, SeqEmpty DEF Executable
<1>4. mem \in [Ids -> Records] /\ seq' \in Nat
  BY <1>1 DEF VMInv
<1> QED BY <1>1, <1>2, <1>3, <1>4, PushTxnStep

LEMMA FireEventStep ==
  ASSUME VMInv, NEW name, NEW vs, IsFiniteSet(DOMAIN vs), FireEvent(name, vs)
  PROVE  VMInv'
<1> DEFINE f == [NewFrame EXCEPT !.vars = vs]
           ev == Event(name, vs, f)
           g == Applied(f, ev)
<1>1. /\ stack = <<>> /\ InCount(g) /\ Enqueue(<<>>, f, ev)
      /\ mem' = mem /\ seq' = seq + 1
  BY RoomPlace DEF FireEvent, Enqueueable
<1>2. IsFrame(f)
  BY NewFrameGood
<1>3. mem \in [Ids -> Records] /\ seq \in Nat /\ ret = "none"
  BY <1>1, SeqEmpty DEF VMInv, RetOK
<1> HIDE DEF f
<1>4. ev.id \in Nat /\ ev.vars = vs /\ ev.depth \in Nat
  BY <1>2, <1>3 DEF Event, IsFrame
<1> HIDE DEF ev
<1>5. /\ Load(f) <= Load(g) /\ Load(g) <= Size(g) /\ IsFrame(g)
  BY <1>2, <1>4, AppliedFrame
<1> HIDE DEF g
<1>6. Load(f) <= MaxVars
  BY <1>1, <1>2, <1>5, Counts, Ceils DEF InCount
<1>7. Good(f)
  BY <1>2, <1>6 DEF Good
<1>8. StackOK(<<>>) /\ Len(<<>>) = 0 /\ mem' \in [Ids -> Records] /\ seq' \in Nat
  BY <1>1, <1>3, StackEmpty, SeqEmpty
<1> QED BY <1>1, <1>3, <1>4, <1>7, <1>8, EnqueueStep

LEMMA InitInv == Init => VMInv
<1> SUFFICES ASSUME Init
             PROVE  VMInv
  OBVIOUS
<1>1. mem \in [Ids -> Records]
  <2>1. mem \in [Ids -> UNION {Library[id] : id \in Ids}]
        /\ \A id \in Ids : mem[id] \in Library[id]
    BY DEF Init
  <2> QED BY <2>1, LibraryAssumption
<1>2. StackOK(stack) /\ seq \in Nat /\ ret = "none"
  BY StackEmpty DEF Init
<1> QED BY <1>1, <1>2 DEF VMInv, RetOK

LEMMA NextInv == VMInv /\ [Next]_vars => VMInv'
<1> SUFFICES ASSUME VMInv, [Next]_vars
             PROVE  VMInv'
  OBVIOUS
<1>1. CASE Refuse \/ OverBudget \/ Finish
  BY <1>1, EndStep
<1>2. CASE Primitive
  <2>1. CASE SetVar \/ ListAppend \/ Read \/ ReadList \/ Parse
    BY <2>1, DataStep
  <2>2. CASE Jump \/ LabelOp \/ Halt \/ Bad
    BY <2>2, ControlStep
  <2>3. CASE Grow \/ New \/ Delete \/ Splice \/ Cut
    BY <2>3, RecordStep
  <2>4. CASE Call
    BY <2>4, CallStep
  <2>5. CASE EmitEvent
    BY <2>5, EmitStep
  <2> QED BY <1>2, <2>1, <2>2, <2>3, <2>4, <2>5 DEF Primitive
<1>3. CASE Unwind
  BY <1>3, ResumeStep, TxnStep DEF Unwind
<1>4. CASE Dispatch
  BY <1>4, StartStep, HangStep, SerialStep, ForkStep, HandlerReturnStep, MergeStep, DoneStep
  DEF Dispatch
<1>5. CASE \E e \in Entries : IF e.kind = "run" THEN RunProgram(e.id)
                              ELSE FireEvent(e.ev, e.vars)
  <2>1. PICK e \in Entries : IF e.kind = "run" THEN RunProgram(e.id)
                             ELSE FireEvent(e.ev, e.vars)
    BY <1>5
  <2>2. CASE e.kind = "run"
    BY <2>1, <2>2, RunProgramStep
  <2>3. CASE e.kind # "run"
    BY <2>1, <2>3, FireEventStep, LibraryAssumption
  <2> QED BY <2>2, <2>3
<1>6. CASE UNCHANGED vars
  BY <1>6 DEF vars, VMInv, RetOK
<1> QED BY <1>1, <1>2, <1>3, <1>4, <1>5, <1>6 DEF Next, Step

(* What the stack holds is consistent whatever programs, calls, events and *)
(* failures led here: every Frame that would be handed down fits the one   *)
(* who waits for it (Engine.run, txnScheduler.run, enqueueEvent).          *)
THEOREM VMInvariant == Spec => []VMInv
<1>1. Init => VMInv
  BY InitInv
<1>2. VMInv /\ [Next]_vars => VMInv'
  BY NextInv
<1> QED BY <1>1, <1>2, PTL DEF Spec

----------------------------------------------------------------------------
(* The properties *)

LEMMA InvCeilings == VMInv => CeilingsKept
<1> SUFFICES ASSUME VMInv
             PROVE  CeilingsKept
  OBVIOUS
<1>1. ASSUME NEW id \in Ids
      PROVE  Len(mem[id].prog) <= MaxProgram /\ mem[id].size \in 0..MaxRecord
  BY <1>1 DEF VMInv, Records, Programs
<1>2. ASSUME NEW i \in DOMAIN stack
      PROVE  LET f == stack[i].f IN
             Size(f) <= MaxVars + (IF f.depth = None THEN 0 ELSE 1)
                        + (IF f.canonical THEN 1 ELSE 0)
  <2> DEFINE it == stack[i]
             f == it.f
             c == IF f.canonical THEN 1 ELSE 0
  <2>1. ItemOK(it)
    BY <1>2, SeqFacts DEF VMInv, StackOK
  <2>2. IsFrame(f) /\ Load(f) <= MaxVars + (IF f.depth = None THEN 0 ELSE 1)
    <3>1. CASE RunOK(it) \/ TxnOK(it)
      BY <3>1, Counts, VMAssumption DEF RunOK, TxnOK, Good
    <3>2. CASE DispatchOK(it)
      <4> DEFINE r == Raised(it)
      <4>1. IsFrame(f) /\ f.depth # None /\ it.depth \in Nat \cup {None} /\ Good(r)
        BY <3>2 DEF DispatchOK
      <4>2. r.vars = f.vars /\ r.meta = f.meta /\ r.mirror = f.mirror
        BY <4>1 DEF Raised, IsFrame
      <4> HIDE DEF r
      <4>3. Load(r) <= MaxVars /\ Load(r) \in Nat
        BY <4>1, Counts DEF Good
      <4>4. Cardinality(DOMAIN f.vars) \in Nat /\ Cardinality(DOMAIN f.mirror) \in Nat
        BY <4>1, Counts
      <4>5. Load(f) <= Load(r) + 1
        BY <4>1, <4>2, <4>4 DEF Load
      <4> QED BY <4>1, <4>3, <4>5, Counts, VMAssumption
    <3> QED BY <2>1, <3>1, <3>2 DEF ItemOK
  <2> HIDE DEF f
  <2>3. Size(f) = Load(f) + c /\ Load(f) \in Nat
    BY <2>2, Counts
  <2>4. c \in {0, 1} /\ MaxVars \in Nat
    BY VMAssumption
  <2> HIDE DEF c
  <2>5. Size(f) <= MaxVars + (IF f.depth = None THEN 0 ELSE 1) + c
    BY <2>2, <2>3, <2>4
  <2> QED BY <2>5 DEF f, c
<1> QED BY <1>1, <1>2 DEF CeilingsKept

(* The ceilings on records and Frames hold, for any library of programs,   *)
(* any ceilings and any nesting of calls and events                        *)
(* (physical_limits_runtime.go).                                           *)
THEOREM Ceilings == Spec => []CeilingsKept
  BY VMInvariant, InvCeilings, PTL

LEMMA InvBudget == VMInv => BudgetKept
<1> SUFFICES ASSUME VMInv, NEW i \in Runs
             PROVE  RunOK(stack[i])
  BY DEF BudgetKept, RunOK
<1>1. ItemOK(stack[i]) /\ stack[i].kind = "run"
  BY SeqFacts DEF VMInv, StackOK, Runs
<1> QED BY <1>1 DEF ItemOK, TxnOK, DispatchOK

(* No run exceeds its Memory's budget of operations, writes or events,     *)
(* whatever the runs that share its Frame do (enterFrameResourceScope,     *)
(* checkResourceBudgetBeforePrimitive).                                    *)
THEOREM Budget == Spec => []BudgetKept
  BY VMInvariant, InvBudget, PTL

LEMMA InvSees == VMInv => SeesItsEvent
  BY TopFacts DEF SeesItsEvent, Running, RunOK, F

(* A run keeps seeing its own event, however many events it raises while   *)
(* it runs (enqueueEvent restores the caller's metadata).                  *)
THEOREM Sees == Spec => []SeesItsEvent
  BY VMInvariant, InvSees, PTL

----------------------------------------------------------------------------
(* What a step may not do *)

LEMMA FailedStep == [Next]_vars => ((Running /\ ret' = "error") => mem' = mem)
<1> SUFFICES ASSUME [Next]_vars, Running, ret' = "error"
             PROVE  mem' = mem
  OBVIOUS
<1>1. stack # <<>> /\ Top.kind = "run" /\ ret = "none"
  BY DEF Running
<1>2. ASSUME NEW f, Continue(f)
      PROVE  FALSE
  BY <1>1, <1>2 DEF Continue, Goto
<1>3. CASE Primitive
  <2>1. CASE Grow
    BY <1>2, <2>1 DEF Grow, Fail
  <2>2. CASE New
    BY <1>2, <2>2 DEF New, Fail
  <2>3. CASE Delete
    BY <1>2, <2>3 DEF Delete, Fail
  <2>4. CASE Splice
    BY <1>2, <2>4 DEF Splice, Fail
  <2>5. CASE Cut
    BY <1>2, <2>5 DEF Cut, Fail
  <2>6. CASE SetVar \/ ListAppend \/ Read \/ ReadList \/ Parse \/ Jump \/ LabelOp
    BY <2>6 DEF SetVar, ListAppend, Read, ReadList, Parse, Jump, LabelOp, Fail
  <2>7. CASE Halt \/ Bad \/ Call \/ EmitEvent
    BY <2>7 DEF Halt, Bad, Call, EmitEvent, Fail
  <2> QED BY <1>3, <2>1, <2>2, <2>3, <2>4, <2>5, <2>6, <2>7 DEF Primitive
<1>4. CASE Refuse \/ OverBudget \/ Finish \/ Unwind
  BY <1>1, <1>4 DEF Refuse, OverBudget, Finish, Unwind, Resume, ResumeIsolated, TxnReturn
<1>5. CASE Dispatch
  BY <1>1, <1>5 DEF Dispatch, DispatchStart, Hang, HandleSerial, HandleFork, HandlerReturn,
                    Merge, DispatchDone, Dispatching
<1>6. CASE \E e \in Entries : IF e.kind = "run" THEN RunProgram(e.id)
                              ELSE FireEvent(e.ev, e.vars)
  BY <1>6 DEF RunProgram, FireEvent
<1>7. CASE UNCHANGED vars
  BY <1>7 DEF vars
<1> QED BY <1>3, <1>4, <1>5, <1>6, <1>7 DEF Next, Step

(* A primitive that fails has changed no Memory record, in any program     *)
(* (execPrimitive).                                                        *)
THEOREM FailedChanges == Spec => FailedChangesNothing
<1>1. [Next]_vars => [(Running /\ ret' = "error") => mem' = mem]_vars
  BY FailedStep
<1> QED BY <1>1, PTL DEF Spec, FailedChangesNothing

(* Only the end of a dispatch takes it from the stack. *)
LEMMA DispatchPops ==
  ASSUME VMInv, VMInv', [Next]_vars, Len(stack') < Len(stack), ~crashed',
         Top.kind = "dispatch"
  PROVE  DispatchDone
<1>1. Len(stack) \in Nat /\ Len(stack') \in Nat /\ stack # <<>> /\ IsSeq(stack)
  BY SeqFacts DEF VMInv, StackOK
<1>2. \A x : IsSeq(SetTop(x)) /\ Len(SetTop(x)) = Len(stack)
  BY <1>1, SeqTop, SeqFacts DEF SetTop
<1>3. ASSUME NEW x, stack' = SetTop(x)
      PROVE  FALSE
  BY <1>1, <1>2, <1>3
<1>4. ASSUME NEW id, NEW st, NEW f, IsSeq(st), Len(st) >= Len(stack), Push(id, st, f)
      PROVE  FALSE
  <2>1. stack' = Append(st, Run(id, f))
    BY <1>4 DEF Push, Overflow
  <2>2. Len(stack') = Len(st) + 1 /\ Len(st) \in Nat
    BY <1>4, <2>1, SeqAppend, SeqFacts
  <2> QED BY <1>1, <1>4, <2>2
<1>5. ASSUME NEW id, NEW st, NEW f, NEW a, IsSeq(st), Len(st) >= Len(stack),
             PushTxn(id, st, f, a)
      PROVE  FALSE
  <2>1. IsSeq(Append(st, Txn(f, a))) /\ Len(Append(st, Txn(f, a))) >= Len(stack)
    BY <1>1, <1>5, SeqAppend, SeqFacts
  <2> QED BY <1>4, <1>5, <2>1 DEF PushTxn
<1>6. CASE Dispatch
  <2>1. CASE DispatchStart \/ HandlerReturn \/ Merge
    BY <1>3, <2>1 DEF DispatchStart, HandlerReturn, Merge
  <2>2. CASE Hang
    BY <1>3, <2>2 DEF Hang
  <2>3. CASE HandleSerial
    <3>1. \/ \E x : stack' = SetTop(x)
          \/ \E id, x, f : Push(id, SetTop(x), f)
          \/ \E id, x, f, a : PushTxn(id, SetTop(x), f, a)
      BY <2>3 DEF HandleSerial
    <3> QED BY <1>1, <1>2, <1>3, <1>4, <1>5, <3>1
  <2>4. CASE HandleFork
    <3>1. \/ \E x : stack' = SetTop(x)
          \/ \E id, f, a : PushTxn(id, stack, f, a)
      BY <2>4 DEF HandleFork
    <3> QED BY <1>1, <1>3, <1>5, <3>1
  <2> QED BY <1>6, <2>1, <2>2, <2>3, <2>4 DEF Dispatch
<1>7. CASE Refuse \/ OverBudget \/ Finish \/ Unwind
  BY <1>7 DEF Refuse, OverBudget, Finish, AtOp, Running, Unwind, Resume, ResumeIsolated,
              Returned, TxnReturn
<1>8. CASE Primitive
  BY <1>8 DEF Primitive, SetVar, ListAppend, Read, ReadList, Parse, Jump, LabelOp, Halt, Bad,
              Grow, New, Delete, Splice, Cut, Call, EmitEvent, Is, AtOp, Running
<1>9. CASE \E e \in Entries : IF e.kind = "run" THEN RunProgram(e.id)
                              ELSE FireEvent(e.ev, e.vars)
  BY <1>1, <1>9 DEF RunProgram, FireEvent
<1>10. CASE UNCHANGED vars
  BY <1>1, <1>10 DEF vars
<1> QED BY <1>6, <1>7, <1>8, <1>9, <1>10 DEF Next, Step

(* A dispatch that ends has run all handlers of its event or none of them, *)
(* however they fail and in whatever mode they run, unless what they left  *)
(* in the Frame makes it too large for the event (dispatchPhysicalEvent).  *)
THEOREM NoSuppression == Spec => NoHandlerSuppressed
<1> DEFINE Whole == \/ Top.ran = 0 \/ Top.todo = {}
                    \/ Top.failed /\ ~Within(Applied(F, Top.ev))
<1>1. ASSUME VMInv, VMInv', [Next]_vars
      PROVE  (Len(stack') < Len(stack) /\ ~crashed' /\ Top.kind = "dispatch") => Whole
  <2> SUFFICES ASSUME Len(stack') < Len(stack), ~crashed', Top.kind = "dispatch"
               PROVE  Whole
    OBVIOUS
  <2>1. DispatchDone
    BY <1>1, DispatchPops
  <2>2. stack # <<>> /\ (Top.phase = "done" \/ Top.todo = {})
    BY <2>1 DEF DispatchDone
  <2>3. DispatchOK(Top) /\ F = Top.f
    BY <1>1, <2>2, DispatchFacts
  <2> QED BY <2>2, <2>3 DEF DispatchOK, Complete
<1>2. VMInv /\ VMInv' /\ [Next]_vars =>
        [(Len(stack') < Len(stack) /\ ~crashed' /\ Top.kind = "dispatch") => Whole]_vars
  BY <1>1
<1> QED BY <1>2, VMInvariant, PTL DEF Spec, NoHandlerSuppressed

=============================================================================
