-------------------------- MODULE KernelLocksProofs --------------------------
(***************************************************************************)
(* Theorems about KernelLocks, for any number of goroutines and bodies.    *)
(*                                                                         *)
(* The inductive invariant follows each goroutine through the lock         *)
(* operations it has still to do: Leads(h, s, f) says that from the locks  *)
(* h the operations s are in order, each of them, and leave the locks f.   *)
(* It is about the whole of s, so that a step, which takes one operation   *)
(* off, keeps it, and that the pieces of code are proved once and put      *)
(* together.                                                               *)
(***************************************************************************)
EXTENDS KernelLocks, TLAPS, FiniteSetTheorems, WellFoundedInduction

Phases == {"idle", "speculative", "commit", "replay", "canonical", "inner", "saving"}
Locks == [kind : {"commitMu", "persistence", "dataMu", "guard"}, body : Body]
Items == [lock : Locks, mode : Modes]
Ops   == [op : {"lock", "unlock"}, lock : Locks, mode : Modes]

Item(l, m) == [lock |-> l, mode |-> m]

(* The order of the locks: commitMu, the persistence locks, then dataMu    *)
(* and the guard of each body in the order of the paths.                   *)
Rank(l) ==
  CASE l.kind = "commitMu"    -> 0
    [] l.kind = "persistence" -> 1
    [] l.kind = "dataMu"      -> 2 * Place[l.body]
    [] OTHER                  -> 2 * Place[l.body] + 1

(* A guard is read under the dataMu of its body and written under its      *)
(* write lock.  Every other lock comes after those that are held, unless a *)
(* speculative run with the core's Store pinned goes back for a dataMu.    *)
MayLock(h, l, m) ==
  /\ \A x \in h : x.lock # l
  /\ l.kind = "guard" /\ m = "R" => \E n \in Modes : Item(Data(l.body), n) \in h
  /\ l.kind = "guard" /\ m = "W" => Item(Data(l.body), "W") \in h
  /\ ~(l.kind = "guard" /\ m = "R") =>
       \A x \in h : \/ Rank(x.lock) < Rank(l)
                    \/ /\ x = Item(Guard(Core), "R")
                       /\ l.kind = "dataMu"
                       /\ \/ Place[l.body] < Place[Core]
                          \/ l.body = Core /\ (Mesh \/ Emits)

MayUnlock(h, l, m) ==
  /\ Item(l, m) \in h
  /\ l.kind = "dataMu" => Item(Guard(l.body), "W") \notin h

Legal(h, o) == IF o.op = "lock" THEN MayLock(h, o.lock, o.mode)
                                ELSE MayUnlock(h, o.lock, o.mode)

After(h, o) == IF o.op = "lock" THEN h \cup {Item(o.lock, o.mode)}
                                ELSE h \ {Item(o.lock, o.mode)}

(* g[i]: what is held before the i-th operation of s. *)
Course(g, h, s, f) ==
  /\ g \in [1 .. Len(s) + 1 -> SUBSET Items]
  /\ g[1] = h /\ g[Len(s) + 1] = f
  /\ \A i \in 1 .. Len(s) : Legal(g[i], s[i]) /\ g[i + 1] = After(g[i], s[i])

Leads(h, s, f) == \E g : Course(g, h, s, f)

----------------------------------------------------------------------------
(* Courses *)

(* Nothing to do changes nothing. *)
LEMMA LeadsNothing ==
  ASSUME NEW h \in SUBSET Items
  PROVE  /\ Leads(h, <<>>, h)
         /\ \A f : Leads(h, <<>>, f) => f = h
<1>1. Course([i \in 1 .. 1 |-> h], h, <<>>, h)
  BY DEF Course
<1>2. \A f, g : Course(g, h, <<>>, f) => f = h
  BY DEF Course
<1> QED BY <1>1, <1>2 DEF Leads

(* The first operation, and what is left. *)
LEMMA LeadsStep ==
  ASSUME NEW h \in SUBSET Items, NEW s \in Seq(Ops), NEW f, Leads(h, s, f), s # <<>>
  PROVE  /\ Legal(h, Head(s))
         /\ After(h, Head(s)) \in SUBSET Items
         /\ Leads(After(h, Head(s)), Tail(s), f)
<1>1. PICK g : Course(g, h, s, f)
  BY DEF Leads
<1>2. Len(s) \in Nat \ {0} /\ Head(s) = s[1] /\ Len(Tail(s)) = Len(s) - 1
  OBVIOUS
<1>3. \A i \in 1 .. Len(s) - 1 : Tail(s)[i] = s[i + 1]
  OBVIOUS
<1>4. Legal(h, s[1]) /\ g[2] = After(h, s[1]) /\ g[2] \in SUBSET Items
  BY <1>1, <1>2 DEF Course
<1> DEFINE k == [i \in 1 .. Len(s) |-> g[i + 1]]
<1>5. Course(k, g[2], Tail(s), f)
  <2>1. k \in [1 .. Len(Tail(s)) + 1 -> SUBSET Items]
    BY <1>1, <1>2 DEF Course
  <2>2. k[1] = g[2] /\ k[Len(Tail(s)) + 1] = f
    BY <1>1, <1>2 DEF Course
  <2>3. \A i \in 1 .. Len(Tail(s)) :
          Legal(k[i], Tail(s)[i]) /\ k[i + 1] = After(k[i], Tail(s)[i])
    BY <1>1, <1>2, <1>3 DEF Course
  <2> QED BY <2>1, <2>2, <2>3 DEF Course
<1> QED BY <1>2, <1>4, <1>5 DEF Leads

(* One operation. *)
LEMMA LeadsOne ==
  ASSUME NEW h \in SUBSET Items, NEW o \in Ops, Legal(h, o)
  PROVE  Leads(h, <<o>>, After(h, o)) /\ After(h, o) \in SUBSET Items
<1>1. After(h, o) \in SUBSET Items
  BY DEF After, Item, Items, Ops
<1>2. Course([i \in 1 .. 2 |-> IF i = 1 THEN h ELSE After(h, o)], h, <<o>>, After(h, o))
  BY <1>1 DEF Course
<1> QED BY <1>1, <1>2 DEF Leads

(* One piece of code after the other. *)
LEMMA LeadsConcat ==
  ASSUME NEW s \in Seq(Ops), NEW t \in Seq(Ops), NEW h, NEW f, NEW k,
         Leads(h, s, f), Leads(f, t, k)
  PROVE  Leads(h, s \o t, k)
<1>1. PICK g1 : Course(g1, h, s, f)
  BY DEF Leads
<1>2. PICK g2 : Course(g2, f, t, k)
  BY DEF Leads
<1> DEFINE m == Len(s)
           n == Len(t)
           g == [i \in 1 .. m + n + 1 |-> IF i <= m THEN g1[i] ELSE g2[i - m]]
<1>3. m \in Nat /\ n \in Nat /\ Len(s \o t) = m + n
  OBVIOUS
<1>4. \A i \in 1 .. m + n : (s \o t)[i] = IF i <= m THEN s[i] ELSE t[i - m]
  OBVIOUS
<1>5. g \in [1 .. m + n + 1 -> SUBSET Items]
  BY <1>1, <1>2, <1>3 DEF Course
<1>6. g[1] = h /\ g[m + n + 1] = k
  BY <1>1, <1>2, <1>3 DEF Course
<1>7. ASSUME NEW i \in 1 .. m + n
      PROVE  Legal(g[i], (s \o t)[i]) /\ g[i + 1] = After(g[i], (s \o t)[i])
  <2>1. CASE i < m
    BY <1>1, <1>3, <1>4, <2>1 DEF Course
  <2>2. CASE i = m
    BY <1>1, <1>2, <1>3, <1>4, <2>2 DEF Course
  <2>3. CASE i > m
    <3>1. i - m \in 1 .. n /\ g[i] = g2[i - m] /\ g[i + 1] = g2[(i - m) + 1]
      BY <1>3, <2>3
    <3> QED BY <1>2, <1>3, <1>4, <2>3, <3>1 DEF Course
  <2> QED BY <1>3, <2>1, <2>2, <2>3
<1>8. Course(g, h, s \o t, k)
  BY <1>3, <1>5, <1>6, <1>7 DEF Course
<1> QED BY <1>8 DEF Leads

(* What is held stays a set of locks with their modes. *)
LEMMA AfterType ==
  ASSUME NEW h \in SUBSET Items, NEW o \in Ops
  PROVE  After(h, o) \in SUBSET Items
BY DEF After, Item, Items, Ops

(* Two, three and four operations in a row. *)
LEMMA LeadsTwo ==
  ASSUME NEW h \in SUBSET Items, NEW a \in Ops, NEW b \in Ops, NEW h1, NEW h2,
         Legal(h, a), h1 = After(h, a), Legal(h1, b), h2 = After(h1, b)
  PROVE  <<a, b>> \in Seq(Ops) /\ Leads(h, <<a, b>>, h2)
<1>1. h1 \in SUBSET Items /\ h2 \in SUBSET Items
  BY AfterType
<1> DEFINE g == [i \in 1 .. 3 |-> IF i = 1 THEN h ELSE IF i = 2 THEN h1 ELSE h2]
<1>2. g \in [1 .. 3 -> SUBSET Items] /\ g[1] = h /\ g[2] = h1 /\ g[3] = h2
  BY <1>1
<1>3. /\ <<a, b>> \in Seq(Ops) /\ Len(<<a, b>>) = 2
      /\ <<a, b>>[1] = a /\ <<a, b>>[2] = b
  OBVIOUS
<1> HIDE DEF g
<1>4. Course(g, h, <<a, b>>, h2)
  BY <1>2, <1>3 DEF Course
<1> QED BY <1>3, <1>4 DEF Leads

LEMMA LeadsThree ==
  ASSUME NEW h \in SUBSET Items, NEW a \in Ops, NEW b \in Ops, NEW c \in Ops,
         NEW h1, NEW h2, NEW h3,
         Legal(h, a), h1 = After(h, a), Legal(h1, b), h2 = After(h1, b),
         Legal(h2, c), h3 = After(h2, c)
  PROVE  <<a, b, c>> \in Seq(Ops) /\ Leads(h, <<a, b, c>>, h3)
<1>1. h1 \in SUBSET Items /\ h2 \in SUBSET Items
  BY AfterType
<1>2. h3 \in SUBSET Items
  BY <1>1, AfterType
<1> DEFINE g == [i \in 1 .. 4 |-> IF i = 1 THEN h ELSE IF i = 2 THEN h1
                                 ELSE IF i = 3 THEN h2 ELSE h3]
<1>3. /\ g \in [1 .. 4 -> SUBSET Items]
      /\ g[1] = h /\ g[2] = h1 /\ g[3] = h2 /\ g[4] = h3
  BY <1>1, <1>2
<1>4. /\ <<a, b, c>> \in Seq(Ops) /\ Len(<<a, b, c>>) = 3
      /\ <<a, b, c>>[1] = a /\ <<a, b, c>>[2] = b /\ <<a, b, c>>[3] = c
  OBVIOUS
<1> HIDE DEF g
<1>5. Course(g, h, <<a, b, c>>, h3)
  BY <1>3, <1>4 DEF Course
<1> QED BY <1>4, <1>5 DEF Leads

LEMMA LeadsFour ==
  ASSUME NEW h \in SUBSET Items, NEW a \in Ops, NEW b \in Ops, NEW c \in Ops, NEW d \in Ops,
         NEW h1, NEW h2, NEW h3, NEW h4,
         Legal(h, a), h1 = After(h, a), Legal(h1, b), h2 = After(h1, b),
         Legal(h2, c), h3 = After(h2, c), Legal(h3, d), h4 = After(h3, d)
  PROVE  <<a, b, c, d>> \in Seq(Ops) /\ Leads(h, <<a, b, c, d>>, h4)
<1>1. h1 \in SUBSET Items /\ h2 \in SUBSET Items
  BY AfterType
<1>2. h3 \in SUBSET Items /\ h4 \in SUBSET Items
  BY <1>1, AfterType
<1> DEFINE g == [i \in 1 .. 5 |-> IF i = 1 THEN h ELSE IF i = 2 THEN h1
                                 ELSE IF i = 3 THEN h2 ELSE IF i = 4 THEN h3 ELSE h4]
<1>3. /\ g \in [1 .. 5 -> SUBSET Items]
      /\ g[1] = h /\ g[2] = h1 /\ g[3] = h2 /\ g[4] = h3 /\ g[5] = h4
  BY <1>1, <1>2
<1>4. /\ <<a, b, c, d>> \in Seq(Ops) /\ Len(<<a, b, c, d>>) = 4
      /\ <<a, b, c, d>>[1] = a /\ <<a, b, c, d>>[2] = b
      /\ <<a, b, c, d>>[3] = c /\ <<a, b, c, d>>[4] = d
  OBVIOUS
<1> HIDE DEF g
<1>5. Course(g, h, <<a, b, c, d>>, h4)
  BY <1>3, <1>4 DEF Course
<1> QED BY <1>4, <1>5 DEF Leads

----------------------------------------------------------------------------
(* The pieces of code *)

(* The order of the locks is one of natural numbers. *)
LEMMA RankFacts ==
  /\ Cardinality(Body) \in Nat
  /\ \A b \in Body : Place[b] \in Nat /\ Place[b] > 0 /\ Place[b] <= Cardinality(Body)
  /\ \A l \in Locks : Rank(l) \in Nat /\ Rank(l) <= 2 * Cardinality(Body) + 1
<1>1. Cardinality(Body) \in Nat
  BY LockConstants, FS_CardinalityType
<1>2. \A b \in Body : Place[b] \in 1 .. Cardinality(Body)
  BY LockConstants
<1>3. \A b \in Body : Place[b] \in Nat /\ Place[b] > 0 /\ Place[b] <= Cardinality(Body)
  BY <1>1, <1>2
<1>4. ASSUME NEW l \in Locks
      PROVE  Rank(l) \in Nat /\ Rank(l) <= 2 * Cardinality(Body) + 1
  <2>1. l.body \in Body
    BY DEF Locks
  <2> QED BY <1>1, <1>3, <2>1 DEF Rank
<1> QED BY <1>1, <1>3, <1>4

(* The locks of a body, and the operations on them. *)
LEMMA LockTypes ==
  ASSUME NEW b \in Body, NEW m \in Modes
  PROVE  /\ {Commit, Saving(b), Data(b), Guard(b), Guard(Core), Data(Core)} \subseteq Locks
         /\ \A l \in Locks : Lock(l, m) \in Ops /\ Unlock(l, m) \in Ops /\ Item(l, m) \in Items
BY LockConstants DEF Locks, Ops, Items, Commit, Saving, Data, Guard, Lock, Unlock, Item

(* Locking and unlocking, one at a time. *)
LEMMA OpFacts ==
  ASSUME NEW h, NEW l, NEW m
  PROVE  /\ Legal(h, Lock(l, m)) <=> MayLock(h, l, m)
         /\ Legal(h, Unlock(l, m)) <=> MayUnlock(h, l, m)
         /\ After(h, Lock(l, m)) = h \cup {Item(l, m)}
         /\ After(h, Unlock(l, m)) = h \ {Item(l, m)}
BY DEF Legal, After, Lock, Unlock

(* What may be held when dataMu of b is taken: by a look or a change, ...   *)
Open(h, b) ==
  h \in SUBSET Items /\ \A x \in h : \/ x.lock.kind \in {"commitMu", "persistence"}
                                     \/ /\ x = Item(Guard(Core), "R")
                                        /\ b # Core \/ Mesh \/ Emits

(* ... by a lease, which takes the guard of b as well, ...                   *)
Clear(h, b) ==
  h \in SUBSET Items /\ \A x \in h : \/ x.lock.kind \in {"commitMu", "persistence"}
                                     \/ x = Item(Guard(Core), "R") /\ b # Core

(* ... and by a swap.                                                      *)
Firm(h) == h \in SUBSET Items /\ \A x \in h : x.lock.kind \in {"commitMu", "persistence"}

LEMMA OpenFacts ==
  ASSUME NEW b \in Body, NEW h, Open(h, b), NEW m \in Modes
  PROVE  /\ MayLock(h, Data(b), m)
         /\ Item(Data(b), m) \notin h /\ Item(Guard(b), "W") \notin h
         /\ \A x \in h : x.lock # Data(b)
<1>1. \A x \in h : x.lock # Data(b)
  BY DEF Open, Data, Guard, Item
<1>2. Item(Data(b), m) \notin h /\ Item(Guard(b), "W") \notin h
  BY <1>1 DEF Item, Open, Guard
<1>3. ASSUME NEW x \in h
      PROVE  \/ Rank(x.lock) < Rank(Data(b))
             \/ /\ x = Item(Guard(Core), "R")
                /\ Place[b] < Place[Core] \/ (b = Core /\ (Mesh \/ Emits))
  <2>1. Rank(Data(b)) = 2 * Place[b] /\ Place[b] \in Nat /\ Place[b] > 0
    BY RankFacts DEF Rank, Data
  <2>2. CASE x.lock.kind \in {"commitMu", "persistence"}
    BY <2>1, <2>2 DEF Rank
  <2>3. CASE x = Item(Guard(Core), "R") /\ b # Core
    <3>1. Rank(x.lock) = 2 * Place[Core] + 1 /\ Place[Core] \in Nat /\ Place[b] # Place[Core]
      BY <2>3, RankFacts, LockConstants DEF Rank, Item, Guard
    <3> QED BY <2>1, <2>3, <3>1
  <2> QED BY <2>2, <2>3 DEF Open
<1>4. MayLock(h, Data(b), m)
  BY <1>1, <1>3 DEF MayLock, Data
<1> QED BY <1>1, <1>2, <1>4

LEMMA ClearFacts ==
  ASSUME NEW b \in Body, NEW h, Clear(h, b)
  PROVE  /\ Open(h, b) /\ MayLock(h, Data(b), "R")
         /\ \A m \in Modes : Item(Data(b), m) \notin h /\ Item(Guard(b), m) \notin h
         /\ \A x \in h : x.lock # Data(b) /\ x.lock # Guard(b)
<1>1. Open(h, b)
  BY DEF Clear, Open
<1>2. \A x \in h : x.lock # Data(b) /\ x.lock # Guard(b)
  BY DEF Clear, Data, Guard, Item
<1>3. \A m \in Modes : Item(Data(b), m) \notin h /\ Item(Guard(b), m) \notin h
  BY <1>2 DEF Item
<1> QED BY <1>1, <1>2, <1>3, OpenFacts DEF Modes

LEMMA FirmFacts ==
  ASSUME NEW h, Firm(h), NEW b \in Body
  PROVE  Clear(h, b) /\ Open(h, b) /\ MayLock(h, Data(b), "W")
<1>1. Clear(h, b)
  BY DEF Firm, Clear
<1> QED BY <1>1, ClearFacts, OpenFacts DEF Modes

(* engineStoreOpen and every look at the maps of a body leave what they    *)
(* found.                                                                  *)
LEMMA LeadsPeek ==
  ASSUME NEW b \in Body, NEW h, Open(h, b)
  PROVE  Peek(b) \in Seq(Ops) /\ Leads(h, Peek(b), h)
<1> DEFINE d == Item(Data(b), "R")
<1>1. h \in SUBSET Items /\ "R" \in Modes
  BY DEF Open, Modes
<1>2. Lock(Data(b), "R") \in Ops /\ Unlock(Data(b), "R") \in Ops
  BY <1>1, LockTypes
<1>3. MayLock(h, Data(b), "R") /\ d \notin h /\ Item(Guard(b), "W") \notin h
  BY <1>1, OpenFacts
<1>4. MayUnlock(h \cup {d}, Data(b), "R")
  BY <1>3 DEF MayUnlock, Data, Guard, Item
<1>5. (h \cup {d}) \ {d} = h
  BY <1>3
<1>6. /\ Legal(h, Lock(Data(b), "R")) /\ After(h, Lock(Data(b), "R")) = h \cup {d}
      /\ Legal(h \cup {d}, Unlock(Data(b), "R"))
      /\ After(h \cup {d}, Unlock(Data(b), "R")) = (h \cup {d}) \ {d}
  BY <1>3, <1>4 DEF Legal, After, Lock, Unlock
<1> HIDE DEF d
<1> QED BY <1>1, <1>2, <1>5, <1>6, LeadsTwo DEF Peek

(* acquireStoreLifetimeLease: dataMu, the guard, and dataMu is given back. *)
LEMMA LeaseFacts ==
  ASSUME NEW b \in Body, NEW h, Clear(h, b)
  PROVE  LET a == h \cup {Item(Data(b), "R")}
             c == a \cup {Item(Guard(b), "R")}
             e == h \cup {Item(Guard(b), "R")}
         IN  /\ Legal(h, Lock(Data(b), "R")) /\ After(h, Lock(Data(b), "R")) = a
             /\ Legal(a, Lock(Guard(b), "R")) /\ After(a, Lock(Guard(b), "R")) = c
             /\ Legal(c, Unlock(Data(b), "R")) /\ After(c, Unlock(Data(b), "R")) = e
             /\ Legal(e, Unlock(Guard(b), "R")) /\ After(e, Unlock(Guard(b), "R")) = h
<1> DEFINE d == Item(Data(b), "R")
           g == Item(Guard(b), "R")
<1>1. /\ MayLock(h, Data(b), "R") /\ d \notin h /\ g \notin h /\ d # g
      /\ Item(Guard(b), "W") \notin h
      /\ \A x \in h : x.lock # Guard(b)
  BY ClearFacts DEF Modes, Item, Data, Guard
<1>2. MayLock(h \cup {d}, Guard(b), "R")
  BY <1>1 DEF MayLock, Guard, Data, Item, Modes
<1>3. MayUnlock((h \cup {d}) \cup {g}, Data(b), "R")
  BY <1>1 DEF MayUnlock, Data, Guard, Item
<1>4. MayUnlock(h \cup {g}, Guard(b), "R")
  BY DEF MayUnlock, Guard
<1>5. ((h \cup {d}) \cup {g}) \ {d} = h \cup {g} /\ (h \cup {g}) \ {g} = h
  BY <1>1
<1> HIDE DEF d, g
<1> QED BY <1>1, <1>2, <1>3, <1>4, <1>5, OpFacts DEF d, g

LEMMA LeadsLease ==
  ASSUME NEW b \in Body, NEW h, Clear(h, b)
  PROVE  Lease(b) \in Seq(Ops) /\ Leads(h, Lease(b), h)
<1>1. h \in SUBSET Items /\ "R" \in Modes
  BY DEF Clear, Modes
<1>2. /\ Lock(Data(b), "R") \in Ops /\ Unlock(Data(b), "R") \in Ops
      /\ Lock(Guard(b), "R") \in Ops /\ Unlock(Guard(b), "R") \in Ops
  BY <1>1, LockTypes
<1> QED BY <1>1, <1>2, LeaseFacts, LeadsFour DEF Lease

(* snapshotForSpeculationLazy leaves the guard of the core's Store, and     *)
(* releaseSpeculativeStoreLease gives it back.                             *)
LEMMA LeadsPin ==
  ASSUME NEW h, Clear(h, Core)
  PROVE  /\ Pin \in Seq(Ops) /\ Leads(h, Pin, h \cup {Item(Guard(Core), "R")})
         /\ Unpin \in Seq(Ops) /\ Leads(h \cup {Item(Guard(Core), "R")}, Unpin, h)
<1>1. Core \in Body /\ "R" \in Modes /\ h \in SUBSET Items
  BY LockConstants DEF Modes, Clear
<1>2. /\ Lock(Data(Core), "R") \in Ops /\ Unlock(Data(Core), "R") \in Ops
      /\ Lock(Guard(Core), "R") \in Ops /\ Unlock(Guard(Core), "R") \in Ops
      /\ h \cup {Item(Guard(Core), "R")} \in SUBSET Items
  BY <1>1, LockTypes
<1>3. Pin \in Seq(Ops) /\ Leads(h, Pin, h \cup {Item(Guard(Core), "R")})
  BY <1>1, <1>2, LeaseFacts, LeadsThree DEF Pin
<1> DEFINE e == h \cup {Item(Guard(Core), "R")}
<1>4. Legal(e, Unlock(Guard(Core), "R")) /\ After(e, Unlock(Guard(Core), "R")) = h
  BY <1>1, LeaseFacts
<1>5. e \in SUBSET Items
  BY <1>2
<1> HIDE DEF e
<1>6. Unpin \in Seq(Ops) /\ Leads(e, Unpin, h)
  BY <1>2, <1>4, <1>5, LeadsOne DEF Unpin
<1> QED BY <1>3, <1>6 DEF e

(* A change of a record leaves what it found. *)
LEMMA LeadsEdit ==
  ASSUME NEW b \in Body, NEW h, Open(h, b)
  PROVE  Edit(b) \in Seq(Ops) /\ Leads(h, Edit(b), h)
<1> DEFINE d == Item(Data(b), "W")
<1>1. h \in SUBSET Items /\ "W" \in Modes
  BY DEF Open, Modes
<1>2. Lock(Data(b), "W") \in Ops /\ Unlock(Data(b), "W") \in Ops
  BY <1>1, LockTypes
<1>3. MayLock(h, Data(b), "W") /\ d \notin h /\ Item(Guard(b), "W") \notin h
  BY <1>1, OpenFacts
<1>4. MayUnlock(h \cup {d}, Data(b), "W")
  BY <1>3 DEF MayUnlock, Data, Guard, Item
<1>5. (h \cup {d}) \ {d} = h
  BY <1>3
<1>6. /\ Legal(h, Lock(Data(b), "W")) /\ After(h, Lock(Data(b), "W")) = h \cup {d}
      /\ Legal(h \cup {d}, Unlock(Data(b), "W"))
      /\ After(h \cup {d}, Unlock(Data(b), "W")) = (h \cup {d}) \ {d}
  BY <1>3, <1>4 DEF Legal, After, Lock, Unlock
<1> HIDE DEF d
<1> QED BY <1>1, <1>2, <1>5, <1>6, LeadsTwo DEF Edit

(* finalizePersistedBody and closeStore: the guard is written under dataMu. *)
LEMMA LeadsSwap ==
  ASSUME NEW b \in Body, NEW h, Firm(h)
  PROVE  Swap(b) \in Seq(Ops) /\ Leads(h, Swap(b), h)
<1> DEFINE d == Item(Data(b), "W")
           g == Item(Guard(b), "W")
<1>1. h \in SUBSET Items /\ "W" \in Modes /\ Clear(h, b)
  BY FirmFacts DEF Firm, Modes
<1>2. /\ Lock(Data(b), "W") \in Ops /\ Unlock(Data(b), "W") \in Ops
      /\ Lock(Guard(b), "W") \in Ops /\ Unlock(Guard(b), "W") \in Ops
  BY <1>1, LockTypes
<1>3. /\ MayLock(h, Data(b), "W") /\ d \notin h /\ g \notin h /\ d # g
      /\ \A x \in h : x.lock # Guard(b)
  BY <1>1, FirmFacts, ClearFacts DEF Modes, Item, Data, Guard
<1>4. ASSUME NEW x \in h \cup {d} PROVE Rank(x.lock) < Rank(Guard(b))
  <2>1. Rank(Guard(b)) = 2 * Place[b] + 1 /\ Place[b] \in Nat /\ Place[b] > 0
    BY RankFacts DEF Rank, Guard
  <2>2. CASE x \in h
    BY <2>1, <2>2 DEF Rank, Firm
  <2>3. CASE x = d
    BY <2>1, <2>3 DEF Rank, Data, Item
  <2> QED BY <2>2, <2>3
<1>5. \A x \in h \cup {d} : x.lock # Guard(b)
  BY <1>3 DEF Data, Guard, Item
<1>6. MayLock(h \cup {d}, Guard(b), "W")
  BY <1>4, <1>5 DEF MayLock, Guard
<1>7. MayUnlock((h \cup {d}) \cup {g}, Guard(b), "W")
  BY DEF MayUnlock, Guard
<1>8. MayUnlock(h \cup {d}, Data(b), "W")
  BY <1>3 DEF MayUnlock, Data, Guard, Item
<1>9. ((h \cup {d}) \cup {g}) \ {g} = h \cup {d} /\ (h \cup {d}) \ {d} = h
  BY <1>3
<1>10. /\ Legal(h, Lock(Data(b), "W")) /\ After(h, Lock(Data(b), "W")) = h \cup {d}
       /\ Legal(h \cup {d}, Lock(Guard(b), "W"))
       /\ After(h \cup {d}, Lock(Guard(b), "W")) = (h \cup {d}) \cup {g}
       /\ Legal((h \cup {d}) \cup {g}, Unlock(Guard(b), "W"))
       /\ After((h \cup {d}) \cup {g}, Unlock(Guard(b), "W")) = ((h \cup {d}) \cup {g}) \ {g}
       /\ Legal(h \cup {d}, Unlock(Data(b), "W"))
       /\ After(h \cup {d}, Unlock(Data(b), "W")) = (h \cup {d}) \ {d}
  BY <1>3, <1>6, <1>7, <1>8 DEF Legal, After, Lock, Unlock
<1> HIDE DEF d, g
<1> QED BY <1>1, <1>2, <1>9, <1>10, LeadsFour DEF Swap

(* A persist call starts and ends with at most commitMu. *)
Calling(h) == h \in SUBSET {Item(Commit, "W")}

LEMMA SavingFacts ==
  ASSUME NEW b \in Body, NEW h, Calling(h)
  PROVE  LET k == h \cup {Item(Saving(b), "W")} IN
         /\ Firm(h) /\ Firm(k)
         /\ <<Lock(Saving(b), "W")>> \in Seq(Ops) /\ <<Unlock(Saving(b), "W")>> \in Seq(Ops)
         /\ Leads(h, <<Lock(Saving(b), "W")>>, k)
         /\ Leads(k, <<Unlock(Saving(b), "W")>>, h)
<1> DEFINE x == Item(Saving(b), "W")
<1>1. /\ "W" \in Modes /\ Item(Commit, "W") \in Items /\ x \in Items
      /\ Lock(Saving(b), "W") \in Ops /\ Unlock(Saving(b), "W") \in Ops
  BY LockTypes DEF Modes
<1>2. Firm(h) /\ Firm(h \cup {x})
  BY <1>1 DEF Calling, Firm, Item, Commit, Saving
<1>3. x \notin h /\ (h \cup {x}) \ {x} = h
  BY DEF Calling, Item, Commit, Saving
<1>4. MayLock(h, Saving(b), "W")
  BY DEF MayLock, Calling, Rank, Item, Commit, Saving
<1>5. MayUnlock(h \cup {x}, Saving(b), "W")
  BY DEF MayUnlock, Saving
<1>6. /\ Legal(h, Lock(Saving(b), "W")) /\ After(h, Lock(Saving(b), "W")) = h \cup {x}
      /\ Legal(h \cup {x}, Unlock(Saving(b), "W"))
      /\ After(h \cup {x}, Unlock(Saving(b), "W")) = (h \cup {x}) \ {x}
  BY <1>4, <1>5 DEF Legal, After, Lock, Unlock
<1> HIDE DEF x
<1>7. h \in SUBSET Items /\ h \cup {x} \in SUBSET Items
  BY <1>2 DEF Firm
<1>8. /\ Leads(h, <<Lock(Saving(b), "W")>>, h \cup {x})
      /\ Leads(h \cup {x}, <<Unlock(Saving(b), "W")>>, h)
  BY <1>1, <1>3, <1>6, <1>7, LeadsOne
<1> QED BY <1>1, <1>2, <1>8 DEF x

(* persistEngineIncremental with the journal. *)
LEMMA LeadsJournal ==
  ASSUME NEW b \in Body, NEW h, Calling(h)
  PROVE  Journal(b) \in Seq(Ops) /\ Leads(h, Journal(b), h)
<1> DEFINE k == h \cup {Item(Saving(b), "W")}
           s == <<Lock(Saving(b), "W")>>
           t == <<Unlock(Saving(b), "W")>>
<1>1. /\ Firm(h) /\ Firm(k) /\ s \in Seq(Ops) /\ t \in Seq(Ops)
      /\ Leads(h, s, k) /\ Leads(k, t, h)
  BY SavingFacts
<1>2. Peek(b) \in Seq(Ops) /\ Leads(k, Peek(b), k)
  BY <1>1, FirmFacts, LeadsPeek
<1> DEFINE r == s \o Peek(b)
<1>3. Journal(b) = r \o t
  BY Zenon DEF Journal
<1>4. r = s \o Peek(b)
  OBVIOUS
<1> HIDE DEF k, s, t, r
<1>5. s \o Peek(b) \in Seq(Ops) /\ Leads(h, s \o Peek(b), k)
  BY <1>1, <1>2, LeadsConcat
<1>6. r \in Seq(Ops) /\ Leads(h, r, k)
  BY <1>4, <1>5
<1>7. r \o t \in Seq(Ops) /\ Leads(h, r \o t, h)
  BY <1>1, <1>6, LeadsConcat
<1> QED BY <1>3, <1>7

(* saveBody. *)
LEMMA LeadsSave ==
  ASSUME NEW b \in Body, NEW h, Calling(h)
  PROVE  Save(b) \in Seq(Ops) /\ Leads(h, Save(b), h)
<1> DEFINE k == h \cup {Item(Saving(b), "W")}
           s == <<Lock(Saving(b), "W")>>
           t == <<Unlock(Saving(b), "W")>>
           u == IF b = Core THEN Lease(b) ELSE <<>>
<1>1. /\ Firm(h) /\ Firm(k) /\ s \in Seq(Ops) /\ t \in Seq(Ops)
      /\ Leads(h, s, k) /\ Leads(k, t, h)
  BY SavingFacts
<1>2. /\ Peek(b) \in Seq(Ops) /\ Leads(k, Peek(b), k)
      /\ Lease(b) \in Seq(Ops) /\ Leads(k, Lease(b), k)
      /\ Swap(b) \in Seq(Ops) /\ Leads(k, Swap(b), k)
  BY <1>1, FirmFacts, LeadsPeek, LeadsLease, LeadsSwap
<1>3. k \in SUBSET Items
  BY <1>1 DEF Firm
<1>4. u \in Seq(Ops) /\ Leads(k, u, k)
  BY <1>2, <1>3, LeadsNothing
<1> DEFINE r1 == s \o Lease(b)
           r2 == r1 \o Peek(b)
           r3 == r2 \o Swap(b)
           r4 == r3 \o u
<1>5. Save(b) = r4 \o t
  BY Zenon DEF Save
<1>6. r1 = s \o Lease(b) /\ r2 = r1 \o Peek(b) /\ r3 = r2 \o Swap(b) /\ r4 = r3 \o u
  BY Zenon
<1> HIDE DEF k, s, t, u, r1, r2, r3, r4
<1>7. s \o Lease(b) \in Seq(Ops) /\ Leads(h, s \o Lease(b), k)
  BY <1>1, <1>2, LeadsConcat
<1>8. r1 \in Seq(Ops) /\ Leads(h, r1, k)
  BY <1>6, <1>7
<1>9. r1 \o Peek(b) \in Seq(Ops) /\ Leads(h, r1 \o Peek(b), k)
  BY <1>2, <1>8, LeadsConcat
<1>10. r2 \in Seq(Ops) /\ Leads(h, r2, k)
  BY <1>6, <1>9
<1>11. r2 \o Swap(b) \in Seq(Ops) /\ Leads(h, r2 \o Swap(b), k)
  BY <1>2, <1>10, LeadsConcat
<1>12. r3 \in Seq(Ops) /\ Leads(h, r3, k)
  BY <1>6, <1>11
<1>13. r3 \o u \in Seq(Ops) /\ Leads(h, r3 \o u, k)
  BY <1>4, <1>12, LeadsConcat
<1>14. r4 \in Seq(Ops) /\ Leads(h, r4, k)
  BY <1>6, <1>13
<1>15. r4 \o t \in Seq(Ops) /\ Leads(h, r4 \o t, h)
  BY <1>1, <1>14, LeadsConcat
<1> QED BY <1>5, <1>15

----------------------------------------------------------------------------
(* commitFabricSnapshotDiff *)

(* commitMu, and dataMu of the first n owners. *)
Own(bs, n) == {Item(Commit, "W")} \cup {Item(Data(bs[j]), "W") : j \in 1 .. n}

LEMMA OwnerFacts ==
  ASSUME NEW bs \in OwnerLists
  PROVE  /\ Len(bs) \in Nat
         /\ DOMAIN bs = 1 .. Len(bs)
         /\ \A i \in 1 .. Len(bs) : bs[i] \in Body
         /\ \A i, j \in 1 .. Len(bs) : i < j => Place[bs[i]] < Place[bs[j]]
<1>1. Cardinality(Body) \in Nat
  BY RankFacts
<1>2. PICK n \in 0 .. Cardinality(Body) : bs \in [1 .. n -> Body]
  BY DEF OwnerLists
<1>3. n \in Nat
  BY <1>1
<1>4. bs \in Seq(Body) /\ Len(bs) = n
  BY <1>2, <1>3
<1> QED BY <1>2, <1>3, <1>4 DEF OwnerLists

LEMMA OwnFacts ==
  ASSUME NEW bs \in OwnerLists, NEW n \in 0 .. Len(bs)
  PROVE  /\ Own(bs, n) \in SUBSET Items
         /\ Own(bs, 0) = {Item(Commit, "W")}
         /\ \A b \in Body, m \in Modes : Item(Guard(b), m) \notin Own(bs, n)
         /\ \A x \in Own(bs, n) : x.lock.kind \in {"commitMu", "dataMu"}
<1>1. \A x \in Own(bs, n) : \/ x = Item(Commit, "W")
                            \/ \E j \in 1 .. n : x = Item(Data(bs[j]), "W")
  BY DEF Own
<1>2. \A j \in 1 .. n : bs[j] \in Body
  BY OwnerFacts
<1>3. Own(bs, n) \in SUBSET Items
  BY <1>1, <1>2, LockConstants DEF Item, Items, Locks, Commit, Data, Modes
<1>4. \A x \in Own(bs, n) : x.lock.kind \in {"commitMu", "dataMu"}
  BY <1>1 DEF Item, Commit, Data
<1>5. \A b \in Body, m \in Modes : Item(Guard(b), m) \notin Own(bs, n)
  BY <1>4 DEF Item, Guard
<1>6. Own(bs, 0) = {Item(Commit, "W")}
  BY DEF Own
<1> QED BY <1>3, <1>4, <1>5, <1>6

(* The next owner's dataMu comes after those already taken. *)
LEMMA OwnNext ==
  ASSUME NEW bs \in OwnerLists, NEW i \in 1 .. Len(bs)
  PROVE  /\ MayLock(Own(bs, i - 1), Data(bs[i]), "W")
         /\ MayUnlock(Own(bs, i), Data(bs[i]), "W")
         /\ Own(bs, i - 1) \cup {Item(Data(bs[i]), "W")} = Own(bs, i)
         /\ Own(bs, i) \ {Item(Data(bs[i]), "W")} = Own(bs, i - 1)
<1>1. /\ Len(bs) \in Nat /\ \A j \in 1 .. Len(bs) : bs[j] \in Body
      /\ \A j \in 1 .. i - 1 : Place[bs[j]] < Place[bs[i]]
      /\ i - 1 \in 0 .. Len(bs) /\ i \in 0 .. Len(bs) /\ i \in Nat
  BY OwnerFacts
<1>2. \A x : x \in Own(bs, i - 1) <=> \/ x = Item(Commit, "W")
                                      \/ \E j \in 1 .. i - 1 : x = Item(Data(bs[j]), "W")
  BY DEF Own
<1>3. \A x : x \in Own(bs, i) <=> \/ x = Item(Commit, "W")
                                  \/ \E j \in 1 .. i : x = Item(Data(bs[j]), "W")
  BY DEF Own
<1>4. \A j \in 1 .. i - 1 : Place[bs[j]] \in Nat /\ bs[j] # bs[i]
  BY <1>1, RankFacts
<1>5. \A j \in 1 .. i - 1 : Item(Data(bs[j]), "W") # Item(Data(bs[i]), "W")
  BY <1>4 DEF Item, Data
<1>6. Item(Commit, "W") # Item(Data(bs[i]), "W")
  BY DEF Item, Data, Commit
<1>7. \A j \in 1 .. i : j \in 1 .. i - 1 \/ j = i
  BY <1>1
<1>8. Own(bs, i - 1) \cup {Item(Data(bs[i]), "W")} = Own(bs, i)
  <2>1. \A x : x \in Own(bs, i) <=> x \in Own(bs, i - 1) \/ x = Item(Data(bs[i]), "W")
    BY <1>1, <1>2, <1>3, <1>7
  <2> QED BY <2>1
<1>9. Item(Data(bs[i]), "W") \notin Own(bs, i - 1)
  BY <1>2, <1>5, <1>6
<1>10. Own(bs, i) \ {Item(Data(bs[i]), "W")} = Own(bs, i - 1)
  BY <1>8, <1>9
<1>11. ASSUME NEW x \in Own(bs, i - 1)
       PROVE  x.lock # Data(bs[i]) /\ Rank(x.lock) < Rank(Data(bs[i]))
  <2>1. Rank(Data(bs[i])) = 2 * Place[bs[i]] /\ Place[bs[i]] \in Nat /\ Place[bs[i]] > 0
    BY <1>1, RankFacts DEF Rank, Data
  <2>2. CASE x = Item(Commit, "W")
    BY <2>1, <2>2 DEF Rank, Item, Commit, Data
  <2>3. CASE \E j \in 1 .. i - 1 : x = Item(Data(bs[j]), "W")
    <3>1. PICK j \in 1 .. i - 1 : x = Item(Data(bs[j]), "W")
      BY <2>3
    <3>2. x.lock = Data(bs[j]) /\ Rank(x.lock) = 2 * Place[bs[j]]
      BY <3>1 DEF Rank, Item, Data
    <3>3. Data(bs[j]) # Data(bs[i])
      BY <1>4 DEF Data
    <3> QED BY <1>1, <1>4, <2>1, <3>2, <3>3
  <2> QED BY <1>2, <2>2, <2>3
<1>12. MayLock(Own(bs, i - 1), Data(bs[i]), "W")
  BY <1>11 DEF MayLock, Data
<1>13. MayUnlock(Own(bs, i), Data(bs[i]), "W")
  <2>1. Item(Data(bs[i]), "W") \in Own(bs, i)
    BY <1>8
  <2>2. Item(Guard(bs[i]), "W") \notin Own(bs, i)
    BY <1>1, OwnFacts DEF Modes
  <2> QED BY <2>1, <2>2 DEF MayUnlock, Data
<1> QED BY <1>8, <1>10, <1>12, <1>13

(* lockSpeculativeCommitOwners and its unlock. *)
LEMMA LeadsOwners ==
  ASSUME NEW bs \in OwnerLists
  PROVE  /\ LockAll(bs) \in Seq(Ops) /\ UnlockAll(bs) \in Seq(Ops)
         /\ Leads(Own(bs, 0), LockAll(bs), Own(bs, Len(bs)))
         /\ Leads(Own(bs, Len(bs)), UnlockAll(bs), Own(bs, 0))
<1> DEFINE n == Len(bs)
<1>1. n \in Nat /\ \A j \in 1 .. n : bs[j] \in Body
  BY OwnerFacts
<1>2. \A j \in 1 .. n : Lock(Data(bs[j]), "W") \in Ops /\ Unlock(Data(bs[j]), "W") \in Ops
  BY <1>1, LockTypes DEF Modes
<1>3. /\ LockAll(bs) \in Seq(Ops) /\ Len(LockAll(bs)) = n
      /\ \A i \in 1 .. n : LockAll(bs)[i] = Lock(Data(bs[i]), "W")
  BY <1>1, <1>2 DEF LockAll
<1>4. \A i \in 1 .. n : n + 1 - i \in 1 .. n
  BY <1>1
<1>5. /\ UnlockAll(bs) \in Seq(Ops) /\ Len(UnlockAll(bs)) = n
      /\ \A i \in 1 .. n : UnlockAll(bs)[i] = Unlock(Data(bs[n + 1 - i]), "W")
  BY <1>1, <1>2, <1>4 DEF UnlockAll
<1>6. \A i \in 0 .. n : Own(bs, i) \in SUBSET Items
  BY OwnFacts
<1>7. ASSUME NEW i \in 1 .. n
      PROVE  /\ Legal(Own(bs, i - 1), Lock(Data(bs[i]), "W"))
             /\ After(Own(bs, i - 1), Lock(Data(bs[i]), "W")) = Own(bs, i)
             /\ Legal(Own(bs, i), Unlock(Data(bs[i]), "W"))
             /\ After(Own(bs, i), Unlock(Data(bs[i]), "W")) = Own(bs, i - 1)
  <2>1. /\ MayLock(Own(bs, i - 1), Data(bs[i]), "W")
        /\ MayUnlock(Own(bs, i), Data(bs[i]), "W")
        /\ Own(bs, i - 1) \cup {Item(Data(bs[i]), "W")} = Own(bs, i)
        /\ Own(bs, i) \ {Item(Data(bs[i]), "W")} = Own(bs, i - 1)
    BY OwnNext
  <2> QED BY <2>1 DEF Legal, After, Lock, Unlock
<1> DEFINE g == [i \in 1 .. n + 1 |-> Own(bs, i - 1)]
           k == [i \in 1 .. n + 1 |-> Own(bs, n + 1 - i)]
<1>8. Course(g, Own(bs, 0), LockAll(bs), Own(bs, n))
  <2>1. g \in [1 .. n + 1 -> SUBSET Items] /\ g[1] = Own(bs, 0) /\ g[n + 1] = Own(bs, n)
    BY <1>1, <1>6
  <2>2. \A i \in 1 .. n : g[i] = Own(bs, i - 1) /\ g[i + 1] = Own(bs, i)
    BY <1>1
  <2> HIDE DEF g, n
  <2>3. \A i \in 1 .. n : Legal(g[i], LockAll(bs)[i]) /\ g[i + 1] = After(g[i], LockAll(bs)[i])
    BY <1>3, <1>7, <2>2
  <2> QED BY <1>3, <2>1, <2>3 DEF Course
<1>9. Course(k, Own(bs, n), UnlockAll(bs), Own(bs, 0))
  <2>1. k \in [1 .. n + 1 -> SUBSET Items] /\ k[1] = Own(bs, n) /\ k[n + 1] = Own(bs, 0)
    BY <1>1, <1>6
  <2>2. \A i \in 1 .. n : k[i] = Own(bs, n + 1 - i) /\ k[i + 1] = Own(bs, (n + 1 - i) - 1)
    BY <1>1
  <2> HIDE DEF k, n
  <2>3. ASSUME NEW i \in 1 .. n
        PROVE  Legal(k[i], UnlockAll(bs)[i]) /\ k[i + 1] = After(k[i], UnlockAll(bs)[i])
    <3> DEFINE j == n + 1 - i
    <3>1. /\ j \in 1 .. n /\ k[i] = Own(bs, j) /\ k[i + 1] = Own(bs, j - 1)
          /\ UnlockAll(bs)[i] = Unlock(Data(bs[j]), "W")
      BY <1>4, <1>5, <2>2
    <3> HIDE DEF j
    <3> QED BY <1>7, <3>1
  <2> QED BY <1>5, <2>1, <2>3 DEF Course
<1> QED BY <1>3, <1>5, <1>8, <1>9 DEF Leads

(* physicalOwnerMemoryLocked reads each Store under the owner's dataMu. *)
LEMMA LeadsPageIns ==
  ASSUME NEW bs \in OwnerLists
  PROVE  PageIns(bs) \in Seq(Ops) /\ Leads(Own(bs, Len(bs)), PageIns(bs), Own(bs, Len(bs)))
<1> DEFINE n == Len(bs)
           h == Own(bs, n)
           G(j) == Guard(bs[j])
           x(j) == Item(G(j), "R")
<1>1. n \in Nat /\ \A j \in 1 .. n : bs[j] \in Body
  BY OwnerFacts
<1>2. \A i \in 1 .. 2 * n : (i + 1) \div 2 \in 1 .. n
  BY <1>1
<1>3. \A j \in 1 .. n : Lock(G(j), "R") \in Ops /\ Unlock(G(j), "R") \in Ops /\ x(j) \in Items
  BY <1>1, LockTypes DEF Modes
<1>4. h \in SUBSET Items
  BY <1>1, OwnFacts
<1>5. ASSUME NEW j \in 1 .. n
      PROVE  /\ Legal(h, Lock(G(j), "R")) /\ After(h, Lock(G(j), "R")) = h \cup {x(j)}
             /\ Legal(h \cup {x(j)}, Unlock(G(j), "R"))
             /\ After(h \cup {x(j)}, Unlock(G(j), "R")) = h
  <2>1. Item(Data(bs[j]), "W") \in h
    BY DEF Own
  <2>2. x(j) \notin h /\ \A y \in h : y.lock # G(j)
    <3>1. \A y \in h : y.lock.kind \in {"commitMu", "dataMu"}
      BY <1>1, OwnFacts
    <3> QED BY <3>1 DEF Guard, Item
  <2>3. MayLock(h, G(j), "R")
    BY <2>1, <2>2 DEF MayLock, Guard, Modes
  <2>4. MayUnlock(h \cup {x(j)}, G(j), "R")
    BY DEF MayUnlock, Guard
  <2>5. (h \cup {x(j)}) \ {x(j)} = h
    BY <2>2
  <2> HIDE DEF h, G
  <2>6. /\ Legal(h, Lock(G(j), "R")) /\ After(h, Lock(G(j), "R")) = h \cup {x(j)}
        /\ Legal(h \cup {x(j)}, Unlock(G(j), "R"))
        /\ After(h \cup {x(j)}, Unlock(G(j), "R")) = (h \cup {x(j)}) \ {x(j)}
    BY <2>3, <2>4 DEF Legal, After, Lock, Unlock
  <2> QED BY <2>5, <2>6
<1>6. /\ PageIns(bs) \in Seq(Ops) /\ Len(PageIns(bs)) = 2 * n
      /\ \A i \in 1 .. 2 * n : PageIns(bs)[i] =
           IF i % 2 = 1 THEN Lock(G((i + 1) \div 2), "R") ELSE Unlock(G((i + 1) \div 2), "R")
  <2>1. \A i \in 1 .. 2 * n : PageIns(bs)[i] =
          IF i % 2 = 1 THEN Lock(G((i + 1) \div 2), "R") ELSE Unlock(G((i + 1) \div 2), "R")
    BY DEF PageIns
  <2>2. \A i \in 1 .. 2 * n : PageIns(bs)[i] \in Ops
    BY <1>2, <1>3, <2>1
  <2>3. PageIns(bs) \in [1 .. 2 * n -> Ops]
    BY <2>2 DEF PageIns
  <2> QED BY <1>1, <2>1, <2>3
<1> DEFINE g == [i \in 1 .. 2 * n + 1 |-> IF i % 2 = 1 THEN h ELSE h \cup {x(i \div 2)}]
<1>7. g \in [1 .. 2 * n + 1 -> SUBSET Items]
  <2>1. \A i \in 1 .. 2 * n + 1 : i % 2 # 1 => i \div 2 \in 1 .. n
    BY <1>1
  <2> HIDE DEF h, x
  <2> QED BY <1>3, <1>4, <2>1
<1>8. g[1] = h /\ g[2 * n + 1] = h
  <2>1. 1 \in 1 .. 2 * n + 1 /\ 2 * n + 1 \in 1 .. 2 * n + 1 /\ 1 % 2 = 1 /\ (2 * n + 1) % 2 = 1
    BY <1>1
  <2> HIDE DEF h, x
  <2> QED BY <2>1
<1>9. ASSUME NEW i \in 1 .. 2 * n
      PROVE  Legal(g[i], PageIns(bs)[i]) /\ g[i + 1] = After(g[i], PageIns(bs)[i])
  <2>1. i \in 1 .. 2 * n + 1 /\ i + 1 \in 1 .. 2 * n + 1
    BY <1>1
  <2>2. CASE i % 2 = 1
    <3>1. (i + 1) % 2 # 1
      BY <1>1, <2>2
    <3> DEFINE j == (i + 1) \div 2
    <3>2. g[i] = h /\ g[i + 1] = h \cup {x(j)} /\ PageIns(bs)[i] = Lock(G(j), "R")
      BY <1>6, <2>1, <2>2, <3>1
    <3>3. j \in 1 .. n
      BY <1>2
    <3> HIDE DEF j, g, h, x, G
    <3> QED BY <1>5, <3>2, <3>3
  <2>3. CASE i % 2 # 1
    <3>1. (i + 1) % 2 = 1 /\ (i + 1) \div 2 = i \div 2
      BY <1>1, <2>3
    <3> DEFINE j == (i + 1) \div 2
    <3>2. g[i] = h \cup {x(j)} /\ g[i + 1] = h /\ PageIns(bs)[i] = Unlock(G(j), "R")
      BY <1>6, <2>1, <2>3, <3>1
    <3>3. j \in 1 .. n
      BY <1>2
    <3> HIDE DEF j, g, h, x, G
    <3> QED BY <1>5, <3>2, <3>3
  <2> QED BY <2>2, <2>3
<1>10. Course(g, h, PageIns(bs), h)
  <2> HIDE DEF g, h
  <2> QED BY <1>6, <1>7, <1>8, <1>9 DEF Course
<1> QED BY <1>6, <1>10 DEF Leads

LEMMA LeadsCommit ==
  ASSUME NEW bs \in OwnerLists
  PROVE  /\ CommitOwners(bs) \in Seq(Ops)
         /\ Leads({Item(Commit, "W")}, CommitOwners(bs), {Item(Commit, "W")})
<1> DEFINE c == {Item(Commit, "W")}
           h == Own(bs, Len(bs))
           r == LockAll(bs) \o PageIns(bs)
<1>1. c = Own(bs, 0)
  BY OwnFacts, OwnerFacts
<1>2. /\ LockAll(bs) \in Seq(Ops) /\ UnlockAll(bs) \in Seq(Ops) /\ PageIns(bs) \in Seq(Ops)
      /\ Leads(c, LockAll(bs), h) /\ Leads(h, PageIns(bs), h) /\ Leads(h, UnlockAll(bs), c)
  BY <1>1, LeadsOwners, LeadsPageIns
<1>3. CommitOwners(bs) = r \o UnlockAll(bs) /\ r = LockAll(bs) \o PageIns(bs)
  BY Zenon DEF CommitOwners
<1> HIDE DEF c, h, r
<1>4. LockAll(bs) \o PageIns(bs) \in Seq(Ops) /\ Leads(c, LockAll(bs) \o PageIns(bs), h)
  BY <1>2, LeadsConcat
<1>5. r \in Seq(Ops) /\ Leads(c, r, h)
  BY <1>3, <1>4
<1>6. r \o UnlockAll(bs) \in Seq(Ops) /\ Leads(c, r \o UnlockAll(bs), c)
  BY <1>2, <1>5, LeadsConcat
<1> QED BY <1>3, <1>6 DEF c

(* commitMu is taken with empty hands. *)
LEMMA LeadsLane ==
  /\ <<Lock(Commit, "W")>> \in Seq(Ops) /\ <<Unlock(Commit, "W")>> \in Seq(Ops)
  /\ Leads({}, <<Lock(Commit, "W")>>, {Item(Commit, "W")})
  /\ Leads({Item(Commit, "W")}, <<Unlock(Commit, "W")>>, {})
<1> DEFINE c == {Item(Commit, "W")}
<1>1. Lock(Commit, "W") \in Ops /\ Unlock(Commit, "W") \in Ops /\ c \in SUBSET Items
  BY LockTypes, LockConstants DEF Modes
<1>2. Legal({}, Lock(Commit, "W")) /\ After({}, Lock(Commit, "W")) = c
  BY DEF Legal, After, Lock, MayLock, Commit
<1>3. Legal(c, Unlock(Commit, "W")) /\ After(c, Unlock(Commit, "W")) = {}
  BY DEF Legal, After, Unlock, MayUnlock, Commit
<1> HIDE DEF c
<1>4. Leads({}, <<Lock(Commit, "W")>>, c)
  BY <1>1, <1>2, LeadsOne
<1>5. Leads(c, <<Unlock(Commit, "W")>>, {})
  BY <1>1, <1>3, LeadsOne
<1> QED BY <1>1, <1>4, <1>5 DEF c

----------------------------------------------------------------------------
(* The invariant *)

LockTypeOK ==
  /\ phase \in [Procs -> Phases]
  /\ todo \in [Procs -> Seq(Ops)]
  /\ held \in [Procs -> SUBSET Items]

(* A lock held for writing has one holder. *)
OneWriter ==
  \A p, q \in Procs, l \in Locks : Has(p, l, "W") /\ Holds(q, l) => p = q

(* A guard is held for writing under dataMu of its body. *)
Covered == \A p \in Procs, b \in Body : Has(p, Guard(b), "W") => Has(p, Data(b), "W")

(* What a goroutine has still to do is in order and leaves what it is      *)
(* entitled to at its next decision.                                       *)
Followed == \A p \in Procs : Leads(held[p], todo[p], Entitled(phase[p]))

LockInv == LockTypeOK /\ OneWriter /\ Covered /\ Followed

LEMMA InitLockInv == Init => LockInv
<1> SUFFICES ASSUME Init PROVE LockInv
  OBVIOUS
<1>1. \A p \in Procs : phase[p] = "idle" /\ todo[p] = <<>> /\ held[p] = {}
  BY DEF Init
<1>2. LockTypeOK
  BY DEF Init, LockTypeOK, Phases
<1>3. OneWriter /\ Covered
  BY <1>1 DEF OneWriter, Covered, Has
<1>4. Entitled("idle") = {} /\ Leads({}, <<>>, {})
  BY LeadsNothing DEF Entitled
<1>5. Followed
  BY <1>1, <1>4 DEF Followed
<1> QED BY <1>2, <1>3, <1>5 DEF LockInv

(* What a goroutine that has operations to do may do next. *)
LEMMA NextOp ==
  ASSUME LockInv, NEW p \in Procs, todo[p] # <<>>
  PROVE  /\ held[p] \in SUBSET Items /\ Head(todo[p]) \in Ops /\ Tail(todo[p]) \in Seq(Ops)
         /\ Legal(held[p], Head(todo[p]))
         /\ After(held[p], Head(todo[p])) \in SUBSET Items
         /\ Leads(After(held[p], Head(todo[p])), Tail(todo[p]), Entitled(phase[p]))
<1>1. /\ held[p] \in SUBSET Items /\ todo[p] \in Seq(Ops)
      /\ Leads(held[p], todo[p], Entitled(phase[p]))
  BY DEF LockInv, LockTypeOK, Followed
<1> QED BY <1>1, LeadsStep

(* An operation in order keeps guards written under dataMu. *)
LEMMA AfterCovered ==
  ASSUME NEW h \in SUBSET Items, NEW o \in Ops, Legal(h, o), NEW b \in Body,
         Item(Guard(b), "W") \in h => Item(Data(b), "W") \in h
  PROVE  Item(Guard(b), "W") \in After(h, o) => Item(Data(b), "W") \in After(h, o)
<1>1. CASE o.op = "lock"
  BY <1>1 DEF Legal, After, MayLock, Item, Guard, Data
<1>2. CASE o.op # "lock"
  BY <1>2 DEF Legal, After, MayUnlock, Item, Guard, Data
<1> QED BY <1>1, <1>2

(* Some goroutines do one operation each. *)
LEMMA MoveInv ==
  ASSUME LockInv, NEW M \in SUBSET Procs, \A q \in M : todo[q] # <<>>,
         \A q \in Procs : held'[q] = IF q \in M THEN After(held[q], Head(todo[q])) ELSE held[q],
         \A q \in Procs : todo'[q] = IF q \in M THEN Tail(todo[q]) ELSE todo[q],
         held' = [q \in Procs |-> held'[q]],
         todo' = [q \in Procs |-> todo'[q]], phase' = phase
  PROVE  LockTypeOK' /\ Covered' /\ Followed'
<1>1. ASSUME NEW q \in Procs
      PROVE  /\ held'[q] \in SUBSET Items /\ todo'[q] \in Seq(Ops)
             /\ Leads(held'[q], todo'[q], Entitled(phase[q]))
  <2>1. CASE q \in M
    BY <2>1, NextOp
  <2>2. CASE q \notin M
    BY <2>2 DEF LockInv, LockTypeOK, Followed
  <2> QED BY <2>1, <2>2
<1>2. LockTypeOK'
  BY <1>1 DEF LockTypeOK, LockInv
<1>3. Followed'
  BY <1>1 DEF Followed
<1>4. ASSUME NEW q \in Procs, NEW b \in Body, Item(Guard(b), "W") \in held'[q]
      PROVE  Item(Data(b), "W") \in held'[q]
  <2>1. Item(Guard(b), "W") \in held[q] => Item(Data(b), "W") \in held[q]
    BY DEF LockInv, Covered, Has, Item
  <2>2. CASE q \in M
    <3>1. held[q] \in SUBSET Items /\ Head(todo[q]) \in Ops /\ Legal(held[q], Head(todo[q]))
      BY <2>2, NextOp
    <3>2. held'[q] = After(held[q], Head(todo[q]))
      BY <2>2
    <3> QED BY <1>4, <2>1, <3>1, <3>2, AfterCovered
  <2>3. CASE q \notin M
    BY <1>4, <2>1, <2>3
  <2> QED BY <2>2, <2>3
<1>5. Covered'
  BY <1>4 DEF Covered, Has, Item
<1> QED BY <1>2, <1>3, <1>5

(* A goroutine takes a lock nobody keeps from it. *)
LEMMA LockStepInv ==
  ASSUME LockInv, NEW p \in Procs, LockStep(p)
  PROVE  LockInv'
<1> DEFINE o == Head(todo[p])
<1>1. /\ todo[p] # <<>> /\ o.op = "lock" /\ BlockedBy(p) = {} /\ phase' = phase
      /\ WantsLock(p)
  BY DEF LockStep, WantsLock
<1>2. After(held[p], o) = held[p] \cup {Item(o.lock, o.mode)}
  BY <1>1 DEF After
<1>3. /\ held \in [Procs -> SUBSET Items] /\ todo \in [Procs -> Seq(Ops)]
      /\ o \in Ops /\ o.lock \in Locks /\ o.mode \in Modes
  BY <1>1, NextOp DEF LockInv, LockTypeOK, Ops
<1>4. /\ held' = [held EXCEPT ![p] = After(held[p], o)]
      /\ todo' = [todo EXCEPT ![p] = Tail(todo[p])]
  BY <1>2 DEF LockStep, Item
<1> HIDE DEF o
<1>5. \A q \in Procs : /\ held'[q] = IF q = p THEN After(held[q], o) ELSE held[q]
                       /\ todo'[q] = IF q = p THEN Tail(todo[q]) ELSE todo[q]
  BY <1>3, <1>4
<1>6. held' = [q \in Procs |-> held'[q]] /\ todo' = [q \in Procs |-> todo'[q]]
  BY <1>3, <1>4
<1>7. LockTypeOK' /\ Covered' /\ Followed'
  <2>1. \A q \in Procs : /\ held'[q] = IF q \in {p} THEN After(held[q], Head(todo[q])) ELSE held[q]
                         /\ todo'[q] = IF q \in {p} THEN Tail(todo[q]) ELSE todo[q]
    BY <1>5 DEF o
  <2>2. {p} \in SUBSET Procs /\ \A q \in {p} : todo[q] # <<>>
    BY <1>1
  <2> QED BY <1>1, <1>6, <2>1, <2>2, MoveInv
<1>8. \A q \in Procs, l \in Locks, m \in Modes :
        Has(q, l, m)' <=> Has(q, l, m) \/ (q = p /\ l = o.lock /\ m = o.mode)
  BY <1>2, <1>5 DEF Has, Item
<1>9. o.mode = "W" => \A q \in Procs : ~Holds(q, o.lock)
  BY <1>1 DEF BlockedBy, o
<1>10. o.mode = "R" => \A q \in Procs : ~Has(q, o.lock, "W")
  BY <1>1 DEF BlockedBy, o
<1>11. \A q \in Procs, l \in Locks : Holds(q, l)' => Holds(q, l) \/ (q = p /\ l = o.lock)
  BY <1>8 DEF Holds
<1>12. OneWriter'
  <2> SUFFICES ASSUME NEW a \in Procs, NEW b \in Procs, NEW l \in Locks,
                      Has(a, l, "W")', Holds(b, l)'
               PROVE  a = b
    BY DEF OneWriter
  <2>1. Has(a, l, "W") \/ (a = p /\ l = o.lock /\ o.mode = "W")
    BY <1>8 DEF Modes
  <2>2. Holds(b, l) \/ (b = p /\ l = o.lock)
    BY <1>11
  <2>3. Has(a, l, "W") => Holds(a, l)
    BY DEF Holds, Modes
  <2>4. o.mode = "W" \/ o.mode = "R"
    BY <1>3 DEF Modes
  <2> QED BY <1>9, <1>10, <2>1, <2>2, <2>3, <2>4 DEF LockInv, OneWriter
<1> QED BY <1>7, <1>12 DEF LockInv

(* A goroutine gives a lock back; a writer lets the readers in that wait. *)
LEMMA UnlockStepInv ==
  ASSUME LockInv, NEW p \in Procs, UnlockStep(p)
  PROVE  LockInv'
<1> DEFINE o == Head(todo[p])
           l0 == o.lock
           A == Admitted(p)
           M == {p} \cup A
<1>1. /\ todo[p] # <<>> /\ o.op = "unlock" /\ phase' = phase
      /\ held[p] \in SUBSET Items /\ Legal(held[p], o) /\ o \in Ops
  BY NextOp DEF UnlockStep
<1>2. o.lock \in Locks /\ o.mode \in Modes /\ Has(p, l0, o.mode)
  BY <1>1 DEF Ops, Legal, MayUnlock, Has, Item
<1>3. A \in SUBSET Procs /\ \A q \in A : /\ todo[q] # <<>> /\ Head(todo[q]) = Lock(l0, "R")
                                         /\ o.mode = "W" /\ q # p
  BY <1>1 DEF Admitted, WantsLock, Lock
<1>4. After(held[p], o) = held[p] \ {Item(l0, o.mode)}
  BY <1>1 DEF After
<1>5. \A q \in A : After(held[q], Head(todo[q])) = held[q] \cup {Item(l0, "R")}
  BY <1>3 DEF After, Lock
<1>6. /\ held' = [q \in Procs |-> CASE q = p -> held[p] \ {Item(l0, o.mode)}
                                    [] q \in A -> held[q] \cup {Item(l0, "R")}
                                    [] OTHER -> held[q]]
      /\ todo' = [q \in Procs |-> IF q \in M THEN Tail(todo[q]) ELSE todo[q]]
  BY DEF UnlockStep, Item
<1> HIDE DEF o, l0, A
<1>7. \A q \in Procs : held'[q] = CASE q = p -> held[p] \ {Item(l0, o.mode)}
                                    [] q \in A -> held[q] \cup {Item(l0, "R")}
                                    [] OTHER -> held[q]
  BY <1>6
<1>8. LockTypeOK' /\ Covered' /\ Followed'
  <2>1. \A q \in Procs : held'[q] = IF q \in M THEN After(held[q], Head(todo[q])) ELSE held[q]
    BY <1>3, <1>4, <1>5, <1>7 DEF o
  <2>2. \A q \in Procs : todo'[q] = IF q \in M THEN Tail(todo[q]) ELSE todo[q]
    BY <1>6
  <2>3. held' = [q \in Procs |-> held'[q]] /\ todo' = [q \in Procs |-> todo'[q]]
    BY <1>6
  <2>4. M \in SUBSET Procs /\ \A q \in M : todo[q] # <<>>
    BY <1>1, <1>3
  <2> HIDE DEF M
  <2> QED BY <1>1, <2>1, <2>2, <2>3, <2>4, MoveInv
<1>9. /\ held'[p] = held[p] \ {Item(l0, o.mode)}
      /\ \A q \in Procs : q \in A => held'[q] = held[q] \cup {Item(l0, "R")}
      /\ \A q \in Procs : q # p /\ q \notin A => held'[q] = held[q]
  BY <1>3, <1>7
<1>10. ASSUME NEW q \in Procs, NEW l \in Locks, Item(l, "W") \in held'[q]
       PROVE  Item(l, "W") \in held[q] /\ ~(q = p /\ l = l0 /\ o.mode = "W")
  <2>1. CASE q = p
    BY <1>10, <1>9, <2>1 DEF Item
  <2>2. CASE q \in A
    <3>1. Item(l, "W") # Item(l0, "R")
      BY DEF Item
    <3> QED BY <1>3, <1>10, <1>9, <2>2, <3>1
  <2>3. CASE q # p /\ q \notin A
    BY <1>10, <1>9, <2>3
  <2> QED BY <2>1, <2>2, <2>3
<1>11. ASSUME NEW q \in Procs, NEW l \in Locks, NEW m \in Modes, Item(l, m) \in held'[q]
       PROVE  Item(l, m) \in held[q] \/ (q \in A /\ l = l0)
  <2>1. CASE q = p
    BY <1>11, <1>9, <2>1
  <2>2. CASE q \in A
    BY <1>11, <1>9, <2>2 DEF Item
  <2>3. CASE q # p /\ q \notin A
    BY <1>11, <1>9, <2>3
  <2> QED BY <2>1, <2>2, <2>3
<1>12. OneWriter'
  <2> SUFFICES ASSUME NEW a \in Procs, NEW b \in Procs, NEW l \in Locks,
                      Has(a, l, "W")', Holds(b, l)'
               PROVE  a = b
    BY DEF OneWriter
  <2>1. Has(a, l, "W") /\ ~(a = p /\ l = l0 /\ o.mode = "W")
    BY <1>10 DEF Has, Item
  <2>4. Holds(b, l) \/ (b \in A /\ l = l0)
    BY <1>11 DEF Holds, Has, Item
  <2>2. CASE Holds(b, l)
    BY <2>1, <2>2 DEF LockInv, OneWriter
  <2>3. CASE b \in A /\ l = l0
    <3>1. o.mode = "W" /\ Holds(p, l0)
      BY <1>2, <1>3, <2>3 DEF Holds
    <3>2. a = p
      BY <1>2, <2>1, <2>3, <3>1 DEF LockInv, OneWriter, l0
    <3> QED BY <2>1, <2>3, <3>1, <3>2
  <2> QED BY <2>2, <2>3, <2>4
<1> QED BY <1>8, <1>12 DEF LockInv

(* A goroutine decides what to do next. *)
LEMMA DoesInv ==
  ASSUME LockInv, NEW p \in Procs, NEW from, NEW to \in Phases, NEW s \in Seq(Ops),
         Decides(p, from), Does(p, to, s), Leads(Entitled(from), s, Entitled(to))
  PROVE  LockInv'
<1>1. phase[p] = from /\ todo[p] = <<>> /\ held' = held
  BY DEF Decides, Does
<1>2. /\ phase \in [Procs -> Phases] /\ todo \in [Procs -> Seq(Ops)]
      /\ held \in [Procs -> SUBSET Items] /\ Leads(held[p], todo[p], Entitled(phase[p]))
  BY DEF LockInv, LockTypeOK, Followed
<1>3. held[p] = Entitled(from)
  <2>1. held[p] \in SUBSET Items /\ Leads(held[p], <<>>, Entitled(from))
    BY <1>1, <1>2
  <2> QED BY <2>1, LeadsNothing
<1>4. /\ \A q \in Procs : q # p => phase'[q] = phase[q] /\ todo'[q] = todo[q]
      /\ phase'[p] = to /\ todo'[p] = s
  BY <1>2 DEF Does
<1>5. LockTypeOK'
  BY <1>1, <1>2 DEF Does, LockTypeOK
<1>6. Followed'
  BY <1>1, <1>3, <1>4 DEF Followed, LockInv
<1>7. OneWriter' /\ Covered'
  BY <1>1 DEF LockInv, OneWriter, Covered, Has, Holds
<1> QED BY <1>5, <1>6, <1>7 DEF LockInv

(* What a goroutine is entitled to, and what it may do with it. *)
LEMMA EntitledFacts ==
  LET pin == {Item(Guard(Core), "R")}
      lane == {Item(Commit, "W")}
  IN  /\ Entitled("idle") = {} /\ Entitled("saving") = {}
      /\ Entitled("speculative") = pin
      /\ Entitled("commit") = lane /\ Entitled("replay") = lane /\ Entitled("canonical") = lane
      /\ Calling({}) /\ Firm({}) /\ \A b \in Body : Clear({}, b)
      /\ Calling(lane) /\ Firm(lane) /\ \A b \in Body : Clear(lane, b)
      /\ \A b \in Body : b # Core => Clear(pin, b)
      /\ \A b \in Body : Open({}, b) /\ Open(lane, b)
      /\ \A b \in Body : b # Core \/ Mesh \/ Emits => Open(pin, b)
<1>1. /\ Entitled("idle") = {} /\ Entitled("saving") = {}
      /\ Entitled("speculative") = {Item(Guard(Core), "R")}
      /\ Entitled("commit") = {Item(Commit, "W")} /\ Entitled("replay") = {Item(Commit, "W")}
      /\ Entitled("canonical") = {Item(Commit, "W")}
  BY DEF Entitled, Item
<1>2. Item(Commit, "W") \in Items /\ Item(Guard(Core), "R") \in Items
  BY LockTypes, LockConstants DEF Modes
<1>3. Calling({}) /\ Calling({Item(Commit, "W")})
  BY <1>2 DEF Calling, Item, Commit
<1>4. Firm({}) /\ Firm({Item(Commit, "W")})
  BY <1>2 DEF Firm, Item, Commit
<1>5. \A b \in Body : Clear({}, b) /\ Clear({Item(Commit, "W")}, b)
  BY <1>2 DEF Clear, Item, Commit
<1>6. \A b \in Body : b # Core => Clear({Item(Guard(Core), "R")}, b)
  BY <1>2 DEF Clear
<1>7. \A b \in Body : Open({}, b) /\ Open({Item(Commit, "W")}, b)
  BY <1>5, ClearFacts
<1>8. \A b \in Body : b # Core \/ Mesh \/ Emits => Open({Item(Guard(Core), "R")}, b)
  BY <1>2 DEF Open
<1> QED BY <1>1, <1>3, <1>4, <1>5, <1>6, <1>7, <1>8

(* txnScheduler.run, up to the speculative run and past it. *)
LEMMA BeginInv ==
  ASSUME LockInv, NEW p \in Procs, Begin(p) \/ BeginLimited(p)
  PROVE  LockInv'
<1> DEFINE pin == {Item(Guard(Core), "R")}
           lane == {Item(Commit, "W")}
           c == <<Lock(Commit, "W")>>
           s == Peek(Core) \o Pin
           t == s \o Unpin
           u == t \o c
<1>1. /\ Core \in Body /\ Clear({}, Core)
      /\ Entitled("idle") = {} /\ Entitled("speculative") = pin /\ Entitled("replay") = lane
  BY LockConstants, EntitledFacts
<1>2. {} \cup pin = pin
  OBVIOUS
<1>3. /\ Peek(Core) \in Seq(Ops) /\ Pin \in Seq(Ops) /\ Unpin \in Seq(Ops) /\ c \in Seq(Ops)
      /\ Leads({}, Peek(Core), {}) /\ Leads({}, Pin, pin) /\ Leads(pin, Unpin, {})
      /\ Leads({}, c, lane)
  <2>1. Peek(Core) \in Seq(Ops) /\ Leads({}, Peek(Core), {})
    BY <1>1, LeadsPeek, EntitledFacts
  <2>2. /\ Pin \in Seq(Ops) /\ Leads({}, Pin, {} \cup pin)
        /\ Unpin \in Seq(Ops) /\ Leads({} \cup pin, Unpin, {})
    BY <1>1, LeadsPin
  <2> HIDE DEF pin
  <2> QED BY <1>2, <2>1, <2>2, LeadsLane
<1>4. s = Peek(Core) \o Pin /\ t = s \o Unpin /\ u = t \o c
  BY Zenon
<1>5. Begin(p) => Decides(p, "idle") /\ Does(p, "speculative", s)
  BY Zenon DEF Begin
<1>6. BeginLimited(p) => Decides(p, "idle") /\ Does(p, "replay", u)
  BY Zenon DEF BeginLimited
<1> HIDE DEF pin, lane, c, s, t, u
<1>7. s \in Seq(Ops) /\ Leads({}, s, pin)
  BY <1>3, <1>4, LeadsConcat
<1>8. t \in Seq(Ops) /\ Leads({}, t, {})
  <2>1. s \o Unpin \in Seq(Ops) /\ Leads({}, s \o Unpin, {})
    BY <1>3, <1>7, LeadsConcat
  <2> QED BY <1>4, <2>1
<1>9. u \in Seq(Ops) /\ Leads({}, u, lane)
  <2>1. t \o c \in Seq(Ops) /\ Leads({}, t \o c, lane)
    BY <1>3, <1>8, LeadsConcat
  <2> QED BY <1>4, <2>1
<1>10. CASE Begin(p)
  BY <1>1, <1>5, <1>7, <1>10, DoesInv DEF Phases
<1>11. CASE BeginLimited(p)
  BY <1>1, <1>6, <1>9, <1>11, DoesInv DEF Phases
<1> QED BY <1>10, <1>11

(* The speculative run: it reads shards, and in a mesh or with an event the *)
(* core, with the core's Store pinned, and unpins it whatever way it ends. *)
LEMMA SpeculativeInv ==
  ASSUME LockInv, NEW p \in Procs,
         \/ \E b \in Body : SpecReadShard(p, b)
         \/ SpecFetch(p) \/ SpecEmit(p)
         \/ SpecError(p) \/ SpecBlocked(p) \/ SpecReturn(p)
  PROVE  LockInv'
<1> DEFINE pin == {Item(Guard(Core), "R")}
           lane == {Item(Commit, "W")}
           c == <<Lock(Commit, "W")>>
           u == Unpin \o c
<1>1. /\ Clear({}, Core) /\ Entitled("idle") = {} /\ Entitled("speculative") = pin
      /\ Entitled("commit") = lane /\ Entitled("replay") = lane
  BY LockConstants, EntitledFacts
<1>2. /\ Unpin \in Seq(Ops) /\ Leads(pin, Unpin, {})
      /\ c \in Seq(Ops) /\ Leads({}, c, lane)
  <2>1. Unpin \in Seq(Ops) /\ Leads({} \cup pin, Unpin, {})
    BY <1>1, LeadsPin
  <2>2. {} \cup pin = pin
    OBVIOUS
  <2> HIDE DEF pin
  <2> QED BY <2>1, <2>2, LeadsLane
<1>3. u = Unpin \o c
  BY Zenon
<1>4. SpecError(p) => Decides(p, "speculative") /\ Does(p, "idle", Unpin)
  BY Zenon DEF SpecError, Unpin
<1>5. SpecBlocked(p) => Decides(p, "speculative") /\ Does(p, "replay", u)
  BY Zenon DEF SpecBlocked
<1>6. SpecReturn(p) => Decides(p, "speculative") /\ Does(p, "commit", u)
  BY Zenon DEF SpecReturn
<1>7. ASSUME NEW b \in Body, SpecReadShard(p, b) PROVE LockInv'
  <2> DEFINE s == Lease(b) \o Edit(b)
  <2>1. /\ b # Core /\ Decides(p, "speculative")
        /\ Does(p, "speculative", Peek(b)) \/ Does(p, "speculative", s)
    BY <1>7, Zenon DEF SpecReadShard
  <2>2. Clear(pin, b) /\ Open(pin, b)
    BY <2>1, EntitledFacts
  <2>3. s = Lease(b) \o Edit(b)
    BY Zenon
  <2> HIDE DEF pin, s
  <2>4. /\ Lease(b) \in Seq(Ops) /\ Leads(pin, Lease(b), pin)
        /\ Edit(b) \in Seq(Ops) /\ Leads(pin, Edit(b), pin)
        /\ Peek(b) \in Seq(Ops) /\ Leads(pin, Peek(b), pin)
    BY <2>2, LeadsLease, LeadsPeek, LeadsEdit
  <2>5. s \in Seq(Ops) /\ Leads(pin, s, pin)
    BY <2>3, <2>4, LeadsConcat
  <2>6. CASE Does(p, "speculative", Peek(b))
    BY <1>1, <2>1, <2>4, <2>6, DoesInv DEF Phases, pin
  <2>7. CASE Does(p, "speculative", s)
    BY <1>1, <2>1, <2>5, <2>7, DoesInv DEF Phases, pin
  <2> QED BY <2>1, <2>6, <2>7
<1>12. ASSUME SpecFetch(p) \/ SpecEmit(p) PROVE LockInv'
  <2>1. /\ Mesh \/ Emits
        /\ Decides(p, "speculative")
        /\ Does(p, "speculative", Peek(Core)) \/ Does(p, "speculative", Edit(Core))
    BY <1>12, Zenon DEF SpecFetch, SpecEmit
  <2>2. Core \in Body /\ Open(pin, Core)
    BY <2>1, EntitledFacts, LockConstants
  <2> HIDE DEF pin
  <2>3. /\ Edit(Core) \in Seq(Ops) /\ Leads(pin, Edit(Core), pin)
        /\ Peek(Core) \in Seq(Ops) /\ Leads(pin, Peek(Core), pin)
    BY <2>2, LeadsPeek, LeadsEdit
  <2>4. CASE Does(p, "speculative", Peek(Core))
    BY <1>1, <2>1, <2>3, <2>4, DoesInv DEF Phases, pin
  <2>5. CASE Does(p, "speculative", Edit(Core))
    BY <1>1, <2>1, <2>3, <2>5, DoesInv DEF Phases, pin
  <2> QED BY <2>1, <2>4, <2>5
<1> HIDE DEF pin, lane, c, u
<1>8. u \in Seq(Ops) /\ Leads(pin, u, lane)
  BY <1>2, <1>3, LeadsConcat
<1>9. CASE SpecError(p)
  BY <1>1, <1>2, <1>4, <1>9, DoesInv DEF Phases
<1>10. CASE SpecBlocked(p)
  BY <1>1, <1>5, <1>8, <1>10, DoesInv DEF Phases
<1>11. CASE SpecReturn(p)
  BY <1>1, <1>6, <1>8, <1>11, DoesInv DEF Phases
<1> QED BY <1>7, <1>9, <1>10, <1>11, <1>12

(* The commit lane: commitFabricSnapshotDiff, with a replay to come or     *)
(* not.                                                                    *)
LEMMA CommitDiffInv ==
  ASSUME LockInv, NEW p \in Procs, NEW owners \in OwnerLists, CommitDiff(p, owners)
  PROVE  LockInv'
<1> DEFINE lane == {Item(Commit, "W")}
           s == CommitOwners(owners)
           c == <<Unlock(Commit, "W")>>
           t == s \o c
<1>1. Entitled("idle") = {} /\ Entitled("commit") = lane /\ Entitled("replay") = lane
  BY EntitledFacts
<1>2. /\ s \in Seq(Ops) /\ Leads(lane, s, lane)
      /\ c \in Seq(Ops) /\ Leads(lane, c, {})
  BY LeadsCommit, LeadsLane
<1>3. t = s \o c
  BY Zenon
<1>4. Decides(p, "commit") /\ (Does(p, "idle", t) \/ Does(p, "replay", s))
  BY Zenon DEF CommitDiff
<1> HIDE DEF lane, s, c, t
<1>5. t \in Seq(Ops) /\ Leads(lane, t, {})
  BY <1>2, <1>3, LeadsConcat
<1>6. CASE Does(p, "idle", t)
  BY <1>1, <1>4, <1>5, <1>6, DoesInv DEF Phases
<1>7. CASE Does(p, "replay", s)
  BY <1>1, <1>2, <1>4, <1>7, DoesInv DEF Phases
<1> QED BY <1>4, <1>6, <1>7

(* The canonical run, under commitMu: it reads, changes and persists, and  *)
(* returns.                                                                *)
LEMMA CanonicalInv ==
  ASSUME LockInv, NEW p \in Procs,
         \/ Canonical(p) \/ CanonReturn(p)
         \/ \E b \in Body : CanonRead(p, b) \/ CanonEdit(p, b) \/ CanonPersist(p, b)
  PROVE  LockInv'
<1> DEFINE lane == {Item(Commit, "W")}
<1>1. /\ Entitled("idle") = {} /\ Entitled("replay") = lane /\ Entitled("canonical") = lane
      /\ Calling(lane) /\ Firm(lane) /\ \A b \in Body : Clear(lane, b) /\ Open(lane, b)
  BY EntitledFacts
<1>2. <<Unlock(Commit, "W")>> \in Seq(Ops) /\ Leads(lane, <<Unlock(Commit, "W")>>, {})
  BY LeadsLane
<1> HIDE DEF lane
<1>3. ASSUME NEW b \in Body
      PROVE  /\ Peek(b) \in Seq(Ops) /\ Leads(lane, Peek(b), lane)
             /\ Lease(b) \in Seq(Ops) /\ Leads(lane, Lease(b), lane)
             /\ Edit(b) \in Seq(Ops) /\ Leads(lane, Edit(b), lane)
             /\ Journal(b) \in Seq(Ops) /\ Leads(lane, Journal(b), lane)
             /\ Save(b) \in Seq(Ops) /\ Leads(lane, Save(b), lane)
  BY <1>1, LeadsPeek, LeadsLease, LeadsEdit, LeadsJournal, LeadsSave
<1>4. CASE Canonical(p)
  BY <1>1, <1>3, <1>4, DoesInv, LockConstants DEF Canonical, Phases
<1>5. CASE CanonReturn(p)
  BY <1>1, <1>2, <1>5, DoesInv DEF CanonReturn, Phases
<1>6. ASSUME NEW b \in Body, CanonRead(p, b) PROVE LockInv'
  BY <1>1, <1>3, <1>6, DoesInv DEF CanonRead, Phases
<1>7. ASSUME NEW b \in Body, CanonEdit(p, b) PROVE LockInv'
  BY <1>1, <1>3, <1>7, DoesInv DEF CanonEdit, Phases
<1>8. ASSUME NEW b \in Body, CanonPersist(p, b) PROVE LockInv'
  BY <1>1, <1>3, <1>8, DoesInv DEF CanonPersist, Phases
<1> QED BY <1>4, <1>5, <1>6, <1>7, <1>8

(* persistAll and closeStore of the other goroutines. *)
LEMMA StorageInv ==
  ASSUME LockInv, NEW p \in Procs, Storage(p)
  PROVE  LockInv'
<1>1. /\ Entitled("idle") = {} /\ Entitled("saving") = {} /\ Calling({}) /\ Firm({})
  BY EntitledFacts
<1>2. ASSUME NEW b \in Body
      PROVE  /\ Journal(b) \in Seq(Ops) /\ Leads({}, Journal(b), {})
             /\ Save(b) \in Seq(Ops) /\ Leads({}, Save(b), {})
             /\ Swap(b) \in Seq(Ops) /\ Leads({}, Swap(b), {})
  BY <1>1, LeadsJournal, LeadsSave, LeadsSwap
<1>3. <<>> \in Seq(Ops) /\ Leads({}, <<>>, {})
  BY LeadsNothing
<1>4. CASE Persisted(p)
  BY <1>1, <1>3, <1>4, DoesInv DEF Persisted, Phases
<1>5. ASSUME NEW b \in Body, Persist(p, b) PROVE LockInv'
  BY <1>1, <1>2, <1>5, DoesInv DEF Persist, Phases
<1>6. ASSUME NEW b \in Body, CloseStore(p, b) PROVE LockInv'
  BY <1>1, <1>2, <1>6, DoesInv DEF CloseStore, Phases
<1> QED BY <1>4, <1>5, <1>6 DEF Storage

(* Nothing happens. *)
LEMMA StutterInv ==
  ASSUME LockInv, UNCHANGED vars
  PROVE  LockInv'
BY DEF LockInv, LockTypeOK, OneWriter, Covered, Followed, Has, Holds, vars

(* Every goroutine does its lock operations in order: what it holds before *)
(* each of them is what its code has taken and not given back, a writer is *)
(* alone, a guard is written under dataMu, and dataMu and the guards are   *)
(* taken in the order of the paths but for those of a pinned run.          *)
THEOREM LockInvariant == Spec => []LockInv
<1>1. ASSUME LockInv, [Next]_vars PROVE LockInv'
  <2>1. CASE \E p \in Procs : LockStep(p) \/ UnlockStep(p)
    BY <1>1, <2>1, LockStepInv, UnlockStepInv
  <2>2. ASSUME NEW p \in Requests, Request(p) PROVE LockInv'
    <3>1. p \in Procs
      BY DEF Procs
    <3>2. CASE \E owners \in OwnerLists : CommitDiff(p, owners)
      BY <1>1, <3>1, <3>2, CommitDiffInv
    <3> QED BY <1>1, <2>2, <3>1, <3>2, BeginInv, SpeculativeInv, CanonicalInv DEF Request
  <2>3. ASSUME NEW p \in Persisters, Storage(p) PROVE LockInv'
    BY <1>1, <2>3, StorageInv DEF Procs
  <2> QED BY <1>1, <2>1, <2>2, <2>3, StutterInv DEF Next
<1> QED BY <1>1, InitLockInv, PTL DEF Spec

(* HoldsOnly: a goroutine that decides holds what it is entitled to, and   *)
(* nothing a call has forgotten.                                           *)
THEOREM HoldsEntitled == Spec => []HoldsOnly
<1>1. LockInv => HoldsOnly
  <2> SUFFICES ASSUME LockInv, NEW p \in Procs, todo[p] = <<>>
               PROVE  held[p] = Entitled(phase[p])
    BY DEF HoldsOnly
  <2>1. held[p] \in SUBSET Items /\ Leads(held[p], <<>>, Entitled(phase[p]))
    BY DEF LockInv, LockTypeOK, Followed
  <2> QED BY <2>1, LeadsNothing
<1> QED BY <1>1, LockInvariant, PTL

----------------------------------------------------------------------------
(* Deadlocks *)

(* A set of natural numbers that is not empty has a smallest member. *)
LEMMA SmallestMember ==
  ASSUME NEW T \in SUBSET Nat, T # {}
  PROVE  \E x \in T : \A y \in T : x <= y
<1>1. PICK x \in T : \A y \in T : <<y, x>> \notin OpToRel(<, Nat)
  BY NatLessThanWellFounded, WFMin
<1>2. \A y \in T : ~(y < x)
  BY <1>1 DEF OpToRel
<1> QED BY <1>2

(* The lock a goroutine waits for may be taken after those it holds. *)
LEMMA WantFacts ==
  ASSUME LockInv, NEW p \in Procs, WantsLock(p)
  PROVE  /\ Head(todo[p]).lock \in Locks /\ Head(todo[p]).mode \in Modes
         /\ Head(todo[p]) = Lock(Head(todo[p]).lock, Head(todo[p]).mode)
         /\ MayLock(held[p], Head(todo[p]).lock, Head(todo[p]).mode)
<1>1. /\ todo[p] # <<>> /\ Head(todo[p]).op = "lock" /\ Head(todo[p]) \in Ops
      /\ Legal(held[p], Head(todo[p]))
  BY NextOp DEF WantsLock
<1> QED BY <1>1 DEF Legal, Ops, Lock

(* Nobody waits to read a guard: it is read under dataMu, and whoever      *)
(* writes it or waits to write it holds dataMu for writing.                *)
LEMMA GuardReadable ==
  ASSUME LockInv, NEW p \in Procs, WantsLock(p),
         Head(todo[p]).lock.kind = "guard", Head(todo[p]).mode = "R"
  PROVE  BlockedBy(p) = {}
<1> DEFINE l == Head(todo[p]).lock
           b == l.body
<1>1. l \in Locks /\ MayLock(held[p], l, "R")
  BY WantFacts
<1>2. b \in Body /\ l = Guard(b) /\ Data(b) \in Locks
  BY <1>1 DEF Locks, Guard, Data
<1>3. Holds(p, Data(b)) /\ ~Has(p, l, "W")
  BY <1>1 DEF MayLock, Holds, Has, Item
<1> HIDE DEF l, b
<1>4. ASSUME NEW q \in Procs, Has(q, l, "W") PROVE FALSE
  <2>1. Has(q, Data(b), "W")
    BY <1>2, <1>4 DEF LockInv, Covered
  <2>2. q = p
    BY <1>2, <1>3, <2>1 DEF LockInv, OneWriter
  <2> QED BY <1>3, <1>4, <2>2
<1>5. ASSUME NEW q \in Procs \ {p}, WaitsToWrite(q, l) PROVE FALSE
  <2>1. WantsLock(q) /\ Head(todo[q]).lock = l /\ Head(todo[q]).mode = "W"
    BY <1>5 DEF WaitsToWrite, Lock
  <2>2. MayLock(held[q], l, "W")
    BY <2>1, WantFacts
  <2>3. Has(q, Data(b), "W")
    BY <1>2, <2>2 DEF MayLock, Has, Item, Guard
  <2> QED BY <1>2, <1>3, <2>3 DEF LockInv, OneWriter
<1> QED BY <1>4, <1>5 DEF BlockedBy, l

(* Where the order of the locks does not help: q holds the lock p waits    *)
(* for and waits itself for one that is not later.                         *)
LEMMA HolderReads ==
  ASSUME LockInv, NEW p \in Procs, NEW q \in Procs, WantsLock(p), WantsLock(q),
         Holds(q, Head(todo[p]).lock), BlockedBy(q) # {},
         Rank(Head(todo[q]).lock) <= Rank(Head(todo[p]).lock)
  PROVE  Head(todo[p]).lock = Guard(Core) /\ WaitsPinned(q)
<1> DEFINE l == Head(todo[p]).lock
           k == Head(todo[q]).lock
           m == Head(todo[q]).mode
<1>1. /\ l \in Locks /\ k \in Locks /\ m \in Modes
      /\ Head(todo[q]) = Lock(k, m) /\ MayLock(held[q], k, m)
  BY WantFacts
<1>2. ~(k.kind = "guard" /\ m = "R")
  BY GuardReadable
<1>3. PICK n \in Modes : Item(l, n) \in held[q]
  BY DEF Holds, Has, Item
<1>4. Rank(l) \in Nat /\ Rank(k) \in Nat /\ Rank(k) <= Rank(l)
  BY <1>1, RankFacts
<1> HIDE DEF l, k, m
<1>5. Item(l, n).lock = l
  BY DEF Item
<1>6. /\ Item(l, n) = Item(Guard(Core), "R")
      /\ k.kind = "dataMu"
      /\ Place[k.body] < Place[Core] \/ (k.body = Core /\ (Mesh \/ Emits))
  BY <1>1, <1>2, <1>3, <1>4, <1>5 DEF MayLock
<1>7. l = Guard(Core) /\ Has(q, Guard(Core), "R")
  BY <1>3, <1>6 DEF Item, Has
<1>8. k.body \in Body /\ k = Data(k.body)
  BY <1>1, <1>6 DEF Locks, Data
<1>9. Head(todo[q]).lock = Data(k.body)
  BY <1>8 DEF k
<1> QED BY <1>6, <1>7, <1>8, <1>9 DEF WaitsPinned, l

(* A goroutine of a deadlock waits for the last of the locks the deadlock  *)
(* is about.  Whoever holds it has the core pinned and goes back.          *)
LEMMA DeadlockFacts ==
  ASSUME LockInv, NEW S \in SUBSET Procs, Deadlocked(S)
  PROVE  (\E p \in S : SwapsCore(p)) /\ (\E p \in S : WaitsPinned(p))
<1> DEFINE L(p) == Head(todo[p]).lock
           top == 2 * Cardinality(Body) + 1
           T == {top - Rank(L(p)) : p \in S}
<1>1. \A p \in S : WantsLock(p) /\ L(p) \in Locks /\ BlockedBy(p) \cap S # {}
  <2>1. \A p \in S : BlockedBy(p) \cap S # {}
    BY DEF Deadlocked
  <2>2. \A p \in S : WantsLock(p)
    BY <2>1 DEF BlockedBy
  <2> QED BY <2>1, <2>2, WantFacts
<1>2. \A p \in S : Rank(L(p)) \in Nat /\ Rank(L(p)) <= top /\ top \in Nat
  BY <1>1, RankFacts
<1> HIDE DEF L, top
<1>3. PICK p \in S : \A r \in S : Rank(L(r)) <= Rank(L(p))
  <2>1. T \in SUBSET Nat
    BY <1>2
  <2>2. T # {}
    BY DEF Deadlocked
  <2> HIDE DEF T
  <2>3. PICK x \in T : \A y \in T : x <= y
    BY <2>1, <2>2, SmallestMember
  <2>4. PICK p \in S : x = top - Rank(L(p))
    BY DEF T
  <2>5. \A r \in S : top - Rank(L(p)) <= top - Rank(L(r))
    BY <2>3, <2>4 DEF T
  <2> QED BY <1>2, <2>5
<1>4. ASSUME NEW u \in S, NEW v \in S, WaitsToWrite(u, L(p)), Holds(v, L(p))
      PROVE  SwapsCore(u) /\ WaitsPinned(v)
  <2>1. L(u) = L(p)
    BY <1>4 DEF WaitsToWrite, Lock, L
  <2>2. L(u) = Guard(Core) /\ WaitsPinned(v)
    BY <1>1, <1>3, <1>4, <2>1, HolderReads DEF L
  <2> QED BY <1>4, <2>1, <2>2 DEF SwapsCore
<1>5. PICK q \in S : q \in BlockedBy(p)
  BY <1>1
<1>6. Head(todo[p]) = Lock(L(p), Head(todo[p]).mode) /\ Head(todo[p]).mode \in Modes
  BY <1>1, WantFacts DEF L
<1>7. CASE Head(todo[p]).mode = "W"
  <2>1. Holds(q, L(p)) /\ WaitsToWrite(p, L(p))
    BY <1>1, <1>5, <1>6, <1>7 DEF BlockedBy, WaitsToWrite, L
  <2> QED BY <1>4, <2>1
<1>8. CASE Head(todo[p]).mode = "R"
  <2>1. Has(q, L(p), "W") \/ WaitsToWrite(q, L(p))
    BY <1>1, <1>5, <1>8 DEF BlockedBy, L
  <2>2. CASE Has(q, L(p), "W")
    <3>1. Holds(q, L(p))
      BY <2>2 DEF Holds, Modes
    <3>2. L(p) = Guard(Core)
      BY <1>1, <1>3, <3>1, HolderReads DEF L
    <3>3. BlockedBy(p) = {}
      BY <1>1, <1>8, <3>2, GuardReadable DEF L, Guard
    <3> QED BY <1>5, <3>3
  <2>3. CASE WaitsToWrite(q, L(p))
    <3>1. PICK r \in S : r \in BlockedBy(q)
      BY <1>1
    <3>2. Holds(r, L(p))
      BY <1>1, <2>3, <3>1 DEF BlockedBy, WaitsToWrite, Lock
    <3> QED BY <1>4, <2>3, <3>2
  <2> QED BY <2>1, <2>2, <2>3
<1> QED BY <1>6, <1>7, <1>8 DEF Modes

(* OnlyPinnedDeadlock: commits of several owners, leases, page-ins, saves  *)
(* and closes wait for each other in no other way, whatever the number of  *)
(* goroutines and bodies and the names of their files.                     *)
THEOREM DeadlockIsPinned == Spec => []OnlyPinnedDeadlock
<1>1. LockInv => OnlyPinnedDeadlock
  BY DeadlockFacts DEF OnlyPinnedDeadlock
<1> QED BY <1>1, LockInvariant, PTL

(* NoDeadlock where the core's path comes before those of the shards, the  *)
(* node is alone and speculative runs emit nothing: the order of           *)
(* lockSpeculativeCommitOwners then agrees with a pinned read.             *)
THEOREM CoreFirstNoDeadlock == CoreFirst /\ ~Mesh /\ ~Emits => (Spec => []NoDeadlock)
<1> SUFFICES ASSUME CoreFirst, ~Mesh, ~Emits PROVE Spec => []NoDeadlock
  OBVIOUS
<1>1. ASSUME LockInv PROVE NoDeadlock
  <2> SUFFICES ASSUME NEW S \in SUBSET Procs, Deadlocked(S) PROVE FALSE
    BY DEF NoDeadlock
  <2>1. PICK p \in S : WaitsPinned(p)
    BY <1>1, DeadlockFacts
  <2>2. PICK b \in Body : Place[b] < Place[Core]
    BY <2>1 DEF WaitsPinned
  <2>3. Place[b] \in Nat /\ Place[Core] \in Nat /\ Place[Core] <= Place[b]
    BY RankFacts, LockConstants DEF CoreFirst
  <2> QED BY <2>2, <2>3
<1> QED BY <1>1, LockInvariant, PTL
=============================================================================
