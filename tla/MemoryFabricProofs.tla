-------------------------- MODULE MemoryFabricProofs --------------------------
(***************************************************************************)
(* Theorems about MemoryFabric, for any number of bodies and ids: the      *)
(* newest durable content of an id gives way only to a deletion, and what  *)
(* a transfer answers is true.  FabricInv is shown to be inductive; every  *)
(* step also carries a body that keeps a content over to a body that keeps *)
(* it afterwards (Forward), which is what NewestKept follows from.         *)
(***************************************************************************)
EXTENDS MemoryFabric, WellFoundedInduction, TLAPS

(* Whatever content is newer than what was deleted, a body that keeps it   *)
(* is followed by one.                                                     *)
Forward ==
  \A id \in Ids, v \in Contents, c \in Bodies :
    v > dead'[id] /\ Keeps(c, id, v) => \E d \in Bodies : Keeps(d, id, v)'

(* No body answers with an older content than before, or with none.        *)
Grows == \A b \in Bodies, id \in Ids, v \in Contents :
           AtLeast(View(b, id), v) => AtLeast(View(b, id), v)'

----------------------------------------------------------------------------
(* Types *)

LEMMA ContentFacts == Contents \subseteq Nat /\ None \notin Nat /\ None \notin Contents
<1>1. MaxVersion \in Nat /\ None \notin Nat
  BY FabricAssumption
<1> QED BY <1>1 DEF Contents

LEMMA NatFacts ==
  ASSUME TypeOK
  PROVE  /\ \A id \in Ids : version[id] \in Nat /\ dead[id] \in Nat
         /\ \A b \in Bodies, id \in Ids :
              /\ rec[b][id] \in Records /\ disk[b][id] \in Records /\ View(b, id) \in Records
              /\ View(b, id) # None => View(b, id) = rec[b][id] /\ id \notin tomb[b]
<1>1. MaxVersion \in Nat
  BY FabricAssumption
<1>2. ASSUME NEW id \in Ids PROVE version[id] \in Nat /\ dead[id] \in Nat
  <2>1. version[id] \in 0..MaxVersion /\ dead[id] \in 0..MaxVersion
    BY DEF TypeOK
  <2> QED BY <1>1, <2>1
<1>3. ASSUME NEW b \in Bodies, NEW id \in Ids
      PROVE  /\ rec[b][id] \in Records /\ disk[b][id] \in Records /\ View(b, id) \in Records
             /\ View(b, id) # None => View(b, id) = rec[b][id] /\ id \notin tomb[b]
  <2>1. rec[b][id] \in Records /\ disk[b][id] \in Records
    BY DEF TypeOK
  <2> QED BY <2>1 DEF View, Records
<1> QED BY <1>2, <1>3

LEMMA NextFacts ==
  ASSUME TypeOK'
  PROVE  /\ \A id \in Ids : version'[id] \in Nat /\ dead'[id] \in Nat
         /\ \A b \in Bodies, id \in Ids :
              /\ rec'[b][id] \in Records /\ disk'[b][id] \in Records /\ View(b, id)' \in Records
              /\ View(b, id)' # None => View(b, id)' = rec'[b][id] /\ id \notin tomb'[b]
<1>1. MaxVersion \in Nat
  BY FabricAssumption
<1>2. ASSUME NEW id \in Ids PROVE version'[id] \in Nat /\ dead'[id] \in Nat
  <2>1. version'[id] \in 0..MaxVersion /\ dead'[id] \in 0..MaxVersion
    BY DEF TypeOK
  <2> QED BY <1>1, <2>1
<1>3. ASSUME NEW b \in Bodies, NEW id \in Ids
      PROVE  /\ rec'[b][id] \in Records /\ disk'[b][id] \in Records /\ View(b, id)' \in Records
             /\ View(b, id)' # None => View(b, id)' = rec'[b][id] /\ id \notin tomb'[b]
  <2>1. rec'[b][id] \in Records /\ disk'[b][id] \in Records
    BY DEF TypeOK
  <2> QED BY <2>1 DEF View, Records
<1> QED BY <1>2, <1>3

(* Where a transfer can be. *)
Steps == {"lookup", "add", "persist", "persist-same", "failed", "verify", "delete",
          "deleted", "check", "restore", "done", "rolled back"}
Xfers == [pc : Steps, id : Ids, src : Bodies, dst : Bodies, val : Contents, move : BOOLEAN]

LEMMA XferFacts ==
  ASSUME TypeOK, xfer.pc # "idle"
  PROVE  /\ xfer \in Xfers /\ xfer # Idle /\ xfer.id \in Ids /\ xfer.src \in Bodies
         /\ xfer.dst \in Bodies /\ xfer.src # xfer.dst /\ xfer.val \in Contents
<1>1. xfer # Idle
  BY DEF Idle
<1>2. xfer \in Xfers /\ xfer.src # xfer.dst
  BY <1>1 DEF TypeOK, Xfers, Steps
<1> QED BY <1>1, <1>2 DEF Xfers

LEMMA IdleFacts ==
  ASSUME TypeOK
  PROVE  (xfer = Idle) <=> (xfer.pc = "idle")
<1>1. xfer = Idle => xfer.pc = "idle"
  BY DEF Idle
<1>2. xfer # Idle => xfer.pc # "idle"
  BY DEF TypeOK
<1> QED BY <1>1, <1>2

(* Goto changes nothing but where the transfer is. *)
LEMMA GotoFacts ==
  ASSUME TypeOK, xfer.pc # "idle", NEW pc \in Steps, Goto(pc)
  PROVE  /\ xfer' \in Xfers /\ xfer' # Idle /\ xfer'.pc = pc
         /\ xfer'.id = xfer.id /\ xfer'.src = xfer.src /\ xfer'.dst = xfer.dst
         /\ xfer'.val = xfer.val
<1>1. xfer \in Xfers
  BY XferFacts
<1>2. xfer' = [xfer EXCEPT !.pc = pc]
  BY DEF Goto
<1>3. /\ xfer' \in Xfers /\ xfer'.pc = pc
      /\ xfer'.id = xfer.id /\ xfer'.src = xfer.src /\ xfer'.dst = xfer.dst
      /\ xfer'.val = xfer.val
  BY <1>1, <1>2 DEF Xfers
<1>4. pc # "idle"
  BY DEF Steps
<1>5. xfer' # Idle
  BY <1>3, <1>4 DEF Idle
<1> QED BY <1>3, <1>5

(* One record is set. *)
LEMMA RecSet ==
  ASSUME TypeOK, NEW b \in Bodies, NEW id \in Ids, NEW v \in Records,
         rec' = [rec EXCEPT ![b][id] = v]
  PROVE  /\ rec' \in [Bodies -> [Ids -> Records]]
         /\ \A c \in Bodies, i \in Ids :
              rec'[c][i] = IF c = b /\ i = id THEN v ELSE rec[c][i]
<1>1. rec \in [Bodies -> [Ids -> Records]]
  BY DEF TypeOK
<1> QED BY <1>1

----------------------------------------------------------------------------
(* The keepers *)

(* KeepInv afterwards: what was kept is kept, and what is newly written is *)
(* kept by the body it was written to.                                     *)
LEMMA KeepNext ==
  ASSUME TypeOK, TypeOK', KeepInv, Forward,
         \A id \in Ids : dead[id] <= dead'[id],
         \A b \in Bodies, id \in Ids, v \in Contents :
           disk'[b][id] = v => disk[b][id] = v \/ Keeps(b, id, v)'
  PROVE  KeepInv'
<1> SUFFICES ASSUME NEW b \in Bodies, NEW id \in Ids, NEW v, v = disk'[b][id],
                    v # None, v > dead'[id]
             PROVE  \E c \in Bodies : Keeps(c, id, v)'
  BY DEF KeepInv
<1>1. v \in Contents
  BY NextFacts DEF Records
<1>2. v \in Nat /\ dead[id] \in Nat /\ dead'[id] \in Nat
  BY <1>1, ContentFacts, NatFacts, NextFacts
<1>3. CASE disk[b][id] = v
  <2>1. v > dead[id]
    BY <1>2
  <2>2. PICK c \in Bodies : Keeps(c, id, v)
    BY <1>3, <2>1 DEF KeepInv
  <2> QED BY <1>1, <2>2 DEF Forward
<1>4. CASE Keeps(b, id, v)'
  BY <1>4
<1> QED BY <1>1, <1>3, <1>4

(* Files and deletions stay as they are, and every open body still holds   *)
(* what it kept.                                                           *)
LEMMA SameFiles ==
  ASSUME TypeOK, TypeOK', KeepInv, UNCHANGED <<disk, dead>>,
         \A c \in Bodies, id \in Ids, v \in Contents :
           Keeps(c, id, v) => (c \in Open => AtLeast(View(c, id), v))'
  PROVE  Forward /\ KeepInv'
<1>1. \A c \in Bodies, id \in Ids, v \in Contents : Keeps(c, id, v) => Keeps(c, id, v)'
  BY DEF Keeps
<1>2. Forward
  BY <1>1 DEF Forward
<1>3. \A id \in Ids : dead[id] <= dead'[id]
  BY NatFacts
<1> QED BY <1>2, <1>3, KeepNext

(* Records of open bodies only become newer. *)
LEMMA GrowsKeeps ==
  ASSUME TypeOK, TypeOK', KeepInv, Grows, UNCHANGED <<disk, dead, mounted>>
  PROVE  Forward /\ KeepInv'
<1>1. Open' = Open
  BY DEF Open
<1>2. \A c \in Bodies, id \in Ids, v \in Contents :
        Keeps(c, id, v) => (c \in Open => AtLeast(View(c, id), v))'
  BY <1>1 DEF Grows, Keeps
<1> QED BY <1>2, SameFiles

----------------------------------------------------------------------------
(* Versions and transfers *)

(* The contents that a step can copy. *)
Known(id, r) ==
  \/ r = None
  \/ \E c \in Bodies : r \in {rec[c][id], disk[c][id]}
  \/ xfer # Idle /\ id = xfer.id /\ r = xfer.val

(* A step that writes only contents that were there, or the newest one.    *)
LEMMA VersionNext ==
  ASSUME TypeOK, TypeOK', VersionInv,
         \A id \in Ids : version[id] <= version'[id],
         \A id \in Ids : dead'[id] \in {dead[id], version[id]},
         \A b \in Bodies, id \in Ids : Known(id, rec'[b][id]) \/ rec'[b][id] = version'[id],
         \A b \in Bodies, id \in Ids : Known(id, disk'[b][id]),
         xfer' # Idle => xfer'.id \in Ids /\ Known(xfer'.id, xfer'.val) /\ xfer'.val # None
  PROVE  VersionInv'
<1>1. ASSUME NEW id \in Ids, NEW r, Known(id, r), r # None
      PROVE  r <= version'[id]
  <2>1. version[id] \in Nat /\ version'[id] \in Nat /\ version[id] <= version'[id]
    BY NatFacts, NextFacts
  <2>2. r \in Nat /\ r <= version[id]
    <3>1. CASE \E c \in Bodies : r \in {rec[c][id], disk[c][id]}
      <4>1. PICK c \in Bodies : r \in {rec[c][id], disk[c][id]}
        BY <3>1
      <4>2. r \in Nat
        <5>1. rec[c][id] \in Records /\ disk[c][id] \in Records
          BY NatFacts
        <5>2. r \in Records
          BY <4>1, <5>1
        <5> QED BY <1>1, <5>2, ContentFacts DEF Records
      <4>3. r <= version[id]
        BY <1>1, <4>1 DEF VersionInv
      <4> QED BY <4>2, <4>3
    <3>2. CASE xfer # Idle /\ id = xfer.id /\ r = xfer.val
      BY <3>2, XferFacts, IdleFacts, ContentFacts DEF VersionInv
    <3> QED BY <1>1, <3>1, <3>2 DEF Known
  <2> QED BY <2>1, <2>2
<1>2. ASSUME NEW id \in Ids PROVE dead'[id] <= version'[id]
  BY NatFacts, NextFacts DEF VersionInv
<1>3. ASSUME NEW b \in Bodies, NEW id \in Ids
      PROVE  /\ rec'[b][id] # None => rec'[b][id] <= version'[id]
             /\ disk'[b][id] # None => disk'[b][id] <= version'[id]
  BY <1>1, NextFacts
<1>4. xfer' # Idle => xfer'.val <= version'[xfer'.id]
  BY <1>1
<1> QED BY <1>2, <1>3, <1>4 DEF VersionInv

(* What a body is known to hold, and what is known to be in safety there. *)
Held(b, id, v) == AtLeast(View(b, id), v) \/ dead[id] >= v
Safe(b, id, v) == (AtLeast(disk[b][id], v) /\ AtLeast(View(b, id), v)) \/ dead[id] >= v

(* A step beside the transfer *)
LEMMA SourceNext ==
  ASSUME TypeOK, TypeOK', SourceInv, xfer' = xfer, Open \subseteq Open',
         \A b \in Bodies, id \in Ids, v \in Contents : Safe(b, id, v) => Safe(b, id, v)',
         \A b \in Bodies, id \in Ids, v \in Contents :
           disk'[b][id] = v => \/ disk[b][id] = v /\ (Held(b, id, v) => Held(b, id, v)')
                               \/ Held(b, id, v)',
         xfer.pc \in {"deleted", "check"} =>
           LET r == rec'[xfer.src][xfer.id] IN
           r = rec[xfer.src][xfer.id] \/ r = None \/ r > xfer.val
  PROVE  SourceInv'
<1>1. CASE xfer.pc = "idle"
  BY <1>1, IdleFacts DEF SourceInv, Idle
<1>2. CASE xfer.pc # "idle"
  <2>1. /\ xfer # Idle /\ xfer.id \in Ids /\ xfer.src \in Bodies
        /\ xfer.dst \in Bodies /\ xfer.val \in Contents
    BY <1>2, XferFacts
  <2>2. {xfer.src, xfer.dst} \subseteq Open'
    BY <2>1 DEF SourceInv
  <2>3. xfer.pc = "verify" /\ disk'[xfer.dst][xfer.id] = xfer.val
          => Held(xfer.dst, xfer.id, xfer.val)'
    BY <2>1 DEF SourceInv, Held
  <2>4. xfer.pc \in {"delete", "deleted", "check"} => Safe(xfer.dst, xfer.id, xfer.val)'
    BY <2>1 DEF SourceInv, Safe
  <2>5. xfer.pc \in {"deleted", "check"} =>
          rec'[xfer.src][xfer.id] = None \/ rec'[xfer.src][xfer.id] > xfer.val
    BY DEF SourceInv
  <2> QED BY <2>2, <2>3, <2>4, <2>5 DEF SourceInv, Held, Safe
<1> QED BY <1>1, <1>2

(* No transfer afterwards *)
LEMMA NoTransfer ==
  ASSUME xfer' = Idle
  PROVE  SourceInv'
BY DEF SourceInv, Idle

----------------------------------------------------------------------------
(* What a persist call of body b does, whether it reports success or not:  *)
(* records stay, the file has for every id what it had or what the body    *)
(* answers with, and an answer stays unless it was "none".                 *)
Persisting(b) ==
  /\ rec' = rec /\ mounted' \subseteq mounted /\ UNCHANGED <<version, dead>>
  /\ \A c \in Bodies, id \in Ids :
       /\ View(c, id) # None \/ c # b => View(c, id)' = View(c, id)
       /\ disk'[c][id] = disk[c][id] \/ (c = b /\ disk'[c][id] = View(c, id))
  /\ {tomb', fresh', base'} \subseteq [Bodies -> SUBSET Ids]
  /\ disk' \in [Bodies -> [Ids -> Records]] /\ GravesOK'

LEMMA PersistFacts ==
  ASSUME TypeOK, NEW b \in Bodies, PersistOK(b) \/ PersistFails(b),
         rec' = rec, mounted' \subseteq mounted, UNCHANGED <<version, dead>>
  PROVE  Persisting(b)
<1> DEFINE file == [id \in Ids |-> View(b, id)]
           saved == {id \in Ids : View(b, id) # None}
<1>0. /\ disk \in [Bodies -> [Ids -> Records]] /\ file \in [Ids -> Records]
      /\ {tomb, fresh, base} \subseteq [Bodies -> SUBSET Ids] /\ saved \in SUBSET Ids
  BY NatFacts DEF TypeOK
<1>1. disk' = disk \/ disk' = [disk EXCEPT ![b] = file]
  BY DEF PersistOK, PersistFails, Journalled, Saved
<1>2. base' = base \/ base' = [base EXCEPT ![b] = saved]
  BY DEF PersistOK, PersistFails, Journalled, Saved
<1>3. (tomb' = tomb /\ fresh' = fresh)
        \/ (tomb' = [tomb EXCEPT ![b] = {}] /\ fresh' = [fresh EXCEPT ![b] = {}])
  BY DEF PersistOK, PersistFails, Journalled, Saved
<1>4. /\ disk' \in [Bodies -> [Ids -> Records]]
      /\ \A c \in Bodies, id \in Ids :
           disk'[c][id] = disk[c][id] \/ (c = b /\ disk'[c][id] = View(c, id))
  <2>1. CASE disk' = disk
    BY <1>0, <2>1
  <2>2. CASE disk' = [disk EXCEPT ![b] = file]
    BY <1>0, <2>2
  <2> QED BY <1>1, <2>1, <2>2
<1>5. base' \in [Bodies -> SUBSET Ids]
  BY <1>0, <1>2
<1>6. /\ tomb' \in [Bodies -> SUBSET Ids] /\ fresh' \in [Bodies -> SUBSET Ids]
      /\ \A c \in Bodies : tomb'[c] = tomb[c] \/ (c = b /\ tomb'[c] = {})
  <2>1. CASE tomb' = tomb /\ fresh' = fresh
    BY <1>0, <2>1
  <2>2. CASE tomb' = [tomb EXCEPT ![b] = {}] /\ fresh' = [fresh EXCEPT ![b] = {}]
    BY <1>0, <2>2
  <2> QED BY <1>3, <2>1, <2>2
<1>7. ASSUME NEW c \in Bodies, NEW id \in Ids, View(c, id) # None \/ c # b
      PROVE  View(c, id)' = View(c, id)
  BY <1>6, <1>7 DEF View
<1>8. GravesOK'
  <2>0. graves \in [Bodies -> SUBSET Ids] /\ \A c \in Bodies : \A id \in graves[c] : disk[c][id] = None
    BY DEF TypeOK, GravesOK
  <2>1. CASE UNCHANGED <<graves, disk>>
    BY <2>0, <2>1 DEF GravesOK
  <2>2. CASE /\ disk' = [disk EXCEPT ![b] = file]
             /\ graves' = [graves EXCEPT ![b] = tomb[b]] \/ graves' = [graves EXCEPT ![b] = {}]
    <3>1. graves' \in [Bodies -> SUBSET Ids]
      BY <1>0, <2>0, <2>2
    <3>2. ASSUME NEW c \in Bodies, NEW id \in graves'[c] PROVE disk'[c][id] = None
      <4>1. CASE c # b
        BY <1>0, <2>0, <2>2, <3>2, <4>1
      <4>2. CASE c = b
        <5>1. id \in tomb[b] /\ id \in Ids
          BY <1>0, <2>0, <2>2, <3>2, <4>2
        <5> QED BY <1>0, <2>2, <4>2, <5>1 DEF View
      <4> QED BY <4>1, <4>2
    <3> QED BY <3>1, <3>2 DEF GravesOK
  <2> QED BY <2>1, <2>2 DEF PersistOK, PersistFails, Journalled, Saved
<1> QED BY <1>4, <1>5, <1>6, <1>7, <1>8 DEF Persisting

LEMMA PersistKeeps ==
  ASSUME TypeOK, TypeOK', KeepInv, NEW b \in Open, b \in Bodies, Persisting(b)
  PROVE  Forward /\ KeepInv'
<1>1. Open' \subseteq Open
  BY DEF Open, Persisting
<1>2. ASSUME NEW c \in Bodies, NEW id \in Ids, NEW v \in Contents, Keeps(c, id, v)
      PROVE  Keeps(c, id, v)'
  <2>1. c \in Open' => AtLeast(View(c, id), v)'
    BY <1>1, <1>2 DEF Keeps, AtLeast, Persisting
  <2>2. AtLeast(disk'[c][id], v)
    BY <1>2 DEF Keeps, AtLeast, Persisting
  <2> QED BY <2>1, <2>2 DEF Keeps
<1>3. Forward
  BY <1>2 DEF Forward
<1>4. ASSUME NEW c \in Bodies, NEW id \in Ids, NEW v \in Contents, disk'[c][id] = v
      PROVE  disk[c][id] = v \/ Keeps(c, id, v)'
  <2>1. CASE c = b /\ disk'[c][id] = View(c, id)
    <3>1. v # None /\ v \in Nat
      BY ContentFacts
    <3>2. View(c, id)' = v
      BY <1>4, <2>1, <3>1 DEF Persisting
    <3> QED BY <1>4, <3>1, <3>2 DEF Keeps, AtLeast
  <2> QED BY <1>4, <2>1 DEF Persisting
<1>5. \A id \in Ids : dead[id] <= dead'[id]
  BY NatFacts DEF Persisting
<1> QED BY <1>3, <1>4, <1>5, KeepNext

LEMMA PersistSafe ==
  ASSUME TypeOK, NEW b \in Bodies, Persisting(b), NEW c \in Bodies, NEW id \in Ids, NEW v \in Contents
  PROVE  /\ Held(c, id, v) => Held(c, id, v)'
         /\ Safe(c, id, v) => Safe(c, id, v)'
         /\ disk'[c][id] = v => disk[c][id] = v \/ Held(c, id, v)'
<1>1. v # None /\ v \in Nat
  BY ContentFacts
<1>2. AtLeast(View(c, id), v) => AtLeast(View(c, id), v)'
  BY DEF AtLeast, Persisting
<1>3. AtLeast(View(c, id), v) /\ AtLeast(disk[c][id], v) => AtLeast(disk[c][id], v)'
  BY DEF AtLeast, Persisting
<1>4. disk'[c][id] = v => disk[c][id] = v \/ AtLeast(View(c, id), v)'
  <2>1. CASE disk'[c][id] = v /\ View(c, id) = v
    BY <1>1, <2>1 DEF AtLeast, Persisting
  <2> QED BY <2>1 DEF Persisting
<1>5. dead' = dead
  BY DEF Persisting
<1> QED BY <1>2, <1>3, <1>4, <1>5 DEF Held, Safe

LEMMA PersistVersions ==
  ASSUME TypeOK, TypeOK', VersionInv, NEW b \in Bodies, Persisting(b),
         xfer' # Idle => xfer # Idle /\ xfer'.id = xfer.id /\ xfer'.val = xfer.val
  PROVE  VersionInv'
<1>1. \A id \in Ids : version[id] <= version'[id] /\ dead'[id] = dead[id]
  BY NatFacts DEF Persisting
<1>2. ASSUME NEW c \in Bodies, NEW id \in Ids
      PROVE  Known(id, rec'[c][id]) /\ Known(id, disk'[c][id])
  BY DEF Persisting, Known, View
<1>3. xfer' # Idle => xfer'.id \in Ids /\ Known(xfer'.id, xfer'.val) /\ xfer'.val # None
  BY XferFacts, IdleFacts, ContentFacts DEF Known
<1> QED BY <1>1, <1>2, <1>3, VersionNext

----------------------------------------------------------------------------
(* What the steps have in common *)

LEMMA OpenFacts ==
  ASSUME TypeOK
  PROVE  Open \subseteq Bodies /\ Core \in Open
BY DEF TypeOK, Open, Bodies

LEMMA TypeNext ==
  ASSUME TypeOK, rec' \in [Bodies -> [Ids -> Records]], disk' \in [Bodies -> [Ids -> Records]],
         tomb' \in [Bodies -> SUBSET Ids], fresh' \in [Bodies -> SUBSET Ids],
         base' \in [Bodies -> SUBSET Ids], GravesOK' \/ UNCHANGED <<graves, disk>>,
         mounted' \subseteq Spaces, exists' \subseteq Spaces,
         version' \in [Ids -> 0..MaxVersion], dead' \in [Ids -> 0..MaxVersion],
         xfer' = xfer \/ xfer' = Idle \/ (xfer' \in Xfers /\ xfer'.src # xfer'.dst)
  PROVE  TypeOK'
<1>1. xfer' = Idle \/ (xfer' \in Xfers /\ xfer'.src # xfer'.dst)
  BY DEF TypeOK, Xfers, Steps
<1>2. GravesOK'
  BY DEF TypeOK, GravesOK
<1> QED BY <1>1, <1>2 DEF TypeOK, Xfers, Steps

(* An answer that was there is replaced by a newer one, or stays. *)
LEMMA GrowsIf ==
  ASSUME TypeOK,
         \A b \in Bodies, id \in Ids :
           View(b, id) # None => \/ View(b, id)' = View(b, id)
                                 \/ View(b, id)' \in Contents /\ View(b, id)' >= View(b, id)
  PROVE  Grows
<1> SUFFICES ASSUME NEW b \in Bodies, NEW id \in Ids, NEW v \in Contents, AtLeast(View(b, id), v)
             PROVE  AtLeast(View(b, id), v)'
  BY DEF Grows
<1>1. View(b, id) # None /\ View(b, id) >= v
  BY DEF AtLeast
<1>2. View(b, id) \in Nat /\ v \in Nat
  BY <1>1, NatFacts, ContentFacts DEF Records
<1>3. CASE View(b, id)' = View(b, id)
  BY <1>1, <1>3 DEF AtLeast
<1>4. ASSUME NEW w \in Contents, View(b, id)' = w, w >= View(b, id)
      PROVE  AtLeast(View(b, id), v)'
  <2>1. w \in Nat /\ w # None /\ w >= v
    BY <1>1, <1>2, <1>4, ContentFacts
  <2> QED BY <1>4, <2>1 DEF AtLeast
<1> QED BY <1>1, <1>3, <1>4

(* Records grow while a transfer is where it was. *)
LEMMA GrowsNext ==
  ASSUME TypeOK, TypeOK', KeepInv, SourceInv, Grows, UNCHANGED <<disk, dead, mounted>>,
         xfer' = xfer,
         xfer.pc \in {"deleted", "check"} =>
           LET r == rec'[xfer.src][xfer.id] IN
           r = rec[xfer.src][xfer.id] \/ r = None \/ r > xfer.val
  PROVE  Forward /\ KeepInv' /\ SourceInv'
<1>1. Forward /\ KeepInv'
  BY GrowsKeeps
<1>2. \A b \in Bodies, id \in Ids, v \in Contents :
        (Safe(b, id, v) => Safe(b, id, v)') /\ (Held(b, id, v) => Held(b, id, v)')
  BY DEF Grows, Safe, Held
<1>3. Open \subseteq Open'
  BY DEF Open
<1>4. SourceInv'
  BY <1>2, <1>3, SourceNext
<1> QED BY <1>1, <1>4

(* Nothing but the transfer moves. *)
LEMMA StillKeeps ==
  ASSUME TypeOK, TypeOK', KeepInv, UNCHANGED <<rec, tomb, disk, dead, mounted>>
  PROVE  Forward /\ KeepInv'
<1>1. Grows
  BY DEF Grows, View
<1> QED BY <1>1, GrowsKeeps

LEMMA StillVersions ==
  ASSUME TypeOK, TypeOK', VersionInv, UNCHANGED <<rec, disk, version, dead>>,
         xfer' # Idle => xfer # Idle /\ xfer'.id = xfer.id /\ xfer'.val = xfer.val
  PROVE  VersionInv'
BY DEF VersionInv

(* A body is loaded from its file. *)
LEMMA LoadedFacts ==
  ASSUME TypeOK, NEW s \in Spaces, Loaded(s)
  PROVE  /\ rec' \in [Bodies -> [Ids -> Records]]
         /\ tomb' \in [Bodies -> SUBSET Ids] /\ fresh' \in [Bodies -> SUBSET Ids]
         /\ mounted' \subseteq Spaces /\ Open' = Open \cup {s}
         /\ \A c \in Bodies, i \in Ids :
              /\ rec'[c][i] \in {rec[c][i], disk[c][i]}
              /\ View(c, i)' = IF c = s THEN disk[c][i] ELSE View(c, i)
<1> DEFINE gone == graves[s]
           new == {i \in Ids \ base[s] : disk[s][i] # None}
<1>1. /\ s \in Bodies /\ rec \in [Bodies -> [Ids -> Records]] /\ disk \in [Bodies -> [Ids -> Records]]
      /\ tomb \in [Bodies -> SUBSET Ids] /\ fresh \in [Bodies -> SUBSET Ids]
      /\ gone \in SUBSET Ids /\ new \in SUBSET Ids /\ \A i \in gone : disk[s][i] = None
  BY DEF TypeOK, GravesOK, Bodies
<1>2. /\ rec' = [rec EXCEPT ![s] = disk[s]] /\ tomb' = [tomb EXCEPT ![s] = gone]
      /\ fresh' = [fresh EXCEPT ![s] = new] /\ mounted' = mounted \cup {s}
  BY DEF Loaded
<1>3. /\ rec' \in [Bodies -> [Ids -> Records]]
      /\ \A c \in Bodies, i \in Ids : rec'[c][i] = IF c = s THEN disk[c][i] ELSE rec[c][i]
  BY <1>1, <1>2
<1>4. tomb' \in [Bodies -> SUBSET Ids] /\ fresh' \in [Bodies -> SUBSET Ids]
      /\ \A c \in Bodies : tomb'[c] = IF c = s THEN gone ELSE tomb[c]
  BY <1>1, <1>2
<1>5. ASSUME NEW c \in Bodies, NEW i \in Ids
      PROVE  View(c, i)' = IF c = s THEN disk[c][i] ELSE View(c, i)
  <2>1. CASE c = s
    BY <1>1, <1>3, <1>4, <2>1 DEF View
  <2>2. CASE c # s
    BY <1>3, <1>4, <2>2 DEF View
  <2> QED BY <2>1, <2>2
<1>6. mounted' \subseteq Spaces /\ Open' = Open \cup {s}
  BY <1>2 DEF TypeOK, Open
<1> QED BY <1>3, <1>4, <1>5, <1>6

LEMMA LoadedKeeps ==
  ASSUME TypeOK, TypeOK', KeepInv, NEW s \in Spaces, Loaded(s), UNCHANGED <<disk, dead>>
  PROVE  Forward /\ KeepInv'
<1>1. \A c \in Bodies, id \in Ids, v \in Contents :
        Keeps(c, id, v) => (c \in Open => AtLeast(View(c, id), v))'
  BY LoadedFacts DEF Keeps
<1> QED BY <1>1, SameFiles

(* One record is deleted in one body. *)
LEMMA RemovedFacts ==
  ASSUME TypeOK, NEW b \in Bodies, NEW id \in Ids, Removed(b, id)
  PROVE  /\ rec' \in [Bodies -> [Ids -> Records]]
         /\ tomb' \in [Bodies -> SUBSET Ids] /\ fresh' \in [Bodies -> SUBSET Ids]
         /\ \A c \in Bodies, i \in Ids :
              /\ rec'[c][i] = IF c = b /\ i = id THEN None ELSE rec[c][i]
              /\ View(c, i)' = IF c = b /\ i = id THEN None ELSE View(c, i)
<1>1. /\ tomb \in [Bodies -> SUBSET Ids] /\ fresh \in [Bodies -> SUBSET Ids] /\ None \in Records
  BY DEF TypeOK, Records
<1>2. /\ rec' = [rec EXCEPT ![b][id] = None] /\ tomb' = [tomb EXCEPT ![b] = @ \cup {id}]
      /\ fresh' = [fresh EXCEPT ![b] = @ \ {id}]
  BY DEF Removed
<1>3. /\ rec' \in [Bodies -> [Ids -> Records]]
      /\ \A c \in Bodies, i \in Ids : rec'[c][i] = IF c = b /\ i = id THEN None ELSE rec[c][i]
  BY <1>1, <1>2, RecSet
<1>4. tomb' \in [Bodies -> SUBSET Ids] /\ fresh' \in [Bodies -> SUBSET Ids]
      /\ \A c \in Bodies : tomb'[c] = IF c = b THEN tomb[b] \cup {id} ELSE tomb[c]
  BY <1>1, <1>2
<1>5. ASSUME NEW c \in Bodies, NEW i \in Ids
      PROVE  View(c, i)' = IF c = b /\ i = id THEN None ELSE View(c, i)
  BY <1>3, <1>4 DEF View
<1> QED BY <1>3, <1>4, <1>5

----------------------------------------------------------------------------
(* The steps beside a transfer *)

LEMMA UpsertNext ==
  ASSUME FabricInv, NEW id \in Ids, Upsert(id)
  PROVE  FabricInv' /\ Forward
<1>0. TypeOK /\ VersionInv /\ KeepInv /\ SourceInv
  BY DEF FabricInv
<1> DEFINE v == version[id] + 1
<1>1. /\ version[id] \in Nat /\ version[id] < MaxVersion /\ MaxVersion \in Nat
      /\ v \in Contents /\ v \in Records /\ v # None
  <2>1. version[id] \in Nat /\ version[id] < MaxVersion /\ MaxVersion \in Nat
    BY <1>0, NatFacts, FabricAssumption DEF Upsert
  <2>2. v \in Contents
    BY <2>1 DEF Contents
  <2> QED BY <2>1, <2>2, ContentFacts DEF Records
<1>2. /\ version' = [version EXCEPT ![id] = v]
      /\ UNCHANGED <<mounted, base, graves, disk, exists, xfer, dead>> /\ tomb' = tomb
  BY DEF Upsert, diskVars, Added
<1>3. PICK b \in Bodies : /\ rec' = [rec EXCEPT ![b][id] = v]
                          /\ fresh' \in [Bodies -> SUBSET Ids]
  <2>1. fresh \in [Bodies -> SUBSET Ids] /\ Open \subseteq Bodies
    BY <1>0, OpenFacts DEF TypeOK
  <2> QED BY <2>1 DEF Upsert, Added
<1>4. /\ rec' \in [Bodies -> [Ids -> Records]]
      /\ \A c \in Bodies, i \in Ids : rec'[c][i] = IF c = b /\ i = id THEN v ELSE rec[c][i]
  BY <1>0, <1>1, <1>3, RecSet
<1>5. version' \in [Ids -> 0..MaxVersion] /\ \A i \in Ids : version'[i] = IF i = id THEN v ELSE version[i]
  <2>1. version \in [Ids -> 0..MaxVersion]
    BY <1>0 DEF TypeOK
  <2>2. v \in 0..MaxVersion
    BY <1>1
  <2> QED BY <1>2, <2>1, <2>2
<1>6. TypeOK'
  BY <1>0, <1>2, <1>3, <1>4, <1>5, TypeNext DEF TypeOK
<1>7. VersionInv'
  <2>1. \A i \in Ids : version[i] <= version'[i] /\ dead'[i] = dead[i]
    BY <1>0, <1>1, <1>2, <1>5, NatFacts
  <2>2. \A c \in Bodies, i \in Ids :
          /\ Known(i, rec'[c][i]) \/ rec'[c][i] = version'[i]
          /\ Known(i, disk'[c][i])
    BY <1>2, <1>4, <1>5 DEF Known
  <2>3. xfer' # Idle => xfer'.id \in Ids /\ Known(xfer'.id, xfer'.val) /\ xfer'.val # None
    BY <1>0, <1>2, XferFacts, IdleFacts, ContentFacts DEF Known
  <2> QED BY <1>0, <1>6, <2>1, <2>2, <2>3, VersionNext
<1>8. Grows
  <2>1. ASSUME NEW c \in Bodies, NEW i \in Ids, View(c, i) # None
        PROVE  \/ View(c, i)' = View(c, i)
               \/ View(c, i)' \in Contents /\ View(c, i)' >= View(c, i)
    <3>1. CASE c = b /\ i = id
      <4>1. id \notin tomb'[b] /\ View(c, i) = rec[b][id] /\ rec[b][id] \in Nat
        BY <1>0, <1>2, <2>1, <3>1, NatFacts, ContentFacts DEF Records
      <4>2. View(c, i)' = v
        BY <1>4, <3>1, <4>1 DEF View
      <4>3. rec[b][id] <= version[id]
        BY <1>0, <2>1, <3>1, <4>1 DEF VersionInv
      <4> QED BY <1>1, <4>1, <4>2, <4>3
    <3>2. CASE ~(c = b /\ i = id)
      BY <1>2, <1>4, <3>2 DEF View
    <3> QED BY <3>1, <3>2
  <2> QED BY <1>0, <2>1, GrowsIf
<1>9. xfer.pc \in {"deleted", "check"} =>
        LET r == rec'[xfer.src][xfer.id] IN
        r = rec[xfer.src][xfer.id] \/ r = None \/ r > xfer.val
  <2> SUFFICES ASSUME xfer.pc \in {"deleted", "check"}, rec'[xfer.src][xfer.id] # rec[xfer.src][xfer.id]
               PROVE  rec'[xfer.src][xfer.id] > xfer.val
    OBVIOUS
  <2>1. xfer # Idle /\ xfer.id \in Ids /\ xfer.src \in Bodies /\ xfer.val \in Nat
    BY <1>0, XferFacts, ContentFacts
  <2>2. xfer.id = id /\ rec'[xfer.src][xfer.id] = v
    BY <1>4, <2>1
  <2>3. xfer.val <= version[id]
    BY <1>0, <2>1, <2>2 DEF VersionInv
  <2> QED BY <1>1, <2>1, <2>2, <2>3
<1>10. Forward /\ KeepInv' /\ SourceInv'
  BY <1>0, <1>2, <1>6, <1>8, <1>9, GrowsNext
<1> QED BY <1>6, <1>7, <1>10 DEF FabricInv

LEMMA DeleteNext ==
  ASSUME FabricInv, NEW id \in Ids, Delete(id)
  PROVE  FabricInv' /\ Forward
<1>0. TypeOK /\ VersionInv /\ KeepInv /\ SourceInv
  BY DEF FabricInv
<1>1. PICK b \in Bodies : Removed(b, id)
  BY <1>0, OpenFacts DEF Delete
<1>2. /\ dead' = [dead EXCEPT ![id] = version[id]]
      /\ UNCHANGED <<mounted, base, graves, disk, exists, xfer, version>>
  BY DEF Delete, diskVars
<1>3. /\ rec' \in [Bodies -> [Ids -> Records]]
      /\ tomb' \in [Bodies -> SUBSET Ids] /\ fresh' \in [Bodies -> SUBSET Ids]
      /\ \A c \in Bodies, i \in Ids :
           /\ rec'[c][i] = IF c = b /\ i = id THEN None ELSE rec[c][i]
           /\ View(c, i)' = IF c = b /\ i = id THEN None ELSE View(c, i)
  BY <1>0, <1>1, RemovedFacts
<1>4. /\ dead' \in [Ids -> 0..MaxVersion]
      /\ \A i \in Ids : dead'[i] = IF i = id THEN version[id] ELSE dead[i]
  BY <1>0, <1>2 DEF TypeOK
<1>5. TypeOK'
  BY <1>0, <1>2, <1>3, <1>4, TypeNext DEF TypeOK
<1>6. \A i \in Ids : version[i] <= version'[i] /\ dead[i] <= dead'[i] /\ dead'[i] \in {dead[i], version[i]}
  BY <1>0, <1>2, <1>4, NatFacts DEF VersionInv
<1>7. VersionInv'
  <2>1. \A c \in Bodies, i \in Ids : Known(i, rec'[c][i]) /\ Known(i, disk'[c][i])
    BY <1>2, <1>3 DEF Known
  <2>2. xfer' # Idle => xfer'.id \in Ids /\ Known(xfer'.id, xfer'.val) /\ xfer'.val # None
    BY <1>0, <1>2, XferFacts, IdleFacts, ContentFacts DEF Known
  <2> QED BY <1>0, <1>5, <1>6, <2>1, <2>2, VersionNext
(* Whatever a file holds of the deleted id is dead now. *)
<1>8. ASSUME NEW c \in Bodies, NEW v \in Contents, AtLeast(disk[c][id], v)
      PROVE  dead'[id] >= v
  <2>1. v \in Nat /\ disk[c][id] # None /\ disk[c][id] >= v
    BY <1>8, ContentFacts DEF AtLeast
  <2>2. disk[c][id] \in Nat /\ disk[c][id] <= version[id] /\ version[id] \in Nat
    BY <1>0, <2>1, NatFacts, ContentFacts DEF Records, VersionInv
  <2> QED BY <1>4, <2>1, <2>2
<1>9. \A c \in Bodies, i \in Ids : i # id => View(c, i)' = View(c, i) /\ dead'[i] = dead[i]
  BY <1>3, <1>4
<1>10. Open' = Open
  BY <1>2 DEF Open
<1>11. ASSUME NEW i \in Ids, NEW v \in Contents, NEW c \in Bodies, v > dead'[i], Keeps(c, i, v)
       PROVE  Keeps(c, i, v)'
  <2>1. v \in Nat /\ dead'[i] \in Nat
    BY <1>5, NextFacts, ContentFacts
  <2>2. i # id
    BY <1>8, <1>11, <2>1 DEF Keeps
  <2> QED BY <1>2, <1>9, <1>10, <1>11, <2>2 DEF Keeps
<1>12. Forward
  BY <1>11 DEF Forward
<1>13. KeepInv'
  BY <1>0, <1>2, <1>5, <1>6, <1>12, KeepNext
<1>14. SourceInv'
  <2>1. ASSUME NEW c \in Bodies, NEW i \in Ids, NEW v \in Contents
        PROVE  /\ Safe(c, i, v) => Safe(c, i, v)'
               /\ disk'[c][i] = v => \/ disk[c][i] = v /\ (Held(c, i, v) => Held(c, i, v)')
                                     \/ Held(c, i, v)'
    <3>1. v \in Nat /\ v # None /\ dead[i] \in Nat /\ dead'[i] \in Nat /\ dead[i] <= dead'[i]
      BY <1>0, <1>5, <1>6, NatFacts, NextFacts, ContentFacts
    <3>2. dead[i] >= v => dead'[i] >= v
      BY <3>1
    <3>3. CASE i = id
      <4>1. disk[c][i] = v => AtLeast(disk[c][i], v)
        BY <3>1 DEF AtLeast
      <4> QED BY <1>2, <1>8, <3>2, <3>3, <4>1 DEF Safe, Held
    <3>4. CASE i # id
      BY <1>2, <1>9, <3>4 DEF Safe, Held
    <3> QED BY <3>3, <3>4
  <2>2. xfer.pc \in {"deleted", "check"} =>
          LET r == rec'[xfer.src][xfer.id] IN
          r = rec[xfer.src][xfer.id] \/ r = None \/ r > xfer.val
    BY <1>0, <1>3, XferFacts
  <2> QED BY <1>0, <1>2, <1>5, <1>10, <2>1, <2>2, SourceNext
<1> QED BY <1>5, <1>7, <1>12, <1>13, <1>14 DEF FabricInv

LEMMA PersistNext ==
  ASSUME FabricInv, NEW b \in Bodies, Persist(b)
  PROVE  FabricInv' /\ Forward
<1>0. TypeOK /\ VersionInv /\ KeepInv /\ SourceInv
  BY DEF FabricInv
<1>1. b \in Open /\ UNCHANGED <<rec, mounted, exists, xfer, version, dead>>
  BY DEF Persist, history
<1>2. Persisting(b)
  <2>1. PersistOK(b) \/ PersistFails(b)
    BY DEF Persist
  <2> QED BY <1>0, <1>1, <2>1, PersistFacts
<1>3. TypeOK'
  <2>1. /\ tomb' \in [Bodies -> SUBSET Ids] /\ fresh' \in [Bodies -> SUBSET Ids]
        /\ base' \in [Bodies -> SUBSET Ids] /\ disk' \in [Bodies -> [Ids -> Records]] /\ GravesOK'
    BY <1>2 DEF Persisting
  <2> QED BY <1>0, <1>1, <2>1, TypeNext DEF TypeOK
<1>4. VersionInv'
  BY <1>0, <1>1, <1>2, <1>3, PersistVersions
<1>5. Forward /\ KeepInv'
  BY <1>0, <1>1, <1>2, <1>3, PersistKeeps
<1>6. SourceInv'
  <2>1. Open' = Open
    BY <1>1 DEF Open
  <2>2. \A c \in Bodies, i \in Ids, v \in Contents :
          /\ Safe(c, i, v) => Safe(c, i, v)'
          /\ disk'[c][i] = v => \/ disk[c][i] = v /\ (Held(c, i, v) => Held(c, i, v)')
                                \/ Held(c, i, v)'
    BY <1>0, <1>2, PersistSafe
  <2> QED BY <1>0, <1>1, <1>3, <2>1, <2>2, SourceNext
<1> QED BY <1>3, <1>4, <1>5, <1>6 DEF FabricInv

----------------------------------------------------------------------------
(* The steps that need the canonical lane *)

LEMMA LaneFacts ==
  ASSUME TypeOK, LaneFree
  PROVE  xfer = Idle
BY IdleFacts DEF LaneFree

LEMMA LoadNext ==
  ASSUME FabricInv, NEW s \in Spaces, SpaceCreate(s) \/ SpaceMount(s)
  PROVE  FabricInv' /\ Forward
<1>0. TypeOK /\ VersionInv /\ KeepInv /\ SourceInv
  BY DEF FabricInv
<1>1. /\ LaneFree /\ Loaded(s) /\ exists' \subseteq Spaces
      /\ UNCHANGED <<base, graves, disk, xfer, version, dead>>
  BY <1>0 DEF SpaceCreate, SpaceMount, history, diskVars, TypeOK
<1>2. xfer = Idle /\ xfer' = Idle
  BY <1>0, <1>1, LaneFacts
<1>3. TypeOK'
  BY <1>0, <1>1, LoadedFacts, TypeNext DEF TypeOK
<1>4. VersionInv'
  <2>1. \A i \in Ids : version[i] <= version'[i] /\ dead'[i] = dead[i]
    BY <1>0, <1>1, NatFacts
  <2>2. \A c \in Bodies, i \in Ids : Known(i, rec'[c][i]) /\ Known(i, disk'[c][i])
    BY <1>0, <1>1, LoadedFacts DEF Known
  <2> QED BY <1>0, <1>2, <1>3, <2>1, <2>2, VersionNext
<1>5. Forward /\ KeepInv'
  BY <1>0, <1>1, <1>3, LoadedKeeps
<1>6. SourceInv'
  BY <1>2, NoTransfer
<1> QED BY <1>3, <1>4, <1>5, <1>6 DEF FabricInv

LEMMA SelectNext ==
  ASSUME FabricInv, NEW b \in Bodies, SelectWrite(b)
  PROVE  FabricInv' /\ Forward
<1>0. TypeOK /\ VersionInv /\ KeepInv /\ SourceInv
  BY DEF FabricInv
<1>1. LaneFree /\ UNCHANGED <<rec, tomb, fresh, mounted, base, graves, disk, exists, xfer, version, dead>>
  BY DEF SelectWrite, diskVars, history
<1>2. xfer' = Idle
  BY <1>0, <1>1, LaneFacts
<1>3. TypeOK'
  BY <1>0, <1>1, TypeNext DEF TypeOK
<1>4. VersionInv' /\ Forward /\ KeepInv' /\ SourceInv'
  BY <1>0, <1>1, <1>2, <1>3, StillVersions, StillKeeps, NoTransfer
<1> QED BY <1>3, <1>4 DEF FabricInv

LEMMA UnmountNext ==
  ASSUME FabricInv, NEW s \in Spaces, SpaceUnmount(s)
  PROVE  FabricInv' /\ Forward
<1>0. TypeOK /\ VersionInv /\ KeepInv /\ SourceInv
  BY DEF FabricInv
<1>1. /\ LaneFree /\ s \in Open /\ s \in Bodies /\ (PersistOK(s) \/ PersistFails(s))
      /\ mounted' \subseteq mounted /\ UNCHANGED <<rec, exists, xfer, version, dead>>
  BY DEF SpaceUnmount, Open, Bodies, history
<1>2. xfer' = Idle
  BY <1>0, <1>1, LaneFacts
<1>3. Persisting(s)
  BY <1>0, <1>1, PersistFacts
<1>4. TypeOK'
  <2>1. /\ tomb' \in [Bodies -> SUBSET Ids] /\ fresh' \in [Bodies -> SUBSET Ids]
        /\ base' \in [Bodies -> SUBSET Ids] /\ disk' \in [Bodies -> [Ids -> Records]] /\ GravesOK'
    BY <1>3 DEF Persisting
  <2> QED BY <1>0, <1>1, <2>1, TypeNext DEF TypeOK
<1>5. VersionInv' /\ Forward /\ KeepInv' /\ SourceInv'
  BY <1>0, <1>1, <1>2, <1>3, <1>4, PersistVersions, PersistKeeps, NoTransfer
<1> QED BY <1>4, <1>5 DEF FabricInv

LEMMA MergeNext ==
  ASSUME FabricInv, NEW s \in Spaces, NEW t \in Bodies, SpaceMerge(s, t)
  PROVE  FabricInv' /\ Forward
<1>0. TypeOK /\ VersionInv /\ KeepInv /\ SourceInv
  BY DEF FabricInv
<1> DEFINE new == {id \in Ids : View(s, id) # None /\ View(t, id) = None}
           merged == [id \in Ids |-> IF id \in new THEN View(s, id) ELSE rec[t][id]]
<1>1. /\ LaneFree /\ rec' = [rec EXCEPT ![t] = merged] /\ fresh' = [fresh EXCEPT ![t] = @ \cup new]
      /\ UNCHANGED <<tomb, mounted, base, graves, disk, exists, xfer, version, dead>> /\ s \in Bodies
  BY DEF SpaceMerge, diskVars, history, Bodies
<1>2. xfer' = Idle
  BY <1>0, <1>1, LaneFacts
<1>3. /\ rec' \in [Bodies -> [Ids -> Records]] /\ fresh' \in [Bodies -> SUBSET Ids]
      /\ \A c \in Bodies, i \in Ids :
           rec'[c][i] = IF c = t /\ i \in new THEN View(s, i) ELSE rec[c][i]
  <2>1. rec \in [Bodies -> [Ids -> Records]] /\ fresh \in [Bodies -> SUBSET Ids] /\ new \subseteq Ids
    BY <1>0 DEF TypeOK
  <2>2. merged \in [Ids -> Records]
    BY <1>0, <1>1, <2>1, NatFacts
  <2>3. fresh' \in [Bodies -> SUBSET Ids]
    BY <1>1, <2>1
  <2> HIDE DEF new
  <2> QED BY <1>1, <2>1, <2>2, <2>3
<1>4. TypeOK'
  BY <1>0, <1>1, <1>3, TypeNext DEF TypeOK
<1>5. VersionInv'
  <2>1. \A i \in Ids : version[i] <= version'[i] /\ dead'[i] = dead[i]
    BY <1>0, <1>1, NatFacts
  <2>2. \A c \in Bodies, i \in Ids : Known(i, rec'[c][i]) /\ Known(i, disk'[c][i])
    BY <1>1, <1>3 DEF Known, View
  <2> QED BY <1>0, <1>2, <1>4, <2>1, <2>2, VersionNext
<1>6. Grows
  <2>1. \A c \in Bodies, i \in Ids : View(c, i) # None => View(c, i)' = View(c, i)
    BY <1>1, <1>3 DEF View
  <2> QED BY <1>0, <2>1, GrowsIf
<1>7. Forward /\ KeepInv' /\ SourceInv'
  BY <1>0, <1>1, <1>2, <1>4, <1>6, GrowsKeeps, NoTransfer
<1> QED BY <1>4, <1>5, <1>7 DEF FabricInv

LEMMA BeginNext ==
  ASSUME FabricInv, NEW id \in Ids, NEW t \in Bodies, NEW move \in BOOLEAN, TransferBegin(id, t, move)
  PROVE  FabricInv' /\ Forward
<1>0. TypeOK /\ VersionInv /\ KeepInv /\ SourceInv
  BY DEF FabricInv
<1>1. PICK s \in Open :
        /\ LaneFree /\ Owned(s, id) /\ t \in ({Core} \cup exists) \ {s}
        /\ xfer' = [pc |-> "lookup", id |-> id, src |-> s, dst |-> t,
                    val |-> View(s, id), move |-> move]
        /\ IF t \in Open THEN UNCHANGED <<rec, tomb, fresh, mounted>> ELSE Loaded(t)
        /\ UNCHANGED <<base, graves, disk, exists, version, dead>>
  BY DEF TransferBegin, diskVars, history
<1>2. s \in Bodies /\ View(s, id) \in Contents /\ View(s, id) = rec[s][id]
  <2>1. s \in Bodies
    BY <1>0, OpenFacts
  <2>2. View(s, id) # None
    BY <1>1 DEF Owned, Owners
  <2> QED BY <1>0, <2>1, <2>2, NatFacts DEF Records
<1>3. xfer' \in Xfers /\ xfer'.src # xfer'.dst /\ xfer'.pc = "lookup" /\ xfer'.id = id
      /\ xfer'.src = s /\ xfer'.dst = t /\ xfer'.val = View(s, id)
  BY <1>1, <1>2 DEF Xfers, Steps
<1>4. t \notin Open => t \in Spaces
  BY <1>0, <1>1 DEF Open, TypeOK
<1>5. TypeOK'
  <2>1. CASE t \in Open
    BY <1>0, <1>1, <1>3, <2>1, TypeNext DEF TypeOK
  <2>2. CASE t \notin Open
    BY <1>0, <1>1, <1>3, <1>4, <2>2, LoadedFacts, TypeNext DEF TypeOK
  <2> QED BY <2>1, <2>2
<1>6. VersionInv'
  <2>1. \A i \in Ids : version[i] <= version'[i] /\ dead'[i] = dead[i]
    BY <1>0, <1>1, NatFacts
  <2>2. \A c \in Bodies, i \in Ids : Known(i, rec'[c][i]) /\ Known(i, disk'[c][i])
    <3>1. \A c \in Bodies, i \in Ids : rec'[c][i] \in {rec[c][i], disk[c][i]}
      BY <1>0, <1>1, <1>4, LoadedFacts
    <3> QED BY <1>1, <3>1 DEF Known
  <2>3. xfer' # Idle => xfer'.id \in Ids /\ Known(xfer'.id, xfer'.val) /\ xfer'.val # None
    BY <1>2, <1>3, ContentFacts DEF Known
  <2> QED BY <1>0, <1>5, <2>1, <2>2, <2>3, VersionNext
<1>7. Forward /\ KeepInv'
  <2>1. CASE t \in Open
    BY <1>0, <1>1, <1>5, <2>1, StillKeeps
  <2>2. CASE t \notin Open
    BY <1>0, <1>1, <1>4, <1>5, <2>2, LoadedKeeps
  <2> QED BY <2>1, <2>2
<1>8. SourceInv'
  <2>1. {s, t} \subseteq Open'
    <3>1. CASE t \in Open
      BY <1>1, <3>1 DEF Open
    <3>2. CASE t \notin Open
      BY <1>0, <1>1, <1>4, <3>2, LoadedFacts
    <3> QED BY <3>1, <3>2
  <2> QED BY <1>3, <2>1 DEF SourceInv
<1> QED BY <1>5, <1>6, <1>7, <1>8 DEF FabricInv

----------------------------------------------------------------------------
(* The steps of a transfer *)

(* Every fact that SourceInv asks for at the new place holds there. *)
LEMMA SourceGoto ==
  ASSUME TypeOK, SourceInv, xfer.pc # "idle", NEW pc \in Steps, Goto(pc), Open' = Open,
         pc = "verify" /\ disk'[xfer.dst][xfer.id] = xfer.val => Held(xfer.dst, xfer.id, xfer.val)',
         pc \in {"delete", "deleted", "check"} => Safe(xfer.dst, xfer.id, xfer.val)',
         pc \in {"deleted", "check"} =>
           rec'[xfer.src][xfer.id] = None \/ rec'[xfer.src][xfer.id] > xfer.val
  PROVE  SourceInv'
<1>1. /\ xfer' # Idle /\ xfer'.pc = pc /\ xfer'.id = xfer.id /\ xfer'.src = xfer.src
      /\ xfer'.dst = xfer.dst /\ xfer'.val = xfer.val
  BY GotoFacts
<1>2. {xfer'.src, xfer'.dst} \subseteq Open'
  BY <1>1, XferFacts DEF SourceInv
<1> QED BY <1>1, <1>2 DEF SourceInv, Held, Safe

(* The transfer moves on, or is over, and nothing else changes. *)
LEMMA MoveOn ==
  ASSUME FabricInv, xfer.pc # "idle",
         UNCHANGED <<rec, tomb, fresh, mounted, base, graves, disk, exists, version, dead>>,
         \/ Return
         \/ \E pc \in Steps \ {"verify", "deleted", "check"} :
              /\ Goto(pc)
              /\ pc = "delete" => Safe(xfer.dst, xfer.id, xfer.val)
  PROVE  FabricInv' /\ Forward
<1>0. TypeOK /\ VersionInv /\ KeepInv /\ SourceInv
  BY DEF FabricInv
<1>1. Open' = Open
  BY DEF Open
<1>2. /\ xfer' = Idle \/ (xfer' \in Xfers /\ xfer'.src # xfer'.dst)
      /\ xfer' # Idle => xfer # Idle /\ xfer'.id = xfer.id /\ xfer'.val = xfer.val
  <2>1. CASE Return
    BY <2>1 DEF Return
  <2>2. ASSUME NEW pc \in Steps, Goto(pc)
        PROVE  /\ xfer' \in Xfers /\ xfer'.src # xfer'.dst
               /\ xfer # Idle /\ xfer'.id = xfer.id /\ xfer'.val = xfer.val
    BY <1>0, <2>2, GotoFacts, XferFacts
  <2> QED BY <2>1, <2>2
<1>3. TypeOK'
  BY <1>0, <1>2, TypeNext DEF TypeOK
<1>4. VersionInv' /\ Forward /\ KeepInv'
  BY <1>0, <1>2, <1>3, StillVersions, StillKeeps
<1>5. SourceInv'
  <2>1. CASE Return
    BY <2>1, NoTransfer DEF Return
  <2>2. ASSUME NEW pc \in Steps \ {"verify", "deleted", "check"}, Goto(pc),
               pc = "delete" => Safe(xfer.dst, xfer.id, xfer.val)
        PROVE  SourceInv'
    <3>1. xfer'.id = xfer.id /\ xfer'.dst = xfer.dst /\ xfer'.val = xfer.val
      BY <1>0, <2>2, GotoFacts
    <3>2. pc = "delete" => Safe(xfer.dst, xfer.id, xfer.val)'
      BY <2>2, <3>1 DEF Safe, View
    <3> QED BY <1>0, <1>1, <2>2, <3>2, SourceGoto
  <2> QED BY <2>1, <2>2
<1> QED BY <1>3, <1>4, <1>5 DEF FabricInv

LEMMA LookupNext ==
  ASSUME FabricInv, TransferLookup
  PROVE  FabricInv' /\ Forward
<1>1. /\ xfer.pc # "idle"
      /\ UNCHANGED <<rec, tomb, fresh, mounted, base, graves, disk, exists, version, dead>>
      /\ Return \/ Goto("add") \/ Goto("persist-same")
  BY DEF TransferLookup, engineVars, diskVars, history
<1>2. {"add", "persist-same"} \subseteq Steps \ {"verify", "delete", "deleted", "check"}
  BY DEF Steps
<1> QED BY <1>1, <1>2, MoveOn

LEMMA VerifyNext ==
  ASSUME FabricInv, TransferVerify
  PROVE  FabricInv' /\ Forward
<1>1. /\ xfer.pc = "verify"
      /\ UNCHANGED <<rec, tomb, fresh, mounted, base, graves, disk, exists, version, dead>>
      /\ IF disk[xfer.dst][xfer.id] = xfer.val THEN Goto("delete") \/ Goto("done") ELSE Return
  BY DEF TransferVerify, engineVars, diskVars, history
<1>2. xfer.pc # "idle" /\ {"delete", "done"} \subseteq Steps \ {"verify", "deleted", "check"}
  BY <1>1 DEF Steps
<1>3. disk[xfer.dst][xfer.id] = xfer.val => Safe(xfer.dst, xfer.id, xfer.val)
  <2>1. xfer.val \in Nat /\ xfer.val # None
    BY <1>2, XferFacts, ContentFacts DEF FabricInv
  <2> QED BY <1>1, <2>1 DEF FabricInv, SourceInv, Safe, AtLeast
<1> QED BY <1>1, <1>2, <1>3, MoveOn

LEMMA CheckNext ==
  ASSUME FabricInv, TransferCheck
  PROVE  FabricInv' /\ Forward
<1>1. /\ xfer.pc # "idle"
      /\ UNCHANGED <<rec, tomb, fresh, mounted, base, graves, disk, exists, version, dead>>
      /\ Goto("done") \/ Goto("restore")
  BY DEF TransferCheck, engineVars, diskVars, history
<1>2. {"done", "restore"} \subseteq Steps \ {"verify", "delete", "deleted", "check"}
  BY DEF Steps
<1> QED BY <1>1, <1>2, MoveOn

LEMMA ReturnNext ==
  ASSUME FabricInv, TransferReturn
  PROVE  FabricInv' /\ Forward
<1>1. /\ xfer.pc # "idle" /\ Return
      /\ UNCHANGED <<rec, tomb, fresh, mounted, base, graves, disk, exists, version, dead>>
  BY DEF TransferReturn, engineVars, diskVars, history
<1> QED BY <1>1, MoveOn

LEMMA AddNext ==
  ASSUME FabricInv, TransferAdd
  PROVE  FabricInv' /\ Forward
<1>0. TypeOK /\ VersionInv /\ KeepInv /\ SourceInv
  BY DEF FabricInv
<1> DEFINE d == xfer.dst  id == xfer.id
<1>1. /\ xfer.pc = "add" /\ xfer.pc # "idle"
      /\ UNCHANGED <<mounted, base, graves, disk, exists, version, dead>>
  BY DEF TransferAdd, diskVars, history
<1>2. CASE Return /\ UNCHANGED <<rec, tomb, fresh>>
  BY <1>1, <1>2, MoveOn
<1>3. CASE View(d, id) = None /\ Added(d, id, xfer.val) /\ Goto("persist")
  <2>1. d \in Bodies /\ id \in Ids /\ xfer.val \in Records /\ xfer.src # xfer.dst /\ xfer # Idle
    BY <1>0, <1>1, XferFacts DEF Records
  <2>2. rec' = [rec EXCEPT ![d][id] = xfer.val] /\ tomb' = tomb /\ fresh' = [fresh EXCEPT ![d] = @ \cup {id}]
    BY <1>3 DEF Added
  <2>3. /\ rec' \in [Bodies -> [Ids -> Records]]
        /\ \A c \in Bodies, i \in Ids : rec'[c][i] = IF c = d /\ i = id THEN xfer.val ELSE rec[c][i]
    BY <1>0, <2>1, <2>2, RecSet
  <2>4. fresh' \in [Bodies -> SUBSET Ids]
    BY <1>0, <2>1, <2>2 DEF TypeOK
  <2>5. "persist" \in Steps
    BY DEF Steps
  <2>6. xfer' \in Xfers /\ xfer'.src = xfer.src /\ xfer'.dst = xfer.dst
        /\ xfer'.id = id /\ xfer'.val = xfer.val
    BY <1>0, <1>1, <1>3, <2>5, GotoFacts
  <2>7. TypeOK'
    BY <1>0, <1>1, <2>1, <2>2, <2>3, <2>4, <2>6, TypeNext DEF TypeOK
  <2>8. VersionInv'
    <3>1. \A i \in Ids : version[i] <= version'[i] /\ dead'[i] = dead[i]
      BY <1>0, <1>1, NatFacts
    <3>2. \A c \in Bodies, i \in Ids : Known(i, rec'[c][i]) /\ Known(i, disk'[c][i])
      BY <1>1, <2>1, <2>3 DEF Known
    <3>3. Known(xfer'.id, xfer'.val) /\ xfer'.id \in Ids /\ xfer'.val # None
      BY <1>0, <1>1, <2>1, <2>6, XferFacts, ContentFacts DEF Known
    <3> QED BY <1>0, <2>7, <3>1, <3>2, <3>3, VersionNext
  <2>9. Grows
    <3>1. \A c \in Bodies, i \in Ids : View(c, i) # None => View(c, i)' = View(c, i)
      BY <1>3, <2>2, <2>3 DEF View
    <3> QED BY <1>0, <3>1, GrowsIf
  <2>10. Open' = Open
    BY <1>1 DEF Open
  <2>11. Forward /\ KeepInv' /\ SourceInv'
    BY <1>0, <1>1, <1>3, <2>5, <2>7, <2>9, <2>10, GrowsKeeps, SourceGoto
  <2> QED BY <2>7, <2>8, <2>11 DEF FabricInv
<1> QED BY <1>2, <1>3 DEF TransferAdd

(* A persist call inside a transfer: of the target, or of the source. *)
LEMMA PersistStep ==
  ASSUME FabricInv, xfer.pc # "idle", NEW b \in {xfer.src, xfer.dst}, PersistOK(b) \/ PersistFails(b),
         UNCHANGED <<rec, mounted, exists, version, dead>>,
         Return \/ \E pc \in Steps : Goto(pc)
  PROVE  /\ b \in Bodies /\ Persisting(b) /\ TypeOK' /\ VersionInv' /\ KeepInv' /\ Forward
         /\ Open' = Open
<1>0. TypeOK /\ VersionInv /\ KeepInv /\ SourceInv
  BY DEF FabricInv
<1>1. b \in Bodies /\ b \in Open
  BY <1>0, XferFacts DEF SourceInv
<1>2. Persisting(b)
  BY <1>0, <1>1, PersistFacts
<1>3. /\ xfer' = Idle \/ (xfer' \in Xfers /\ xfer'.src # xfer'.dst)
      /\ xfer' # Idle => xfer # Idle /\ xfer'.id = xfer.id /\ xfer'.val = xfer.val
  <2>1. CASE Return
    BY <2>1 DEF Return
  <2>2. ASSUME NEW pc \in Steps, Goto(pc)
        PROVE  /\ xfer' \in Xfers /\ xfer'.src # xfer'.dst
               /\ xfer # Idle /\ xfer'.id = xfer.id /\ xfer'.val = xfer.val
    BY <1>0, <2>2, GotoFacts, XferFacts
  <2> QED BY <2>1, <2>2
<1>4. TypeOK'
  <2>1. /\ tomb' \in [Bodies -> SUBSET Ids] /\ fresh' \in [Bodies -> SUBSET Ids]
        /\ base' \in [Bodies -> SUBSET Ids] /\ disk' \in [Bodies -> [Ids -> Records]] /\ GravesOK'
    BY <1>2 DEF Persisting
  <2> QED BY <1>0, <1>3, <2>1, TypeNext DEF TypeOK
<1>5. VersionInv' /\ Forward /\ KeepInv'
  BY <1>0, <1>1, <1>2, <1>3, <1>4, PersistVersions, PersistKeeps
<1> QED BY <1>1, <1>2, <1>4, <1>5 DEF Open

LEMMA PersistTargetNext ==
  ASSUME FabricInv, TransferPersist
  PROVE  FabricInv' /\ Forward
<1>0. TypeOK /\ SourceInv
  BY DEF FabricInv
<1>1. PICK d, id, val : d = xfer.dst /\ id = xfer.id /\ val = xfer.val
  OBVIOUS
<1>2. /\ xfer.pc # "idle" /\ (PersistOK(d) \/ PersistFails(d))
      /\ UNCHANGED <<rec, mounted, exists, version, dead>>
      /\ (PersistOK(d) /\ Goto("verify")) \/ Goto("failed") \/ Return
  BY <1>1 DEF TransferPersist, history
<1>3. {"verify", "failed"} \subseteq Steps
  BY DEF Steps
<1>4. d \in Bodies /\ Persisting(d) /\ TypeOK' /\ VersionInv' /\ KeepInv' /\ Forward /\ Open' = Open
  BY <1>1, <1>2, <1>3, PersistStep
<1>5. id \in Ids /\ val \in Contents /\ val # None /\ val \in Nat
  BY <1>0, <1>1, <1>2, XferFacts, ContentFacts
<1>6. SourceInv'
  <2>1. CASE Return
    BY <2>1, NoTransfer DEF Return
  <2>2. CASE Goto("failed")
    BY <1>0, <1>2, <1>3, <1>4, <2>2, SourceGoto
  <2>3. CASE PersistOK(d) /\ Goto("verify")
    <3>1. disk'[d][id] = View(d, id)
      <4>1. disk' = [disk EXCEPT ![d] = [i \in Ids |-> View(d, i)]]
        BY <2>3 DEF PersistOK, Journalled, Saved
      <4>2. disk \in [Bodies -> [Ids -> Records]]
        BY <1>0 DEF TypeOK
      <4> QED BY <1>4, <1>5, <4>1, <4>2
    <3>2. disk'[d][id] = val => Held(d, id, val)'
      <4> SUFFICES ASSUME disk'[d][id] = val PROVE AtLeast(View(d, id), val)'
        BY DEF Held
      <4>1. View(d, id) # None /\ View(d, id) = val
        BY <1>5, <3>1
      <4>2. View(d, id)' = val
        BY <1>4, <1>5, <4>1 DEF Persisting
      <4> QED BY <1>5, <4>2 DEF AtLeast
    <3>3. xfer'.id = id /\ xfer'.dst = d /\ xfer'.val = val
      <4>1. Goto("verify") /\ "verify" \in Steps
        BY <1>3, <2>3
      <4>2. xfer'.id = xfer.id /\ xfer'.dst = xfer.dst /\ xfer'.val = xfer.val
        BY <1>0, <1>2, <4>1, GotoFacts
      <4> QED BY <1>1, <4>2
    <3>4. disk'[xfer.dst][xfer.id] = xfer.val => Held(xfer.dst, xfer.id, xfer.val)'
      BY <1>1, <3>2, <3>3 DEF Held, View
    <3> QED BY <1>0, <1>2, <1>3, <1>4, <2>3, <3>4, SourceGoto
  <2> QED BY <1>2, <2>1, <2>2, <2>3
<1> QED BY <1>4, <1>6 DEF FabricInv

LEMMA PersistSourceNext ==
  ASSUME FabricInv, TransferPersistSource
  PROVE  FabricInv' /\ Forward
<1>0. TypeOK /\ SourceInv
  BY DEF FabricInv
<1>1. /\ xfer.pc = "deleted" /\ xfer.pc # "idle" /\ (PersistOK(xfer.src) \/ PersistFails(xfer.src))
      /\ UNCHANGED <<rec, mounted, exists, version, dead>>
      /\ Goto("check") \/ Goto("restore")
  BY DEF TransferPersistSource, history
<1>2. {"check", "restore"} \subseteq Steps
  BY DEF Steps
<1>3. /\ xfer.src \in Bodies /\ Persisting(xfer.src) /\ TypeOK' /\ VersionInv' /\ KeepInv'
      /\ Forward /\ Open' = Open
  BY <1>1, <1>2, PersistStep
<1>4. xfer.id \in Ids /\ xfer.val \in Contents /\ xfer.dst \in Bodies
  BY <1>0, <1>1, XferFacts
<1>5. SourceInv'
  <2>1. CASE Goto("restore")
    BY <1>0, <1>1, <1>2, <1>3, <2>1, SourceGoto
  <2>2. CASE Goto("check")
    <3>1. PICK d, id, val : d = xfer.dst /\ id = xfer.id /\ val = xfer.val
      OBVIOUS
    <3>2. Safe(xfer.dst, xfer.id, xfer.val)'
      <4>1. xfer'.id = id /\ xfer'.dst = d /\ xfer'.val = val
        BY <1>0, <1>1, <1>2, <2>2, <3>1, GotoFacts
      <4>2. Safe(d, id, val)
        BY <1>0, <1>1, <3>1 DEF SourceInv, Safe
      <4>3. Safe(d, id, val)'
        BY <1>0, <1>3, <1>4, <3>1, <4>2, PersistSafe
      <4> QED BY <4>1, <4>3 DEF Safe, View
    <3>3. rec'[xfer.src][xfer.id] = None \/ rec'[xfer.src][xfer.id] > xfer.val
      BY <1>0, <1>1 DEF SourceInv
    <3> QED BY <1>0, <1>1, <1>2, <1>3, <2>2, <3>2, <3>3, SourceGoto
  <2> QED BY <1>1, <2>1, <2>2
<1> QED BY <1>3, <1>5 DEF FabricInv

(* The candidate is taken back only when the target's file does not hold   *)
(* it: the target was then no keeper.                                      *)
LEMMA FailedNext ==
  ASSUME FabricInv, TransferFailed
  PROVE  FabricInv' /\ Forward
<1>0. TypeOK /\ VersionInv /\ KeepInv /\ SourceInv
  BY DEF FabricInv
<1>1. PICK d, id : d = xfer.dst /\ id = xfer.id
  OBVIOUS
<1>2. /\ xfer.pc # "idle" /\ d \in Bodies /\ id \in Ids
      /\ UNCHANGED <<tomb, mounted, base, graves, disk, exists, version, dead>>
      /\ \/ UNCHANGED <<rec, fresh>> /\ Return
         \/ /\ disk[d][id] = None
            /\ rec' = [rec EXCEPT ![d][id] = None]
            /\ fresh' = [fresh EXCEPT ![d] = @ \ {id}]
            /\ Goto("rolled back")
  BY <1>0, <1>1, XferFacts DEF TransferFailed, diskVars, history
<1>3. CASE UNCHANGED <<rec, fresh>> /\ Return
  BY <1>2, <1>3, MoveOn
<1>4. CASE /\ disk[d][id] = None
           /\ rec' = [rec EXCEPT ![d][id] = None]
           /\ fresh' = [fresh EXCEPT ![d] = @ \ {id}]
           /\ Goto("rolled back")
  <2>1. None \in Records /\ "rolled back" \in Steps
    BY DEF Records, Steps
  <2>2. /\ rec' \in [Bodies -> [Ids -> Records]]
        /\ \A c \in Bodies, i \in Ids : rec'[c][i] = IF c = d /\ i = id THEN None ELSE rec[c][i]
    BY <1>0, <1>2, <1>4, <2>1, RecSet
  <2>3. fresh' \in [Bodies -> SUBSET Ids]
    BY <1>0, <1>2, <1>4 DEF TypeOK
  <2>4. xfer' \in Xfers /\ xfer'.src # xfer'.dst /\ xfer'.id = xfer.id /\ xfer'.val = xfer.val
    BY <1>0, <1>2, <1>4, <2>1, GotoFacts, XferFacts
  <2>5. TypeOK'
    BY <1>0, <1>2, <2>2, <2>3, <2>4, TypeNext DEF TypeOK
  <2>6. VersionInv'
    <3>1. \A i \in Ids : version[i] <= version'[i] /\ dead'[i] = dead[i]
      <4>1. version' = version /\ dead' = dead
        BY <1>2
      <4> QED BY <1>0, <4>1, NatFacts
    <3>2. \A c \in Bodies, i \in Ids : Known(i, rec'[c][i]) /\ Known(i, disk'[c][i])
      BY <1>2, <2>2 DEF Known
    <3>3. Known(xfer'.id, xfer'.val) /\ xfer'.id \in Ids /\ xfer'.val # None
      BY <1>0, <1>2, <2>4, XferFacts, ContentFacts DEF Known
    <3> QED BY <1>0, <2>5, <3>1, <3>2, <3>3, VersionNext
  <2>7. Open' = Open
    BY <1>2 DEF Open
  <2>8. Forward /\ KeepInv'
    <3>1. ASSUME NEW c \in Bodies, NEW i \in Ids, NEW v \in Contents, Keeps(c, i, v)
          PROVE  (c \in Open => AtLeast(View(c, i), v))'
      <4>1. ~(c = d /\ i = id)
        BY <1>4, <3>1 DEF Keeps, AtLeast
      <4>2. View(c, i)' = View(c, i)
        BY <1>2, <2>2, <4>1 DEF View
      <4> QED BY <2>7, <3>1, <4>2 DEF Keeps
    <3> QED BY <1>0, <1>2, <2>5, <3>1, SameFiles
  <2>9. SourceInv'
    BY <1>0, <1>2, <1>4, <2>1, <2>7, SourceGoto
  <2> QED BY <2>5, <2>6, <2>8, <2>9 DEF FabricInv
<1> QED BY <1>2, <1>3, <1>4

(* The source is deleted: where it was a keeper, the target is one.        *)
LEMMA DeleteSourceNext ==
  ASSUME FabricInv, TransferDelete
  PROVE  FabricInv' /\ Forward
<1>0. TypeOK /\ VersionInv /\ KeepInv /\ SourceInv
  BY DEF FabricInv
<1>1. PICK s, d, id, val : s = xfer.src /\ d = xfer.dst /\ id = xfer.id /\ val = xfer.val
  OBVIOUS
<1>2. /\ xfer.pc = "delete" /\ xfer.pc # "idle" /\ s \in Bodies /\ d \in Bodies /\ s # d
      /\ id \in Ids /\ val \in Contents /\ val \in Nat /\ val # None
      /\ UNCHANGED <<mounted, base, graves, disk, exists, version, dead>>
      /\ \/ View(s, id) = val /\ Removed(s, id) /\ Goto("deleted")
         \/ Return /\ UNCHANGED <<rec, tomb, fresh>>
  BY <1>0, <1>1, XferFacts, ContentFacts DEF TransferDelete, diskVars, history
<1>3. CASE Return /\ UNCHANGED <<rec, tomb, fresh>>
  BY <1>2, <1>3, MoveOn
<1>4. CASE View(s, id) = val /\ Removed(s, id) /\ Goto("deleted")
  <2>1. "deleted" \in Steps
    BY DEF Steps
  <2>2. /\ rec' \in [Bodies -> [Ids -> Records]]
        /\ tomb' \in [Bodies -> SUBSET Ids] /\ fresh' \in [Bodies -> SUBSET Ids]
        /\ \A c \in Bodies, i \in Ids :
             /\ rec'[c][i] = IF c = s /\ i = id THEN None ELSE rec[c][i]
             /\ View(c, i)' = IF c = s /\ i = id THEN None ELSE View(c, i)
    BY <1>0, <1>2, <1>4, RemovedFacts
  <2>3. /\ xfer' \in Xfers /\ xfer'.src # xfer'.dst /\ xfer'.id = xfer.id /\ xfer'.val = xfer.val
        /\ xfer'.dst = xfer.dst
    BY <1>0, <1>2, <1>4, <2>1, GotoFacts, XferFacts
  <2>4. TypeOK'
    BY <1>0, <1>2, <2>2, <2>3, TypeNext DEF TypeOK
  <2>5. VersionInv'
    <3>1. \A i \in Ids : version[i] <= version'[i] /\ dead'[i] = dead[i]
      <4>1. version' = version /\ dead' = dead
        BY <1>2
      <4> QED BY <1>0, <4>1, NatFacts
    <3>2. \A c \in Bodies, i \in Ids : Known(i, rec'[c][i]) /\ Known(i, disk'[c][i])
      BY <1>2, <2>2 DEF Known
    <3>3. Known(xfer'.id, xfer'.val) /\ xfer'.id \in Ids /\ xfer'.val # None
      BY <1>0, <1>1, <1>2, <2>3, XferFacts DEF Known
    <3> QED BY <1>0, <2>4, <3>1, <3>2, <3>3, VersionNext
  <2>6. Open' = Open
    BY <1>2 DEF Open
  <2>7. Safe(d, id, val)
    BY <1>0, <1>1, <1>2 DEF SourceInv, Safe
  <2>8. ASSUME NEW i \in Ids, NEW v \in Contents, NEW c \in Bodies, v > dead'[i], Keeps(c, i, v)
        PROVE  \E e \in Bodies : Keeps(e, i, v)'
    <3>1. CASE c = s /\ i = id
      <4>1. v \in Nat /\ dead[id] \in Nat /\ v > dead[id]
        BY <1>0, <1>2, <2>8, <3>1, NatFacts, ContentFacts
      <4>2. s \in Open
        BY <1>0, <1>1, <1>2, XferFacts DEF SourceInv
      <4>3. val >= v
        BY <1>4, <2>8, <3>1, <4>2 DEF Keeps, AtLeast
      <4>4. AtLeast(disk[d][id], val) /\ AtLeast(View(d, id), val)
        BY <1>2, <2>7, <4>1, <4>3 DEF Safe
      <4>5. disk[d][id] \in Nat /\ View(d, id) \in Nat
        BY <1>0, <1>2, <4>4, NatFacts, ContentFacts DEF Records, AtLeast
      <4>6. AtLeast(disk[d][id], v) /\ AtLeast(View(d, id), v)
        BY <1>2, <4>1, <4>3, <4>4, <4>5 DEF AtLeast
      <4>7. disk'[d][id] = disk[d][id] /\ View(d, id)' = View(d, id)
        BY <1>2, <2>2
      <4>8. Keeps(d, id, v)'
        BY <4>6, <4>7 DEF Keeps
      <4> QED BY <1>2, <3>1, <4>8
    <3>2. CASE ~(c = s /\ i = id)
      BY <1>2, <2>2, <2>6, <2>8, <3>2 DEF Keeps
    <3> QED BY <3>1, <3>2
  <2>9. Forward
    BY <2>8 DEF Forward
  <2>10. KeepInv'
    <3>1. \A i \in Ids : dead[i] <= dead'[i]
      BY <1>0, <1>2, NatFacts
    <3> QED BY <1>0, <1>2, <2>4, <2>9, <3>1, KeepNext
  <2>11. SourceInv'
    <3>1. Safe(d, id, val)'
      BY <1>2, <2>2, <2>7 DEF Safe
    <3>2. Safe(xfer.dst, xfer.id, xfer.val)'
      BY <1>1, <2>3, <3>1 DEF Safe, View
    <3>3. rec'[xfer.src][xfer.id] = None
      BY <1>1, <1>2, <2>2
    <3> QED BY <1>0, <1>2, <1>4, <2>1, <2>6, <3>2, <3>3, SourceGoto
  <2> QED BY <2>4, <2>5, <2>9, <2>10, <2>11 DEF FabricInv
<1> QED BY <1>2, <1>3, <1>4

(* A deletion that did not reach the source's file is taken back. *)
LEMMA RestoreNext ==
  ASSUME FabricInv, TransferRestore
  PROVE  FabricInv' /\ Forward
<1>0. TypeOK /\ VersionInv /\ KeepInv /\ SourceInv
  BY DEF FabricInv
<1>1. PICK s, id, val : s = xfer.src /\ id = xfer.id /\ val = xfer.val
  OBVIOUS
<1>2. /\ xfer.pc # "idle" /\ s \in Bodies /\ id \in Ids /\ val \in Records /\ xfer # Idle
      /\ UNCHANGED <<mounted, base, graves, disk, exists, version, dead>> /\ Return
      /\ \/ /\ id \in tomb[s]
            /\ rec' = [rec EXCEPT ![s][id] = val]
            /\ fresh' = [fresh EXCEPT ![s] = @ \cup {id}]
            /\ tomb' = [tomb EXCEPT ![s] = @ \ {id}]
         \/ UNCHANGED <<rec, tomb, fresh>>
  BY <1>0, <1>1, XferFacts DEF TransferRestore, diskVars, history, Records
<1>3. CASE UNCHANGED <<rec, tomb, fresh>>
  BY <1>2, <1>3, MoveOn
<1>4. CASE /\ id \in tomb[s]
           /\ rec' = [rec EXCEPT ![s][id] = val]
           /\ fresh' = [fresh EXCEPT ![s] = @ \cup {id}]
           /\ tomb' = [tomb EXCEPT ![s] = @ \ {id}]
  <2>1. /\ rec' \in [Bodies -> [Ids -> Records]]
        /\ \A c \in Bodies, i \in Ids : rec'[c][i] = IF c = s /\ i = id THEN val ELSE rec[c][i]
    BY <1>0, <1>2, <1>4, RecSet
  <2>2. /\ fresh' \in [Bodies -> SUBSET Ids] /\ tomb' \in [Bodies -> SUBSET Ids]
        /\ \A c \in Bodies : tomb'[c] = IF c = s THEN tomb[s] \ {id} ELSE tomb[c]
    BY <1>0, <1>2, <1>4 DEF TypeOK
  <2>3. xfer' = Idle
    BY <1>2 DEF Return
  <2>4. TypeOK'
    BY <1>0, <1>2, <2>1, <2>2, <2>3, TypeNext DEF TypeOK
  <2>5. VersionInv'
    <3>1. \A i \in Ids : version[i] <= version'[i] /\ dead'[i] = dead[i]
      <4>1. version' = version /\ dead' = dead
        BY <1>2
      <4> QED BY <1>0, <4>1, NatFacts
    <3>2. \A c \in Bodies, i \in Ids : Known(i, rec'[c][i]) /\ Known(i, disk'[c][i])
      BY <1>1, <1>2, <2>1 DEF Known
    <3> QED BY <1>0, <2>3, <2>4, <3>1, <3>2, VersionNext
  <2>6. Grows
    <3>1. ASSUME NEW c \in Bodies, NEW i \in Ids, View(c, i) # None
          PROVE  View(c, i)' = View(c, i)
      <4>1. ~(c = s /\ i = id)
        BY <1>4, <3>1 DEF View
      <4> QED BY <2>1, <2>2, <4>1 DEF View
    <3> QED BY <1>0, <3>1, GrowsIf
  <2>7. Forward /\ KeepInv' /\ SourceInv'
    BY <1>0, <1>2, <2>3, <2>4, <2>6, GrowsKeeps, NoTransfer
  <2> QED BY <2>4, <2>5, <2>7 DEF FabricInv
<1> QED BY <1>2, <1>3, <1>4

(* Every body answers with what its file holds. *)
LEMMA RestartNext ==
  ASSUME FabricInv, Restart
  PROVE  FabricInv' /\ Forward
<1>0. TypeOK /\ VersionInv /\ KeepInv /\ SourceInv
  BY DEF FabricInv
<1>1. /\ rec' = disk /\ mounted' = exists /\ xfer' = Idle
      /\ tomb' = graves
      /\ fresh' = [b \in Bodies |-> {id \in Ids \ base[b] : disk[b][id] # None}]
      /\ UNCHANGED <<base, graves, disk, exists, version, dead>>
  BY DEF Restart, Return, diskVars, history
<1>2. tomb' \in [Bodies -> SUBSET Ids] /\ fresh' \in [Bodies -> SUBSET Ids]
  <2>1. graves \in [Bodies -> SUBSET Ids]
    BY <1>0 DEF TypeOK, GravesOK
  <2> QED BY <1>1, <2>1
<1>3. TypeOK'
  BY <1>0, <1>1, <1>2, TypeNext DEF TypeOK
<1>4. VersionInv'
  <2>1. \A i \in Ids : version[i] <= version'[i] /\ dead'[i] = dead[i]
    BY <1>0, <1>1, NatFacts
  <2>2. \A c \in Bodies, i \in Ids : Known(i, rec'[c][i]) /\ Known(i, disk'[c][i])
    BY <1>1 DEF Known
  <2> QED BY <1>0, <1>1, <1>3, <2>1, <2>2, VersionNext
<1>5. ASSUME NEW c \in Bodies, NEW i \in Ids
      PROVE  View(c, i)' = disk[c][i]
  BY <1>0, <1>1 DEF View, TypeOK, GravesOK
<1>6. Forward /\ KeepInv'
  <2>1. \A c \in Bodies, i \in Ids, v \in Contents :
          Keeps(c, i, v) => (c \in Open => AtLeast(View(c, i), v))'
    BY <1>5 DEF Keeps
  <2> QED BY <1>0, <1>1, <1>3, <2>1, SameFiles
<1>7. SourceInv'
  BY <1>1, NoTransfer
<1> QED BY <1>3, <1>4, <1>6, <1>7 DEF FabricInv

----------------------------------------------------------------------------
(* Every step *)

LEMMA TransferNext ==
  ASSUME FabricInv, Transfer
  PROVE  FabricInv' /\ Forward
BY BeginNext, LookupNext, AddNext, PersistTargetNext, FailedNext, VerifyNext, DeleteSourceNext,
   PersistSourceNext, CheckNext, RestoreNext, ReturnNext DEF Transfer

LEMMA StepNext ==
  ASSUME FabricInv, Next
  PROVE  FabricInv' /\ Forward
<1>1. CASE \E id \in Ids : Upsert(id) \/ Delete(id)
  BY <1>1, UpsertNext, DeleteNext
<1>2. CASE \E b \in Bodies : Persist(b) \/ SelectWrite(b)
  BY <1>2, PersistNext, SelectNext
<1>3. CASE \E s \in Spaces : SpaceCreate(s) \/ SpaceMount(s) \/ SpaceUnmount(s)
  BY <1>3, LoadNext, UnmountNext
<1>4. CASE \E s \in Spaces, t \in Bodies : SpaceMerge(s, t)
  BY <1>4, MergeNext
<1>5. CASE Transfer
  BY <1>5, TransferNext
<1>6. CASE Restart
  BY <1>6, RestartNext
<1> QED BY <1>1, <1>2, <1>3, <1>4, <1>5, <1>6 DEF Next

LEMMA StutterNext ==
  ASSUME FabricInv, UNCHANGED vars
  PROVE  FabricInv'
<1>1. /\ UNCHANGED <<rec, tomb, fresh, mounted, base, graves, disk, exists, version, dead>> /\ xfer' = xfer
  BY DEF vars, engineVars, diskVars, history
<1>2. \A b, id : View(b, id)' = View(b, id)
  BY <1>1 DEF View
<1>3. Open' = Open
  BY <1>1 DEF Open
<1>4. TypeOK'
  BY <1>1, TypeNext DEF FabricInv, TypeOK
<1>5. VersionInv'
  BY <1>1 DEF FabricInv, VersionInv
<1>6. KeepInv'
  BY <1>1, <1>4, StillKeeps DEF FabricInv
<1>7. SourceInv'
  BY <1>1, <1>3 DEF FabricInv, SourceInv, View
<1> QED BY <1>4, <1>5, <1>6, <1>7 DEF FabricInv

LEMMA InitFabric == Init => FabricInv
<1> SUFFICES ASSUME Init PROVE FabricInv
  OBVIOUS
<1>1. MaxVersion \in Nat /\ xfer = Idle
  BY FabricAssumption DEF Init
<1>2. TypeOK
  <2>1. rec \in [Bodies -> [Ids -> Records]] /\ disk \in [Bodies -> [Ids -> Records]]
    BY DEF Init, Nothing, Records
  <2>2. 0 \in 0..MaxVersion
    BY <1>1
  <2>3. GravesOK
    BY DEF Init, GravesOK
  <2> QED BY <1>1, <2>1, <2>2, <2>3 DEF Init, TypeOK
<1>3. VersionInv
  BY <1>1 DEF Init, VersionInv, Nothing
<1>4. KeepInv
  BY DEF Init, KeepInv, Nothing
<1>5. SourceInv
  BY <1>1 DEF SourceInv, Idle
<1> QED BY <1>2, <1>3, <1>4, <1>5 DEF FabricInv

(* The inductive invariant of MemoryFabric: types, no content newer than   *)
(* the newest, a keeper for every durable content that was not deleted,    *)
(* and what a transfer knows of its target and its source at each place.   *)
THEOREM FabricInvariant == Spec => []FabricInv
<1>1. FabricInv /\ [Next]_vars => FabricInv'
  BY StepNext, StutterNext
<1> QED BY InitFabric, <1>1, PTL DEF Spec

----------------------------------------------------------------------------
(* The newest durable content *)

LEMMA MaxFacts ==
  ASSUME NEW T \in SUBSET (0..MaxVersion), T # {}
  PROVE  Max(T) \in T /\ \A y \in T : Max(T) >= y
<1>0. MaxVersion \in Nat
  BY FabricAssumption
<1> DEFINE Gap == {n \in Nat : \E x \in T : n = MaxVersion - x}
<1>1. \A x \in T : x \in Nat /\ x <= MaxVersion /\ MaxVersion - x \in Gap
  BY <1>0
<1>2. Gap \subseteq Nat /\ Gap # {}
  BY <1>1
<1>3. PICK m \in Gap : \A y \in Gap : ~(<<y, m>> \in OpToRel(<, Nat))
  BY <1>2, WFMin, NatLessThanWellFounded
<1>4. \A y \in Gap : ~(y < m)
  <2>1. ASSUME NEW y \in Gap, y < m PROVE <<y, m>> \in OpToRel(<, Nat)
    <3>1. <<y, m>> \in Nat \X Nat /\ <<y, m>>[1] < <<y, m>>[2]
      BY <1>2, <1>3, <2>1
    <3> QED BY <3>1, Zenon DEF OpToRel
  <2> QED BY <1>3, <2>1
<1>5. PICK x \in T : m = MaxVersion - x
  OBVIOUS
<1>6. \A y \in T : x >= y
  <2> SUFFICES ASSUME NEW y \in T PROVE x >= y
    OBVIOUS
  <2>1. MaxVersion - y \in Gap /\ y \in Nat /\ x \in Nat
    BY <1>1
  <2>2. ~(MaxVersion - y < m)
    BY <1>4, <2>1
  <2> QED BY <1>0, <1>5, <2>1, <2>2
<1> QED BY <1>6 DEF Max

(* The newest content that a set of files holds of an id: T is 0 with the  *)
(* contents they hold.                                                     *)
LEMMA NewestFacts ==
  ASSUME NEW f \in [Bodies -> [Ids -> Records]], NEW id \in Ids, NEW T, NEW n, n = Max(T),
         \A y : y \in T <=> y = 0 \/ \E b \in Bodies : f[b][id] # None /\ y = f[b][id]
  PROVE  /\ n \in Nat
         /\ n = 0 \/ (n \in Contents /\ \E b \in Bodies : f[b][id] = n)
         /\ \A b \in Bodies : f[b][id] # None => n >= f[b][id]
<1>0. MaxVersion \in Nat
  BY FabricAssumption
<1>1. \A b \in Bodies : f[b][id] # None => f[b][id] \in Contents
  BY DEF Records
<1>2. T \subseteq 0..MaxVersion /\ T # {}
  <2>1. Contents \subseteq 0..MaxVersion /\ 0 \in 0..MaxVersion
    BY <1>0 DEF Contents
  <2>2. ASSUME NEW y \in T PROVE y \in 0..MaxVersion
    <3>1. CASE y = 0
      BY <2>1, <3>1
    <3>2. CASE \E b \in Bodies : f[b][id] # None /\ y = f[b][id]
      <4>1. PICK b \in Bodies : f[b][id] # None /\ y = f[b][id]
        BY <3>2
      <4>2. y \in Contents
        BY <1>1, <4>1
      <4> QED BY <2>1, <4>2
    <3> QED BY <3>1, <3>2
  <2>3. 0 \in T
    OBVIOUS
  <2> QED BY <2>2, <2>3
<1>3. n \in T /\ \A y \in T : n >= y
  BY <1>2, MaxFacts
<1>4. n \in Nat
  BY <1>0, <1>2, <1>3
<1>5. n = 0 \/ \E b \in Bodies : f[b][id] # None /\ f[b][id] = n
  BY <1>3
<1> QED BY <1>1, <1>3, <1>4, <1>5

LEMMA DeadNext ==
  ASSUME FabricInv, Next
  PROVE  \A id \in Ids : dead[id] <= dead'[id]
<1>1. ASSUME NEW id \in Ids, Delete(id)
      PROVE  \A i \in Ids : dead[i] <= dead'[i]
  <2>1. dead' = [dead EXCEPT ![id] = version[id]]
    BY <1>1 DEF Delete
  <2>2. dead \in [Ids -> 0..MaxVersion]
    BY DEF FabricInv, TypeOK
  <2>3. \A i \in Ids : dead'[i] \in {dead[i], version[i]}
    BY <2>1, <2>2
  <2> QED BY <2>3, NatFacts DEF FabricInv, VersionInv
<1>2. CASE dead' = dead
  BY <1>2, NatFacts DEF FabricInv
<1>3. (\E id \in Ids : Delete(id)) \/ dead' = dead
  <2>1. CASE \E id \in Ids : Upsert(id) \/ Delete(id)
    BY <2>1 DEF Upsert
  <2>2. CASE \E b \in Bodies : Persist(b) \/ SelectWrite(b)
    BY <2>2 DEF Persist, SelectWrite, history
  <2>3. CASE \E s \in Spaces : SpaceCreate(s) \/ SpaceMount(s) \/ SpaceUnmount(s)
    BY <2>3 DEF SpaceCreate, SpaceMount, SpaceUnmount, history
  <2>4. CASE \E s \in Spaces, t \in Bodies : SpaceMerge(s, t)
    BY <2>4 DEF SpaceMerge, history
  <2>5. CASE Transfer
    BY <2>5 DEF Transfer, TransferBegin, TransferLookup, TransferAdd, TransferPersist,
                TransferFailed, TransferVerify, TransferDelete, TransferPersistSource,
                TransferCheck, TransferRestore, TransferReturn, history
  <2>6. CASE Restart
    BY <2>6 DEF Restart, history
  <2> QED BY <2>1, <2>2, <2>3, <2>4, <2>5, <2>6 DEF Next
<1> QED BY <1>1, <1>2, <1>3

LEMMA NewestNext ==
  ASSUME FabricInv, Next, NEW id \in Ids, Newest(id) > dead'[id]
  PROVE  Newest(id)' >= Newest(id)
<1>0. TypeOK /\ TypeOK' /\ KeepInv /\ Forward
  BY StepNext DEF FabricInv
<1>1. PICK n : n = Newest(id)
  OBVIOUS
<1>2. PICK m : m = Newest(id)'
  OBVIOUS
<1>3. disk \in [Bodies -> [Ids -> Records]] /\ disk' \in [Bodies -> [Ids -> Records]]
  BY <1>0 DEF TypeOK
<1>4. n = 0 \/ (n \in Contents /\ \E b \in Bodies : disk[b][id] = n)
  <2>1. PICK T : T = {0} \cup {disk[b][id] : b \in {x \in Bodies : disk[x][id] # None}}
    OBVIOUS
  <2>2. \A y : y \in T <=> y = 0 \/ \E b \in Bodies : disk[b][id] # None /\ y = disk[b][id]
    BY <2>1
  <2>3. n = Max(T)
    BY <1>1, <2>1 DEF Newest
  <2> QED BY <1>3, <2>2, <2>3, NewestFacts
<1>5. m \in Nat /\ \A b \in Bodies : disk'[b][id] # None => m >= disk'[b][id]
  <2>1. PICK T : T = {0} \cup {disk'[b][id] : b \in {x \in Bodies : disk'[x][id] # None}}
    OBVIOUS
  <2>2. \A y : y \in T <=> y = 0 \/ \E b \in Bodies : disk'[b][id] # None /\ y = disk'[b][id]
    BY <2>1
  <2>3. m = Max(T)
    BY <1>2, <2>1 DEF Newest
  <2> QED BY <1>3, <2>2, <2>3, NewestFacts
<1>6. dead[id] \in Nat /\ dead'[id] \in Nat /\ dead[id] <= dead'[id]
  BY <1>0, NatFacts, NextFacts, DeadNext
<1>7. PICK b \in Bodies : disk[b][id] = n /\ n \in Contents /\ n \in Nat /\ n # None
  <2>1. n > dead'[id]
    BY <1>1
  <2>2. n # 0
    BY <1>6, <2>1
  <2> QED BY <1>4, <2>2, ContentFacts
<1>8. PICK c \in Bodies : Keeps(c, id, n)
  BY <1>0, <1>1, <1>6, <1>7 DEF KeepInv
<1>9. PICK d \in Bodies : Keeps(d, id, n)'
  BY <1>0, <1>1, <1>7, <1>8 DEF Forward
<1>10. disk'[d][id] # None /\ disk'[d][id] >= n
  BY <1>9 DEF Keeps, AtLeast
<1>11. disk'[d][id] \in Nat
  BY <1>0, <1>10, NextFacts, ContentFacts DEF Records
<1> QED BY <1>1, <1>2, <1>5, <1>7, <1>10, <1>11

(* For a durable content that was not deleted there is always a body whose *)
(* file holds it or a newer one and which, while it is open, would not     *)
(* persist less.                                                           *)
THEOREM DurableIsKept == Spec => []KeepInv
<1>1. FabricInv => KeepInv
  BY DEF FabricInv
<1> QED BY FabricInvariant, <1>1, PTL

(* A content that reached a file is not lost: until the id is deleted on   *)
(* purpose the newest durable content never gives way to an older one,     *)
(* whatever fails during a move, an unmount or a merge, and wherever the   *)
(* process dies, for any number of bodies and ids.                         *)
THEOREM NewestNeverLost == Spec => NewestKept
<1>1. FabricInv /\ [Next]_vars
        => [\A id \in Ids : Newest(id) > dead'[id] => Newest(id)' >= Newest(id)]_vars
  BY NewestNext
<1> QED BY <1>1, FabricInvariant, PTL DEF Spec, NewestKept

----------------------------------------------------------------------------
(* What a transfer answers *)

LEMMA RolledBackNext ==
  ASSUME FabricInv, TransferFailed, xfer'.pc = "rolled back"
  PROVE  (View(xfer.dst, xfer.id))' = None /\ disk'[xfer.dst][xfer.id] = None
<1>0. TypeOK /\ xfer.pc # "idle" /\ xfer.pc # "rolled back" /\ "rolled back" \in Steps
  BY DEF FabricInv, TransferFailed, Steps
<1>1. PICK d, id : d = xfer.dst /\ id = xfer.id
  OBVIOUS
<1>2. d \in Bodies /\ id \in Ids
  BY <1>0, <1>1, XferFacts
<1>3. /\ disk[d][id] = None /\ rec' = [rec EXCEPT ![d][id] = None] /\ disk' = disk
      /\ Goto("rolled back")
  <2>1. ~Return
    <3>1. Idle.pc = "idle"
      BY DEF Idle
    <3> QED BY <3>1 DEF Return
  <2> QED BY <1>1, <2>1 DEF TransferFailed, diskVars
<1>4. rec'[d][id] = None
  BY <1>0, <1>2, <1>3 DEF TypeOK
<1>5. xfer'.dst = d /\ xfer'.id = id
  BY <1>0, <1>1, <1>3, GotoFacts
<1> QED BY <1>1, <1>3, <1>4, <1>5 DEF View

LEMMA MovedNext ==
  ASSUME FabricInv, TransferCheck, xfer'.pc = "done"
  PROVE  /\ xfer.val \notin {View(xfer.src, xfer.id), disk[xfer.src][xfer.id]}
         /\ \/ disk[xfer.dst][xfer.id] = xfer.val
            \/ version[xfer.id] > xfer.val \/ dead[xfer.id] >= xfer.val
<1>0. TypeOK /\ VersionInv /\ SourceInv /\ xfer.pc = "check"
  BY DEF FabricInv, TransferCheck
<1>1. /\ xfer.id \in Ids /\ xfer.src \in Bodies /\ xfer.dst \in Bodies
      /\ xfer.val \in Nat /\ xfer.val # None
  BY <1>0, XferFacts, ContentFacts
<1>2. disk[xfer.src][xfer.id] = None
  <2>1. ASSUME Goto("restore") PROVE FALSE
    <3>1. xfer'.pc = "restore"
      BY <1>0, <2>1, GotoFacts DEF Steps
    <3> QED BY <3>1
  <2> QED BY <2>1 DEF TransferCheck
<1>3. View(xfer.src, xfer.id) # xfer.val
  <2>1. rec[xfer.src][xfer.id] = None \/ rec[xfer.src][xfer.id] > xfer.val
    BY <1>0 DEF SourceInv
  <2> QED BY <1>1, <2>1 DEF View
<1>4. \/ disk[xfer.dst][xfer.id] = xfer.val
      \/ version[xfer.id] > xfer.val \/ dead[xfer.id] >= xfer.val
  <2>1. CASE dead[xfer.id] >= xfer.val
    BY <2>1
  <2>2. CASE AtLeast(disk[xfer.dst][xfer.id], xfer.val)
    <3>1. disk[xfer.dst][xfer.id] # None /\ disk[xfer.dst][xfer.id] >= xfer.val
      BY <2>2 DEF AtLeast
    <3>2. disk[xfer.dst][xfer.id] \in Nat /\ version[xfer.id] \in Nat
      BY <1>0, <1>1, <3>1, NatFacts, ContentFacts DEF Records
    <3>3. disk[xfer.dst][xfer.id] <= version[xfer.id]
      BY <1>0, <1>1, <3>1 DEF VersionInv
    <3> QED BY <1>1, <3>1, <3>2, <3>3
  <2> QED BY <1>0, <2>1, <2>2 DEF SourceInv
<1> QED BY <1>1, <1>2, <1>3, <1>4

(* No other step answers "rolled back", and no other leads from the check  *)
(* of the source's file to success.                                        *)
LEMMA AnswerSteps ==
  ASSUME FabricInv, Next
  PROVE  /\ xfer.pc # "rolled back" /\ xfer'.pc = "rolled back" => TransferFailed
         /\ xfer.pc = "check" /\ xfer'.pc = "done" => TransferCheck
<1> DEFINE Silent == xfer' = xfer \/ xfer' = Idle \/ xfer'.pc = "lookup"
<1>0. TypeOK
  BY DEF FabricInv
<1>1. Silent => /\ ~(xfer.pc # "rolled back" /\ xfer'.pc = "rolled back")
                /\ ~(xfer.pc = "check" /\ xfer'.pc = "done")
  <2>1. Idle.pc = "idle"
    BY DEF Idle
  <2> QED BY <2>1
<1>2. ASSUME NEW pc \in Steps, Goto(pc), xfer.pc # "idle"
      PROVE  xfer'.pc = pc
  BY <1>0, <1>2, GotoFacts
<1>3. CASE \E id \in Ids : Upsert(id) \/ Delete(id)
  BY <1>1, <1>3 DEF Upsert, Delete
<1>4. CASE \E b \in Bodies : Persist(b) \/ SelectWrite(b)
  BY <1>1, <1>4 DEF Persist, SelectWrite
<1>5. CASE \E s \in Spaces : SpaceCreate(s) \/ SpaceMount(s) \/ SpaceUnmount(s)
  BY <1>1, <1>5 DEF SpaceCreate, SpaceMount, SpaceUnmount
<1>6. CASE \E s \in Spaces, t \in Bodies : SpaceMerge(s, t)
  BY <1>1, <1>6 DEF SpaceMerge
<1>7. CASE Restart
  BY <1>1, <1>7 DEF Restart, Return
<1>8. CASE Transfer
  <2>0. {"add", "persist-same", "persist", "verify", "failed", "delete", "done", "deleted",
         "check", "restore"} \subseteq Steps
    BY DEF Steps
  <2>1. CASE \E id \in Ids, t \in Bodies, move \in BOOLEAN : TransferBegin(id, t, move)
    <3>1. xfer'.pc = "lookup"
      BY <2>1 DEF TransferBegin
    <3> QED BY <3>1
  <2>2. CASE TransferLookup
    BY <1>1, <1>2, <2>0, <2>2 DEF TransferLookup, Return
  <2>3. CASE TransferAdd
    BY <1>1, <1>2, <2>0, <2>3 DEF TransferAdd, Return
  <2>4. CASE TransferPersist
    <3>1. xfer.pc # "idle" /\ (Goto("verify") \/ Goto("failed") \/ Return)
      BY <2>4 DEF TransferPersist
    <3> QED BY <1>1, <1>2, <2>0, <3>1 DEF Return
  <2>5. CASE TransferFailed
    <3>1. xfer.pc = "failed"
      BY <2>5 DEF TransferFailed
    <3> QED BY <2>5, <3>1
  <2>6. CASE TransferVerify
    <3>1. xfer.pc = "verify" /\ (Goto("delete") \/ Goto("done") \/ Return)
      BY <2>6 DEF TransferVerify
    <3> QED BY <1>1, <1>2, <2>0, <3>1 DEF Return
  <2>7. CASE TransferDelete
    BY <1>1, <1>2, <2>0, <2>7 DEF TransferDelete, Return
  <2>8. CASE TransferPersistSource
    <3>1. xfer.pc # "idle" /\ (Goto("check") \/ Goto("restore"))
      BY <2>8 DEF TransferPersistSource
    <3> QED BY <1>2, <2>0, <3>1
  <2>9. CASE TransferCheck
    <3>1. xfer.pc # "idle" /\ (Goto("done") \/ Goto("restore"))
      BY <2>9 DEF TransferCheck
    <3> QED BY <1>2, <2>0, <2>9, <3>1
  <2>10. CASE TransferRestore
    BY <1>1, <2>10 DEF TransferRestore, Return
  <2>11. CASE TransferReturn
    BY <1>1, <2>11 DEF TransferReturn, Return
  <2> QED BY <1>8, <2>1, <2>2, <2>3, <2>4, <2>5, <2>6, <2>7, <2>8, <2>9, <2>10, <2>11 DEF Transfer
<1> QED BY <1>3, <1>4, <1>5, <1>6, <1>7, <1>8 DEF Next

(* What a transfer answers is true when it answers: a candidate reported   *)
(* as rolled back is neither in the target's memory nor in its file, and a *)
(* move that succeeds has left the source and is in the target's file,     *)
(* unless the id has been changed or deleted since.                        *)
THEOREM TransfersAnswerTruly == Spec => TransferAnswers
<1> DEFINE Answers ==
      LET id == xfer.id IN
      /\ xfer.pc # "rolled back" /\ xfer'.pc = "rolled back" =>
           (View(xfer.dst, id))' = None /\ disk'[xfer.dst][id] = None
      /\ xfer.pc = "check" /\ xfer'.pc = "done" =>
           /\ xfer.val \notin {View(xfer.src, id), disk[xfer.src][id]}
           /\ \/ disk[xfer.dst][id] = xfer.val
              \/ version[id] > xfer.val \/ dead[id] >= xfer.val
<1>1. FabricInv /\ [Next]_vars => [Answers]_vars
  BY AnswerSteps, RolledBackNext, MovedNext
<1> QED BY <1>1, FabricInvariant, PTL DEF Spec, TransferAnswers
=============================================================================
