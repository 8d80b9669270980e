------------------------- MODULE MeshAuthorityProofs -------------------------
(***************************************************************************)
(* Theorems about what the Sovereign grants and whom it knows.             *)
(*                                                                         *)
(* MeshGrant: the inductive invariant GrantInv, and from it that a         *)
(* side-effect grant runs its program at most once and only behind a       *)
(* receipt on disk; RouteInv, and from it that a routed call runs its      *)
(* Memory once but for troubles; for any number of targets, goroutines and *)
(* grants.  MeshDirectory: the inductive invariant DirectoryInv, and from  *)
(* it that a node id keeps its acknowledged key.                           *)
(***************************************************************************)
EXTENDS MeshGrant, MeshDirectory, SequenceTheorems, FiniteSetTheorems, TLAPS

(* What the type says of one grant. *)
LEMMA GrantType ==
  ASSUME TypeOK
  PROVE  \A g \in DOMAIN grants :
           /\ g \in Nat /\ g \in Grants
           /\ grants[g].target \in Targets /\ grants[g].effect \in BOOLEAN
           /\ grants[g].expires \in Nat
<1> DEFINE G == [target : Targets, call : Nat, effect : BOOLEAN, expires : Nat]
<1> SUFFICES ASSUME NEW g \in DOMAIN grants
             PROVE  /\ g \in Nat /\ g \in Grants
                    /\ grants[g].target \in Targets /\ grants[g].effect \in BOOLEAN
                    /\ grants[g].expires \in Nat
  OBVIOUS
<1>1. grants \in Seq(G) /\ Len(grants) <= MaxGrants
  BY DEF TypeOK
<1>2. g \in 1..Len(grants) /\ Len(grants) \in Nat
  <2> HIDE DEF G
  <2> QED BY <1>1
<1>3. grants[g] \in G
  <2> HIDE DEF G
  <2> QED BY <1>1, <1>2, ElementOfSeq
<1>4. grants[g].target \in Targets /\ grants[g].effect \in BOOLEAN /\ grants[g].expires \in Nat
  BY <1>3
<1> QED BY <1>1, <1>2, <1>4, GrantAssumption DEF Grants

(* The initial state satisfies the invariant. *)
LEMMA InitInv == Init => GrantInv
<1> SUFFICES ASSUME Init PROVE GrantInv
  OBVIOUS
<1> USE GrantAssumption DEF Init
<1>1. TypeOK
  BY DEF TypeOK, Idle
<1>2. RequestInv
  BY DEF RequestInv, At, Idle, Grants, Checks
<1>3. FenceInv /\ OnceInv
  BY DEF FenceInv, OnceInv
<1> QED BY <1>1, <1>2, <1>3 DEF GrantInv

(* A request that goes on, and the others that do not. *)
LEMMA Moved ==
  ASSUME TypeOK, NEW h \in Handlers, NEW pc, To(h, pc)
  PROVE  /\ \A k \in Handlers : k # h => handler'[k] = handler[k]
         /\ handler'[h].pc = pc /\ handler'[h].g = handler[h].g
         /\ handler'[h].now = handler[h].now
BY DEF TypeOK, To

LEMMA MovedType ==
  ASSUME TypeOK, NEW h \in Handlers, NEW pc \in {"idle", "nonce"} \cup Checks \cup Cleared,
         To(h, pc)
  PROVE  handler' \in [Handlers -> [pc : {"idle", "nonce"} \cup Checks \cup Cleared,
                                    g : Nat, now : Nat]]
BY DEF TypeOK, To

(* A request that is answered. *)
LEMMA Answered ==
  ASSUME TypeOK, NEW h \in Handlers, NEW ok, Answer(h, ok)
  PROVE  /\ \A k \in Handlers : k # h => handler'[k] = handler[k]
         /\ handler'[h] = Idle
         /\ handler' \in [Handlers -> [pc : {"idle", "nonce"} \cup Checks \cup Cleared,
                                       g : Nat, now : Nat]]
BY DEF TypeOK, Answer, Idle

(* The grant a request in progress carries. *)
LEMMA GrantFacts ==
  ASSUME GrantInv, NEW h \in Handlers, ~At(h, "idle")
  PROVE  /\ handler[h].g \in DOMAIN grants /\ handler[h].g \in Grants
         /\ Target(h) \in Targets /\ Target(h) = grants[handler[h].g].target
         /\ grants[handler[h].g].effect \in BOOLEAN
BY GrantAssumption, GrantType DEF GrantInv, RequestInv, Target

(* A request denied after it took the nonce: it was the only one past it   *)
(* while its grant is valid, so nobody misses the nonce.                   *)
LEMMA DenyInv ==
  ASSUME GrantInv, NEW h \in Handlers, handler[h].pc \in Checks, Deny(h),
         mem' = mem, disk' \in {disk, [disk EXCEPT ![Target(h)] = mem[Target(h)]]},
         stalled \subseteq stalled', UNCHANGED <<clock, grants, ran>>
  PROVE  GrantInv'
<1> USE DEF GrantInv
<1>1. /\ handler[h].g \in DOMAIN grants /\ Target(h) \in Targets
      /\ Target(h) = grants[handler[h].g].target
  BY GrantFacts DEF Checks, At
<1>2. /\ \A k \in Handlers : k # h => handler'[k] = handler[k]
      /\ handler'[h] = Idle
      /\ handler' \in [Handlers -> [pc : {"idle", "nonce"} \cup Checks \cup Cleared,
                                    g : Nat, now : Nat]]
  BY Answered DEF Deny
<1>3. nonces' = [nonces EXCEPT ![Target(h)] = @ \ {handler[h].g}]
  BY DEF Deny
<1>a. /\ mem \in [Targets -> SUBSET Grants] /\ disk \in [Targets -> SUBSET Grants]
      /\ nonces \in [Targets -> SUBSET Grants]
  BY DEF TypeOK
<1>b. nonces' \in [Targets -> SUBSET Grants]
  BY <1>1, <1>3, <1>a
<1>c. /\ disk' \in [Targets -> SUBSET Grants]
      /\ \A t \in Targets : disk'[t] = disk[t] \/ disk'[t] = mem[t]
  <2>1. CASE disk' = disk
    BY <2>1, <1>a
  <2>2. CASE disk' = [disk EXCEPT ![Target(h)] = mem[Target(h)]]
    BY <2>2, <1>1, <1>a
  <2> QED BY <2>1, <2>2
<1>4. TypeOK'
  BY <1>2, <1>a, <1>b, <1>c DEF TypeOK
<1>5. RequestInv'
  BY <1>2 DEF RequestInv, At, Idle, Checks
<1>6. FenceInv'
  <2>1. \A g \in DOMAIN grants : grants[g].target \in Targets
    BY GrantType
  <2> QED BY <1>2, <1>c, <2>1 DEF FenceInv, At, Idle, Cleared, Expired
<1>7. OnceInv'
  <2>1. \A k \in Handlers, g \in Nat : Past(k, g)' => k # h /\ Past(k, g)
    BY <1>2 DEF Past, Idle, Checks, Cleared
  <2>2. \A k \in Handlers, g \in Nat : Looked(k, g)' => k # h /\ Looked(k, g)
    BY <1>2 DEF Looked, Past, At, Idle, Checks, Cleared
  <2>3. Past(h, handler[h].g)
    BY DEF Past
  <2>4. \A g \in Nat, t \in Targets : g \in nonces[t] =>
          g \in nonces'[t] \/ (g = handler[h].g /\ t = Target(h))
    BY <1>3 DEF TypeOK
  <2>5. \A g \in DOMAIN grants : g \in Nat /\ grants[g].target \in Targets
    BY GrantType
  <2> QED BY <2>1, <2>2, <2>3, <2>4, <2>5 DEF OnceInv, Expired
<1> QED BY <1>4, <1>5, <1>6, <1>7

(* A request that goes on without touching nonces and the history. *)
LEMMA MoveOnce ==
  ASSUME TypeOK, OnceInv, NEW h \in Handlers, NEW pc \in Checks \cup Cleared, To(h, pc),
         Looked(h, handler[h].g), UNCHANGED <<clock, grants, nonces, ran, stalled>>
  PROVE  OnceInv'
<1>1. /\ \A k \in Handlers : k # h => handler'[k] = handler[k]
      /\ handler'[h].pc = pc /\ handler'[h].g = handler[h].g
  BY Moved
<1>2. \A k \in Handlers, g \in Nat : /\ Past(k, g)' <=> Past(k, g)
                                     /\ Looked(k, g)' => Looked(k, g)
  BY <1>1 DEF Past, Looked, At
<1>3. DOMAIN grants \subseteq Nat
  BY DEF TypeOK
<1> QED BY <1>2, <1>3 DEF OnceInv, Expired

----------------------------------------------------------------------------
(* The callers *)

(* Calls begin, serve themselves and give up: no grant is touched. *)
LEMMA QuietInv ==
  ASSUME GrantInv, UNCHANGED <<clock, grants, targetVars>>
  PROVE  GrantInv'
BY DEF GrantInv, targetVars, TypeOK, RequestInv, FenceInv, OnceInv, At, Past, Looked,
   Expired

(* A new grant has no requests and no runs yet. *)
LEMMA IssueInv ==
  ASSUME GrantInv, NEW c \in 1..MaxCalls, Issue(c)
  PROVE  GrantInv'
<1> USE GrantAssumption DEF GrantInv
<1> DEFINE new == [target |-> Head(calls[c].todo), call |-> c,
                   effect |-> Effect(calls[c].kind), expires |-> clock + TTL]
<1>1. /\ grants' = Append(grants, new) /\ Len(grants) < MaxGrants
      /\ UNCHANGED <<clock, nonces, mem, disk, handler, ran, stalled>>
  BY DEF Issue, targetVars
<1>2. new \in [target : Targets, call : Nat, effect : BOOLEAN, expires : Nat]
  BY DEF Issue, Effect, TypeOK
<1> HIDE DEF new
<1>3. TypeOK'
  BY <1>1, <1>2 DEF TypeOK
<1>4. /\ \A g \in DOMAIN grants : grants'[g] = grants[g]
      /\ DOMAIN grants' = DOMAIN grants \cup {Len(grants) + 1}
      /\ Len(grants) + 1 \notin DOMAIN grants /\ Len(grants) + 1 \in Grants
  <2> DEFINE G == [target : Targets, call : Nat, effect : BOOLEAN, expires : Nat]
  <2>1. grants \in Seq(G) /\ new \in G
    BY <1>2 DEF TypeOK
  <2> HIDE DEF G
  <2>2. Len(grants) \in Nat /\ DOMAIN grants = 1..Len(grants)
    BY <2>1
  <2>3. /\ DOMAIN grants' = 1..(Len(grants) + 1)
        /\ \A g \in 1..Len(grants) : grants'[g] = grants[g]
    BY <1>1, <2>1, <2>2
  <2>4. Len(grants) + 1 \in Grants
    BY <1>1, <2>2 DEF Grants
  <2> QED BY <2>2, <2>3, <2>4
<1>5. RequestInv'
  BY <1>1, <1>4 DEF RequestInv, At, Checks
<1>6. /\ \A h \in Handlers : ~At(h, "idle") => handler[h].g # Len(grants) + 1
      /\ ran[Len(grants) + 1] = 0
  BY <1>4 DEF RequestInv, TypeOK
<1>7. FenceInv'
  BY <1>1, <1>4, <1>6 DEF FenceInv, At, Expired, Cleared
<1>8. OnceInv'
  BY <1>1, <1>4, <1>6 DEF OnceInv, At, Expired, Past, Looked, Checks, Cleared
<1> QED BY <1>3, <1>5, <1>7, <1>8

----------------------------------------------------------------------------
(* The target *)

LEMMA ReceiveInv ==
  ASSUME GrantInv, NEW h \in Handlers, NEW g \in DOMAIN grants, Receive(h, g)
  PROVE  GrantInv'
<1> USE DEF GrantInv, Receive
<1>1. g \in Nat /\ clock \in Nat
  BY DEF TypeOK
<1>2. TypeOK'
  BY <1>1 DEF TypeOK
<1>3. /\ \A k \in Handlers : k # h => handler'[k] = handler[k]
      /\ handler'[h] = [pc |-> "nonce", g |-> g, now |-> clock]
  BY DEF TypeOK
<1>4. RequestInv'
  BY <1>1, <1>3 DEF RequestInv, At, Checks
<1>5. FenceInv'
  BY <1>3 DEF FenceInv, At, Expired, Cleared
<1>6. OnceInv'
  BY <1>3 DEF OnceInv, At, Expired, Past, Looked, Checks, Cleared
<1> QED BY <1>2, <1>4, <1>5, <1>6

(* The nonce is taken only when no request past it has a valid grant. *)
LEMMA LoadOrStoreInv ==
  ASSUME GrantInv, NEW h \in Handlers, LoadOrStore(h)
  PROVE  GrantInv'
<1> USE DEF GrantInv
<1> DEFINE g == handler[h].g
           t == Target(h)
           pc == IF grants[g].effect THEN "lookup" ELSE "clean"
<1>1. /\ At(h, "nonce") /\ UNCHANGED <<clock, grants, mem, disk, ran, stalled>>
      /\ \/ Answer(h, FALSE) /\ UNCHANGED nonces
         \/ /\ g \notin nonces[t] /\ nonces' = [nonces EXCEPT ![t] = @ \cup {g}]
            /\ To(h, pc)
  BY DEF LoadOrStore
<1>2. /\ g \in DOMAIN grants /\ g \in Grants /\ t \in Targets /\ t = grants[g].target
      /\ grants[g].effect \in BOOLEAN
  BY <1>1, GrantFacts DEF At
<1>3. CASE Answer(h, FALSE) /\ UNCHANGED nonces
  <2>1. /\ \A k \in Handlers : k # h => handler'[k] = handler[k]
        /\ handler'[h] = Idle
        /\ handler' \in [Handlers -> [pc : {"idle", "nonce"} \cup Checks \cup Cleared,
                                      g : Nat, now : Nat]]
    BY <1>3, Answered
  <2>2. TypeOK' /\ RequestInv'
    BY <1>1, <1>3, <2>1 DEF TypeOK, RequestInv, At, Idle, Checks
  <2>3. FenceInv' /\ OnceInv'
    BY <1>1, <1>3, <2>1 DEF FenceInv, OnceInv, At, Idle, Expired, Past, Looked, Checks,
       Cleared
  <2> QED BY <2>2, <2>3
<1>4. CASE /\ g \notin nonces[t] /\ nonces' = [nonces EXCEPT ![t] = @ \cup {g}]
           /\ To(h, pc)
  <2>1. /\ \A k \in Handlers : k # h => handler'[k] = handler[k]
        /\ handler'[h].pc = pc /\ handler'[h].g = g /\ handler'[h].now = handler[h].now
    BY <1>4, Moved
  <2>2. pc \in Checks \cup Cleared /\ (pc \in Checks <=> grants[g].effect)
    BY DEF Checks, Cleared
  <2>3. TypeOK'
    <3>1. handler' \in [Handlers -> [pc : {"idle", "nonce"} \cup Checks \cup Cleared,
                                     g : Nat, now : Nat]]
      BY <1>4, <2>2, MovedType
    <3> QED BY <1>1, <1>2, <1>4, <3>1 DEF TypeOK
  <2>4. RequestInv'
    BY <1>1, <1>2, <2>1, <2>2 DEF RequestInv, At, Checks
  <2>5. FenceInv'
    BY <1>1, <2>1, <2>2 DEF FenceInv, At, Expired, Cleared, Checks
  <2>6. OnceInv'
    <3>1. \A i \in DOMAIN grants : \A d \in Targets : i \in nonces[d] => i \in nonces'[d]
      BY <1>4 DEF TypeOK
    <3>2. g \in nonces'[t]
      BY <1>2, <1>4 DEF TypeOK
    <3>3. \A i \in DOMAIN grants : grants[i].target \in Targets
      BY GrantType
    <3>4. \A k \in Handlers, i \in DOMAIN grants :
            Past(k, i)' => Past(k, i) \/ (k = h /\ i = g)
      BY <1>1, <2>1 DEF Past
    <3>5. \A k \in Handlers, i \in DOMAIN grants :
            grants[i].effect /\ Looked(k, i)' => Looked(k, i)
      BY <1>1, <2>1, <2>2 DEF Past, Looked, At
    <3>6. grants[g].effect /\ g \notin stalled /\ ~Expired(g, clock) =>
            \A k \in Handlers : ~Past(k, g)
      BY <1>2, <1>4 DEF OnceInv
    <3> QED BY <1>1, <1>2, <3>1, <3>2, <3>3, <3>4, <3>5, <3>6 DEF OnceInv, Expired
  <2> QED BY <2>3, <2>4, <2>5, <2>6
<1> QED BY <1>1, <1>3, <1>4

(* No receipt is found: the program of a valid grant has not run, and no   *)
(* other request is past the receipt.                                      *)
LEMMA LookupInv ==
  ASSUME GrantInv, NEW h \in Handlers, Lookup(h)
  PROVE  GrantInv'
<1> USE DEF GrantInv
<1> DEFINE g == handler[h].g
<1>1. /\ handler[h].pc = "lookup" /\ UNCHANGED <<clock, grants, mem, disk, ran>>
      /\ stalled \subseteq stalled' /\ (Expired(g, clock) => g \in stalled')
  BY DEF Lookup, At
<1>2. /\ g \in DOMAIN grants /\ g \in Grants /\ Target(h) \in Targets
      /\ Target(h) = grants[g].target
  BY <1>1, GrantFacts DEF At
<1>3. CASE Deny(h)
  BY <1>1, <1>3, DenyInv DEF Checks
<1>4. CASE g \notin mem[Target(h)] /\ To(h, "prune") /\ UNCHANGED <<calls, nonces>>
  <2>1. /\ \A k \in Handlers : k # h => handler'[k] = handler[k]
        /\ handler'[h].pc = "prune" /\ handler'[h].g = g
        /\ handler'[h].now = handler[h].now
    BY <1>4, Moved
  <2>2. TypeOK'
    <3>1. handler' \in [Handlers -> [pc : {"idle", "nonce"} \cup Checks \cup Cleared,
                                     g : Nat, now : Nat]]
      BY <1>4, MovedType DEF Checks
    <3> QED BY <1>1, <1>4, <3>1 DEF TypeOK
  <2>3. RequestInv'
    BY <1>1, <2>1 DEF RequestInv, At, Checks
  <2>4. FenceInv'
    BY <1>1, <2>1 DEF FenceInv, At, Expired, Cleared
  <2>5. OnceInv'
    <3>1. \A k \in Handlers, i \in DOMAIN grants : Past(k, i)' <=> Past(k, i)
      BY <1>1, <2>1 DEF Past, Checks
    <3>2. \A k \in Handlers, i \in DOMAIN grants :
            Looked(k, i)' => Looked(k, i) \/ (k = h /\ i = g)
      BY <1>1, <2>1 DEF Past, Looked, At
    <3>3. Past(h, g)
      BY <1>1 DEF Past, Checks
    <3>4. grants[g].effect /\ ~Expired(g, clock) => ~(ran[g] > 0)
      BY <1>2, <1>4 DEF FenceInv
    <3>5. ran[g] \in Nat
      BY <1>2 DEF TypeOK
    <3>6. grants[g].effect /\ g \notin stalled' =>
            ran[g] = 0 /\ \A k \in Handlers : Looked(k, g) => k = h
      BY <1>1, <1>2, <3>3, <3>4, <3>5 DEF OnceInv, Looked
    <3> QED BY <1>1, <1>4, <3>1, <3>2, <3>6 DEF OnceInv, Expired
  <2> QED BY <2>2, <2>3, <2>4, <2>5
<1> QED BY <1>3, <1>4 DEF Lookup

(* Only expired receipts are dropped. *)
LEMMA PruneInv ==
  ASSUME GrantInv, NEW h \in Handlers, Prune(h)
  PROVE  GrantInv'
<1> USE DEF GrantInv
<1>1. /\ handler[h].pc = "prune" /\ UNCHANGED <<clock, grants, nonces, disk, ran, stalled>>
      /\ \E pc \in {"count", "pruned"} : To(h, pc)
      /\ \/ mem' = mem
         \/ mem' = [mem EXCEPT ![Target(h)] = {g \in @ : ~Expired(g, clock)}]
  BY DEF Prune, At
<1>2. PICK pc \in {"count", "pruned"} : To(h, pc)
  BY <1>1
<1>3. /\ \A k \in Handlers : k # h => handler'[k] = handler[k]
      /\ handler'[h].pc = pc /\ handler'[h].g = handler[h].g
      /\ handler'[h].now = handler[h].now
  BY <1>2, Moved
<1>4. Target(h) \in Targets
  BY <1>1, GrantFacts DEF At
<1>5. TypeOK'
  <2>1. handler' \in [Handlers -> [pc : {"idle", "nonce"} \cup Checks \cup Cleared,
                                   g : Nat, now : Nat]]
    BY <1>2, MovedType DEF Checks
  <2>2. mem' \in [Targets -> SUBSET Grants]
    BY <1>1, <1>4 DEF TypeOK
  <2> QED BY <1>1, <2>1, <2>2 DEF TypeOK
<1>6. RequestInv'
  BY <1>1, <1>3 DEF RequestInv, At, Checks
<1>7. \A g \in DOMAIN grants : \A t \in Targets :
        g \in mem[t] /\ ~Expired(g, clock) => g \in mem'[t]
  BY <1>1, <1>4 DEF TypeOK
<1>8. FenceInv'
  <2>1. \A g \in DOMAIN grants : grants[g].target \in Targets
    BY GrantType
  <2> QED BY <1>1, <1>3, <1>7, <2>1 DEF FenceInv, At, Expired, Cleared
<1>9. OnceInv'
  <2>1. Looked(h, handler[h].g)
    BY <1>1 DEF Looked, Past, At, Checks
  <2> QED BY <1>1, <1>2, <2>1, MoveOnce DEF Checks
<1> QED BY <1>5, <1>6, <1>8, <1>9

(* The body is saved while a request goes on from pc to npc: what is in    *)
(* the Engine is then on disk too.                                         *)
LEMMA SavedInv ==
  ASSUME GrantInv, NEW h \in Handlers, NEW pc \in {"count", "clean"}, To(h, pc),
         \/ handler[h].pc = "pruned" /\ pc = "count"
         \/ handler[h].pc = "save" /\ pc = "clean",
         Saved(Target(h)), UNCHANGED <<clock, grants, nonces, mem, ran, stalled>>
  PROVE  GrantInv'
<1> USE DEF GrantInv
<1>1. /\ \A k \in Handlers : k # h => handler'[k] = handler[k]
      /\ handler'[h].pc = pc /\ handler'[h].g = handler[h].g
      /\ handler'[h].now = handler[h].now
  BY Moved
<1>2. /\ handler[h].g \in DOMAIN grants /\ Target(h) \in Targets
      /\ Target(h) = grants[handler[h].g].target
  BY GrantFacts DEF At
<1>3. TypeOK'
  <2>1. handler' \in [Handlers -> [pc : {"idle", "nonce"} \cup Checks \cup Cleared,
                                   g : Nat, now : Nat]]
    BY MovedType DEF Checks, Cleared
  <2> QED BY <1>2, <2>1 DEF TypeOK, Saved
<1>4. RequestInv'
  BY <1>1 DEF RequestInv, At, Checks
<1>5. /\ disk'[Target(h)] = mem[Target(h)]
      /\ \A t \in Targets : t # Target(h) => disk'[t] = disk[t]
  BY <1>2 DEF Saved, TypeOK
<1>6. FenceInv'
  <2>1. \A g \in DOMAIN grants : grants[g].target \in Targets
    BY GrantType
  <2> QED BY <1>1, <1>2, <1>5, <2>1 DEF FenceInv, At, Expired, Cleared
<1>7. OnceInv'
  <2>1. Looked(h, handler[h].g)
    BY DEF Looked, Past, At, Checks
  <2> QED BY <2>1, MoveOnce DEF Checks, Cleared
<1> QED BY <1>3, <1>4, <1>6, <1>7

LEMMA SaveStepInv ==
  ASSUME GrantInv, NEW h \in Handlers, PruneSave(h) \/ Save(h)
  PROVE  GrantInv'
<1>1. CASE Deny(h)
  <2>1. handler[h].pc \in Checks
    BY DEF PruneSave, Save, At, Checks
  <2>2. disk' \in {disk, [disk EXCEPT ![Target(h)] = mem[Target(h)]]}
    BY DEF PruneSave, Save, SaveFailed, Saved
  <2> QED BY <1>1, <2>1, <2>2, DenyInv DEF PruneSave, Save
<1>2. CASE PruneSave(h) /\ To(h, "count") /\ Saved(Target(h)) /\ UNCHANGED nonces
  BY <1>2, SavedInv DEF PruneSave, At
<1>3. CASE Save(h) /\ To(h, "clean") /\ Saved(Target(h)) /\ UNCHANGED nonces
  BY <1>3, SavedInv DEF Save, At
<1> QED BY <1>1, <1>2, <1>3 DEF PruneSave, Save

LEMMA CountInv ==
  ASSUME GrantInv, NEW h \in Handlers, Count(h)
  PROVE  GrantInv'
<1> USE DEF GrantInv
<1>1. /\ handler[h].pc = "count" /\ UNCHANGED <<clock, grants, mem, disk, ran, stalled>>
      /\ Deny(h) \/ (To(h, "upsert") /\ UNCHANGED nonces)
  BY DEF Count, At
<1>2. CASE Deny(h)
  BY <1>1, <1>2, DenyInv DEF Checks
<1>3. CASE To(h, "upsert") /\ UNCHANGED nonces
  <2>1. /\ \A k \in Handlers : k # h => handler'[k] = handler[k]
        /\ handler'[h].pc = "upsert" /\ handler'[h].g = handler[h].g
        /\ handler'[h].now = handler[h].now
    BY <1>3, Moved
  <2>2. TypeOK'
    <3>1. handler' \in [Handlers -> [pc : {"idle", "nonce"} \cup Checks \cup Cleared,
                                     g : Nat, now : Nat]]
      BY <1>3, MovedType DEF Checks
    <3> QED BY <1>1, <1>3, <3>1 DEF TypeOK
  <2>3. RequestInv'
    BY <1>1, <2>1 DEF RequestInv, At, Checks
  <2>4. FenceInv'
    BY <1>1, <2>1 DEF FenceInv, At, Expired, Cleared
  <2>5. OnceInv'
    <3>1. Looked(h, handler[h].g)
      BY <1>1 DEF Looked, Past, At, Checks
    <3> QED BY <1>1, <1>3, <3>1, MoveOnce DEF Checks
  <2> QED BY <2>2, <2>3, <2>4, <2>5
<1> QED BY <1>1, <1>2, <1>3

LEMMA UpsertInv ==
  ASSUME GrantInv, NEW h \in Handlers, Upsert(h)
  PROVE  GrantInv'
<1> USE DEF GrantInv, Upsert
<1>1. handler[h].pc = "upsert"
  BY DEF At
<1>2. /\ handler[h].g \in DOMAIN grants /\ handler[h].g \in Grants
      /\ Target(h) \in Targets /\ Target(h) = grants[handler[h].g].target
  BY <1>1, GrantFacts DEF At
<1>3. /\ \A k \in Handlers : k # h => handler'[k] = handler[k]
      /\ handler'[h].pc = "save" /\ handler'[h].g = handler[h].g
      /\ handler'[h].now = handler[h].now
  BY Moved
<1>4. TypeOK'
  <2>1. handler' \in [Handlers -> [pc : {"idle", "nonce"} \cup Checks \cup Cleared,
                                   g : Nat, now : Nat]]
    BY MovedType DEF Checks
  <2> QED BY <1>2, <2>1 DEF TypeOK
<1>5. RequestInv'
  BY <1>1, <1>3 DEF RequestInv, At, Checks
<1>6. /\ \A t \in Targets : mem[t] \subseteq mem'[t]
      /\ handler[h].g \in mem'[Target(h)]
  BY <1>2 DEF TypeOK
<1>7. FenceInv'
  <2>1. \A g \in DOMAIN grants : grants[g].target \in Targets
    BY GrantType
  <2> QED BY <1>1, <1>2, <1>3, <1>6, <2>1 DEF FenceInv, At, Expired, Cleared
<1>8. OnceInv'
  <2>1. Looked(h, handler[h].g)
    BY <1>1 DEF Looked, Past, At, Checks
  <2> QED BY <2>1, MoveOnce DEF Checks
<1> QED BY <1>4, <1>5, <1>7, <1>8

(* The nonces dropped are of grants that have expired. *)
LEMMA CleanInv ==
  ASSUME GrantInv, NEW h \in Handlers, Clean(h)
  PROVE  GrantInv'
<1> USE DEF GrantInv, Clean
<1>1. handler[h].pc = "clean"
  BY DEF At
<1>2. /\ handler[h].g \in DOMAIN grants /\ Target(h) \in Targets
      /\ handler[h].now <= clock /\ handler[h].now \in Nat /\ clock \in Nat
  BY <1>1, GrantFacts DEF At, RequestInv, TypeOK
<1>3. /\ \A k \in Handlers : k # h => handler'[k] = handler[k]
      /\ handler'[h].pc = "run" /\ handler'[h].g = handler[h].g
      /\ handler'[h].now = handler[h].now
  BY Moved
<1>4. TypeOK'
  <2>1. handler' \in [Handlers -> [pc : {"idle", "nonce"} \cup Checks \cup Cleared,
                                   g : Nat, now : Nat]]
    BY MovedType DEF Cleared
  <2>2. nonces' \in [Targets -> SUBSET Grants]
    BY <1>2 DEF TypeOK
  <2> QED BY <2>1, <2>2 DEF TypeOK
<1>5. RequestInv'
  BY <1>1, <1>3 DEF RequestInv, At, Checks
<1>6. FenceInv'
  BY <1>1, <1>3 DEF FenceInv, At, Expired, Cleared
<1>7. OnceInv'
  <2>1. \A g \in DOMAIN grants : grants[g].target \in Targets /\ grants[g].expires \in Nat
    BY GrantType
  <2>2. \A g \in DOMAIN grants : \A t \in Targets :
          g \in nonces[t] /\ ~Expired(g, clock) => g \in nonces'[t]
    BY <1>2, <2>1 DEF TypeOK, Expired
  <2>3. \A k \in Handlers, g \in DOMAIN grants : /\ Past(k, g)' <=> Past(k, g)
                                                 /\ Looked(k, g)' <=> Looked(k, g)
    BY <1>1, <1>3 DEF Past, Looked, At, Cleared
  <2> QED BY <2>1, <2>2, <2>3 DEF OnceInv, Expired
<1> QED BY <1>4, <1>5, <1>6, <1>7

(* The program runs behind its receipt, and for the first time. *)
LEMMA ServeInv ==
  ASSUME GrantInv, NEW h \in Handlers, Serve(h)
  PROVE  GrantInv'
<1> USE DEF GrantInv
<1> DEFINE g == handler[h].g
<1>1. PICK ok, effect \in BOOLEAN :
        /\ effect => grants[g].effect
        /\ ran' = [ran EXCEPT ![g] = IF effect THEN @ + 1 ELSE @]
        /\ Answer(h, ok)
  BY DEF Serve
<1>2. handler[h].pc = "run" /\ UNCHANGED <<clock, grants, nonces, mem, disk, stalled>>
  BY DEF Serve, At
<1>3. g \in DOMAIN grants /\ g \in Grants
  BY <1>2, GrantFacts DEF At
<1>4. /\ \A k \in Handlers : k # h => handler'[k] = handler[k]
      /\ handler'[h] = Idle
      /\ handler' \in [Handlers -> [pc : {"idle", "nonce"} \cup Checks \cup Cleared,
                                    g : Nat, now : Nat]]
  BY <1>1, Answered
<1>5. TypeOK'
  BY <1>1, <1>2, <1>3, <1>4 DEF TypeOK
<1>6. /\ \A i \in Grants : i # g => ran'[i] = ran[i]
      /\ ran'[g] = ran[g] \/ (ran'[g] = ran[g] + 1 /\ grants[g].effect)
      /\ ran[g] \in Nat
  BY <1>1, <1>3 DEF TypeOK
<1>7. RequestInv'
  BY <1>2, <1>3, <1>4, <1>6 DEF RequestInv, At, Idle, Checks
<1>8. DOMAIN grants \subseteq Grants
  BY GrantAssumption DEF TypeOK, Grants
<1>9. FenceInv'
  BY <1>2, <1>3, <1>4, <1>6, <1>8 DEF FenceInv, At, Idle, Expired, Cleared
<1>10. OnceInv'
  <2>1. \A k \in Handlers, i \in DOMAIN grants : Past(k, i)' => k # h /\ Past(k, i)
    BY <1>4 DEF Past, Idle, Checks, Cleared
  <2>2. \A k \in Handlers, i \in DOMAIN grants : Looked(k, i)' => k # h /\ Looked(k, i)
    BY <1>4 DEF Looked, Past, At, Idle, Checks, Cleared
  <2>3. Looked(h, g)
    BY <1>2 DEF Looked, Past, At, Cleared
  <2>4. grants[g].effect /\ g \notin stalled =>
          ran[g] = 0 /\ \A k \in Handlers : Looked(k, g) => k = h
    BY <1>3, <2>3 DEF OnceInv
  <2> QED BY <1>2, <1>3, <1>6, <1>8, <2>1, <2>2, <2>4 DEF OnceInv, Expired
<1> QED BY <1>5, <1>7, <1>9, <1>10

----------------------------------------------------------------------------
(* Faults and time *)

(* A target that restarts loses its nonces together with the requests that *)
(* hold them; the receipts on disk come back.                              *)
LEMMA RestartInv ==
  ASSUME GrantInv, NEW t \in Targets, Restart(t)
  PROVE  GrantInv'
<1> USE DEF GrantInv, Restart
<1>1. TypeOK'
  BY DEF TypeOK, Idle, Fault
<1>2. \A h \in Handlers : handler'[h] = Idle \/ handler'[h] = handler[h]
  OBVIOUS
<1>3. \A h \in Handlers : handler'[h] # Idle /\ ~At(h, "idle") =>
        grants[handler[h].g].target # t
  BY DEF Target
<1>4. RequestInv'
  BY <1>2 DEF RequestInv, At, Idle, Checks
<1>5. mem'[t] = disk[t] /\ \A d \in Targets : d # t => mem'[d] = mem[d]
  BY DEF TypeOK
<1>6. nonces'[t] = {} /\ \A d \in Targets : d # t => nonces'[d] = nonces[d]
  BY DEF TypeOK
<1>7. \A g \in DOMAIN grants : grants[g].target \in Targets
  BY GrantType
<1>8. FenceInv'
  BY <1>2, <1>3, <1>5, <1>7 DEF FenceInv, At, Idle, Expired, Cleared
<1>9. OnceInv'
  <2>1. \A h \in Handlers, g \in DOMAIN grants :
          Past(h, g)' => Past(h, g) /\ grants[g].target # t
    BY <1>2, <1>3 DEF Past, At, Idle, Checks, Cleared
  <2>2. \A h \in Handlers, g \in DOMAIN grants : Looked(h, g)' => Looked(h, g)
    BY <1>2 DEF Looked, Past, At, Idle, Checks, Cleared
  <2> QED BY <1>6, <1>7, <2>1, <2>2 DEF OnceInv, Expired
<1> QED BY <1>1, <1>4, <1>8, <1>9

LEMMA TickInv == ASSUME GrantInv, Tick PROVE GrantInv'
<1> USE DEF GrantInv, Tick, targetVars
<1>1. TypeOK'
  BY DEF TypeOK
<1>2. RequestInv'
  BY DEF RequestInv, At, TypeOK
<1>3. \A g \in DOMAIN grants : ~Expired(g, clock') => ~Expired(g, clock)
  BY GrantType DEF Expired, TypeOK
<1>4. FenceInv' /\ OnceInv'
  BY <1>3 DEF FenceInv, OnceInv, At, Past, Looked, Expired
<1> QED BY <1>1, <1>2, <1>4

----------------------------------------------------------------------------
(* GrantInv is an invariant: callers, requests, restarts, failed saves and *)
(* the clock keep it.                                                      *)
THEOREM GrantInvariant == Spec => []GrantInv
<1>1. GrantInv /\ [Next]_vars => GrantInv'
  <2> SUFFICES ASSUME GrantInv, [Next]_vars PROVE GrantInv'
    OBVIOUS
  <2>1. CASE UNCHANGED vars \/ RouteExecution \/ Fanout \/ Shared
    BY <2>1, QuietInv DEF vars, RouteExecution, Fanout, Shared, Begin
  <2>2. CASE CallStep
    BY <2>2, QuietInv, IssueInv DEF CallStep, ServeLocal, GiveUp
  <2>3. CASE HandlerStep
    BY <2>3, ReceiveInv, LoadOrStoreInv, LookupInv, PruneInv, SaveStepInv, CountInv,
       UpsertInv, CleanInv, ServeInv DEF HandlerStep
  <2> QED BY <2>1, <2>2, <2>3, RestartInv, TickInv DEF Next
<1> QED BY <1>1, InitInv, PTL DEF Spec

(* A side-effect grant runs its program at most once, whatever is          *)
(* delivered again and whenever the target restarts or fails to save,      *)
(* unless a request with it stalled past its expiry (consumeMeshGrant).    *)
THEOREM ExecutesOnce == Spec => []ExecutedOnce
<1>1. GrantInv => ExecutedOnce
  <2> SUFFICES ASSUME GrantInv, NEW g \in DOMAIN grants, ran[g] > 1
               PROVE  g \in stalled
    BY DEF ExecutedOnce
  <2>1. g \in Grants /\ ran[g] \in Nat
    BY GrantAssumption DEF GrantInv, TypeOK, Grants
  <2>2. grants[g].effect
    BY <2>1 DEF GrantInv, RequestInv
  <2> QED BY <2>1, <2>2 DEF GrantInv, OnceInv
<1> QED BY <1>1, GrantInvariant, PTL

(* As long as a grant is valid, a program it ran has its receipt in the    *)
(* body (persistConsumedMeshGrant).                                        *)
THEOREM EffectsAreFenced == Spec => []FencedFirst
<1>1. GrantInv => FencedFirst
  <2> SUFFICES ASSUME GrantInv, NEW g \in DOMAIN grants, ran[g] > 0, ~Expired(g, clock)
               PROVE  g \in disk[grants[g].target]
    BY DEF FencedFirst
  <2>1. g \in Grants
    BY GrantAssumption DEF GrantInv, TypeOK, Grants
  <2>2. grants[g].effect
    BY <2>1 DEF GrantInv, RequestInv
  <2> QED BY <2>2 DEF GrantInv, FenceInv
<1> QED BY <1>1, GrantInvariant, PTL

----------------------------------------------------------------------------
(* The calls: RouteInv, and RouteOnce from it. *)

(* The calls are a sequence, which grows and is changed in place. *)
LEMMA CallSeq ==
  ASSUME CallType
  PROVE  Len(calls) \in Nat /\ DOMAIN calls = 1..Len(calls)
BY LenProperties DEF CallType

LEMMA CallSet ==
  ASSUME NEW s, NEW n \in Nat, s = [i \in 1..n |-> s[i]]
  PROVE  s \in Seq(ToSet(s))
<1>1. s \in [1..n -> ToSet(s)]
  BY DEF ToSet
<1> QED BY <1>1, SeqDef

LEMMA CallAppended ==
  ASSUME CallType, NEW new, calls' = Append(calls, new)
  PROVE  /\ calls' \in Seq(ToSet(calls'))
         /\ DOMAIN calls' = DOMAIN calls \cup {Len(calls) + 1}
         /\ Len(calls) + 1 \notin DOMAIN calls
         /\ calls'[Len(calls) + 1] = new
         /\ \A c \in DOMAIN calls : calls'[c] = calls[c]
<1>1. Len(calls) \in Nat /\ DOMAIN calls = 1..Len(calls)
  BY CallSeq
<1> DEFINE S == ToSet(calls) \cup {new}
<1>2. calls \in Seq(S)
  BY SeqMonotonic DEF CallType
<1> HIDE DEF S
<1>3. new \in S
  BY DEF S
<1>4. /\ calls' \in Seq(S) /\ Len(calls') = Len(calls) + 1
      /\ calls'[Len(calls) + 1] = new
      /\ \A c \in 1..Len(calls) : calls'[c] = calls[c]
  BY <1>2, <1>3, AppendProperties
<1>5. calls' = [i \in 1..(Len(calls) + 1) |-> calls'[i]]
  BY <1>4, LenProperties
<1>6. calls' \in Seq(ToSet(calls'))
  <2>1. Len(calls) + 1 \in Nat
    BY <1>1
  <2> QED BY <1>5, <2>1, CallSet
<1>7. DOMAIN calls' = 1..(Len(calls) + 1)
  BY <1>5
<1> QED BY <1>1, <1>4, <1>6, <1>7

LEMMA CallChanged ==
  ASSUME CallType, NEW c \in DOMAIN calls, NEW new, calls' = [calls EXCEPT ![c] = new]
  PROVE  /\ calls' \in Seq(ToSet(calls')) /\ DOMAIN calls' = DOMAIN calls
         /\ calls'[c] = new
         /\ \A d \in DOMAIN calls : d # c => calls'[d] = calls[d]
<1>1. Len(calls) \in Nat /\ DOMAIN calls = 1..Len(calls)
  BY CallSeq
<1>2. calls' = [i \in 1..Len(calls) |-> calls'[i]]
  BY <1>1
<1>3. calls' \in Seq(ToSet(calls'))
  BY <1>1, <1>2, CallSet
<1> QED BY <1>1, <1>3

(* The grants of a call are finitely many. *)
LEMMA OwnFinite ==
  ASSUME TypeOK, NEW c
  PROVE  IsFiniteSet(Own(c)) /\ Cardinality(Own(c)) \in Nat
<1>1. Len(grants) \in Nat /\ DOMAIN grants = 1..Len(grants)
  BY LenProperties DEF TypeOK
<1>2. IsFiniteSet(DOMAIN grants)
  BY <1>1, FS_Interval
<1>3. Own(c) \in SUBSET DOMAIN grants
  BY DEF Own
<1>4. IsFiniteSet(Own(c))
  BY <1>2, <1>3, FS_Subset
<1> QED BY <1>4, FS_CardinalityType

(* The shape of a call, under the todo it has. *)
Shape(todo) ==
  [kind : {"route", "fanout", "execute", "fetch"}, todo : {todo}, waits : Nat,
   local : Nat, trouble : Nat]

(* A call begins: it has neither grants nor runs. *)
LEMMA BeginRoute ==
  ASSUME TypeOK, RouteInv, NEW kind \in {"route", "fanout", "execute", "fetch"},
         NEW todo, Begin(kind, todo)
  PROVE  RouteInv'
<1> USE DEF RouteInv
<1>0. PICK n : n = Len(calls) + 1
  OBVIOUS
<1>1. calls' = Append(calls, Call(kind, todo)) /\ UNCHANGED grants
  BY DEF Begin
<1>2. /\ calls' \in Seq(ToSet(calls')) /\ DOMAIN calls' = DOMAIN calls \cup {n}
      /\ n \notin DOMAIN calls /\ calls'[n] = Call(kind, todo)
      /\ \A c \in DOMAIN calls : calls'[c] = calls[c]
  BY <1>0, <1>1, CallAppended
<1>3. CallType'
  BY <1>2 DEF CallType, Call
<1>4. \A c \in DOMAIN calls' : Own(c)' = Own(c)
  BY <1>1 DEF Own
<1>5. Own(n) = {} /\ Cardinality(Own(n)) = 0
  <2>1. Own(n) = {}
    BY <1>2 DEF AttemptInv, Own
  <2> QED BY <2>1, FS_EmptySet
<1>6. AttemptInv'
  <2>1. \A g \in DOMAIN grants' : grants'[g].call \in DOMAIN calls'
    BY <1>1, <1>2 DEF AttemptInv
  <2>2. \A c \in DOMAIN calls :
          (/\ calls[c].waits # 0 => Running(c)
           /\ calls[c].kind # "fanout" =>
                calls[c].local + Cardinality(Own(c))
                  <= calls[c].trouble + (IF Asks(c) THEN 0 ELSE 1))'
    BY <1>2, <1>4 DEF AttemptInv, Running, Asks
  <2>3. (/\ calls[n].waits # 0 => Running(n)
         /\ calls[n].kind # "fanout" =>
              calls[n].local + Cardinality(Own(n))
                <= calls[n].trouble + (IF Asks(n) THEN 0 ELSE 1))'
    <3>1. Own(n)' = {}
      BY <1>2, <1>4, <1>5
    <3>2. Cardinality(Own(n))' = 0
      BY <3>1, FS_EmptySet
    <3>3. /\ calls'[n].waits = 0 /\ calls'[n].local = 0 /\ calls'[n].trouble = 0
      BY <1>2 DEF Call
    <3> QED BY <3>2, <3>3
  <2> QED BY <1>2, <2>1, <2>2, <2>3 DEF AttemptInv
<1> QED BY <1>3, <1>6

(* An attempt of a running call ends: it had trouble, or it ended the call. *)
LEMMA AttemptRoute ==
  ASSUME TypeOK, RouteInv, NEW c \in DOMAIN calls, Running(c), UNCHANGED grants,
         NEW new, calls' = [calls EXCEPT ![c] = new], new \in Shape(new.todo),
         new.kind = calls[c].kind, new.waits = 0,
         new.local \in {calls[c].local, calls[c].local + IF Asks(c) THEN 1 ELSE 0},
         \/ new.trouble = calls[c].trouble + 1
         \/ new.trouble = calls[c].trouble /\ (new.kind # "fanout" => new.todo = <<>>)
  PROVE  RouteInv'
<1> USE DEF RouteInv
<1>1. /\ calls' \in Seq(ToSet(calls')) /\ DOMAIN calls' = DOMAIN calls /\ calls'[c] = new
      /\ \A d \in DOMAIN calls : d # c => calls'[d] = calls[d]
  BY CallChanged
<1>2. CallType'
  BY <1>1 DEF CallType, Shape
<1>3. \A d : Own(d)' = Own(d)
  BY DEF Own
<1>4. (calls[c].kind # "fanout" =>
         calls[c].local + Cardinality(Own(c))
           <= calls[c].trouble + (IF Asks(c) THEN 0 ELSE 1))'
  <2>1. calls[c].kind # "fanout" =>
          calls[c].local + Cardinality(Own(c)) <= calls[c].trouble + (IF Asks(c) THEN 0 ELSE 1)
    BY DEF AttemptInv
  <2>2. /\ Cardinality(Own(c)) \in Nat /\ Cardinality(Own(c))' = Cardinality(Own(c))
        /\ calls[c].local \in Nat /\ calls[c].trouble \in Nat
    BY <1>3, OwnFinite DEF CallType
  <2>3. Asks(c)' <=> new.todo # <<>>
    BY <1>1 DEF Asks, Running
  <2> QED BY <1>1, <2>1, <2>2, <2>3
<1>5. \A d \in DOMAIN calls : d # c =>
        (/\ calls[d].waits # 0 => Running(d)
         /\ calls[d].kind # "fanout" =>
              calls[d].local + Cardinality(Own(d))
                <= calls[d].trouble + (IF Asks(d) THEN 0 ELSE 1))'
  BY <1>1, <1>3 DEF AttemptInv, Running, Asks
<1>6. AttemptInv'
  BY <1>1, <1>4, <1>5 DEF AttemptInv
<1> QED BY <1>2, <1>6

(* What Attempted makes of a call. *)
LEMMA AttemptedShape ==
  ASSUME NEW todo, NEW call \in Shape(todo), NEW ok \in BOOLEAN
  PROVE  /\ Attempted(call, ok) \in Shape(Attempted(call, ok).todo)
         /\ Attempted(call, ok).kind = call.kind /\ Attempted(call, ok).waits = 0
         /\ Attempted(call, ok).local = call.local
         /\ \/ Attempted(call, ok).trouble = call.trouble + 1
            \/ /\ Attempted(call, ok).trouble = call.trouble
               /\ call.kind # "fanout" => Attempted(call, ok).todo = <<>>
<1> DEFINE left == Left(call, ok)
           trouble == IF ok THEN call.trouble ELSE call.trouble + 1
           new == [call EXCEPT !.todo = left, !.waits = 0, !.trouble = trouble]
<1>1. Attempted(call, ok) = new
  BY DEF Attempted
<1>2. ok /\ call.kind # "fanout" => left = <<>>
  BY DEF Left
<1>3. trouble \in Nat
  BY DEF Shape
<1>4. trouble = call.trouble + 1 \/ (trouble = call.trouble /\ ok)
  OBVIOUS
<1> HIDE DEF left, trouble
<1>5. new \in Shape(left)
  BY <1>3 DEF Shape
<1>6. /\ new.kind = call.kind /\ new.todo = left /\ new.waits = 0
      /\ new.local = call.local /\ new.trouble = trouble
  BY DEF Shape
<1> HIDE DEF new
<1> QED BY <1>1, <1>2, <1>4, <1>5, <1>6

(* An answer or its absence ends the attempt a call waits in. *)
LEMMA EndRoute ==
  ASSUME TypeOK, RouteInv, NEW c \in DOMAIN calls, Running(c), UNCHANGED grants,
         NEW ok \in BOOLEAN, calls' = [calls EXCEPT ![c] = Attempted(calls[c], ok)]
  PROVE  RouteInv'
<1>1. calls[c] \in Shape(calls[c].todo)
  BY DEF RouteInv, CallType, Shape
<1> DEFINE new == Attempted(calls[c], ok)
<1>2. /\ new \in Shape(new.todo) /\ new.kind = calls[c].kind /\ new.waits = 0
      /\ new.local = calls[c].local
      /\ \/ new.trouble = calls[c].trouble + 1
         \/ new.trouble = calls[c].trouble /\ (new.kind # "fanout" => new.todo = <<>>)
  BY <1>1, AttemptedShape
<1>3. calls' = [calls EXCEPT ![c] = new]
  OBVIOUS
<1> HIDE DEF new
<1> QED BY <1>2, <1>3, AttemptRoute

LEMMA ServeLocalRoute ==
  ASSUME TypeOK, RouteInv, NEW c \in DOMAIN calls, ServeLocal(c)
  PROVE  RouteInv'
<1>1. PICK ok, effect \in BOOLEAN :
        calls' = [calls EXCEPT ![c] = Attempted(RanHere(calls[c], effect), ok)]
  BY DEF ServeLocal
<1> DEFINE call == RanHere(calls[c], effect)
<1>2. Running(c) /\ Asks(c) /\ UNCHANGED grants
  BY DEF ServeLocal, Asks
<1>3. calls[c] \in Shape(calls[c].todo)
  BY DEF RouteInv, CallType, Shape
<1>4. /\ call \in Shape(call.todo) /\ call.kind = calls[c].kind
      /\ call.trouble = calls[c].trouble
      /\ call.local \in {calls[c].local, calls[c].local + 1}
  BY <1>3 DEF Shape, RanHere
<1> HIDE DEF call
<1>5. calls' = [calls EXCEPT ![c] = Attempted(call, ok)]
  BY <1>1 DEF call
<1> DEFINE new == Attempted(call, ok)
<1>6. /\ new \in Shape(new.todo) /\ new.kind = calls[c].kind /\ new.waits = 0
      /\ new.local = call.local
      /\ \/ new.trouble = calls[c].trouble + 1
         \/ new.trouble = calls[c].trouble /\ (new.kind # "fanout" => new.todo = <<>>)
  BY <1>4, AttemptedShape
<1>7. calls' = [calls EXCEPT ![c] = new]
  BY <1>5
<1> HIDE DEF new
<1> QED BY <1>2, <1>4, <1>6, <1>7, AttemptRoute

(* A grant is issued: the attempt is under way. *)
LEMMA IssueRoute ==
  ASSUME TypeOK, RouteInv, NEW c \in DOMAIN calls, Issue(c)
  PROVE  RouteInv'
<1> USE DEF RouteInv
<1> DEFINE g == Len(grants) + 1
           G == [target |-> Head(calls[c].todo), call |-> c,
                 effect |-> Effect(calls[c].kind), expires |-> clock + TTL]
           new == [calls[c] EXCEPT !.waits = g]
<1>1. /\ Running(c) /\ calls[c].waits = 0
      /\ grants' = Append(grants, G) /\ calls' = [calls EXCEPT ![c] = new]
  BY DEF Issue, Asks
<1>2. Len(grants) \in Nat /\ DOMAIN grants = 1..Len(grants)
  BY LenProperties DEF TypeOK
<1>3. /\ DOMAIN grants' = DOMAIN grants \cup {g} /\ g \notin DOMAIN grants
      /\ \A i \in DOMAIN grants : grants'[i] = grants[i]
      /\ grants'[g] = G /\ G.call = c
  <2>1. grants \in Seq([target : Targets, call : Nat, effect : BOOLEAN, expires : Nat]
                       \cup {G})
    BY SeqMonotonic DEF TypeOK
  <2>2. /\ Len(grants') = g /\ grants'[g] = G
        /\ \A i \in 1..Len(grants) : grants'[i] = grants[i]
        /\ grants' \in Seq([target : Targets, call : Nat, effect : BOOLEAN, expires : Nat]
                          \cup {G})
    <3> HIDE DEF G
    <3> QED BY <1>1, <2>1, AppendProperties
  <2>3. DOMAIN grants' = 1..g
    BY <2>2, LenProperties
  <2>4. G.call = c
    OBVIOUS
  <2> HIDE DEF G
  <2> QED BY <1>2, <2>2, <2>3, <2>4
<1>4. /\ new \in Shape(calls[c].todo) /\ new.waits = g /\ new.kind = calls[c].kind
      /\ new.todo = calls[c].todo /\ new.local = calls[c].local
      /\ new.trouble = calls[c].trouble
  BY <1>2 DEF CallType, Shape
<1> HIDE DEF new, G
<1>5. /\ calls' \in Seq(ToSet(calls')) /\ DOMAIN calls' = DOMAIN calls /\ calls'[c] = new
      /\ \A d \in DOMAIN calls : d # c => calls'[d] = calls[d]
  BY <1>1, CallChanged
<1>6. CallType'
  BY <1>4, <1>5 DEF CallType, Shape
<1>7. Own(c)' = Own(c) \cup {g} /\ g \notin Own(c)
      /\ \A d \in DOMAIN calls : d # c => Own(d)' = Own(d)
  BY <1>3 DEF Own
<1>8. Cardinality(Own(c))' = Cardinality(Own(c)) + 1
  BY <1>7, OwnFinite, FS_AddElement
<1>9. (/\ calls[c].waits # 0 => Running(c)
       /\ calls[c].kind # "fanout" =>
            calls[c].local + Cardinality(Own(c))
              <= calls[c].trouble + (IF Asks(c) THEN 0 ELSE 1))'
  <2>1. /\ Cardinality(Own(c)) \in Nat /\ calls[c].local \in Nat
        /\ calls[c].trouble \in Nat
    BY OwnFinite DEF CallType
  <2>2. calls[c].kind # "fanout" =>
          calls[c].local + Cardinality(Own(c)) <= calls[c].trouble
    <3>1. Asks(c)
      BY <1>1 DEF Asks
    <3> QED BY <2>1, <3>1 DEF AttemptInv
  <2>3. Running(c)' /\ ~Asks(c)'
    BY <1>1, <1>2, <1>4, <1>5 DEF Running, Asks
  <2>4. calls'[c].local = calls[c].local /\ calls'[c].trouble = calls[c].trouble
        /\ calls'[c].kind = calls[c].kind
    BY <1>4, <1>5
  <2> QED BY <1>8, <2>1, <2>2, <2>3, <2>4
<1>10. \A d \in DOMAIN calls : d # c =>
        (/\ calls[d].waits # 0 => Running(d)
         /\ calls[d].kind # "fanout" =>
              calls[d].local + Cardinality(Own(d))
                <= calls[d].trouble + (IF Asks(d) THEN 0 ELSE 1))'
  BY <1>5, <1>7 DEF AttemptInv, Running, Asks
<1>11. \A i \in DOMAIN grants' : grants'[i].call \in DOMAIN calls'
  BY <1>3, <1>5 DEF AttemptInv
<1>12. AttemptInv'
  BY <1>5, <1>9, <1>10, <1>11 DEF AttemptInv
<1> QED BY <1>6, <1>12

(* A late answer, to a call that gave up or was answered, changes nothing. *)
LEMMA AnswerRoute ==
  ASSUME GrantInv, RouteInv, NEW h \in Handlers, ~At(h, "idle"), NEW ok \in BOOLEAN,
         Answer(h, ok), UNCHANGED grants
  PROVE  RouteInv'
<1> DEFINE g == handler[h].g
           c == grants[g].call
<1>1. g \in DOMAIN grants /\ g # 0 /\ c \in DOMAIN calls
  BY GrantFacts, GrantAssumption DEF Grants, RouteInv, AttemptInv
<1>2. calls' = IF calls[c].waits = g THEN [calls EXCEPT ![c] = Attempted(calls[c], ok)] ELSE calls
  BY DEF Answer
<1>3. calls[c].waits = g => Running(c)
  BY <1>1 DEF RouteInv, AttemptInv
<1>4. CASE calls' = calls
  BY <1>4 DEF RouteInv, CallType, AttemptInv, Running, Asks, Own
<1> QED BY <1>1, <1>2, <1>3, <1>4, EndRoute DEF GrantInv

LEMMA SameRoute ==
  ASSUME RouteInv, UNCHANGED <<calls, grants>>
  PROVE  RouteInv'
BY DEF RouteInv, CallType, AttemptInv, Running, Asks, Own

LEMMA HandlerRoute ==
  ASSUME GrantInv, RouteInv, NEW h \in Handlers,
         \/ \E g \in DOMAIN grants : Receive(h, g)
         \/ LoadOrStore(h) \/ Lookup(h) \/ Prune(h) \/ PruneSave(h) \/ Count(h)
         \/ Upsert(h) \/ Save(h) \/ Clean(h) \/ Serve(h)
  PROVE  RouteInv'
<1>1. UNCHANGED grants
  BY DEF Receive, LoadOrStore, Lookup, Prune, PruneSave, Count, Upsert, Save, Clean, Serve
<1>2. UNCHANGED calls \/ (~At(h, "idle") /\ \E ok \in BOOLEAN : Answer(h, ok))
  BY DEF Receive, LoadOrStore, Lookup, Prune, PruneSave, Count, Upsert, Save, Clean, Serve,
     Deny, At
<1> QED BY <1>1, <1>2, AnswerRoute, SameRoute

(* RouteInv is an invariant of the callers and of the answers they get.    *)
THEOREM RouteInvariant == Spec => []RouteInv
<1>1. Init => RouteInv
  <2> SUFFICES ASSUME Init PROVE RouteInv
    OBVIOUS
  <2>1. calls = <<>> /\ grants = <<>> /\ DOMAIN calls = {} /\ DOMAIN grants = {}
    BY DEF Init
  <2> QED BY <2>1, EmptySeq DEF RouteInv, CallType, AttemptInv
<1>2. GrantInv /\ RouteInv /\ [Next]_vars => RouteInv'
  <2> SUFFICES ASSUME GrantInv, RouteInv, [Next]_vars PROVE RouteInv'
    OBVIOUS
  <2>0. TypeOK
    BY DEF GrantInv
  <2>1. CASE RouteExecution
    <3>1. PICK start \in DOMAIN Order, preferLocal \in BOOLEAN :
            Begin("route", (IF preferLocal THEN <<Self>> ELSE <<>>) \o Rotation(start))
      BY <2>1 DEF RouteExecution
    <3> DEFINE todo == (IF preferLocal THEN <<Self>> ELSE <<>>) \o Rotation(start)
    <3>2. PICK kind \in {"route"} : Begin(kind, todo)
      BY <3>1
    <3> HIDE DEF todo
    <3> QED BY <2>0, <3>2, BeginRoute
  <2>2. CASE Fanout
    <3>1. PICK kind \in {"fanout"}, includeSelf \in BOOLEAN :
            Begin(kind, IF includeSelf THEN Order ELSE SelectSeq(Order, LAMBDA n : n # Self))
      BY <2>2 DEF Fanout
    <3> QED BY <2>0, <3>1, BeginRoute
  <2>3. CASE Shared
    <3>1. PICK kind \in {"execute", "fetch"}, n \in Targets \cup {Self} : Begin(kind, <<n>>)
      BY <2>3 DEF Shared
    <3> QED BY <2>0, <3>1, BeginRoute
  <2>4. CASE CallStep
    <3>1. PICK c \in DOMAIN calls : ServeLocal(c) \/ Issue(c) \/ GiveUp(c)
      BY <2>4 DEF CallStep
    <3>2. CASE GiveUp(c)
      BY <2>0, <3>2, EndRoute DEF GiveUp
    <3> QED BY <2>0, <3>1, <3>2, ServeLocalRoute, IssueRoute
  <2>5. CASE HandlerStep
    BY <2>5, HandlerRoute DEF HandlerStep
  <2>6. CASE Tick \/ (\E t \in Targets : Restart(t)) \/ UNCHANGED vars
    BY <2>6, SameRoute DEF Tick, Restart, vars
  <2> QED BY <2>1, <2>2, <2>3, <2>4, <2>5, <2>6 DEF Next
<1> QED BY <1>1, <1>2, GrantInvariant, PTL DEF Spec

(* routeExecution runs its Memory once, and once more for each attempt     *)
(* that failed or that it gave up, wherever the other runs happened and    *)
(* however late the answers arrive.                                        *)
THEOREM RoutesOnce == Spec => []RouteOnce
<1>1. GrantInv /\ RouteInv => RouteOnce
  <2> SUFFICES ASSUME GrantInv, RouteInv, NEW c \in DOMAIN calls, calls[c].kind = "route",
                      \A g \in stalled : grants[g].call # c
               PROVE  Runs(c) <= 1 + calls[c].trouble
    BY DEF RouteOnce
  <2> DEFINE R == UNION {{g} \X (1..ran[g]) : g \in Own(c)}
  <2>1. TypeOK /\ DOMAIN grants \subseteq Grants
    BY GrantAssumption DEF GrantInv, TypeOK, Grants
  <2>2. \A g \in Own(c) : ran[g] \in {0, 1}
    <3> SUFFICES ASSUME NEW g \in Own(c) PROVE ran[g] \in {0, 1}
      OBVIOUS
    <3>1. g \in DOMAIN grants /\ g \notin stalled /\ ran[g] \in Nat
      BY <2>1 DEF Own, TypeOK
    <3>2. ran[g] > 0 => grants[g].effect
      BY <2>1, <3>1 DEF GrantInv, RequestInv
    <3>3. grants[g].effect => ran[g] <= 1
      BY <3>1 DEF GrantInv, OnceInv
    <3> QED BY <3>1, <3>2, <3>3
  <2>3. R \in SUBSET (Own(c) \X {1})
    <3> SUFFICES ASSUME NEW g \in Own(c), NEW i \in 1..ran[g]
                 PROVE  <<g, i>> \in Own(c) \X {1}
      OBVIOUS
    <3> QED BY <2>2
  <2>4. /\ IsFiniteSet(Own(c) \X {1})
        /\ Cardinality(Own(c) \X {1}) = Cardinality(Own(c)) * 1
    <3>1. IsFiniteSet({1}) /\ Cardinality({1}) = 1
      BY FS_Singleton
    <3> QED BY <2>1, <3>1, OwnFinite, FS_Product
  <2>5. Cardinality(R) <= Cardinality(Own(c)) /\ Cardinality(R) \in Nat
    <3> HIDE DEF R
    <3>1. IsFiniteSet(R) /\ Cardinality(R) <= Cardinality(Own(c) \X {1})
      BY <2>3, <2>4, FS_Subset
    <3> QED BY <2>1, <2>4, <3>1, OwnFinite, FS_CardinalityType
  <2>6. /\ calls[c].local \in Nat /\ calls[c].trouble \in Nat
        /\ Cardinality(Own(c)) \in Nat
    BY <2>1, OwnFinite DEF RouteInv, CallType
  <2>7. calls[c].local + Cardinality(Own(c)) <= calls[c].trouble + 1
    BY <2>6 DEF RouteInv, AttemptInv
  <2>8. Runs(c) = calls[c].local + Cardinality(R)
    BY DEF Runs
  <2> HIDE DEF R
  <2> QED BY <2>5, <2>6, <2>7, <2>8
<1> QED BY <1>1, GrantInvariant, RouteInvariant, PTL

----------------------------------------------------------------------------
(* The directory of node identities *)

(* The initial state satisfies the invariant. *)
LEMMA DirectoryInitInv == DirectoryInit => DirectoryInv
<1> SUFFICES ASSUME DirectoryInit PROVE DirectoryInv
  OBVIOUS
<1>1. DirectoryTypeOK
  BY DirectoryAssumption DEF DirectoryInit, Empty, NoReg, DirectoryTypeOK
<1>2. RegistrationsAgree /\ AckedEverywhere
  BY DEF DirectoryInit, NoReg, RegAt, InFlight, RegistrationsAgree, AckedEverywhere
<1> QED BY <1>1, <1>2 DEF DirectoryInv

(* register_node, its check: a key other than the acknowledged one is      *)
(* refused, and one other than that of a registration in progress makes    *)
(* the id loose.                                                           *)
LEMMA RegisterNodeInv ==
  ASSUME DirectoryInv, NEW r \in Regs, NEW id \in Ids, NEW key \in Keys,
         RegisterNode(r, id, key)
  PROVE  DirectoryInv'
<1> USE DEF DirectoryInv, RegisterNode
<1>1. DirectoryTypeOK'
  BY DEF DirectoryTypeOK
<1>2. \A q \in Regs : q # r => reg'[q] = reg[q]
  BY DEF DirectoryTypeOK
<1>3. reg'[r] = [pc |-> "upsert", id |-> id, key |-> key]
  BY DEF DirectoryTypeOK
<1>4. loose \subseteq loose' /\ \A i \in Ids : i # id => (i \in loose' <=> i \in loose)
  OBVIOUS
<1>5. id \notin loose' =>
        boot = "ready" /\ \A q \in Regs : q # r /\ InFlight(q, id) => reg[q].key = key
  BY DEF Rivals, InFlight
<1>6. RegistrationsAgree'
  BY <1>2, <1>3, <1>4, <1>5 DEF RegistrationsAgree, InFlight, RegAt
<1>7. \A k \in acked[id] : id \notin loose' => k = key
  BY <1>4, <1>5, DirectoryAssumption DEF AckedEverywhere, DirectoryTypeOK
<1>8. AckedEverywhere'
  BY <1>2, <1>3, <1>4, <1>7 DEF AckedEverywhere, InFlight, RegAt
<1> QED BY <1>1, <1>6, <1>8

(* Facts about the registration a step goes on with. *)
LEMMA RegFacts ==
  ASSUME DirectoryInv, NEW r \in Regs, ~RegAt(r, "idle")
  PROVE  reg[r].id \in Ids /\ reg[r].key \in Keys /\ InFlight(r, reg[r].id)
BY DEF DirectoryInv, RegistrationsAgree, InFlight

(* The directory record is changed. *)
LEMMA RegisterUpsertInv ==
  ASSUME DirectoryInv, NEW r \in Regs, RegisterUpsert(r)
  PROVE  DirectoryInv'
<1> USE DEF DirectoryInv, RegisterUpsert, RegTo
<1>1. reg[r].id \in Ids /\ reg[r].key \in Keys /\ InFlight(r, reg[r].id)
  BY RegFacts DEF RegAt
<1>2. DirectoryTypeOK'
  BY <1>1 DEF DirectoryTypeOK
<1>3. /\ \A q \in Regs : reg'[q].id = reg[q].id /\ reg'[q].key = reg[q].key
      /\ \A q \in Regs : q # r => reg'[q].pc = reg[q].pc
      /\ reg'[r].pc = "save" /\ reg[r].pc = "upsert"
  BY DEF DirectoryTypeOK, RegAt
<1>4. \A q \in Regs, i \in Ids : InFlight(q, i)' <=> InFlight(q, i)
  BY <1>3 DEF InFlight, RegAt
<1>5. \A i \in Ids : dirMem'[i] = IF i = reg[r].id THEN reg[r].key ELSE dirMem[i]
  BY DEF DirectoryTypeOK
<1>6. RegistrationsAgree'
  BY <1>1, <1>3, <1>4, <1>5 DEF RegistrationsAgree, RegAt, InFlight
<1>7. AckedEverywhere'
  BY <1>1, <1>3, <1>4, <1>5 DEF AckedEverywhere
<1> QED BY <1>2, <1>6, <1>7

(* The directory record is saved, or the save fails. *)
LEMMA RegisterSaveInv ==
  ASSUME DirectoryInv, NEW r \in Regs, RegisterSave(r)
  PROVE  DirectoryInv'
<1> USE DEF DirectoryInv, RegisterSave
<1>1. reg[r].id \in Ids /\ reg[r].key \in Keys /\ InFlight(r, reg[r].id)
  BY RegFacts DEF RegAt
<1>2. dirDisk' \in {dirDisk, dirMem} /\ reg[r].pc = "save"
  BY DEF Trouble, RegAt
<1>3. DirectoryTypeOK'
  BY <1>2, DirectoryAssumption DEF DirectoryTypeOK, Trouble, RegTo, NoReg
<1>4. /\ \A q \in Regs : q # r => reg'[q] = reg[q]
      /\ \/ reg'[r] = [reg[r] EXCEPT !.pc = "publish"] /\ dirDisk' = dirMem
         \/ reg'[r] = NoReg
  BY DEF RegTo, DirectoryTypeOK
<1>5. RegistrationsAgree'
  BY <1>1, <1>2, <1>4 DEF RegistrationsAgree, RegAt, InFlight, NoReg, DirectoryTypeOK
<1>6. \A q \in Regs, i \in Ids :
        InFlight(q, i)' => InFlight(q, i) /\ reg'[q].key = reg[q].key
  BY <1>2, <1>4 DEF InFlight, RegAt, NoReg, DirectoryTypeOK
<1>7. AckedEverywhere'
  BY <1>2, <1>6 DEF AckedEverywhere
<1> QED BY <1>3, <1>5, <1>7

(* The registration is acknowledged. *)
LEMMA RegisterPublishInv ==
  ASSUME DirectoryInv, NEW r \in Regs, RegisterPublish(r)
  PROVE  DirectoryInv'
<1> USE DEF DirectoryInv, RegisterPublish
<1>1. reg[r].id \in Ids /\ reg[r].key \in Keys /\ InFlight(r, reg[r].id)
  BY RegFacts DEF RegAt
<1>2. DirectoryTypeOK'
  BY <1>1 DEF DirectoryTypeOK, NoReg
<1>3. (\A q \in Regs : q # r => reg'[q] = reg[q]) /\ reg'[r] = NoReg
  BY DEF DirectoryTypeOK
<1>4. \A q \in Regs, i \in Ids :
        InFlight(q, i)' => q # r /\ InFlight(q, i) /\ reg'[q] = reg[q]
  BY <1>3 DEF InFlight, RegAt, NoReg
<1>5. RegistrationsAgree'
  BY <1>3, <1>4 DEF RegistrationsAgree, RegAt, NoReg
<1>6. /\ \A i \in Ids : i # reg[r].id => acked'[i] = acked[i] /\ dir'[i] = dir[i]
      /\ acked'[reg[r].id] = acked[reg[r].id] \cup {reg[r].key}
      /\ dir'[reg[r].id] = reg[r].key
  BY <1>1 DEF DirectoryTypeOK
<1>7. reg[r].id \notin loose =>
        /\ boot = "ready"
        /\ dirMem[reg[r].id] = reg[r].key /\ dirDisk[reg[r].id] = reg[r].key
        /\ \A q \in Regs : InFlight(q, reg[r].id) => reg[q].key = reg[r].key
        /\ \A k \in acked[reg[r].id] : k = reg[r].key
  BY <1>1 DEF RegistrationsAgree, AckedEverywhere, RegAt
<1>8. AckedEverywhere'
  BY <1>4, <1>6, <1>7 DEF AckedEverywhere
<1> QED BY <1>2, <1>5, <1>8

(* A restart, and the recovery of the directory from the body. *)
LEMMA RecoveryInv ==
  ASSUME DirectoryInv, SovereignRestart \/ RecoverRead \/ RecoverPublish
  PROVE  DirectoryInv'
<1> USE DEF DirectoryInv
<1>1. CASE SovereignRestart
  <2>1. DirectoryTypeOK'
    BY <1>1, DirectoryAssumption DEF SovereignRestart, DirectoryTypeOK, Trouble, Empty, NoReg
  <2>2. RegistrationsAgree' /\ AckedEverywhere'
    BY <1>1 DEF SovereignRestart, RegistrationsAgree, AckedEverywhere, InFlight, RegAt, NoReg
  <2> QED BY <2>1, <2>2
<1>2. CASE RecoverRead
  <2>1. DirectoryTypeOK'
    BY <1>2 DEF RecoverRead, DirectoryTypeOK
  <2>2. RegistrationsAgree' /\ AckedEverywhere'
    BY <1>2 DEF RecoverRead, RegistrationsAgree, AckedEverywhere, InFlight, RegAt
  <2> QED BY <2>1, <2>2
<1>3. CASE RecoverPublish
  <2>1. DirectoryTypeOK'
    BY <1>3 DEF RecoverPublish, DirectoryTypeOK, Empty
  <2>2. RegistrationsAgree'
    BY <1>3 DEF RecoverPublish, RegistrationsAgree, InFlight, RegAt
  <2>3. \A id \in Ids : found[id] # None => dir'[id] = found[id]
    BY <1>3 DEF RecoverPublish
  <2>4. AckedEverywhere'
    BY <1>3, <2>3, DirectoryAssumption
    DEF RecoverPublish, AckedEverywhere, InFlight, RegAt, DirectoryTypeOK
  <2> QED BY <2>1, <2>2, <2>4
<1> QED BY <1>1, <1>2, <1>3

(* DirectoryInv is an invariant: every registration, restart and recovery  *)
(* step of the Sovereign keeps it.                                         *)
THEOREM DirectoryInvariant == DirectorySpec => []DirectoryInv
<1>1. DirectoryInv /\ [DirectoryNext]_directoryVars => DirectoryInv'
  <2> SUFFICES ASSUME DirectoryInv, [DirectoryNext]_directoryVars PROVE DirectoryInv'
    OBVIOUS
  <2>1. CASE UNCHANGED directoryVars
    BY <2>1 DEF directoryVars, DirectoryInv, DirectoryTypeOK, RegistrationsAgree, AckedEverywhere,
       InFlight, RegAt
  <2>2. CASE RegisterStep
    BY <2>2, RegisterNodeInv, RegisterUpsertInv, RegisterSaveInv, RegisterPublishInv
    DEF RegisterStep
  <2> QED BY <2>1, <2>2, RecoveryInv DEF DirectoryNext
<1> QED BY <1>1, DirectoryInitInv, PTL DEF DirectorySpec

(* A node id keeps the key that was acknowledged, through failed saves,    *)
(* restarts and recoveries, unless it registered before the directory was  *)
(* recovered or with two keys at once (register_node).                     *)
THEOREM IdentitiesAreKept == DirectorySpec => []IdentityKept
<1>1. DirectoryInv => IdentityKept
  BY DEF DirectoryInv, AckedEverywhere, IdentityKept
<1> QED BY <1>1, DirectoryInvariant, PTL
=============================================================================
