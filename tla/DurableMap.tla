----------------------------- MODULE DurableMap -----------------------------
(***************************************************************************)
(* What a Memory body promises its users (the mesh journal, the replay     *)
(* ledger, the external-I/O executor): a map from ids to records that is   *)
(* read and written at will, of which a restart brings back, id by id, a   *)
(* record no older than the last successful persist call.                  *)
(***************************************************************************)
CONSTANTS Ids, Records

VARIABLES
  view,     \* the record each id has
  recover   \* the records each id may have after a restart

vars == <<view, recover>>

Init == /\ view \in [Ids -> Records]
        /\ recover = [id \in Ids |-> {view[id]}]

(* Some ids get new records; the old ones may still come back. *)
Write ==
  /\ view' \in [Ids -> Records]
  /\ recover' = [id \in Ids |-> IF view'[id] = view[id] THEN recover[id]
                                ELSE recover[id] \cup {view'[id]}]

(* A persist call succeeds: older records cannot come back any more. *)
Persist ==
  /\ view' = view
  /\ DOMAIN recover' = Ids
  /\ \A id \in Ids : view[id] \in recover'[id] /\ recover'[id] \subseteq recover[id]

(* The body is loaded again. *)
Restart ==
  /\ DOMAIN view' = Ids
  /\ \A id \in Ids : view'[id] \in recover[id]
  /\ recover' = [id \in Ids |-> {view'[id]}]

Next == Write \/ Persist \/ Restart

Spec == Init /\ [][Next]_vars

(* The current record always may come back. *)
CurrentMayReturn == \A id \in Ids : view[id] \in recover[id]
============================================================================
