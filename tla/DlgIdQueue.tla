----------------------------- MODULE DlgIdQueue -----------------------------
(***************************************************************************)
(* What the dialogue manager promises its callers: the free dialogue ids   *)
(* form a queue.  An allocation takes the id at its head, a freed id goes  *)
(* to its end, so an id that was just freed is the last to be used again.  *)
(***************************************************************************)
EXTENDS Integers, Sequences

CONSTANTS
  Ids,        (* every dialogue id                                          *)
  PooledIds,  (* the ids that are handed out, least first                   *)
  Content, NoRecord

VARIABLES
  freeIds,    (* the ids that can be handed out, oldest first               *)
  records     (* Ids -> Content \cup {NoRecord}                             *)

vars == << freeIds, records >>

Init ==
  /\ freeIds = PooledIds
  /\ records = [id \in Ids |-> NoRecord]

Pooled(id) == \E i \in DOMAIN PooledIds : PooledIds[i] = id
InUse(id)  == records[id] # NoRecord

Take(rec) ==
  /\ freeIds # << >>
  /\ freeIds' = Tail(freeIds)
  /\ records' = [records EXCEPT ![Head(freeIds)] = rec]

Give(id) ==
  /\ Pooled(id) /\ InUse(id)
  /\ freeIds' = Append(freeIds, id)
  /\ records' = [records EXCEPT ![id] = NoRecord]

Clear(id) ==
  /\ ~Pooled(id) /\ InUse(id)
  /\ records' = [records EXCEPT ![id] = NoRecord]
  /\ UNCHANGED freeIds

(* A record is written while its id is in use, or when its id is not pooled. *)
Write(id, rec) ==
  /\ Pooled(id) => InUse(id)
  /\ records' = [records EXCEPT ![id] = rec]
  /\ UNCHANGED freeIds

Next ==
  \/ \E rec \in Content : Take(rec)
  \/ \E id \in Ids : Give(id) \/ Clear(id)
  \/ \E id \in Ids, rec \in Content : Write(id, rec)

Spec == Init /\ [][Next]_vars
=============================================================================
