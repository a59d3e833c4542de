--------------------------- MODULE WorkerPromise ----------------------------
(***************************************************************************)
(* What a worker promises its guest, in the guest's own terms: the facts a *)
(* turn may carry about a handle and a request, and in which order.        *)
(* engine/worker/README.md ("Drivers and ownership") and worker.h state    *)
(* it; WorkerCore is shown to implement it.                                *)
(***************************************************************************)
EXTENDS Naturals

CONSTANTS Ids,       (* process-wide ids of handles and requests            *)
          Offsets    (* positions in a stream                               *)

VARIABLES
  ownerOf,           (* the handle a request was accepted on, 0 before      *)
  ran,               (* requests handed to a driver                         *)
  finished,          (* requests whose driver finished the stream with them *)
  stage,             (* of a handle: none, ready, ended, closed             *)
  next,              (* of a handle: the offset the guest expects next      *)
  verdict            (* of a request: none, or the one terminal status      *)

vars == <<ownerOf, ran, finished, stage, next, verdict>>

Init ==
  /\ ownerOf = [q \in Ids |-> 0] /\ ran = {} /\ finished = {}
  /\ stage = [h \in Ids |-> "none"]
  /\ next = [h \in Ids |-> 0]
  /\ verdict = [q \in Ids |-> "none"]

(* A request is accepted once, on a handle that is not closed.              *)
Accept(q, h) ==
  /\ ownerOf[q] = 0 /\ stage[q] = "none" /\ stage[h] # "closed" /\ ownerOf[h] = 0
  /\ ownerOf' = [ownerOf EXCEPT ![q] = h]
  /\ UNCHANGED <<ran, finished, stage, next, verdict>>

(* A driver sees a request once, before the guest has its verdict.          *)
Run(q) ==
  /\ ownerOf[q] # 0 /\ q \notin ran /\ verdict[q] = "none"
  /\ ran' = ran \cup {q}
  /\ UNCHANGED <<ownerOf, finished, stage, next, verdict>>

Finish(q) ==
  /\ q \in ran \ finished /\ verdict[q] = "none"
  /\ finished' = finished \cup {q}
  /\ UNCHANGED <<ownerOf, ran, stage, next, verdict>>

(* One verdict for every accepted request: cancelled only if no driver ever *)
(* saw it, done and unknown only if one did; after END if the driver        *)
(* finished the stream with it; always between READY and CLOSED.            *)
Answer(q, status) ==
  /\ ownerOf[q] # 0 /\ verdict[q] = "none"
  /\ (status = "cancelled") <=> (q \notin ran)
  /\ stage[ownerOf[q]] \in {"ready", "ended"}
  /\ q \in finished => stage[ownerOf[q]] = "ended" /\ status = "done"
  /\ verdict' = [verdict EXCEPT ![q] = status]
  /\ UNCHANGED <<ownerOf, ran, finished, stage, next>>

Ready(h) ==
  /\ stage[h] = "none" /\ ownerOf[h] = 0
  /\ stage' = [stage EXCEPT ![h] = "ready"]
  /\ UNCHANGED <<ownerOf, ran, finished, next, verdict>>

(* Data and gaps move the stream forward while it is open.                  *)
Advance(h, offset) ==
  /\ stage[h] = "ready" /\ offset > next[h]
  /\ next' = [next EXCEPT ![h] = offset]
  /\ UNCHANGED <<ownerOf, ran, finished, stage, verdict>>

End(h) ==
  /\ stage[h] = "ready"
  /\ stage' = [stage EXCEPT ![h] = "ended"]
  /\ UNCHANGED <<ownerOf, ran, finished, next, verdict>>

(* CLOSED is the handle's last fact: every request on it has its verdict.   *)
Closed(h) ==
  /\ stage[h] \in {"ready", "ended"}
  /\ \A q \in Ids : ownerOf[q] = h => verdict[q] # "none"
  /\ stage' = [stage EXCEPT ![h] = "closed"]
  /\ UNCHANGED <<ownerOf, ran, finished, next, verdict>>

Next ==
  \/ \E q, h \in Ids : Accept(q, h)
  \/ \E q \in Ids : Run(q) \/ Finish(q)
  \/ \E q \in Ids : \E status \in {"done", "unknown", "cancelled"} : Answer(q, status)
  \/ \E h \in Ids : Ready(h) \/ End(h) \/ Closed(h)
  \/ \E h \in Ids : \E offset \in Offsets : Advance(h, offset)

Spec == Init /\ [][Next]_vars
=============================================================================
