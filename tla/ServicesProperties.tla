------------------------- MODULE ServicesProperties -------------------------
(* What applications, and the provider, rely on.                           *)
EXTENDS Services

Issued == {i \in Ids : i < nextId}

Asked == [work : Nat, sent : BOOLEAN, session : Nat, left : Nat]
Work == [job : BOOLEAN, busy : BOOLEAN, left : Nat]

PendingOK ==
  /\ nextId \in Nat \ {0} /\ DOMAIN pending \subseteq Issued
  /\ pending \in [DOMAIN pending -> Asked]

WorksOK ==
  /\ nextWork \in 1..(MaxWorks + 1) /\ DOMAIN works \subseteq 1..(nextWork - 1)
  /\ works \in [DOMAIN works -> Work]

PumpOK ==
  /\ pump = [lost |-> pump.lost, next |-> pump.next, delivered |-> pump.delivered,
             submitted |-> pump.submitted, session |-> pump.session]
  /\ pump.session \in Nat
  /\ disposed \in BOOLEAN /\ session \in Nat /\ generation \in Nat

Histories ==
  [called : [Ids -> Nat], withdrawn : SUBSET Ids,
   accepted : [Ids -> Nat], answered : [1..MaxWorks -> Nat]]

HistoryOK == history \in Histories

(* The clients' tables hold entries they issued; counters are numbers.     *)
TypeOK == PendingOK /\ WorksOK /\ PumpOK /\ HistoryOK

(* Every request that is issued is pending, was called back once, or was   *)
(* withdrawn, and exactly one of these; every work that was sent is        *)
(* pending or was answered once; and the provider accepts a record at most *)
(* once, over all connections.  Replies and failures, session changes,     *)
(* deadlines, cancel and both disposals race for the same entries.         *)
AnsweredOnce ==
  /\ \A i \in Issued :
       /\ (i \in DOMAIN pending) = (history.called[i] = 0 /\ i \notin history.withdrawn)
       /\ history.called[i] + (IF i \in history.withdrawn THEN 1 ELSE 0) <= 1
       /\ history.accepted[i] <= 1
  /\ \A w \in 1..(nextWork - 1) :
       history.answered[w] = IF w \in DOMAIN works THEN 0 ELSE 1

(* A work is busy exactly while a request for it is pending: a work that   *)
(* looked busy with none would never be polled again, one that did not     *)
(* would be polled twice.  A disposed offload client answers nobody.       *)
BusyIsAsked ==
  disposed \/ \A w \in DOMAIN works :
    Cardinality({i \in DOMAIN pending : pending[i].work = w}) = (IF works[w].busy THEN 1 ELSE 0)

(* What makes the two inductive: an unissued number has no history, an      *)
(* unsent record was never accepted, and who asks for a work is known.     *)
Askers(w) == {i \in DOMAIN pending : pending[i].work = w}

RequestOnce(i) ==
  /\ (i \in DOMAIN pending) = (i < nextId /\ history.called[i] = 0 /\ i \notin history.withdrawn)
  /\ history.called[i] + (IF i \in history.withdrawn THEN 1 ELSE 0) <= (IF i < nextId THEN 1 ELSE 0)
  /\ history.accepted[i] <= (IF i < nextId THEN 1 ELSE 0)
  /\ i \in DOMAIN pending => (pending[i].sent \/ history.accepted[i] = 0)

RequestsOnce == \A i \in Ids : RequestOnce(i)

WorksOnce ==
  \A w \in 1..MaxWorks :
    history.answered[w] = IF w < nextWork /\ w \notin DOMAIN works THEN 1 ELSE 0

WhoAsks(w) == IF works[w].busy THEN \E i \in Ids : Askers(w) = {i} ELSE Askers(w) = {}

AskersOnce ==
  /\ \A i \in DOMAIN pending : pending[i].work < nextWork
  /\ disposed \/ \A w \in DOMAIN works : WhoAsks(w)

IInv == TypeOK /\ RequestsOnce /\ WorksOnce /\ AskersOnce

(* Every work is answered, whatever becomes of the link, of the offload    *)
(* client and of its requests.                                             *)
WorkAnswered == \A w \in 1..MaxWorks : (w \in DOMAIN works) ~> (w \notin DOMAIN works)
=============================================================================
