------------------------ MODULE WorkerCoreProperties ------------------------
(* What engine/worker/src/worker.c must get right, stated over WorkerCore.  *)
EXTENDS WorkerCore

-----------------------------------------------------------------------------
Resource ==
  [id : {0} \cup Ids, ready : BOOLEAN, closing : BOOLEAN, closed : BOOLEAN,
   ended : BOOLEAN, endSeen : BOOLEAN, endOffset : Nat,
   gapOffset : Nat, gapCount : Nat]

Request ==
  [id : {0} \cup Ids, handle : {0} \cup Ids, started : BOOLEAN,
   nativeDone : BOOLEAN, terminal : BOOLEAN, observed : BOOLEAN,
   cancel : BOOLEAN, afterEnd : BOOLEAN, status : Statuses]

Places == {"turn", "opening", "dispatch", "starting", "sweep", "nativeClose",
           "observe", "idle", "wait", "faulted", "shutdown", "check", "freed"}

TablesOK ==
  /\ resources \in [Slots -> Resource]
  /\ requests \in [Slots -> Request]
  /\ events \in Seq([handle : Ids, kind : EventKinds, offset : Nat])
  /\ Len(events) <= MaxEvents
  /\ nextId \in 1 .. IntMax

LoopOK ==
  /\ pc \in Places /\ slot \in Slots /\ visit \in Nat
  /\ room \in 0 .. FactRoom /\ bytes \in 0 .. ByteRoom
  /\ observePhase \in 0 .. 5 /\ observeIndex \in Slots
  /\ shuttingDown \in BOOLEAN /\ stopping \in BOOLEAN /\ signal \in BOOLEAN

HistoryOK ==
  /\ held \subseteq Ids /\ sent \in [Ids -> Nat]
  /\ ownerOf \in [Ids -> {0} \cup Ids] /\ ran \subseteq Ids /\ finished \subseteq Ids
  /\ stage \in [Ids -> {"none", "ready", "ended", "closed"}]
  /\ next \in [Ids -> Nat]
  /\ verdict \in [Ids -> Statuses \cup {"none", "twice"}]

(* Every table keeps its shape, the ring its bound and the ids their range, *)
(* whatever order producers and owner run in.                               *)
TypeOK == TablesOK /\ LoopOK /\ HistoryOK

-----------------------------------------------------------------------------
(* A driver borrows a request's payload from start until it completes the   *)
(* request or its close returns OK (worker.h).  Whatever cancel, close and  *)
(* observe did meanwhile, the slot still holds that request.                *)
PayloadStable ==
  \A q \in held : \E s \in Slots : requests[s].id = q /\ AwaitsNative(requests[s])

(* A request reported cancelled never reached a driver; one reported        *)
(* unknown did (cancel, close and complete in worker.c); and no request     *)
(* gets a second COMPLETE, however late native completion comes.            *)
HonestVerdict ==
  \A q \in Ids : /\ verdict[q] = "cancelled" => q \notin ran
                 /\ verdict[q] = "unknown" => q \in ran
                 /\ verdict[q] # "twice"

(* A runner asleep with no wake pending and no close to retry has nothing   *)
(* left to start, cancel or deliver: pending, deadline and the wakes of     *)
(* every producer together lose no work.                                    *)
SleepsOnlyWhenDone ==
  pc = "wait" /\ ~signal /\ ~CloseRetry =>
    /\ events = <<>>
    /\ \A s \in Slots : LET q == requests[s] IN q.id # 0 =>
         ~q.cancel /\ IF q.terminal THEN q.observed ELSE q.started
    /\ \A s \in Slots : LET r == resources[s] IN r.id # 0 =>
         ~r.ready /\ ~r.closed /\ r.gapCount = 0 /\ (r.ended => r.endSeen)

(* destroy frees the core only when no driver can reach it any more.        *)
FreedAfterNative ==
  pc = "freed" => held = {} /\ \A s \in Slots : resources[s].id # 0 => resources[s].closed

(* DATA, GAP and END facts tile a stream: each starts where the one before  *)
(* it stopped, so a lost record is always reported, once, at its place.     *)
Contiguous ==
  [][/\ Len(events') < Len(events) /\ Head(events).kind = "data" =>
          Head(events).offset = next[Head(events).handle]
     /\ \A s \in Slots : LET r == resources[s] IN resources'[s].id = r.id =>
          /\ r.gapCount > 0 /\ resources'[s].gapCount = 0 => r.gapOffset = next[r.id]
          /\ ~r.endSeen /\ resources'[s].endSeen => r.endOffset = next[r.id]]_vars

(* A stream fact reaches the guest after its handle's READY and before its  *)
(* END; only a handle whose open failed may leave facts nobody owns.        *)
FactsInsideStream ==
  [][Len(events') < Len(events) =>
       LET h == Head(events).handle
       IN stage[h] = "ready" \/ (stage[h] = "none" /\ OwnerSlots(h) = {})]_vars

(* The facts the guest takes and the requests it made follow WorkerPromise, *)
(* but for facts of a failed open, whose handle the guest never learns.     *)
Promise == INSTANCE WorkerPromise
  WITH next <- [h \in Ids |-> IF stage[h] = "none" THEN 0 ELSE next[h]]
KeepsPromise == Promise!Spec

(* The request table, id by id: ids are fresh and unique; a slot agrees     *)
(* with the driver on who holds the payload and with the guest on whether   *)
(* the request was answered.  The inductive part of the two above.          *)
IdsUnique ==
  \A s, t \in Slots : requests[s].id # 0 /\ requests[s].id = requests[t].id => s = t

IdsFresh ==
  \A q \in Ids : q >= nextId => ownerOf[q] = 0 /\ q \notin ran /\ verdict[q] = "none"

StatusAgrees(q) ==
  q.terminal => /\ q.status = "cancelled" => ~q.started
                /\ q.status = "unknown" => q.started

SlotAgrees(q) ==
  /\ q.id < nextId /\ q.handle = ownerOf[q.id]
  /\ q.started <=> q.id \in ran
  /\ AwaitsNative(q) <=> q.id \in held
  /\ q.observed <=> verdict[q.id] # "none"
  /\ q.observed \/ q.nativeDone => q.terminal
  /\ StatusAgrees(q)

SlotInv ==
  /\ IdsUnique /\ IdsFresh
  /\ \A s \in Slots : requests[s].id # 0 => SlotAgrees(requests[s])

(* The handles: ids are unique, a closing handle has no request left        *)
(* without a verdict, and only a closing one reaches its driver's close.    *)
HandleInv ==
  /\ \A s, t \in Slots : resources[s].id # 0 /\ resources[s].id = resources[t].id => s = t
  /\ \A s \in Slots : resources[s].id < nextId
  /\ \A s, t \in Slots :
       resources[s].closing /\ requests[t].id # 0 /\ requests[t].handle = resources[s].id
         => requests[t].terminal
  /\ pc = "nativeClose" => resources[slot].closing

-----------------------------------------------------------------------------
Gone == stopping \/ pc = "faulted"

(* A request its guest cancelled, or its driver completed, is answered.     *)
AnswersEventually ==
  \A q \in Ids :
    (\E s \in Slots : requests[s].id = q /\ requests[s].terminal)
      ~> (verdict[q] # "none" \/ Gone)

(* A handle its guest closed is reported CLOSED once its driver lets go.    *)
ClosesEventually ==
  \A h \in Ids :
    (\E s \in Slots : resources[s].id = h /\ resources[s].closing)
      ~> (stage[h] = "closed" \/ Gone)

(* A stopped worker is destroyed once its drivers let go.                   *)
StopsEventually == stopping ~> pc = "freed"
=============================================================================
