----------------------------- MODULE WorkerCore -----------------------------
(***************************************************************************)
(* The native core of a PocketJS worker (engine/worker/src/worker.c) and   *)
(* the loop of its owner task (runner.c, pocket_worker_quickjs_step).      *)
(*                                                                         *)
(* One owner task opens resources, submits requests, calls the drivers and *)
(* copies facts into the guest's turn.  Producers on other tasks complete  *)
(* requests and feed streams.  They share three fixed tables under one     *)
(* lock, which the owner drops around every driver call.                   *)
(***************************************************************************)
EXTENDS Naturals, Sequences, FiniteSets

CONSTANTS
  TableSize,   (* POCKET_WORKER_MAX_RESOURCES = POCKET_WORKER_MAX_REQUESTS  *)
  MaxEvents,   (* POCKET_WORKER_MAX_EVENTS                                  *)
  IntMax,      (* INT_MAX: the id counter stops here                        *)
  FactRoom,    (* max_facts of one observe                                  *)
  ByteRoom,    (* max_bytes of one observe, in full payloads                *)
  MaxOffset,   (* bound: the records one driver sends or loses per stream   *)
  Env          (* bound: what the environment may do in this instance       *)

ASSUME SizesAssumption ==
  /\ TableSize \in Nat \ {0}
  /\ MaxEvents \in Nat \ {0}
  /\ IntMax \in Nat \ {0}
  /\ FactRoom \in Nat \ {0}
  /\ ByteRoom \in Nat \ {0}
  /\ MaxOffset \in Nat
  /\ Env \subseteq {"stop", "fault", "refuse", "gap", "head", "clip", "timers"}

Slots == 0 .. TableSize - 1
Ids == 1 .. IntMax - 1
Offsets == 0 .. MaxOffset

VARIABLES
  resources, requests,      (* the two slot tables                          *)
  events,                   (* the event ring, oldest first                 *)
  nextId, shuttingDown,
  pc, slot,                 (* where the owner task is                      *)
  visit, room, bytes,       (* the observe in progress, and what room is left *)
  observePhase, observeIndex,
  stopping, signal,         (* runner: stop requested, wake pending         *)
  held, sent,               (* drivers: payloads borrowed, stream offsets   *)
  ownerOf, ran, finished,   (* history: handle of a request, started, finish*)
  stage, next, verdict      (* guest: what the observed facts told it       *)

core   == <<resources, requests, events, nextId, shuttingDown>>
cursor == <<slot, visit, room, bytes, observePhase, observeIndex>>
runner == <<stopping, signal>>
driver == <<held, sent>>
ledger == <<ownerOf, ran, finished>>
guest  == <<stage, next, verdict>>
vars   == <<core, pc, cursor, runner, driver, ledger, guest>>

-----------------------------------------------------------------------------
(* The slots.  id 0 is a free slot; a free slot is all zero (memset).       *)

NoResource == [id |-> 0, ready |-> FALSE, closing |-> FALSE, closed |-> FALSE,
               ended |-> FALSE, endSeen |-> FALSE, endOffset |-> 0,
               gapOffset |-> 0, gapCount |-> 0]

NoRequest == [id |-> 0, handle |-> 0, started |-> FALSE, nativeDone |-> FALSE,
              terminal |-> FALSE, observed |-> FALSE, cancel |-> FALSE,
              afterEnd |-> FALSE, status |-> "done"]

Statuses == {"done", "unknown", "cancelled"}
EventKinds == {"head", "data"}   (* head: HEADERS, ERROR and CREDIT        *)

(* The scan for a free slot stops at s.                                     *)
FirstFree(table, s) ==
  table[s].id = 0 /\ \A t \in 0 .. s - 1 : table[t].id # 0

(* find_resource: the slots (one at most) that hold handle h.               *)
OwnerSlots(h) == {s \in Slots : h # 0 /\ resources[s].id = h}

(* Slip: a slot freed as soon as the guest saw its verdict.                 *)
ReclaimObserved(q) == IF q.observed THEN NoRequest ELSE q

(* reclaim: a request leaves its slot once native code and guest are done.  *)
Reclaim(q) == IF q.nativeDone /\ q.observed THEN NoRequest ELSE q

(* Slip: cancel reports a running request as cancelled too.                 *)
AbandonCancelled(q) == [q EXCEPT !.terminal = TRUE, !.status = "cancelled",
                                 !.cancel = @ \/ q.started,
                                 !.nativeDone = @ \/ ~q.started]

(* The verdict cancel and close give a request that has none yet.           *)
Abandon(q) == [q EXCEPT !.terminal = TRUE,
                        !.status = IF q.started THEN "unknown" ELSE "cancelled",
                        !.cancel = @ \/ q.started,
                        !.nativeDone = @ \/ ~q.started]

(* The native end of a request: the first terminal status stands.           *)
Conclude(q, status, afterEnd) ==
  Reclaim([q EXCEPT !.nativeDone = TRUE,
                    !.terminal = TRUE,
                    !.status = IF q.terminal THEN @ ELSE status,
                    !.afterEnd = IF q.terminal THEN @ ELSE afterEnd])

AwaitsNative(q) == q.id # 0 /\ q.started /\ ~q.nativeDone

(* Slip: close ends the requests and forgets the handle.                    *)
CloseRequestsOnly(h) ==
  /\ UNCHANGED resources
  /\ requests' = [s \in Slots |->
       LET q == requests[s]
       IN IF q.id # 0 /\ q.handle = h /\ ~q.terminal THEN Abandon(q) ELSE q]

CloseHandle(h) ==
  /\ resources' = [s \in Slots |->
       IF resources[s].id = h THEN [resources[s] EXCEPT !.closing = TRUE]
                              ELSE resources[s]]
  /\ requests' = [s \in Slots |->
       LET q == requests[s]
       IN IF q.id # 0 /\ q.handle = h /\ ~q.terminal THEN Abandon(q) ELSE q]

(* Slip: a call that changes the tables without waking the owner.           *)
NoWake == UNCHANGED signal
Wake == signal' = TRUE
-----------------------------------------------------------------------------
Init ==
  /\ resources = [s \in Slots |-> NoResource]
  /\ requests = [s \in Slots |-> NoRequest]
  /\ events = <<>>
  /\ nextId = 1
  /\ shuttingDown = FALSE
  /\ pc = "turn" /\ slot = 0 /\ visit = 0 /\ room = 0 /\ bytes = 0
  /\ observePhase = 0 /\ observeIndex = 0
  /\ stopping = FALSE /\ signal = FALSE
  /\ held = {} /\ sent = [h \in Ids |-> 0]
  /\ ownerOf = [q \in Ids |-> 0] /\ ran = {} /\ finished = {}
  /\ stage = [h \in Ids |-> "none"]
  /\ next = [h \in Ids |-> 0]
  /\ verdict = [q \in Ids |-> "none"]

-----------------------------------------------------------------------------
(* The guest's turn: JS calls into the core on the owner task.              *)

(* open reserves a slot under the lock, then calls the driver without it.   *)
OpenReserve(s) ==
  /\ pc = "turn" /\ ~shuttingDown
  /\ FirstFree(resources, s) /\ nextId < IntMax
  /\ resources' = [resources EXCEPT ![s] = [NoResource EXCEPT !.id = nextId]]
  /\ slot' = s
  /\ nextId' = nextId + 1
  /\ pc' = "opening"
  /\ UNCHANGED <<requests, events, shuttingDown, visit, room, bytes, observePhase,
                 observeIndex, runner, driver, ledger, guest>>

OpenReturn(ok) ==
  /\ pc = "opening" /\ (ok \/ "refuse" \in Env)
  /\ resources' = [resources EXCEPT ![slot] =
                     IF ok THEN [@ EXCEPT !.ready = TRUE] ELSE NoResource]
  /\ slot' = 0
  /\ pc' = "turn"
  /\ Wake
  /\ UNCHANGED <<requests, events, nextId, shuttingDown, visit, room, bytes,
                 observePhase, observeIndex, stopping, driver, ledger, guest>>

(* submit: the driver's validate, when it accepts, changes nothing.         *)
Submit(r, s) ==
  /\ pc = "turn" /\ ~shuttingDown
  /\ resources[r].id # 0 /\ ~resources[r].closing
  /\ FirstFree(requests, s) /\ nextId < IntMax
  /\ requests' = [requests EXCEPT ![s] =
       [NoRequest EXCEPT !.id = nextId, !.handle = resources[r].id]]
  /\ ownerOf' = [ownerOf EXCEPT ![nextId] = resources[r].id]
  /\ nextId' = nextId + 1
  /\ Wake
  /\ UNCHANGED <<resources, events, shuttingDown, pc, cursor, stopping, driver,
                 ran, finished, guest>>

Cancel(s) ==
  /\ pc = "turn"
  /\ requests[s].id # 0 /\ ~requests[s].terminal
  /\ requests' = [requests EXCEPT ![s] = Abandon(@)]
  /\ Wake
  /\ UNCHANGED <<resources, events, nextId, shuttingDown, pc, cursor, stopping,
                 driver, ledger, guest>>

Close(r) ==
  /\ pc = "turn"
  /\ resources[r].id # 0
  /\ CloseHandle(resources[r].id)
  /\ Wake
  /\ UNCHANGED <<events, nextId, shuttingDown, pc, cursor, stopping, driver,
                 ledger, guest>>

(* The turn returns; the loop tests stopping before the next step.          *)
TurnEnd ==
  /\ pc = "turn"
  /\ pc' = IF stopping THEN "shutdown" ELSE "dispatch"
  /\ slot' = 0
  /\ UNCHANGED <<core, visit, room, bytes, observePhase, observeIndex, runner,
                 driver, ledger, guest>>

(* A faulted realm runs no turn; its core waits for stop.                   *)
TurnFault ==
  /\ pc = "turn" /\ ~stopping /\ "fault" \in Env
  /\ pc' = "faulted"
  /\ UNCHANGED <<core, cursor, runner, driver, ledger, guest>>

Stop ==
  /\ ~stopping /\ "stop" \in Env
  /\ stopping' = TRUE
  /\ Wake
  /\ UNCHANGED <<core, pc, cursor, driver, ledger, guest>>

-----------------------------------------------------------------------------
(* dispatch: every request slot, then every resource slot.                  *)

NextSlot(at, after) ==
  IF slot + 1 < TableSize THEN slot' = slot + 1 /\ pc' = at
                          ELSE slot' = 0 /\ pc' = after

DispatchRequest ==
  LET q == requests[slot]
      starts == /\ q.id # 0 /\ ~q.started /\ ~q.terminal
                /\ \E r \in OwnerSlots(q.handle) : ~resources[r].closing
  IN /\ pc = "dispatch"
     /\ requests' = [requests EXCEPT ![slot].cancel = FALSE,
                                     ![slot].started = @ \/ starts]
     /\ IF starts
        THEN /\ held' = held \cup {q.id}
             /\ ran' = ran \cup {q.id}
             /\ pc' = "starting"
             /\ UNCHANGED slot
        ELSE NextSlot("dispatch", "sweep") /\ UNCHANGED <<held, ran>>
     /\ UNCHANGED <<resources, events, nextId, shuttingDown, visit, room, bytes,
                    observePhase, observeIndex, runner, sent, ownerOf, finished,
                    guest>>

(* The driver's start returns.  A failure completes the request unless the  *)
(* driver completed it during the call.                                     *)
StartReturn(ok) ==
  LET q == requests[slot]
  IN /\ pc = "starting" /\ (ok \/ "refuse" \in Env)
     /\ IF ~ok /\ AwaitsNative(q)
        THEN /\ requests' = [requests EXCEPT ![slot] = Conclude(q, "done", FALSE)]
             /\ held' = held \ {q.id}
             /\ Wake
        ELSE UNCHANGED <<requests, held, signal>>
     /\ NextSlot("dispatch", "sweep")
     /\ UNCHANGED <<resources, events, nextId, shuttingDown, visit, room, bytes,
                    observePhase, observeIndex, stopping, sent, ledger, guest>>

(* After the last resource the owner observes; in destroy it checks.        *)
AfterSweep == IF shuttingDown THEN "check" ELSE "observe"

SweepResource ==
  LET r == resources[slot]
  IN /\ pc = "sweep"
     /\ IF r.id # 0 /\ r.closing /\ ~r.closed
        THEN pc' = "nativeClose" /\ UNCHANGED slot
        ELSE NextSlot("sweep", AfterSweep)
     /\ IF pc' = "observe"
        THEN room' = FactRoom /\ bytes' = ByteRoom
        ELSE UNCHANGED <<room, bytes>>
     /\ UNCHANGED <<core, visit, observePhase, observeIndex, runner, driver,
                    ledger, guest>>

(* The driver's close returns: OK once it makes no more native accesses,    *)
(* BUSY before.  OK gives every request of the handle back.                 *)
NativeClose(s, ok) ==
  LET h == resources[slot].id
  IN /\ pc = "nativeClose" /\ slot = s
     /\ IF ok
        THEN /\ resources' = [resources EXCEPT ![slot].closed = TRUE]
             /\ requests' = [t \in Slots |->
                  LET q == requests[t]
                  IN IF q.id # 0 /\ q.handle = h
                     THEN Reclaim([q EXCEPT !.nativeDone = TRUE]) ELSE q]
             /\ held' = {q \in held : ownerOf[q] # h}
             /\ Wake
        ELSE UNCHANGED <<resources, requests, held, signal>>
     /\ NextSlot("sweep", AfterSweep)
     /\ IF pc' = "observe"
        THEN room' = FactRoom /\ bytes' = ByteRoom
        ELSE UNCHANGED <<room, bytes>>
     /\ UNCHANGED <<events, nextId, shuttingDown, visit, observePhase,
                    observeIndex, stopping, sent, ledger, guest>>

-----------------------------------------------------------------------------
(* observe: one call under the lock, in steps of one fact.  It visits the   *)
(* slots of six source groups, from a group and a slot that rotate with     *)
(* every call; a visit that copies nothing is passed over.                  *)

LastVisit == 6 * TableSize - 1
Group(v) == (observePhase + v \div TableSize) % 6
SlotAt(v) == ((v % TableSize) + observeIndex) % TableSize

(* copy_fact: a fact needs a place and its payload bytes.                   *)
Fits(payload) == room > 0 /\ bytes >= payload
Copy(payload) == room' = room - 1 /\ bytes' = bytes - payload

Payload(q) == IF q.status = "done" /\ ~q.afterEnd THEN 1 ELSE 0

CanReady(r) == r.id # 0 /\ r.ready /\ Fits(0)

CanComplete(q) ==
  /\ q.id # 0 /\ q.terminal /\ ~q.observed
  /\ \E r \in OwnerSlots(q.handle) :
       ~resources[r].ready /\ (q.afterEnd => resources[r].endSeen)
  /\ Fits(Payload(q))

(* Slip: events pass their handle's READY.                                  *)
CanEventEarly == events # <<>> /\ Fits(1)

CanEvent ==
  /\ events # <<>>
  /\ \A r \in OwnerSlots(Head(events).handle) : ~resources[r].ready
  /\ Fits(1)

(* Slip: gaps and ends pass the queued events.                              *)
NotDrained(r) == r.id # 0 /\ ~r.ready

(* Queued events precede gaps and stream terminals.                         *)
Drained(r) == events = <<>> /\ r.id # 0 /\ ~r.ready
CanGap(r) == Drained(r) /\ r.gapCount > 0 /\ Fits(0)
CanEnd(r) == Drained(r) /\ r.gapCount = 0 /\ r.ended /\ ~r.endSeen /\ Fits(0)
(* Slip: CLOSED passes the verdicts of the handle's requests.               *)
CanClosedEarly(r) == Drained(r) /\ r.gapCount = 0 /\ r.closed
                     /\ (r.ended => r.endSeen) /\ Fits(0)
CanClosed(r) == /\ Drained(r) /\ r.gapCount = 0 /\ r.closed
                /\ r.ended => r.endSeen
                /\ \A s \in Slots : requests[s].id # 0 => requests[s].handle # r.id
                /\ Fits(0)

Copies(v) ==
  LET r == resources[SlotAt(v)]
  IN \/ Group(v) = 0 /\ CanReady(r)
     \/ Group(v) = 1 /\ CanComplete(requests[SlotAt(v)])
     \/ Group(v) = 2 /\ CanEvent
     \/ Group(v) = 3 /\ (CanGap(r) \/ CanEnd(r) \/ CanClosed(r))
     \/ Group(v) \in {4, 5}

(* The next visit that copies a fact is v, in this group.                   *)
Visits(v, group) ==
  /\ pc = "observe"
  /\ v \in visit .. LastVisit /\ Group(v) = group
  /\ Copies(v) /\ \A u \in visit .. v - 1 : ~Copies(u)
  /\ visit' = v

ObserveReady(v) ==
  LET r == resources[SlotAt(v)]
  IN /\ Visits(v, 0)
     /\ resources' = [resources EXCEPT ![SlotAt(v)].ready = FALSE]
     /\ stage' = [stage EXCEPT ![r.id] = "ready"]
     /\ Copy(0)
     /\ UNCHANGED <<requests, events, nextId, shuttingDown, pc, slot, observePhase,
                    observeIndex, runner, driver, ledger, next, verdict>>

ObserveComplete(v) ==
  LET q == requests[SlotAt(v)]
  IN /\ Visits(v, 1)
     /\ requests' = [requests EXCEPT ![SlotAt(v)] = Reclaim([q EXCEPT !.observed = TRUE])]
     /\ verdict' = [verdict EXCEPT ![q.id] = IF @ = "none" THEN q.status ELSE "twice"]
     /\ Copy(Payload(q))
     /\ UNCHANGED <<resources, events, nextId, shuttingDown, pc, slot, observePhase,
                    observeIndex, runner, driver, ledger, stage, next>>

(* A data record is taken at its offset; the guest then expects the next.   *)
ObserveEvent(v) ==
  LET e == Head(events)
  IN /\ Visits(v, 2)
     /\ events' = Tail(events)
     /\ next' = IF e.kind = "data" THEN [next EXCEPT ![e.handle] = e.offset + 1]
                                   ELSE next
     /\ Copy(1)
     /\ UNCHANGED <<resources, requests, nextId, shuttingDown, pc, slot,
                    observePhase, observeIndex, runner, driver, ledger, stage,
                    verdict>>

ObserveGap(v) ==
  LET r == resources[SlotAt(v)]
  IN /\ Visits(v, 3) /\ CanGap(r)
     /\ resources' = [resources EXCEPT ![SlotAt(v)].gapCount = 0]
     /\ next' = [next EXCEPT ![r.id] = r.gapOffset + r.gapCount]
     /\ Copy(0)
     /\ UNCHANGED <<requests, events, nextId, shuttingDown, pc, slot,
                    observePhase, observeIndex, runner, driver, ledger, stage,
                    verdict>>

ObserveEnd(v) ==
  LET r == resources[SlotAt(v)]
  IN /\ Visits(v, 3) /\ CanEnd(r)
     /\ resources' = [resources EXCEPT ![SlotAt(v)].endSeen = TRUE]
     /\ stage' = [stage EXCEPT ![r.id] = "ended"]
     /\ Copy(0)
     /\ UNCHANGED <<requests, events, nextId, shuttingDown, pc, slot,
                    observePhase, observeIndex, runner, driver, ledger, next,
                    verdict>>

ObserveClosed(v) ==
  LET r == resources[SlotAt(v)]
  IN /\ Visits(v, 3) /\ CanClosed(r)
     /\ resources' = [resources EXCEPT ![SlotAt(v)] = NoResource]
     /\ stage' = [stage EXCEPT ![r.id] = "closed"]
     /\ Copy(0)
     /\ UNCHANGED <<requests, events, nextId, shuttingDown, pc, slot,
                    observePhase, observeIndex, runner, driver, ledger, next,
                    verdict>>

(* Timers and inbox channels, which this module leaves out, take any share  *)
(* of the room.                                                             *)
ObserveOther(v) ==
  /\ pc = "observe"
  /\ v \in visit .. LastVisit /\ Group(v) \in {4, 5}
  /\ \A u \in visit .. v - 1 : ~Copies(u)
  /\ visit' = (v \div TableSize + 1) * TableSize
  /\ room' \in IF "timers" \in Env THEN 0 .. room ELSE {room}
  /\ bytes' \in IF room' < room THEN 0 .. bytes ELSE {bytes}
  /\ UNCHANGED <<core, pc, slot, observePhase, observeIndex, runner, driver, ledger,
                 guest>>

(* The step calls the turn when it took a fact or a promise job is left.    *)
ObserveReturn ==
  /\ pc = "observe"
  /\ \A v \in visit .. LastVisit : ~Copies(v)
  /\ pc' \in {"turn"} \cup (IF room = FactRoom THEN {"idle"} ELSE {})
  /\ visit' = 0 /\ room' = 0 /\ bytes' = 0
  /\ observePhase' = (observePhase + 1) % 6
  /\ observeIndex' = (observeIndex + 1) % TableSize
  /\ UNCHANGED <<core, slot, runner, driver, ledger, guest>>

-----------------------------------------------------------------------------
(* The runner between steps, and after stop.                                *)

(* pocket_worker_pending; a due close retry is pocket_worker_deadline's.    *)
Pending ==
  \/ events # <<>>
  \/ \E s \in Slots : LET r == resources[s]
       IN r.id # 0 /\ (r.ready \/ r.closed \/ r.gapCount > 0 \/ (r.ended /\ ~r.endSeen))
  \/ \E s \in Slots : LET q == requests[s]
       IN q.id # 0 /\ ((~q.terminal /\ ~q.started) \/ (q.terminal /\ ~q.observed)
                       \/ q.cancel)

(* Slip: the deadline forgets the close retry.                              *)
NoCloseRetry == FALSE

CloseRetry == \E s \in Slots : LET r == resources[s]
                IN r.id # 0 /\ r.closing /\ ~r.closed

Idle ==
  /\ pc = "idle"
  /\ pc' = IF Pending THEN (IF stopping THEN "shutdown" ELSE "dispatch") ELSE "wait"
  /\ UNCHANGED <<core, cursor, runner, driver, ledger, guest>>

(* wait returns on a wake, also one that came before it, or at a deadline:  *)
(* the close retry's, or a timer's that this module leaves out.             *)
WaitEnd(timer) ==
  /\ pc = "wait"
  /\ signal \/ CloseRetry \/ timer
  /\ signal' = FALSE
  /\ pc' = IF stopping THEN "shutdown" ELSE "dispatch"
  /\ UNCHANGED <<core, cursor, stopping, driver, ledger, guest>>

FaultedEnd ==
  /\ pc = "faulted" /\ stopping
  /\ pc' = "shutdown"
  /\ UNCHANGED <<core, cursor, runner, driver, ledger, guest>>

(* pocket_worker_destroy: close every handle, dispatch, check; while a      *)
(* driver is busy the runner tries again.                                   *)
Shutdown ==
  /\ pc = "shutdown"
  /\ shuttingDown' = TRUE
  /\ IF resources[slot].id # 0
     THEN CloseHandle(resources[slot].id) /\ Wake
     ELSE UNCHANGED <<resources, requests, signal>>
  /\ NextSlot("shutdown", "dispatch")
  /\ UNCHANGED <<events, nextId, visit, room, bytes, observePhase, observeIndex,
                 stopping, driver, ledger, guest>>

(* Slip: destroy frees the core without waiting for the drivers.            *)
DestroyAnyway ==
  /\ pc = "check"
  /\ pc' = "freed"
  /\ UNCHANGED <<core, cursor, runner, driver, ledger, guest>>

DestroyCheck ==
  /\ pc = "check"
  /\ pc' = IF \E s \in Slots : resources[s].id # 0 /\ ~resources[s].closed
           THEN "shutdown" ELSE "freed"
  /\ UNCHANGED <<core, cursor, runner, driver, ledger, guest>>

-----------------------------------------------------------------------------
(* Producers, on the drivers' tasks.  Calls with a stale id, or refused,    *)
(* change nothing.                                                          *)

Unlocked == pc # "observe" /\ pc # "freed"

(* A result above the request's capacity is dropped and its status unknown. *)
Complete(s, status) ==
  LET q == requests[s]
  IN /\ Unlocked /\ AwaitsNative(q)
     /\ status = "unknown" => "clip" \in Env
     /\ requests' = [requests EXCEPT ![s] = Conclude(q, status, FALSE)]
     /\ held' = held \ {q.id}
     /\ Wake
     /\ UNCHANGED <<resources, events, nextId, shuttingDown, pc, cursor, stopping,
                    sent, ledger, guest>>

Finish(r, s) ==
  LET q == requests[s]
      h == resources[r].id
  IN /\ Unlocked /\ AwaitsNative(q) /\ h # 0 /\ q.handle = h /\ ~resources[r].ended
     /\ resources' = [resources EXCEPT ![r].ended = TRUE, ![r].endOffset = sent[h]]
     /\ requests' = [requests EXCEPT ![s] = Conclude(q, "done", TRUE)]
     /\ held' = held \ {q.id}
     /\ finished' = IF q.terminal THEN finished ELSE finished \cup {q.id}
     /\ Wake
     /\ UNCHANGED <<events, nextId, shuttingDown, pc, cursor, stopping, sent,
                    ownerOf, ran, guest>>

(* Slip: DATA is admitted while a gap waits.                                *)
GapNeverBlocks(r) == FALSE

(* Admission of DATA stays closed while a gap awaits observation.           *)
GapBlocks(r) == r.gapCount > 0
(* Slip: the ring's bound is off by one.                                    *)
RingOverfull == Len(events) = MaxEvents + 1
RingFull == Len(events) = MaxEvents

Emit(r, kind) ==
  LET h == resources[r].id
  IN /\ Unlocked /\ h # 0 /\ ~resources[r].closing /\ ~resources[r].ended
     /\ IF kind = "data" THEN ~GapBlocks(resources[r]) /\ sent[h] < MaxOffset
                         ELSE "head" \in Env
     /\ ~RingFull
     /\ events' = Append(events, [handle |-> h, kind |-> kind, offset |-> sent[h]])
     /\ sent' = IF kind = "data" THEN [sent EXCEPT ![h] = @ + 1] ELSE sent
     /\ Wake
     /\ UNCHANGED <<resources, requests, nextId, shuttingDown, pc, cursor, stopping,
                    held, ledger, guest>>

End(r) ==
  LET h == resources[r].id
  IN /\ Unlocked /\ h # 0 /\ ~resources[r].ended /\ ~resources[r].closed
     /\ resources' = [resources EXCEPT ![r].ended = TRUE, ![r].endOffset = sent[h]]
     /\ Wake
     /\ UNCHANGED <<requests, events, nextId, shuttingDown, pc, cursor, stopping,
                    driver, ledger, guest>>

(* An uncontrolled driver lost the record at its offset.  A driver that     *)
(* ended its stream loses nothing more.                                     *)
Gap(r) ==
  LET h == resources[r].id
  IN /\ Unlocked /\ h # 0 /\ ~resources[r].closing
     /\ "gap" \in Env /\ ~resources[r].ended /\ sent[h] < MaxOffset
     /\ resources' = [resources EXCEPT
          ![r].gapOffset = IF resources[r].gapCount = 0 THEN sent[h] ELSE @,
          ![r].gapCount = @ + 1]
     /\ sent' = [sent EXCEPT ![h] = @ + 1]
     /\ Wake
     /\ UNCHANGED <<requests, events, nextId, shuttingDown, pc, cursor, stopping,
                    held, ledger, guest>>

(* A destroyed core has no next step.                                       *)
Freed == pc = "freed" /\ UNCHANGED vars
-----------------------------------------------------------------------------
Guest ==
  \/ \E s \in Slots : OpenReserve(s) \/ Cancel(s) \/ Close(s)
  \/ \E r, s \in Slots : Submit(r, s)
  \/ TurnFault

Producers ==
  \/ \E s \in Slots : \E status \in {"done", "unknown"} : Complete(s, status)
  \/ \E r, s \in Slots : Finish(r, s)
  \/ \E r \in Slots : (\E kind \in EventKinds : Emit(r, kind)) \/ End(r) \/ Gap(r)

Observe ==
  \/ \E v \in 0 .. LastVisit :
       \/ ObserveReady(v) \/ ObserveComplete(v) \/ ObserveEvent(v)
       \/ ObserveGap(v) \/ ObserveEnd(v) \/ ObserveClosed(v) \/ ObserveOther(v)
  \/ ObserveReturn

Loop ==
  \/ TurnEnd \/ DispatchRequest \/ SweepResource \/ Observe
  \/ \E ok \in BOOLEAN : OpenReturn(ok) \/ StartReturn(ok)
  \/ Idle \/ WaitEnd(FALSE) \/ FaultedEnd \/ Shutdown \/ DestroyCheck

Next ==
  \/ Guest \/ Loop \/ Producers
  \/ \E s \in Slots : \E ok \in BOOLEAN : NativeClose(s, ok)
  \/ WaitEnd(TRUE) \/ Stop \/ Freed

Spec == Init /\ [][Next]_vars

(* The owner task keeps running, every driver call returns, and a driver    *)
(* asked to close again and again is done with the handle at last.          *)
Fairness ==
  /\ WF_vars(Loop)
  /\ WF_vars(\E s \in Slots : \E ok \in BOOLEAN : NativeClose(s, ok))
  /\ \A s \in Slots : SF_vars(NativeClose(s, TRUE))

FairSpec == Spec /\ Fairness
=============================================================================
