-------------------------- MODULE WorkerCoreProofs --------------------------
(***************************************************************************)
(* Proofs about WorkerCore for tables, rings and ids of any size: first the*)
(* types, the requests and the rings; then what a guest is told of its     *)
(* handles: the facts of a stream tile it and stay inside it, the runner   *)
(* sleeps only when nothing is left to do, destroy frees nothing a driver  *)
(* may reach, and the core keeps WorkerPromise.                            *)
(***************************************************************************)
EXTENDS WorkerCoreProperties, SequenceTheorems, TLAPS

(* Freeing a finished request's slot leaves a request record. *)
LEMMA ReclaimType ==
  ASSUME NEW q \in Request
  PROVE  Reclaim(q) \in Request
  BY SizesAssumption DEF Reclaim, NoRequest, Request, Statuses, Ids

(* So does the verdict of cancel and close. *)
LEMMA AbandonType ==
  ASSUME NEW q \in Request
  PROVE  Abandon(q) \in Request
  BY DEF Abandon, Request, Statuses

(* So does a native completion, with any status. *)
LEMMA ConcludeType ==
  ASSUME NEW q \in Request, NEW status \in Statuses, NEW afterEnd \in BOOLEAN
  PROVE  Conclude(q, status, afterEnd) \in Request
  <1> DEFINE p == [q EXCEPT !.nativeDone = TRUE, !.terminal = TRUE,
                            !.status = IF q.terminal THEN @ ELSE status,
                            !.afterEnd = IF q.terminal THEN @ ELSE afterEnd]
  <1>1. p \in Request BY DEF Request, Statuses
  <1> QED BY <1>1, ReclaimType DEF Conclude

(* The all-zero slots are records of their tables. *)
LEMMA FreshTypes == NoRequest \in Request /\ NoResource \in Resource
  BY SizesAssumption DEF NoRequest, NoResource, Request, Resource, Statuses, Ids

(* The rotated index of every visit is a slot. *)
LEMMA SlotAtType ==
  ASSUME NEW v \in Nat, observeIndex \in Slots
  PROVE  SlotAt(v) \in Slots
  BY SizesAssumption DEF SlotAt, Slots

(* Closing any handle keeps the shape of both tables. *)
LEMMA CloseHandleType ==
  ASSUME NEW h, resources \in [Slots -> Resource], requests \in [Slots -> Request],
         CloseHandle(h)
  PROVE  resources' \in [Slots -> Resource] /\ requests' \in [Slots -> Request]
  <1>1. \A s \in Slots : [resources[s] EXCEPT !.closing = TRUE] \in Resource
    BY DEF Resource
  <1> QED BY <1>1, AbandonType DEF CloseHandle

(* A created core has the types. *)
LEMMA TypeInit == Init => TypeOK
  <1> SUFFICES ASSUME Init PROVE TypeOK
    OBVIOUS
  <1>1. 0 \in Slots /\ 1 \in 1 .. IntMax
    BY SizesAssumption DEF Slots
  <1>2. TablesOK
    BY <1>1, FreshTypes, SizesAssumption DEF Init, TablesOK
  <1>3. LoopOK
    <2>1. /\ pc = "turn" /\ slot = 0 /\ visit = 0 /\ room = 0 /\ bytes = 0
          /\ observePhase = 0 /\ observeIndex = 0
          /\ shuttingDown = FALSE /\ stopping = FALSE /\ signal = FALSE
      BY DEF Init
    <2>2. pc \in Places
      BY <2>1 DEF Places
    <2>3. 0 \in Nat /\ 0 \in 0 .. FactRoom /\ 0 \in 0 .. ByteRoom /\ 0 \in 0 .. 5
      BY SizesAssumption
    <2> QED BY <1>1, <2>1, <2>2, <2>3 DEF LoopOK
  <1>4. HistoryOK
    BY DEF Init, HistoryOK
  <1> QED
    BY <1>2, <1>3, <1>4 DEF TypeOK

(* The guest's calls. *)

(* open: the new handle takes an id below INT_MAX and a free slot. *)
LEMMA OpenReserveType ==
  ASSUME TypeOK, NEW s \in Slots, OpenReserve(s)
  PROVE  TypeOK'
  <1>1. nextId + 1 \in 1 .. IntMax /\ nextId \in Ids
    BY SizesAssumption DEF OpenReserve, TypeOK, TablesOK, Ids
  <1>2. [NoResource EXCEPT !.id = nextId] \in Resource
    BY <1>1, FreshTypes DEF Resource, NoResource
  <1>3. TablesOK'
    BY <1>1, <1>2 DEF OpenReserve, TypeOK, TablesOK
  <1>4. LoopOK'
    BY DEF OpenReserve, TypeOK, LoopOK, Places, runner
  <1>5. HistoryOK'
    BY DEF OpenReserve, TypeOK, HistoryOK, driver, ledger, guest
  <1> QED BY <1>3, <1>4, <1>5 DEF TypeOK

(* open: the driver's answer marks the slot READY or frees it. *)
LEMMA OpenReturnType ==
  ASSUME TypeOK, NEW ok \in BOOLEAN, OpenReturn(ok)
  PROVE  TypeOK'
  <1>1. [resources[slot] EXCEPT !.ready = TRUE] \in Resource
    BY DEF TypeOK, TablesOK, LoopOK, Resource
  <1>2. TablesOK'
    BY <1>1, FreshTypes DEF OpenReturn, TypeOK, TablesOK
  <1>3. LoopOK'
    BY SizesAssumption DEF OpenReturn, TypeOK, LoopOK, Places, Wake, Slots
  <1>4. HistoryOK'
    BY DEF OpenReturn, TypeOK, HistoryOK, driver, ledger, guest
  <1> QED BY <1>2, <1>3, <1>4 DEF TypeOK

(* submit keeps the types. *)
LEMMA SubmitType ==
  ASSUME TypeOK, NEW r \in Slots, NEW s \in Slots, Submit(r, s)
  PROVE  TypeOK'
  <1>1. nextId + 1 \in 1 .. IntMax /\ nextId \in Ids
    BY SizesAssumption DEF Submit, TypeOK, TablesOK, Ids
  <1>2. resources[r].id \in Ids
    BY DEF Submit, TypeOK, TablesOK, Resource
  <1>3. [NoRequest EXCEPT !.id = nextId, !.handle = resources[r].id] \in Request
    BY <1>1, <1>2, FreshTypes DEF Request, NoRequest
  <1>4. TablesOK'
    BY <1>1, <1>3 DEF Submit, TypeOK, TablesOK
  <1>5. LoopOK'
    BY DEF Submit, TypeOK, LoopOK, Wake, cursor
  <1>6. HistoryOK'
    BY <1>2 DEF Submit, TypeOK, HistoryOK, driver, guest
  <1> QED BY <1>4, <1>5, <1>6 DEF TypeOK

(* cancel keeps the types. *)
LEMMA CancelType ==
  ASSUME TypeOK, NEW s \in Slots, Cancel(s)
  PROVE  TypeOK'
  <1>1. TablesOK'
    BY AbandonType DEF Cancel, TypeOK, TablesOK
  <1>2. LoopOK'
    BY DEF Cancel, TypeOK, LoopOK, Wake, cursor
  <1>3. HistoryOK'
    BY DEF Cancel, TypeOK, HistoryOK, driver, ledger, guest
  <1> QED BY <1>1, <1>2, <1>3 DEF TypeOK

(* close keeps the types. *)
LEMMA CloseType ==
  ASSUME TypeOK, NEW r \in Slots, Close(r)
  PROVE  TypeOK'
  <1>1. TablesOK'
    BY CloseHandleType DEF Close, TypeOK, TablesOK
  <1>2. LoopOK'
    BY DEF Close, TypeOK, LoopOK, Wake, cursor
  <1>3. HistoryOK'
    BY DEF Close, TypeOK, HistoryOK, driver, ledger, guest
  <1> QED BY <1>1, <1>2, <1>3 DEF TypeOK

(* The owner's loop outside observe. *)

(* The end of a turn keeps the types. *)
LEMMA TurnEndType ==
  ASSUME TypeOK, TurnEnd
  PROVE  TypeOK'
  <1>1. TablesOK'
    BY DEF TurnEnd, TypeOK, TablesOK, core
  <1>2. LoopOK'
    BY SizesAssumption DEF TurnEnd, TypeOK, LoopOK, Places, runner, Slots, core
  <1>3. HistoryOK'
    BY DEF TurnEnd, TypeOK, HistoryOK, driver, ledger, guest
  <1> QED BY <1>1, <1>2, <1>3 DEF TypeOK

(* A realm fault keeps the types. *)
LEMMA TurnFaultType ==
  ASSUME TypeOK, TurnFault
  PROVE  TypeOK'
  <1>1. TablesOK'
    BY DEF TurnFault, TypeOK, TablesOK, core
  <1>2. LoopOK'
    BY DEF TurnFault, TypeOK, LoopOK, Places, runner, cursor, core
  <1>3. HistoryOK'
    BY DEF TurnFault, TypeOK, HistoryOK, driver, ledger, guest
  <1> QED BY <1>1, <1>2, <1>3 DEF TypeOK

(* A stop request keeps the types. *)
LEMMA StopType ==
  ASSUME TypeOK, Stop
  PROVE  TypeOK'
  <1>1. TablesOK'
    BY DEF Stop, TypeOK, TablesOK, core
  <1>2. LoopOK'
    BY DEF Stop, TypeOK, LoopOK, Places, Wake, cursor, core
  <1>3. HistoryOK'
    BY DEF Stop, TypeOK, HistoryOK, driver, ledger, guest
  <1> QED BY <1>1, <1>2, <1>3 DEF TypeOK

(* The dispatch scan stays inside the tables. *)
LEMMA NextSlotType ==
  ASSUME slot \in Slots, NEW at \in Places, NEW after \in Places, NextSlot(at, after)
  PROVE  slot' \in Slots /\ pc' \in Places
  BY SizesAssumption DEF NextSlot, Slots

(* Starting or passing over a request keeps the types. *)
LEMMA DispatchRequestType ==
  ASSUME TypeOK, DispatchRequest
  PROVE  TypeOK'
  <1> DEFINE q == requests[slot]
             starts == /\ q.id # 0 /\ ~q.started /\ ~q.terminal
                       /\ \E r \in OwnerSlots(q.handle) : ~resources[r].closing
  <1>1. q \in Request /\ starts \in BOOLEAN
    BY DEF TypeOK, TablesOK, LoopOK
  <1>2. requests' = [requests EXCEPT ![slot] =
                       [q EXCEPT !.cancel = FALSE, !.started = @ \/ starts]]
    BY <1>1 DEF DispatchRequest, TypeOK, TablesOK, LoopOK, Request
  <1>3. [q EXCEPT !.cancel = FALSE, !.started = @ \/ starts] \in Request
    BY <1>1 DEF Request
  <1>4. TablesOK'
    BY <1>2, <1>3 DEF DispatchRequest, TypeOK, TablesOK
  <1>5. slot' \in Slots /\ pc' \in Places
    BY NextSlotType DEF DispatchRequest, TypeOK, LoopOK, Places
  <1>6. LoopOK'
    BY <1>5 DEF DispatchRequest, TypeOK, LoopOK, runner
  <1>7. starts => q.id \in Ids
    BY <1>1 DEF Request
  <1>8. HistoryOK'
    BY <1>7 DEF DispatchRequest, TypeOK, HistoryOK, guest
  <1> QED BY <1>4, <1>6, <1>8 DEF TypeOK

(* The return of a driver's start keeps the types. *)
LEMMA StartReturnType ==
  ASSUME TypeOK, NEW ok \in BOOLEAN, StartReturn(ok)
  PROVE  TypeOK'
  <1>1. Conclude(requests[slot], "done", FALSE) \in Request
    BY ConcludeType DEF TypeOK, TablesOK, LoopOK, Statuses
  <1>2. TablesOK'
    BY <1>1 DEF StartReturn, TypeOK, TablesOK
  <1>3. slot' \in Slots /\ pc' \in Places
    BY NextSlotType DEF StartReturn, TypeOK, LoopOK, Places
  <1>4. LoopOK'
    BY <1>3 DEF StartReturn, TypeOK, LoopOK, Wake
  <1>5. HistoryOK'
    BY DEF StartReturn, TypeOK, HistoryOK, ledger, guest
  <1> QED BY <1>2, <1>4, <1>5 DEF TypeOK

(* The resource half of dispatch keeps the types. *)
LEMMA SweepResourceType ==
  ASSUME TypeOK, SweepResource
  PROVE  TypeOK'
  <1>1. TablesOK'
    BY DEF SweepResource, TypeOK, TablesOK, core
  <1>2. slot' \in Slots /\ pc' \in Places
    BY NextSlotType DEF SweepResource, TypeOK, LoopOK, Places, AfterSweep
  <1>3. LoopOK'
    BY <1>2, SizesAssumption DEF SweepResource, TypeOK, LoopOK, runner, core
  <1>4. HistoryOK'
    BY DEF SweepResource, TypeOK, HistoryOK, driver, ledger, guest
  <1> QED BY <1>1, <1>3, <1>4 DEF TypeOK

(* The return of a driver's close keeps the types. *)
LEMMA NativeCloseType ==
  ASSUME TypeOK, NEW s \in Slots, NEW ok \in BOOLEAN, NativeClose(s, ok)
  PROVE  TypeOK'
  <1>1. \A r \in Resource : [r EXCEPT !.closed = TRUE] \in Resource
    BY DEF Resource
  <1>2. \A q \in Request : Reclaim([q EXCEPT !.nativeDone = TRUE]) \in Request
    <2>1. \A q \in Request : [q EXCEPT !.nativeDone = TRUE] \in Request
      BY DEF Request
    <2> QED BY <2>1, ReclaimType
  <1>3. TablesOK'
    <2>1. resources' \in [Slots -> Resource]
      BY <1>1 DEF NativeClose, TypeOK, TablesOK, LoopOK
    <2>2. requests' \in [Slots -> Request]
      BY ZenonT(60), <1>2 DEF NativeClose, TypeOK, TablesOK
    <2> QED BY <2>1, <2>2 DEF NativeClose, TypeOK, TablesOK
  <1>4. slot' \in Slots /\ pc' \in Places
    <2>1. slot \in Slots /\ NextSlot("sweep", AfterSweep)
      BY DEF NativeClose, TypeOK, LoopOK
    <2>2. "sweep" \in Places /\ AfterSweep \in Places
      BY DEF Places, AfterSweep
    <2> QED BY <2>1, <2>2, NextSlotType
  <1>5. LoopOK'
    <2>1. signal' \in BOOLEAN
      BY DEF NativeClose, TypeOK, LoopOK, Wake
    <2>2. room' \in 0 .. FactRoom /\ bytes' \in 0 .. ByteRoom
      BY SizesAssumption DEF NativeClose, TypeOK, LoopOK
    <2>3. UNCHANGED <<visit, observePhase, observeIndex, shuttingDown, stopping>>
      BY DEF NativeClose
    <2> QED BY <1>4, <2>1, <2>2, <2>3 DEF TypeOK, LoopOK
  <1>6. HistoryOK'
    BY DEF NativeClose, TypeOK, HistoryOK, ledger, guest
  <1> QED BY <1>3, <1>5, <1>6 DEF TypeOK

(* Looking for pending work keeps the types. *)
LEMMA IdleType ==
  ASSUME TypeOK, Idle
  PROVE  TypeOK'
  <1>1. TablesOK'
    BY DEF Idle, TypeOK, TablesOK, core
  <1>2. LoopOK'
    BY DEF Idle, TypeOK, LoopOK, Places, runner, cursor, core
  <1>3. HistoryOK'
    BY DEF Idle, TypeOK, HistoryOK, driver, ledger, guest
  <1> QED BY <1>1, <1>2, <1>3 DEF TypeOK

(* A wakeup keeps the types. *)
LEMMA WaitEndType ==
  ASSUME TypeOK, NEW timer \in BOOLEAN, WaitEnd(timer)
  PROVE  TypeOK'
  <1>1. TablesOK'
    BY DEF WaitEnd, TypeOK, TablesOK, core
  <1>2. LoopOK'
    BY DEF WaitEnd, TypeOK, LoopOK, Places, cursor, core
  <1>3. HistoryOK'
    BY DEF WaitEnd, TypeOK, HistoryOK, driver, ledger, guest
  <1> QED BY <1>1, <1>2, <1>3 DEF TypeOK

(* Leaving a faulted realm keeps the types. *)
LEMMA FaultedEndType ==
  ASSUME TypeOK, FaultedEnd
  PROVE  TypeOK'
  <1>1. TablesOK'
    BY DEF FaultedEnd, TypeOK, TablesOK, core
  <1>2. LoopOK'
    BY DEF FaultedEnd, TypeOK, LoopOK, Places, runner, cursor, core
  <1>3. HistoryOK'
    BY DEF FaultedEnd, TypeOK, HistoryOK, driver, ledger, guest
  <1> QED BY <1>1, <1>2, <1>3 DEF TypeOK

(* destroy's look at the drivers keeps the types. *)
LEMMA DestroyCheckType ==
  ASSUME TypeOK, DestroyCheck
  PROVE  TypeOK'
  <1>1. TablesOK'
    BY DEF DestroyCheck, TypeOK, TablesOK, core
  <1>2. LoopOK'
    BY DEF DestroyCheck, TypeOK, LoopOK, Places, runner, cursor, core
  <1>3. HistoryOK'
    BY DEF DestroyCheck, TypeOK, HistoryOK, driver, ledger, guest
  <1> QED BY <1>1, <1>2, <1>3 DEF TypeOK

(* Closing every handle for destroy keeps the types. *)
LEMMA ShutdownType ==
  ASSUME TypeOK, Shutdown
  PROVE  TypeOK'
  <1>1. TablesOK'
    BY CloseHandleType DEF Shutdown, TypeOK, TablesOK
  <1>2. slot' \in Slots /\ pc' \in Places
    BY NextSlotType DEF Shutdown, TypeOK, LoopOK, Places
  <1>3. LoopOK'
    BY <1>2 DEF Shutdown, TypeOK, LoopOK, Wake
  <1>4. HistoryOK'
    BY DEF Shutdown, TypeOK, HistoryOK, driver, ledger, guest
  <1> QED BY <1>1, <1>3, <1>4 DEF TypeOK

(* Observe. *)

(* A visit looks at a slot of the tables, at a number. *)
LEMMA VisitType ==
  ASSUME TypeOK, NEW v \in Nat, v \in visit .. LastVisit
  PROVE  SlotAt(v) \in Slots
  BY SlotAtType DEF TypeOK, LoopOK

(* A fact that copies finds room for itself and for its payload.            *)
(* Copying a fact that fits leaves room within its bounds. *)
LEMMA CopyType ==
  ASSUME TypeOK, NEW payload \in {0, 1}, Fits(payload), Copy(payload)
  PROVE  room' \in 0 .. FactRoom /\ bytes' \in 0 .. ByteRoom
  BY SizesAssumption DEF TypeOK, LoopOK, Fits, Copy

(* Copying a READY keeps the types. *)
LEMMA ObserveReadyType ==
  ASSUME TypeOK, NEW v \in Nat, ObserveReady(v)
  PROVE  TypeOK'
  <1>1. SlotAt(v) \in Slots
    BY VisitType DEF ObserveReady, Visits
  <1>2. Fits(0) /\ Copy(0)
    BY DEF ObserveReady, Visits, Copies, CanReady
  <1>3. [resources[SlotAt(v)] EXCEPT !.ready = FALSE] \in Resource
    BY <1>1 DEF TypeOK, TablesOK, Resource
  <1>4. TablesOK'
    BY <1>1, <1>3 DEF ObserveReady, TypeOK, TablesOK
  <1>5. LoopOK'
    BY <1>2, CopyType DEF ObserveReady, Visits, TypeOK, LoopOK, runner
  <1>6. HistoryOK'
    BY DEF ObserveReady, TypeOK, HistoryOK, driver, ledger
  <1> QED BY <1>4, <1>5, <1>6 DEF TypeOK

(* Copying a COMPLETE keeps the types. *)
LEMMA ObserveCompleteType ==
  ASSUME TypeOK, NEW v \in Nat, ObserveComplete(v)
  PROVE  TypeOK'
  <1> DEFINE q == requests[SlotAt(v)]
  <1>1. SlotAt(v) \in Slots /\ q \in Request
    BY VisitType DEF ObserveComplete, Visits, TypeOK, TablesOK
  <1>2. Payload(q) \in {0, 1} /\ Fits(Payload(q)) /\ Copy(Payload(q))
    BY DEF ObserveComplete, Visits, Copies, CanComplete, Payload
  <1>3. Reclaim([q EXCEPT !.observed = TRUE]) \in Request
    <2>1. [q EXCEPT !.observed = TRUE] \in Request
      BY <1>1 DEF Request
    <2> QED BY <2>1, ReclaimType
  <1>4. TablesOK'
    BY <1>1, <1>3 DEF ObserveComplete, TypeOK, TablesOK
  <1>5. LoopOK'
    BY <1>2, CopyType DEF ObserveComplete, Visits, TypeOK, LoopOK, runner
  <1>6. q.status \in Statuses
    BY <1>1 DEF Request
  <1>7. HistoryOK'
    BY <1>6 DEF ObserveComplete, TypeOK, HistoryOK, driver, ledger
  <1> QED BY <1>4, <1>5, <1>7 DEF TypeOK

(* Taking the first element of a sequence never makes it longer. *)
LEMMA TakeFirst ==
  ASSUME NEW S, NEW s \in Seq(S), s # <<>>
  PROVE  Head(s) \in S /\ Tail(s) \in Seq(S) /\ Len(Tail(s)) <= Len(s)
  <1>1. Len(s) \in Nat /\ Len(Tail(s)) = Len(s) - 1
    BY HeadTailProperties, LenProperties
  <1>2. Len(Tail(s)) <= Len(s)
    BY <1>1
  <1> QED BY <1>2, HeadTailProperties

(* Copying an event keeps the types, and the ring its bound. *)
LEMMA ObserveEventType ==
  ASSUME TypeOK, NEW v \in Nat, ObserveEvent(v)
  PROVE  TypeOK'
  <1> DEFINE Event == [handle : Ids, kind : EventKinds, offset : Nat]
  <1>1. CanEvent /\ Fits(1) /\ Copy(1)
    BY DEF ObserveEvent, Visits, Copies, CanEvent
  <1>2. events \in Seq(Event) /\ events # <<>>
    BY <1>1 DEF CanEvent, TypeOK, TablesOK
  <1>3. Head(events) \in Event /\ Tail(events) \in Seq(Event)
        /\ Len(Tail(events)) <= Len(events)
    BY <1>2, TakeFirst
  <1>4. TablesOK'
    <2>1. events' = Tail(events) /\ UNCHANGED <<resources, requests, nextId>>
      BY DEF ObserveEvent
    <2>2. Len(events) \in Nat /\ Len(Tail(events)) \in Nat
      BY <1>2, <1>3
    <2> QED BY <1>3, <2>1, <2>2, SizesAssumption DEF TypeOK, TablesOK
  <1>5. LoopOK'
    BY <1>1, CopyType DEF ObserveEvent, Visits, TypeOK, LoopOK, runner
  <1>6. Head(events).offset + 1 \in Nat
    BY <1>3
  <1>7. HistoryOK'
    <2>1. next' \in [Ids -> Nat]
      BY <1>6 DEF ObserveEvent, TypeOK, HistoryOK
    <2> QED BY <2>1 DEF ObserveEvent, TypeOK, HistoryOK, driver, ledger
  <1> QED BY <1>4, <1>5, <1>7 DEF TypeOK

(* Copying a GAP keeps the types. *)
LEMMA ObserveGapType ==
  ASSUME TypeOK, NEW v \in Nat, ObserveGap(v)
  PROVE  TypeOK'
  <1> DEFINE r == resources[SlotAt(v)]
  <1>1. SlotAt(v) \in Slots /\ r \in Resource
    BY VisitType DEF ObserveGap, Visits, TypeOK, TablesOK
  <1>2. Fits(0) /\ Copy(0)
    BY DEF ObserveGap, CanGap
  <1>3. [r EXCEPT !.gapCount = 0] \in Resource /\ r.gapOffset + r.gapCount \in Nat
    BY <1>1 DEF Resource
  <1>4. TablesOK'
    BY <1>1, <1>3 DEF ObserveGap, TypeOK, TablesOK
  <1>5. LoopOK'
    BY <1>2, CopyType DEF ObserveGap, Visits, TypeOK, LoopOK, runner
  <1>6. HistoryOK'
    BY <1>3 DEF ObserveGap, TypeOK, HistoryOK, driver, ledger
  <1> QED BY <1>4, <1>5, <1>6 DEF TypeOK

(* Copying an END keeps the types. *)
LEMMA ObserveEndType ==
  ASSUME TypeOK, NEW v \in Nat, ObserveEnd(v)
  PROVE  TypeOK'
  <1>1. SlotAt(v) \in Slots /\ resources[SlotAt(v)] \in Resource
    BY VisitType DEF ObserveEnd, Visits, TypeOK, TablesOK
  <1>2. Fits(0) /\ Copy(0)
    BY DEF ObserveEnd, CanEnd
  <1>3. [resources[SlotAt(v)] EXCEPT !.endSeen = TRUE] \in Resource
    BY <1>1 DEF Resource
  <1>4. TablesOK'
    BY <1>1, <1>3 DEF ObserveEnd, TypeOK, TablesOK
  <1>5. LoopOK'
    BY <1>2, CopyType DEF ObserveEnd, Visits, TypeOK, LoopOK, runner
  <1>6. HistoryOK'
    BY DEF ObserveEnd, TypeOK, HistoryOK, driver, ledger
  <1> QED BY <1>4, <1>5, <1>6 DEF TypeOK

(* Copying a CLOSED keeps the types. *)
LEMMA ObserveClosedType ==
  ASSUME TypeOK, NEW v \in Nat, ObserveClosed(v)
  PROVE  TypeOK'
  <1>1. Fits(0) /\ Copy(0)
    BY DEF ObserveClosed, CanClosed
  <1>2. TablesOK'
    BY FreshTypes DEF ObserveClosed, TypeOK, TablesOK
  <1>3. LoopOK'
    BY <1>1, CopyType DEF ObserveClosed, Visits, TypeOK, LoopOK, runner
  <1>4. HistoryOK'
    BY DEF ObserveClosed, TypeOK, HistoryOK, driver, ledger
  <1> QED BY <1>2, <1>3, <1>4 DEF TypeOK

(* Whatever timers and channels take, the room stays in bounds. *)
LEMMA ObserveOtherType ==
  ASSUME TypeOK, NEW v \in Nat, ObserveOther(v)
  PROVE  TypeOK'
  <1>1. TablesOK'
    BY DEF ObserveOther, TypeOK, TablesOK, core
  <1>2. (v \div TableSize + 1) * TableSize \in Nat
    <2>1. v \div TableSize \in Nat
      BY SizesAssumption
    <2> QED BY <2>1, SizesAssumption
  <1>3. room' \in 0 .. FactRoom /\ bytes' \in 0 .. ByteRoom
    BY SizesAssumption DEF ObserveOther, TypeOK, LoopOK
  <1>4. LoopOK'
    BY <1>2, <1>3 DEF ObserveOther, TypeOK, LoopOK, runner, core
  <1>5. HistoryOK'
    BY DEF ObserveOther, TypeOK, HistoryOK, driver, ledger, guest
  <1> QED BY <1>1, <1>4, <1>5 DEF TypeOK

(* The end of observe rotates phase and index within bounds. *)
LEMMA ObserveReturnType ==
  ASSUME TypeOK, ObserveReturn
  PROVE  TypeOK'
  <1>1. TablesOK'
    BY DEF ObserveReturn, TypeOK, TablesOK, core
  <1>2. observePhase' \in 0 .. 5
    BY DEF ObserveReturn, TypeOK, LoopOK
  <1>3. observeIndex' \in Slots
    BY SizesAssumption DEF ObserveReturn, TypeOK, LoopOK, Slots
  <1>4. pc' \in Places
    BY DEF ObserveReturn, Places
  <1>5. LoopOK'
    BY <1>2, <1>3, <1>4, SizesAssumption DEF ObserveReturn, TypeOK, LoopOK, runner, core
  <1>6. HistoryOK'
    BY DEF ObserveReturn, TypeOK, HistoryOK, driver, ledger, guest
  <1> QED BY <1>1, <1>5, <1>6 DEF TypeOK

(* Producers. *)

(* A producer's complete keeps the types. *)
LEMMA CompleteType ==
  ASSUME TypeOK, NEW s \in Slots, NEW status \in {"done", "unknown"},
         Complete(s, status)
  PROVE  TypeOK'
  <1>1. Conclude(requests[s], status, FALSE) \in Request
    BY ConcludeType DEF TypeOK, TablesOK, Statuses
  <1>2. TablesOK'
    BY <1>1 DEF Complete, TypeOK, TablesOK
  <1>3. LoopOK'
    BY DEF Complete, TypeOK, LoopOK, Wake, cursor
  <1>4. HistoryOK'
    BY DEF Complete, TypeOK, HistoryOK, ledger, guest
  <1> QED BY <1>2, <1>3, <1>4 DEF TypeOK

(* A producer's finish keeps the types. *)
LEMMA FinishType ==
  ASSUME TypeOK, NEW r \in Slots, NEW s \in Slots, Finish(r, s)
  PROVE  TypeOK'
  <1>1. Conclude(requests[s], "done", TRUE) \in Request
    BY ConcludeType DEF TypeOK, TablesOK, Statuses
  <1>2. resources[r].id \in Ids /\ requests[s].id \in Ids
    BY DEF Finish, AwaitsNative, TypeOK, TablesOK, Resource, Request
  <1>3. sent[resources[r].id] \in Nat
    BY <1>2 DEF TypeOK, HistoryOK
  <1>4. [resources[r] EXCEPT !.ended = TRUE, !.endOffset = sent[resources[r].id]]
          \in Resource
    BY <1>3 DEF TypeOK, TablesOK, Resource
  <1>5. TablesOK'
    BY <1>1, <1>4 DEF Finish, TypeOK, TablesOK
  <1>6. LoopOK'
    BY DEF Finish, TypeOK, LoopOK, Wake, cursor
  <1>7. HistoryOK'
    BY <1>2 DEF Finish, TypeOK, HistoryOK, guest
  <1> QED BY <1>5, <1>6, <1>7 DEF TypeOK

(* A producer's emit keeps the types: the ring never exceeds its bound. *)
LEMMA EmitType ==
  ASSUME TypeOK, NEW r \in Slots, NEW kind \in EventKinds, Emit(r, kind)
  PROVE  TypeOK'
  <1> DEFINE h == resources[r].id
             Event == [handle : Ids, kind : EventKinds, offset : Nat]
             e == [handle |-> h, kind |-> kind, offset |-> sent[h]]
  <1>1. h \in Ids /\ sent[h] \in Nat
    BY DEF Emit, TypeOK, TablesOK, HistoryOK, Resource
  <1>2. events \in Seq(Event) /\ e \in Event
    BY <1>1 DEF TypeOK, TablesOK
  <1>3. events' = Append(events, e) /\ Len(events) # MaxEvents
    BY DEF Emit, RingFull
  <1>4. events' \in Seq(Event) /\ Len(events') = Len(events) + 1
    BY <1>2, <1>3
  <1>5. Len(events') <= MaxEvents
    <2>1. Len(events) \in Nat /\ Len(events) <= MaxEvents
      BY <1>2 DEF TypeOK, TablesOK
    <2> QED BY <1>3, <1>4, <2>1, SizesAssumption
  <1>6. TablesOK'
    BY <1>4, <1>5 DEF Emit, TypeOK, TablesOK
  <1>7. LoopOK'
    BY DEF Emit, TypeOK, LoopOK, Wake, cursor
  <1>8. HistoryOK'
    BY <1>1 DEF Emit, TypeOK, HistoryOK, ledger, guest
  <1> QED BY <1>6, <1>7, <1>8 DEF TypeOK

(* A producer's end keeps the types. *)
LEMMA EndType ==
  ASSUME TypeOK, NEW r \in Slots, End(r)
  PROVE  TypeOK'
  <1>1. resources[r].id \in Ids
    BY DEF End, TypeOK, TablesOK, Resource
  <1>2. sent[resources[r].id] \in Nat
    BY <1>1 DEF TypeOK, HistoryOK
  <1>3. [resources[r] EXCEPT !.ended = TRUE, !.endOffset = sent[resources[r].id]]
          \in Resource
    BY <1>2 DEF TypeOK, TablesOK, Resource
  <1>4. TablesOK'
    BY <1>3 DEF End, TypeOK, TablesOK
  <1>5. LoopOK'
    BY DEF End, TypeOK, LoopOK, Wake, cursor
  <1>6. HistoryOK'
    BY DEF End, TypeOK, HistoryOK, driver, ledger, guest
  <1> QED BY <1>4, <1>5, <1>6 DEF TypeOK

(* Counting one more lost record leaves a resource record. *)
LEMMA LostType ==
  ASSUME NEW q \in Resource, NEW offset \in Nat
  PROVE  [q EXCEPT !.gapOffset = IF q.gapCount = 0 THEN offset ELSE @,
                   !.gapCount = @ + 1] \in Resource
  <1>1. q.gapCount + 1 \in Nat /\ (IF q.gapCount = 0 THEN offset ELSE q.gapOffset) \in Nat
    BY DEF Resource
  <1> QED BY <1>1 DEF Resource

(* A producer's gap keeps the types. *)
LEMMA GapType ==
  ASSUME TypeOK, NEW r \in Slots, Gap(r)
  PROVE  TypeOK'
  <1> DEFINE h == resources[r].id
             lost == [resources[r] EXCEPT
               !.gapOffset = IF resources[r].gapCount = 0 THEN sent[h] ELSE @,
               !.gapCount = @ + 1]
  <1>1. h \in Ids /\ sent[h] \in Nat /\ resources[r] \in Resource
    BY DEF Gap, TypeOK, TablesOK, HistoryOK, Resource
  <1>2. lost \in Resource
    BY <1>1, LostType
  <1>3. resources' = [resources EXCEPT ![r] = lost]
    BY <1>1 DEF Gap, TypeOK, TablesOK, Resource
  <1>4. TablesOK'
    BY <1>2, <1>3 DEF Gap, TypeOK, TablesOK
  <1>5. LoopOK'
    BY DEF Gap, TypeOK, LoopOK, Wake, cursor
  <1>6. HistoryOK'
    BY <1>1 DEF Gap, TypeOK, HistoryOK, ledger, guest
  <1> QED BY <1>4, <1>5, <1>6 DEF TypeOK

-----------------------------------------------------------------------------
(* One call of observe keeps the types. *)
LEMMA ObserveType ==
  ASSUME TypeOK, Observe
  PROVE  TypeOK'
  <1>1. ASSUME NEW v \in 0 .. LastVisit,
               \/ ObserveReady(v) \/ ObserveComplete(v) \/ ObserveEvent(v)
               \/ ObserveGap(v) \/ ObserveEnd(v) \/ ObserveClosed(v)
               \/ ObserveOther(v)
        PROVE  TypeOK'
    <2>1. v \in Nat
      BY <1>1
    <2> QED BY <1>1, <2>1, ObserveReadyType, ObserveCompleteType, ObserveEventType,
               ObserveGapType, ObserveEndType, ObserveClosedType, ObserveOtherType
  <1> QED BY <1>1, ObserveReturnType DEF Observe

(* Every step of the owner and of the producers keeps the types. *)
LEMMA TypeNext == TypeOK /\ [Next]_vars => TypeOK'
  <1> SUFFICES ASSUME TypeOK, [Next]_vars PROVE TypeOK'
    OBVIOUS
  <1>1. CASE Guest
    BY <1>1, OpenReserveType, CancelType, CloseType, SubmitType, TurnFaultType DEF Guest
  <1>2. CASE Loop
    <2>1. FALSE \in BOOLEAN
      OBVIOUS
    <2> QED
      BY <1>2, <2>1, TurnEndType, DispatchRequestType, SweepResourceType, ObserveType,
         OpenReturnType, StartReturnType, IdleType, WaitEndType, FaultedEndType,
         ShutdownType, DestroyCheckType DEF Loop
  <1>3. CASE Producers
    BY <1>3, CompleteType, FinishType, EmitType, EndType, GapType DEF Producers
  <1>4. CASE \E s \in Slots : \E ok \in BOOLEAN : NativeClose(s, ok)
    BY <1>4, NativeCloseType
  <1>5. CASE WaitEnd(TRUE) \/ Stop
    <2>1. TRUE \in BOOLEAN
      OBVIOUS
    <2> QED BY <1>5, <2>1, WaitEndType, StopType
  <1>6. CASE UNCHANGED vars
    BY <1>6 DEF TypeOK, TablesOK, LoopOK, HistoryOK, vars, core, cursor, runner,
                driver, ledger, guest
  <1> QED
    BY <1>1, <1>2, <1>3, <1>4, <1>5, <1>6 DEF Next, Freed

(* The tables, the event ring and the id counter of worker.c keep their     *)
(* bounds under every interleaving of guest, owner and producers, for       *)
(* tables, rings and observe buffers of every size.                         *)
THEOREM TypeCorrect == Spec => []TypeOK
  <1> QED BY TypeInit, TypeNext, PTL DEF Spec

-----------------------------------------------------------------------------
(* Two promises of the request table, proved for every size: a borrowed     *)
(* payload stays in its slot, and no verdict is a lie or comes twice.       *)
Safe == SlotInv /\ PayloadStable /\ HonestVerdict

-----------------------------------------------------------------------------
(* Most steps leave the guest's knowledge alone and move each slot within   *)
(* its request: p follows q when p is a free slot nobody borrows from, or   *)
(* the same request, no less terminal and borrowed exactly by held.         *)
Follows(p, q, borrowed) ==
  \/ p.id = 0 /\ q.id \notin borrowed
  \/ /\ p.id = q.id /\ p.handle = q.handle
     /\ p.started = q.started /\ p.observed = q.observed
     /\ q.terminal => p.terminal
     /\ StatusAgrees(p) /\ (p.nativeDone => p.terminal)
     /\ AwaitsNative(p) <=> p.id \in borrowed

Quiet == UNCHANGED <<ownerOf, ran, verdict>> /\ nextId' \in {nextId, nextId + 1}

Steady ==
  /\ Quiet /\ held' \subseteq held
  /\ \A s \in Slots : Follows(requests'[s], requests[s], held')

(* A step whose slots all follow their old contents keeps the promises.     *)
LEMMA SteadySafe ==
  ASSUME TypeOK, TypeOK', Safe, Steady
  PROVE  Safe'
  <1> USE DEF Steady
  <1>0. nextId \in Nat /\ nextId' \in Nat /\ nextId <= nextId'
    BY DEF TypeOK, TablesOK, Quiet
  <1>1. IdsUnique'
    BY DEF Follows, Safe, SlotInv, IdsUnique
  <1>2. IdsFresh'
    BY <1>0 DEF Quiet, Safe, SlotInv, IdsFresh, Ids
  <1>3. ASSUME NEW s \in Slots, requests'[s].id # 0
        PROVE  SlotAgrees(requests[s])'
    <2>1. requests[s].id # 0 /\ SlotAgrees(requests[s])
      BY <1>3 DEF Follows, Safe, SlotInv
    <2>2. /\ requests'[s].id = requests[s].id
          /\ requests'[s].handle = requests[s].handle
          /\ requests'[s].started = requests[s].started
          /\ requests'[s].observed = requests[s].observed
          /\ requests[s].terminal => requests'[s].terminal
          /\ StatusAgrees(requests'[s])
          /\ requests'[s].nativeDone => requests'[s].terminal
          /\ AwaitsNative(requests'[s]) <=> requests'[s].id \in held'
      BY <1>3 DEF Follows
    <2>3. requests[s].id \in Nat /\ requests[s].id < nextId
      BY <2>1 DEF SlotAgrees, TypeOK, TablesOK, Request, Ids
    <2>4. requests[s].id < nextId'
      BY <1>0, <2>3
    <2> QED BY <2>1, <2>2, <2>4 DEF Quiet, SlotAgrees
  <1>4. PayloadStable'
    <2> SUFFICES ASSUME NEW x \in held'
                 PROVE  \E s \in Slots : requests'[s].id = x /\ AwaitsNative(requests'[s])
      BY DEF PayloadStable
    <2>1. PICK s \in Slots : requests[s].id = x /\ AwaitsNative(requests[s])
      BY DEF Safe, PayloadStable
    <2>2. requests'[s].id = x /\ AwaitsNative(requests'[s])
      BY <2>1 DEF Follows
    <2> QED BY <2>2
  <1>5. HonestVerdict'
    BY DEF Quiet, Safe, HonestVerdict
  <1> QED BY <1>1, <1>2, <1>3, <1>4, <1>5 DEF Safe, SlotInv

(* A slot that does not change follows itself, whoever else gives payloads  *)
(* back.                                                                    *)
LEMMA SameFollows ==
  ASSUME TypeOK, Safe, NEW s \in Slots, NEW borrowed,
         requests[s].id \in borrowed <=> requests[s].id \in held
  PROVE  Follows(requests[s], requests[s], borrowed)
  <1>1. CASE requests[s].id = 0
    BY <1>1 DEF Follows, TypeOK, HistoryOK, Ids
  <1>2. CASE requests[s].id # 0
    BY <1>2 DEF Follows, Safe, SlotInv, SlotAgrees
  <1> QED BY <1>1, <1>2

(* cancel and close: the request keeps its slot, and a running one its      *)
(* payload.                                                                 *)
LEMMA AbandonFollows ==
  ASSUME TypeOK, Safe, NEW s \in Slots, requests[s].id # 0, ~requests[s].terminal
  PROVE  Follows(Abandon(requests[s]), requests[s], held)
  <1> DEFINE q == requests[s]
             p == Abandon(q)
  <1>1. q \in Request /\ SlotAgrees(q)
    BY DEF TypeOK, TablesOK, Safe, SlotInv
  <1>2. /\ p.id = q.id /\ p.handle = q.handle /\ p.started = q.started
        /\ p.observed = q.observed /\ p.terminal
        /\ p.status = IF q.started THEN "unknown" ELSE "cancelled"
        /\ q.started => p.nativeDone = q.nativeDone
    BY <1>1 DEF Abandon, Request
  <1>3. AwaitsNative(p) <=> AwaitsNative(q)
    BY <1>2 DEF AwaitsNative
  <1>4. StatusAgrees(p)
    BY <1>2 DEF StatusAgrees
  <1> QED BY <1>1, <1>2, <1>3, <1>4 DEF Follows, SlotAgrees

(* complete, finish and a failed start: the payload is given back.          *)
LEMMA ConcludeFollows ==
  ASSUME TypeOK, Safe, NEW s \in Slots, AwaitsNative(requests[s]),
         NEW status \in {"done", "unknown"}, NEW afterEnd \in BOOLEAN,
         NEW borrowed, requests[s].id \notin borrowed
  PROVE  Follows(Conclude(requests[s], status, afterEnd), requests[s], borrowed)
  <1> DEFINE q == requests[s]
             p == [q EXCEPT !.nativeDone = TRUE, !.terminal = TRUE,
                            !.status = IF q.terminal THEN @ ELSE status,
                            !.afterEnd = IF q.terminal THEN @ ELSE afterEnd]
  <1>1. q \in Request /\ SlotAgrees(q) /\ q.started
    BY DEF TypeOK, TablesOK, Safe, SlotInv, AwaitsNative
  <1>2. /\ p.id = q.id /\ p.handle = q.handle /\ p.started = q.started
        /\ p.observed = q.observed /\ p.terminal /\ p.nativeDone
        /\ p.status = IF q.terminal THEN q.status ELSE status
    BY <1>1 DEF Request
  <1>3. Follows(p, q, borrowed)
    BY <1>1, <1>2 DEF Follows, AwaitsNative, StatusAgrees, SlotAgrees
  <1>4. Follows(NoRequest, q, borrowed)
    BY DEF Follows, NoRequest
  <1> HIDE DEF p
  <1>5. Follows(Reclaim(p), q, borrowed)
    BY <1>3, <1>4 DEF Reclaim
  <1> QED BY <1>5 DEF Conclude, p

(* CloseHandle, for the guest's close and for destroy.                      *)
LEMMA CloseHandleFollows ==
  ASSUME TypeOK, Safe, NEW h, CloseHandle(h), NEW s \in Slots
  PROVE  Follows(requests'[s], requests[s], held)
  <1> DEFINE q == requests[s]
  <1>1. CASE q.id # 0 /\ q.handle = h /\ ~q.terminal
    <2>1. requests'[s] = Abandon(q)
      BY <1>1 DEF CloseHandle
    <2> QED BY <1>1, <2>1, AbandonFollows
  <1>2. CASE ~(q.id # 0 /\ q.handle = h /\ ~q.terminal)
    <2>1. requests'[s] = q
      BY <1>2 DEF CloseHandle
    <2> QED BY <2>1, SameFollows
  <1> QED BY <1>1, <1>2

-----------------------------------------------------------------------------
(* The promises hold of a created core.                                     *)
LEMMA SafeInit == Init => Safe
  BY DEF Init, Safe, SlotInv, IdsUnique, IdsFresh, PayloadStable, HonestVerdict, NoRequest

(* A step that touches none of the request state keeps them.                *)
LEMMA OtherSteady ==
  ASSUME TypeOK, TypeOK', Safe, Quiet, UNCHANGED <<requests, held>>
  PROVE  Steady
  <1>1. \A s \in Slots : Follows(requests'[s], requests[s], held')
    BY SameFollows
  <1> QED BY <1>1 DEF Steady

(* One slot is abandoned or concluded, the others are left alone.           *)
LEMMA OneSteady ==
  ASSUME TypeOK, TypeOK', Safe, Quiet, NEW s \in Slots, NEW p,
         requests' = [requests EXCEPT ![s] = p],
         held' = held \/ (requests[s].id # 0 /\ held' = held \ {requests[s].id}),
         Follows(p, requests[s], held')
  PROVE  Steady
  <1>1. requests \in [Slots -> Request]
    BY DEF TypeOK, TablesOK
  <1>2. ASSUME NEW t \in Slots
        PROVE  Follows(requests'[t], requests[t], held')
    <2>1. CASE t = s
      BY <1>1, <2>1
    <2>2. CASE t # s
      <3>1. requests'[t] = requests[t]
        BY <1>1, <2>2
      <3>2. requests[s].id # 0 => requests[t].id # requests[s].id
        BY <2>2 DEF Safe, SlotInv, IdsUnique
      <3>3. requests[t].id \in held' <=> requests[t].id \in held
        BY <3>2
      <3> QED BY <3>1, <3>3, SameFollows
    <2> QED BY <2>1, <2>2
  <1>3. held' \subseteq held
    OBVIOUS
  <1> QED BY <1>2, <1>3 DEF Steady

(* cancel: a queued request is abandoned for good, a running one keeps its  *)
(* payload.                                                                 *)
LEMMA CancelSteady ==
  ASSUME TypeOK, TypeOK', Safe, NEW s \in Slots, Cancel(s)
  PROVE  Steady
  <1>1. requests' = [requests EXCEPT ![s] = Abandon(requests[s])]
    BY DEF Cancel
  <1>2. Quiet /\ held' = held
    BY DEF Cancel, Quiet, driver, ledger, guest
  <1>3. Follows(Abandon(requests[s]), requests[s], held)
    BY AbandonFollows DEF Cancel
  <1> QED BY <1>1, <1>2, <1>3, OneSteady

(* close and destroy abandon every request of a handle.                     *)
LEMMA CloseSteady ==
  ASSUME TypeOK, TypeOK', Safe, NEW r \in Slots, Close(r)
  PROVE  Steady
  <1>1. CloseHandle(resources[r].id)
    BY DEF Close
  <1>2. Quiet /\ held' = held
    BY DEF Close, Quiet, driver, ledger, guest
  <1>3. \A s \in Slots : Follows(requests'[s], requests[s], held')
    BY <1>1, <1>2, CloseHandleFollows
  <1> QED BY <1>2, <1>3 DEF Steady

(* destroy closes handles: their requests get verdicts, none is freed. *)
LEMMA ShutdownSteady ==
  ASSUME TypeOK, TypeOK', Safe, Shutdown
  PROVE  Steady
  <1>1. Quiet /\ held' = held
    BY DEF Shutdown, Quiet, driver, ledger, guest
  <1>2. CASE resources[slot].id # 0
    <2>1. CloseHandle(resources[slot].id)
      BY <1>2 DEF Shutdown
    <2>2. \A s \in Slots : Follows(requests'[s], requests[s], held')
      BY <1>1, <2>1, CloseHandleFollows
    <2> QED BY <1>1, <2>2 DEF Steady
  <1>3. CASE resources[slot].id = 0
    <2>1. UNCHANGED <<requests, held>>
      BY <1>1, <1>3 DEF Shutdown
    <2> QED BY <1>1, <2>1, OtherSteady
  <1> QED BY <1>2, <1>3

(* A producer completes a request it still holds.                           *)
LEMMA CompleteSteady ==
  ASSUME TypeOK, TypeOK', Safe, NEW s \in Slots, NEW status \in {"done", "unknown"},
         Complete(s, status)
  PROVE  Steady
  <1>1. /\ requests' = [requests EXCEPT ![s] = Conclude(requests[s], status, FALSE)]
        /\ held' = held \ {requests[s].id} /\ AwaitsNative(requests[s])
    BY DEF Complete
  <1>2. Quiet
    BY DEF Complete, Quiet, ledger, guest
  <1>3. Follows(Conclude(requests[s], status, FALSE), requests[s], held')
    BY <1>1, ConcludeFollows
  <1> QED BY <1>1, <1>2, <1>3, OneSteady DEF AwaitsNative

(* A producer ends a stream together with a request it still holds.         *)
LEMMA FinishSteady ==
  ASSUME TypeOK, TypeOK', Safe, NEW r \in Slots, NEW s \in Slots, Finish(r, s)
  PROVE  Steady
  <1>1. /\ requests' = [requests EXCEPT ![s] = Conclude(requests[s], "done", TRUE)]
        /\ held' = held \ {requests[s].id} /\ AwaitsNative(requests[s])
    BY DEF Finish
  <1>2. Quiet
    BY DEF Finish, Quiet, guest
  <1>3. Follows(Conclude(requests[s], "done", TRUE), requests[s], held')
    BY <1>1, ConcludeFollows
  <1> QED BY <1>1, <1>2, <1>3, OneSteady DEF AwaitsNative

(* A driver's start fails before or after it completed the request.         *)
LEMMA StartReturnSteady ==
  ASSUME TypeOK, TypeOK', Safe, NEW ok \in BOOLEAN, StartReturn(ok)
  PROVE  Steady
  <1> DEFINE q == requests[slot]
  <1>1. Quiet /\ slot \in Slots
    BY DEF StartReturn, Quiet, ledger, guest, TypeOK, LoopOK
  <1>2. CASE ~ok /\ AwaitsNative(q)
    <2>1. /\ requests' = [requests EXCEPT ![slot] = Conclude(q, "done", FALSE)]
          /\ held' = held \ {q.id}
      BY <1>2 DEF StartReturn
    <2>2. Follows(Conclude(q, "done", FALSE), q, held')
      BY <1>1, <1>2, <2>1, ConcludeFollows
    <2> QED BY <1>1, <1>2, <2>1, <2>2, OneSteady DEF AwaitsNative
  <1>3. CASE ~(~ok /\ AwaitsNative(q))
    <2>1. UNCHANGED <<requests, held>>
      BY <1>3 DEF StartReturn
    <2> QED BY <1>1, <2>1, OtherSteady
  <1> QED BY <1>2, <1>3

(* A driver's close gives back every payload of its handle at once.         *)
LEMMA NativeCloseSteady ==
  ASSUME TypeOK, TypeOK', HandleInv, Safe, NEW s \in Slots, NEW ok \in BOOLEAN,
         NativeClose(s, ok)
  PROVE  Steady
  <1> DEFINE h == resources[slot].id
  <1>1. Quiet
    BY DEF NativeClose, Quiet, ledger, guest
  <1>2. CASE ok
    <2>1. held' = {q \in held : ownerOf[q] # h}
      BY <1>2 DEF NativeClose
    <2>2. ASSUME NEW t \in Slots
          PROVE  Follows(requests'[t], requests[t], held')
      <3> DEFINE q == requests[t]
                 p == [q EXCEPT !.nativeDone = TRUE]
      <3>1. q \in Request
        BY DEF TypeOK, TablesOK
      <3>2. CASE q.id # 0 /\ q.handle = h
        <4>1. requests'[t] = Reclaim(p)
          BY <1>2, <3>2 DEF NativeClose
        <4>2. SlotAgrees(q) /\ q.id \notin held'
          BY <2>1, <3>2 DEF Safe, SlotInv, SlotAgrees
        <4>3. /\ p.id = q.id /\ p.handle = q.handle /\ p.started = q.started
              /\ p.observed = q.observed /\ p.terminal = q.terminal
              /\ p.status = q.status /\ p.nativeDone
          BY <3>1 DEF Request
        <4> p.terminal
          BY <3>2, <4>3 DEF NativeClose, HandleInv, TypeOK, LoopOK
        <4>4. Follows(p, q, held')
          BY <4>2, <4>3 DEF Follows, SlotAgrees, StatusAgrees, AwaitsNative
        <4>5. Follows(NoRequest, q, held')
          BY <4>2 DEF Follows, NoRequest
        <4> QED BY <4>1, <4>4, <4>5 DEF Reclaim
      <3>3. CASE ~(q.id # 0 /\ q.handle = h)
        <4>1. requests'[t] = q
          BY <1>2, <3>3 DEF NativeClose
        <4>2. q.id \in held' <=> q.id \in held
          <5>1. CASE q.id = 0
            BY <2>1, <5>1 DEF TypeOK, HistoryOK, Ids
          <5>2. CASE q.id # 0
            BY <2>1, <3>3, <5>2 DEF Safe, SlotInv, SlotAgrees
          <5> QED BY <5>1, <5>2
        <4> QED BY <4>1, <4>2, SameFollows
      <3> QED BY <3>2, <3>3
    <2>3. held' \subseteq held
      BY <2>1
    <2> QED BY <1>1, <2>2, <2>3 DEF Steady
  <1>3. CASE ~ok
    <2>1. UNCHANGED <<requests, held>>
      BY <1>3 DEF NativeClose
    <2> QED BY <1>1, <2>1, OtherSteady
  <1> QED BY <1>2, <1>3

-----------------------------------------------------------------------------
(* submit takes a fresh id, which nobody runs, holds or was told of.        *)
LEMMA SubmitSafe ==
  ASSUME TypeOK, TypeOK', Safe, NEW r \in Slots, NEW s \in Slots, Submit(r, s)
  PROVE  Safe'
  <1> DEFINE p == [NoRequest EXCEPT !.id = nextId, !.handle = resources[r].id]
  <1>1. /\ requests' = [requests EXCEPT ![s] = p] /\ requests[s].id = 0
        /\ ownerOf' = [ownerOf EXCEPT ![nextId] = resources[r].id]
        /\ nextId' = nextId + 1 /\ UNCHANGED <<held, ran, verdict>>
    BY DEF Submit, FirstFree, driver, guest
  <1>2. nextId \in Ids /\ nextId \in Nat
    <2>1. nextId < IntMax /\ nextId \in 1 .. IntMax
      BY DEF Submit, TypeOK, TablesOK
    <2> QED BY <2>1, SizesAssumption DEF Ids
  <1>3. nextId \notin ran /\ verdict[nextId] = "none"
    BY <1>2 DEF Safe, SlotInv, IdsFresh
  <1>4. \A t \in Slots : requests[t].id # 0 => requests[t].id < nextId /\ requests[t].id \in Ids
    BY DEF Safe, SlotInv, SlotAgrees, TypeOK, TablesOK, Request
  <1>5. nextId \notin held
    BY <1>2, <1>4 DEF Safe, PayloadStable, TypeOK, HistoryOK, Ids
  <1>6. requests'[s] = p /\ \A t \in Slots \ {s} : requests'[t] = requests[t]
    BY <1>1 DEF TypeOK, TablesOK
  <1>7. /\ p.id = nextId /\ p.handle = resources[r].id /\ ~p.started /\ ~p.observed
        /\ ~p.terminal /\ ~p.nativeDone
    BY DEF NoRequest
  <1>8. ownerOf'[nextId] = resources[r].id
        /\ \A q \in Ids \ {nextId} : ownerOf'[q] = ownerOf[q]
    BY <1>1, <1>2 DEF TypeOK, HistoryOK
  <1> HIDE DEF p
  <1>9. IdsUnique'
    BY <1>2, <1>4, <1>6, <1>7 DEF Safe, SlotInv, IdsUnique, Ids
  <1>10. IdsFresh'
    BY <1>1, <1>2, <1>8 DEF Safe, SlotInv, IdsFresh, Ids
  <1>11. ASSUME NEW t \in Slots, requests'[t].id # 0
         PROVE  SlotAgrees(requests[t])'
    <2>1. CASE t = s
      BY <1>1, <1>2, <1>3, <1>5, <1>6, <1>7, <1>8, <2>1
         DEF SlotAgrees, StatusAgrees, AwaitsNative
    <2>2. CASE t # s
      <3> DEFINE q == requests[t]
      <3>1. requests'[t] = q /\ q.id < nextId /\ q.id \in Ids /\ SlotAgrees(q)
        BY <1>4, <1>6, <1>11, <2>2 DEF Safe, SlotInv
      <3>2. q.id < nextId + 1 /\ ownerOf'[q.id] = ownerOf[q.id]
        BY <1>2, <1>8, <3>1 DEF Ids
      <3> HIDE DEF q
      <3>3. /\ q.handle = ownerOf[q.id] /\ (q.started <=> q.id \in ran)
            /\ (AwaitsNative(q) <=> q.id \in held)
            /\ (q.observed <=> verdict[q.id] # "none")
            /\ (q.observed \/ q.nativeDone => q.terminal) /\ StatusAgrees(q)
        BY <3>1 DEF SlotAgrees
      <3> QED BY <1>1, <3>1, <3>2, <3>3 DEF SlotAgrees
    <2> QED BY <2>1, <2>2
  <1>12. PayloadStable'
    <2> SUFFICES ASSUME NEW x \in held
                 PROVE  \E t \in Slots : requests'[t].id = x /\ AwaitsNative(requests'[t])
      BY <1>1 DEF PayloadStable
    <2>1. PICK t \in Slots : requests[t].id = x /\ AwaitsNative(requests[t])
      BY DEF Safe, PayloadStable
    <2>2. t # s
      BY <1>1, <2>1 DEF AwaitsNative
    <2> QED BY <1>6, <2>1, <2>2
  <1>13. HonestVerdict'
    BY <1>1 DEF Safe, HonestVerdict
  <1> QED BY <1>9, <1>10, <1>11, <1>12, <1>13 DEF Safe, SlotInv

(* Only a request without a verdict starts, so no report of it was a lie.   *)
LEMMA DispatchRequestSafe ==
  ASSUME TypeOK, TypeOK', Safe, DispatchRequest
  PROVE  Safe'
  <1> DEFINE q == requests[slot]
             starts == /\ q.id # 0 /\ ~q.started /\ ~q.terminal
                       /\ \E r \in OwnerSlots(q.handle) : ~resources[r].closing
             p == [q EXCEPT !.cancel = FALSE, !.started = @ \/ starts]
  <1>1. slot \in Slots /\ q \in Request /\ requests \in [Slots -> Request]
    BY DEF TypeOK, TablesOK, LoopOK
  <1>2. requests' = [requests EXCEPT ![slot] = p]
    BY <1>1 DEF DispatchRequest, Request
  <1>3. /\ p.id = q.id /\ p.handle = q.handle /\ p.started = (q.started \/ starts)
        /\ p.observed = q.observed /\ p.terminal = q.terminal
        /\ p.status = q.status /\ p.nativeDone = q.nativeDone
    BY <1>1 DEF Request
  <1>4. UNCHANGED <<ownerOf, verdict, nextId>>
    BY DEF DispatchRequest, guest
  <1>5. CASE ~starts
    <2>1. UNCHANGED <<held, ran>>
      BY <1>5 DEF DispatchRequest
    <2>2. Follows(q, q, held)
      BY <1>1, SameFollows
    <2> HIDE DEF starts, p
    <2>3. p.started = q.started
      BY <1>1, <1>3, <1>5 DEF Request
    <2>4. Follows(p, q, held)
      BY <1>3, <2>2, <2>3 DEF Follows, StatusAgrees, AwaitsNative
    <2>5. Quiet
      BY <1>4, <2>1 DEF Quiet
    <2>6. Steady
      BY <1>1, <1>2, <2>1, <2>4, <2>5, OneSteady
    <2> QED BY <2>6, SteadySafe
  <1>6. CASE starts
    <2>1. held' = held \cup {q.id} /\ ran' = ran \cup {q.id}
      BY <1>6 DEF DispatchRequest
    <2>2. SlotAgrees(q) /\ q.id \in Ids
      BY <1>1, <1>6 DEF Safe, SlotInv, Request
    <2>3. ~q.started /\ ~q.terminal /\ q.id # 0
      BY <1>6
    <2>4. ~q.observed /\ ~q.nativeDone /\ verdict[q.id] = "none"
      BY <2>2, <2>3 DEF SlotAgrees
    <2>5. requests'[slot] = p /\ \A t \in Slots \ {slot} : requests'[t] = requests[t]
      BY <1>1, <1>2
    <2>6. p.started
      BY <1>3, <1>6
    <2> HIDE DEF starts, p
    <2>7. IdsUnique'
      BY <1>1, <1>3, <2>5 DEF Safe, SlotInv, IdsUnique
    <2>8. q.id < nextId /\ q.id \in Nat /\ nextId \in Nat
      BY <2>2 DEF SlotAgrees, TypeOK, TablesOK, Ids
    <2>9. IdsFresh'
      BY <1>4, <2>1, <2>8 DEF Safe, SlotInv, IdsFresh, Ids
    <2>10. ASSUME NEW t \in Slots, t = slot
           PROVE  SlotAgrees(requests[t])'
      BY <2>10, <1>3, <1>4, <2>1, <2>2, <2>3, <2>4, <2>5, <2>6
         DEF SlotAgrees, StatusAgrees, AwaitsNative
    <2>11. ASSUME NEW t \in Slots, t # slot, requests[t].id # 0
           PROVE  SlotAgrees(requests[t])'
      <3>1. requests'[t] = requests[t] /\ SlotAgrees(requests[t])
        BY <2>5, <2>11 DEF Safe, SlotInv
      <3>2. requests[t].id # q.id
        BY <1>1, <2>3, <2>11 DEF Safe, SlotInv, IdsUnique
      <3> QED BY <1>4, <2>1, <3>1, <3>2 DEF SlotAgrees
    <2>12. PayloadStable'
      <3> SUFFICES ASSUME NEW x \in held'
                   PROVE  \E t \in Slots : requests'[t].id = x /\ AwaitsNative(requests'[t])
        BY DEF PayloadStable
      <3>1. CASE x = q.id
        BY <1>1, <1>3, <2>3, <2>4, <2>5, <2>6, <3>1 DEF AwaitsNative
      <3>2. CASE x # q.id
        <4>1. PICK t \in Slots : requests[t].id = x /\ AwaitsNative(requests[t])
          BY <2>1, <3>2 DEF Safe, PayloadStable
        <4> QED BY <2>5, <3>2, <4>1
      <3> QED BY <3>1, <3>2
    <2>13. HonestVerdict'
      BY <1>4, <2>1, <2>4 DEF Safe, HonestVerdict
    <2>14. \A t \in Slots : requests'[t].id # 0 => SlotAgrees(requests[t])'
      BY <2>5, <2>10, <2>11
    <2> QED BY <2>7, <2>9, <2>12, <2>13, <2>14 DEF Safe, SlotInv
  <1> QED BY <1>5, <1>6

(* The one COMPLETE of a request: until now the guest knew of none, and     *)
(* the status agrees with whether a driver saw the request.                 *)
LEMMA ObserveCompleteSafe ==
  ASSUME TypeOK, TypeOK', Safe, NEW v \in Nat, ObserveComplete(v)
  PROVE  Safe'
  <1> DEFINE at == SlotAt(v)
             q == requests[at]
             p == [q EXCEPT !.observed = TRUE]
  <1>1. at \in Slots /\ q \in Request /\ requests \in [Slots -> Request]
    BY VisitType DEF ObserveComplete, Visits, TypeOK, TablesOK
  <1>2. q.id # 0 /\ q.terminal /\ ~q.observed
    BY DEF ObserveComplete, Visits, Copies, CanComplete
  <1>3. /\ requests' = [requests EXCEPT ![at] = Reclaim(p)]
        /\ verdict' = [verdict EXCEPT ![q.id] = IF @ = "none" THEN q.status ELSE "twice"]
        /\ UNCHANGED <<held, ownerOf, ran, nextId>>
    BY DEF ObserveComplete, driver, ledger
  <1>4. SlotAgrees(q) /\ q.id \in Ids
    BY <1>1, <1>2 DEF Safe, SlotInv, Request
  <1>5. /\ p.id = q.id /\ p.handle = q.handle /\ p.started = q.started
        /\ p.observed /\ p.terminal = q.terminal
        /\ p.status = q.status /\ p.nativeDone = q.nativeDone
    BY <1>1 DEF Request
  <1>6. verdict[q.id] = "none" /\ q.status \in Statuses
    BY <1>1, <1>2, <1>4 DEF SlotAgrees, Request
  <1>7. /\ verdict'[q.id] = q.status
        /\ \A x \in Ids \ {q.id} : verdict'[x] = verdict[x]
    BY <1>3, <1>4, <1>6 DEF TypeOK, HistoryOK
  <1>8. requests'[at] = Reclaim(p) /\ \A t \in Slots \ {at} : requests'[t] = requests[t]
    BY <1>1, <1>3
  <1> HIDE DEF at, p
  <1>9. \/ requests'[at] = p
        \/ requests'[at].id = 0 /\ q.nativeDone
    BY <1>5, <1>8 DEF Reclaim, NoRequest
  <1>10. IdsUnique'
    BY <1>1, <1>5, <1>8, <1>9 DEF Safe, SlotInv, IdsUnique
  <1>11. q.id < nextId /\ q.id \in Nat /\ nextId \in Nat
    BY <1>4 DEF SlotAgrees, TypeOK, TablesOK, Ids
  <1>12. IdsFresh'
    BY <1>3, <1>7, <1>11 DEF Safe, SlotInv, IdsFresh, Ids
  <1>13. ASSUME NEW t \in Slots, requests'[t].id # 0
         PROVE  SlotAgrees(requests[t])'
    <2>1. CASE t = at
      <3>1. requests'[t] = p
        BY <1>9, <1>13, <2>1
      <3>2. verdict'[q.id] # "none"
        BY <1>6, <1>7 DEF Statuses
      <3>3. /\ q.id < nextId /\ q.handle = ownerOf[q.id]
            /\ q.started <=> q.id \in ran
            /\ AwaitsNative(q) <=> q.id \in held
            /\ StatusAgrees(q)
        BY <1>4 DEF SlotAgrees
      <3>4. (AwaitsNative(p) <=> AwaitsNative(q)) /\ (StatusAgrees(p) <=> StatusAgrees(q))
        BY <1>5 DEF AwaitsNative, StatusAgrees
      <3>5. UNCHANGED <<held, ownerOf, ran, nextId>>
        BY <1>3
      <3> HIDE DEF q
      <3> QED BY <1>2, <1>5, <3>1, <3>2, <3>3, <3>4, <3>5 DEF SlotAgrees
    <2>2. CASE t # at
      <3>1. requests'[t] = requests[t] /\ SlotAgrees(requests[t])
        BY <1>8, <1>13, <2>2 DEF Safe, SlotInv
      <3>2. requests[t].id # q.id /\ requests[t].id \in Ids
        BY <1>1, <1>2, <1>13, <2>2, <3>1
           DEF Safe, SlotInv, IdsUnique, TypeOK, TablesOK, Request
      <3> QED BY <1>3, <1>7, <3>1, <3>2 DEF SlotAgrees
    <2> QED BY <2>1, <2>2
  <1>14. PayloadStable'
    <2> SUFFICES ASSUME NEW x \in held
                 PROVE  \E t \in Slots : requests'[t].id = x /\ AwaitsNative(requests'[t])
      BY <1>3 DEF PayloadStable
    <2>1. PICK t \in Slots : requests[t].id = x /\ AwaitsNative(requests[t])
      BY DEF Safe, PayloadStable
    <2>2. CASE t = at
      BY <1>5, <1>9, <2>1, <2>2 DEF AwaitsNative
    <2>3. CASE t # at
      BY <1>8, <2>1, <2>3
    <2> QED BY <2>2, <2>3
  <1>15. HonestVerdict'
    <2>1. /\ q.status = "cancelled" => q.id \notin ran
          /\ q.status = "unknown" => q.id \in ran
          /\ q.status # "twice"
      BY <1>2, <1>4, <1>6 DEF SlotAgrees, StatusAgrees, Statuses
    <2> QED BY <1>3, <1>7, <2>1 DEF Safe, HonestVerdict
  <1> QED BY <1>10, <1>12, <1>13, <1>14, <1>15 DEF Safe, SlotInv

-----------------------------------------------------------------------------
(* The steps that leave requests and payloads alone.                        *)

Untouched == UNCHANGED <<requests, held, ownerOf, ran, verdict>>
             /\ nextId' \in {nextId, nextId + 1}

(* Everything but the request calls, dispatch's two request steps, a        *)
(* driver's close, COMPLETE and the producers' completions is such a step.  *)
LEMMA UntouchedSteps ==
  ASSUME \/ \E s \in Slots : OpenReserve(s) \/ Emit(s, "head") \/ Emit(s, "data")
                             \/ End(s) \/ Gap(s)
         \/ \E v \in 0 .. LastVisit :
              \/ ObserveReady(v) \/ ObserveEvent(v) \/ ObserveGap(v)
              \/ ObserveEnd(v) \/ ObserveClosed(v) \/ ObserveOther(v)
         \/ TurnFault \/ TurnEnd \/ SweepResource \/ ObserveReturn
         \/ OpenReturn(TRUE) \/ OpenReturn(FALSE) \/ Idle \/ WaitEnd(FALSE)
         \/ WaitEnd(TRUE) \/ FaultedEnd \/ DestroyCheck \/ Stop \/ UNCHANGED vars
  PROVE  Untouched
  <1>1. ASSUME NEW s \in Slots, OpenReserve(s)
        PROVE  Untouched
    BY <1>1 DEF OpenReserve, Untouched, driver, ledger, guest
  <1>2. ASSUME NEW s \in Slots, NEW kind, Emit(s, kind)
        PROVE  Untouched
    BY <1>2 DEF Emit, Untouched, ledger, guest
  <1>3. ASSUME NEW s \in Slots, End(s) \/ Gap(s)
        PROVE  Untouched
    BY <1>3 DEF End, Gap, Untouched, driver, ledger, guest
  <1>4. ASSUME NEW v, ObserveReady(v) \/ ObserveEvent(v) \/ ObserveGap(v)
        PROVE  Untouched
    BY <1>4 DEF ObserveReady, ObserveEvent, ObserveGap, Untouched, driver, ledger
  <1>5. ASSUME NEW v, ObserveEnd(v) \/ ObserveClosed(v) \/ ObserveOther(v)
        PROVE  Untouched
    BY <1>5 DEF ObserveEnd, ObserveClosed, ObserveOther, Untouched, core, driver,
                ledger, guest
  <1>6. CASE TurnFault \/ TurnEnd \/ SweepResource \/ ObserveReturn
    BY <1>6 DEF TurnFault, TurnEnd, SweepResource, ObserveReturn, Untouched, core,
                driver, ledger, guest
  <1>7. ASSUME NEW ok, OpenReturn(ok) \/ WaitEnd(ok)
        PROVE  Untouched
    BY <1>7 DEF OpenReturn, WaitEnd, Untouched, core, driver, ledger, guest
  <1>8. CASE Idle \/ FaultedEnd \/ DestroyCheck \/ Stop \/ UNCHANGED vars
    BY <1>8 DEF Idle, FaultedEnd, DestroyCheck, Stop, Untouched, vars, core, driver,
                ledger, guest
  <1> QED BY <1>1, <1>2, <1>3, <1>4, <1>5, <1>6, <1>7, <1>8

(* A step that touches no request table keeps every request as it was. *)
LEMMA UntouchedSteady ==
  ASSUME TypeOK, TypeOK', Safe, Untouched
  PROVE  Steady
  BY OtherSteady DEF Untouched, Quiet

(* Every step keeps the promises of the request table.                      *)
LEMMA SafeNext ==
  ASSUME TypeOK, TypeOK', HandleInv, Safe, [Next]_vars
  PROVE  Safe'
  <1>1. CASE Untouched
    BY <1>1, UntouchedSteady, SteadySafe
  <1>2. ASSUME NEW r \in Slots, NEW s \in Slots,
               \/ Submit(r, s) \/ Cancel(s) \/ Close(s) \/ Finish(r, s)
               \/ \E status \in {"done", "unknown"} : Complete(s, status)
        PROVE  Safe'
    BY <1>2, SubmitSafe, CancelSteady, CloseSteady, FinishSteady, CompleteSteady,
       SteadySafe
  <1>3. ASSUME NEW ok \in BOOLEAN, NEW s \in Slots, StartReturn(ok) \/ NativeClose(s, ok)
        PROVE  Safe'
    BY <1>3, StartReturnSteady, NativeCloseSteady, SteadySafe
  <1>4. CASE DispatchRequest \/ Shutdown
    BY <1>4, DispatchRequestSafe, ShutdownSteady, SteadySafe
  <1>5. ASSUME NEW v \in 0 .. LastVisit, ObserveComplete(v)
        PROVE  Safe'
    <2>1. v \in Nat
      BY <1>5
    <2> QED BY <1>5, <2>1, ObserveCompleteSafe
  <1>6. CASE Guest
    BY <1>1, <1>2, <1>6, UntouchedSteps DEF Guest
  <1>7. CASE Producers
    BY <1>1, <1>2, <1>7, UntouchedSteps DEF Producers, EventKinds
  <1>8. CASE Loop
    <2>1. CASE Observe
      BY <1>1, <1>5, <2>1, UntouchedSteps DEF Observe
    <2>2. ASSUME NEW ok \in BOOLEAN, OpenReturn(ok) \/ StartReturn(ok)
          PROVE  Safe'
      BY <1>1, <1>3, <2>2, UntouchedSteps DEF TypeOK, LoopOK
    <2> QED BY <1>1, <1>4, <1>8, <2>1, <2>2, UntouchedSteps DEF Loop
  <1>9. CASE \E s \in Slots : \E ok \in BOOLEAN : NativeClose(s, ok)
    BY <1>3, <1>9
  <1>10. CASE WaitEnd(TRUE) \/ Stop \/ UNCHANGED vars
    BY <1>1, <1>10, UntouchedSteps
  <1> QED BY <1>6, <1>7, <1>8, <1>9, <1>10 DEF Next, Freed

-----------------------------------------------------------------------------
(* The handles.  Most steps free a slot or leave its id and closing alone,  *)
(* and move requests towards their verdict.                                 *)

HandlesKept ==
  /\ nextId' \in {nextId, nextId + 1}
  /\ \A s \in Slots :
       \/ /\ resources'[s].id = resources[s].id
          /\ resources'[s].closing = resources[s].closing
       \/ resources'[s].id = 0 /\ ~resources'[s].closing

RequestsMove ==
  \A s \in Slots :
    \/ requests'[s].id = 0
    \/ /\ requests'[s].id = requests[s].id /\ requests'[s].handle = requests[s].handle
       /\ requests[s].terminal => requests'[s].terminal

ClosesClosing == pc' = "nativeClose" => resources'[slot'].closing

(* Handle ids are numbers below the counter.                                *)
LEMMA HandleIds ==
  ASSUME TypeOK, HandleInv
  PROVE  \A t \in Slots : resources[t].id \in Nat /\ resources[t].id < nextId
  <1>1. \A t \in Slots : resources[t] \in Resource
    BY DEF TypeOK, TablesOK
  <1>2. \A t \in Slots : resources[t].id \in Nat
    BY <1>1 DEF Resource, Ids
  <1> QED BY <1>2 DEF HandleInv

(* Handles that stay, or leave, keep the handle table's promises as long as
   requests only gain verdicts and only closing handles are being closed. *)
LEMMA KeptHandleInv ==
  ASSUME TypeOK, TypeOK', HandleInv, HandlesKept, RequestsMove, ClosesClosing
  PROVE  HandleInv'
  <1>1. \A s \in Slots : resources[s].id \in Nat /\ nextId \in Nat /\ nextId \in 1 .. IntMax
    BY DEF TypeOK, TablesOK, Resource, Ids
  <1>2. \A s, t \in Slots :
          resources'[s].id # 0 /\ resources'[s].id = resources'[t].id => s = t
    BY DEF HandlesKept, HandleInv
  <1>3. ASSUME NEW s \in Slots
        PROVE  resources'[s].id < nextId'
    <2>1. nextId' \in Nat /\ (nextId' = nextId \/ nextId' = nextId + 1) /\ nextId' > 0
      BY <1>1 DEF HandlesKept, TypeOK, TablesOK
    <2>2. resources[s].id < nextId /\ (resources'[s].id = resources[s].id \/ resources'[s].id = 0)
      BY DEF HandlesKept, HandleInv
    <2> QED BY <1>1, <2>1, <2>2
  <1>4. \A s, t \in Slots :
          resources'[s].closing /\ requests'[t].id # 0
          /\ requests'[t].handle = resources'[s].id => requests'[t].terminal
    BY DEF HandlesKept, RequestsMove, HandleInv
  <1> QED BY <1>2, <1>3, <1>4 DEF HandleInv, ClosesClosing

(* A steady step lets no request lose its verdict or change its handle. *)
LEMMA SteadyMove ==
  ASSUME Steady
  PROVE  RequestsMove
  BY DEF Steady, Follows, RequestsMove

(* A step that touches no request is such a step. *)
LEMMA UntouchedMove ==
  ASSUME Untouched
  PROVE  RequestsMove
  BY DEF Untouched, RequestsMove

(* Steps that change neither a handle's slot nor where the owner is.        *)
LEMMA SamePlaceKept ==
  ASSUME TypeOK, HandleInv, UNCHANGED <<resources, nextId>>,
         pc' # "nativeClose" \/ UNCHANGED <<pc, slot>>
  PROVE  HandlesKept /\ ClosesClosing
  BY DEF HandlesKept, ClosesClosing, HandleInv

(* A fresh handle is new to every slot and is not closing.                  *)
LEMMA OpenReserveHandle ==
  ASSUME TypeOK, TypeOK', HandleInv, NEW s \in Slots, OpenReserve(s)
  PROVE  HandleInv'
  <1> DEFINE r == [NoResource EXCEPT !.id = nextId]
  <1>1. /\ resources' = [resources EXCEPT ![s] = r] /\ nextId' = nextId + 1
        /\ pc' = "opening" /\ UNCHANGED requests
    BY DEF OpenReserve
  <1>2. r.id = nextId /\ ~r.closing
    BY DEF NoResource
  <1>3. resources'[s] = r /\ \A t \in Slots \ {s} : resources'[t] = resources[t]
    BY <1>1 DEF TypeOK, TablesOK
  <1> HIDE DEF r
  <1>4. \A t \in Slots : resources[t].id \in Nat /\ resources[t].id < nextId
    BY HandleIds
  <1>5. nextId \in Nat
    BY DEF TypeOK, TablesOK
  <1>6. \A t \in Slots : resources'[t].id < nextId'
    BY <1>1, <1>2, <1>3, <1>4, <1>5
  <1>7. \A t, u \in Slots :
          resources'[t].id # 0 /\ resources'[t].id = resources'[u].id => t = u
    BY <1>2, <1>3, <1>4, <1>5 DEF HandleInv
  <1>8. \A t, u \in Slots :
          resources'[t].closing /\ requests'[u].id # 0
          /\ requests'[u].handle = resources'[t].id => requests'[u].terminal
    BY <1>1, <1>2, <1>3 DEF HandleInv
  <1> QED BY <1>1, <1>6, <1>7, <1>8 DEF HandleInv

(* submit refuses a closing handle.                                         *)
LEMMA SubmitHandle ==
  ASSUME TypeOK, TypeOK', HandleInv, NEW r \in Slots, NEW s \in Slots, Submit(r, s)
  PROVE  HandleInv'
  <1> DEFINE p == [NoRequest EXCEPT !.id = nextId, !.handle = resources[r].id]
  <1>1. /\ requests' = [requests EXCEPT ![s] = p] /\ nextId' = nextId + 1
        /\ UNCHANGED <<resources, pc, slot>>
        /\ resources[r].id # 0 /\ ~resources[r].closing
    BY DEF Submit, cursor
  <1>2. p.handle = resources[r].id
    BY DEF NoRequest
  <1>3. requests'[s] = p /\ \A t \in Slots \ {s} : requests'[t] = requests[t]
    BY <1>1 DEF TypeOK, TablesOK
  <1> HIDE DEF p
  <1>4. \A t \in Slots : resources[t].id \in Nat /\ resources[t].id < nextId
    BY HandleIds
  <1>5. nextId \in Nat
    BY DEF TypeOK, TablesOK
  <1>6. \A t \in Slots : resources'[t].id < nextId'
    BY <1>1, <1>4, <1>5
  <1>7. \A t, u \in Slots :
          resources'[t].closing /\ requests'[u].id # 0
          /\ requests'[u].handle = resources'[t].id => requests'[u].terminal
    BY <1>1, <1>2, <1>3 DEF HandleInv
  <1> QED BY <1>1, <1>6, <1>7 DEF HandleInv

(* Closing a handle gives every request on it a verdict.                    *)
LEMMA CloseHandleHandle ==
  ASSUME TypeOK, TypeOK', HandleInv, NEW h \in Ids, CloseHandle(h), UNCHANGED nextId,
         pc' # "nativeClose" \/ UNCHANGED <<pc, slot>>
  PROVE  HandleInv'
  <1>1. ASSUME NEW s \in Slots
        PROVE  /\ resources'[s].id = resources[s].id
               /\ resources'[s].closing = (resources[s].closing \/ resources[s].id = h)
    <2>1. resources[s] \in Resource
      BY DEF TypeOK, TablesOK
    <2> QED BY <2>1 DEF CloseHandle, Resource
  <1>2. ASSUME NEW s \in Slots
        PROVE  /\ requests'[s].id = requests[s].id
               /\ requests'[s].handle = requests[s].handle
               /\ requests[s].terminal => requests'[s].terminal
               /\ requests[s].id # 0 /\ requests[s].handle = h => requests'[s].terminal
    <2>1. requests[s] \in Request
      BY DEF TypeOK, TablesOK
    <2> QED BY <2>1 DEF CloseHandle, Abandon, Request
  <1>3. \A s, t \in Slots :
          resources'[s].closing /\ requests'[t].id # 0
          /\ requests'[t].handle = resources'[s].id => requests'[t].terminal
    BY ZenonT(60), <1>1, <1>2 DEF HandleInv
  <1>4. pc' = "nativeClose" => resources'[slot'].closing
    BY <1>1 DEF HandleInv, TypeOK, LoopOK
  <1> QED BY <1>1, <1>3, <1>4 DEF HandleInv

-----------------------------------------------------------------------------
(* A step that rewrites one handle's slot within the handle, or frees it.   *)
LEMMA OneHandleKept ==
  ASSUME TypeOK, NEW s \in Slots, NEW p, resources' = [resources EXCEPT ![s] = p],
         nextId' = nextId,
         \/ p.id = resources[s].id /\ p.closing = resources[s].closing
         \/ p.id = 0 /\ ~p.closing
  PROVE  HandlesKept
  <1>1. resources'[s] = p /\ \A t \in Slots \ {s} : resources'[t] = resources[t]
    BY DEF TypeOK, TablesOK
  <1> QED BY <1>1 DEF HandlesKept

(* open: the driver's answer concerns the reserved slot only.               *)
LEMMA OpenReturnHandle ==
  ASSUME TypeOK, TypeOK', HandleInv, NEW ok \in BOOLEAN, OpenReturn(ok)
  PROVE  HandleInv'
  <1> DEFINE p == IF ok THEN [resources[slot] EXCEPT !.ready = TRUE] ELSE NoResource
  <1>1. resources' = [resources EXCEPT ![slot] = p] /\ pc' = "turn"
        /\ UNCHANGED <<requests, nextId>>
    BY DEF OpenReturn
  <1>2. slot \in Slots /\ resources[slot] \in Resource
    BY DEF TypeOK, TablesOK, LoopOK
  <1>3. \/ p.id = resources[slot].id /\ p.closing = resources[slot].closing
        \/ p.id = 0 /\ ~p.closing
    BY <1>2 DEF NoResource, Resource
  <1> HIDE DEF p
  <1>4. HandlesKept
    BY <1>1, <1>2, <1>3, OneHandleKept
  <1>5. RequestsMove /\ ClosesClosing
    BY <1>1 DEF RequestsMove, ClosesClosing
  <1> QED BY <1>4, <1>5, KeptHandleInv

(* A driver's close is called for a closing handle.                         *)
LEMMA SweepResourceHandle ==
  ASSUME TypeOK, TypeOK', HandleInv, SweepResource
  PROVE  HandleInv'
  <1>1. UNCHANGED <<resources, requests, nextId>>
    BY DEF SweepResource, core
  <1>2. pc' = "nativeClose" => resources'[slot'].closing
    BY <1>1 DEF SweepResource, NextSlot, AfterSweep
  <1>3. HandlesKept /\ RequestsMove /\ ClosesClosing
    BY <1>1, <1>2 DEF HandlesKept, RequestsMove, ClosesClosing
  <1> QED BY <1>3, KeptHandleInv

(* The return of a driver's close marks one closing handle closed at most. *)
LEMMA NativeCloseHandle ==
  ASSUME TypeOK, TypeOK', HandleInv, NEW s \in Slots, NEW ok \in BOOLEAN,
         NativeClose(s, ok), RequestsMove
  PROVE  HandleInv'
  <1> DEFINE p == [resources[slot] EXCEPT !.closed = TRUE]
  <1>1. /\ resources' = resources \/ resources' = [resources EXCEPT ![slot] = p]
        /\ nextId' = nextId
    BY DEF NativeClose
  <1>2. slot \in Slots /\ resources[slot] \in Resource
    BY DEF TypeOK, TablesOK, LoopOK
  <1>3. p.id = resources[slot].id /\ p.closing = resources[slot].closing
    BY <1>2 DEF Resource
  <1>4. pc' # "nativeClose"
    BY DEF NativeClose, NextSlot, AfterSweep
  <1> HIDE DEF p
  <1>5. HandlesKept
    BY <1>1, <1>2, <1>3, OneHandleKept DEF HandlesKept
  <1> QED BY <1>4, <1>5, KeptHandleInv DEF ClosesClosing

(* READY, GAP, END and CLOSED rewrite or free their handle's slot.          *)
LEMMA ObserveHandle ==
  ASSUME TypeOK, TypeOK', HandleInv, NEW v \in Nat,
         ObserveReady(v) \/ ObserveGap(v) \/ ObserveEnd(v) \/ ObserveClosed(v)
  PROVE  HandleInv'
  <1> DEFINE at == SlotAt(v)
             r == resources[at]
  <1>1. at \in Slots /\ r \in Resource
    BY VisitType DEF ObserveReady, ObserveGap, ObserveEnd, ObserveClosed, Visits,
                     TypeOK, TablesOK
  <1>2. UNCHANGED <<requests, nextId, pc, slot>> /\ pc = "observe"
    BY DEF ObserveReady, ObserveGap, ObserveEnd, ObserveClosed, Visits
  <1>3. \/ resources' = [resources EXCEPT ![at] = [r EXCEPT !.ready = FALSE]]
        \/ resources' = [resources EXCEPT ![at] = [r EXCEPT !.gapCount = 0]]
        \/ resources' = [resources EXCEPT ![at] = [r EXCEPT !.endSeen = TRUE]]
        \/ resources' = [resources EXCEPT ![at] = NoResource]
    BY <1>1 DEF ObserveReady, ObserveGap, ObserveEnd, ObserveClosed, TypeOK, TablesOK
  <1>4. PICK p : /\ resources' = [resources EXCEPT ![at] = p]
                 /\ \/ p.id = r.id /\ p.closing = r.closing
                    \/ p.id = 0 /\ ~p.closing
    BY <1>1, <1>3 DEF Resource, NoResource
  <1> HIDE DEF at
  <1>5. HandlesKept
    BY <1>1, <1>2, <1>4, OneHandleKept
  <1>6. RequestsMove /\ ClosesClosing
    BY <1>2 DEF RequestsMove, ClosesClosing
  <1> QED BY <1>5, <1>6, KeptHandleInv

(* finish, end and gap mark the stream of an open slot.                     *)
LEMMA StreamHandle ==
  ASSUME TypeOK, TypeOK', HandleInv, NEW r \in Slots, RequestsMove,
         (\E s \in Slots : Finish(r, s)) \/ End(r) \/ Gap(r)
  PROVE  HandleInv'
  <1> DEFINE q == resources[r]
  <1>1. UNCHANGED <<nextId, pc, slot>> /\ q \in Resource
    BY DEF Finish, End, Gap, cursor, TypeOK, TablesOK
  <1>2. ASSUME NEW t \in Slots
        PROVE  resources'[t].id = resources[t].id /\ resources'[t].closing = resources[t].closing
    <2>1. resources[t] \in Resource
      BY DEF TypeOK, TablesOK
    <2>2. CASE (\E s \in Slots : Finish(r, s)) \/ End(r)
      <3>1. resources' = [resources EXCEPT ![r].ended = TRUE,
                                           ![r].endOffset = sent[resources[r].id]]
        BY <2>2 DEF Finish, End
      <3> QED BY <2>1, <3>1 DEF TypeOK, TablesOK, Resource
    <2>3. CASE Gap(r)
      BY <2>1, <2>3 DEF Gap, TypeOK, TablesOK, Resource
    <2> QED BY <2>2, <2>3
  <1>3. HandlesKept
    BY <1>1, <1>2 DEF HandlesKept
  <1>4. ClosesClosing
    BY <1>1, <1>2 DEF ClosesClosing, HandleInv, TypeOK, LoopOK
  <1> QED BY <1>3, <1>4, KeptHandleInv

(* The handles hold in a created core.                                      *)
LEMMA HandleInit == Init => HandleInv
  BY DEF Init, HandleInv, NoResource

(* Every step keeps them.                                                   *)
LEMMA HandleNext ==
  ASSUME TypeOK, TypeOK', HandleInv, Safe, [Next]_vars
  PROVE  HandleInv'
  <1>1. ASSUME UNCHANGED <<resources, nextId>>, RequestsMove,
               pc' # "nativeClose" \/ UNCHANGED <<pc, slot>>
        PROVE  HandleInv'
    BY <1>1, SamePlaceKept, KeptHandleInv
  <1>2. CASE Guest
    <2>1. ASSUME NEW s \in Slots, Cancel(s)
          PROVE  HandleInv'
      <3>1. RequestsMove
        BY <2>1, CancelSteady, SteadyMove
      <3>2. UNCHANGED <<resources, nextId, pc, slot>>
        BY <2>1 DEF Cancel, cursor
      <3> QED BY <1>1, <3>1, <3>2
    <2>2. ASSUME NEW s \in Slots, Close(s)
          PROVE  HandleInv'
      <3>1. CloseHandle(resources[s].id) /\ resources[s].id \in Ids
        BY <2>2 DEF Close, TypeOK, TablesOK, Resource
      <3>2. UNCHANGED <<nextId, pc, slot>>
        BY <2>2 DEF Close, cursor
      <3> QED BY <3>1, <3>2, CloseHandleHandle
    <2>3. CASE TurnFault
      <3>1. UNCHANGED <<resources, nextId, requests>> /\ pc' # "nativeClose"
        BY <2>3 DEF TurnFault, core
      <3> QED BY <1>1, <3>1 DEF RequestsMove
    <2> QED BY <1>2, <2>1, <2>2, <2>3, OpenReserveHandle, SubmitHandle DEF Guest
  <1>3. CASE Producers
    <2>1. ASSUME NEW s \in Slots, NEW status \in {"done", "unknown"}, Complete(s, status)
          PROVE  HandleInv'
      <3>1. RequestsMove
        BY <2>1, CompleteSteady, SteadyMove
      <3>2. UNCHANGED <<resources, nextId, pc, slot>>
        BY <2>1 DEF Complete, cursor
      <3> QED BY <1>1, <3>1, <3>2
    <2>2. ASSUME NEW r \in Slots, NEW s \in Slots, Finish(r, s)
          PROVE  HandleInv'
      BY <2>2, FinishSteady, SteadyMove, StreamHandle
    <2>3. ASSUME NEW r \in Slots, NEW kind \in EventKinds, Emit(r, kind)
          PROVE  HandleInv'
      <3>1. UNCHANGED <<resources, requests, nextId, pc, slot>>
        BY <2>3 DEF Emit, cursor
      <3> QED BY <1>1, <3>1 DEF RequestsMove
    <2>4. ASSUME NEW r \in Slots, End(r) \/ Gap(r)
          PROVE  HandleInv'
      BY <2>4, UntouchedSteps, UntouchedMove, StreamHandle
    <2> QED BY <1>3, <2>1, <2>2, <2>3, <2>4 DEF Producers
  <1>4. CASE Observe
    <2>1. ASSUME NEW v \in 0 .. LastVisit, ObserveComplete(v)
          PROVE  HandleInv'
      <3> DEFINE q == requests[SlotAt(v)]
                 p == [q EXCEPT !.observed = TRUE]
      <3>1. v \in Nat /\ SlotAt(v) \in Slots /\ q \in Request
        BY <2>1, VisitType DEF ObserveComplete, Visits, TypeOK, TablesOK
      <3>2. requests' = [requests EXCEPT ![SlotAt(v)] = Reclaim(p)]
            /\ UNCHANGED <<resources, nextId, pc, slot>>
        BY <2>1 DEF ObserveComplete
      <3>3. p.id = q.id /\ p.handle = q.handle /\ p.terminal = q.terminal
        BY <3>1 DEF Request
      <3>4. /\ requests'[SlotAt(v)] = Reclaim(p)
            /\ \A t \in Slots : t = SlotAt(v) \/ requests'[t] = requests[t]
        BY <3>1, <3>2 DEF TypeOK, TablesOK
      <3> HIDE DEF p
      <3>5. RequestsMove
        BY <3>3, <3>4 DEF RequestsMove, Reclaim, NoRequest
      <3> QED BY <1>1, <3>2, <3>5
    <2>2. ASSUME NEW v \in 0 .. LastVisit,
                 ObserveReady(v) \/ ObserveGap(v) \/ ObserveEnd(v) \/ ObserveClosed(v)
          PROVE  HandleInv'
      <3>1. v \in Nat
        BY <2>2
      <3> QED BY <2>2, <3>1, ObserveHandle
    <2>3. ASSUME NEW v \in 0 .. LastVisit, ObserveEvent(v) \/ ObserveOther(v)
          PROVE  HandleInv'
      <3>1. UNCHANGED <<resources, requests, nextId, pc, slot>>
        BY <2>3 DEF ObserveEvent, ObserveOther, core
      <3> QED BY <1>1, <3>1 DEF RequestsMove
    <2>4. CASE ObserveReturn
      <3>1. UNCHANGED <<resources, requests, nextId>> /\ pc' # "nativeClose"
        BY <2>4 DEF ObserveReturn, core
      <3> QED BY <1>1, <3>1 DEF RequestsMove
    <2> QED BY <1>4, <2>1, <2>2, <2>3, <2>4 DEF Observe
  <1>5. CASE DispatchRequest
    <2> DEFINE q == requests[slot]
    <2>1. slot \in Slots /\ q \in Request
      BY DEF TypeOK, TablesOK, LoopOK
    <2>2. ASSUME NEW t \in Slots
          PROVE  /\ requests'[t].id = requests[t].id
                 /\ requests'[t].handle = requests[t].handle
                 /\ requests'[t].terminal = requests[t].terminal
      <3>1. requests[t] \in Request
        BY DEF TypeOK, TablesOK
      <3> QED BY <1>5, <2>1, <3>1 DEF DispatchRequest, TypeOK, TablesOK, Request
    <2>3. UNCHANGED <<resources, nextId>> /\ pc' # "nativeClose"
      BY <1>5 DEF DispatchRequest, NextSlot
    <2> QED BY <1>1, <2>2, <2>3 DEF RequestsMove
  <1>6. ASSUME NEW ok \in BOOLEAN, StartReturn(ok)
        PROVE  HandleInv'
    <2>1. RequestsMove
      BY <1>6, StartReturnSteady, SteadyMove
    <2>2. UNCHANGED <<resources, nextId>> /\ pc' # "nativeClose"
      BY <1>6 DEF StartReturn, NextSlot
    <2> QED BY <1>1, <2>1, <2>2
  <1>7. CASE TurnEnd \/ Idle \/ FaultedEnd \/ DestroyCheck \/ WaitEnd(TRUE) \/ WaitEnd(FALSE)
    <2>1. UNCHANGED <<resources, requests, nextId>> /\ pc' # "nativeClose"
      BY <1>7 DEF TurnEnd, Idle, FaultedEnd, DestroyCheck, WaitEnd, core
    <2> QED BY <1>1, <2>1 DEF RequestsMove
  <1>8. CASE Shutdown
    <2>1. RequestsMove
      BY <1>8, ShutdownSteady, SteadyMove
    <2>2. UNCHANGED nextId /\ pc' # "nativeClose"
      BY <1>8 DEF Shutdown, NextSlot
    <2>3. CASE resources[slot].id # 0
      <3>1. CloseHandle(resources[slot].id) /\ resources[slot].id \in Ids
        BY <1>8, <2>3 DEF Shutdown, TypeOK, TablesOK, LoopOK, Resource
      <3> QED BY <2>2, <3>1, CloseHandleHandle
    <2>4. CASE resources[slot].id = 0
      BY <1>1, <1>8, <2>1, <2>2, <2>4 DEF Shutdown
    <2> QED BY <2>3, <2>4
  <1>9. ASSUME NEW s \in Slots, NEW ok \in BOOLEAN, NativeClose(s, ok)
        PROVE  HandleInv'
    BY <1>9, NativeCloseSteady, SteadyMove, NativeCloseHandle
  <1>10. CASE Stop \/ UNCHANGED vars
    <2>1. UNCHANGED <<resources, requests, nextId, pc, slot>>
      BY <1>10 DEF Stop, vars, core, cursor
    <2> QED BY <1>1, <2>1 DEF RequestsMove
  <1>11. CASE Loop
    BY <1>4, <1>5, <1>6, <1>7, <1>8, <1>11, OpenReturnHandle, SweepResourceHandle
       DEF Loop
  <1> QED BY <1>2, <1>3, <1>7, <1>9, <1>10, <1>11 DEF Next, Freed

-----------------------------------------------------------------------------
(* The inductive invariant: the types, the handles and the request table.   *)
IInv == TypeOK /\ HandleInv /\ Safe

(* It holds in every reachable state.                                       *)
THEOREM Inductive == Spec => []IInv
  <1>1. Init => IInv
    BY TypeInit, HandleInit, SafeInit DEF IInv
  <1>2. IInv /\ [Next]_vars => IInv'
    BY TypeNext, HandleNext, SafeNext DEF IInv
  <1> QED BY <1>1, <1>2, PTL DEF Spec

(* A driver's borrowed payload stays in its slot whatever cancel, close,    *)
(* shutdown, observe and the other producers do (worker.c: reclaim frees a  *)
(* slot only once native code and guest are both done with it).             *)
THEOREM PayloadsStayPut == Spec => []PayloadStable
  <1>1. IInv => PayloadStable
    BY DEF IInv, Safe
  <1> QED BY <1>1, Inductive, PTL

(* No request is reported cancelled after a driver saw it, or unknown when  *)
(* none did, and none is answered twice (worker.c: dispatch, cancel, close, *)
(* complete and observe together).                                          *)
THEOREM VerdictsAreHonest == Spec => []HonestVerdict
  <1>1. IInv => HonestVerdict
    BY DEF IInv, Safe
  <1> QED BY <1>1, Inductive, PTL

(* The tables agree with the drivers and with the guest, slot by slot.      *)
THEOREM TablesAgree == Spec => [](SlotInv /\ HandleInv)
  <1>1. IInv => SlotInv /\ HandleInv
    BY DEF IInv, Safe
  <1> QED BY <1>1, Inductive, PTL

-----------------------------------------------------------------------------
(* A free slot is all zero; ids not given out yet are known to nobody.      *)
FreeZero == \A s \in Slots : resources[s].id = 0 => resources[s] = NoResource

Unheard ==
  /\ \A h \in Ids : h >= nextId =>
       stage[h] = "none" /\ next[h] = 0 /\ sent[h] = 0 /\ h \notin finished
  /\ \A i \in DOMAIN events : events[i].handle < nextId

(* open has not returned: the guest learns the handle with its READY.       *)
Opening(s) == pc = "opening" /\ slot = s

(* A handle in its slot agrees with what the guest was told of it and with  *)
(* what its driver sent.                                                    *)
StageOf(s) ==
  IF resources[s].ready \/ Opening(s) THEN "none"
  ELSE IF resources[s].endSeen THEN "ended" ELSE "ready"

HandleAgrees(s) ==
  LET r == resources[s]
  IN /\ ownerOf[r.id] = 0 /\ stage[r.id] = StageOf(s)
     /\ r.ready \/ Opening(s) => next[r.id] = 0 /\ ~r.endSeen
     /\ Opening(s) => ~r.ready
     /\ r.endSeen => r.ended /\ r.gapCount = 0
     /\ r.ended => r.endOffset = sent[r.id]
     /\ r.gapCount > 0 => r.gapOffset + r.gapCount = sent[r.id]
     /\ sent[r.id] <= MaxOffset
     /\ r.closed => r.closing

HandlesAgree ==
  /\ \A s \in Slots : resources[s].id # 0 => HandleAgrees(s)
  /\ pc = "opening" => resources[slot].id # 0

(* The data in the ring continue a stream, one by one, from what the guest  *)
(* expects to t: there the pending gap begins, or the driver goes on.       *)
IsData(i, h) == events[i].handle = h /\ events[i].kind = "data"

Tiles(h, t) ==
  /\ next[h] <= t
  /\ \A i \in DOMAIN events :
       IsData(i, h) => next[h] <= events[i].offset /\ events[i].offset < t
  /\ \A i, j \in DOMAIN events :
       i < j /\ IsData(i, h) /\ IsData(j, h) => events[i].offset < events[j].offset
  /\ \A x \in Nat : next[h] <= x /\ x < t =>
       \E i \in DOMAIN events : IsData(i, h) /\ events[i].offset = x

TailOf(s) == IF resources[s].gapCount > 0 THEN resources[s].gapOffset ELSE sent[resources[s].id]

StreamsTile ==
  \A h \in Ids : \E t \in Nat :
    Tiles(h, t) /\ \A s \in Slots : resources[s].id = h => t = TailOf(s)

(* What is in the ring belongs to a stream before its END, or to a failed   *)
(* open.                                                                    *)
EventsInside ==
  \A i \in DOMAIN events :
    LET h == events[i].handle
    IN \/ \E s \in Slots : resources[s].id = h /\ ~resources[s].endSeen
       \/ stage[h] = "none" /\ \A s \in Slots : resources[s].id # h

(* A request keeps its handle in the table; what finished its stream is     *)
(* done after the end; what no driver saw can only be cancelled; and a      *)
(* closed driver holds none.                                                *)
RequestAgrees(q) ==
  /\ q.handle # 0
  /\ \E s \in Slots : resources[s].id = q.handle /\ ~Opening(s)
                      /\ (resources[s].closed => ~AwaitsNative(q))
  /\ q.terminal /\ ~q.started => q.status = "cancelled"
  /\ q.id \in finished => q.terminal /\ q.afterEnd /\ q.status = "done"

RequestsAgree ==
  /\ \A s \in Slots : requests[s].id # 0 => RequestAgrees(requests[s])
  /\ \A q \in Ids : ownerOf[q] # 0 /\ verdict[q] = "none" => \E s \in Slots : requests[s].id = q

(* The runner decided to sleep on what it still sees.                       *)
RestsOK ==
  /\ pc = "wait" /\ ~signal => ~Pending
  /\ FreedAfterNative

(* The parts about handles and about streams, and the whole.                *)
HandleSide == FreeZero /\ Unheard /\ HandlesAgree /\ StreamsTile /\ EventsInside

Streams == HandleSide /\ RequestsAgree /\ RestsOK

-----------------------------------------------------------------------------
(* What the types say of a slot and of the ring. *)
LEMMA SlotTypes ==
  ASSUME TypeOK, NEW s \in Slots
  PROVE  /\ resources[s] \in Resource /\ requests[s] \in Request
         /\ resources[s].id \in {0} \cup Ids /\ resources[s].endOffset \in Nat
         /\ resources[s].gapOffset \in Nat /\ resources[s].gapCount \in Nat
         /\ requests[s].id \in {0} \cup Ids /\ requests[s].handle \in {0} \cup Ids
  <1>1. resources[s] \in Resource /\ requests[s] \in Request
    BY DEF TypeOK, TablesOK
  <1> QED BY <1>1 DEF Resource, Request

LEMMA RingTypes ==
  ASSUME TypeOK
  PROVE  /\ events \in Seq([handle : Ids, kind : EventKinds, offset : Nat])
         /\ DOMAIN events = 1 .. Len(events) /\ Len(events) \in Nat
         /\ \A i \in DOMAIN events : events[i].handle \in Ids /\ events[i].offset \in Nat
  <1>1. events \in Seq([handle : Ids, kind : EventKinds, offset : Nat])
    BY DEF TypeOK, TablesOK
  <1>2. \A i \in DOMAIN events : events[i] \in [handle : Ids, kind : EventKinds, offset : Nat]
    <2>1. \A S : events \in Seq(S) => \A i \in DOMAIN events : events[i] \in S
      OBVIOUS
    <2> QED BY <1>1, <2>1
  <1>3. DOMAIN events = 1 .. Len(events) /\ Len(events) \in Nat
    BY <1>1
  <1> QED BY <1>1, <1>2, <1>3

LEMMA CounterTypes ==
  ASSUME TypeOK
  PROVE  /\ nextId \in Nat /\ nextId \in 1 .. IntMax /\ sent \in [Ids -> Nat] /\ next \in [Ids -> Nat]
         /\ Ids \in SUBSET Nat /\ 0 \notin Ids /\ MaxOffset \in Nat
  BY SizesAssumption DEF TypeOK, TablesOK, HistoryOK, Ids

(* A slot in use is not free, and only one holds its handle. *)
LEMMA OneOwner ==
  ASSUME HandleInv, NEW s \in Slots, NEW t \in Slots, resources[s].id # 0,
         resources[t].id = resources[s].id
  PROVE  s = t
  BY DEF HandleInv

(* Steps that tell the guest nothing of a handle and move no stream.        *)
HandlesStill ==
  /\ \A s \in Slots :
       /\ resources'[s].id = resources[s].id
       /\ resources'[s].ready <=> resources[s].ready
       /\ resources'[s].ended <=> resources[s].ended
       /\ resources'[s].endSeen <=> resources[s].endSeen
       /\ resources'[s].endOffset = resources[s].endOffset
       /\ resources'[s].gapOffset = resources[s].gapOffset
       /\ resources'[s].gapCount = resources[s].gapCount
       /\ resources'[s].closed => resources'[s].closing
       /\ resources[s].id = 0 => resources'[s] = resources[s]
       /\ resources[s].id # 0 => ownerOf'[resources[s].id] = ownerOf[resources[s].id]
  /\ UNCHANGED <<events, sent, stage, next>>
  /\ nextId' \in {nextId, nextId + 1}
  /\ \A h \in finished' : h \in finished \/ h < nextId
  /\ (pc = "opening" \/ pc' = "opening") => UNCHANGED <<pc, slot>>

(* The data of a handle stay where they are. *)
LEMMA TilesSame ==
  ASSUME NEW h, NEW t, Tiles(h, t), UNCHANGED events, next'[h] = next[h]
  PROVE  Tiles(h, t)'
  BY DEF Tiles, IsData

LEMMA StillKeeps ==
  ASSUME TypeOK, TypeOK', HandleSide, HandlesStill
  PROVE  HandleSide'
  <1>1. FreeZero'
    BY DEF HandleSide, HandlesStill, FreeZero
  <1>2. Unheard'
    <2>1. nextId \in Nat /\ nextId' \in Nat /\ nextId <= nextId' /\ Ids \in SUBSET Nat
      BY CounterTypes DEF HandlesStill
    <2>2. \A h \in Ids : h >= nextId' => h >= nextId /\ ~(h < nextId)
      BY <2>1
    <2>3. \A i \in DOMAIN events : events[i].handle < nextId'
      <3>1. \A h \in Ids : h < nextId => h < nextId'
        BY <2>1
      <3> QED BY <3>1, RingTypes DEF HandleSide, Unheard
    <2> QED BY <2>2, <2>3 DEF HandleSide, HandlesStill, Unheard
  <1>3. \A s \in Slots : Opening(s)' <=> Opening(s)
    BY DEF HandlesStill, Opening
  <1>4. HandlesAgree'
    <2>1. ASSUME NEW s \in Slots, resources'[s].id # 0
          PROVE  HandleAgrees(s)'
      BY <1>3, <2>1 DEF HandleSide, HandlesStill, HandlesAgree, HandleAgrees, StageOf
    <2>2. pc' = "opening" => resources'[slot'].id # 0
      BY DEF HandleSide, HandlesStill, HandlesAgree, TypeOK, LoopOK
    <2> QED BY <2>1, <2>2 DEF HandlesAgree
  <1>5. StreamsTile'
    <2>1. ASSUME NEW h \in Ids
          PROVE  \E t \in Nat : Tiles(h, t)' /\ \A s \in Slots : resources'[s].id = h => t = TailOf(s)'
      <3>1. PICK t \in Nat : Tiles(h, t) /\ \A s \in Slots : resources[s].id = h => t = TailOf(s)
        BY DEF HandleSide, StreamsTile
      <3>2. Tiles(h, t)'
        BY <3>1, TilesSame DEF HandlesStill
      <3>3. \A s \in Slots : TailOf(s)' = TailOf(s)
        BY DEF TailOf, HandlesStill
      <3> QED BY <3>1, <3>2, <3>3 DEF HandlesStill
    <2> QED BY <2>1 DEF StreamsTile
  <1>6. EventsInside'
    BY DEF HandleSide, HandlesStill, EventsInside
  <1> QED BY <1>1, <1>2, <1>4, <1>5, <1>6 DEF HandleSide

-----------------------------------------------------------------------------
(* The steps that are still in this sense.                                  *)

LEMMA StillWhenSame ==
  ASSUME HandleSide, UNCHANGED <<resources, events, sent, stage, next, ownerOf, finished, nextId>>,
         (pc = "opening" \/ pc' = "opening") => UNCHANGED <<pc, slot>>
  PROVE  HandlesStill
  <1>1. \A s \in Slots : resources[s].closed => resources[s].closing
    <2>1. ~NoResource.closed
      BY DEF NoResource
    <2> QED BY <2>1 DEF HandleSide, FreeZero, HandlesAgree, HandleAgrees
  <1> QED BY <1>1 DEF HandlesStill

LEMMA CloseHandleStill ==
  ASSUME TypeOK, HandleSide, NEW h, h # 0, CloseHandle(h),
         UNCHANGED <<events, sent, stage, next, ownerOf, finished, nextId>>,
         (pc = "opening" \/ pc' = "opening") => UNCHANGED <<pc, slot>>
  PROVE  HandlesStill
  <1>1. ASSUME NEW s \in Slots
        PROVE  /\ resources'[s].id = resources[s].id
               /\ resources'[s].ready <=> resources[s].ready
               /\ resources'[s].ended <=> resources[s].ended
               /\ resources'[s].endSeen <=> resources[s].endSeen
               /\ resources'[s].endOffset = resources[s].endOffset
               /\ resources'[s].gapOffset = resources[s].gapOffset
               /\ resources'[s].gapCount = resources[s].gapCount
               /\ resources'[s].closed => resources'[s].closing
               /\ resources[s].id = 0 => resources'[s] = resources[s]
    <2>1. CASE resources[s].id = h
      <3>1. resources'[s] = [resources[s] EXCEPT !.closing = TRUE] /\ resources[s] \in Resource
        BY <2>1, SlotTypes DEF CloseHandle
      <3> QED BY <2>1, <3>1 DEF Resource
    <2>2. CASE resources[s].id # h
      <3>1. resources'[s] = resources[s]
        BY <2>2 DEF CloseHandle
      <3>2. resources[s].closed => resources[s].closing
        <4>1. ~NoResource.closed
          BY DEF NoResource
        <4> QED BY <4>1 DEF HandleSide, FreeZero, HandlesAgree, HandleAgrees
      <3> QED BY <3>1, <3>2
    <2> QED BY <2>1, <2>2
  <1> QED BY <1>1 DEF HandlesStill

LEMMA NativeCloseStill ==
  ASSUME TypeOK, HandleInv, HandleSide, NEW s \in Slots, NEW ok \in BOOLEAN, NativeClose(s, ok)
  PROVE  HandlesStill
  <1>1. /\ UNCHANGED <<events, sent, stage, next, ownerOf, finished, nextId>>
        /\ pc = "nativeClose" /\ pc' # "opening"
        /\ resources' = resources \/ resources' = [resources EXCEPT ![slot].closed = TRUE]
    BY DEF NativeClose, NextSlot, AfterSweep, ledger, guest
  <1>2. slot \in Slots /\ resources[slot].closing /\ resources[slot].id # 0
    <2>1. slot \in Slots /\ resources[slot].closing
      BY <1>1 DEF HandleInv, TypeOK, LoopOK
    <2>2. ~NoResource.closing
      BY DEF NoResource
    <2> QED BY <2>1, <2>2 DEF HandleSide, FreeZero
  <1>3. CASE resources' = resources
    BY <1>1, <1>3, StillWhenSame
  <1>4. CASE resources' = [resources EXCEPT ![slot].closed = TRUE]
    <2>1. ASSUME NEW t \in Slots
          PROVE  /\ resources'[t].id = resources[t].id
                 /\ resources'[t].ready <=> resources[t].ready
                 /\ resources'[t].ended <=> resources[t].ended
                 /\ resources'[t].endSeen <=> resources[t].endSeen
                 /\ resources'[t].endOffset = resources[t].endOffset
                 /\ resources'[t].gapOffset = resources[t].gapOffset
                 /\ resources'[t].gapCount = resources[t].gapCount
                 /\ resources'[t].closed => resources'[t].closing
                 /\ resources[t].id = 0 => resources'[t] = resources[t]
      <3>1. CASE t = slot
        <4>1. resources'[t] = [resources[t] EXCEPT !.closed = TRUE] /\ resources[t] \in Resource
          BY <1>2, <1>4, <3>1, SlotTypes DEF TypeOK, TablesOK
        <4> QED BY <1>2, <3>1, <4>1 DEF Resource
      <3>2. CASE t # slot
        <4>1. resources'[t] = resources[t]
          BY <1>4, <3>2 DEF TypeOK, TablesOK
        <4>2. resources[t].closed => resources[t].closing
          <5>1. ~NoResource.closed
            BY DEF NoResource
          <5> QED BY <5>1 DEF HandleSide, FreeZero, HandlesAgree, HandleAgrees
        <4> QED BY <4>1, <4>2
      <3> QED BY <3>1, <3>2
    <2> QED BY <1>1, <2>1 DEF HandlesStill
  <1> QED BY <1>1, <1>3, <1>4

LEMMA SubmitStill ==
  ASSUME TypeOK, HandleInv, HandleSide, NEW r \in Slots, NEW s \in Slots, Submit(r, s)
  PROVE  HandlesStill
  <1>1. /\ UNCHANGED <<resources, events, sent, stage, next, finished, pc, slot>>
        /\ ownerOf' = [ownerOf EXCEPT ![nextId] = resources[r].id] /\ nextId' = nextId + 1
    BY DEF Submit, cursor, driver, guest
  <1>2. \A t \in Slots : resources[t].id # 0 =>
          resources[t].id \in Ids /\ resources[t].id # nextId
    BY HandleIds, SlotTypes, CounterTypes
  <1>3. \A t \in Slots : resources[t].id # 0 => ownerOf'[resources[t].id] = ownerOf[resources[t].id]
    BY <1>1, <1>2 DEF TypeOK, HistoryOK
  <1>4. \A t \in Slots : resources[t].closed => resources[t].closing
    <2>1. ~NoResource.closed
      BY DEF NoResource
    <2> QED BY <2>1 DEF HandleSide, FreeZero, HandlesAgree, HandleAgrees
  <1> QED BY <1>1, <1>3, <1>4 DEF HandlesStill

LEMMA StillSteps ==
  ASSUME TypeOK, HandleInv, HandleSide,
         \/ \E s \in Slots : Cancel(s) \/ Close(s) \/ \E r \in Slots : Submit(r, s)
         \/ \E s \in Slots : \E status \in {"done", "unknown"} : Complete(s, status)
         \/ \E v \in 0 .. LastVisit : ObserveComplete(v) \/ ObserveOther(v)
         \/ \E s \in Slots : \E ok \in BOOLEAN : NativeClose(s, ok)
         \/ \E ok \in BOOLEAN : StartReturn(ok)
         \/ TurnFault \/ TurnEnd \/ DispatchRequest \/ SweepResource \/ ObserveReturn
         \/ Idle \/ WaitEnd(FALSE) \/ WaitEnd(TRUE) \/ FaultedEnd \/ Shutdown \/ DestroyCheck
         \/ Stop \/ UNCHANGED vars
  PROVE  HandlesStill
  <1> DEFINE Same == /\ UNCHANGED <<resources, events, sent, stage, next, ownerOf, finished, nextId>>
                     /\ (pc = "opening" \/ pc' = "opening") => UNCHANGED <<pc, slot>>
  <1>1. ASSUME NEW s \in Slots, Close(s) \/ \E r \in Slots : Submit(r, s)
        PROVE  HandlesStill
    <2>1. CASE Close(s)
      BY <2>1, CloseHandleStill DEF Close, cursor, driver, ledger, guest
    <2> QED BY <1>1, <2>1, SubmitStill
  <1>2. ASSUME NEW s \in Slots, Cancel(s) \/ \E status \in {"done", "unknown"} : Complete(s, status)
        PROVE  Same
    BY <1>2 DEF Cancel, Complete, cursor, driver, ledger, guest
  <1>3. ASSUME NEW v, ObserveComplete(v) \/ ObserveOther(v)
        PROVE  Same
    BY <1>3 DEF ObserveComplete, ObserveOther, core, driver, ledger, guest, Visits
  <1>4. ASSUME NEW ok \in BOOLEAN, StartReturn(ok)
        PROVE  Same
    BY <1>4 DEF StartReturn, NextSlot, ledger, guest
  <1>5. ASSUME DispatchRequest
        PROVE  Same
    BY <1>5 DEF DispatchRequest, NextSlot, guest
  <1>6. ASSUME TurnFault \/ TurnEnd \/ SweepResource \/ ObserveReturn
        PROVE  Same
    BY <1>6 DEF TurnFault, TurnEnd, SweepResource, ObserveReturn, NextSlot, AfterSweep, core,
                driver, ledger, guest
  <1>7. ASSUME Idle \/ WaitEnd(FALSE) \/ WaitEnd(TRUE) \/ FaultedEnd \/ DestroyCheck
        PROVE  Same
    BY <1>7 DEF Idle, WaitEnd, FaultedEnd, DestroyCheck, core, driver, ledger, guest
  <1>8. ASSUME Stop \/ UNCHANGED vars
        PROVE  Same
    BY <1>8 DEF Stop, vars, core, cursor, driver, ledger, guest
  <1>9. CASE Shutdown
    <2>1. UNCHANGED <<events, sent, stage, next, ownerOf, finished, nextId>>
          /\ pc = "shutdown" /\ pc' # "opening"
      BY <1>9 DEF Shutdown, NextSlot, driver, ledger, guest
    <2>2. CASE resources[slot].id # 0
      BY <1>9, <2>1, <2>2, CloseHandleStill DEF Shutdown
    <2>3. CASE resources[slot].id = 0
      BY <1>9, <2>1, <2>3, StillWhenSame DEF Shutdown
    <2> QED BY <2>2, <2>3
  <1>10. CASE Same
    BY <1>10, StillWhenSame
  <1> HIDE DEF Same
  <1> QED BY <1>1, <1>2, <1>3, <1>4, <1>5, <1>6, <1>7, <1>8, <1>9, <1>10, NativeCloseStill

-----------------------------------------------------------------------------
(* How the data of a handle move with the ring.                             *)

LEMMA RingGrown ==
  ASSUME TypeOK, NEW e, events' = Append(events, e)
  PROVE  /\ Len(events) \in Nat /\ Len(events) + 1 \in DOMAIN events'
         /\ DOMAIN events = 1 .. Len(events) /\ DOMAIN events' = 1 .. Len(events) + 1
         /\ \A i \in DOMAIN events : i \in DOMAIN events' /\ events'[i] = events[i]
         /\ events'[Len(events) + 1] = e
         /\ \A i \in DOMAIN events' : i \in DOMAIN events \/ i = Len(events) + 1
  <1>1. \A S : events \in Seq(S) =>
          /\ Len(events) \in Nat /\ DOMAIN events = 1 .. Len(events)
          /\ DOMAIN Append(events, e) = 1 .. Len(events) + 1
          /\ \A i \in 1 .. Len(events) : Append(events, e)[i] = events[i]
          /\ Append(events, e)[Len(events) + 1] = e
    OBVIOUS
  <1>2. events \in Seq([handle : Ids, kind : EventKinds, offset : Nat])
    BY RingTypes
  <1>3. /\ Len(events) \in Nat /\ DOMAIN events = 1 .. Len(events)
        /\ DOMAIN events' = 1 .. Len(events) + 1
        /\ \A i \in 1 .. Len(events) : events'[i] = events[i]
        /\ events'[Len(events) + 1] = e
    BY <1>1, <1>2
  <1> QED BY <1>3

(* A fact of another handle, or one that is no data, moves no stream.       *)
LEMMA TilesPass ==
  ASSUME TypeOK, NEW e, events' = Append(events, e), NEW h, e.handle # h \/ e.kind # "data",
         next'[h] = next[h], NEW t, Tiles(h, t)
  PROVE  Tiles(h, t)'
  <1>1. \A i \in DOMAIN events' : IsData(i, h)' =>
          i \in DOMAIN events /\ IsData(i, h) /\ events'[i] = events[i]
    BY RingGrown DEF IsData
  <1>2. \A i \in DOMAIN events : IsData(i, h) =>
          i \in DOMAIN events' /\ IsData(i, h)' /\ events'[i] = events[i]
    BY RingGrown DEF IsData
  <1>3. next'[h] <= t /\ \A i \in DOMAIN events' :
          IsData(i, h)' => next'[h] <= events'[i].offset /\ events'[i].offset < t
    BY <1>1 DEF Tiles
  <1>4. \A i, j \in DOMAIN events' :
          i < j /\ IsData(i, h)' /\ IsData(j, h)' => events'[i].offset < events'[j].offset
    BY <1>1 DEF Tiles
  <1>5. \A x \in Nat : next'[h] <= x /\ x < t =>
          \E i \in DOMAIN events' : IsData(i, h)' /\ events'[i].offset = x
    BY <1>2 DEF Tiles
  <1> QED BY <1>3, <1>4, <1>5 DEF Tiles

(* The record a driver sends next continues its stream.                     *)
LEMMA TilesGrow ==
  ASSUME TypeOK, NEW h \in Ids, NEW t \in Nat, Tiles(h, t), next'[h] = next[h],
         events' = Append(events, [handle |-> h, kind |-> "data", offset |-> t])
  PROVE  Tiles(h, t + 1)'
  <1> DEFINE e == [handle |-> h, kind |-> "data", offset |-> t]
             n == Len(events) + 1
  <1>1. /\ n \in Nat /\ n \in DOMAIN events' /\ events'[n] = e
        /\ \A i \in DOMAIN events : i \in DOMAIN events' /\ events'[i] = events[i] /\ i < n
                                    /\ i \in Nat
        /\ \A i \in DOMAIN events' : i \in DOMAIN events \/ i = n
    BY RingGrown
  <1>2. next[h] \in Nat /\ \A i \in DOMAIN events : events[i].offset \in Nat
    BY CounterTypes, RingTypes
  <1>3. e.handle = h /\ e.kind = "data" /\ e.offset = t
    OBVIOUS
  <1> HIDE DEF e, n
  <1>4. \A i \in DOMAIN events' : IsData(i, h)' =>
          \/ i = n /\ events'[i].offset = t
          \/ i \in DOMAIN events /\ IsData(i, h) /\ events'[i] = events[i]
    BY <1>1, <1>3 DEF IsData
  <1>5. next'[h] <= t + 1 /\ \A i \in DOMAIN events' :
          IsData(i, h)' => next'[h] <= events'[i].offset /\ events'[i].offset < t + 1
    BY <1>2, <1>4 DEF Tiles
  <1>6. ASSUME NEW i \in DOMAIN events', NEW j \in DOMAIN events', i < j,
               IsData(i, h)', IsData(j, h)'
        PROVE  events'[i].offset < events'[j].offset
    <2>1. i # n
      BY <1>1, <1>6
    <2>2. i \in DOMAIN events /\ IsData(i, h) /\ events'[i] = events[i]
      BY <1>4, <1>6, <2>1
    <2> QED BY <1>4, <1>6, <2>2 DEF Tiles
  <1>7. ASSUME NEW x \in Nat, next'[h] <= x, x < t + 1
        PROVE  \E i \in DOMAIN events' : IsData(i, h)' /\ events'[i].offset = x
    <2>1. CASE x = t
      BY <1>1, <1>3, <2>1 DEF IsData
    <2>2. CASE x # t
      <3>1. PICK i \in DOMAIN events : IsData(i, h) /\ events[i].offset = x
        BY <1>2, <1>7, <2>2 DEF Tiles
      <3>2. i \in DOMAIN events' /\ events'[i] = events[i]
        BY <1>1
      <3> QED BY <3>1, <3>2 DEF IsData
    <2> QED BY <2>1, <2>2
  <1> QED BY <1>5, <1>6, <1>7 DEF Tiles

LEMMA RingTaken ==
  ASSUME TypeOK, events # <<>>, events' = Tail(events)
  PROVE  /\ 1 \in DOMAIN events /\ Head(events) = events[1]
         /\ \A i \in DOMAIN events' : i \in Nat /\ i + 1 \in DOMAIN events
                                      /\ events'[i] = events[i + 1]
         /\ \A j \in DOMAIN events : j # 1 =>
              j \in Nat /\ j > 1 /\ j - 1 \in DOMAIN events' /\ events'[j - 1] = events[j]
         /\ Len(events') = Len(events) - 1 /\ Len(events) \in Nat
  <1>1. \A S : events \in Seq(S) =>
          /\ Len(events) \in Nat /\ Len(events) > 0 /\ DOMAIN events = 1 .. Len(events)
          /\ Len(Tail(events)) = Len(events) - 1
          /\ DOMAIN Tail(events) = 1 .. Len(events) - 1
          /\ \A i \in 1 .. Len(events) - 1 : Tail(events)[i] = events[i + 1]
          /\ Head(events) = events[1]
    OBVIOUS
  <1>2. events \in Seq([handle : Ids, kind : EventKinds, offset : Nat])
    BY RingTypes
  <1>3. /\ Len(events) \in Nat /\ Len(events) > 0 /\ DOMAIN events = 1 .. Len(events)
        /\ Len(events') = Len(events) - 1
        /\ DOMAIN events' = 1 .. Len(events) - 1
        /\ \A i \in 1 .. Len(events) - 1 : events'[i] = events[i + 1]
        /\ Head(events) = events[1]
    BY <1>1, <1>2
  <1>4. \A j \in DOMAIN events : j # 1 =>
          j \in Nat /\ j > 1 /\ j - 1 \in 1 .. Len(events) - 1 /\ (j - 1) + 1 = j
    BY <1>3
  <1>5. \A j \in DOMAIN events : j # 1 =>
          j \in Nat /\ j > 1 /\ j - 1 \in DOMAIN events' /\ events'[j - 1] = events[j]
    BY <1>3, <1>4
  <1>6. \A i \in DOMAIN events' : i \in Nat /\ i + 1 \in DOMAIN events
                                  /\ events'[i] = events[i + 1]
    BY <1>3
  <1>7. 1 \in DOMAIN events
    BY <1>3
  <1> QED BY <1>3, <1>5, <1>6, <1>7

(* The oldest data record of a handle is the one its guest expects.         *)
LEMMA HeadExpected ==
  ASSUME TypeOK, NEW h \in Ids, NEW t \in Nat, Tiles(h, t), 1 \in DOMAIN events, IsData(1, h)
  PROVE  events[1].offset = next[h] /\ next[h] < t
  <1>1. next[h] \in Nat /\ next[h] <= events[1].offset /\ events[1].offset < t
        /\ events[1].offset \in Nat
    BY CounterTypes, RingTypes DEF Tiles
  <1>2. PICK i \in DOMAIN events : IsData(i, h) /\ events[i].offset = next[h]
    BY <1>1 DEF Tiles
  <1>3. i = 1 \/ 1 < i
    BY RingTypes
  <1>4. 1 < i => events[1].offset < events[i].offset
    BY <1>2 DEF Tiles
  <1> QED BY <1>1, <1>2, <1>3, <1>4

LEMMA TilesTake ==
  ASSUME TypeOK, events # <<>>, events' = Tail(events), NEW h \in Ids, NEW t \in Nat, Tiles(h, t),
         next'[h] = IF IsData(1, h) THEN next[h] + 1 ELSE next[h]
  PROVE  Tiles(h, t)'
  <1>1. next[h] \in Nat /\ \A i \in DOMAIN events : i \in Nat /\ events[i].offset \in Nat
    BY CounterTypes, RingTypes
  <1>2. \A i \in DOMAIN events' : /\ i \in Nat /\ i + 1 \in DOMAIN events /\ 1 < i + 1
                                  /\ events'[i] = events[i + 1]
                                  /\ IsData(i, h)' => IsData(i + 1, h)
    <2>1. \A i \in DOMAIN events' : i \in Nat /\ i + 1 \in DOMAIN events /\ i + 1 # 1 /\ 1 < i + 1
      <3>1. \A i \in DOMAIN events' : i \in 1 .. Len(events')
        BY RingTaken, RingTypes
      <3> QED BY <3>1, RingTaken
    <2> QED BY <2>1, RingTaken DEF IsData
  <1>3. 1 \in DOMAIN events /\ (IsData(1, h) => events[1].offset = next[h] /\ next[h] < t)
    BY RingTaken, HeadExpected
  <1>4. next'[h] <= t /\ next'[h] \in Nat
    BY <1>1, <1>3 DEF Tiles
  <1>5. \A i \in DOMAIN events' :
          IsData(i, h)' => next'[h] <= events'[i].offset /\ events'[i].offset < t
    <2>1. ASSUME NEW i \in DOMAIN events', IsData(i, h)'
          PROVE  next'[h] <= events'[i].offset /\ events'[i].offset < t
      <3>1. IsData(i + 1, h) /\ i + 1 \in DOMAIN events /\ 1 < i + 1 /\ events'[i] = events[i + 1]
        BY <1>2, <2>1
      <3>2. next[h] <= events[i + 1].offset /\ events[i + 1].offset < t /\ events[i + 1].offset \in Nat
        BY <1>1, <3>1 DEF Tiles
      <3>3. IsData(1, h) => events[1].offset < events[i + 1].offset
        BY <1>3, <3>1 DEF Tiles
      <3> QED BY <1>1, <1>3, <3>1, <3>2, <3>3
    <2> QED BY <2>1
  <1>6. \A i, j \in DOMAIN events' :
          i < j /\ IsData(i, h)' /\ IsData(j, h)' => events'[i].offset < events'[j].offset
    <2>1. ASSUME NEW i \in DOMAIN events', NEW j \in DOMAIN events', i < j, IsData(i, h)', IsData(j, h)'
          PROVE  events'[i].offset < events'[j].offset
      <3>1. i + 1 < j + 1
        BY <1>2, <2>1
      <3> QED BY <1>2, <2>1, <3>1 DEF Tiles
    <2> QED BY <2>1
  <1>7. ASSUME NEW x \in Nat, next'[h] <= x, x < t
        PROVE  \E i \in DOMAIN events' : IsData(i, h)' /\ events'[i].offset = x
    <2>1. next[h] <= x /\ (IsData(1, h) => x # next[h])
      BY <1>1, <1>7
    <2>2. PICK j \in DOMAIN events : IsData(j, h) /\ events[j].offset = x
      BY <1>7, <2>1 DEF Tiles
    <2>3. j # 1
      BY <1>3, <2>1, <2>2
    <2>4. j - 1 \in DOMAIN events' /\ events'[j - 1] = events[j]
      BY <2>3, RingTaken
    <2> QED BY <2>2, <2>4 DEF IsData
  <1> QED BY <1>4, <1>5, <1>6, <1>7 DEF Tiles

-----------------------------------------------------------------------------
(* A step that rewrites the slot of one handle, or gives it one, leaves the *)
(* other handles as they were.                                              *)
LEMMA OneHandle ==
  ASSUME TypeOK, TypeOK', HandleInv, HandleSide,
         NEW s \in Slots, NEW h \in Ids, resources'[s].id = h, resources[s].id \in {0, h},
         \A u \in Slots : u # s => resources'[u] = resources[u] /\ resources[u].id # h,
         \A u \in Slots : u # s => (Opening(u)' <=> Opening(u)),
         pc' = "opening" => resources'[slot'].id # 0,
         UNCHANGED ownerOf, nextId' \in {nextId, nextId + 1}, h < nextId',
         \A g \in finished' : g \in finished \/ g < nextId,
         \A g \in Ids : g # h =>
           stage'[g] = stage[g] /\ next'[g] = next[g] /\ sent'[g] = sent[g],
         \A i \in DOMAIN events' : \/ i \in DOMAIN events /\ events'[i] = events[i]
                                   \/ events'[i].handle = h,
         \A g \in Ids : \A t \in Nat : g # h /\ Tiles(g, t) => Tiles(g, t)',
         \E t \in Nat : Tiles(h, t)' /\ t = TailOf(s)',
         resources'[s].endSeen => \A i \in DOMAIN events' : events'[i].handle # h,
         HandleAgrees(s)'
  PROVE  HandleSide'
  <1>1. FreeZero'
    BY CounterTypes DEF HandleSide, FreeZero
  <1>2. Unheard'
    <2>1. nextId \in Nat /\ nextId' \in Nat /\ nextId <= nextId' /\ Ids \in SUBSET Nat
      BY CounterTypes
    <2>2. \A g \in Ids : g >= nextId' => g >= nextId /\ ~(g < nextId) /\ g # h
      BY <2>1
    <2>3. \A g \in Ids : g < nextId => g < nextId'
      BY <2>1
    <2>4. \A i \in DOMAIN events' : events'[i].handle < nextId'
      BY <2>3, RingTypes DEF HandleSide, Unheard
    <2> QED BY <2>2, <2>4 DEF HandleSide, Unheard
  <1>3. HandlesAgree'
    <2>1. ASSUME NEW u \in Slots, resources'[u].id # 0
          PROVE  HandleAgrees(u)'
      <3>1. CASE u = s
        BY <3>1
      <3>2. CASE u # s
        <4>1. /\ resources'[u] = resources[u] /\ resources[u].id # h /\ resources[u].id \in Ids
              /\ resources[u].id # 0 /\ (Opening(u)' <=> Opening(u))
          BY <2>1, <3>2, SlotTypes
        <4>2. HandleAgrees(u)
          BY <4>1 DEF HandleSide, HandlesAgree
        <4>3. /\ ownerOf'[resources[u].id] = ownerOf[resources[u].id]
              /\ stage'[resources[u].id] = stage[resources[u].id]
              /\ next'[resources[u].id] = next[resources[u].id]
              /\ sent'[resources[u].id] = sent[resources[u].id]
          BY <4>1
        <4> QED BY <4>1, <4>2, <4>3 DEF HandleAgrees, StageOf
      <3> QED BY <3>1, <3>2
    <2> QED BY <2>1 DEF HandlesAgree
  <1>4. StreamsTile'
    <2>1. ASSUME NEW g \in Ids
          PROVE  \E t \in Nat : Tiles(g, t)' /\ \A u \in Slots : resources'[u].id = g => t = TailOf(u)'
      <3>1. CASE g = h
        BY <3>1
      <3>2. CASE g # h
        <4>1. PICK t \in Nat : Tiles(g, t) /\ \A u \in Slots : resources[u].id = g => t = TailOf(u)
          BY DEF HandleSide, StreamsTile
        <4>2. Tiles(g, t)'
          BY <3>2, <4>1
        <4>3. ASSUME NEW u \in Slots, resources'[u].id = g
              PROVE  t = TailOf(u)'
          <5>1. u # s /\ resources'[u] = resources[u] /\ sent'[g] = sent[g]
            BY <3>2, <4>3
          <5> QED BY <4>1, <4>3, <5>1 DEF TailOf
        <4> QED BY <4>2, <4>3
      <3> QED BY <3>1, <3>2
    <2> QED BY <2>1 DEF StreamsTile
  <1>5. EventsInside'
    <2>1. ASSUME NEW i \in DOMAIN events'
          PROVE  \/ \E u \in Slots : resources'[u].id = events'[i].handle /\ ~resources'[u].endSeen
                 \/ stage'[events'[i].handle] = "none"
                    /\ \A u \in Slots : resources'[u].id # events'[i].handle
      <3>1. CASE events'[i].handle = h
        BY <3>1
      <3>2. CASE events'[i].handle # h
        <4>1. i \in DOMAIN events /\ events'[i] = events[i] /\ events[i].handle \in Ids
              /\ events[i].handle # 0
          BY <3>2, RingTypes, CounterTypes
        <4>2. CASE \E u \in Slots : resources[u].id = events[i].handle /\ ~resources[u].endSeen
          BY <3>2, <4>1, <4>2
        <4>3. CASE stage[events[i].handle] = "none"
                   /\ \A u \in Slots : resources[u].id # events[i].handle
          BY <3>2, <4>1, <4>3
        <4> QED BY <4>1, <4>2, <4>3 DEF HandleSide, EventsInside
      <3> QED BY <3>1, <3>2
    <2> QED BY <2>1 DEF EventsInside
  <1> QED BY <1>1, <1>2, <1>3, <1>4, <1>5 DEF HandleSide

(* A handle leaves its slot: nothing of it is left in the ring, or its      *)
(* guest never learned it.                                                  *)
LEMMA LeftHandle ==
  ASSUME TypeOK, TypeOK', HandleInv, HandleSide,
         NEW s \in Slots, NEW h, h = resources[s].id, h # 0,
         resources' = [resources EXCEPT ![s] = NoResource],
         pc' # "opening", pc = "opening" => slot = s,
         UNCHANGED <<ownerOf, nextId, events, next, sent, finished>>,
         \A g \in Ids : g # h => stage'[g] = stage[g],
         stage'[h] = "none" \/ events = <<>>
  PROVE  HandleSide'
  <1>1. /\ h \in Ids /\ resources'[s] = NoResource /\ NoResource.id = 0
        /\ \A u \in Slots : u # s => resources'[u] = resources[u] /\ resources[u].id # h
    BY OneOwner, SlotTypes DEF TypeOK, TablesOK, NoResource
  <1>2. FreeZero'
    BY <1>1 DEF HandleSide, FreeZero
  <1>3. Unheard'
    <2>1. nextId \in Nat /\ h \in Nat /\ h < nextId
      BY HandleIds, CounterTypes
    <2>2. \A g \in Ids : g >= nextId => g # h
      BY <2>1, CounterTypes
    <2> QED BY <2>2 DEF HandleSide, Unheard
  <1>4. HandlesAgree'
    <2>1. ASSUME NEW u \in Slots, resources'[u].id # 0
          PROVE  HandleAgrees(u)'
      <3>1. /\ u # s /\ resources'[u] = resources[u] /\ resources[u].id # h
            /\ resources[u].id \in Ids /\ ~Opening(u) /\ ~Opening(u)'
        BY <1>1, <2>1, SlotTypes DEF Opening
      <3>2. HandleAgrees(u) /\ stage'[resources[u].id] = stage[resources[u].id]
        BY <2>1, <3>1 DEF HandleSide, HandlesAgree
      <3> QED BY <3>1, <3>2 DEF HandleAgrees, StageOf
    <2> QED BY <2>1 DEF HandlesAgree
  <1>5. StreamsTile'
    <2>1. ASSUME NEW g \in Ids
          PROVE  \E t \in Nat : Tiles(g, t)' /\ \A u \in Slots : resources'[u].id = g => t = TailOf(u)'
      <3>1. PICK t \in Nat : Tiles(g, t) /\ \A u \in Slots : resources[u].id = g => t = TailOf(u)
        BY DEF HandleSide, StreamsTile
      <3>2. Tiles(g, t)'
        BY <3>1, TilesSame
      <3>3. ASSUME NEW u \in Slots, resources'[u].id = g
            PROVE  t = TailOf(u)'
        <4>1. u # s /\ resources'[u] = resources[u]
          BY <1>1, <3>3, CounterTypes
        <4> QED BY <3>1, <3>3, <4>1 DEF TailOf
      <3> QED BY <3>2, <3>3
    <2> QED BY <2>1 DEF StreamsTile
  <1>6. EventsInside'
    <2>1. ASSUME NEW i \in DOMAIN events
          PROVE  \/ \E u \in Slots : resources'[u].id = events[i].handle /\ ~resources'[u].endSeen
                 \/ stage'[events[i].handle] = "none"
                    /\ \A u \in Slots : resources'[u].id # events[i].handle
      <3>1. events[i].handle \in Ids /\ events[i].handle # 0 /\ events # <<>>
        BY RingTypes, CounterTypes
      <3>2. CASE events[i].handle = h
        BY <1>1, <3>1, <3>2
      <3>3. CASE events[i].handle # h
        <4>1. CASE \E u \in Slots : resources[u].id = events[i].handle /\ ~resources[u].endSeen
          BY <1>1, <3>3, <4>1
        <4>2. CASE stage[events[i].handle] = "none"
                   /\ \A u \in Slots : resources[u].id # events[i].handle
          BY <1>1, <3>1, <3>3, <4>2
        <4> QED BY <4>1, <4>2 DEF HandleSide, EventsInside
      <3> QED BY <3>2, <3>3
    <2> QED BY <2>1 DEF EventsInside
  <1> QED BY <1>2, <1>3, <1>4, <1>5, <1>6 DEF HandleSide

-----------------------------------------------------------------------------
(* The steps that move a handle or its stream.                              *)

(* A step that rewrites the slot of a handle and leaves the ring alone.     *)
LEMMA OneSlot ==
  ASSUME TypeOK, TypeOK', HandleInv, HandleSide,
         NEW s \in Slots, NEW p, resources[s].id # 0, p.id = resources[s].id,
         resources' = [resources EXCEPT ![s] = p],
         UNCHANGED <<events, ownerOf, nextId>>,
         (pc' # "opening" /\ (pc = "opening" => slot = s)) \/ UNCHANGED <<pc, slot>>,
         \A g \in finished' : g \in finished \/ g < nextId,
         \A g \in Ids : g # p.id =>
           stage'[g] = stage[g] /\ next'[g] = next[g] /\ sent'[g] = sent[g],
         \E t \in Nat : Tiles(p.id, t)' /\ t = TailOf(s)',
         p.endSeen => \A i \in DOMAIN events : events[i].handle # p.id,
         HandleAgrees(s)'
  PROVE  HandleSide'
  <1> DEFINE h == resources[s].id
  <1>1. /\ h \in Ids /\ resources'[s] = p /\ h < nextId
        /\ \A u \in Slots : u # s => resources'[u] = resources[u] /\ resources[u].id # h
    BY OneOwner, SlotTypes, HandleIds DEF TypeOK, TablesOK
  <1>2. \A u \in Slots : u # s => (Opening(u)' <=> Opening(u))
    BY DEF Opening
  <1>3. pc' = "opening" => resources'[slot'].id # 0
    <2>1. pc' = "opening" => UNCHANGED slot /\ resources[slot].id # 0
      BY DEF HandleSide, HandlesAgree
    <2> QED BY <1>1, <2>1 DEF TypeOK, LoopOK
  <1>4. \A g \in Ids : \A t \in Nat : g # h /\ Tiles(g, t) => Tiles(g, t)'
    BY TilesSame
  <1> HIDE DEF h
  <1>5. h = p.id
    BY DEF h
  <1> QED BY <1>1, <1>2, <1>3, <1>4, <1>5, OneHandle DEF h

(* A stream that neither grows nor is taken from keeps its tail.            *)
LEMMA TailStays ==
  ASSUME TypeOK, HandleSide, NEW s \in Slots, NEW p, resources[s].id # 0,
         resources'[s] = p, p.id = resources[s].id,
         p.gapCount = resources[s].gapCount, p.gapOffset = resources[s].gapOffset,
         UNCHANGED events, next'[p.id] = next[p.id], sent'[p.id] = sent[p.id]
  PROVE  \E t \in Nat : Tiles(p.id, t)' /\ t = TailOf(s)'
  <1>1. p.id \in Ids
    BY SlotTypes
  <1>2. PICK t \in Nat : Tiles(p.id, t) /\ t = TailOf(s)
    BY <1>1 DEF HandleSide, StreamsTile
  <1>3. TailOf(s)' = TailOf(s)
    BY DEF TailOf
  <1>4. Tiles(p.id, t)'
    BY <1>2, TilesSame
  <1> QED BY <1>2, <1>3, <1>4

LEMMA ReadySide ==
  ASSUME TypeOK, TypeOK', HandleInv, HandleSide, NEW v \in Nat, ObserveReady(v)
  PROVE  HandleSide'
  <1>0. PICK s \in Slots : s = SlotAt(v)
    BY VisitType DEF ObserveReady, Visits
  <1> DEFINE r == resources[s]
             p == [r EXCEPT !.ready = FALSE]
  <1>1. s \in Slots /\ r \in Resource /\ r.id # 0 /\ r.ready /\ pc = "observe"
    BY <1>0, SlotTypes DEF ObserveReady, Visits, Copies, CanReady
  <1>2. /\ resources' = [resources EXCEPT ![s] = p]
        /\ stage' = [stage EXCEPT ![r.id] = "ready"]
        /\ UNCHANGED <<events, pc, slot, nextId, sent, ownerOf, finished, next>>
    BY <1>0, <1>1 DEF ObserveReady, driver, ledger, TypeOK, TablesOK
  <1>3. /\ p.id = r.id /\ p.gapCount = r.gapCount /\ p.gapOffset = r.gapOffset
        /\ p.ended = r.ended /\ p.endSeen = r.endSeen /\ p.endOffset = r.endOffset
        /\ p.closed = r.closed /\ p.closing = r.closing /\ ~p.ready
    BY <1>1 DEF Resource
  <1>4. HandleAgrees(s)
    BY <1>1 DEF HandleSide, HandlesAgree
  <1> HIDE DEF p
  <1>5. resources'[s] = p /\ stage'[r.id] = "ready" /\ r.id \in Ids
    BY <1>1, <1>2, SlotTypes DEF TypeOK, TablesOK, HistoryOK
  <1>6. ~p.endSeen
    BY <1>1, <1>3, <1>4 DEF HandleAgrees
  <1>7. HandleAgrees(s)'
    BY <1>1, <1>2, <1>3, <1>4, <1>5, <1>6 DEF HandleAgrees, StageOf, Opening
  <1>8. \A g \in Ids : g # p.id => stage'[g] = stage[g]
    BY <1>2, <1>3 DEF TypeOK, HistoryOK
  <1> QED BY <1>1, <1>2, <1>3, <1>5, <1>6, <1>7, <1>8, TailStays, OneSlot

(* The ring is empty: the guest expects what comes at the tail.             *)
LEMMA DrainedTail ==
  ASSUME TypeOK, HandleSide, NEW s \in Slots, resources[s].id # 0, events = <<>>
  PROVE  TailOf(s) = next[resources[s].id]
  <1>1. resources[s].id \in Ids
    BY SlotTypes
  <1>2. PICK t \in Nat : Tiles(resources[s].id, t) /\ t = TailOf(s)
    BY <1>1 DEF HandleSide, StreamsTile
  <1>3. next[resources[s].id] \in Nat /\ next[resources[s].id] <= t
    BY <1>1, <1>2, CounterTypes DEF Tiles
  <1>4. DOMAIN events = {}
    OBVIOUS
  <1>5. ~(next[resources[s].id] < t)
    BY <1>2, <1>3, <1>4 DEF Tiles
  <1> QED BY <1>2, <1>3, <1>5

LEMMA GapSide ==
  ASSUME TypeOK, TypeOK', HandleInv, HandleSide, NEW v \in Nat, ObserveGap(v)
  PROVE  HandleSide'
  <1>0. PICK s \in Slots : s = SlotAt(v)
    BY VisitType DEF ObserveGap, Visits
  <1> DEFINE r == resources[s]
             p == [r EXCEPT !.gapCount = 0]
  <1>1. /\ s \in Slots /\ r \in Resource /\ r.id # 0 /\ ~r.ready /\ r.gapCount > 0
        /\ events = <<>> /\ pc = "observe"
    BY <1>0, SlotTypes DEF ObserveGap, Visits, CanGap, Drained
  <1>2. /\ resources' = [resources EXCEPT ![s] = p]
        /\ next' = [next EXCEPT ![r.id] = r.gapOffset + r.gapCount]
        /\ UNCHANGED <<events, pc, slot, nextId, sent, ownerOf, finished, stage>>
    BY <1>0, <1>1 DEF ObserveGap, driver, ledger, TypeOK, TablesOK
  <1>3. /\ p.id = r.id /\ p.gapCount = 0
        /\ p.ended = r.ended /\ p.endSeen = r.endSeen /\ p.endOffset = r.endOffset
        /\ p.closed = r.closed /\ p.closing = r.closing /\ p.ready = r.ready
    BY <1>1 DEF Resource
  <1>4. HandleAgrees(s)
    BY <1>1 DEF HandleSide, HandlesAgree
  <1> HIDE DEF p
  <1>5. /\ resources'[s] = p /\ r.id \in Ids /\ next'[r.id] = sent[r.id] /\ sent[r.id] \in Nat
    BY <1>1, <1>2, <1>4, SlotTypes, CounterTypes DEF HandleAgrees, TypeOK, TablesOK
  <1>6. HandleAgrees(s)'
    BY <1>1, <1>2, <1>3, <1>4, <1>5 DEF HandleAgrees, StageOf, Opening
  <1>10. PICK h \in Ids : h = p.id
    BY <1>3, <1>5
  <1>7. \E t \in Nat : Tiles(h, t)' /\ t = TailOf(s)'
    <2>2. PICK t \in Nat : t = sent[h]
      BY CounterTypes
    <2>3. DOMAIN events' = {} /\ next'[h] = t
      BY <1>1, <1>2, <1>3, <1>5, <1>10, <2>2
    <2>4. TailOf(s)' = t
      BY <1>2, <1>3, <1>5, <1>10, <2>2 DEF TailOf
    <2>5. Tiles(h, t)'
      BY <2>3 DEF Tiles
    <2> QED BY <2>4, <2>5
  <1>8. \A g \in Ids : g # p.id => next'[g] = next[g]
    BY <1>2, <1>3, CounterTypes
  <1>9. DOMAIN events = {}
    BY <1>1
  <1> QED BY <1>1, <1>2, <1>3, <1>5, <1>6, <1>7, <1>8, <1>9, <1>10, OneSlot

LEMMA EndSeenSide ==
  ASSUME TypeOK, TypeOK', HandleInv, HandleSide, NEW v \in Nat, ObserveEnd(v)
  PROVE  HandleSide'
  <1>0. PICK s \in Slots : s = SlotAt(v)
    BY VisitType DEF ObserveEnd, Visits
  <1> DEFINE r == resources[s]
             p == [r EXCEPT !.endSeen = TRUE]
  <1>1. /\ s \in Slots /\ r \in Resource /\ r.id # 0 /\ ~r.ready /\ r.ended /\ r.gapCount = 0
        /\ events = <<>> /\ pc = "observe"
    BY <1>0, SlotTypes DEF ObserveEnd, Visits, CanEnd, Drained
  <1>2. /\ resources' = [resources EXCEPT ![s] = p]
        /\ stage' = [stage EXCEPT ![r.id] = "ended"]
        /\ UNCHANGED <<events, pc, slot, nextId, sent, ownerOf, finished, next>>
    BY <1>0, <1>1 DEF ObserveEnd, driver, ledger, TypeOK, TablesOK
  <1>3. /\ p.id = r.id /\ p.gapCount = r.gapCount /\ p.gapOffset = r.gapOffset
        /\ p.ended = r.ended /\ p.endSeen /\ p.endOffset = r.endOffset
        /\ p.closed = r.closed /\ p.closing = r.closing /\ p.ready = r.ready
    BY <1>1 DEF Resource
  <1>4. HandleAgrees(s)
    BY <1>1 DEF HandleSide, HandlesAgree
  <1> HIDE DEF p
  <1>5. resources'[s] = p /\ stage'[r.id] = "ended" /\ r.id \in Ids
    BY <1>1, <1>2, SlotTypes DEF TypeOK, TablesOK, HistoryOK
  <1>7. HandleAgrees(s)'
    BY <1>1, <1>2, <1>3, <1>4, <1>5 DEF HandleAgrees, StageOf, Opening
  <1>8. \A g \in Ids : g # p.id => stage'[g] = stage[g]
    BY <1>2, <1>3 DEF TypeOK, HistoryOK
  <1>9. DOMAIN events = {}
    BY <1>1
  <1> QED BY <1>1, <1>2, <1>3, <1>5, <1>7, <1>8, <1>9, TailStays, OneSlot

(* The producer's end, alone or with the request it finishes.               *)
LEMMA EndSide ==
  ASSUME TypeOK, TypeOK', HandleInv, SlotInv, HandleSide, NEW r \in Slots,
         End(r) \/ \E s \in Slots : Finish(r, s)
  PROVE  HandleSide'
  <1> DEFINE q == resources[r]
             p == [q EXCEPT !.ended = TRUE, !.endOffset = sent[q.id]]
  <1>1. q \in Resource /\ q.id # 0 /\ q.id \in Ids /\ ~q.ended
    BY SlotTypes DEF End, Finish
  <1>2. /\ resources' = [resources EXCEPT ![r] = p]
        /\ UNCHANGED <<events, pc, slot, nextId, sent, ownerOf, stage, next>>
    BY <1>1 DEF End, Finish, driver, ledger, guest, cursor, TypeOK, TablesOK
  <1>3. \A g \in finished' : g \in finished \/ g < nextId
    <2>1. ASSUME NEW s \in Slots, Finish(r, s)
          PROVE  requests[s].id < nextId
      BY <2>1 DEF Finish, AwaitsNative, SlotInv, SlotAgrees
    <2>2. ASSUME NEW s \in Slots, Finish(r, s)
          PROVE  finished' = finished \/ finished' = finished \cup {requests[s].id}
      BY <2>2 DEF Finish
    <2>3. End(r) => finished' = finished
      BY DEF End, ledger
    <2> QED BY <2>1, <2>2, <2>3
  <1>4. /\ p.id = q.id /\ p.gapCount = q.gapCount /\ p.gapOffset = q.gapOffset
        /\ p.ended /\ p.endSeen = q.endSeen /\ p.endOffset = sent[q.id]
        /\ p.closed = q.closed /\ p.closing = q.closing /\ p.ready = q.ready
    BY <1>1 DEF Resource
  <1>5. HandleAgrees(r)
    BY <1>1 DEF HandleSide, HandlesAgree
  <1> HIDE DEF p
  <1>6. resources'[r] = p
    BY <1>2 DEF TypeOK, TablesOK
  <1>7. ~p.endSeen
    BY <1>1, <1>4, <1>5 DEF HandleAgrees
  <1>8. HandleAgrees(r)'
    BY <1>2, <1>4, <1>5, <1>6 DEF HandleAgrees, StageOf, Opening
  <1> QED BY <1>1, <1>2, <1>3, <1>4, <1>6, <1>7, <1>8, TailStays, OneSlot

(* A lost record widens the gap at the tail.                                *)
LEMMA LostSide ==
  ASSUME TypeOK, TypeOK', HandleInv, HandleSide, NEW r \in Slots, Gap(r)
  PROVE  HandleSide'
  <1>0. PICK h : h = resources[r].id
    OBVIOUS
  <1> DEFINE q == resources[r]
             p == [q EXCEPT !.gapOffset = IF q.gapCount = 0 THEN sent[h] ELSE @,
                            !.gapCount = @ + 1]
  <1>1. q \in Resource /\ h # 0 /\ h \in Ids /\ ~q.ended /\ sent[h] < MaxOffset /\ q.id = h
    BY <1>0, SlotTypes DEF Gap
  <1>2. sent[h] \in Nat /\ q.gapCount \in Nat /\ q.gapOffset \in Nat /\ MaxOffset \in Nat
    BY <1>1, CounterTypes, SlotTypes
  <1>3. /\ resources' = [resources EXCEPT ![r] = p]
        /\ sent' = [sent EXCEPT ![h] = sent[h] + 1]
        /\ UNCHANGED <<events, pc, slot, nextId, ownerOf, finished, stage, next>>
    BY <1>1 DEF Gap, ledger, guest, cursor, TypeOK, TablesOK
  <1>4. /\ p.id = h /\ p.gapCount = q.gapCount + 1
        /\ p.gapOffset = IF q.gapCount = 0 THEN sent[h] ELSE q.gapOffset
        /\ p.ended = q.ended /\ p.endSeen = q.endSeen /\ p.endOffset = q.endOffset
        /\ p.closed = q.closed /\ p.closing = q.closing /\ p.ready = q.ready
    BY <1>1 DEF Resource
  <1>5. HandleAgrees(r)
    BY <1>1 DEF HandleSide, HandlesAgree
  <1> HIDE DEF p
  <1>6. resources'[r] = p /\ sent'[h] = sent[h] + 1
    BY <1>1, <1>3, CounterTypes DEF TypeOK, TablesOK
  <1>7. ~p.endSeen
    BY <1>1, <1>4, <1>5 DEF HandleAgrees
  <1>8. p.gapOffset + p.gapCount = sent'[h] /\ sent'[h] <= MaxOffset
    BY <1>1, <1>2, <1>4, <1>5, <1>6 DEF HandleAgrees
  <1>9. HandleAgrees(r)'
    BY <1>1, <1>3, <1>4, <1>5, <1>6, <1>8 DEF HandleAgrees, StageOf, Opening
  <1>10. \E t \in Nat : Tiles(h, t)' /\ t = TailOf(r)'
    <2>1. PICK t \in Nat : Tiles(h, t) /\ t = TailOf(r)
      BY <1>1 DEF HandleSide, StreamsTile
    <2>2. TailOf(r)' = TailOf(r)
      BY <1>1, <1>2, <1>4, <1>6 DEF TailOf
    <2>3. Tiles(h, t)'
      BY <1>3, <2>1, TilesSame
    <2> QED BY <2>1, <2>2, <2>3
  <1>11. \A g \in Ids : g # p.id => sent'[g] = sent[g]
    BY <1>3, <1>4, CounterTypes
  <1> QED BY <1>1, <1>3, <1>4, <1>7, <1>9, <1>10, <1>11, OneSlot

(* A driver's fact joins the ring at the tail of its stream.                *)
LEMMA EmitSide ==
  ASSUME TypeOK, TypeOK', HandleInv, HandleSide, NEW r \in Slots, NEW kind \in EventKinds,
         Emit(r, kind)
  PROVE  HandleSide'
  <1> DEFINE q == resources[r]
  <1>0. PICK h : h = q.id
    OBVIOUS
  <1>1. PICK t : t = sent[h]
    OBVIOUS
  <1> DEFINE e == [handle |-> h, kind |-> kind, offset |-> t]
  <1>2. /\ q \in Resource /\ h # 0 /\ h \in Ids /\ t \in Nat /\ ~q.ended /\ h < nextId
        /\ q.gapCount \in Nat /\ MaxOffset \in Nat
    BY <1>0, <1>1, SlotTypes, CounterTypes, HandleIds DEF Emit
  <1>3. /\ events' = Append(events, e)
        /\ sent' = IF kind = "data" THEN [sent EXCEPT ![h] = t + 1] ELSE sent
        /\ UNCHANGED <<resources, nextId, pc, slot, ownerOf, finished, stage, next>>
        /\ kind = "data" => ~(q.gapCount > 0) /\ t < MaxOffset
    BY <1>0, <1>1, <1>2 DEF Emit, GapBlocks, ledger, guest, cursor
  <1>4. e.handle = h /\ e.kind = kind /\ e.offset = t
    OBVIOUS
  <1>5. sent'[h] = IF kind = "data" THEN t + 1 ELSE t
    BY <1>1, <1>2, <1>3, CounterTypes
  <1>6. \A g \in Ids : g # h => sent'[g] = sent[g]
    BY <1>3, CounterTypes
  <1>7. HandleAgrees(r) /\ q.id = h
    BY <1>0, <1>2 DEF HandleSide, HandlesAgree
  <1>8. ~q.endSeen
    BY <1>2, <1>7 DEF HandleAgrees
  <1>9. HandleAgrees(r)'
    <2>1. CASE kind = "data"
      <3>1. q.gapCount = 0 /\ sent'[h] <= MaxOffset
        BY <1>2, <1>3, <1>5, <2>1
      <3> QED BY <1>2, <1>3, <1>7, <1>8, <3>1 DEF HandleAgrees, StageOf, Opening
    <2>2. CASE kind # "data"
      BY <1>2, <1>3, <1>5, <1>7, <2>2 DEF HandleAgrees, StageOf, Opening
    <2> QED BY <2>1, <2>2
  <1>10. PICK x \in Nat : Tiles(h, x) /\ x = TailOf(r)
    BY <1>2, <1>7 DEF HandleSide, StreamsTile
  <1>11. \E y \in Nat : Tiles(h, y)' /\ y = TailOf(r)'
    <2>1. CASE kind = "data"
      <3>1. x = t /\ TailOf(r)' = t + 1 /\ t + 1 \in Nat
        BY <1>1, <1>2, <1>3, <1>5, <1>7, <1>10, <2>1 DEF TailOf
      <3>2. Tiles(h, t + 1)'
        BY <1>2, <1>3, <1>10, <2>1, <3>1, TilesGrow
      <3> QED BY <3>1, <3>2
    <2>2. CASE kind # "data"
      <3>1. TailOf(r)' = x
        BY <1>1, <1>3, <1>5, <1>7, <1>10, <2>2 DEF TailOf
      <3>2. Tiles(h, x)'
        BY <1>3, <1>4, <1>10, <2>2, TilesPass
      <3> QED BY <3>1, <3>2
    <2> QED BY <2>1, <2>2
  <1> HIDE DEF e
  <1>12. \A g \in Ids : \A y \in Nat : g # h /\ Tiles(g, y) => Tiles(g, y)'
    BY <1>3, <1>4, TilesPass
  <1>13. \A i \in DOMAIN events' : \/ i \in DOMAIN events /\ events'[i] = events[i]
                                   \/ events'[i].handle = h
    BY <1>3, <1>4, RingGrown
  <1>14. \A u \in Slots : u # r => resources'[u] = resources[u] /\ resources[u].id # h
    BY <1>2, <1>3, <1>7, OneOwner
  <1>15. pc' = "opening" => resources'[slot'].id # 0
    BY <1>3 DEF HandleSide, HandlesAgree
  <1>16. \A u \in Slots : Opening(u)' <=> Opening(u)
    BY <1>3 DEF Opening
  <1> QED BY <1>2, <1>3, <1>6, <1>7, <1>8, <1>9, <1>11, <1>12, <1>13, <1>14, <1>15, <1>16,
             OneHandle

(* The oldest fact of the ring goes to the guest.                           *)
LEMMA EventSide ==
  ASSUME TypeOK, TypeOK', HandleInv, HandleSide, NEW v \in Nat, ObserveEvent(v)
  PROVE  HandleSide'
  <1>0. PICK e : e = events[1]
    OBVIOUS
  <1>1. /\ events # <<>> /\ events' = Tail(events) /\ pc = "observe"
        /\ UNCHANGED <<resources, nextId, pc, slot, sent, ownerOf, finished, stage>>
        /\ \A s \in OwnerSlots(Head(events).handle) : ~resources[s].ready
    BY DEF ObserveEvent, Visits, Copies, CanEvent, driver, ledger
  <1>2. /\ 1 \in DOMAIN events /\ e = Head(events) /\ e.handle \in Ids /\ e.handle # 0
        /\ e.handle < nextId
    BY <1>0, <1>1, RingTaken, RingTypes, CounterTypes DEF HandleSide, Unheard
  <1>3. next' = IF e.kind = "data" THEN [next EXCEPT ![e.handle] = e.offset + 1] ELSE next
    BY <1>2 DEF ObserveEvent
  <1>4. \A h \in Ids : next'[h] = IF IsData(1, h) THEN e.offset + 1 ELSE next[h]
    BY <1>0, <1>3, CounterTypes DEF IsData
  <1>5. \A h \in Ids : IsData(1, h) => e.offset = next[h]
    <2>1. ASSUME NEW h \in Ids, IsData(1, h)
          PROVE  e.offset = next[h]
      <3>1. PICK t \in Nat : Tiles(h, t)
        BY DEF HandleSide, StreamsTile
      <3> QED BY <1>0, <1>2, <2>1, <3>1, HeadExpected
    <2> QED BY <2>1
  <1>6. FreeZero'
    BY <1>1 DEF HandleSide, FreeZero
  <1>7. \A i \in DOMAIN events' : i + 1 \in DOMAIN events /\ events'[i] = events[i + 1]
    BY <1>1, RingTaken
  <1>8. Unheard'
    <2>1. \A h \in Ids : h >= nextId => ~IsData(1, h)
      BY <1>0, <1>2, CounterTypes DEF IsData
    <2>2. \A h \in Ids : h >= nextId => next'[h] = 0
      BY <1>4, <2>1 DEF HandleSide, Unheard
    <2> QED BY <1>1, <1>7, <2>2 DEF HandleSide, Unheard
  <1>9. HandlesAgree'
    <2>1. ASSUME NEW s \in Slots, resources'[s].id # 0
          PROVE  HandleAgrees(s)'
      <3>1. HandleAgrees(s) /\ resources[s].id \in Ids /\ ~Opening(s) /\ ~Opening(s)'
        BY <1>1, <2>1, SlotTypes DEF HandleSide, HandlesAgree, Opening
      <3>2. resources[s].ready => next'[resources[s].id] = next[resources[s].id]
        <4>1. resources[s].ready => resources[s].id # e.handle
          BY <1>1, <1>2 DEF OwnerSlots
        <4> QED BY <1>0, <1>4, <3>1, <4>1 DEF IsData
      <3> QED BY <1>1, <3>1, <3>2 DEF HandleAgrees, StageOf
    <2> QED BY <1>1, <2>1 DEF HandlesAgree
  <1>10. StreamsTile'
    <2>1. ASSUME NEW h \in Ids
          PROVE  \E t \in Nat : Tiles(h, t)' /\ \A s \in Slots : resources'[s].id = h => t = TailOf(s)'
      <3>1. PICK t \in Nat : Tiles(h, t) /\ \A s \in Slots : resources[s].id = h => t = TailOf(s)
        BY DEF HandleSide, StreamsTile
      <3>2. next'[h] = IF IsData(1, h) THEN next[h] + 1 ELSE next[h]
        BY <1>4, <1>5
      <3>3. Tiles(h, t)'
        BY <1>1, <3>1, <3>2, TilesTake
      <3>4. \A s \in Slots : TailOf(s)' = TailOf(s)
        BY <1>1 DEF TailOf
      <3> QED BY <1>1, <3>1, <3>3, <3>4
    <2> QED BY <2>1 DEF StreamsTile
  <1>11. EventsInside'
    BY <1>1, <1>7 DEF HandleSide, EventsInside
  <1> QED BY <1>6, <1>8, <1>9, <1>10, <1>11 DEF HandleSide

LEMMA OpenReserveSide ==
  ASSUME TypeOK, TypeOK', HandleInv, SlotInv, HandleSide, NEW s \in Slots, OpenReserve(s)
  PROVE  HandleSide'
  <1>0. PICK h : h = nextId
    OBVIOUS
  <1>1. /\ resources' = [resources EXCEPT ![s] = [NoResource EXCEPT !.id = h]]
        /\ resources[s].id = 0 /\ nextId < IntMax /\ nextId' = nextId + 1
        /\ pc = "turn" /\ pc' = "opening" /\ slot' = s
        /\ UNCHANGED <<events, sent, ownerOf, finished, stage, next>>
    BY <1>0 DEF OpenReserve, FirstFree, driver, ledger, guest
  <1>2. h \in Ids /\ h < nextId' /\ h # 0
    BY <1>0, <1>1, CounterTypes, SizesAssumption DEF Ids
  <1>3. /\ stage[h] = "none" /\ next[h] = 0 /\ sent[h] = 0 /\ ownerOf[h] = 0
        /\ \A i \in DOMAIN events : events[i].handle # h
    <2>1. h >= nextId /\ \A g \in Ids : g < nextId => g # h
      BY <1>0, CounterTypes
    <2> QED BY <1>2, <2>1, RingTypes DEF HandleSide, Unheard, SlotInv, IdsFresh
  <1>4. /\ resources'[s].id = h /\ ~resources'[s].ready /\ ~resources'[s].endSeen
        /\ ~resources'[s].ended /\ resources'[s].gapCount = 0 /\ ~resources'[s].closed
    BY <1>1 DEF NoResource, TypeOK, TablesOK
  <1>5. HandleAgrees(s)'
    <2>1. Opening(s)'
      BY <1>1 DEF Opening
    <2> QED BY <1>1, <1>3, <1>4, <2>1, CounterTypes DEF HandleAgrees, StageOf
  <1>6. Tiles(h, 0)' /\ 0 = TailOf(s)'
    <2>1. Tiles(h, 0)'
      BY <1>1, <1>3 DEF Tiles, IsData
    <2>2. 0 = TailOf(s)'
      BY <1>1, <1>3, <1>4 DEF TailOf
    <2> QED BY <2>1, <2>2
  <1>7. \A u \in Slots : u # s => resources'[u] = resources[u] /\ resources[u].id # h
    BY <1>0, <1>1, HandleIds DEF TypeOK, TablesOK
  <1>8. \A u \in Slots : u # s => (Opening(u)' <=> Opening(u))
    BY <1>1 DEF Opening
  <1>9. \A g \in Ids : \A t \in Nat : Tiles(g, t) => Tiles(g, t)'
    BY <1>1, TilesSame
  <1>10. resources'[slot'].id # 0
    BY <1>1, <1>2, <1>4
  <1>11. \E t \in Nat : Tiles(h, t)' /\ t = TailOf(s)'
    BY <1>6
  <1> QED BY <1>1, <1>2, <1>3, <1>4, <1>5, <1>7, <1>8, <1>9, <1>10, <1>11, OneHandle

LEMMA OpenReturnSide ==
  ASSUME TypeOK, TypeOK', HandleInv, HandleSide, NEW ok \in BOOLEAN, OpenReturn(ok)
  PROVE  HandleSide'
  <1>0. PICK s \in Slots : s = slot
    BY DEF TypeOK, LoopOK
  <1> DEFINE r == resources[s]
  <1>2. PICK p : p = [r EXCEPT !.ready = TRUE]
    OBVIOUS
  <1>1. /\ pc = "opening" /\ pc' = "turn" /\ r.id # 0 /\ r.id \in Ids /\ r \in Resource
        /\ resources' = [resources EXCEPT ![s] = IF ok THEN p ELSE NoResource]
        /\ UNCHANGED <<events, nextId, sent, ownerOf, finished, stage, next>>
    BY <1>0, <1>2, SlotTypes DEF OpenReturn, HandleSide, HandlesAgree, driver, ledger, guest,
       TypeOK, TablesOK
  <1>5. HandleAgrees(s) /\ Opening(s) /\ ~Opening(s)'
    BY <1>0, <1>1 DEF HandleSide, HandlesAgree, Opening
  <1>3. CASE ok
    <2>1. /\ p.id = r.id /\ p.gapCount = r.gapCount /\ p.gapOffset = r.gapOffset
          /\ p.ended = r.ended /\ p.endSeen = r.endSeen /\ p.endOffset = r.endOffset
          /\ p.closed = r.closed /\ p.closing = r.closing /\ p.ready
      BY <1>1, <1>2 DEF Resource
    <2>2. resources' = [resources EXCEPT ![s] = p] /\ resources'[s] = p
      BY <1>1, <1>3 DEF TypeOK, TablesOK
    <2>3. HandleAgrees(s)' /\ ~p.endSeen
      BY <1>1, <1>5, <2>1, <2>2 DEF HandleAgrees, StageOf
    <2>4. PICK h : h = p.id
      OBVIOUS
    <2>5. \E t \in Nat : Tiles(h, t)' /\ t = TailOf(s)'
      BY <1>1, <2>1, <2>2, <2>4, TailStays
    <2>6. pc' # "opening" /\ (pc = "opening" => slot = s)
      BY <1>0, <1>1
    <2> QED BY <1>1, <2>1, <2>2, <2>3, <2>4, <2>5, <2>6, OneSlot
  <1>4. CASE ~ok
    <2>1. stage[r.id] = "none"
      BY <1>5 DEF HandleAgrees, StageOf
    <2> QED BY <1>0, <1>1, <1>4, <2>1, LeftHandle
  <1> QED BY <1>3, <1>4

LEMMA ClosedSide ==
  ASSUME TypeOK, TypeOK', HandleInv, HandleSide, NEW v \in Nat, ObserveClosed(v)
  PROVE  HandleSide'
  <1>0. PICK s \in Slots : s = SlotAt(v)
    BY VisitType DEF ObserveClosed, Visits
  <1>1. /\ resources[s].id # 0 /\ events = <<>> /\ pc = "observe"
        /\ resources' = [resources EXCEPT ![s] = NoResource]
        /\ stage' = [stage EXCEPT ![resources[s].id] = "closed"]
        /\ UNCHANGED <<events, pc, slot, nextId, sent, ownerOf, finished, next>>
    BY <1>0 DEF ObserveClosed, Visits, CanClosed, Drained, driver, ledger
  <1>2. \A g \in Ids : g # resources[s].id => stage'[g] = stage[g]
    BY <1>1 DEF TypeOK, HistoryOK
  <1> QED BY <1>1, <1>2, LeftHandle

-----------------------------------------------------------------------------
LEMMA HandleSideInit == Init => HandleSide
  <1> SUFFICES ASSUME Init PROVE HandleSide
    OBVIOUS
  <1>1. /\ \A s \in Slots : resources[s] = NoResource
        /\ events = <<>> /\ DOMAIN events = {} /\ nextId = 1 /\ pc = "turn" /\ finished = {}
        /\ \A h \in Ids : stage[h] = "none" /\ next[h] = 0 /\ sent[h] = 0
    BY DEF Init
  <1>2. NoResource.id = 0 /\ 0 \notin Ids
    BY SizesAssumption DEF NoResource, Ids
  <1>3. \A h \in Ids : Tiles(h, 0)
    BY <1>1 DEF Tiles
  <1>4. StreamsTile
    BY <1>1, <1>2, <1>3 DEF StreamsTile
  <1> QED BY <1>1, <1>2, <1>4 DEF HandleSide, FreeZero, Unheard, HandlesAgree, EventsInside

(* Every step keeps the streams tiled and the guest told in order.          *)
LEMMA HandleSideNext ==
  ASSUME IInv, TypeOK', HandleSide, [Next]_vars
  PROVE  HandleSide'
  <1>1. TypeOK /\ HandleInv /\ SlotInv
    BY DEF IInv, Safe
  <1>2. HandlesStill => HandleSide'
    BY <1>1, StillKeeps
  <1>3. CASE Guest
    BY <1>1, <1>2, <1>3, OpenReserveSide, StillSteps DEF Guest
  <1>4. CASE Producers
    BY <1>1, <1>2, <1>4, EndSide, LostSide, EmitSide, StillSteps DEF Producers
  <1>5. CASE Observe
    <2>1. ASSUME NEW v \in 0 .. LastVisit,
                 \/ ObserveReady(v) \/ ObserveEvent(v) \/ ObserveGap(v) \/ ObserveEnd(v)
                 \/ ObserveClosed(v)
          PROVE  HandleSide'
      <3>1. v \in Nat
        OBVIOUS
      <3> QED BY <1>1, <2>1, <3>1, ReadySide, EventSide, GapSide, EndSeenSide, ClosedSide
    <2>2. ASSUME NEW v \in 0 .. LastVisit, ObserveComplete(v) \/ ObserveOther(v)
          PROVE  HandleSide'
      BY <1>1, <1>2, <2>2, StillSteps
    <2>3. CASE ObserveReturn
      BY <1>1, <1>2, <2>3, StillSteps
    <2> QED BY <1>5, <2>1, <2>2, <2>3 DEF Observe
  <1>6. CASE Loop
    <2>1. ASSUME NEW ok \in BOOLEAN, OpenReturn(ok) \/ StartReturn(ok)
          PROVE  HandleSide'
      BY <1>1, <1>2, <2>1, OpenReturnSide, StillSteps
    <2>2. CASE \/ TurnEnd \/ DispatchRequest \/ SweepResource \/ Idle \/ WaitEnd(FALSE)
               \/ FaultedEnd \/ Shutdown \/ DestroyCheck
      BY <1>1, <1>2, <2>2, StillSteps
    <2> QED BY <1>5, <1>6, <2>1, <2>2 DEF Loop
  <1>7. CASE \E s \in Slots : \E ok \in BOOLEAN : NativeClose(s, ok)
    BY <1>1, <1>2, <1>7, StillSteps
  <1>8. CASE WaitEnd(TRUE) \/ Stop \/ UNCHANGED vars
    BY <1>1, <1>2, <1>8, StillSteps
  <1> QED BY <1>3, <1>4, <1>6, <1>7, <1>8 DEF Next, Freed

-----------------------------------------------------------------------------
(* The requests of a handle stay beside it.                                 *)

(* A slot moves within its request, or is freed once the request is         *)
(* answered; a verdict it has stays.                                        *)
Moves(p, q) ==
  \/ p.id = 0 /\ (q.id # 0 => verdict'[q.id] # "none")
  \/ /\ p.id = q.id /\ p.handle = q.handle
     /\ q.terminal => /\ p.terminal /\ p.status = q.status
                      /\ p.afterEnd = q.afterEnd /\ p.started = q.started
     /\ p.terminal /\ ~q.terminal /\ ~p.started => p.status = "cancelled"

(* The handle of a request stays in the table, out of its open; a closed    *)
(* one gets no new native work.                                             *)
OwnerStays(s, r) ==
  /\ resources'[r].id = resources[r].id /\ ~Opening(r)'
  /\ resources'[r].closed =>
       \/ ~AwaitsNative(requests'[s])
       \/ resources[r].closed /\ AwaitsNative(requests[s])

LEMMA RequestsFollow ==
  ASSUME TypeOK, TypeOK', SlotInv, RequestsAgree, UNCHANGED ownerOf,
         \A s \in Slots : Moves(requests'[s], requests[s]),
         \A s, r \in Slots :
           /\ requests[s].id # 0 /\ resources[r].id = requests[s].handle
           /\ resources[r].id # 0 /\ ~Opening(r)
           => OwnerStays(s, r),
         \A q \in Ids : verdict'[q] = "none" => verdict[q] = "none",
         \A s \in Slots : requests'[s].id \in finished' =>
           \/ requests'[s].id \in finished
           \/ requests'[s].terminal /\ requests'[s].afterEnd /\ requests'[s].status = "done"
  PROVE  RequestsAgree'
  <1>1. ASSUME NEW s \in Slots, requests'[s].id # 0
        PROVE  RequestAgrees(requests[s])'
    <2>1. /\ requests'[s].id = requests[s].id /\ requests'[s].handle = requests[s].handle
          /\ requests[s].id # 0
          /\ requests[s].terminal => /\ requests'[s].terminal
                                     /\ requests'[s].status = requests[s].status
                                     /\ requests'[s].afterEnd = requests[s].afterEnd
                                     /\ requests'[s].started = requests[s].started
          /\ requests'[s].terminal /\ ~requests[s].terminal /\ ~requests'[s].started =>
               requests'[s].status = "cancelled"
      BY <1>1 DEF Moves
    <2>2. RequestAgrees(requests[s])
      BY <2>1 DEF RequestsAgree
    <2>3. requests'[s].handle # 0
      BY <2>1, <2>2 DEF RequestAgrees
    <2>4. \E r \in Slots : resources'[r].id = requests'[s].handle /\ ~Opening(r)'
                           /\ (resources'[r].closed => ~AwaitsNative(requests'[s]))
      <3>1. PICK r \in Slots : resources[r].id = requests[s].handle /\ ~Opening(r)
                               /\ (resources[r].closed => ~AwaitsNative(requests[s]))
        BY <2>2 DEF RequestAgrees
      <3>2. OwnerStays(s, r)
        BY <2>1, <2>3, <3>1
      <3> QED BY <2>1, <3>1, <3>2 DEF OwnerStays
    <2>5. requests'[s].terminal /\ ~requests'[s].started => requests'[s].status = "cancelled"
      BY <2>1, <2>2 DEF RequestAgrees
    <2>6. requests'[s].id \in finished' =>
            requests'[s].terminal /\ requests'[s].afterEnd /\ requests'[s].status = "done"
      BY <2>1, <2>2 DEF RequestAgrees
    <2> QED BY <2>3, <2>4, <2>5, <2>6 DEF RequestAgrees
  <1>2. ASSUME NEW q \in Ids, ownerOf'[q] # 0, verdict'[q] = "none"
        PROVE  \E s \in Slots : requests'[s].id = q
    <2>1. PICK s \in Slots : requests[s].id = q
      BY <1>2 DEF RequestsAgree
    <2> QED BY <1>2, <2>1, CounterTypes DEF Moves
  <1> QED BY <1>1, <1>2 DEF RequestsAgree

(* Steps that touch no request: the handles of the requests stay.           *)
LEMMA RequestsRest ==
  ASSUME TypeOK, TypeOK', SlotInv, RequestsAgree,
         UNCHANGED <<requests, ownerOf, finished, verdict>>,
         \A r \in Slots : resources[r].id # 0 /\ ~Opening(r)
                          /\ (\E s \in Slots : requests[s].id # 0 /\ requests[s].handle = resources[r].id) =>
           /\ resources'[r].id = resources[r].id /\ ~Opening(r)'
           /\ resources'[r].closed => resources[r].closed
  PROVE  RequestsAgree'
  <1>1. \A s \in Slots : Moves(requests'[s], requests[s])
    BY DEF Moves
  <1>2. ASSUME NEW s \in Slots, NEW r \in Slots, requests[s].id # 0,
               resources[r].id = requests[s].handle, resources[r].id # 0, ~Opening(r)
        PROVE  OwnerStays(s, r)
    BY <1>2 DEF OwnerStays
  <1> QED BY <1>1, <1>2, RequestsFollow

(* One request moves and none is handed to a driver.                        *)
LEMMA OneRequest ==
  ASSUME TypeOK, TypeOK', SlotInv, RequestsAgree, NEW s \in Slots, NEW p,
         requests' = [requests EXCEPT ![s] = p], Moves(p, requests[s]),
         AwaitsNative(p) => AwaitsNative(requests[s]),
         \A r \in Slots : /\ resources'[r].id = resources[r].id
                          /\ resources'[r].closed => resources[r].closed
                          /\ Opening(r)' => Opening(r),
         UNCHANGED ownerOf, \A q \in Ids : verdict'[q] = "none" => verdict[q] = "none",
         \A q \in finished' : q \in finished \/ (q = requests[s].id /\ p.terminal
                                                  /\ p.afterEnd /\ p.status = "done")
  PROVE  RequestsAgree'
  <1>1. requests'[s] = p /\ \A t \in Slots : t # s => requests'[t] = requests[t]
    BY DEF TypeOK, TablesOK
  <1>2. \A t \in Slots : Moves(requests'[t], requests[t])
    BY <1>1 DEF Moves
  <1>3. \A t \in Slots : AwaitsNative(requests'[t]) => AwaitsNative(requests[t])
    BY <1>1
  <1>4. \A t, r \in Slots :
           /\ requests[t].id # 0 /\ resources[r].id = requests[t].handle
           /\ resources[r].id # 0 /\ ~Opening(r)
           => OwnerStays(t, r)
    BY <1>3 DEF OwnerStays
  <1>5. \A t \in Slots : requests'[t].id \in finished' =>
           \/ requests'[t].id \in finished
           \/ requests'[t].terminal /\ requests'[t].afterEnd /\ requests'[t].status = "done"
    <2>1. ASSUME NEW t \in Slots, requests'[t].id \in finished', requests'[t].id \notin finished
          PROVE  t = s
      <3>1. requests'[t].id # 0
        BY <2>1, CounterTypes DEF TypeOK, HistoryOK
      <3>2. requests'[t].id = requests[s].id
        BY <2>1
      <3> QED BY <1>1, <3>1, <3>2 DEF SlotInv, IdsUnique
    <2> QED BY <1>1, <2>1
  <1> QED BY <1>2, <1>4, <1>5, RequestsFollow

LEMMA ConcludeMoves ==
  ASSUME TypeOK, SlotInv, NEW s \in Slots, AwaitsNative(requests[s]), UNCHANGED verdict,
         NEW status \in Statuses, NEW afterEnd \in BOOLEAN
  PROVE  /\ Moves(Conclude(requests[s], status, afterEnd), requests[s])
         /\ ~AwaitsNative(Conclude(requests[s], status, afterEnd))
  <1> DEFINE q == requests[s]
             p == [q EXCEPT !.nativeDone = TRUE, !.terminal = TRUE,
                            !.status = IF q.terminal THEN @ ELSE status,
                            !.afterEnd = IF q.terminal THEN @ ELSE afterEnd]
  <1>1. q \in Request /\ SlotAgrees(q) /\ q.started /\ q.id # 0
    BY DEF TypeOK, TablesOK, SlotInv, AwaitsNative
  <1>2. /\ p.id = q.id /\ p.handle = q.handle /\ p.started = q.started
        /\ p.observed = q.observed /\ p.terminal /\ p.nativeDone
        /\ p.status = IF q.terminal THEN q.status ELSE status
        /\ p.afterEnd = IF q.terminal THEN q.afterEnd ELSE afterEnd
    BY <1>1 DEF Request
  <1>3. Conclude(q, status, afterEnd) = Reclaim(p)
    BY DEF Conclude
  <1> HIDE DEF p
  <1>4. Moves(p, q) /\ ~AwaitsNative(p)
    BY <1>1, <1>2 DEF Moves, AwaitsNative
  <1>5. p.observed => Moves(NoRequest, q) /\ ~AwaitsNative(NoRequest)
    BY <1>1, <1>2 DEF Moves, AwaitsNative, SlotAgrees, NoRequest
  <1> QED BY <1>3, <1>4, <1>5 DEF Reclaim

LEMMA AbandonMoves ==
  ASSUME TypeOK, NEW s \in Slots, ~requests[s].terminal
  PROVE  /\ Moves(Abandon(requests[s]), requests[s])
         /\ AwaitsNative(Abandon(requests[s])) => AwaitsNative(requests[s])
  <1> DEFINE q == requests[s]
             p == Abandon(q)
  <1>1. q \in Request
    BY DEF TypeOK, TablesOK
  <1>2. /\ p.id = q.id /\ p.handle = q.handle /\ p.started = q.started
        /\ p.status = IF q.started THEN "unknown" ELSE "cancelled"
        /\ q.started => p.nativeDone = q.nativeDone
    BY <1>1 DEF Abandon, Request
  <1> HIDE DEF p
  <1> QED BY <1>2 DEF Moves, AwaitsNative, p

LEMMA CloseHandleRequests ==
  ASSUME TypeOK, TypeOK', SlotInv, RequestsAgree, NEW h, CloseHandle(h),
         UNCHANGED <<ownerOf, verdict, finished>>, \A r \in Slots : Opening(r)' => Opening(r)
  PROVE  RequestsAgree'
  <1>1. ASSUME NEW s \in Slots
        PROVE  /\ Moves(requests'[s], requests[s])
               /\ AwaitsNative(requests'[s]) => AwaitsNative(requests[s])
    <2>1. CASE requests[s].id # 0 /\ requests[s].handle = h /\ ~requests[s].terminal
      <3>1. requests'[s] = Abandon(requests[s])
        BY <2>1 DEF CloseHandle
      <3> QED BY <2>1, <3>1, AbandonMoves
    <2>2. CASE ~(requests[s].id # 0 /\ requests[s].handle = h /\ ~requests[s].terminal)
      <3>1. requests'[s] = requests[s]
        BY <2>2 DEF CloseHandle
      <3> QED BY <3>1 DEF Moves
    <2> QED BY <2>1, <2>2
  <1>2. ASSUME NEW r \in Slots
        PROVE  /\ resources'[r].id = resources[r].id
               /\ resources'[r].closed => resources[r].closed
    <2>1. resources[r] \in Resource
      BY SlotTypes
    <2>2. resources'[r] = IF resources[r].id = h THEN [resources[r] EXCEPT !.closing = TRUE]
                                                 ELSE resources[r]
      BY DEF CloseHandle
    <2> QED BY <2>1, <2>2 DEF Resource
  <1>3. \A t, r \in Slots :
           /\ requests[t].id # 0 /\ resources[r].id = requests[t].handle
           /\ resources[r].id # 0 /\ ~Opening(r)
           => OwnerStays(t, r)
    BY <1>1, <1>2 DEF OwnerStays
  <1> QED BY <1>1, <1>3, RequestsFollow

-----------------------------------------------------------------------------
(* The steps that move a request.                                           *)

LEMMA SubmitRequests ==
  ASSUME TypeOK, TypeOK', HandleInv, SlotInv, HandleSide, RequestsAgree,
         NEW r \in Slots, NEW s \in Slots, Submit(r, s)
  PROVE  RequestsAgree'
  <1>0. PICK x, h : x = nextId /\ h = resources[r].id
    OBVIOUS
  <1> DEFINE p == [NoRequest EXCEPT !.id = x, !.handle = h]
  <1>1. /\ requests' = [requests EXCEPT ![s] = p] /\ requests[s].id = 0
        /\ h # 0 /\ ~resources[r].closing /\ nextId < IntMax /\ pc = "turn"
        /\ ownerOf' = [ownerOf EXCEPT ![x] = h]
        /\ UNCHANGED <<resources, pc, slot, finished, verdict>>
    BY <1>0 DEF Submit, FirstFree, cursor, guest
  <1>2. /\ p.id = x /\ p.handle = h /\ ~p.terminal /\ ~p.started
    BY DEF NoRequest
  <1> HIDE DEF p
  <1>3. requests'[s] = p /\ \A t \in Slots : t # s => requests'[t] = requests[t]
    BY <1>1 DEF TypeOK, TablesOK
  <1>4. x \in Ids /\ x \notin finished /\ x # 0
    BY <1>0, <1>1, CounterTypes, SizesAssumption DEF Ids, HandleSide, Unheard
  <1>5. \A t \in Slots : ~Opening(t) /\ ~Opening(t)'
    BY <1>1 DEF Opening
  <1>6. ~resources[r].closed
    BY <1>0, <1>1 DEF HandleSide, HandlesAgree, HandleAgrees
  <1>7. RequestAgrees(requests[s])'
    BY <1>0, <1>1, <1>2, <1>3, <1>4, <1>5, <1>6 DEF RequestAgrees
  <1>8. ASSUME NEW t \in Slots, requests'[t].id # 0
        PROVE  RequestAgrees(requests[t])'
    <2>1. CASE t = s
      BY <1>7, <2>1
    <2>2. CASE t # s
      <3>1. requests'[t] = requests[t] /\ RequestAgrees(requests[t])
        BY <1>3, <1>8, <2>2 DEF RequestsAgree
      <3> QED BY <1>1, <1>5, <3>1 DEF RequestAgrees
    <2> QED BY <2>1, <2>2
  <1>9. ASSUME NEW q \in Ids, ownerOf'[q] # 0, verdict'[q] = "none"
        PROVE  \E t \in Slots : requests'[t].id = q
    <2>1. CASE q = x
      BY <1>2, <1>3, <2>1
    <2>2. CASE q # x
      <3>1. ownerOf[q] # 0 /\ verdict[q] = "none"
        BY <1>1, <1>9, <2>2 DEF TypeOK, HistoryOK
      <3>2. PICK t \in Slots : requests[t].id = q
        BY <3>1 DEF RequestsAgree
      <3>3. t # s
        BY <1>1, <3>2, CounterTypes
      <3> QED BY <1>3, <3>2, <3>3
    <2> QED BY <2>1, <2>2
  <1> QED BY <1>8, <1>9 DEF RequestsAgree

LEMMA CancelRequests ==
  ASSUME TypeOK, TypeOK', SlotInv, RequestsAgree, NEW s \in Slots, Cancel(s)
  PROVE  RequestsAgree'
  <1>0. PICK p : p = Abandon(requests[s])
    OBVIOUS
  <1>1. /\ requests' = [requests EXCEPT ![s] = p] /\ ~requests[s].terminal
        /\ UNCHANGED <<resources, pc, slot, ownerOf, finished, verdict>>
    BY <1>0 DEF Cancel, cursor, ledger, guest
  <1>2. Moves(p, requests[s]) /\ (AwaitsNative(p) => AwaitsNative(requests[s]))
    BY <1>0, <1>1, AbandonMoves
  <1>3. \A r \in Slots : Opening(r)' => Opening(r)
    BY <1>1 DEF Opening
  <1> QED BY <1>1, <1>2, <1>3, OneRequest

(* A failed start, a completion and a finish.                               *)
LEMMA ConcludeRequests ==
  ASSUME TypeOK, TypeOK', SlotInv, RequestsAgree, NEW s \in Slots,
         AwaitsNative(requests[s]), NEW status \in Statuses, NEW afterEnd \in BOOLEAN,
         requests' = [requests EXCEPT ![s] = Conclude(requests[s], status, afterEnd)],
         \A r \in Slots : /\ resources'[r].id = resources[r].id
                          /\ resources'[r].closed => resources[r].closed
                          /\ Opening(r)' => Opening(r),
         UNCHANGED <<ownerOf, verdict>>,
         \/ finished' = finished
         \/ /\ finished' = finished \cup {requests[s].id}
            /\ ~requests[s].terminal /\ afterEnd /\ status = "done"
  PROVE  RequestsAgree'
  <1>0. PICK p : p = Conclude(requests[s], status, afterEnd)
    OBVIOUS
  <1>1. Moves(p, requests[s]) /\ ~AwaitsNative(p)
    BY <1>0, ConcludeMoves
  <1>2. \A r \in Slots : /\ resources'[r].id = resources[r].id
                         /\ resources'[r].closed => resources[r].closed
                         /\ Opening(r)' => Opening(r)
    OBVIOUS
  <1>3. requests' = [requests EXCEPT ![s] = p]
    BY <1>0
  <1>4. CASE finished' = finished
    BY <1>1, <1>2, <1>3, <1>4, OneRequest
  <1>5. CASE /\ finished' = finished \cup {requests[s].id}
             /\ ~requests[s].terminal /\ afterEnd /\ status = "done"
    <2> DEFINE q == requests[s]
               c == [q EXCEPT !.nativeDone = TRUE, !.terminal = TRUE,
                              !.status = IF q.terminal THEN @ ELSE status,
                              !.afterEnd = IF q.terminal THEN @ ELSE afterEnd]
    <2>1. q \in Request /\ SlotAgrees(q)
      BY DEF TypeOK, TablesOK, SlotInv, AwaitsNative
    <2>2. c.terminal /\ c.afterEnd /\ c.status = "done" /\ c.observed = q.observed
      BY <1>5, <2>1 DEF Request
    <2>3. p = Reclaim(c)
      BY <1>0 DEF Conclude
    <2> HIDE DEF c
    <2>4. ~q.observed
      BY <1>5, <2>1 DEF SlotAgrees
    <2>5. p.terminal /\ p.afterEnd /\ p.status = "done"
      BY <2>2, <2>3, <2>4 DEF Reclaim
    <2> QED BY <1>1, <1>2, <1>3, <1>5, <2>5, OneRequest
  <1> QED BY <1>4, <1>5

LEMMA CompleteRequests ==
  ASSUME TypeOK, TypeOK', SlotInv, RequestsAgree, NEW s \in Slots,
         NEW status \in {"done", "unknown"}, Complete(s, status)
  PROVE  RequestsAgree'
  <1>1. /\ requests' = [requests EXCEPT ![s] = Conclude(requests[s], status, FALSE)]
        /\ AwaitsNative(requests[s])
        /\ UNCHANGED <<resources, pc, slot, ownerOf, finished, verdict>>
    BY DEF Complete, cursor, ledger, guest
  <1>2. \A r \in Slots : Opening(r)' => Opening(r)
    BY <1>1 DEF Opening
  <1>3. status \in Statuses /\ FALSE \in BOOLEAN
    BY DEF Statuses
  <1> QED BY <1>1, <1>2, <1>3, ConcludeRequests

LEMMA FinishRequests ==
  ASSUME TypeOK, TypeOK', SlotInv, RequestsAgree, NEW r \in Slots, NEW s \in Slots,
         Finish(r, s)
  PROVE  RequestsAgree'
  <1>1. /\ requests' = [requests EXCEPT ![s] = Conclude(requests[s], "done", TRUE)]
        /\ AwaitsNative(requests[s])
        /\ UNCHANGED <<pc, slot, ownerOf, verdict>>
        /\ finished' = IF requests[s].terminal THEN finished
                       ELSE finished \cup {requests[s].id}
    BY DEF Finish, cursor, guest
  <1>2. ASSUME NEW t \in Slots
        PROVE  /\ resources'[t].id = resources[t].id
               /\ resources'[t].closed => resources[t].closed
               /\ Opening(t)' => Opening(t)
    <2>1. resources[t] \in Resource
      BY SlotTypes
    <2>2. resources' = [resources EXCEPT ![r].ended = TRUE, ![r].endOffset = sent[resources[r].id]]
      BY DEF Finish
    <2>3. resources'[t] = resources[t]
          \/ resources'[t] = [resources[t] EXCEPT !.ended = TRUE,
                                                  !.endOffset = sent[resources[r].id]]
      BY <2>2 DEF TypeOK, TablesOK
    <2>4. resources'[t].id = resources[t].id /\ (resources'[t].closed => resources[t].closed)
      BY <2>1, <2>3 DEF Resource
    <2>5. Opening(t)' => Opening(t)
      BY <1>1 DEF Opening
    <2> QED BY <2>4, <2>5
  <1>3. "done" \in Statuses /\ TRUE \in BOOLEAN
    BY DEF Statuses
  <1>4. \/ finished' = finished
        \/ finished' = finished \cup {requests[s].id} /\ ~requests[s].terminal
    BY <1>1
  <1> QED BY <1>1, <1>2, <1>3, <1>4, ConcludeRequests

LEMMA StartReturnRequests ==
  ASSUME TypeOK, TypeOK', SlotInv, RequestsAgree, NEW ok \in BOOLEAN, StartReturn(ok)
  PROVE  RequestsAgree'
  <1>1. /\ UNCHANGED <<resources, ownerOf, finished, verdict>>
        /\ pc' # "opening" /\ slot \in Slots
        /\ \/ requests' = requests
           \/ /\ AwaitsNative(requests[slot])
              /\ requests' = [requests EXCEPT ![slot] = Conclude(requests[slot], "done", FALSE)]
    BY DEF StartReturn, NextSlot, ledger, guest, TypeOK, LoopOK
  <1>2. \A r \in Slots : ~Opening(r)'
    BY <1>1 DEF Opening
  <1>3. CASE requests' = requests
    BY <1>1, <1>2, <1>3, RequestsRest
  <1>4. CASE /\ AwaitsNative(requests[slot])
             /\ requests' = [requests EXCEPT ![slot] = Conclude(requests[slot], "done", FALSE)]
    <2>1. "done" \in Statuses /\ FALSE \in BOOLEAN
      BY DEF Statuses
    <2> QED BY <1>1, <1>2, <1>4, <2>1, ConcludeRequests
  <1> QED BY <1>1, <1>3, <1>4

(* A request is handed over only while its handle is not closing.           *)
LEMMA DispatchRequests ==
  ASSUME TypeOK, TypeOK', HandleInv, SlotInv, HandleSide, RequestsAgree, DispatchRequest
  PROVE  RequestsAgree'
  <1> DEFINE q == requests[slot]
             starts == /\ q.id # 0 /\ ~q.started /\ ~q.terminal
                       /\ \E r \in OwnerSlots(q.handle) : ~resources[r].closing
             p == [q EXCEPT !.cancel = FALSE, !.started = @ \/ starts]
  <1>1. /\ slot \in Slots /\ q \in Request
        /\ UNCHANGED <<resources, ownerOf, finished, verdict>> /\ pc' # "opening"
    BY DEF DispatchRequest, NextSlot, guest, TypeOK, LoopOK, TablesOK
  <1>2. requests' = [requests EXCEPT ![slot] = p]
    BY <1>1 DEF DispatchRequest, TypeOK, TablesOK
  <1>3. /\ p.id = q.id /\ p.handle = q.handle /\ p.terminal = q.terminal
        /\ p.status = q.status /\ p.afterEnd = q.afterEnd /\ p.nativeDone = q.nativeDone
        /\ p.started <=> q.started \/ starts
    BY <1>1 DEF Request
  <1>4. starts => ~q.terminal /\ \E r \in OwnerSlots(q.handle) : ~resources[r].closing
    OBVIOUS
  <1>9. q.started \in BOOLEAN /\ p.started \in BOOLEAN
    BY <1>1 DEF Request
  <1> HIDE DEF p, starts
  <1>5. requests'[slot] = p /\ \A t \in Slots : t # slot => requests'[t] = requests[t]
    BY <1>1, <1>2 DEF TypeOK, TablesOK
  <1>6. Moves(p, q)
    <2>1. q.terminal => p.started = q.started
      BY <1>3, <1>4, <1>9
    <2> QED BY <1>3, <2>1 DEF Moves
  <1>7. \A t \in Slots : Moves(requests'[t], requests[t])
    BY <1>5, <1>6 DEF Moves
  <1>8. ASSUME NEW t \in Slots, NEW r \in Slots, requests[t].id # 0,
               resources[r].id = requests[t].handle, resources[r].id # 0, ~Opening(r)
        PROVE  OwnerStays(t, r)
    <2>1. resources' = resources /\ ~Opening(r)'
      BY <1>1 DEF Opening
    <2>2. CASE t = slot /\ starts
      <3>1. PICK u \in Slots : resources[u].id = q.handle /\ ~resources[u].closing
        BY <1>4, <2>2 DEF OwnerSlots
      <3>2. u = r
        BY <1>8, <2>2, <3>1, OneOwner
      <3>3. ~resources[r].closed
        BY <1>8, <3>1, <3>2 DEF HandleSide, HandlesAgree, HandleAgrees
      <3> QED BY <2>1, <3>3 DEF OwnerStays
    <2>3. CASE t = slot /\ ~starts
      <3>1. AwaitsNative(p) => AwaitsNative(q)
        BY <1>3, <2>3 DEF AwaitsNative
      <3> QED BY <1>5, <2>1, <2>3, <3>1 DEF OwnerStays
    <2>4. CASE t # slot
      BY <1>5, <2>1, <2>4 DEF OwnerStays
    <2> QED BY <2>2, <2>3, <2>4
  <1>10. \A t \in Slots : requests'[t].id = requests[t].id
    BY <1>3, <1>5
  <1> QED BY <1>1, <1>7, <1>8, <1>10, RequestsFollow

(* A driver that let go holds none of its handle's requests.                *)
LEMMA NativeCloseRequests ==
  ASSUME TypeOK, TypeOK', HandleInv, SlotInv, HandleSide, RequestsAgree,
         NEW s \in Slots, NEW ok \in BOOLEAN, NativeClose(s, ok)
  PROVE  RequestsAgree'
  <1>1. /\ UNCHANGED <<ownerOf, finished, verdict>> /\ pc' # "opening" /\ slot \in Slots
        /\ \/ resources' = resources /\ requests' = requests
           \/ /\ resources' = [resources EXCEPT ![slot].closed = TRUE]
              /\ requests' = [t \in Slots |->
                   IF requests[t].id # 0 /\ requests[t].handle = resources[slot].id
                   THEN Reclaim([requests[t] EXCEPT !.nativeDone = TRUE]) ELSE requests[t]]
    BY DEF NativeClose, NextSlot, AfterSweep, ledger, guest, TypeOK, LoopOK
  <1>2. \A r \in Slots : ~Opening(r)'
    BY <1>1 DEF Opening
  <1>3. CASE resources' = resources /\ requests' = requests
    BY <1>1, <1>2, <1>3, RequestsRest
  <1>4. CASE /\ resources' = [resources EXCEPT ![slot].closed = TRUE]
             /\ requests' = [t \in Slots |->
                  IF requests[t].id # 0 /\ requests[t].handle = resources[slot].id
                  THEN Reclaim([requests[t] EXCEPT !.nativeDone = TRUE]) ELSE requests[t]]
    <2>1. ASSUME NEW t \in Slots, requests[t].id # 0, requests[t].handle = resources[slot].id
          PROVE  Moves(requests'[t], requests[t]) /\ ~AwaitsNative(requests'[t])
      <3> DEFINE q == requests[t]
                 p == [q EXCEPT !.nativeDone = TRUE]
      <3>1. q \in Request /\ SlotAgrees(q)
        BY <2>1 DEF SlotInv, TypeOK, TablesOK
      <3>2. /\ p.id = q.id /\ p.handle = q.handle /\ p.terminal = q.terminal
            /\ p.status = q.status /\ p.afterEnd = q.afterEnd /\ p.started = q.started
            /\ p.nativeDone /\ p.observed = q.observed
        BY <3>1 DEF Request
      <3>3. requests'[t] = Reclaim(p)
        BY <1>4, <2>1
      <3> HIDE DEF p
      <3>4. Moves(p, q) /\ ~AwaitsNative(p)
        BY <3>2 DEF Moves, AwaitsNative
      <3>5. p.observed => Moves(NoRequest, q) /\ ~AwaitsNative(NoRequest)
        BY <1>1, <3>1, <3>2 DEF Moves, AwaitsNative, NoRequest, SlotAgrees
      <3> QED BY <3>3, <3>4, <3>5 DEF Reclaim
    <2>2. \A t \in Slots : ~(requests[t].id # 0 /\ requests[t].handle = resources[slot].id)
            => requests'[t] = requests[t]
      BY <1>4
    <2>3. \A t \in Slots : Moves(requests'[t], requests[t])
      BY <2>1, <2>2 DEF Moves
    <2>4. ASSUME NEW r \in Slots
          PROVE  /\ resources'[r].id = resources[r].id
                 /\ r # slot => resources'[r] = resources[r]
      <3>1. resources[slot] \in Resource
        BY <1>1, SlotTypes
      <3> QED BY <1>1, <1>4, <3>1 DEF Resource, TypeOK, TablesOK
    <2>5. ASSUME NEW t \in Slots, NEW r \in Slots, requests[t].id # 0,
                 resources[r].id = requests[t].handle, resources[r].id # 0, ~Opening(r)
          PROVE  OwnerStays(t, r)
      <3>1. CASE r = slot
        BY <1>2, <2>1, <2>4, <2>5, <3>1 DEF OwnerStays
      <3>2. CASE r # slot
        <4>1. requests[t].handle # resources[slot].id
          BY <1>1, <2>5, <3>2, OneOwner
        <4> QED BY <1>2, <2>2, <2>4, <3>2, <4>1 DEF OwnerStays
      <3> QED BY <3>1, <3>2
    <2>6. \A t \in Slots : requests'[t].id \in finished' => requests'[t].id \in finished
      BY <1>1
    <2> QED BY <1>1, <2>3, <2>5, <2>6, RequestsFollow
  <1> QED BY <1>1, <1>3, <1>4

(* The guest takes a verdict.                                               *)
LEMMA AnswerRequests ==
  ASSUME TypeOK, TypeOK', SlotInv, RequestsAgree, NEW v \in Nat, ObserveComplete(v)
  PROVE  RequestsAgree'
  <1>0. PICK s \in Slots : s = SlotAt(v)
    BY VisitType DEF ObserveComplete, Visits
  <1> DEFINE q == requests[s]
             c == [q EXCEPT !.observed = TRUE]
  <1>1. /\ requests' = [requests EXCEPT ![s] = Reclaim(c)]
        /\ verdict' = [verdict EXCEPT ![q.id] = IF @ = "none" THEN q.status ELSE "twice"]
        /\ UNCHANGED <<resources, pc, slot, ownerOf, finished>>
        /\ q.id # 0 /\ q.id \in Ids /\ q \in Request
    BY <1>0, SlotTypes DEF ObserveComplete, Visits, Copies, CanComplete, ledger
  <1>2. q.status # "none"
    BY <1>1 DEF Request, Statuses
  <1>3. verdict'[q.id] # "none" /\ \A x \in Ids : verdict'[x] = "none" => verdict[x] = "none"
    BY <1>1, <1>2 DEF TypeOK, HistoryOK
  <1>4. /\ c.id = q.id /\ c.handle = q.handle /\ c.terminal = q.terminal
        /\ c.status = q.status /\ c.afterEnd = q.afterEnd /\ c.started = q.started
        /\ c.nativeDone = q.nativeDone
    BY <1>1 DEF Request
  <1>5. PICK p : p = Reclaim(c)
    OBVIOUS
  <1>6. requests' = [requests EXCEPT ![s] = p]
    BY <1>1, <1>5
  <1> HIDE DEF c
  <1>7. Moves(p, q) /\ (AwaitsNative(p) => AwaitsNative(q))
    <2>1. Moves(c, q) /\ (AwaitsNative(c) => AwaitsNative(q))
      BY <1>4 DEF Moves, AwaitsNative
    <2>2. Moves(NoRequest, q) /\ ~AwaitsNative(NoRequest)
      BY <1>3 DEF Moves, AwaitsNative, NoRequest
    <2> QED BY <1>5, <2>1, <2>2 DEF Reclaim
  <1>8. \A r \in Slots : Opening(r)' => Opening(r)
    BY <1>1 DEF Opening
  <1> QED BY <1>1, <1>3, <1>6, <1>7, <1>8, OneRequest

(* A handle comes, goes or moves: no request uses one that comes or goes.   *)
LEMMA OpenRequests ==
  ASSUME TypeOK, TypeOK', HandleInv, SlotInv, RequestsAgree,
         (\E s \in Slots : OpenReserve(s)) \/ \E ok \in BOOLEAN : OpenReturn(ok)
  PROVE  RequestsAgree'
  <1>1. UNCHANGED <<requests, ownerOf, finished, verdict>>
    BY DEF OpenReserve, OpenReturn, ledger, guest
  <1>2. ASSUME NEW s \in Slots, OpenReserve(s), NEW r \in Slots, resources[r].id # 0
        PROVE  resources'[r] = resources[r] /\ ~Opening(r)'
    <2>1. resources[s].id = 0 /\ slot' = s
          /\ resources' = [resources EXCEPT ![s] = [NoResource EXCEPT !.id = nextId]]
      BY <1>2 DEF OpenReserve, FirstFree
    <2> QED BY <1>2, <2>1 DEF Opening, TypeOK, TablesOK
  <1>3. ASSUME NEW ok \in BOOLEAN, OpenReturn(ok), NEW r \in Slots, ~Opening(r)
        PROVE  resources'[r] = resources[r] /\ ~Opening(r)'
    <2>1. /\ pc = "opening" /\ pc' = "turn"
          /\ \A p : p = resources'[slot] => resources' = [resources EXCEPT ![slot] = p]
      BY <1>3 DEF OpenReturn, TypeOK, TablesOK, LoopOK
    <2> QED BY <1>3, <2>1 DEF Opening, TypeOK, TablesOK
  <1> QED BY <1>1, <1>2, <1>3, RequestsRest

LEMMA HandleFactRequests ==
  ASSUME TypeOK, TypeOK', HandleInv, SlotInv, RequestsAgree, NEW v \in Nat,
         ObserveReady(v) \/ ObserveGap(v) \/ ObserveEnd(v) \/ ObserveClosed(v)
  PROVE  RequestsAgree'
  <1>0. PICK s \in Slots : s = SlotAt(v)
    BY VisitType DEF ObserveReady, ObserveGap, ObserveEnd, ObserveClosed, Visits
  <1> DEFINE r == resources[s]
  <1>1. UNCHANGED <<requests, pc, slot, ownerOf, finished, verdict>> /\ r \in Resource
    BY SlotTypes DEF ObserveReady, ObserveGap, ObserveEnd, ObserveClosed, ledger
  <1>2. \/ resources' = [resources EXCEPT ![s] = [r EXCEPT !.ready = FALSE]]
        \/ resources' = [resources EXCEPT ![s] = [r EXCEPT !.gapCount = 0]]
        \/ resources' = [resources EXCEPT ![s] = [r EXCEPT !.endSeen = TRUE]]
        \/ /\ resources' = [resources EXCEPT ![s] = NoResource]
           /\ \A t \in Slots : requests[t].id # 0 => requests[t].handle # r.id
    BY <1>0 DEF ObserveReady, ObserveGap, ObserveEnd, ObserveClosed, CanClosed,
                TypeOK, TablesOK
  <1>3. \A u \in Slots : u # s => resources'[u] = resources[u]
    BY <1>2 DEF TypeOK, TablesOK
  <1>4. \/ resources'[s].id = r.id /\ resources'[s].closed = r.closed
        \/ \A t \in Slots : requests[t].id # 0 => requests[t].handle # r.id
    BY <1>1, <1>2 DEF Resource, TypeOK, TablesOK
  <1>5. \A u \in Slots : Opening(u)' <=> Opening(u)
    BY <1>1 DEF Opening
  <1> QED BY <1>1, <1>3, <1>4, <1>5, RequestsRest

LEMMA StreamRequests ==
  ASSUME TypeOK, TypeOK', SlotInv, RequestsAgree, NEW r \in Slots, End(r) \/ Gap(r)
  PROVE  RequestsAgree'
  <1>1. UNCHANGED <<requests, pc, slot, ownerOf, finished, verdict>>
    BY DEF End, Gap, cursor, ledger, guest
  <1>2. ASSUME NEW u \in Slots
        PROVE  resources'[u].id = resources[u].id /\ resources'[u].closed = resources[u].closed
    <2>1. resources[u] \in Resource
      BY SlotTypes
    <2>2. CASE End(r)
      BY <2>1, <2>2 DEF End, TypeOK, TablesOK, Resource
    <2>3. CASE Gap(r)
      BY <2>1, <2>3 DEF Gap, TypeOK, TablesOK, Resource
    <2> QED BY <2>2, <2>3
  <1>3. \A u \in Slots : Opening(u)' <=> Opening(u)
    BY <1>1 DEF Opening
  <1> QED BY <1>1, <1>2, <1>3, RequestsRest

(* Steps that change neither table.                                         *)
LEMMA OtherRequests ==
  ASSUME TypeOK, TypeOK', SlotInv, RequestsAgree,
         UNCHANGED <<resources, requests, ownerOf, finished, verdict>>,
         pc' # "opening" \/ UNCHANGED <<pc, slot>>
  PROVE  RequestsAgree'
  <1>1. \A r \in Slots : ~Opening(r) => ~Opening(r)'
    BY DEF Opening
  <1> QED BY <1>1, RequestsRest

LEMMA RequestsInit == Init => RequestsAgree
  BY DEF Init, RequestsAgree, NoRequest

LEMMA RequestsNext ==
  ASSUME IInv, TypeOK', HandleSide, RequestsAgree, [Next]_vars
  PROVE  RequestsAgree'
  <1>1. TypeOK /\ HandleInv /\ SlotInv
    BY DEF IInv, Safe
  <1> DEFINE Same == /\ UNCHANGED <<resources, requests, ownerOf, finished, verdict>>
                     /\ pc' # "opening" \/ UNCHANGED <<pc, slot>>
  <1>2. CASE Same
    BY <1>1, <1>2, OtherRequests
  <1>3. ASSUME NEW s \in Slots, Close(s)
        PROVE  RequestsAgree'
    <2>1. /\ CloseHandle(resources[s].id) /\ UNCHANGED <<ownerOf, verdict, finished>>
          /\ \A r \in Slots : Opening(r)' => Opening(r)
      BY <1>3 DEF Close, cursor, ledger, guest, Opening
    <2> QED BY <1>1, <2>1, CloseHandleRequests
  <1>4. ASSUME TurnFault
        PROVE  Same
    BY <1>4 DEF TurnFault, core, cursor, ledger, guest
  <1>5. CASE Guest
    BY <1>1, <1>2, <1>3, <1>4, <1>5, OpenRequests, CancelRequests, SubmitRequests DEF Guest
  <1>6. ASSUME NEW r \in Slots, NEW kind \in EventKinds, Emit(r, kind)
        PROVE  Same
    BY <1>6 DEF Emit, cursor, ledger, guest
  <1>7. CASE Producers
    BY <1>1, <1>2, <1>6, <1>7, CompleteRequests, FinishRequests, StreamRequests DEF Producers
  <1>8. ASSUME NEW v \in 0 .. LastVisit,
               ObserveReady(v) \/ ObserveGap(v) \/ ObserveEnd(v) \/ ObserveClosed(v)
               \/ ObserveComplete(v)
        PROVE  RequestsAgree'
    <2>1. v \in Nat
      OBVIOUS
    <2> QED BY <1>1, <1>8, <2>1, HandleFactRequests, AnswerRequests
  <1>9. ASSUME NEW v \in 0 .. LastVisit, ObserveEvent(v) \/ ObserveOther(v)
        PROVE  Same
    BY <1>9 DEF ObserveEvent, ObserveOther, core, ledger, guest
  <1>10. ASSUME ObserveReturn
         PROVE  Same
    BY <1>10 DEF ObserveReturn, core, ledger, guest
  <1>11. CASE Observe
    BY <1>2, <1>8, <1>9, <1>10, <1>11 DEF Observe
  <1>12. ASSUME TurnEnd \/ SweepResource
         PROVE  Same
    BY <1>12 DEF TurnEnd, SweepResource, NextSlot, AfterSweep, core, ledger, guest
  <1>13. ASSUME Idle \/ WaitEnd(FALSE) \/ WaitEnd(TRUE) \/ FaultedEnd \/ DestroyCheck
         PROVE  Same
    BY <1>13 DEF Idle, WaitEnd, FaultedEnd, DestroyCheck, core, ledger, guest
  <1>14. ASSUME Stop \/ UNCHANGED vars
         PROVE  Same
    BY <1>14 DEF Stop, vars, core, cursor, ledger, guest
  <1>15. CASE Shutdown
    <2>1. UNCHANGED <<ownerOf, verdict, finished>> /\ pc' # "opening"
      BY <1>15 DEF Shutdown, NextSlot, ledger, guest
    <2>2. \A r \in Slots : Opening(r)' => Opening(r)
      BY <2>1 DEF Opening
    <2>3. CASE resources[slot].id # 0
      <3>1. CloseHandle(resources[slot].id)
        BY <1>15, <2>3 DEF Shutdown
      <3> QED BY <1>1, <2>1, <2>2, <3>1, CloseHandleRequests
    <2>4. CASE resources[slot].id = 0
      <3>1. Same
        BY <1>15, <2>1, <2>4 DEF Shutdown
      <3> QED BY <1>2, <3>1
    <2> QED BY <2>3, <2>4
  <1> HIDE DEF Same
  <1>16. CASE Loop
    <2>1. ASSUME NEW ok \in BOOLEAN, OpenReturn(ok) \/ StartReturn(ok)
          PROVE  RequestsAgree'
      BY <1>1, <2>1, OpenRequests, StartReturnRequests
    <2> QED BY <1>1, <1>2, <1>11, <1>12, <1>13, <1>15, <1>16, <2>1, DispatchRequests DEF Loop
  <1> QED BY <1>1, <1>2, <1>5, <1>7, <1>13, <1>14, <1>16, NativeCloseRequests DEF Next, Freed

-----------------------------------------------------------------------------
(* Every step that gives a sleeping runner work wakes it.                   *)
LEMMA SleepNext ==
  ASSUME pc = "wait" /\ ~signal => ~Pending, [Next]_vars, pc' = "wait", ~signal'
  PROVE  ~Pending'
  <1> DEFINE Same == UNCHANGED <<resources, requests, events, pc, signal>>
  <1>1. ASSUME Same
        PROVE  ~Pending'
    BY <1>1 DEF Pending
  <1>2. CASE Idle
    BY <1>2 DEF Idle, core, Pending
  <1>3. CASE UNCHANGED vars
    BY <1>1, <1>3 DEF vars, core, runner
  <1>4. ~Producers /\ ~Stop
    BY DEF Producers, Complete, Finish, Emit, End, Gap, Stop, Wake
  <1>5. ~Guest
    BY DEF Guest, OpenReserve, Cancel, Close, Submit, TurnFault, Wake
  <1>6. ~Observe
    BY DEF Observe, ObserveReady, ObserveComplete, ObserveEvent, ObserveGap, ObserveEnd,
           ObserveClosed, ObserveOther, ObserveReturn, Visits
  <1>7. ~TurnEnd /\ ~DispatchRequest /\ ~SweepResource
    BY DEF TurnEnd, DispatchRequest, SweepResource, NextSlot, AfterSweep
  <1>8. \A ok \in BOOLEAN : ~OpenReturn(ok) /\ ~StartReturn(ok)
    BY DEF OpenReturn, StartReturn, NextSlot
  <1>9. ~WaitEnd(FALSE) /\ ~WaitEnd(TRUE) /\ ~FaultedEnd /\ ~DestroyCheck
    BY DEF WaitEnd, FaultedEnd, DestroyCheck
  <1>10. ~Shutdown
    BY DEF Shutdown, NextSlot
  <1>11. ~\E s \in Slots : \E ok \in BOOLEAN : NativeClose(s, ok)
    BY DEF NativeClose, NextSlot, AfterSweep
  <1>12. ~Loop \/ Idle
    BY <1>6, <1>7, <1>8, <1>9, <1>10 DEF Loop
  <1> QED BY <1>2, <1>3, <1>4, <1>5, <1>9, <1>11, <1>12 DEF Next, Freed

(* Only destroy's check frees the core, and then for good.                  *)
LEMMA FreedNext ==
  ASSUME IInv, RequestsAgree, FreedAfterNative, [Next]_vars, pc' = "freed"
  PROVE  FreedAfterNative'
  <1>1. CASE DestroyCheck
    <2>1. UNCHANGED <<resources, requests, held>>
          /\ \A s \in Slots : resources[s].id # 0 => resources[s].closed
      BY <1>1 DEF DestroyCheck, core, driver
    <2>2. ASSUME NEW q \in held
          PROVE  FALSE
      <3>1. PICK s \in Slots : requests[s].id = q /\ AwaitsNative(requests[s])
        BY DEF IInv, Safe, PayloadStable
      <3>2. RequestAgrees(requests[s])
        BY <3>1 DEF RequestsAgree, AwaitsNative
      <3>3. PICK r \in Slots : /\ resources[r].id = requests[s].handle
                               /\ resources[r].closed => ~AwaitsNative(requests[s])
        BY <3>2 DEF RequestAgrees
      <3> QED BY <2>1, <3>1, <3>2, <3>3 DEF RequestAgrees
    <2> QED BY <2>1, <2>2 DEF FreedAfterNative
  <1>2. CASE Stop \/ UNCHANGED vars
    BY <1>2 DEF Stop, vars, core, cursor, driver, FreedAfterNative
  <1>3. ~Producers
    BY DEF Producers, Complete, Finish, Emit, End, Gap, Unlocked
  <1>5. ~Guest
    BY DEF Guest, OpenReserve, Cancel, Close, Submit, TurnFault
  <1>6. ~Observe
    BY DEF Observe, ObserveReady, ObserveComplete, ObserveEvent, ObserveGap, ObserveEnd,
           ObserveClosed, ObserveOther, ObserveReturn, Visits
  <1>7. ~TurnEnd /\ ~DispatchRequest /\ ~SweepResource
    BY DEF TurnEnd, DispatchRequest, SweepResource, NextSlot, AfterSweep
  <1>8. \A ok \in BOOLEAN : ~OpenReturn(ok) /\ ~StartReturn(ok)
    BY DEF OpenReturn, StartReturn, NextSlot
  <1>9. ~WaitEnd(FALSE) /\ ~WaitEnd(TRUE) /\ ~FaultedEnd /\ ~Idle
    BY DEF WaitEnd, FaultedEnd, Idle
  <1>10. ~Shutdown
    BY DEF Shutdown, NextSlot
  <1>11. ~\E s \in Slots : \E ok \in BOOLEAN : NativeClose(s, ok)
    BY DEF NativeClose, NextSlot, AfterSweep
  <1>12. ~Loop \/ DestroyCheck
    BY <1>6, <1>7, <1>8, <1>9, <1>10 DEF Loop
  <1> QED BY <1>1, <1>2, <1>3, <1>5, <1>9, <1>11, <1>12 DEF Next, Freed

-----------------------------------------------------------------------------
(* Which step takes a fact from the ring, a gap or an end.                  *)
LEMMA FactSteps ==
  ASSUME IInv, HandleSide, [Next]_vars
  PROVE  /\ \/ \E v \in Nat : ObserveEvent(v)
            \/ events' = events
            \/ \E e : events' = Append(events, e)
         /\ \A s \in Slots : resources'[s].id = resources[s].id =>
              /\ \/ \E v \in Nat : ObserveGap(v) /\ SlotAt(v) = s
                 \/ resources'[s].gapCount = 0 => resources[s].gapCount = 0
              /\ \/ \E v \in Nat : ObserveEnd(v) /\ SlotAt(v) = s
                 \/ resources'[s].endSeen => resources[s].endSeen
  <1> DEFINE Keeps == /\ events' = events
                      /\ \A s \in Slots :
                           /\ resources'[s].gapCount = 0 => resources[s].gapCount = 0
                           /\ resources'[s].endSeen => resources[s].endSeen
             Goal == /\ \/ \E v \in Nat : ObserveEvent(v)
                        \/ events' = events
                        \/ \E e : events' = Append(events, e)
                     /\ \A s \in Slots : resources'[s].id = resources[s].id =>
                          /\ \/ \E v \in Nat : ObserveGap(v) /\ SlotAt(v) = s
                             \/ resources'[s].gapCount = 0 => resources[s].gapCount = 0
                          /\ \/ \E v \in Nat : ObserveEnd(v) /\ SlotAt(v) = s
                             \/ resources'[s].endSeen => resources[s].endSeen
  <1> SUFFICES Goal
    OBVIOUS
  <1>1. TypeOK /\ HandleInv /\ SlotInv
    BY DEF IInv, Safe
  <1>2. HandlesStill => Goal
    BY DEF HandlesStill
  <1>3. Keeps => Goal
    OBVIOUS
  <1>4. \A s \in Slots : resources[s] \in Resource
    BY <1>1, SlotTypes
  <1>5. ASSUME NEW s \in Slots, OpenReserve(s)
        PROVE  Goal
    <2>1. /\ events' = events /\ resources[s].id = 0
          /\ resources' = [resources EXCEPT ![s] = [NoResource EXCEPT !.id = nextId]]
      BY <1>5 DEF OpenReserve, FirstFree
    <2>2. resources'[s].gapCount = 0 /\ ~resources'[s].endSeen
      BY <1>1, <2>1 DEF NoResource, TypeOK, TablesOK
    <2>3. resources[s].gapCount = 0
      BY <2>1 DEF HandleSide, FreeZero, NoResource
    <2>4. Keeps
      BY <1>1, <2>1, <2>2, <2>3 DEF TypeOK, TablesOK
    <2> QED BY <1>3, <2>4
  <1>6. ASSUME NEW ok \in BOOLEAN, OpenReturn(ok)
        PROVE  Goal
    <2>0. slot \in Slots
      BY <1>1 DEF TypeOK, LoopOK
    <2>1. /\ events' = events /\ pc = "opening" /\ resources[slot].id # 0
          /\ resources' = [resources EXCEPT ![slot] =
               IF ok THEN [resources[slot] EXCEPT !.ready = TRUE] ELSE NoResource]
      BY <1>1, <1>6 DEF OpenReturn, HandleSide, HandlesAgree, TypeOK, TablesOK, LoopOK
    <2>2. \/ resources'[slot].id # resources[slot].id
          \/ /\ resources'[slot].gapCount = resources[slot].gapCount
             /\ resources'[slot].endSeen = resources[slot].endSeen
      BY <1>1, <1>4, <2>0, <2>1 DEF Resource, NoResource, TypeOK, TablesOK
    <2>3. \A s \in Slots : s # slot => resources'[s] = resources[s]
      BY <1>1, <2>0, <2>1 DEF TypeOK, TablesOK
    <2> QED BY <2>1, <2>2, <2>3
  <1>7. ASSUME NEW v \in Nat, ObserveReady(v)
        PROVE  Keeps
    <2>1. /\ events' = events
          /\ resources' = [resources EXCEPT ![SlotAt(v)].ready = FALSE]
      BY <1>7 DEF ObserveReady
    <2> QED BY <1>1, <1>4, <2>1 DEF TypeOK, TablesOK, Resource
  <1>8. ASSUME NEW v \in Nat, ObserveGap(v)
        PROVE  Goal
    <2>1. /\ events' = events
          /\ resources' = [resources EXCEPT ![SlotAt(v)].gapCount = 0]
      BY <1>8 DEF ObserveGap
    <2>2. ASSUME NEW s \in Slots, s # SlotAt(v)
          PROVE  resources'[s] = resources[s]
      BY <1>1, <2>1, <2>2 DEF TypeOK, TablesOK
    <2>3. \A s \in Slots : resources'[s].endSeen = resources[s].endSeen
      BY <1>1, <1>4, <2>1 DEF TypeOK, TablesOK, Resource
    <2> QED BY <1>8, <2>1, <2>2, <2>3
  <1>9. ASSUME NEW v \in Nat, ObserveEnd(v)
        PROVE  Goal
    <2>1. /\ events' = events
          /\ resources' = [resources EXCEPT ![SlotAt(v)].endSeen = TRUE]
      BY <1>9 DEF ObserveEnd
    <2>2. ASSUME NEW s \in Slots, s # SlotAt(v)
          PROVE  resources'[s] = resources[s]
      BY <1>1, <2>1, <2>2 DEF TypeOK, TablesOK
    <2>3. \A s \in Slots : resources'[s].gapCount = resources[s].gapCount
      BY <1>1, <1>4, <2>1 DEF TypeOK, TablesOK, Resource
    <2> QED BY <1>9, <2>1, <2>2, <2>3
  <1>10. ASSUME NEW v \in Nat, ObserveClosed(v)
         PROVE  Goal
    <2>0. PICK s \in Slots : s = SlotAt(v)
      BY <1>1, <1>10, VisitType DEF ObserveClosed, Visits
    <2>1. /\ events' = events /\ resources[s].id # 0
          /\ resources' = [resources EXCEPT ![s] = NoResource]
      BY <1>10, <2>0 DEF ObserveClosed, CanClosed, Drained
    <2>2. resources'[s].id # resources[s].id
          /\ \A u \in Slots : u # s => resources'[u] = resources[u]
      BY <1>1, <2>1 DEF NoResource, TypeOK, TablesOK
    <2> QED BY <2>1, <2>2
  <1>11. ASSUME NEW v \in Nat, ObserveEvent(v)
         PROVE  Goal
    BY <1>11 DEF ObserveEvent
  <1>12. ASSUME NEW r \in Slots, End(r) \/ \E s \in Slots : Finish(r, s)
         PROVE  Keeps
    <2>1. /\ events' = events
          /\ resources' = [resources EXCEPT ![r].ended = TRUE,
                                            ![r].endOffset = sent[resources[r].id]]
      BY <1>12 DEF End, Finish
    <2> QED BY <1>1, <1>4, <2>1 DEF TypeOK, TablesOK, Resource
  <1>13. ASSUME NEW r \in Slots, Gap(r)
         PROVE  Keeps
    <2>1. events' = events
      BY <1>13 DEF Gap
    <2>2. \A s \in Slots : resources'[s].endSeen = resources[s].endSeen
      BY <1>1, <1>4, <1>13 DEF Gap, TypeOK, TablesOK, Resource
    <2>3. \A s \in Slots : resources'[s].gapCount = resources[s].gapCount
                           \/ resources'[s].gapCount = resources[s].gapCount + 1
      BY <1>1, <1>4, <1>13 DEF Gap, TypeOK, TablesOK, Resource
    <2>4. \A s \in Slots : resources[s].gapCount + 1 # 0
      BY <1>1, SlotTypes
    <2> QED BY <2>1, <2>2, <2>3, <2>4
  <1>14. ASSUME NEW r \in Slots, NEW kind \in EventKinds, Emit(r, kind)
         PROVE  Goal
    BY <1>14 DEF Emit
  <1> HIDE DEF Goal, Keeps
  <1>15. CASE Guest
    BY <1>1, <1>2, <1>5, <1>15, StillSteps DEF Guest
  <1>16. CASE Producers
    BY <1>1, <1>2, <1>3, <1>12, <1>13, <1>14, <1>16, StillSteps DEF Producers
  <1>17. CASE Observe
    <2>1. ASSUME NEW v \in 0 .. LastVisit,
                 \/ ObserveReady(v) \/ ObserveEvent(v) \/ ObserveGap(v) \/ ObserveEnd(v)
                 \/ ObserveClosed(v)
          PROVE  Goal
      <3>1. v \in Nat
        OBVIOUS
      <3> QED BY <1>3, <1>7, <1>8, <1>9, <1>10, <1>11, <2>1, <3>1
    <2>2. ASSUME NEW v \in 0 .. LastVisit, ObserveComplete(v) \/ ObserveOther(v)
          PROVE  Goal
      BY <1>1, <1>2, <2>2, StillSteps
    <2>3. CASE ObserveReturn
      BY <1>1, <1>2, <2>3, StillSteps
    <2> QED BY <1>17, <2>1, <2>2, <2>3 DEF Observe
  <1>18. CASE Loop
    <2>1. ASSUME NEW ok \in BOOLEAN, OpenReturn(ok) \/ StartReturn(ok)
          PROVE  Goal
      BY <1>1, <1>2, <1>6, <2>1, StillSteps
    <2>2. CASE \/ TurnEnd \/ DispatchRequest \/ SweepResource \/ Idle \/ WaitEnd(FALSE)
               \/ FaultedEnd \/ Shutdown \/ DestroyCheck
      BY <1>1, <1>2, <2>2, StillSteps
    <2> QED BY <1>17, <1>18, <2>1, <2>2 DEF Loop
  <1>19. CASE \E s \in Slots : \E ok \in BOOLEAN : NativeClose(s, ok)
    BY <1>1, <1>2, <1>19, StillSteps
  <1>20. CASE WaitEnd(TRUE) \/ Stop \/ UNCHANGED vars
    BY <1>1, <1>2, <1>20, StillSteps
  <1> QED BY <1>15, <1>16, <1>18, <1>19, <1>20 DEF Next, Freed

(* The fact a guest takes is the one it expects, of a stream it has open.   *)
LEMMA EventTaken ==
  ASSUME TypeOK, HandleInv, HandleSide, NEW v \in Nat, ObserveEvent(v)
  PROVE  LET e == Head(events)
         IN /\ e.handle \in Ids
            /\ e.kind = "data" => e.offset = next[e.handle] /\ e.offset \in Nat
            /\ \/ /\ stage[e.handle] = "ready"
                  /\ e.kind = "data" => e.offset + 1 \in Offsets
               \/ stage[e.handle] = "none" /\ OwnerSlots(e.handle) = {}
  <1>0. PICK e : e = events[1]
    OBVIOUS
  <1>1. /\ events # <<>> /\ events' = Tail(events) /\ pc = "observe"
        /\ \A s \in OwnerSlots(Head(events).handle) : ~resources[s].ready
    BY DEF ObserveEvent, Visits, Copies, CanEvent
  <1>2. /\ 1 \in DOMAIN events /\ e = Head(events) /\ e.handle \in Ids /\ e.offset \in Nat
    BY <1>0, <1>1, RingTaken, RingTypes
  <1>3. PICK t \in Nat : /\ Tiles(e.handle, t)
                         /\ \A s \in Slots : resources[s].id = e.handle => t = TailOf(s)
    BY <1>2 DEF HandleSide, StreamsTile
  <1>4. e.kind = "data" => e.offset = next[e.handle] /\ e.offset < t
    BY <1>0, <1>2, <1>3, HeadExpected DEF IsData
  <1>5. CASE \E s \in Slots : resources[s].id = e.handle /\ ~resources[s].endSeen
    <2>1. PICK s \in Slots : resources[s].id = e.handle /\ ~resources[s].endSeen
      BY <1>5
    <2>2. resources[s].id # 0 /\ ~Opening(s) /\ ~resources[s].ready
      BY <1>1, <1>2, <2>1, CounterTypes DEF OwnerSlots, Opening
    <2>3. HandleAgrees(s)
      BY <2>2 DEF HandleSide, HandlesAgree
    <2>4. stage[e.handle] = "ready"
      BY <2>1, <2>2, <2>3 DEF HandleAgrees, StageOf
    <2>5. t <= MaxOffset
      <3>1. t = TailOf(s) /\ sent[e.handle] <= MaxOffset
        BY <1>3, <2>1, <2>3 DEF HandleAgrees
      <3>2. /\ resources[s].gapCount > 0 =>
                 resources[s].gapOffset + resources[s].gapCount = sent[e.handle]
            /\ resources[s].gapCount \in Nat /\ resources[s].gapOffset \in Nat
            /\ sent[e.handle] \in Nat /\ MaxOffset \in Nat
        BY <1>2, <2>1, <2>3, SlotTypes, CounterTypes DEF HandleAgrees
      <3> QED BY <2>1, <3>1, <3>2 DEF TailOf
    <2>6. e.kind = "data" => e.offset + 1 \in Offsets
      BY <1>2, <1>4, <2>5, CounterTypes DEF Offsets
    <2> QED BY <1>2, <1>4, <2>4, <2>6
  <1>6. CASE stage[e.handle] = "none" /\ \A s \in Slots : resources[s].id # e.handle
    BY <1>2, <1>4, <1>6 DEF OwnerSlots
  <1> QED BY <1>0, <1>2, <1>5, <1>6 DEF HandleSide, EventsInside

(* An append makes no ring shorter. *)
LEMMA RingLonger ==
  ASSUME TypeOK, NEW e, events' = Append(events, e)
  PROVE  ~(Len(events') < Len(events))
  <1>1. \A S : events \in Seq(S) => Len(Append(events, e)) = Len(events) + 1 /\ Len(events) \in Nat
    OBVIOUS
  <1>2. Len(events') = Len(events) + 1 /\ Len(events) \in Nat
    BY <1>1, RingTypes
  <1> QED BY <1>2

LEMMA RingShorter ==
  ASSUME IInv, HandleSide, [Next]_vars, Len(events') < Len(events)
  PROVE  \E v \in Nat : ObserveEvent(v)
  <1>1. TypeOK /\ Len(events) \in Nat
    BY RingTypes DEF IInv
  <1>2. events' # events
    BY <1>1
  <1> QED BY <1>1, <1>2, FactSteps, RingLonger

-----------------------------------------------------------------------------
LEMMA StreamsInit == Init => Streams
  BY HandleSideInit, RequestsInit DEF Init, Streams, RestsOK, FreedAfterNative

LEMMA StreamsNext ==
  ASSUME IInv, TypeOK', Streams, [Next]_vars
  PROVE  Streams'
  <1>1. HandleSide' /\ RequestsAgree'
    BY HandleSideNext, RequestsNext DEF Streams
  <1>2. pc' = "wait" /\ ~signal' => ~Pending'
    BY SleepNext DEF Streams, RestsOK
  <1>3. pc' = "freed" => FreedAfterNative'
    BY FreedNext DEF Streams, RestsOK
  <1>4. pc' # "freed" => FreedAfterNative'
    BY DEF FreedAfterNative
  <1> QED BY <1>1, <1>2, <1>3, <1>4 DEF Streams, RestsOK

(* The tables, the ring, the drivers and the guest agree on every handle,   *)
(* stream and request.                                                      *)
THEOREM StreamsAgree == Spec => [](IInv /\ Streams)
  <1>1. Init => Streams
    BY StreamsInit
  <1>2. IInv /\ IInv' /\ Streams /\ [Next]_vars => Streams'
    BY StreamsNext DEF IInv
  <1> QED BY <1>1, <1>2, Inductive, PTL DEF Spec

(* A runner that sleeps with no wake pending and no close to retry left no  *)
(* work: what runner.c tests before it waits, and the wake of every call    *)
(* that makes work afterwards, lose none.                                   *)
THEOREM SleepLosesNothing == Spec => []SleepsOnlyWhenDone
  <1>1. ASSUME IInv, Streams, pc = "wait", ~signal
        PROVE  /\ events = <<>>
               /\ \A s \in Slots : LET q == requests[s] IN q.id # 0 =>
                    ~q.cancel /\ IF q.terminal THEN q.observed ELSE q.started
               /\ \A s \in Slots : LET r == resources[s] IN r.id # 0 =>
                    ~r.ready /\ ~r.closed /\ r.gapCount = 0 /\ (r.ended => r.endSeen)
    <2>1. ~Pending
      BY <1>1 DEF Streams, RestsOK
    <2>2. events = <<>>
      BY <2>1 DEF Pending
    <2>3. ASSUME NEW s \in Slots, requests[s].id # 0
          PROVE  ~requests[s].cancel
                 /\ IF requests[s].terminal THEN requests[s].observed ELSE requests[s].started
      BY <2>1, <2>3, ZenonT(60) DEF Pending
    <2>4. ASSUME NEW s \in Slots, resources[s].id # 0
          PROVE  /\ ~resources[s].ready /\ ~resources[s].closed
                 /\ ~(resources[s].gapCount > 0) /\ (resources[s].ended => resources[s].endSeen)
      BY <2>1, <2>4, ZenonT(60) DEF Pending
    <2>5. \A s \in Slots : ~(resources[s].gapCount > 0) => resources[s].gapCount = 0
      BY <1>1, SlotTypes DEF IInv
    <2> QED BY <2>2, <2>3, <2>4, <2>5
  <1>2. IInv /\ Streams => SleepsOnlyWhenDone
    BY <1>1 DEF SleepsOnlyWhenDone
  <1> QED BY <1>2, StreamsAgree, PTL

(* pocket_worker_destroy frees the tables only when no driver holds a       *)
(* payload and every handle's native close returned OK.                     *)
THEOREM NothingNativeIsFreed == Spec => []FreedAfterNative
  <1>1. IInv /\ Streams => FreedAfterNative
    BY DEF Streams, RestsOK
  <1> QED BY <1>1, StreamsAgree, PTL

(* Every DATA fact is at the offset its guest expects, every GAP starts     *)
(* there and every END stands there: no record is skipped or told twice.    *)
THEOREM StreamsAreContiguous == Spec => Contiguous
  <1> DEFINE Step ==
        /\ Len(events') < Len(events) /\ Head(events).kind = "data" =>
             Head(events).offset = next[Head(events).handle]
        /\ \A s \in Slots : LET r == resources[s] IN resources'[s].id = r.id =>
             /\ r.gapCount > 0 /\ resources'[s].gapCount = 0 => r.gapOffset = next[r.id]
             /\ ~r.endSeen /\ resources'[s].endSeen => r.endOffset = next[r.id]
  <1>1. ASSUME IInv, Streams, [Next]_vars
        PROVE  Step
    <2>0. TypeOK /\ HandleInv /\ HandleSide
      BY <1>1 DEF IInv, Streams
    <2>1. Len(events') < Len(events) /\ Head(events).kind = "data" =>
            Head(events).offset = next[Head(events).handle]
      BY <1>1, <2>0, RingShorter, EventTaken
    <2>2. ASSUME NEW s \in Slots, resources'[s].id = resources[s].id,
                 resources[s].gapCount > 0, resources'[s].gapCount = 0
          PROVE  resources[s].gapOffset = next[resources[s].id]
      <3>1. resources[s].gapCount # 0
        BY <2>0, <2>2, SlotTypes
      <3>2. PICK v \in Nat : ObserveGap(v) /\ SlotAt(v) = s
        BY <1>1, <2>0, <2>2, <3>1, FactSteps
      <3>3. events = <<>> /\ resources[s].id # 0
        BY <3>2 DEF ObserveGap, CanGap, Drained
      <3> QED BY <2>0, <2>2, <3>3, DrainedTail DEF TailOf
    <2>3. ASSUME NEW s \in Slots, resources'[s].id = resources[s].id,
                 ~resources[s].endSeen, resources'[s].endSeen
          PROVE  resources[s].endOffset = next[resources[s].id]
      <3>1. PICK v \in Nat : ObserveEnd(v) /\ SlotAt(v) = s
        BY <1>1, <2>0, <2>3, FactSteps
      <3>2. events = <<>> /\ resources[s].id # 0 /\ resources[s].ended
            /\ resources[s].gapCount = 0
        BY <3>1 DEF ObserveEnd, CanEnd, Drained
      <3>3. HandleAgrees(s)
        BY <2>0, <3>2 DEF HandleSide, HandlesAgree
      <3> QED BY <2>0, <3>2, <3>3, DrainedTail DEF TailOf, HandleAgrees
    <2> QED BY <2>1, <2>2, <2>3
  <1>2. Contiguous <=> [][Step]_vars
    BY DEF Contiguous
  <1> HIDE DEF Step
  <1>3. IInv /\ Streams /\ [Next]_vars => [Step]_vars
    BY <1>1
  <1> QED BY <1>2, <1>3, StreamsAgree, PTL DEF Spec

(* A fact of a stream is taken between its handle's READY and END.          *)
THEOREM FactsStayInside == Spec => FactsInsideStream
  <1> DEFINE Step ==
        Len(events') < Len(events) =>
          LET h == Head(events).handle
          IN stage[h] = "ready" \/ (stage[h] = "none" /\ OwnerSlots(h) = {})
  <1>1. ASSUME IInv, Streams, [Next]_vars
        PROVE  Step
    <2>1. TypeOK /\ HandleInv /\ HandleSide
      BY <1>1 DEF IInv, Streams
    <2> QED BY <1>1, <2>1, RingShorter, EventTaken
  <1>2. FactsInsideStream <=> [][Step]_vars
    BY DEF FactsInsideStream
  <1> HIDE DEF Step
  <1>3. IInv /\ Streams /\ [Next]_vars => [Step]_vars
    BY <1>1
  <1> QED BY <1>2, <1>3, StreamsAgree, PTL DEF Spec

-----------------------------------------------------------------------------
(* The refinement: each step of the core is a step of the promise.          *)
(* Most steps tell the guest nothing and accept, run and finish nothing.    *)
Silent == UNCHANGED <<ownerOf, ran, finished, stage, next, verdict>>

LEMMA SilentStutters == Silent => UNCHANGED Promise!vars
  BY DEF Silent, Promise!vars

LEMMA PromiseInit == Init => Promise!Init
  <1> SUFFICES ASSUME Init PROVE Promise!Init
    OBVIOUS
  <1>1. /\ ownerOf = [q \in Ids |-> 0] /\ ran = {} /\ finished = {}
        /\ stage = [h \in Ids |-> "none"] /\ verdict = [q \in Ids |-> "none"]
    BY DEF Init
  <1>2. [h \in Ids |-> IF stage[h] = "none" THEN 0 ELSE next[h]] = [h \in Ids |-> 0]
    BY <1>1
  <1> QED BY <1>1, <1>2 DEF Promise!Init

LEMMA AcceptStep ==
  ASSUME IInv, Streams, NEW r \in Slots, NEW s \in Slots, Submit(r, s)
  PROVE  Promise!Next
  <1> DEFINE h == resources[r].id
             q == nextId
  <1>0. TypeOK /\ HandleInv /\ HandleSide /\ SlotInv
    BY DEF IInv, Streams, Safe
  <1>1. /\ h \in Ids /\ q \in Ids /\ ~resources[r].closing /\ pc = "turn"
        /\ ownerOf' = [ownerOf EXCEPT ![q] = h]
        /\ UNCHANGED <<ran, finished, stage, next, verdict>>
    BY <1>0, SlotTypes, CounterTypes, SizesAssumption DEF Submit, guest, Ids
  <1>2. HandleAgrees(r) /\ ~Opening(r)
    BY <1>0, <1>1, CounterTypes DEF HandleSide, HandlesAgree, Opening
  <1>3. ownerOf[q] = 0 /\ stage[q] = "none" /\ stage[h] # "closed" /\ ownerOf[h] = 0
    BY <1>0, <1>1, <1>2, CounterTypes
       DEF HandleSide, Unheard, SlotInv, IdsFresh, HandleAgrees, StageOf
  <1> HIDE DEF h, q
  <1>4. Promise!Accept(q, h)
    BY <1>1, <1>3 DEF Promise!Accept
  <1> QED BY <1>1, <1>4 DEF Promise!Next

LEMMA RunStep ==
  ASSUME IInv, Streams, DispatchRequest
  PROVE  Promise!Next \/ UNCHANGED Promise!vars
  <1> DEFINE q == requests[slot]
  <1>0. TypeOK /\ SlotInv /\ slot \in Slots
    BY DEF IInv, Safe, TypeOK, LoopOK
  <1>1. UNCHANGED <<ownerOf, finished, stage, next, verdict>>
    BY DEF DispatchRequest, guest
  <1>2. \/ ran' = ran
        \/ /\ q.id # 0 /\ ~q.started /\ ~q.terminal
           /\ ran' = ran \cup {q.id}
    BY DEF DispatchRequest
  <1>3. CASE ran' = ran
    BY <1>1, <1>3, SilentStutters DEF Silent
  <1>4. CASE q.id # 0 /\ ~q.started /\ ~q.terminal /\ ran' = ran \cup {q.id}
    <2>1. q.id \in Ids /\ SlotAgrees(q) /\ RequestAgrees(q)
      BY <1>0, <1>4, SlotTypes DEF SlotInv, Streams, RequestsAgree
    <2>2. ownerOf[q.id] # 0 /\ q.id \notin ran /\ verdict[q.id] = "none"
      BY <1>4, <2>1 DEF SlotAgrees, RequestAgrees
    <2> HIDE DEF q
    <2>3. Promise!Run(q.id)
      BY <1>1, <1>4, <2>2 DEF Promise!Run
    <2> QED BY <2>1, <2>3 DEF Promise!Next
  <1> QED BY <1>2, <1>3, <1>4

LEMMA FinishStep ==
  ASSUME IInv, Streams, NEW r \in Slots, NEW s \in Slots, Finish(r, s)
  PROVE  Promise!Next \/ UNCHANGED Promise!vars
  <1> DEFINE q == requests[s]
  <1>0. TypeOK /\ SlotInv
    BY DEF IInv, Safe
  <1>1. /\ UNCHANGED <<ownerOf, ran, stage, next, verdict>> /\ q.id # 0 /\ q.started
        /\ finished' = IF q.terminal THEN finished ELSE finished \cup {q.id}
    BY DEF Finish, AwaitsNative, guest
  <1>2. CASE finished' = finished
    BY <1>1, <1>2, SilentStutters DEF Silent
  <1>3. CASE ~q.terminal /\ finished' = finished \cup {q.id}
    <2>1. q.id \in Ids /\ SlotAgrees(q) /\ RequestAgrees(q)
      BY <1>0, <1>1, SlotTypes DEF SlotInv, Streams, RequestsAgree
    <2>2. q.id \in ran \ finished /\ verdict[q.id] = "none"
      BY <1>1, <1>3, <2>1 DEF SlotAgrees, RequestAgrees
    <2> HIDE DEF q
    <2>3. Promise!Finish(q.id)
      BY <1>1, <1>3, <2>2 DEF Promise!Finish
    <2> QED BY <2>1, <2>3 DEF Promise!Next
  <1> QED BY <1>1, <1>2, <1>3

LEMMA AnswerStep ==
  ASSUME IInv, Streams, NEW v \in Nat, ObserveComplete(v)
  PROVE  Promise!Next
  <1>0. TypeOK /\ HandleInv /\ SlotInv /\ HandleSide
    BY DEF IInv, Safe, Streams
  <1>1. PICK s \in Slots : s = SlotAt(v)
    BY <1>0, VisitType DEF ObserveComplete, Visits
  <1> DEFINE q == requests[s]
  <1>2. /\ q.id # 0 /\ q.terminal /\ ~q.observed /\ pc = "observe"
        /\ verdict' = [verdict EXCEPT ![q.id] = IF @ = "none" THEN q.status ELSE "twice"]
        /\ UNCHANGED <<ownerOf, ran, finished, stage, next>>
    BY <1>1 DEF ObserveComplete, Visits, Copies, CanComplete, ledger
  <1>3. PICK r \in Slots : /\ q.handle # 0 /\ resources[r].id = q.handle /\ ~resources[r].ready
                           /\ q.afterEnd => resources[r].endSeen
    BY <1>1 DEF ObserveComplete, Visits, Copies, CanComplete, OwnerSlots
  <1>4. /\ q.id \in Ids /\ SlotAgrees(q) /\ RequestAgrees(q) /\ q \in Request
        /\ q.status \in {"done", "unknown", "cancelled"}
    BY <1>0, <1>2, SlotTypes DEF SlotInv, Streams, RequestsAgree, Request, Statuses
  <1>5. ownerOf[q.id] = q.handle /\ verdict[q.id] = "none"
    BY <1>2, <1>4 DEF SlotAgrees
  <1>6. HandleAgrees(r) /\ ~Opening(r)
    BY <1>0, <1>2, <1>3 DEF HandleSide, HandlesAgree, Opening
  <1>7. stage[q.handle] = IF resources[r].endSeen THEN "ended" ELSE "ready"
    BY <1>3, <1>6 DEF HandleAgrees, StageOf
  <1>8. (q.status = "cancelled") <=> (q.id \notin ran)
    BY <1>2, <1>4 DEF SlotAgrees, StatusAgrees, RequestAgrees
  <1>9. q.id \in finished => stage[q.handle] = "ended" /\ q.status = "done"
    BY <1>3, <1>4, <1>7 DEF RequestAgrees
  <1>10. verdict' = [verdict EXCEPT ![q.id] = q.status]
    BY <1>2, <1>5
  <1> HIDE DEF q
  <1>11. Promise!Answer(q.id, q.status)
    BY <1>2, <1>3, <1>5, <1>7, <1>8, <1>9, <1>10 DEF Promise!Answer
  <1> QED BY <1>4, <1>11 DEF Promise!Next

LEMMA ReadyStep ==
  ASSUME IInv, Streams, NEW v \in Nat, ObserveReady(v)
  PROVE  Promise!Next
  <1>0. TypeOK /\ HandleInv /\ HandleSide
    BY DEF IInv, Streams
  <1>1. PICK s \in Slots : s = SlotAt(v)
    BY <1>0, VisitType DEF ObserveReady, Visits
  <1> DEFINE h == resources[s].id
  <1>2. /\ h # 0 /\ resources[s].ready /\ h \in Ids
        /\ stage' = [stage EXCEPT ![h] = "ready"]
        /\ UNCHANGED <<ownerOf, ran, finished, next, verdict>>
    BY <1>0, <1>1, SlotTypes DEF ObserveReady, Visits, Copies, CanReady, ledger
  <1>3. HandleAgrees(s)
    BY <1>0, <1>2 DEF HandleSide, HandlesAgree
  <1>4. stage[h] = "none" /\ ownerOf[h] = 0 /\ next[h] = 0
    BY <1>2, <1>3 DEF HandleAgrees, StageOf
  <1> HIDE DEF h
  <1>5. \A g \in Ids : (IF stage'[g] = "none" THEN 0 ELSE next'[g])
                       = (IF stage[g] = "none" THEN 0 ELSE next[g])
    BY <1>0, <1>2, <1>4 DEF TypeOK, HistoryOK
  <1>6. [g \in Ids |-> IF stage'[g] = "none" THEN 0 ELSE next'[g]]
        = [g \in Ids |-> IF stage[g] = "none" THEN 0 ELSE next[g]]
    BY <1>5
  <1>7. Promise!Ready(h)
    BY <1>2, <1>4, <1>6 DEF Promise!Ready
  <1> QED BY <1>2, <1>7 DEF Promise!Next

(* The guest's stream moves on to an offset further on. *)
LEMMA AdvanceStep ==
  ASSUME TypeOK, NEW h \in Ids, stage[h] = "ready", NEW offset \in Offsets, offset > next[h],
         next' = [next EXCEPT ![h] = offset],
         UNCHANGED <<ownerOf, ran, finished, stage, verdict>>
  PROVE  Promise!Next
  <1>1. [g \in Ids |-> IF stage'[g] = "none" THEN 0 ELSE next'[g]]
        = [[g \in Ids |-> IF stage[g] = "none" THEN 0 ELSE next[g]] EXCEPT ![h] = offset]
    BY CounterTypes
  <1>2. [g \in Ids |-> IF stage[g] = "none" THEN 0 ELSE next[g]][h] = next[h]
    OBVIOUS
  <1>3. Promise!Advance(h, offset)
    BY <1>1, <1>2 DEF Promise!Advance
  <1> QED BY <1>3 DEF Promise!Next

LEMMA EventStep ==
  ASSUME IInv, Streams, NEW v \in Nat, ObserveEvent(v)
  PROVE  Promise!Next \/ UNCHANGED Promise!vars
  <1>0. TypeOK /\ HandleInv /\ HandleSide
    BY DEF IInv, Streams
  <1>1. PICK e : e = Head(events)
    OBVIOUS
  <1>2. /\ e.handle \in Ids
        /\ e.kind = "data" => e.offset = next[e.handle] /\ e.offset \in Nat
        /\ \/ stage[e.handle] = "ready" /\ (e.kind = "data" => e.offset + 1 \in Offsets)
           \/ stage[e.handle] = "none"
    BY <1>0, <1>1, EventTaken
  <1>3. /\ next' = IF e.kind = "data" THEN [next EXCEPT ![e.handle] = e.offset + 1] ELSE next
        /\ UNCHANGED <<ownerOf, ran, finished, stage, verdict>>
    BY <1>1 DEF ObserveEvent, ledger
  <1>4. CASE e.kind # "data"
    BY <1>3, <1>4, SilentStutters DEF Silent
  <1>5. CASE e.kind = "data" /\ stage[e.handle] = "ready"
    <2>1. e.offset + 1 > next[e.handle] /\ e.offset + 1 \in Offsets
      BY <1>2, <1>5
    <2> QED BY <1>0, <1>2, <1>3, <1>5, <2>1, AdvanceStep
  <1>6. CASE e.kind = "data" /\ stage[e.handle] = "none"
    <2>1. \A g \in Ids : (IF stage'[g] = "none" THEN 0 ELSE next'[g])
                         = (IF stage[g] = "none" THEN 0 ELSE next[g])
      BY <1>0, <1>2, <1>3, <1>6, CounterTypes
    <2>2. [g \in Ids |-> IF stage'[g] = "none" THEN 0 ELSE next'[g]]
          = [g \in Ids |-> IF stage[g] = "none" THEN 0 ELSE next[g]]
      BY <2>1
    <2> QED BY <1>3, <2>2 DEF Promise!vars
  <1> QED BY <1>2, <1>4, <1>5, <1>6

LEMMA GapStep ==
  ASSUME IInv, Streams, NEW v \in Nat, ObserveGap(v)
  PROVE  Promise!Next
  <1>0. TypeOK /\ HandleInv /\ HandleSide
    BY DEF IInv, Streams
  <1>1. PICK s \in Slots : s = SlotAt(v)
    BY <1>0, VisitType DEF ObserveGap, Visits
  <1> DEFINE r == resources[s]
             h == r.id
  <1>2. /\ h # 0 /\ ~r.ready /\ r.gapCount > 0 /\ events = <<>> /\ h \in Ids /\ pc = "observe"
        /\ next' = [next EXCEPT ![h] = r.gapOffset + r.gapCount]
        /\ UNCHANGED <<ownerOf, ran, finished, stage, verdict>>
    BY <1>0, <1>1, SlotTypes DEF ObserveGap, Visits, CanGap, Drained, ledger
  <1>3. HandleAgrees(s) /\ ~Opening(s)
    BY <1>0, <1>2 DEF HandleSide, HandlesAgree, Opening
  <1>4. /\ r.gapCount \in Nat /\ r.gapOffset \in Nat /\ sent[h] \in Nat /\ MaxOffset \in Nat
    BY <1>0, <1>2, SlotTypes, CounterTypes
  <1>5. next[h] = r.gapOffset
    BY <1>0, <1>2, DrainedTail DEF TailOf
  <1>6. stage[h] = "ready"
    <2>1. r.gapCount # 0
      BY <1>2, <1>4
    <2> QED BY <1>2, <1>3, <2>1 DEF HandleAgrees, StageOf
  <1>7. r.gapOffset + r.gapCount \in Offsets /\ r.gapOffset + r.gapCount > next[h]
    BY <1>2, <1>3, <1>4, <1>5 DEF HandleAgrees, Offsets
  <1> QED BY <1>0, <1>2, <1>6, <1>7, AdvanceStep

(* END and CLOSED leave what the guest expects of the stream.               *)
LEMMA ToldStays ==
  ASSUME TypeOK, NEW h \in Ids, stage[h] # "none", NEW to, to # "none",
         stage' = [stage EXCEPT ![h] = to], UNCHANGED next
  PROVE  [g \in Ids |-> IF stage'[g] = "none" THEN 0 ELSE next'[g]]
         = [g \in Ids |-> IF stage[g] = "none" THEN 0 ELSE next[g]]
  <1>1. \A g \in Ids : (IF stage'[g] = "none" THEN 0 ELSE next'[g])
                       = (IF stage[g] = "none" THEN 0 ELSE next[g])
    BY DEF TypeOK, HistoryOK
  <1> QED BY <1>1

LEMMA EndStep ==
  ASSUME IInv, Streams, NEW v \in Nat, ObserveEnd(v)
  PROVE  Promise!Next
  <1>0. TypeOK /\ HandleInv /\ HandleSide
    BY DEF IInv, Streams
  <1>1. PICK s \in Slots : s = SlotAt(v)
    BY <1>0, VisitType DEF ObserveEnd, Visits
  <1> DEFINE h == resources[s].id
  <1>2. /\ h # 0 /\ ~resources[s].ready /\ ~resources[s].endSeen /\ h \in Ids
        /\ pc = "observe" /\ stage' = [stage EXCEPT ![h] = "ended"]
        /\ UNCHANGED <<ownerOf, ran, finished, next, verdict>>
    BY <1>0, <1>1, SlotTypes DEF ObserveEnd, Visits, CanEnd, Drained, ledger
  <1>3. HandleAgrees(s) /\ ~Opening(s)
    BY <1>0, <1>2 DEF HandleSide, HandlesAgree, Opening
  <1>4. stage[h] = "ready"
    BY <1>2, <1>3 DEF HandleAgrees, StageOf
  <1> HIDE DEF h
  <1>5. Promise!End(h)
    BY <1>0, <1>2, <1>4, ToldStays DEF Promise!End
  <1> QED BY <1>2, <1>5 DEF Promise!Next

LEMMA ClosedStep ==
  ASSUME IInv, Streams, NEW v \in Nat, ObserveClosed(v)
  PROVE  Promise!Next
  <1>0. TypeOK /\ HandleInv /\ HandleSide /\ SlotInv /\ RequestsAgree
    BY DEF IInv, Streams, Safe
  <1>1. PICK s \in Slots : s = SlotAt(v)
    BY <1>0, VisitType DEF ObserveClosed, Visits
  <1> DEFINE h == resources[s].id
  <1>2. /\ h # 0 /\ ~resources[s].ready /\ h \in Ids /\ pc = "observe"
        /\ \A t \in Slots : requests[t].id # 0 => requests[t].handle # h
        /\ stage' = [stage EXCEPT ![h] = "closed"]
        /\ UNCHANGED <<ownerOf, ran, finished, next, verdict>>
    BY <1>0, <1>1, SlotTypes DEF ObserveClosed, Visits, CanClosed, Drained, ledger
  <1>3. HandleAgrees(s) /\ ~Opening(s)
    BY <1>0, <1>2 DEF HandleSide, HandlesAgree, Opening
  <1>4. stage[h] \in {"ready", "ended"}
    BY <1>2, <1>3 DEF HandleAgrees, StageOf
  <1>5. ASSUME NEW q \in Ids, ownerOf[q] = h, verdict[q] = "none"
        PROVE  FALSE
    <2>1. PICK t \in Slots : requests[t].id = q
      BY <1>0, <1>2, <1>5 DEF RequestsAgree
    <2>2. requests[t].id # 0
      BY <1>0, <2>1, CounterTypes
    <2>3. requests[t].handle = h
      BY <1>0, <1>5, <2>1, <2>2 DEF SlotInv, SlotAgrees
    <2> QED BY <1>2, <2>2, <2>3
  <1> HIDE DEF h
  <1>6. Promise!Closed(h)
    BY <1>0, <1>2, <1>4, <1>5, ToldStays DEF Promise!Closed
  <1> QED BY <1>2, <1>6 DEF Promise!Next

LEMMA PromiseNext ==
  ASSUME IInv, Streams, [Next]_vars
  PROVE  Promise!Next \/ UNCHANGED Promise!vars
  <1> DEFINE Goal == Promise!Next \/ UNCHANGED Promise!vars
  <1> SUFFICES Goal
    OBVIOUS
  <1>1. Silent => Goal
    BY SilentStutters
  <1>2. ASSUME NEW s \in Slots, OpenReserve(s) \/ Cancel(s) \/ Close(s)
        PROVE  Silent
    BY <1>2 DEF OpenReserve, Cancel, Close, ledger, guest, Silent
  <1>3. TurnFault \/ TurnEnd \/ Stop => Silent
    BY DEF TurnFault, TurnEnd, Stop, ledger, guest, Silent
  <1>4. ASSUME NEW s \in Slots, NEW status \in {"done", "unknown"}, Complete(s, status)
        PROVE  Silent
    BY <1>4 DEF Complete, ledger, guest, Silent
  <1>5. ASSUME NEW r \in Slots, (\E kind \in EventKinds : Emit(r, kind)) \/ End(r) \/ Gap(r)
        PROVE  Silent
    BY <1>5 DEF Emit, End, Gap, ledger, guest, Silent
  <1>6. ASSUME NEW v \in 0 .. LastVisit, ObserveOther(v)
        PROVE  Silent
    BY <1>6 DEF ObserveOther, ledger, guest, Silent
  <1>7. ObserveReturn \/ SweepResource => Silent
    BY DEF ObserveReturn, SweepResource, ledger, guest, Silent
  <1>8. ASSUME NEW ok \in BOOLEAN, OpenReturn(ok) \/ StartReturn(ok)
        PROVE  Silent
    BY <1>8 DEF OpenReturn, StartReturn, ledger, guest, Silent
  <1>9. Idle \/ WaitEnd(FALSE) \/ WaitEnd(TRUE) \/ FaultedEnd \/ DestroyCheck => Silent
    BY DEF Idle, WaitEnd, FaultedEnd, DestroyCheck, ledger, guest, Silent
  <1>10. Shutdown => Silent
    BY DEF Shutdown, ledger, guest, Silent
  <1>11. ASSUME NEW s \in Slots, NEW ok \in BOOLEAN, NativeClose(s, ok)
         PROVE  Silent
    BY <1>11 DEF NativeClose, ledger, guest, Silent
  <1>12. UNCHANGED vars => Silent
    BY DEF vars, ledger, guest, Silent
  <1>13. CASE Guest
    BY <1>1, <1>2, <1>3, <1>13, AcceptStep DEF Guest
  <1>14. CASE Producers
    BY <1>1, <1>4, <1>5, <1>14, FinishStep DEF Producers
  <1>15. CASE Observe
    <2>1. ASSUME NEW v \in 0 .. LastVisit,
                 \/ ObserveReady(v) \/ ObserveComplete(v) \/ ObserveEvent(v)
                 \/ ObserveGap(v) \/ ObserveEnd(v) \/ ObserveClosed(v)
          PROVE  Goal
      <3>1. v \in Nat
        OBVIOUS
      <3> QED BY <2>1, <3>1, ReadyStep, AnswerStep, EventStep, GapStep, EndStep, ClosedStep
    <2> QED BY <1>1, <1>6, <1>7, <1>15, <2>1 DEF Observe
  <1>16. CASE Loop
    BY <1>1, <1>3, <1>7, <1>8, <1>9, <1>10, <1>15, <1>16, RunStep DEF Loop
  <1> QED BY <1>1, <1>3, <1>9, <1>11, <1>12, <1>13, <1>14, <1>16 DEF Next, Freed

(* What worker.h and the worker's README promise a guest: each request      *)
(* accepted once, run at most once and answered truly between its handle's  *)
(* READY and CLOSED, each stream told in order up to its END.  The core     *)
(* keeps it whatever its drivers, its owner and its guest do.               *)
THEOREM CoreKeepsPromise == Spec => KeepsPromise
  <1>1. Init => Promise!Init
    BY PromiseInit
  <1>2. IInv /\ Streams /\ [Next]_vars => [Promise!Next]_(Promise!vars)
    BY PromiseNext
  <1> QED BY <1>1, <1>2, StreamsAgree, PTL DEF Spec, KeepsPromise, Promise!Spec
=============================================================================
