------------------------------ MODULE Services ------------------------------
(***************************************************************************)
(* The offload client of a realm (offload.ts) and a service client on top  *)
(* of it (service-client.ts, companion transport), as the service pumps of *)
(* a frame step them.                                                      *)
(*                                                                         *)
(* A request is one record for the provider; a work is a service message,  *)
(* answered by the reply to its command, or by a poll for the job that the *)
(* reply names.  Every completion runs code of the application, which may  *)
(* issue, cancel and dispose before it returns.  The link is external: it  *)
(* comes and goes at any time, refuses records, and hands over replies to  *)
(* whatever it ever accepted, late, repeated or never.                     *)
(*                                                                         *)
(* Deadlines are kept as the frames left; payloads, the other transports   *)
(* and files are left out, and every 20th frame is any frame.              *)
(***************************************************************************)
EXTENDS Naturals, FiniteSets, Sequences, FiniteSetsExt, SequencesExt, Functions

CONSTANTS
  MaxPending, MaxSubmissions, TimeoutFrames, \* OFFLOAD: pending, submissionsPerFrame, timeoutFrames
  MaxWork, WorkFrames,                       \* of a service client: works at once, their timeoutFrames
  MaxRequests, MaxWorks, MaxSessions         \* bounds: requests, works and connections ever

ASSUME LimitsAssumption ==
  /\ MaxPending \in Nat /\ MaxSubmissions \in Nat /\ TimeoutFrames \in Nat
  /\ MaxWork \in Nat /\ WorkFrames \in Nat
  /\ MaxRequests \in Nat /\ MaxWorks \in Nat /\ MaxSessions \in Nat

VARIABLES
  pending, nextId, disposed, \* the offload client; a request is of a work, or of the application (0)
  works, nextWork, closed,   \* the service client: its pending works
  known,                     \* ... and the session it saw last, 0 offline
  at, first,                 \* where in the frame, and which pump is first
  pump,                      \* what the running pump keeps on its stack
  calling,                   \* code of the application runs in a completion
  session, generation,       \* the link: its connection, 0 offline, and the last one
  history                    \* per request and work, what came of it

clients == <<pending, nextId, disposed, works, nextWork, closed, known>>
link == <<session, generation>>
vars == <<clients, at, first, pump, calling, link, history>>

Ids == 1..MaxRequests
Idle == [lost |-> <<>>, next |-> 1, delivered |-> FALSE, submitted |-> 0, session |-> 0]

Init ==
  /\ pending = <<>> /\ nextId = 1 /\ disposed = FALSE
  /\ works = <<>> /\ nextWork = 1 /\ closed = FALSE /\ known = 0
  /\ at = "idle" /\ first \in {"offload", "service"} /\ pump = Idle /\ calling = FALSE
  /\ session = 0 /\ generation = 0
  /\ history = [called |-> [i \in Ids |-> 0], withdrawn |-> {}, accepted |-> [i \in Ids |-> 0],
                answered |-> [w \in 1..MaxWorks |-> 0]]

Connected == ~disposed /\ session > 0
Drop(fn, S) == Restrict(fn, DOMAIN fn \ S)
Put(fn, x, v) == [y \in DOMAIN fn \cup {x} |-> IF y = x THEN v ELSE fn[y]]
Older(left) == IF left > 0 THEN left - 1 ELSE 0

-----------------------------------------------------------------------------
(* offload.request, with whose it is; refused when disposed or full.       *)

Admits == ~disposed /\ Cardinality(DOMAIN pending) < MaxPending
Issue(work) ==
  /\ nextId \in Ids /\ nextId' = nextId + 1
  /\ pending' = Put(pending, nextId, [work |-> work, sent |-> FALSE, session |-> 0, left |-> TimeoutFrames])

(* finish of the service client: a work is answered while it is pending.   *)
(* Slip: whoever asks gets an answer.                                      *)
Answer(W) == [history.answered EXCEPT ![W] = @ + 1]
FinishAgain(w) ==
  /\ works' = Drop(works, {w}) /\ history' = [history EXCEPT !.answered = Answer(w)] /\ calling' = TRUE
Finish(w) ==
  /\ works' = Drop(works, {w}) /\ calling' = (w \in DOMAIN works)
  /\ history' = IF w \in DOMAIN works THEN [history EXCEPT !.answered = Answer(w)] ELSE history

-----------------------------------------------------------------------------
(* The application, between frames or in a completion.  What is refused at *)
(* once, or answered as offline or busy, changes nothing.                  *)

Turn == at = "idle" \/ calling

Request ==
  /\ Turn /\ Admits /\ Issue(0)
  /\ UNCHANGED <<disposed, works, nextWork, closed, known, at, first, pump, calling, link, history>>

Cancel(i) ==
  /\ Turn /\ i \in DOMAIN pending /\ pending[i].work = 0
  /\ pending' = Drop(pending, {i}) /\ history' = [history EXCEPT !.withdrawn = @ \cup {i}]
  /\ UNCHANGED <<nextId, disposed, works, nextWork, closed, known, at, first, pump, calling, link>>

Send ==
  /\ Turn /\ ~closed /\ Connected /\ Admits
  /\ Cardinality(DOMAIN works) < MaxWork /\ nextWork <= MaxWorks
  /\ works' = Put(works, nextWork, [job |-> FALSE, busy |-> TRUE, left |-> WorkFrames])
  /\ nextWork' = nextWork + 1 /\ Issue(nextWork)
  /\ UNCHANGED <<disposed, closed, known, at, first, pump, calling, link, history>>

Close ==
  /\ Turn /\ ~closed /\ closed' = TRUE /\ works' = <<>>
  /\ history' = [history EXCEPT !.answered =
                   [w \in DOMAIN @ |-> @[w] + (IF w \in DOMAIN works THEN 1 ELSE 0)]]
  /\ UNCHANGED <<pending, nextId, disposed, nextWork, known, at, first, pump, calling, link>>

Dispose ==
  /\ Turn /\ ~disposed /\ disposed' = TRUE /\ pending' = <<>>
  /\ history' = [history EXCEPT !.withdrawn = @ \cup DOMAIN pending]
  /\ UNCHANGED <<nextId, works, nextWork, closed, known, at, first, pump, calling, link>>

Return == calling /\ calling' = FALSE /\ UNCHANGED <<clients, at, first, pump, link, history>>

-----------------------------------------------------------------------------
(* A frame runs both pumps in the order they were registered.              *)

Pumps == ~calling
After(p) == IF p = first THEN (IF p = "offload" THEN "service" ELSE "offload") ELSE "idle"
Goto(p) == at' = p /\ pump' = Idle

Frame == Pumps /\ at = "idle" /\ Goto(first) /\ UNCHANGED <<clients, first, calling, link, history>>

Gone(p) ==
  /\ Pumps /\ at = p /\ (IF p = "offload" THEN disposed ELSE closed) /\ Goto(After(p))
  /\ UNCHANGED <<clients, first, calling, link, history>>

(* The service pump: a session that is not the one before fails every work *)
(* there was, and then tells whoever listens (0).                          *)
Now == IF disposed THEN 0 ELSE session
Service ==
  /\ Pumps /\ at = "service" /\ ~closed /\ known' = Now /\ at' = "lost"
  /\ works' = [w \in DOMAIN works |-> [works[w] EXCEPT !.left = Older(@)]]
  /\ pump' = [Idle EXCEPT !.session = Now,
                          !.lost = IF known # 0 /\ Now # known
                                   THEN Append(SetToSortSeq(DOMAIN works, <), 0) ELSE <<>>]
  /\ UNCHANGED <<pending, nextId, disposed, nextWork, closed, first, calling, link, history>>

Lose ==
  /\ Pumps /\ at = "lost" /\ pump.lost # <<>> /\ pump' = [pump EXCEPT !.lost = Tail(@)]
  /\ IF Head(pump.lost) = 0
     THEN calling' = ~closed /\ UNCHANGED <<works, history>>
     ELSE Finish(Head(pump.lost))
  /\ UNCHANGED <<pending, nextId, disposed, nextWork, closed, known, at, first, link>>

(* The first work with a job nobody asks about is asked about, if there is *)
(* a ticket.  Slip: it counts as asked without one.                        *)
Asking == {w \in DOMAIN works : works[w].job /\ ~works[w].busy}
PollUnheard ==
  LET w == Min(Asking) IN
    /\ works' = [works EXCEPT ![w].busy = TRUE]
    /\ IF Admits THEN Issue(w) ELSE UNCHANGED <<pending, nextId>>
Poll ==
  LET w == Min(Asking) IN
    IF Admits THEN Issue(w) /\ works' = [works EXCEPT ![w].busy = TRUE]
    ELSE UNCHANGED <<pending, nextId, works>>

Polled ==
  /\ Pumps /\ at = "lost" /\ pump.lost = <<>> /\ at' = "overdue"
  /\ \/ UNCHANGED <<pending, nextId, works>>
     \/ pump.session > 0 /\ Asking # {} /\ Poll
  /\ UNCHANGED <<disposed, nextWork, closed, known, first, pump, calling, link, history>>

(* Slip: deadlines pass only while there is a connection.                  *)
OverdueConnected == {w \in DOMAIN works : works[w].left = 0 /\ known > 0}
Overdue == {w \in DOMAIN works : works[w].left = 0}

TimeOut ==
  /\ Pumps /\ at = "overdue"
  /\ IF Overdue = {} THEN Goto(After("service")) /\ UNCHANGED <<works, calling, history>>
     ELSE Finish(Min(Overdue)) /\ UNCHANGED <<at, pump>>
  /\ UNCHANGED <<pending, nextId, disposed, nextWork, closed, known, first, link>>

-----------------------------------------------------------------------------
(* step: at most one reply, then the requests in the order they were       *)
(* issued, those included that a completion issues meanwhile.              *)

(* A request completes: its callback is the application's, or that of a    *)
(* work: over, or (ok: the reply may name a job, or say it goes on) not.   *)
Complete(i, ok, aged) ==
  LET r == pending[i]
      called == [history EXCEPT !.called[i] = @ + 1]
      w == r.work
  IN /\ pending' = Drop(aged, {i})
     /\ \/ /\ w = 0 /\ calling' = TRUE /\ history' = called /\ UNCHANGED works
        \/ /\ w # 0 /\ w \notin DOMAIN works
           /\ history' = called /\ UNCHANGED <<works, calling>>
        \/ /\ w \in DOMAIN works /\ ok
           /\ works' = [works EXCEPT ![w].busy = FALSE, ![w].job = TRUE]
           /\ history' = called /\ UNCHANGED calling
        \/ /\ w \in DOMAIN works /\ works' = Drop(works, {w})
           /\ history' = [called EXCEPT !.answered = Answer(w)] /\ calling' = TRUE

Accepts(i) == i \in DOMAIN pending /\ pending[i].sent /\ pending[i].session = session /\ session > 0
Accepted == {i \in Ids : history.accepted[i] > 0}

Take ==
  /\ Pumps /\ at = "offload" /\ ~disposed /\ at' = "scan"
  /\ LET aged == [i \in DOMAIN pending |-> [pending[i] EXCEPT !.left = Older(@)]] IN
     \/ /\ pump' = [Idle EXCEPT !.session = session] /\ pending' = aged
        /\ UNCHANGED <<works, calling, history>>
     \/ \E i \in Accepted : /\ Accepts(i) /\ Complete(i, TRUE, aged)
                            /\ pump' = [Idle EXCEPT !.session = session, !.delivered = TRUE]
  /\ UNCHANGED <<nextId, disposed, nextWork, closed, known, first, link>>

Ahead == {i \in DOMAIN pending : i >= pump.next}
Stale(i) == pending[i].sent /\ pending[i].session # pump.session

(* One of the requests that are over is failed, if no reply was delivered. *)
Fails(i) == ~pump.delivered /\ (pending[i].left = 0 \/ Stale(i))

Fail(i) ==
  /\ Fails(i) /\ pump' = [pump EXCEPT !.next = i + 1, !.delivered = TRUE]
  /\ Complete(i, FALSE, pending)

Submit(i) ==
  /\ ~Fails(i) /\ ~pending[i].sent /\ pump.session > 0 /\ pump.submitted < MaxSubmissions
  /\ pending' = [pending EXCEPT ![i] = [@ EXCEPT !.sent = TRUE, !.session = pump.session]]
  /\ pump' = [pump EXCEPT !.next = i + 1, !.submitted = @ + 1]
  /\ history' = [history EXCEPT !.accepted[i] = @ + 1]
  /\ UNCHANGED <<works, calling>>

(* Not this time, or refused for want of credit.                           *)
Pass(i) ==
  /\ ~Fails(i) /\ pump' = [pump EXCEPT !.next = i + 1]
  /\ UNCHANGED <<pending, works, calling, history>>

Scan ==
  /\ Pumps /\ at = "scan" /\ Ahead # {}
  /\ LET i == Min(Ahead) IN Fail(i) \/ Submit(i) \/ Pass(i)
  /\ UNCHANGED <<nextId, disposed, nextWork, closed, known, at, first, link>>

Scanned ==
  /\ Pumps /\ at = "scan" /\ Ahead = {} /\ Goto(After("offload"))
  /\ UNCHANGED <<clients, first, calling, link, history>>

-----------------------------------------------------------------------------
Connect ==
  /\ session = 0 /\ generation < MaxSessions
  /\ generation' = generation + 1 /\ session' = generation + 1
  /\ UNCHANGED <<clients, at, first, pump, calling, history>>

Disconnect ==
  /\ session > 0 /\ session' = 0
  /\ UNCHANGED <<clients, at, first, pump, calling, generation, history>>

Application == Request \/ (\E i \in Ids : Cancel(i)) \/ Send \/ Close \/ Dispose
OffloadPump == Gone("offload") \/ Take \/ Scan \/ Scanned
ServicePump == Gone("service") \/ Service \/ Lose \/ Polled \/ TimeOut
Run == Return \/ Frame \/ OffloadPump \/ ServicePump

Next == Application \/ Run \/ Connect \/ Disconnect

Spec == Init /\ [][Next]_vars

(* Frames go on and completions return; the link owes nothing.             *)
FairSpec == Spec /\ WF_vars(Run)
=============================================================================
