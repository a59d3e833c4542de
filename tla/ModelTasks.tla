----------------------------- MODULE ModelTasks -----------------------------
(***************************************************************************)
(* Model tasks (model-tasks.ts): calls of async model functions, run in    *)
(* segments at frame boundaries, and what they wait for.                   *)
(*                                                                         *)
(* What a segment does is free: it may start or cancel calls, then waits   *)
(* or returns.  It runs in the caller's phase, inside whatever started it, *)
(* so todo is the stack of unfinished segments and of the resumptions a    *)
(* boundary still owes, next first.  A frame is: boundary, resumptions,    *)
(* handlers, drain of the command queue; then the host works.              *)
(*                                                                         *)
(* Values, locals and traces are left out; waiting for frames, for a time  *)
(* or for a predicate is a wait that some snapshot finds over.  One        *)
(* service; all and any are not nested; a region is not mounted again.     *)
(***************************************************************************)
EXTENDS Naturals, FiniteSets, Sequences, SequencesExt

CONSTANTS
  Fns, Regions, Home, \* async functions and the region (a number) of each
  Capacity,           \* of the service, in a region
  Plans, Callees,     \* per function, the waits its segments may end with,
                      \* and the functions they start or cancel
  MaxCalls, MaxWaits, \* bounds: calls of a function, waits of each,
  MaxCancels, MaxSpurious, \* cancel() calls, answers nobody waits for
  None

Members == [kind : {"service", "animate", "time"}]
             \cup [kind : {"join"}, fn : Fns, wrapped : BOOLEAN]

(* A wait has a member: the code would wait for ever for any([]).          *)
ASSUME TasksAssumption ==
  /\ IsFiniteSet(Fns) /\ Regions \subseteq Nat /\ Home \in [Fns -> Regions]
  /\ Capacity \in Nat /\ {MaxCancels, MaxSpurious} \subseteq Nat
  /\ {MaxCalls, MaxWaits} \subseteq [Fns -> Nat] /\ Callees \in [Fns -> SUBSET Fns]
  /\ \A f \in Fns : \A plan \in Plans[f] :
       plan.any \in BOOLEAN /\ plan.members \in Seq(Members) /\ plan.members # <<>>

VARIABLES
  generations, \* calls of a function so far; the last one is in tasks
  tasks,       \* call -> its Task
  order,       \* live calls, in the order they were started
  mounted,     \* taskRuntimes: regions not disposed
  requests,    \* pendingRequests: key -> registered wait that is not released
  commands,    \* requests and cancellations for the host, in order
  deliveries,  \* answers not yet looked at (their values are left out: a set)
  todo, phase, \* the stack, and where in the frame it is empty
  host,        \* what the host works on, and all it was ever asked
  bounds,      \* cancel() calls and spurious answers so far
  selfish      \* history: calls cancelled while their own segment ran

model == <<generations, tasks, order, mounted, requests, commands>>
world == <<deliveries, host, phase>>
vars == <<model, world, todo, bounds, selfish>>

Calls == UNION {{f} \X (1..MaxCalls[f]) : f \in Fns}
Fresh == [status |-> "none", wait |-> 0, any |-> FALSE, suspended |-> FALSE]

Init ==
  /\ generations = [f \in Fns |-> 0] /\ tasks = [t \in Calls |-> Fresh] /\ order = <<>>
  /\ mounted = Regions /\ requests = <<>> /\ commands = <<>> /\ deliveries = {}
  /\ todo = <<>> /\ phase = "idle" /\ host = [open |-> {}, asked |-> {}]
  /\ bounds = [cancels |-> 0, spurious |-> 0] /\ selfish = {}

(* A request names region, function, call, wait and member.                *)
Task(id) == <<id.fn, id.call>>
(* Slip: calls of a function share their keys.                             *)
KeyOfFunction(id) == <<id.fn, id.wait, id.member>>
Key(id) == <<id.fn, id.call, id.wait, id.member>>

Live(t) == tasks[t].status = "live"
Current(f) == <<f, generations[f]>>
Running(t) == \E n \in DOMAIN todo : todo[n].op \in {"segment", "register"} /\ todo[n].task = t

-----------------------------------------------------------------------------
(* cancel: the call, and every call that awaits a cancelled one as such.   *)

Unreleased(t) == {k \in DOMAIN requests : Task(requests[k].id) = t}
Pending(t) == IF tasks[t].suspended THEN Unreleased(t) ELSE {}
AwaitsBare(p, t) ==
  \E k \in Pending(p) : requests[k].kind = "join" /\ ~requests[k].wrapped /\ requests[k].target = t

(* Slip: a region looks through its own calls only.                        *)
JoinersOfRegion(S) ==
  {p \in Calls : Live(p) /\ \E t \in S : AwaitsBare(p, t) /\ Home[p[1]] = Home[t[1]]}
Joiners(S) ==
  {p \in Calls : Live(p) /\ Home[p[1]] \in mounted /\ \E t \in S : AwaitsBare(p, t)}
Cancelled(S) ==
  {t \in Calls : \A F \in SUBSET Calls :
     {s \in S \cap Calls : Live(s)} \cup Joiners(F) \subseteq F => t \in F}

(* release: nobody answers to the key any more, and a host that was asked, *)
(* or is about to be, is told.                                             *)
(* Slip: only service calls are withdrawn.                                 *)
ToldServices(K) == {requests[k].id : k \in {q \in K : ~requests[q].delivered /\ requests[q].reserved}}
Told(K) ==
  {requests[k].id : k \in {q \in K : /\ ~requests[q].delivered
                                     /\ requests[q].kind = "animate" \/ requests[q].reserved}}
Withdrawals(K) == [n \in 1..Cardinality(Told(K)) |-> [op |-> "cancel", id |-> SetToSeq(Told(K))[n]]]
Without(K) == [k \in DOMAIN requests \ K |-> requests[k]]

(* With S cancelled; whoever runs now goes on.                             *)
CancelAll(S) ==
  LET fallen == Cancelled(S)
      released == UNION {Pending(t) : t \in fallen}
  IN /\ tasks' = [t \in Calls |-> IF t \in fallen
                                  THEN [tasks[t] EXCEPT !.status = "cancelled", !.suspended = FALSE]
                                  ELSE tasks[t]]
     /\ requests' = Without(released)
     /\ commands' = commands \o Withdrawals(released)
     /\ selfish' = selfish \cup {t \in fallen : Running(t)}

CancelCall(f, rest) ==
  /\ bounds.cancels < MaxCancels /\ bounds' = [bounds EXCEPT !.cancels = @ + 1]
  /\ CancelAll({Current(f)}) /\ todo' = rest
  /\ UNCHANGED <<generations, order, mounted, world>>

(* start: the call before it is cancelled, then the new one's first segment*)
(* runs.                                                                   *)
MayStart(f) == Home[f] \in mounted /\ generations[f] < MaxCalls[f]
Restart(f, rest) ==
  /\ CancelAll({Current(f)}) /\ todo' = <<[op |-> "begin", fn |-> f]>> \o rest
  /\ UNCHANGED <<generations, order, mounted, world, bounds>>

Begin(i) ==
  /\ i.op = "begin"
  /\ generations' = [generations EXCEPT ![i.fn] = @ + 1]
  /\ LET new == <<i.fn, generations[i.fn] + 1>> IN
       /\ tasks' = [tasks EXCEPT ![new].status = "live"]
       /\ order' = Append(SelectSeq(order, Live), new)
       /\ todo' = <<[op |-> "segment", task |-> new]>> \o Tail(todo)
  /\ UNCHANGED <<mounted, requests, commands, world, bounds, selfish>>

-----------------------------------------------------------------------------
(* segment: calls and cancellations, then a wait, the end, or nothing more *)
(* if the call was cancelled meanwhile.  The first two do not ask.         *)

Segment(i) ==
  /\ i.op = "segment"
  /\ \E f \in Callees[i.task[1]] : CancelCall(f, todo) \/ (MayStart(f) /\ Restart(f, todo))

Leave(i) ==
  /\ i.op = "segment" /\ ~Live(i.task) /\ todo' = Tail(todo)
  /\ UNCHANGED <<model, world, bounds, selfish>>

Complete(i) ==
  /\ i.op = "segment" /\ todo' = Tail(todo)
  /\ tasks' = [tasks EXCEPT ![i.task] = [Fresh EXCEPT !.status = "done"]]
  /\ UNCHANGED <<generations, order, mounted, requests, commands, world, bounds, selfish>>

Suspend(i) ==
  /\ i.op = "segment" /\ tasks[i.task].wait < MaxWaits[i.task[1]]
  /\ \E plan \in Plans[i.task[1]] :
       /\ tasks' = [tasks EXCEPT ![i.task] =
                      [tasks[i.task] EXCEPT !.wait = tasks[i.task].wait + 1, !.any = plan.any]]
       /\ todo' = <<[op |-> "register", task |-> i.task, n |-> 1, members |-> plan.members]>> \o Tail(todo)
  /\ UNCHANGED <<generations, order, mounted, requests, commands, world, bounds, selfish>>

(* register, one member at a time.                                         *)
Id(i) == [fn |-> i.task[1], call |-> i.task[2], wait |-> tasks[i.task].wait, member |-> i.n]
Wait(i, kind) == [id |-> Id(i), kind |-> kind, target |-> None, wrapped |-> FALSE, ready |-> FALSE,
                  reserved |-> FALSE, delivered |-> FALSE, answer |-> None]
Registered(w) ==
  requests' = [k \in DOMAIN requests \cup {Key(w.id)} |-> IF k = Key(w.id) THEN w ELSE requests[k]]
Member(i) == i.members[i.n]
More(i) == <<[i EXCEPT !.n = @ + 1]>> \o Tail(todo)
Asked(i) == Append(commands, [op |-> "request", id |-> Id(i)])

Active(r) ==
  {k \in DOMAIN requests : LET w == requests[k] IN Home[w.id.fn] = r /\ w.reserved /\ ~w.delivered}

RegisterService(i) ==
  /\ Member(i).kind = "service"
  /\ \/ /\ Registered([Wait(i, "service") EXCEPT !.ready = TRUE]) /\ UNCHANGED commands
     \/ /\ Cardinality(Active(Home[i.task[1]])) < Capacity
        /\ Registered([Wait(i, "service") EXCEPT !.reserved = TRUE]) /\ commands' = Asked(i)
  /\ todo' = More(i)

RegisterJoin(i) ==
  /\ Member(i).kind = "join" /\ MayStart(Member(i).fn)
  /\ Registered([Wait(i, "join") EXCEPT !.wrapped = Member(i).wrapped,
                    !.target = <<Member(i).fn, generations[Member(i).fn] + 1>>])
  /\ todo' = <<[op |-> "restart", fn |-> Member(i).fn]>> \o More(i) /\ UNCHANGED commands

RegisterOther(i) ==
  /\ Member(i).kind \in {"time", "animate"}
  /\ Registered(Wait(i, Member(i).kind)) /\ todo' = More(i)
  /\ IF Member(i).kind = "animate" THEN commands' = Asked(i) ELSE UNCHANGED commands

Register(i) ==
  /\ i.op = "register" /\ i.n <= Len(i.members)
  /\ RegisterService(i) \/ RegisterJoin(i) \/ RegisterOther(i)
  /\ UNCHANGED <<generations, tasks, order, mounted, world, bounds, selfish>>

(* Then the call waits, unless a call it awaits was cancelled meanwhile.   *)
Dead(K) ==
  \E k \in K : /\ requests[k].kind = "join" /\ ~requests[k].wrapped
              /\ tasks[requests[k].target].status = "cancelled"

Registration(i) ==
  /\ i.op = "register" /\ i.n > Len(i.members)
  /\ tasks' = [tasks EXCEPT ![i.task].suspended = TRUE]
  /\ todo' = (IF Dead(Unreleased(i.task)) THEN <<[op |-> "cancel", fn |-> i.task[1]]>> ELSE <<>>)
               \o Tail(todo)
  /\ UNCHANGED <<generations, order, mounted, requests, commands, world, bounds, selfish>>

Cancel(i) ==
  /\ i.op = "cancel" /\ CancelAll({Current(i.fn)}) /\ todo' = Tail(todo)
  /\ UNCHANGED <<generations, order, mounted, world, bounds>>

-----------------------------------------------------------------------------
(* resumeModelTasks: answers are taken, readiness is frozen for every call,*)
(* then the ready ones run, by region and by the order of their start.     *)

Taken(k) ==
  {id \in deliveries : Key(id) = k /\ Live(Task(requests[k].id))}

(* A wait once found over stays so; which times have come is free.         *)
Over(k, T) ==
  LET w == requests[k] IN
  \/ w.ready \/ Taken(k) # {} \/ k \in T
  \/ w.kind = "join" /\ ~Live(w.target)

Latched(k, T) ==
  [requests[k] EXCEPT !.ready = Over(k, T), !.delivered = @ \/ Taken(k) # {},
                      !.answer = IF Taken(k) = {} THEN @ ELSE CHOOSE id \in Taken(k) : TRUE]

ReadyMembers(t, T) == {k \in Pending(t) : Over(k, T)}
Ready(t, T) ==
  /\ tasks[t].suspended
  /\ IF tasks[t].any THEN ReadyMembers(t, T) # {} ELSE ReadyMembers(t, T) = Pending(t)

(* The first of them wins an any; the others are released at once.         *)
Losers(t, T) ==
  IF tasks[t].any /\ Ready(t, T)
  THEN {k \in ReadyMembers(t, T) : \E w \in ReadyMembers(t, T) :
          requests[w].id.member < requests[k].id.member} \cup (Pending(t) \ ReadyMembers(t, T))
  ELSE {}

Rank(t) == CHOOSE n \in DOMAIN order : order[n] = t
Before(s, t) ==
  Home[s[1]] < Home[t[1]] \/ (Home[s[1]] = Home[t[1]] /\ Rank(s) < Rank(t))
Sorted(S) ==
  {q \in Bijection(1..Cardinality(S), S) : \A m, n \in DOMAIN q : m < n => Before(q[m], q[n])}

Boundary ==
  /\ phase = "idle" /\ phase' = "handlers" /\ deliveries' = {}
  /\ \E T \in SUBSET {k \in DOMAIN requests : requests[k].kind = "time" /\ ~requests[k].ready} :
       LET ready == {t \in Calls : Live(t) /\ Home[t[1]] \in mounted /\ Ready(t, T)}
           losers == UNION {Losers(t, T) : t \in ready}
       IN /\ \E all \in Sorted(ready) :
               todo' = [n \in DOMAIN all |->
                         [op |-> "run", task |-> all[n], dead |-> Dead(Pending(all[n]) \ losers)]]
          /\ requests' = [k \in DOMAIN requests \ losers |-> Latched(k, T)]
          /\ commands' = commands \o Withdrawals({k \in losers : Taken(k) = {}})
  /\ UNCHANGED <<generations, tasks, order, mounted, host, bounds, selfish>>

(* A call that an earlier resumption cancelled does not resume.            *)
(* Slip: it does.                                                          *)
ResumeAnyway(i) ==
  /\ i.op = "run"
  /\ tasks' = [tasks EXCEPT ![i.task].suspended = FALSE]
  /\ requests' = Without(Pending(i.task)) /\ commands' = commands \o Withdrawals(Pending(i.task))
  /\ todo' = <<[op |-> "segment", task |-> i.task]>> \o Tail(todo)
  /\ UNCHANGED <<generations, order, mounted, world, bounds, selfish>>

Resume(i) ==
  /\ i.op = "run" /\ Live(i.task) /\ ~i.dead
  /\ tasks' = [tasks EXCEPT ![i.task].suspended = FALSE]
  /\ requests' = Without(Pending(i.task)) /\ commands' = commands \o Withdrawals(Pending(i.task))
  /\ todo' = <<[op |-> "segment", task |-> i.task]>> \o Tail(todo)
  /\ UNCHANGED <<generations, order, mounted, world, bounds, selfish>>

NoResume(i) ==
  /\ i.op = "run" /\ (~Live(i.task) \/ i.dead)
  /\ todo' = (IF Live(i.task) THEN <<[op |-> "cancel", fn |-> i.task[1]]>> ELSE <<>>) \o Tail(todo)
  /\ UNCHANGED <<model, world, bounds, selfish>>

-----------------------------------------------------------------------------
(* After the resumptions: handlers, unmounts, the command queue, the host. *)

AtRest == todo = <<>>
Handlers == AtRest /\ phase = "handlers"

Handler == Handlers /\ \E f \in Fns : CancelCall(f, <<>>) \/ (MayStart(f) /\ Restart(f, <<>>))

DisposeRegion(r) ==
  /\ Handlers /\ r \in mounted /\ mounted' = mounted \ {r}
  /\ CancelAll({Current(f) : f \in {g \in Fns : Home[g] = r}})
  /\ UNCHANGED <<generations, order, world, todo, bounds>>

(* A command handler may answer a request before it returns.               *)
Drain ==
  /\ AtRest /\ phase # "idle" /\ phase' = "drain"
  /\ commands # <<>> /\ commands' = Tail(commands)
  /\ LET c == Head(commands) IN
     \/ /\ c.op = "cancel" /\ host' = [host EXCEPT !.open = @ \ {c.id}] /\ UNCHANGED deliveries
     \/ /\ c.op = "request"
        /\ host' = [open |-> host.open \cup {c.id}, asked |-> host.asked \cup {c.id}]
        /\ UNCHANGED deliveries
     \/ /\ c.op = "request" /\ host' = [host EXCEPT !.asked = @ \cup {c.id}]
        /\ deliveries' = deliveries \cup {c.id}
  /\ UNCHANGED <<generations, tasks, order, mounted, requests, todo, bounds, selfish>>

Drained ==
  /\ AtRest /\ phase # "idle" /\ commands = <<>> /\ phase' = "idle"
  /\ UNCHANGED <<model, deliveries, host, todo, bounds, selfish>>

(* The host answers what it works on; or again, or what was cancelled.     *)
Deliver(id) ==
  /\ phase = "idle" /\ id \in host.asked /\ deliveries' = deliveries \cup {id}
  /\ host' = [host EXCEPT !.open = @ \ {id}]
  /\ \/ id \in host.open /\ UNCHANGED bounds
     \/ /\ id \notin host.open /\ bounds.spurious < MaxSpurious
        /\ bounds' = [bounds EXCEPT !.spurious = @ + 1]
  /\ UNCHANGED <<model, todo, phase, selfish>>

-----------------------------------------------------------------------------
RestartItem(i) == i.op = "restart" /\ Restart(i.fn, Tail(todo))
Step(i) ==
  \/ RestartItem(i) \/ Begin(i) \/ Segment(i) \/ Leave(i) \/ Complete(i) \/ Suspend(i)
  \/ Register(i) \/ Registration(i) \/ Cancel(i) \/ Resume(i) \/ NoResume(i)

Next ==
  \/ todo # <<>> /\ Step(Head(todo))
  \/ Boundary \/ Handler \/ (\E r \in Regions : DisposeRegion(r)) \/ Drain \/ Drained
  \/ \E id \in host.asked : Deliver(id)

Spec == Init /\ [][Next]_vars
=============================================================================
