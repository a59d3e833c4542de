------------------------ MODULE ModelTasksProperties ------------------------
(***************************************************************************)
(* What calls of model functions, and the host that serves them, rely on.  *)
(* A call cancelled while its own segment ran (selfish) goes on in the     *)
(* code: it may end as done or wait again, and is excepted where it can.   *)
(***************************************************************************)
EXTENDS ModelTasks

Waiting == {Task(requests[k].id) : k \in DOMAIN requests}

(* Between segments, whatever is registered belongs to a live call, every  *)
(* live call waits for something registered, and none awaits a call that   *)
(* was cancelled: cancelling, restarting and unmounting reach the awaiting *)
(* calls of every region and leave nothing behind (cancel, release).       *)
WaitsAreLive ==
  AtRest => /\ Waiting \subseteq {t \in Calls : Live(t)} \cup selfish
            /\ \A t \in Calls : Live(t) => t \in Waiting /\ tasks[t].suspended
            /\ \A t \in Calls \ selfish : ~(Live(t) /\ Dead(Pending(t)))

(* Once a frame's commands are drained, the host works only on requests    *)
(* somebody still waits for, and for no more of a region's service calls   *)
(* than its capacity: who loses a race, is cancelled or unmounted, is      *)
(* withdrawn, after it was asked and before its place is given away.       *)
HostFollows ==
  phase = "idle" =>
    /\ \A id \in host.open : /\ Key(id) \in DOMAIN requests /\ requests[Key(id)].id = id
                             /\ Live(Task(id)) \/ Task(id) \in selfish
    /\ \A r \in Regions :
         Cardinality({id \in host.open : Home[id.fn] = r /\ requests[Key(id)].kind = "service"})
           <= Capacity

(* A wait is over with the answer to its own request: a late or repeated   *)
(* answer to an earlier call of the function, or to an earlier wait of the *)
(* call, never ends it (deliverModelResult, pendingRequests).              *)
AnswersAreOwn ==
  \A k \in DOMAIN requests : requests[k].delivered => requests[k].answer = requests[k].id

(* A cancelled call stays cancelled: the boundary that found it ready has  *)
(* queued its resumption, and an earlier resumption, or a call it makes,   *)
(* cancels it (snapshot's deferred steps).                                 *)
CancelIsFinal ==
  [][\A t \in Calls : /\ tasks[t].status = "cancelled"
                      /\ tasks'[t].status # "cancelled"
                      => t \in selfish]_vars

=============================================================================
