-------------------------- MODULE ModelTasksProofs --------------------------
(***************************************************************************)
(* Answers, cancellations, waits and the host's work are right for all     *)
(* functions, regions, plans and bounds: they follow from IInv, which      *)
(* every step of a call, a frame or the host keeps.                        *)
(***************************************************************************)
EXTENDS ModelTasksProperties, FoldLemmas, SequenceTheorems

(* What there is: the requests ever named, calls, the waits of a call, what *)
(* the stack holds, and what is told to the host.                           *)
Ids == [fn : Fns, call : Nat, wait : Nat, member : Nat]
Records ==
  [status : {"none", "live", "done", "cancelled"}, wait : Nat, any : BOOLEAN, suspended : BOOLEAN]
Waits ==
  {w \in [id : Ids, kind : {"service", "animate", "time", "join"}, target : Calls \cup {None},
          wrapped : BOOLEAN, ready : BOOLEAN, reserved : BOOLEAN, delivered : BOOLEAN,
          answer : Ids \cup {None}] : w.kind = "join" => w.target \in Calls}
Items ==
  [op : {"begin", "restart", "cancel"}, fn : Fns] \cup [op : {"segment"}, task : Calls]
    \cup {i \in [op : {"register"}, task : Calls, n : Nat \ {0}, members : Seq(Members)] :
            i.members # <<>>}
    \cup [op : {"run"}, task : Calls, dead : BOOLEAN]
Commands == [op : {"request", "cancel"}, id : Ids]

TypeOK ==
  /\ generations \in [Fns -> Nat] /\ \A fn \in Fns : generations[fn] <= MaxCalls[fn]
  /\ tasks \in [Calls -> Records] /\ mounted \subseteq Regions
  /\ IsFiniteSet(DOMAIN requests) /\ requests \in [DOMAIN requests -> Waits]
  /\ \A k \in DOMAIN requests : Key(requests[k].id) = k /\ Task(requests[k].id) \in Calls
  /\ commands \in Seq(Commands) /\ deliveries \subseteq Ids
  /\ todo \in Seq(Items) /\ phase \in {"idle", "handlers", "drain"}
  /\ host \in [open : SUBSET Ids, asked : SUBSET Ids]
  /\ bounds \in [cancels : Nat, spurious : Nat] /\ selfish \subseteq Calls

(* Only the last call of a function lives, in a region that is mounted, and *)
(* waits or runs; calls to come are untouched.                              *)
CallOK(t) ==
  /\ t[2] > generations[t[1]] => tasks[t] = Fresh
  /\ t \in selfish => tasks[t].status \in {"cancelled", "done"}
  /\ Live(t) => /\ t = Current(t[1]) /\ Home[t[1]] \in mounted
                /\ tasks[t].suspended \/ Running(t)

(* A call that runs keeps what it has registered: nothing in its segment,   *)
(* something once its first member is.  A queued call waits, or is over.    *)
Held(i) ==
  /\ i.op \in {"segment", "register"} =>
       /\ tasks[i.task].status \in {"live", "cancelled"} /\ ~tasks[i.task].suspended
       /\ Live(i.task) \/ i.task \in selfish
  /\ i.op = "segment" => Unreleased(i.task) = {}
  /\ i.op = "register" /\ i.n > 1 => Unreleased(i.task) # {}
  /\ i.op = "run" => /\ tasks[i.task].status # "none"
                     /\ Live(i.task) => tasks[i.task].suspended

(* Only the first item begins, restarts or cancels a call; a call has one   *)
(* item; outside the handlers' phase there is none.                         *)
Stacked(op) == op \in {"segment", "register", "run"}
Ordered(s) ==
  /\ \A n \in DOMAIN s : n # 1 => Stacked(s[n].op)
  /\ \A m, n \in DOMAIN s : m # n /\ Stacked(s[m].op) /\ Stacked(s[n].op) => s[m].task # s[n].task
StackOK ==
  /\ Ordered(todo) /\ \A i \in ToSet(todo) : Held(i)
  /\ phase # "handlers" => todo = <<>>
HeadOK ==
  todo # <<>> =>
    /\ todo[1].op \in {"begin", "restart"} => MayStart(todo[1].fn)
    /\ todo[1].op = "begin" => \A t \in Calls : t = Current(todo[1].fn) => ~Live(t)

(* Whatever is registered is a live call's, or a selfish one's; a call that *)
(* waits has something registered, and the cancellation of a call it awaits *)
(* has reached it, or is about to.                                          *)
Doomed(t) == todo # <<>> /\ todo[1].op = "cancel" /\ todo[1].fn = t[1]
WaitsOK ==
  /\ \A k \in DOMAIN requests :
       Live(Task(requests[k].id)) \/ Task(requests[k].id) \in selfish
  /\ \A t \in Calls : Live(t) /\ tasks[t].suspended =>
       Unreleased(t) # {} /\ (Dead(Unreleased(t)) => Doomed(t))

(* A request is asked once: whoever registers a member goes past those      *)
(* asked before.                                                            *)
Asking(n) == n \in DOMAIN commands /\ commands[n].op = "request"
Withdrawing(n) == n \in DOMAIN commands /\ commands[n].op = "cancel"
Known == host.asked \cup {commands[n].id : n \in {m \in DOMAIN commands : Asking(m)}}
Passed(id) ==
  Task(id) \in Calls /\ tasks[Task(id)].status # "done" =>
    /\ id.wait <= tasks[Task(id)].wait
    /\ \A i \in ToSet(todo) :
         i.op = "register" /\ i.task = Task(id) /\ id.wait = tasks[Task(id)].wait => id.member < i.n
AskedOnce ==
  /\ host.open \subseteq host.asked /\ deliveries \subseteq host.asked
  /\ host.open \cap deliveries = {}
  /\ \A id \in Known : Passed(id)
  /\ \A n \in DOMAIN commands : Asking(n) => commands[n].id \notin host.asked
  /\ \A m, n \in DOMAIN commands : Asking(m) /\ Asking(n) /\ m # n => commands[m].id # commands[n].id
  /\ phase = "idle" => commands = <<>>

(* What the host works on, or is about to, is registered and not answered,  *)
(* or will be withdrawn; an answered request is none of those.              *)
Registry(id) == Key(id) \in DOMAIN requests
Tellable(w) == ~w.delivered /\ (w.kind = "animate" \/ w.reserved)
HostOK ==
  /\ \A id \in host.open : Registry(id) \/ \E n \in DOMAIN commands : Withdrawing(n) /\ commands[n].id = id
  /\ \A n \in DOMAIN commands : Asking(n) =>
       Registry(commands[n].id)
         \/ \E m \in DOMAIN commands : m > n /\ Withdrawing(m) /\ commands[m].id = commands[n].id
  /\ \A k \in DOMAIN requests :
       LET w == requests[k] IN
       /\ w.reserved => w.kind = "service"
       /\ w.delivered => w.id \in host.asked \ host.open
       /\ w.delivered => w.answer = w.id
       /\ w.id \in Known => w.kind = "animate" \/ w.reserved
  /\ \A r \in Regions : Cardinality(Active(r)) <= Capacity

CallsOK == (\A t \in Calls : CallOK(t)) /\ StackOK /\ HeadOK /\ WaitsOK
IInv == TypeOK /\ CallsOK /\ AskedOnce /\ HostOK

-----------------------------------------------------------------------------
(* What the sets are made of.                                              *)

(* A call is a function and its number. *)
LEMMA CallsAre ==
  /\ IsFiniteSet(Calls)
  /\ \A t \in Calls : /\ t[1] \in Fns /\ t[2] \in Nat /\ t = <<t[1], t[2]>>
                      /\ 1 <= t[2] /\ t[2] <= MaxCalls[t[1]]
  /\ \A f \in Fns, n \in Nat : 1 <= n /\ n <= MaxCalls[f] => <<f, n>> \in Calls
  <1> DEFINE Of == [f \in Fns |-> {f} \X (1..MaxCalls[f])]
  <1>1. \A f \in Fns : MaxCalls[f] \in Nat
    BY TasksAssumption
  <1>2. Of \in Surjection(Fns, {{f} \X (1..MaxCalls[f]) : f \in Fns})
    BY DEF Surjection
  <1>3. IsFiniteSet({{f} \X (1..MaxCalls[f]) : f \in Fns})
    BY <1>2, FS_Surjection, TasksAssumption
  <1>4. \A f \in Fns : IsFiniteSet({f} \X (1..MaxCalls[f]))
    <2> TAKE f \in Fns
    <2>1. IsFiniteSet({f})
      BY FS_Singleton
    <2>2. IsFiniteSet(1..MaxCalls[f])
      BY <1>1, FS_Interval
    <2> QED BY <2>1, <2>2, FS_Product
  <1>5. IsFiniteSet(Calls)
    BY <1>3, <1>4, FS_UNION DEF Calls
  <1> QED BY <1>1, <1>5 DEF Calls

(* A key names one request. *)
LEMMA KeysDiffer ==
  /\ \A id, jd \in Ids : Key(id) = Key(jd) => id = jd
  /\ \A id \in Ids : Task(id)[1] = id.fn /\ Task(id)[2] = id.call
  BY DEF Ids, Key, Task

(* What an item holds, by its kind. *)
LEMMA ItemsAre ==
  \A i \in Items :
    /\ i.op \in {"begin", "restart", "cancel", "segment", "register", "run"}
    /\ ~Stacked(i.op) <=> i.op \in {"begin", "restart", "cancel"}
    /\ ~Stacked(i.op) => i.fn \in Fns
    /\ Stacked(i.op) => i.task \in Calls
    /\ i.op = "register" => i.n \in Nat \ {0} /\ i.members \in Seq(Members) /\ i.members # <<>>
    /\ i.op = "run" => i.dead \in BOOLEAN
  BY DEF Items, Stacked

(* The items the steps make. *)
LEMMA MadeItems ==
  /\ \A f \in Fns, op \in {"begin", "restart", "cancel"} : [op |-> op, fn |-> f] \in Items
  /\ \A t \in Calls : [op |-> "segment", task |-> t] \in Items
  /\ \A t \in Calls, m \in Seq(Members) :
       m # <<>> => [op |-> "register", task |-> t, n |-> 1, members |-> m] \in Items
  /\ \A t \in Calls, d \in BOOLEAN : [op |-> "run", task |-> t, dead |-> d] \in Items
  BY DEF Items

LEMMA NextMember ==
  ASSUME NEW i \in Items, i.op = "register"
  PROVE  /\ [i EXCEPT !.n = @ + 1] \in Items
         /\ [i EXCEPT !.n = @ + 1].op = "register" /\ [i EXCEPT !.n = @ + 1].task = i.task
         /\ [i EXCEPT !.n = @ + 1].n = i.n + 1 /\ [i EXCEPT !.n = @ + 1].members = i.members
  <1>1. i \in [op : {"register"}, task : Calls, n : Nat \ {0}, members : Seq(Members)] /\ i.members # <<>>
    BY DEF Items
  <1> QED BY <1>1 DEF Items

(* The stack with an item before it, without its first one, and with        *)
(* another in its place.                                                    *)
LEMMA Pushed ==
  ASSUME NEW s \in Seq(Items), NEW x \in Items
  PROVE  LET p == <<x>> \o s IN
         /\ p \in Seq(Items) /\ p # <<>> /\ p[1] = x
         /\ DOMAIN p = 1 .. Len(s) + 1 /\ DOMAIN s = 1 .. Len(s) /\ Len(s) \in Nat
         /\ \A n \in DOMAIN p : n # 1 => n - 1 \in DOMAIN s /\ p[n] = s[n - 1]
  OBVIOUS

LEMMA Popped ==
  ASSUME NEW s \in Seq(Items), s # <<>>
  PROVE  /\ Tail(s) \in Seq(Items) /\ s[1] \in Items /\ Head(s) = s[1] /\ 1 \in DOMAIN s
         /\ DOMAIN s = 1 .. Len(s) /\ Len(s) \in Nat /\ DOMAIN Tail(s) = 1 .. Len(s) - 1
         /\ Len(Tail(s)) = Len(s) - 1
         /\ \A n \in DOMAIN Tail(s) : n + 1 \in DOMAIN s /\ n + 1 # 1 /\ Tail(s)[n] = s[n + 1]
  OBVIOUS

LEMMA Replaced ==
  ASSUME NEW s \in Seq(Items), s # <<>>, NEW x \in Items
  PROVE  LET p == <<x>> \o Tail(s) IN
         /\ p \in Seq(Items) /\ p # <<>> /\ p[1] = x /\ DOMAIN p = DOMAIN s
         /\ \A n \in DOMAIN s : n # 1 => p[n] = s[n]
  OBVIOUS

(* A member of a plan. *)
LEMMA MembersAre ==
  \A m \in Members : /\ m.kind \in {"service", "animate", "time", "join"}
                     /\ m.kind = "join" => m.fn \in Fns /\ m.wrapped \in BOOLEAN
  BY DEF Members

(* The withdrawals of K are those of what the host is to be told of it.     *)
LEMMA WithdrawalsAre ==
  ASSUME TypeOK, NEW K \in SUBSET DOMAIN requests
  PROVE  /\ Withdrawals(K) \in Seq(Commands)
         /\ \A n \in DOMAIN Withdrawals(K) :
              Withdrawals(K)[n].op = "cancel" /\ Withdrawals(K)[n].id \in Told(K)
         /\ \A id \in Told(K) : \E n \in DOMAIN Withdrawals(K) : Withdrawals(K)[n].id = id
  <1> DEFINE T == Told(K)
             Q == {q \in K : ~requests[q].delivered /\ (requests[q].kind = "animate" \/ requests[q].reserved)}
             Name == [q \in Q |-> requests[q].id]
  <1>1. T \subseteq Ids
    BY DEF TypeOK, Told, Waits
  <1>2. IsFiniteSet(Q)
    BY FS_Subset DEF TypeOK
  <1>3. Name \in Surjection(Q, T)
    BY DEF Surjection, Told
  <1>4. IsFiniteSet(T)
    BY <1>2, <1>3, FS_Surjection
  <1> HIDE DEF T, Q, Name
  <1>5. /\ Cardinality(T) \in Nat /\ IsFiniteSet(1..Cardinality(T))
        /\ Cardinality(1..Cardinality(T)) = Cardinality(T)
    BY <1>4, FS_CardinalityType, FS_Interval
  <1>6. \E f \in [1..Cardinality(T) -> T] : IsInjective(f)
    BY <1>4, FS_CardinalityType DEF ExistsBijection, Bijection, Injection
  <1>7. SetToSeq(T) \in [1..Cardinality(T) -> T] /\ IsInjective(SetToSeq(T))
    BY <1>6 DEF SetToSeq
  <1>8. SetToSeq(T) \in Injection(1..Cardinality(T), T)
    BY <1>7 DEF Injection
  <1>9. \A id \in T : \E n \in 1..Cardinality(T) : SetToSeq(T)[n] = id
    BY <1>4, <1>5, <1>8, FS_Injection DEF Surjection
  <1>10. Withdrawals(K) = [n \in 1..Cardinality(T) |-> [op |-> "cancel", id |-> SetToSeq(T)[n]]]
    BY DEF Withdrawals, T
  <1>11. /\ Withdrawals(K) \in Seq(Commands)
         /\ \A n \in DOMAIN Withdrawals(K) : /\ Withdrawals(K)[n].op = "cancel"
                                             /\ Withdrawals(K)[n].id \in T
    <2>1. \A n \in 1..Cardinality(T) : SetToSeq(T)[n] \in T
      BY <1>7
    <2>2. \A n \in 1..Cardinality(T) : [op |-> "cancel", id |-> SetToSeq(T)[n]] \in Commands
      BY <1>1, <2>1 DEF Commands
    <2>3. Withdrawals(K) \in [1..Cardinality(T) -> Commands]
      BY <1>10, <2>2
    <2>4. Withdrawals(K) \in Seq(Commands)
      BY <1>5, <2>3
    <2> QED BY <1>10, <2>1, <2>4
  <1>12. \A id \in T : \E n \in DOMAIN Withdrawals(K) : Withdrawals(K)[n].id = id
    BY <1>9, <1>10
  <1> QED BY <1>11, <1>12 DEF T

(* What is cancelled lived, and no live call that awaits it is left.        *)
LEMMA CancelledAre ==
  ASSUME NEW S
  PROVE  /\ Cancelled(S) \subseteq {t \in Calls : Live(t)}
         /\ \A t \in S \cap Calls : Live(t) => t \in Cancelled(S)
         /\ Joiners(Cancelled(S)) \subseteq Cancelled(S)
  <1>1. {s \in S \cap Calls : Live(s)} \cup Joiners({t \in Calls : Live(t)}) \subseteq {t \in Calls : Live(t)}
    BY DEF Joiners
  <1>2. Cancelled(S) \subseteq {t \in Calls : Live(t)}
    BY <1>1 DEF Cancelled
  <1>3. \A F \in SUBSET Calls : Cancelled(S) \subseteq F => Joiners(Cancelled(S)) \subseteq Joiners(F)
    BY DEF Joiners
  <1>4. \A F \in SUBSET Calls : {s \in S \cap Calls : Live(s)} \cup Joiners(F) \subseteq F
                                => Cancelled(S) \subseteq F
    BY DEF Cancelled
  <1>5. Joiners(Cancelled(S)) \subseteq Cancelled(S)
    <2>1. ASSUME NEW t \in Joiners(Cancelled(S)), NEW F \in SUBSET Calls,
                 {s \in S \cap Calls : Live(s)} \cup Joiners(F) \subseteq F
          PROVE  t \in F
      BY <1>3, <1>4, <2>1
    <2>2. Joiners(Cancelled(S)) \subseteq Calls
      BY DEF Joiners
    <2> QED BY <2>1, <2>2 DEF Cancelled
  <1>6. \A t \in S \cap Calls : Live(t) => t \in Cancelled(S)
    BY DEF Cancelled
  <1> QED BY <1>2, <1>5, <1>6

-----------------------------------------------------------------------------
(* Releasing K, and cancelling S.                                          *)

Drops(K) == requests' = Without(K) /\ commands' = commands \o Withdrawals(K)

(* What is released is gone, the rest is as it was, and the host is told    *)
(* after all it was told before.                                            *)
LEMMA DropsDo ==
  ASSUME TypeOK, NEW K \in SUBSET DOMAIN requests, Drops(K)
  PROVE  /\ DOMAIN requests' = DOMAIN requests \ K /\ IsFiniteSet(DOMAIN requests')
         /\ requests' \in [DOMAIN requests' -> Waits]
         /\ \A k \in DOMAIN requests' : requests'[k] = requests[k]
         /\ commands' \in Seq(Commands) /\ Len(commands') >= Len(commands)
         /\ \A n \in DOMAIN commands : n \in DOMAIN commands' /\ commands'[n] = commands[n]
         /\ \A n \in DOMAIN commands' \ DOMAIN commands : commands'[n].op = "cancel"
         /\ \A k \in K : Tellable(requests[k]) =>
              \E n \in DOMAIN commands' : /\ n > Len(commands) /\ commands'[n].op = "cancel"
                                          /\ commands'[n].id = requests[k].id
  <1>1. requests' = [k \in DOMAIN requests \ K |-> requests[k]]
    BY DEF Drops, Without
  <1>2. IsFiniteSet(DOMAIN requests \ K)
    BY FS_Difference DEF TypeOK
  <1>3. requests \in [DOMAIN requests -> Waits] /\ commands \in Seq(Commands)
    BY DEF TypeOK
  <1> DEFINE W == Withdrawals(K)
  <1>4. /\ W \in Seq(Commands) /\ \A n \in DOMAIN W : W[n].op = "cancel"
        /\ \A id \in Told(K) : \E n \in DOMAIN W : W[n].id = id
    BY WithdrawalsAre
  <1>5. commands' = commands \o W
    BY DEF Drops
  <1>6. \A k \in K : Tellable(requests[k]) => requests[k].id \in Told(K)
    BY DEF Tellable, Told
  <1> HIDE DEF W
  <1>7. /\ commands' \in Seq(Commands) /\ Len(commands') = Len(commands) + Len(W)
        /\ Len(commands) \in Nat /\ Len(W) \in Nat
        /\ DOMAIN commands = 1 .. Len(commands) /\ DOMAIN W = 1 .. Len(W)
        /\ DOMAIN commands' = 1 .. Len(commands) + Len(W)
        /\ \A n \in DOMAIN commands : commands'[n] = commands[n]
        /\ \A n \in DOMAIN W : commands'[Len(commands) + n] = W[n]
    BY <1>3, <1>4, <1>5
  <1>8. \A n \in DOMAIN commands' \ DOMAIN commands : commands'[n].op = "cancel"
    <2> TAKE n \in DOMAIN commands' \ DOMAIN commands
    <2>1. PICK m \in DOMAIN W : m = n - Len(commands)
      BY <1>7
    <2>2. commands'[n] = W[m]
      BY <1>7, <2>1
    <2> QED BY <1>4, <2>2
  <1>9. ASSUME NEW k \in K, Tellable(requests[k])
        PROVE  \E n \in DOMAIN commands' : /\ n > Len(commands) /\ commands'[n].op = "cancel"
                                           /\ commands'[n].id = requests[k].id
    <2>1. PICK m \in DOMAIN W : W[m].id = requests[k].id
      BY <1>4, <1>6, <1>9
    <2>2. PICK n : n = Len(commands) + m
      OBVIOUS
    <2>3. n \in DOMAIN commands' /\ n > Len(commands) /\ commands'[n] = W[m]
      BY <1>7, <2>2
    <2> QED BY <1>4, <2>1, <2>3
  <1>10. DOMAIN requests' = DOMAIN requests \ K /\ \A k \in DOMAIN requests' : requests'[k] = requests[k]
    BY <1>1
  <1>11. requests' \in [DOMAIN requests' -> Waits] /\ IsFiniteSet(DOMAIN requests')
    BY <1>1, <1>2, <1>3
  <1>12. Len(commands') >= Len(commands) /\ \A n \in DOMAIN commands : n \in DOMAIN commands'
    BY <1>7
  <1> QED BY <1>7, <1>8, <1>9, <1>10, <1>11, <1>12

(* The calls cancelled, and what was pending for them.                      *)
Lost(S) == UNION {Pending(t) : t \in Cancelled(S)}

LEMMA CancelAllDoes ==
  ASSUME TypeOK, NEW S, CancelAll(S)
  PROVE  /\ Lost(S) \in SUBSET DOMAIN requests /\ Drops(Lost(S))
         /\ \A t \in Calls \ Cancelled(S) : tasks'[t] = tasks[t]
         /\ \A t \in Cancelled(S) :
              /\ tasks'[t].status = "cancelled" /\ ~tasks'[t].suspended /\ tasks'[t].wait = tasks[t].wait
         /\ tasks' \in [Calls -> Records]
         /\ selfish' = selfish \cup {t \in Cancelled(S) : Running(t)}
  <1>1. Cancelled(S) \subseteq Calls
    BY CancelledAre
  <1>2. Lost(S) \subseteq DOMAIN requests
    BY DEF Lost, Pending, Unreleased
  <1>3. Drops(Lost(S)) /\ selfish' = selfish \cup {t \in Cancelled(S) : Running(t)}
    BY DEF CancelAll, Drops, Lost
  <1>4. tasks' = [t \in Calls |-> IF t \in Cancelled(S)
                                  THEN [tasks[t] EXCEPT !.status = "cancelled", !.suspended = FALSE]
                                  ELSE tasks[t]]
    BY DEF CancelAll
  <1>5. \A t \in Calls : tasks[t] \in Records
    BY DEF TypeOK
  <1>6. \A r \in Records : LET q == [r EXCEPT !.status = "cancelled", !.suspended = FALSE] IN
          q \in Records /\ q.status = "cancelled" /\ ~q.suspended /\ q.wait = r.wait
    BY DEF Records
  <1>7. \A t \in Cancelled(S) :
          tasks'[t].status = "cancelled" /\ ~tasks'[t].suspended /\ tasks'[t].wait = tasks[t].wait
    BY <1>1, <1>4, <1>5, <1>6
  <1>8. tasks' \in [Calls -> Records]
    BY <1>4, <1>5, <1>6
  <1> QED BY <1>2, <1>3, <1>4, <1>7, <1>8

(* Registering a member: the others stay as they are.                      *)
LEMMA RegisteredDo ==
  ASSUME TypeOK, NEW w \in Waits, Task(w.id) \in Calls, Registered(w)
  PROVE  /\ DOMAIN requests' = DOMAIN requests \cup {Key(w.id)} /\ IsFiniteSet(DOMAIN requests')
         /\ requests' \in [DOMAIN requests' -> Waits] /\ requests'[Key(w.id)] = w
         /\ \A k \in DOMAIN requests : k # Key(w.id) => requests'[k] = requests[k]
         /\ \A k \in DOMAIN requests' : Key(requests'[k].id) = k /\ Task(requests'[k].id) \in Calls
  <1>1. requests' = [k \in DOMAIN requests \cup {Key(w.id)} |->
                       IF k = Key(w.id) THEN w ELSE requests[k]]
    BY DEF Registered
  <1>2. IsFiniteSet(DOMAIN requests \cup {Key(w.id)})
    BY FS_AddElement DEF TypeOK
  <1> QED BY <1>1, <1>2 DEF TypeOK

(* The id of the member a call registers next, and its wait.                *)
LEMMA MemberWaits ==
  ASSUME TypeOK, NEW i \in Items, i.op = "register"
  PROVE  /\ Id(i) \in Ids /\ Task(Id(i)) = i.task /\ i.task \in Calls
         /\ Id(i).wait = tasks[i.task].wait /\ Id(i).member = i.n
         /\ \A kind \in {"service", "animate", "time"} :
              Wait(i, kind) \in Waits /\ Wait(i, kind).id = Id(i) /\ Wait(i, kind).kind = kind
         /\ [Wait(i, "service") EXCEPT !.ready = TRUE] \in Waits
         /\ [Wait(i, "service") EXCEPT !.reserved = TRUE] \in Waits
         /\ \A b \in BOOLEAN, t \in Calls :
              [Wait(i, "join") EXCEPT !.wrapped = b, !.target = t] \in Waits
  <1>1. i.task \in Calls /\ i.n \in Nat
    BY ItemsAre DEF Stacked
  <1>2. tasks[i.task].wait \in Nat
    BY <1>1 DEF TypeOK, Records
  <1>3. i.task[1] \in Fns /\ i.task[2] \in Nat /\ i.task = <<i.task[1], i.task[2]>>
    BY <1>1, CallsAre
  <1>4. Id(i) \in Ids /\ Task(Id(i)) = i.task /\ Id(i).wait = tasks[i.task].wait /\ Id(i).member = i.n
    BY <1>1, <1>2, <1>3 DEF Ids, Id, Task
  <1> QED BY <1>1, <1>4 DEF Waits, Wait

(* Steps that only cancel keep the types.                                   *)
LEMMA CancelTypes ==
  ASSUME TypeOK, NEW S, CancelAll(S), UNCHANGED <<generations, world>>, mounted' \subseteq mounted,
         todo' \in Seq(Items), bounds' \in [cancels : Nat, spurious : Nat]
  PROVE  TypeOK'
  <1>1. /\ DOMAIN requests' = DOMAIN requests \ Lost(S) /\ IsFiniteSet(DOMAIN requests')
        /\ requests' \in [DOMAIN requests' -> Waits]
        /\ \A k \in DOMAIN requests' : requests'[k] = requests[k]
        /\ commands' \in Seq(Commands)
    BY CancelAllDoes, DropsDo
  <1>2. tasks' \in [Calls -> Records] /\ selfish' \subseteq Calls
    BY CancelAllDoes, CancelledAre DEF TypeOK
  <1> QED BY <1>1, <1>2 DEF TypeOK, world

(* Steps of a call that release what it waits for.                          *)
LEMMA ResumeTypes ==
  ASSUME TypeOK, NEW i \in Items, Resume(i), todo # <<>>
  PROVE  TypeOK'
  <1>1. i.task \in Calls
    BY ItemsAre DEF Resume, Stacked
  <1>2. Pending(i.task) \in SUBSET DOMAIN requests /\ Drops(Pending(i.task))
    BY DEF Resume, Drops, Pending, Unreleased
  <1>3. /\ DOMAIN requests' = DOMAIN requests \ Pending(i.task) /\ IsFiniteSet(DOMAIN requests')
        /\ requests' \in [DOMAIN requests' -> Waits]
        /\ \A k \in DOMAIN requests' : requests'[k] = requests[k]
        /\ commands' \in Seq(Commands)
    BY <1>2, DropsDo
  <1>4. tasks' \in [Calls -> Records]
    BY <1>1 DEF Resume, TypeOK, Records
  <1>5. todo' \in Seq(Items)
    BY <1>1, MadeItems, Popped, Replaced DEF Resume, TypeOK
  <1> QED BY <1>3, <1>4, <1>5 DEF TypeOK, Resume, world

(* One member is registered: what it is, and what the host is asked.        *)
Registers(i, w) ==
  /\ w.id = Id(i) /\ ~w.delivered /\ w.answer = None
  /\ w.reserved => /\ w.kind = "service" /\ Cardinality(Active(Home[i.task[1]])) < Capacity
  /\ \/ UNCHANGED commands
     \/ commands' = Asked(i) /\ (w.kind = "animate" \/ w.reserved)
  /\ \/ todo' = More(i)
     \/ \E f \in Fns : MayStart(f) /\ todo' = <<[op |-> "restart", fn |-> f]>> \o More(i)

LEMMA RegisterDoes ==
  ASSUME TypeOK, NEW i \in Items, Register(i)
  PROVE  \E w \in Waits : Registered(w) /\ Registers(i, w)
  <1>1. i.op = "register" /\ i.n <= Len(i.members)
    BY DEF Register
  <1>2. i.members \in Seq(Members) /\ i.n \in Nat \ {0}
    BY <1>1, ItemsAre
  <1>3. Member(i) \in Members
    BY <1>1, <1>2 DEF Member
  <1>4. CASE /\ RegisterService(i) /\ UNCHANGED commands
             /\ Registered([Wait(i, "service") EXCEPT !.ready = TRUE])
    <2>1. PICK w : w = [Wait(i, "service") EXCEPT !.ready = TRUE]
      OBVIOUS
    <2>2. w \in Waits
      BY <1>1, <2>1, MemberWaits
    <2>3. w.id = Id(i) /\ ~w.delivered /\ w.answer = None /\ ~w.reserved
      BY <2>1 DEF Wait
    <2> QED BY <1>4, <2>1, <2>2, <2>3 DEF Registers, RegisterService
  <1>5. CASE /\ RegisterService(i) /\ Cardinality(Active(Home[i.task[1]])) < Capacity
             /\ Registered([Wait(i, "service") EXCEPT !.reserved = TRUE]) /\ commands' = Asked(i)
    <2>1. PICK w : w = [Wait(i, "service") EXCEPT !.reserved = TRUE]
      OBVIOUS
    <2>2. w \in Waits
      BY <1>1, <2>1, MemberWaits
    <2>3. w.id = Id(i) /\ ~w.delivered /\ w.answer = None /\ w.reserved /\ w.kind = "service"
      BY <2>1 DEF Wait
    <2> QED BY <1>5, <2>1, <2>2, <2>3 DEF Registers, RegisterService
  <1>6. CASE RegisterJoin(i)
    <2>1. /\ Member(i).fn \in Fns /\ Member(i).wrapped \in BOOLEAN /\ MayStart(Member(i).fn)
          /\ generations[Member(i).fn] \in Nat
      BY <1>3, <1>6, MembersAre DEF RegisterJoin, TypeOK
    <2>2. <<Member(i).fn, generations[Member(i).fn] + 1>> \in Calls
      <3>1. MaxCalls[Member(i).fn] \in Nat
        BY <2>1, TasksAssumption
      <3> QED BY <2>1, <3>1, CallsAre DEF MayStart
    <2>3. PICK w : w = [Wait(i, "join") EXCEPT !.wrapped = Member(i).wrapped,
                           !.target = <<Member(i).fn, generations[Member(i).fn] + 1>>]
      OBVIOUS
    <2>4. w \in Waits
      BY <1>1, <2>1, <2>2, <2>3, MemberWaits
    <2>5. w.id = Id(i) /\ ~w.delivered /\ w.answer = None /\ ~w.reserved
      BY <2>3 DEF Wait
    <2>6. Registered(w) /\ UNCHANGED commands
          /\ todo' = <<[op |-> "restart", fn |-> Member(i).fn]>> \o More(i)
      BY <1>6, <2>3 DEF RegisterJoin
    <2> QED BY <2>1, <2>4, <2>5, <2>6 DEF Registers
  <1>7. CASE RegisterOther(i)
    <2>1. PICK w : w = Wait(i, Member(i).kind)
      OBVIOUS
    <2>2. w \in Waits
      BY <1>1, <1>7, <2>1, MemberWaits DEF RegisterOther
    <2>3. w.id = Id(i) /\ ~w.delivered /\ w.answer = None /\ ~w.reserved /\ w.kind = Member(i).kind
      BY <2>1 DEF Wait
    <2> QED BY <1>7, <2>1, <2>2, <2>3 DEF Registers, RegisterOther
  <1>8. RegisterService(i) \/ RegisterJoin(i) \/ RegisterOther(i)
    BY DEF Register
  <1> QED BY <1>4, <1>5, <1>6, <1>7, <1>8 DEF RegisterService

(* What registering changes, the way the invariant needs it.                *)
LEMMA RegisterTypes ==
  ASSUME TypeOK, NEW i \in Items, Register(i), todo # <<>>
  PROVE  TypeOK'
  <1>1. i.op = "register"
    BY DEF Register
  <1>2. PICK w \in Waits : Registered(w) /\ Registers(i, w)
    BY RegisterDoes
  <1>3. Id(i) \in Ids /\ Task(w.id) \in Calls
    BY <1>1, <1>2, MemberWaits DEF Registers
  <1>4. /\ IsFiniteSet(DOMAIN requests') /\ requests' \in [DOMAIN requests' -> Waits]
        /\ \A k \in DOMAIN requests' : Key(requests'[k].id) = k /\ Task(requests'[k].id) \in Calls
    BY <1>2, <1>3, RegisteredDo
  <1>5. commands' \in Seq(Commands)
    <2>1. [op |-> "request", id |-> Id(i)] \in Commands
      BY <1>3 DEF Commands
    <2>2. commands \in Seq(Commands)
      BY DEF TypeOK
    <2> QED BY <1>2, <2>1, <2>2 DEF Registers, Asked
  <1>6. More(i) \in Seq(Items)
    BY <1>1, NextMember, Replaced DEF More, TypeOK
  <1>7. \A f \in Fns : <<[op |-> "restart", fn |-> f]>> \o More(i) \in Seq(Items)
    BY <1>6, MadeItems, Pushed
  <1>8. todo' \in Seq(Items)
    BY <1>2, <1>6, <1>7 DEF Registers
  <1> QED BY <1>4, <1>5, <1>8 DEF TypeOK, Register, world

(* What a boundary finds over, and whose answer it takes: its own.          *)
LEMMA LatchedAre ==
  ASSUME TypeOK, NEW k \in DOMAIN requests, NEW T
  PROVE  /\ Latched(k, T) \in Waits /\ Latched(k, T).id = requests[k].id
         /\ Latched(k, T).kind = requests[k].kind /\ Latched(k, T).target = requests[k].target
         /\ Latched(k, T).wrapped = requests[k].wrapped
         /\ Latched(k, T).reserved = requests[k].reserved
         /\ Taken(k) \subseteq deliveries \cap {requests[k].id}
         /\ Taken(k) # {} => Latched(k, T).delivered /\ Latched(k, T).answer = requests[k].id
         /\ Taken(k) = {} => /\ Latched(k, T).delivered = requests[k].delivered
                             /\ Latched(k, T).answer = requests[k].answer
  <1>1. requests[k] \in Waits /\ Key(requests[k].id) = k /\ deliveries \subseteq Ids
    BY DEF TypeOK
  <1>2. requests[k].id \in Ids
    BY <1>1 DEF Waits
  <1>3. Taken(k) \subseteq deliveries \cap {requests[k].id}
    BY <1>1, <1>2, KeysDiffer DEF Taken
  <1>4. PICK a : a = IF Taken(k) = {} THEN requests[k].answer ELSE CHOOSE id \in Taken(k) : TRUE
    OBVIOUS
  <1>5. /\ Taken(k) # {} => a = requests[k].id
        /\ Taken(k) = {} => a = requests[k].answer
        /\ a \in Ids \cup {None}
    BY <1>1, <1>2, <1>3, <1>4 DEF Waits
  <1>6. PICK o \in BOOLEAN : o = Over(k, T)
    <2>1. Over(k, T) \in BOOLEAN
      BY DEF Over
    <2> QED BY <2>1
  <1>7. PICK d \in BOOLEAN : d = (requests[k].delivered \/ Taken(k) # {})
    OBVIOUS
  <1>8. Latched(k, T) = [requests[k] EXCEPT !.ready = o, !.delivered = d, !.answer = a]
    BY <1>4, <1>6, <1>7 DEF Latched
  <1>9. /\ Latched(k, T) \in Waits /\ Latched(k, T).id = requests[k].id
        /\ Latched(k, T).kind = requests[k].kind /\ Latched(k, T).target = requests[k].target
        /\ Latched(k, T).wrapped = requests[k].wrapped
        /\ Latched(k, T).reserved = requests[k].reserved
        /\ Latched(k, T).delivered = d /\ Latched(k, T).answer = a
    BY <1>1, <1>5, <1>8 DEF Waits
  <1>10. requests[k].delivered \in BOOLEAN
    BY <1>1 DEF Waits
  <1> QED BY <1>3, <1>5, <1>7, <1>9, <1>10

(* Who is ready, and whom that releases: never all that a call waits for.   *)
ReadyCalls(T) == {t \in Calls : Live(t) /\ Home[t[1]] \in mounted /\ Ready(t, T)}
Released(T) == UNION {Losers(t, T) : t \in ReadyCalls(T)}

LEMMA LosersAre ==
  ASSUME TypeOK, NEW T
  PROVE  /\ Released(T) \in SUBSET DOMAIN requests
         /\ \A t \in Calls : Unreleased(t) # {} => \E k \in Unreleased(t) : k \notin Released(T)
  <1>1. \A t \in Calls : Losers(t, T) \subseteq Pending(t) /\ Pending(t) \subseteq Unreleased(t)
    BY DEF Losers, ReadyMembers, Pending
  <1>2. \A t \in Calls : Unreleased(t) \subseteq DOMAIN requests
    BY DEF Unreleased
  <1>3. Released(T) \subseteq DOMAIN requests
    BY <1>1, <1>2 DEF Released, ReadyCalls
  <1>4. \A s, t \in Calls : s # t => Unreleased(s) \cap Unreleased(t) = {}
    BY DEF Unreleased
  <1>5. ASSUME NEW t \in Calls, Unreleased(t) # {}
        PROVE  \E k \in Unreleased(t) : k \notin Released(T)
    <2>1. \A k \in Unreleased(t) : k \in Released(T) => t \in ReadyCalls(T) /\ k \in Losers(t, T)
      <3> SUFFICES ASSUME NEW k \in Unreleased(t), k \in Released(T)
                   PROVE  t \in ReadyCalls(T) /\ k \in Losers(t, T)
        OBVIOUS
      <3>1. PICK s \in ReadyCalls(T) : k \in Losers(s, T)
        BY DEF Released
      <3>2. s \in Calls /\ k \in Unreleased(s)
        BY <1>1, <3>1 DEF ReadyCalls
      <3>3. s = t
        BY <1>4, <3>2
      <3> QED BY <3>1, <3>3
    <2>2. CASE t \notin ReadyCalls(T) \/ ~tasks[t].any
      BY <1>5, <2>1, <2>2 DEF Losers
    <2>3. CASE t \in ReadyCalls(T) /\ tasks[t].any
      <3> DEFINE M == {requests[k].id.member : k \in ReadyMembers(t, T)}
      <3>1. ReadyMembers(t, T) # {} /\ ReadyMembers(t, T) \subseteq Unreleased(t)
        BY <1>1, <2>3 DEF ReadyCalls, Ready, ReadyMembers
      <3>2. \A k \in ReadyMembers(t, T) : requests[k].id.member \in Nat
        BY <1>2, <3>1 DEF TypeOK, Waits, Ids
      <3>3. M \in SUBSET Nat /\ M # {}
        BY <3>1, <3>2
      <3>4. PICK m \in M : \A n \in M : m <= n
        BY <3>3, LeastNumber
      <3>5. PICK k \in ReadyMembers(t, T) : requests[k].id.member = m
        BY <3>4
      <3>6. \A w \in ReadyMembers(t, T) : ~(requests[w].id.member < requests[k].id.member)
        <4> TAKE w \in ReadyMembers(t, T)
        <4>1. requests[w].id.member \in M
          OBVIOUS
        <4>2. requests[k].id.member <= requests[w].id.member
          BY <3>4, <3>5, <4>1
        <4>3. requests[w].id.member \in Nat /\ requests[k].id.member \in Nat
          BY <3>2
        <4> QED BY <4>2, <4>3
      <3>7. k \notin Losers(t, T)
        BY <3>5, <3>6 DEF Losers
      <3> QED BY <2>1, <3>1, <3>7
    <2> QED BY <2>2, <2>3
  <1> QED BY <1>3, <1>5

(* The effect of a boundary: the losers go, the rest is latched, and the    *)
(* resumptions of the ready calls are queued, one each.                     *)
LEMMA BoundaryDoes ==
  ASSUME TypeOK, Boundary
  PROVE  \E T :
         /\ DOMAIN requests' = DOMAIN requests \ Released(T) /\ IsFiniteSet(DOMAIN requests')
         /\ \A k \in DOMAIN requests' : requests'[k] = Latched(k, T)
         /\ requests' \in [DOMAIN requests' -> Waits]
         /\ commands' = commands \o Withdrawals({k \in Released(T) : Taken(k) = {}})
         /\ todo' \in Seq(Items)
         /\ \A n \in DOMAIN todo' : todo'[n].op = "run" /\ todo'[n].task \in ReadyCalls(T)
         /\ \A m, n \in DOMAIN todo' : m # n => todo'[m].task # todo'[n].task
  <1>1. PICK T \in SUBSET {k \in DOMAIN requests : requests[k].kind = "time" /\ ~requests[k].ready} :
               /\ \E all \in Sorted(ReadyCalls(T)) :
                    todo' = [n \in DOMAIN all |->
                              [op |-> "run", task |-> all[n], dead |-> Dead(Pending(all[n]) \ Released(T))]]
               /\ requests' = [k \in DOMAIN requests \ Released(T) |-> Latched(k, T)]
               /\ commands' = commands \o Withdrawals({k \in Released(T) : Taken(k) = {}})
    BY DEF Boundary, ReadyCalls, Released
  <1>2. PICK all \in Sorted(ReadyCalls(T)) :
          todo' = [n \in DOMAIN all |->
                    [op |-> "run", task |-> all[n], dead |-> Dead(Pending(all[n]) \ Released(T))]]
    BY <1>1
  <1>3. /\ requests' = [k \in DOMAIN requests \ Released(T) |-> Latched(k, T)]
        /\ commands' = commands \o Withdrawals({k \in Released(T) : Taken(k) = {}})
    BY <1>1
  <1>4. IsFiniteSet(DOMAIN requests \ Released(T))
    BY FS_Difference DEF TypeOK
  <1>5. /\ DOMAIN requests' = DOMAIN requests \ Released(T) /\ IsFiniteSet(DOMAIN requests')
        /\ \A k \in DOMAIN requests' : requests'[k] = Latched(k, T)
    BY <1>3, <1>4
  <1>6. requests' \in [DOMAIN requests' -> Waits]
    BY <1>3, LatchedAre
  <1>7. ReadyCalls(T) \subseteq Calls /\ IsFiniteSet(ReadyCalls(T))
    <2>1. ReadyCalls(T) \in SUBSET Calls
      BY DEF ReadyCalls
    <2> QED BY <2>1, CallsAre, FS_Subset
  <1>8. PICK c \in Nat : c = Cardinality(ReadyCalls(T))
    BY <1>7, FS_CardinalityType
  <1>9. all \in [1..c -> ReadyCalls(T)] /\ \A m, n \in 1..c : all[m] = all[n] => m = n
    BY <1>2, <1>8 DEF Sorted, Bijection, Injection, IsInjective
  <1>10. \A n \in 1..c : Dead(Pending(all[n]) \ Released(T)) \in BOOLEAN
    BY DEF Dead
  <1>11. \A n \in 1..c : [op |-> "run", task |-> all[n], dead |-> Dead(Pending(all[n]) \ Released(T))] \in Items
    BY <1>7, <1>9, <1>10, MadeItems
  <1>12. todo' \in [1..c -> Items]
    BY <1>2, <1>9, <1>11
  <1>13. todo' \in Seq(Items) /\ DOMAIN todo' = 1..c
    BY <1>8, <1>12
  <1>14. \A n \in 1..c : todo'[n].op = "run" /\ todo'[n].task = all[n]
    BY <1>2, <1>9
  <1>15. /\ \A n \in DOMAIN todo' : todo'[n].op = "run" /\ todo'[n].task \in ReadyCalls(T)
         /\ \A m, n \in DOMAIN todo' : m # n => todo'[m].task # todo'[n].task
    BY <1>9, <1>13, <1>14
  <1> QED BY <1>3, <1>5, <1>6, <1>13, <1>15

(* The steps of a call that change its record only.                        *)
LEMMA OwnTypes ==
  ASSUME IInv, todo # <<>>, NEW i \in Items, i = todo[1],
         Begin(i) \/ Complete(i) \/ Suspend(i) \/ Registration(i)
  PROVE  TypeOK'
  <1>1. TypeOK /\ HeadOK
    BY DEF IInv, CallsOK
  <1>2. tasks \in [Calls -> Records] /\ todo \in Seq(Items)
    BY <1>1 DEF TypeOK
  <1>3. CASE Begin(i)
    <2>1. i.fn \in Fns /\ MayStart(i.fn)
      BY <1>1, <1>3, ItemsAre DEF HeadOK, Begin, Stacked
    <2>2. generations[i.fn] \in Nat /\ MaxCalls[i.fn] \in Nat /\ generations[i.fn] < MaxCalls[i.fn]
      BY <1>1, <2>1, TasksAssumption DEF TypeOK, MayStart
    <2>3. <<i.fn, generations[i.fn] + 1>> \in Calls
      BY <2>1, <2>2, CallsAre
    <2>4. generations' \in [Fns -> Nat] /\ \A f \in Fns : generations'[f] <= MaxCalls[f]
      BY <1>1, <1>3, <2>1, <2>2 DEF TypeOK, Begin
    <2>5. tasks' \in [Calls -> Records]
      <3>1. PICK t \in Calls : t = <<i.fn, generations[i.fn] + 1>>
        BY <2>3
      <3>2. tasks' = [tasks EXCEPT ![t].status = "live"]
        BY <1>3, <3>1 DEF Begin
      <3>3. [tasks[t] EXCEPT !.status = "live"] \in Records
        BY <1>2 DEF Records
      <3> QED BY <1>2, <3>2, <3>3
    <2>6. todo' \in Seq(Items)
      BY <1>2, <1>3, <2>3, MadeItems, Replaced DEF Begin
    <2> QED BY <1>1, <1>3, <2>4, <2>5, <2>6 DEF Begin, TypeOK, world
  <1>4. CASE Complete(i)
    <2>1. i.task \in Calls
      BY <1>4, ItemsAre DEF Complete, Stacked
    <2>2. tasks' \in [Calls -> Records]
      BY <1>2, <1>4, <2>1 DEF Complete, Records, Fresh
    <2>3. todo' \in Seq(Items)
      BY <1>2, <1>4, Popped DEF Complete
    <2> QED BY <1>1, <1>4, <2>2, <2>3 DEF Complete, TypeOK, world
  <1>5. CASE Suspend(i)
    <2>1. i.task \in Calls /\ i.task[1] \in Fns
      BY <1>5, ItemsAre, CallsAre DEF Suspend, Stacked
    <2>2. PICK plan \in Plans[i.task[1]] :
            /\ tasks' = [tasks EXCEPT ![i.task] =
                           [tasks[i.task] EXCEPT !.wait = tasks[i.task].wait + 1, !.any = plan.any]]
            /\ todo' = <<[op |-> "register", task |-> i.task, n |-> 1, members |-> plan.members]>> \o Tail(todo)
      BY <1>5 DEF Suspend
    <2>3. plan.any \in BOOLEAN /\ plan.members \in Seq(Members) /\ plan.members # <<>>
      BY <2>1, TasksAssumption
    <2>4. tasks' \in [Calls -> Records]
      <3>1. tasks[i.task] \in Records
        BY <1>2, <2>1
      <3>2. PICK b \in BOOLEAN : b = plan.any
        BY <2>3
      <3>3. PICK w \in Nat : w = tasks[i.task].wait + 1
        BY <3>1 DEF Records
      <3>4. [tasks[i.task] EXCEPT !.wait = w, !.any = b] \in Records
        BY <3>1 DEF Records
      <3> QED BY <1>2, <2>1, <2>2, <3>2, <3>3, <3>4
    <2>5. todo' \in Seq(Items)
      BY <1>2, <2>1, <2>2, <2>3, MadeItems, Replaced
    <2> QED BY <1>1, <1>5, <2>4, <2>5 DEF Suspend, TypeOK, world
  <1>6. CASE Registration(i)
    <2>1. i.task \in Calls /\ i.task[1] \in Fns
      BY <1>6, ItemsAre, CallsAre DEF Registration, Stacked
    <2>2. tasks' \in [Calls -> Records]
      BY <1>2, <1>6, <2>1 DEF Registration, Records
    <2>3. todo' = <<[op |-> "cancel", fn |-> i.task[1]]>> \o Tail(todo) \/ todo' = <<>> \o Tail(todo)
      BY <1>6 DEF Registration
    <2>4. [op |-> "cancel", fn |-> i.task[1]] \in Items
      BY <2>1, MadeItems
    <2>5. <<[op |-> "cancel", fn |-> i.task[1]]>> \o Tail(todo) \in Seq(Items)
      BY <1>2, <2>4, Replaced
    <2>6. Tail(todo) \in Seq(Items)
      BY <1>2, Popped
    <2>7. <<>> \o Tail(todo) = Tail(todo)
      BY <2>6
    <2>8. todo' \in Seq(Items)
      BY <2>3, <2>5, <2>6, <2>7
    <2> QED BY <1>1, <1>6, <2>2, <2>8 DEF Registration, TypeOK, world
  <1> QED BY <1>3, <1>4, <1>5, <1>6

(* The frame's own steps, and the host's. *)
LEMMA FrameTypes ==
  ASSUME TypeOK, Boundary \/ Drain \/ Drained \/ \E id \in host.asked : Deliver(id)
  PROVE  TypeOK'
  <1>1. CASE Boundary
    <2>1. PICK T :
           /\ DOMAIN requests' = DOMAIN requests \ Released(T) /\ IsFiniteSet(DOMAIN requests')
           /\ \A k \in DOMAIN requests' : requests'[k] = Latched(k, T)
           /\ requests' \in [DOMAIN requests' -> Waits]
           /\ commands' = commands \o Withdrawals({k \in Released(T) : Taken(k) = {}})
           /\ todo' \in Seq(Items)
      BY <1>1, BoundaryDoes
    <2>2. \A k \in DOMAIN requests' : k \in DOMAIN requests /\ requests'[k].id = requests[k].id
      BY <2>1, LatchedAre
    <2>3. {k \in Released(T) : Taken(k) = {}} \in SUBSET DOMAIN requests
      BY LosersAre
    <2>4. Withdrawals({k \in Released(T) : Taken(k) = {}}) \in Seq(Commands)
      BY <2>3, WithdrawalsAre
    <2>5. commands' \in Seq(Commands)
      BY <2>1, <2>4 DEF TypeOK
    <2> QED BY <1>1, <2>1, <2>2, <2>5 DEF TypeOK, Boundary
  <1>2. CASE Drain
    <2>1. commands \in Seq(Commands) /\ commands # <<>>
      BY <1>2 DEF TypeOK, Drain
    <2>2. Head(commands) \in Commands /\ commands' \in Seq(Commands)
      BY <1>2, <2>1 DEF Drain
    <2>3. Head(commands).id \in Ids
      BY <2>2 DEF Commands
    <2>4. host' \in [open : SUBSET Ids, asked : SUBSET Ids] /\ deliveries' \subseteq Ids
      BY <1>2, <2>3 DEF TypeOK, Drain
    <2> QED BY <1>2, <2>2, <2>4 DEF TypeOK, Drain
  <1>3. CASE Drained
    BY <1>3 DEF TypeOK, Drained, model
  <1>4. CASE \E id \in host.asked : Deliver(id)
    <2>1. PICK id \in host.asked : Deliver(id)
      BY <1>4
    <2>2. id \in Ids
      BY DEF TypeOK
    <2>3. host' \in [open : SUBSET Ids, asked : SUBSET Ids] /\ deliveries' \subseteq Ids
      BY <2>1, <2>2 DEF TypeOK, Deliver
    <2>4. bounds' \in [cancels : Nat, spurious : Nat]
      BY <2>1 DEF TypeOK, Deliver
    <2> QED BY <2>1, <2>3, <2>4 DEF TypeOK, Deliver, model
  <1> QED BY <1>1, <1>2, <1>3, <1>4

-----------------------------------------------------------------------------
(* The stack as a set of items: what each step leaves of it.               *)

LEMMA Unstacked ==
  ASSUME NEW s \in Seq(Items), s # <<>>, Ordered(s)
  PROVE  /\ ToSet(s) = {s[1]} \cup ToSet(Tail(s)) /\ Ordered(Tail(s))
         /\ \A j \in ToSet(Tail(s)) :
              j \in Items /\ Stacked(j.op) /\ (Stacked(s[1].op) => j.task # s[1].task)
  <1>1. /\ 1 \in DOMAIN s /\ DOMAIN s = 1 .. Len(s) /\ Len(s) \in Nat
        /\ DOMAIN Tail(s) = 1 .. Len(s) - 1
        /\ \A n \in DOMAIN Tail(s) : n + 1 \in DOMAIN s /\ n + 1 # 1 /\ Tail(s)[n] = s[n + 1]
    BY Popped
  <1>2. \A n \in DOMAIN s : n # 1 => n - 1 \in DOMAIN Tail(s) /\ Tail(s)[n - 1] = s[n]
    BY <1>1
  <1>3. ToSet(s) = {s[1]} \cup ToSet(Tail(s))
    <2>1. \A n \in DOMAIN s : s[n] = s[1] \/ s[n] \in ToSet(Tail(s))
      BY <1>2 DEF ToSet
    <2>2. \A n \in DOMAIN Tail(s) : Tail(s)[n] \in ToSet(s)
      BY <1>1 DEF ToSet
    <2>3. s[1] \in ToSet(s)
      BY <1>1 DEF ToSet
    <2> QED BY <2>1, <2>2, <2>3 DEF ToSet
  <1>4. Ordered(Tail(s))
    <2>1. \A n \in DOMAIN Tail(s) : Stacked(Tail(s)[n].op)
      BY <1>1 DEF Ordered
    <2>2. \A m, n \in DOMAIN Tail(s) : m # n => m + 1 # n + 1
      BY <1>1
    <2>3. \A m, n \in DOMAIN Tail(s) : m # n => Tail(s)[m].task # Tail(s)[n].task
      BY <1>1, <2>1, <2>2 DEF Ordered
    <2> QED BY <2>1, <2>3 DEF Ordered
  <1>5. \A j \in ToSet(Tail(s)) :
          j \in Items /\ Stacked(j.op) /\ (Stacked(s[1].op) => j.task # s[1].task)
    <2> SUFFICES ASSUME NEW n \in DOMAIN Tail(s)
                 PROVE  /\ Tail(s)[n] \in Items /\ Stacked(Tail(s)[n].op)
                        /\ Stacked(s[1].op) => Tail(s)[n].task # s[1].task
      BY DEF ToSet
    <2>1. n + 1 \in DOMAIN s /\ n + 1 # 1 /\ Tail(s)[n] = s[n + 1]
      BY <1>1
    <2> QED BY <1>1, <2>1 DEF Ordered
  <1> QED BY <1>3, <1>4, <1>5

LEMMA StackedSet ==
  ASSUME NEW s \in Seq(Items), NEW x \in Items
  PROVE  ToSet(<<x>> \o s) = {x} \cup ToSet(s)
  <1> DEFINE p == <<x>> \o s
  <1>1. /\ p[1] = x /\ DOMAIN p = 1 .. Len(s) + 1 /\ DOMAIN s = 1 .. Len(s) /\ Len(s) \in Nat
        /\ \A n \in DOMAIN p : n # 1 => n - 1 \in DOMAIN s /\ p[n] = s[n - 1]
    BY Pushed
  <1> HIDE DEF p
  <1>2. \A n \in DOMAIN s : n + 1 \in DOMAIN p /\ p[n + 1] = s[n]
    BY <1>1
  <1>3. \A n \in DOMAIN p : p[n] = x \/ p[n] \in ToSet(s)
    BY <1>1 DEF ToSet
  <1>4. \A n \in DOMAIN s : s[n] \in ToSet(p)
    BY <1>2 DEF ToSet
  <1>5. x \in ToSet(p)
    BY <1>1 DEF ToSet
  <1>6. ToSet(p) = {x} \cup ToSet(s)
    BY <1>3, <1>4, <1>5 DEF ToSet
  <1> QED BY <1>6 DEF p

LEMMA Stacking ==
  ASSUME NEW s \in Seq(Items), Ordered(s), \A j \in ToSet(s) : Stacked(j.op), NEW x \in Items,
         Stacked(x.op) => \A j \in ToSet(s) : j.task # x.task
  PROVE  LET p == <<x>> \o s IN
         p \in Seq(Items) /\ p # <<>> /\ p[1] = x /\ Ordered(p) /\ ToSet(p) = {x} \cup ToSet(s)
  <1> DEFINE p == <<x>> \o s
  <1>1. /\ p \in Seq(Items) /\ p # <<>> /\ p[1] = x
        /\ DOMAIN p = 1 .. Len(s) + 1 /\ DOMAIN s = 1 .. Len(s) /\ Len(s) \in Nat
        /\ \A n \in DOMAIN p : n # 1 => n - 1 \in DOMAIN s /\ p[n] = s[n - 1]
    BY Pushed
  <1>2. ToSet(p) = {x} \cup ToSet(s)
    BY StackedSet
  <1> HIDE DEF p
  <1>4. \A n \in DOMAIN p : n # 1 => Stacked(p[n].op) /\ p[n] \in ToSet(s)
    BY <1>1 DEF ToSet
  <1>5. \A m, n \in DOMAIN p : m # n /\ Stacked(p[m].op) /\ Stacked(p[n].op) => p[m].task # p[n].task
    <2> TAKE m, n \in DOMAIN p
    <2> HAVE m # n /\ Stacked(p[m].op) /\ Stacked(p[n].op)
    <2>1. CASE m = 1 \/ n = 1
      BY <1>1, <1>4, <2>1
    <2>2. CASE m # 1 /\ n # 1
      <3>1. m - 1 # n - 1
        BY <1>1
      <3>2. m - 1 \in DOMAIN s /\ n - 1 \in DOMAIN s /\ p[m] = s[m - 1] /\ p[n] = s[n - 1]
        BY <1>1, <2>2
      <3> QED BY <3>1, <3>2 DEF Ordered
    <2> QED BY <2>1, <2>2
  <1>6. Ordered(p)
    BY <1>4, <1>5 DEF Ordered
  <1> QED BY <1>1, <1>2, <1>6 DEF p

(* A call runs when an item of its own does. *)
LEMMA RunningIs ==
  \A t : Running(t) <=> \E i \in ToSet(todo) : i.op \in {"segment", "register"} /\ i.task = t
  BY DEF Running, ToSet

-----------------------------------------------------------------------------
(* A step of call t that leaves the others alone.                          *)

Alone(t) ==
  /\ \A s \in Calls : s # t => tasks'[s] = tasks[s]
  /\ \A s \in Calls : tasks'[s].status = "cancelled" => tasks[s].status = "cancelled"
  /\ \A k \in DOMAIN requests : Task(requests[k].id) # t =>
       k \in DOMAIN requests' /\ requests'[k] = requests[k]
  /\ \A k \in DOMAIN requests' : Task(requests'[k].id) # t =>
       k \in DOMAIN requests /\ requests'[k] = requests[k]
  /\ mounted' = mounted /\ selfish' = selfish
  /\ ToSet(Tail(todo)) \subseteq ToSet(todo')

(* The call of the first item, or the one that it begins.                   *)
Acting(t) ==
  \/ Stacked(todo[1].op) /\ todo[1].task = t /\ generations' = generations
  \/ /\ todo[1].op = "begin" /\ t = <<todo[1].fn, generations[todo[1].fn] + 1>>
     /\ generations' = [generations EXCEPT ![todo[1].fn] = @ + 1]

(* Nothing else on the stack is of that call. *)
LEMMA OthersOnly ==
  ASSUME IInv, todo # <<>>, NEW t \in Calls, Acting(t)
  PROVE  /\ todo \in Seq(Items) /\ Tail(todo) \in Seq(Items) /\ Ordered(Tail(todo))
         /\ ToSet(todo) = {todo[1]} \cup ToSet(Tail(todo)) /\ todo[1] \in Items
         /\ \A j \in ToSet(Tail(todo)) :
              j \in Items /\ j.task \in Calls /\ Stacked(j.op) /\ Held(j) /\ j.task # t
  <1>1. /\ StackOK /\ \A s \in Calls : CallOK(s)
        /\ todo \in Seq(Items) /\ Tail(todo) \in Seq(Items) /\ todo[1] \in Items
        /\ generations \in [Fns -> Nat]
    BY Popped DEF IInv, CallsOK, TypeOK
  <1>2. /\ ToSet(todo) = {todo[1]} \cup ToSet(Tail(todo)) /\ Ordered(Tail(todo))
        /\ \A j \in ToSet(Tail(todo)) :
              j \in Items /\ Stacked(j.op) /\ (Stacked(todo[1].op) => j.task # todo[1].task)
    BY <1>1, Unstacked DEF StackOK
  <1>3. \A j \in ToSet(Tail(todo)) : j \in Items /\ j.task \in Calls /\ Stacked(j.op) /\ Held(j)
    BY <1>1, <1>2, ItemsAre DEF StackOK
  <1>4. todo[1].op = "begin" => todo[1].fn \in Fns /\ generations[todo[1].fn] \in Nat
    BY <1>1, ItemsAre DEF Stacked
  <1>5. todo[1].op = "begin" /\ t = <<todo[1].fn, generations[todo[1].fn] + 1>>
          => tasks[t].status = "none"
    <2> SUFFICES ASSUME todo[1].op = "begin", t = <<todo[1].fn, generations[todo[1].fn] + 1>>
                 PROVE  tasks[t].status = "none"
      OBVIOUS
    <2>1. t[1] = todo[1].fn /\ t[2] > generations[t[1]]
      BY <1>4
    <2>2. tasks[t] = Fresh
      BY <1>1, <2>1 DEF CallOK
    <2> QED BY <2>2 DEF Fresh
  <1>6. \A j \in ToSet(Tail(todo)) : j.task # t
    <2>1. \A j \in ToSet(Tail(todo)) : tasks[j.task].status # "none"
      BY <1>3 DEF Held, Stacked
    <2> QED BY <1>2, <1>5, <2>1 DEF Acting
  <1> QED BY <1>1, <1>2, <1>3, <1>6

LEMMA AloneKeeps ==
  ASSUME IInv, todo # <<>>, NEW t \in Calls, Alone(t), Acting(t)
  PROVE  /\ \A s \in Calls : s # t =>
              /\ CallOK(s)' /\ Unreleased(s)' = Unreleased(s)
              /\ Live(s)' /\ tasks'[s].suspended => Unreleased(s)' # {} /\ ~Dead(Unreleased(s))'
         /\ \A j \in ToSet(Tail(todo)) : Held(j)'
         /\ \A k \in DOMAIN requests' : Task(requests'[k].id) # t =>
              tasks'[Task(requests'[k].id)].status = "live" \/ Task(requests'[k].id) \in selfish'
  <1>1. /\ TypeOK /\ StackOK /\ HeadOK /\ WaitsOK /\ \A s \in Calls : CallOK(s)
        /\ generations \in [Fns -> Nat]
    BY DEF IInv, CallsOK, TypeOK
  <1>2. ToSet(todo) = {todo[1]} \cup ToSet(Tail(todo)) /\ todo[1] \in Items
    BY OthersOnly
  <1>3. \A j \in ToSet(Tail(todo)) :
          j \in Items /\ j.task \in Calls /\ Stacked(j.op) /\ Held(j) /\ j.task # t
    BY OthersOnly
  <1>4. todo[1].op = "begin" => todo[1].fn \in Fns /\ generations[todo[1].fn] \in Nat
    BY <1>1, <1>2, ItemsAre DEF Stacked
  <1>7. \A s \in Calls : s # t =>
          tasks'[s] = tasks[s] /\ Unreleased(s)' = Unreleased(s) /\ (Live(s)' <=> Live(s))
    BY DEF Alone, Unreleased, Live
  <1>8. ASSUME NEW s \in Calls, s # t PROVE CallOK(s)'
    <2>1. CallOK(s) /\ s[1] \in Fns /\ s[2] \in Nat /\ tasks'[s] = tasks[s] /\ (Live(s)' <=> Live(s))
      BY <1>1, <1>7, <1>8, CallsAre
    <2>2. generations'[s[1]] >= generations[s[1]] /\ generations[s[1]] \in Nat /\ generations'[s[1]] \in Nat
      BY <1>1, <1>4, <2>1 DEF Acting
    <2>3. Live(s) => generations'[s[1]] = generations[s[1]]
      <3> SUFFICES ASSUME Live(s) PROVE generations'[s[1]] = generations[s[1]]
        OBVIOUS
      <3>1. s = Current(s[1])
        BY <2>1 DEF CallOK
      <3>2. todo[1].op = "begin" => s[1] # todo[1].fn
        BY <1>1, <3>1 DEF HeadOK
      <3> QED BY <1>1, <1>4, <2>1, <3>2 DEF Acting
    <2>4. Running(s) => Running(s)'
      <3> SUFFICES ASSUME Running(s) PROVE Running(s)'
        OBVIOUS
      <3>1. PICK j \in ToSet(todo) : j.op \in {"segment", "register"} /\ j.task = s
        BY RunningIs
      <3>2. j # todo[1]
        BY <1>8, <3>1 DEF Acting, Stacked
      <3>3. j \in ToSet(todo')
        BY <1>2, <3>1, <3>2 DEF Alone
      <3>4. PICK n \in DOMAIN todo' : todo'[n] = j
        BY <3>3 DEF ToSet
      <3> QED BY <3>1, <3>4 DEF Running
    <2>5. (s[2] > generations'[s[1]] => tasks'[s] = Fresh)
          /\ (s \in selfish' => tasks'[s].status \in {"cancelled", "done"})
      BY <2>1, <2>2 DEF CallOK, Alone
    <2>6. Live(s)' => /\ s = Current(s[1])' /\ Home[s[1]] \in mounted'
                      /\ tasks'[s].suspended \/ Running(s)'
      BY <2>1, <2>3, <2>4 DEF CallOK, Alone, Current
    <2> QED BY <2>5, <2>6 DEF CallOK
  <1>9. ASSUME NEW s \in Calls, s # t, Live(s)', tasks'[s].suspended
        PROVE  Unreleased(s)' # {} /\ ~Dead(Unreleased(s))'
    <2>1. Live(s) /\ tasks[s].suspended /\ Unreleased(s)' = Unreleased(s)
      BY <1>7, <1>9
    <2>2. ~Doomed(s)
      BY DEF Doomed, Acting, Stacked
    <2>3. Unreleased(s) # {} /\ ~Dead(Unreleased(s))
      BY <1>1, <2>1, <2>2 DEF WaitsOK
    <2>4. \A k \in Unreleased(s) : /\ k \in DOMAIN requests /\ k \in DOMAIN requests'
                                   /\ requests'[k] = requests[k]
      BY <1>9 DEF Unreleased, Alone
    <2>5. \A k \in DOMAIN requests : requests[k].kind = "join" => requests[k].target \in Calls
      BY <1>1 DEF TypeOK, Waits
    <2>6. ~Dead(Unreleased(s))'
      BY <2>1, <2>3, <2>4, <2>5 DEF Dead, Alone
    <2> QED BY <2>1, <2>3, <2>6
  <1>10. ASSUME NEW j \in ToSet(Tail(todo)) PROVE Held(j)'
    <2>1. /\ Held(j) /\ tasks'[j.task] = tasks[j.task] /\ Unreleased(j.task)' = Unreleased(j.task)
          /\ (Live(j.task)' <=> Live(j.task)) /\ selfish' = selfish
      BY <1>3, <1>7 DEF Alone
    <2> QED BY <2>1 DEF Held
  <1>11. ASSUME NEW k \in DOMAIN requests', Task(requests'[k].id) # t
         PROVE  tasks'[Task(requests'[k].id)].status = "live" \/ Task(requests'[k].id) \in selfish'
    <2>1. k \in DOMAIN requests /\ requests'[k] = requests[k] /\ selfish' = selfish
      BY <1>11 DEF Alone
    <2>2. Task(requests[k].id) \in Calls /\ (Live(Task(requests[k].id)) \/ Task(requests[k].id) \in selfish)
      BY <1>1, <2>1 DEF TypeOK, WaitsOK
    <2>3. PICK s \in Calls : s = Task(requests[k].id)
      BY <2>2
    <2>4. Live(s)' \/ s \in selfish'
      BY <1>7, <1>11, <2>1, <2>2, <2>3
    <2> QED BY <2>1, <2>3, <2>4 DEF Live
  <1> QED BY <1>7, <1>8, <1>9, <1>10, <1>11

(* What such a step leaves to do: nothing, an item of the call, or a call   *)
(* that it starts while it registers.                                       *)
Onward(t) ==
  \/ todo' = Tail(todo)
  \/ \E x \in Items :
       /\ Held(x)' /\ (Stacked(x.op) => x.task = t) /\ x.op \notin {"begin", "restart"}
       /\ \/ todo' = <<x>> \o Tail(todo)
          \/ \E f \in Fns : /\ Stacked(x.op) /\ MayStart(f)'
                            /\ todo' = <<[op |-> "restart", fn |-> f]>> \o (<<x>> \o Tail(todo))

LEMMA OnwardStack ==
  ASSUME IInv, todo # <<>>, NEW t \in Calls, Acting(t), Onward(t)
  PROVE  /\ Ordered(todo') /\ ToSet(Tail(todo)) \subseteq ToSet(todo')
         /\ \A j \in ToSet(todo') : j \in ToSet(Tail(todo)) \/ Held(j)'
         /\ todo' # <<>> => /\ todo'[1].op # "begin"
                            /\ todo'[1].op = "restart" => \E f \in Fns : f = todo'[1].fn /\ MayStart(f)'
  <1>1. /\ Tail(todo) \in Seq(Items) /\ Ordered(Tail(todo))
        /\ \A j \in ToSet(Tail(todo)) : Stacked(j.op) /\ j.task # t
    BY OthersOnly
  <1>2. CASE todo' = Tail(todo)
    <2>1. todo' # <<>> => todo'[1] \in ToSet(todo')
      <3>1. todo' \in Seq(Items)
        BY <1>1, <1>2
      <3>2. todo' # <<>> => 1 \in DOMAIN todo'
        BY <3>1
      <3> QED BY <3>2 DEF ToSet
    <2> QED BY <1>1, <1>2, <2>1 DEF Stacked
  <1>3. ASSUME NEW x \in Items, Held(x)', Stacked(x.op) => x.task = t, x.op \notin {"begin", "restart"}
        PROVE  LET p == <<x>> \o Tail(todo) IN
               /\ p \in Seq(Items) /\ Ordered(p) /\ ToSet(p) = {x} \cup ToSet(Tail(todo))
               /\ p # <<>> /\ p[1] = x
    <2>1. Stacked(x.op) => \A j \in ToSet(Tail(todo)) : j.task # x.task
      BY <1>1, <1>3
    <2> QED BY <1>1, <2>1, Stacking
  <1>4. CASE \E x \in Items :
               /\ Held(x)' /\ (Stacked(x.op) => x.task = t) /\ x.op \notin {"begin", "restart"}
               /\ todo' = <<x>> \o Tail(todo)
    BY <1>3, <1>4
  <1>5. CASE \E x \in Items, f \in Fns :
               /\ Held(x)' /\ (Stacked(x.op) => x.task = t) /\ x.op \notin {"begin", "restart"}
               /\ Stacked(x.op) /\ MayStart(f)'
               /\ todo' = <<[op |-> "restart", fn |-> f]>> \o (<<x>> \o Tail(todo))
    <2>1. PICK x \in Items, f \in Fns :
               /\ Held(x)' /\ (Stacked(x.op) => x.task = t) /\ x.op \notin {"begin", "restart"}
               /\ Stacked(x.op) /\ MayStart(f)'
               /\ todo' = <<[op |-> "restart", fn |-> f]>> \o (<<x>> \o Tail(todo))
      BY <1>5
    <2>2. PICK p : p = <<x>> \o Tail(todo)
      OBVIOUS
    <2>3. p \in Seq(Items) /\ Ordered(p) /\ ToSet(p) = {x} \cup ToSet(Tail(todo))
      BY <1>3, <2>1, <2>2
    <2>4. PICK r \in Items : r = [op |-> "restart", fn |-> f]
      BY MadeItems
    <2>5. r.op = "restart" /\ r.fn = f /\ ~Stacked(r.op)
      BY <2>4 DEF Stacked
    <2>6. /\ Ordered(<<r>> \o p) /\ ToSet(<<r>> \o p) = {r} \cup ToSet(p)
          /\ (<<r>> \o p)[1] = r
      BY <1>1, <2>1, <2>3, <2>5, Stacking
    <2>7. todo' = <<r>> \o p
      BY <2>1, <2>2, <2>4
    <2>8. Held(r)'
      BY <2>5 DEF Held
    <2> QED BY <2>1, <2>3, <2>5, <2>6, <2>7, <2>8
  <1> QED BY <1>2, <1>4, <1>5 DEF Onward

(* It then suffices that the call itself is right.                          *)
LEMMA OwnKeeps ==
  ASSUME IInv, TypeOK', todo # <<>>, NEW t \in Calls, Acting(t), Onward(t),
         ToSet(Tail(todo)) \subseteq ToSet(todo') => Alone(t), phase' = phase, CallOK(t)',
         Live(t)' /\ tasks'[t].suspended => Unreleased(t)' # {} /\ (Dead(Unreleased(t))' => Doomed(t)'),
         Unreleased(t)' # {} => Live(t)' \/ t \in selfish'
  PROVE  CallsOK'
  <1>1. /\ Ordered(todo') /\ ToSet(Tail(todo)) \subseteq ToSet(todo')
        /\ \A j \in ToSet(todo') : j \in ToSet(Tail(todo)) \/ Held(j)'
        /\ todo' # <<>> => /\ todo'[1].op # "begin"
                           /\ todo'[1].op = "restart" => \E f \in Fns : f = todo'[1].fn /\ MayStart(f)'
    BY OnwardStack
  <1>2. /\ \A s \in Calls : s # t =>
             /\ CallOK(s)'
             /\ Live(s)' /\ tasks'[s].suspended => Unreleased(s)' # {} /\ ~Dead(Unreleased(s))'
        /\ \A j \in ToSet(Tail(todo)) : Held(j)'
        /\ \A k \in DOMAIN requests' : Task(requests'[k].id) # t =>
             tasks'[Task(requests'[k].id)].status = "live" \/ Task(requests'[k].id) \in selfish'
    BY <1>1, AloneKeeps
  <1>3. phase = "handlers"
    BY DEF IInv, CallsOK, StackOK
  <1>4. StackOK'
    BY <1>1, <1>2, <1>3 DEF StackOK
  <1>5. HeadOK'
    BY <1>1 DEF HeadOK
  <1>6. \A k \in DOMAIN requests' : \/ tasks'[Task(requests'[k].id)].status = "live"
                                    \/ Task(requests'[k].id) \in selfish'
    BY <1>2 DEF Unreleased, Live
  <1>7. WaitsOK'
    BY <1>2, <1>6 DEF WaitsOK, Live
  <1> QED BY <1>2, <1>4, <1>5, <1>7 DEF CallsOK

LEMMA NowRuns ==
  ASSUME NEW s \in Seq(Items), NEW x \in Items, x.op \in {"segment", "register"},
         todo' = <<x>> \o s \/ \E r \in Items : todo' = <<r>> \o (<<x>> \o s)
  PROVE  Running(x.task)'
  <1>1. CASE todo' = <<x>> \o s
    <2>1. 1 \in DOMAIN todo' /\ todo'[1] = x
      BY <1>1
    <2> QED BY <2>1 DEF Running
  <1>2. CASE \E r \in Items : todo' = <<r>> \o (<<x>> \o s)
    <2>1. PICK r \in Items : todo' = <<r>> \o (<<x>> \o s)
      BY <1>2
    <2>2. PICK p \in Seq(Items) : p = <<x>> \o s /\ p[1] = x /\ DOMAIN p = 1 .. Len(s) + 1 /\ Len(s) \in Nat
      BY Pushed
    <2>3. todo' = <<r>> \o p /\ 1 \in DOMAIN p
      BY <2>1, <2>2
    <2>4. 2 \in DOMAIN todo' /\ todo'[2] = x
      BY <2>2, <2>3
    <2> QED BY <2>4 DEF Running
  <1> QED BY <1>1, <1>2

(* The steps of calls, one by one. *)
LEMMA BeginKeeps ==
  ASSUME IInv, TypeOK', todo # <<>>, NEW i \in Items, i = todo[1], Begin(i)
  PROVE  CallsOK'
  <1>1. /\ i.op = "begin" /\ i.fn \in Fns /\ MayStart(i.fn) /\ generations[i.fn] \in Nat
        /\ MaxCalls[i.fn] \in Nat /\ generations[i.fn] < MaxCalls[i.fn] /\ generations \in [Fns -> Nat]
    BY ItemsAre, TasksAssumption DEF IInv, CallsOK, TypeOK, HeadOK, Begin, Stacked, MayStart
  <1>2. PICK t : t = <<i.fn, generations[i.fn] + 1>>
    OBVIOUS
  <1>3. t \in Calls /\ t[1] = i.fn /\ t[2] = generations[i.fn] + 1
    BY <1>1, <1>2, CallsAre
  <1>4. tasks[t] = Fresh /\ t \notin selfish /\ tasks \in [Calls -> Records]
    <2>1. CallOK(t) /\ tasks \in [Calls -> Records]
      BY <1>3 DEF IInv, CallsOK, TypeOK
    <2>2. t[2] > generations[t[1]]
      BY <1>1, <1>3
    <2>3. tasks[t] = Fresh
      BY <2>1, <2>2 DEF CallOK
    <2> QED BY <2>1, <2>3 DEF CallOK, Fresh
  <1>5. /\ tasks' = [tasks EXCEPT ![t].status = "live"]
        /\ todo' = <<[op |-> "segment", task |-> t]>> \o Tail(todo)
        /\ generations' = [generations EXCEPT ![i.fn] = @ + 1]
        /\ UNCHANGED <<mounted, requests, phase, selfish>>
    BY <1>2 DEF Begin, world
  <1>6. tasks'[t].status = "live" /\ ~tasks'[t].suspended /\ \A s \in Calls : s # t => tasks'[s] = tasks[s]
    BY <1>3, <1>4, <1>5 DEF Fresh
  <1>7. Unreleased(t) = {} /\ Unreleased(t)' = {}
    <2>1. Unreleased(t) = {}
      BY <1>4 DEF IInv, CallsOK, WaitsOK, Unreleased, Live, Fresh
    <2> QED BY <1>5, <2>1 DEF Unreleased
  <1>8. Acting(t)
    BY <1>1, <1>2, <1>5 DEF Acting
  <1>9. PICK x \in Items : x = [op |-> "segment", task |-> t]
    BY <1>3, MadeItems
  <1>10. x.op = "segment" /\ x.task = t /\ todo' = <<x>> \o Tail(todo) /\ Held(x)'
    BY <1>5, <1>6, <1>7, <1>9 DEF Held, Live
  <1>11. Onward(t)
    BY <1>10 DEF Onward
  <1>12. ToSet(Tail(todo)) \subseteq ToSet(todo') => Alone(t)
    BY <1>5, <1>6 DEF Alone
  <1>13. Running(t)'
    BY <1>8, <1>10, <1>3, OthersOnly, NowRuns
  <1>14. CallOK(t)'
    <2>1. t = Current(t[1])' /\ Home[t[1]] \in mounted' /\ ~(t[2] > generations'[t[1]])
      BY <1>1, <1>2, <1>3, <1>5 DEF Current, MayStart
    <2> QED BY <1>4, <1>5, <1>6, <1>13, <2>1 DEF CallOK, Live
  <1> QED BY <1>3, <1>5, <1>6, <1>7, <1>8, <1>11, <1>12, <1>14, OwnKeeps

(* What is known of the call of a first item that runs.                     *)
LEMMA RunsNow ==
  ASSUME IInv, todo # <<>>, NEW i \in Items, i = todo[1], i.op \in {"segment", "register", "run"},
         UNCHANGED generations
  PROVE  /\ i.task \in Calls /\ tasks[i.task] \in Records /\ tasks \in [Calls -> Records]
         /\ Held(i) /\ CallOK(i.task) /\ Acting(i.task) /\ Stacked(i.op)
         /\ Unreleased(i.task) # {} => Live(i.task) \/ i.task \in selfish
         /\ Live(i.task) /\ tasks[i.task].suspended =>
              Unreleased(i.task) # {} /\ ~Dead(Unreleased(i.task))
  <1>1. i.task \in Calls /\ Stacked(i.op)
    BY ItemsAre DEF Stacked
  <1>2. tasks \in [Calls -> Records] /\ tasks[i.task] \in Records /\ CallOK(i.task)
    BY <1>1 DEF IInv, TypeOK, CallsOK
  <1>3. Held(i)
    <2>1. todo \in Seq(Items)
      BY DEF IInv, TypeOK
    <2>2. 1 \in DOMAIN todo
      BY <2>1, Popped
    <2>3. i \in ToSet(todo)
      BY <2>2 DEF ToSet
    <2> QED BY <2>3 DEF IInv, CallsOK, StackOK
  <1>4. Acting(i.task) /\ ~Doomed(i.task)
    BY <1>1 DEF Acting, Doomed, Stacked
  <1>5. Unreleased(i.task) # {} => Live(i.task) \/ i.task \in selfish
    BY DEF IInv, CallsOK, WaitsOK, Unreleased
  <1> QED BY <1>1, <1>2, <1>3, <1>4, <1>5 DEF IInv, CallsOK, WaitsOK

LEMMA LeaveKeeps ==
  ASSUME IInv, TypeOK', todo # <<>>, NEW i \in Items, i = todo[1], Leave(i)
  PROVE  CallsOK'
  <1>1. /\ i.op = "segment" /\ ~Live(i.task) /\ todo' = Tail(todo)
        /\ UNCHANGED <<tasks, requests, mounted, selfish, phase, generations>>
    BY DEF Leave, model, world
  <1>2. /\ i.task \in Calls /\ CallOK(i.task) /\ Acting(i.task) /\ Held(i)
        /\ Unreleased(i.task) # {} => Live(i.task) \/ i.task \in selfish
    BY <1>1, RunsNow
  <1>3. PICK t \in Calls : t = i.task
    BY <1>2
  <1>4. Unreleased(t)' = Unreleased(t) /\ (Live(t)' <=> Live(t))
    BY <1>1 DEF Unreleased, Live
  <1>5. CallOK(t)'
    BY <1>1, <1>2, <1>3, <1>4 DEF CallOK
  <1>6. Onward(t) /\ (ToSet(Tail(todo)) \subseteq ToSet(todo') => Alone(t))
    BY <1>1 DEF Onward, Alone
  <1> QED BY <1>1, <1>2, <1>3, <1>4, <1>5, <1>6, OwnKeeps

LEMMA CompleteKeeps ==
  ASSUME IInv, TypeOK', todo # <<>>, NEW i \in Items, i = todo[1], Complete(i)
  PROVE  CallsOK'
  <1>1. /\ i.op = "segment" /\ todo' = Tail(todo)
        /\ tasks' = [tasks EXCEPT ![i.task] = [Fresh EXCEPT !.status = "done"]]
        /\ UNCHANGED <<requests, mounted, selfish, phase, generations>>
    BY DEF Complete, world
  <1>2. /\ i.task \in Calls /\ CallOK(i.task) /\ Acting(i.task) /\ Held(i) /\ tasks \in [Calls -> Records]
    BY <1>1, RunsNow
  <1>3. PICK t \in Calls : t = i.task
    BY <1>2
  <1>4. tasks'[t].status = "done" /\ \A s \in Calls : s # t => tasks'[s] = tasks[s]
    BY <1>1, <1>2, <1>3
  <1>5. Unreleased(t)' = {} /\ ~Live(t)'
    BY <1>1, <1>2, <1>3, <1>4 DEF Unreleased, Live, Held
  <1>6. tasks[t].status \in {"live", "cancelled"}
    BY <1>1, <1>2, <1>3 DEF Held
  <1>7. CallOK(t)'
    BY <1>1, <1>2, <1>3, <1>4, <1>5, <1>6 DEF CallOK, Fresh
  <1>8. Onward(t) /\ (ToSet(Tail(todo)) \subseteq ToSet(todo') => Alone(t))
    BY <1>1, <1>4 DEF Onward, Alone
  <1> QED BY <1>1, <1>2, <1>3, <1>5, <1>7, <1>8, OwnKeeps

LEMMA SuspendKeeps ==
  ASSUME IInv, TypeOK', todo # <<>>, NEW i \in Items, i = todo[1], Suspend(i)
  PROVE  CallsOK'
  <1>1. i.op = "segment" /\ UNCHANGED <<requests, mounted, selfish, phase, generations>>
    BY DEF Suspend, world
  <1>2. /\ i.task \in Calls /\ CallOK(i.task) /\ Acting(i.task) /\ Held(i)
        /\ tasks \in [Calls -> Records] /\ tasks[i.task] \in Records
    BY <1>1, RunsNow
  <1>3. PICK t \in Calls : t = i.task
    BY <1>2
  <1>4. PICK plan \in Plans[t[1]] :
          /\ tasks' = [tasks EXCEPT ![t] =
                         [tasks[t] EXCEPT !.wait = tasks[t].wait + 1, !.any = plan.any]]
          /\ todo' = <<[op |-> "register", task |-> t, n |-> 1, members |-> plan.members]>> \o Tail(todo)
    BY <1>3 DEF Suspend
  <1>5. plan.members \in Seq(Members) /\ plan.members # <<>>
    BY <1>3, <1>4, CallsAre, TasksAssumption
  <1>6. PICK x \in Items : x = [op |-> "register", task |-> t, n |-> 1, members |-> plan.members]
    BY <1>5, MadeItems
  <1>7. /\ tasks'[t].status = tasks[t].status /\ tasks'[t].suspended = tasks[t].suspended
        /\ \A s \in Calls : s # t => tasks'[s] = tasks[s]
    BY <1>2, <1>3, <1>4 DEF Records
  <1>8. Unreleased(t)' = {} /\ (Live(t)' <=> Live(t))
    BY <1>1, <1>2, <1>3, <1>7 DEF Unreleased, Live, Held
  <1>9. Held(x)' /\ x.op = "register" /\ x.task = t /\ todo' = <<x>> \o Tail(todo)
    BY <1>1, <1>2, <1>3, <1>4, <1>6, <1>7, <1>8 DEF Held
  <1>10. Running(t)' /\ Onward(t)
    <2>1. Tail(todo) \in Seq(Items)
      BY <1>2, OthersOnly
    <2> QED BY <1>9, <2>1, NowRuns DEF Onward
  <1>11. tasks[t].status \in {"live", "cancelled"} /\ ~tasks[t].suspended
    BY <1>1, <1>2, <1>3 DEF Held
  <1>12. CallOK(t)'
    BY <1>1, <1>2, <1>3, <1>7, <1>8, <1>10, <1>11 DEF CallOK, Fresh, Current
  <1>13. ToSet(Tail(todo)) \subseteq ToSet(todo') => Alone(t)
    BY <1>1, <1>7 DEF Alone
  <1> QED BY <1>1, <1>2, <1>3, <1>7, <1>8, <1>10, <1>11, <1>12, <1>13, OwnKeeps

LEMMA RegisterKeeps ==
  ASSUME IInv, TypeOK', todo # <<>>, NEW i \in Items, i = todo[1], Register(i)
  PROVE  CallsOK'
  <1>1. i.op = "register" /\ UNCHANGED <<tasks, mounted, selfish, phase, generations>>
    BY DEF Register, world
  <1>2. /\ i.task \in Calls /\ CallOK(i.task) /\ Acting(i.task) /\ Held(i)
        /\ Tail(todo) \in Seq(Items)
    BY <1>1, RunsNow, OthersOnly
  <1>3. PICK t \in Calls : t = i.task
    BY <1>2
  <1>4. PICK w \in Waits : Registered(w) /\ Registers(i, w)
    BY RegisterDoes DEF IInv
  <1>5. Task(w.id) = t /\ w.id \in Ids
    BY <1>1, <1>3, <1>4, MemberWaits DEF Registers, IInv
  <1>6. /\ DOMAIN requests' = DOMAIN requests \cup {Key(w.id)} /\ requests'[Key(w.id)] = w
        /\ \A k \in DOMAIN requests : k # Key(w.id) => requests'[k] = requests[k]
    BY <1>4, <1>5, RegisteredDo DEF IInv
  <1>7. \A k \in DOMAIN requests : k = Key(w.id) => Task(requests[k].id) = t
    <2>1. \A k \in DOMAIN requests : requests[k].id \in Ids /\ Key(requests[k].id) = k
      BY DEF IInv, TypeOK, Waits
    <2> QED BY <1>5, <2>1, KeysDiffer
  <1>8. Unreleased(t)' # {}
    BY <1>5, <1>6 DEF Unreleased
  <1>9. PICK x \in Items : x = [i EXCEPT !.n = @ + 1] /\ x.op = "register" /\ x.task = t /\ x.n = i.n + 1
    BY <1>1, <1>3, NextMember
  <1>10. Held(x)'
    BY <1>1, <1>2, <1>3, <1>8, <1>9 DEF Held, Live
  <1>11. More(i) = <<x>> \o Tail(todo)
    BY <1>9 DEF More
  <1>12. \/ todo' = <<x>> \o Tail(todo)
         \/ \E f \in Fns : /\ Stacked(x.op) /\ MayStart(f)'
                           /\ todo' = <<[op |-> "restart", fn |-> f]>> \o (<<x>> \o Tail(todo))
    BY <1>1, <1>4, <1>9, <1>11 DEF Registers, Stacked, MayStart
  <1>13. Onward(t)
    BY <1>9, <1>10, <1>12 DEF Onward
  <1>14. Running(t)'
    <2>1. todo' = <<x>> \o Tail(todo) \/ \E r \in Items : todo' = <<r>> \o (<<x>> \o Tail(todo))
      BY <1>12, MadeItems
    <2> QED BY <1>2, <1>9, <2>1, NowRuns
  <1>15. CallOK(t)'
    BY <1>1, <1>2, <1>3, <1>14 DEF CallOK, Live, Current
  <1>16. ToSet(Tail(todo)) \subseteq ToSet(todo') => Alone(t)
    BY <1>1, <1>5, <1>6, <1>7 DEF Alone
  <1>17. (Live(t)' \/ t \in selfish') /\ ~tasks'[t].suspended
    BY <1>1, <1>2, <1>3 DEF Held, Live
  <1> QED BY <1>1, <1>2, <1>3, <1>13, <1>15, <1>16, <1>17, OwnKeeps

LEMMA RegistrationKeeps ==
  ASSUME IInv, TypeOK', todo # <<>>, NEW i \in Items, i = todo[1], Registration(i)
  PROVE  CallsOK'
  <1>1. /\ i.op = "register" /\ i.n > Len(i.members)
        /\ tasks' = [tasks EXCEPT ![i.task].suspended = TRUE]
        /\ todo' = (IF Dead(Unreleased(i.task)) THEN <<[op |-> "cancel", fn |-> i.task[1]]>> ELSE <<>>)
                     \o Tail(todo)
        /\ UNCHANGED <<requests, mounted, selfish, phase, generations>>
    BY DEF Registration, world
  <1>2. /\ i.task \in Calls /\ CallOK(i.task) /\ Acting(i.task) /\ Held(i)
        /\ tasks \in [Calls -> Records] /\ tasks[i.task] \in Records /\ Tail(todo) \in Seq(Items)
    BY <1>1, RunsNow, OthersOnly
  <1>3. PICK t \in Calls : t = i.task
    BY <1>2
  <1>4. i.n > 1
    <2>1. i.n \in Nat /\ i.members \in Seq(Members) /\ i.members # <<>>
      BY <1>1, ItemsAre
    <2>2. Len(i.members) \in Nat /\ Len(i.members) # 0
      BY <2>1
    <2> QED BY <1>1, <2>1, <2>2
  <1>5. /\ tasks'[t].status = tasks[t].status /\ tasks'[t].suspended
        /\ \A s \in Calls : s # t => tasks'[s] = tasks[s]
    BY <1>1, <1>2, <1>3 DEF Records
  <1>6. Unreleased(t)' = Unreleased(t) /\ Unreleased(t) # {} /\ (Live(t)' <=> Live(t))
    BY <1>1, <1>2, <1>3, <1>4, <1>5 DEF Unreleased, Live, Held
  <1>7. CallOK(t)'
    <2>1. tasks[t].status \in {"live", "cancelled"}
      BY <1>1, <1>2, <1>3 DEF Held
    <2> QED BY <1>1, <1>2, <1>3, <1>5, <1>6, <2>1 DEF CallOK, Fresh, Current
  <1>8. ToSet(Tail(todo)) \subseteq ToSet(todo') => Alone(t)
    BY <1>1, <1>5 DEF Alone
  <1>9. Live(t)' \/ t \in selfish'
    BY <1>1, <1>2, <1>3, <1>6 DEF Held
  <1>10. CASE Dead(Unreleased(t))
    <2>1. PICK x \in Items : x = [op |-> "cancel", fn |-> t[1]]
      BY CallsAre, MadeItems
    <2>2. x.op = "cancel" /\ x.fn = t[1] /\ todo' = <<x>> \o Tail(todo)
      BY <1>1, <1>3, <1>10, <2>1
    <2>3. Held(x)' /\ ~Stacked(x.op)
      BY <2>2 DEF Held, Stacked
    <2>4. Onward(t)
      BY <2>2, <2>3 DEF Onward
    <2>5. Doomed(t)'
      <3>1. todo' # <<>> /\ todo'[1] = x
        BY <1>2, <2>2, Pushed
      <3> QED BY <2>2, <3>1 DEF Doomed
    <2> QED BY <1>1, <1>2, <1>3, <1>6, <1>7, <1>8, <1>9, <2>4, <2>5, OwnKeeps
  <1>11. CASE ~Dead(Unreleased(t))
    <2>1. todo' = Tail(todo)
      BY <1>1, <1>2, <1>3, <1>11
    <2>2. ~Dead(Unreleased(t))'
      <3>1. \A k \in DOMAIN requests : requests[k].kind = "join" => requests[k].target \in Calls
        BY DEF IInv, TypeOK, Waits
      <3>2. \A s \in Calls : tasks'[s].status = tasks[s].status
        BY <1>5
      <3>3. \A k \in Unreleased(t) : k \in DOMAIN requests
        BY DEF Unreleased
      <3> QED BY <1>1, <1>6, <1>11, <3>1, <3>2, <3>3 DEF Dead
    <2>3. Onward(t)
      BY <2>1 DEF Onward
    <2> QED BY <1>1, <1>2, <1>3, <1>6, <1>7, <1>8, <1>9, <2>2, <2>3, OwnKeeps
  <1> QED BY <1>10, <1>11

LEMMA ResumeKeeps ==
  ASSUME IInv, TypeOK', todo # <<>>, NEW i \in Items, i = todo[1], Resume(i)
  PROVE  CallsOK'
  <1>1. /\ i.op = "run" /\ Live(i.task) /\ tasks' = [tasks EXCEPT ![i.task].suspended = FALSE]
        /\ todo' = <<[op |-> "segment", task |-> i.task]>> \o Tail(todo)
        /\ UNCHANGED <<mounted, selfish, phase, generations>> /\ Drops(Pending(i.task))
    BY DEF Resume, world, Drops
  <1>2. /\ i.task \in Calls /\ CallOK(i.task) /\ Acting(i.task) /\ Held(i)
        /\ tasks \in [Calls -> Records] /\ tasks[i.task] \in Records /\ Tail(todo) \in Seq(Items)
    BY <1>1, RunsNow, OthersOnly
  <1>3. PICK t \in Calls : t = i.task
    BY <1>2
  <1>4. tasks[t].suspended /\ Pending(t) = Unreleased(t)
    BY <1>1, <1>2, <1>3 DEF Held, Pending
  <1>5. /\ tasks'[t].status = tasks[t].status /\ ~tasks'[t].suspended
        /\ \A s \in Calls : s # t => tasks'[s] = tasks[s]
    BY <1>1, <1>2, <1>3 DEF Records
  <1>6. /\ DOMAIN requests' = DOMAIN requests \ Unreleased(t)
        /\ \A k \in DOMAIN requests' : requests'[k] = requests[k]
    <2>1. Pending(t) \in SUBSET DOMAIN requests
      BY DEF Pending, Unreleased
    <2> QED BY <1>1, <1>3, <1>4, <2>1, DropsDo DEF IInv
  <1>7. Unreleased(t)' = {} /\ (Live(t)' <=> Live(t))
    BY <1>5, <1>6 DEF Unreleased, Live
  <1>8. PICK x \in Items : x = [op |-> "segment", task |-> t]
    BY MadeItems
  <1>9. x.op = "segment" /\ x.task = t /\ todo' = <<x>> \o Tail(todo) /\ Held(x)'
    BY <1>1, <1>3, <1>5, <1>7, <1>8 DEF Held, Live
  <1>10. Running(t)' /\ Onward(t)
    BY <1>2, <1>9, NowRuns DEF Onward
  <1>11. CallOK(t)'
    BY <1>1, <1>2, <1>3, <1>5, <1>7, <1>10 DEF CallOK, Fresh, Current, Live
  <1>12. ToSet(Tail(todo)) \subseteq ToSet(todo') => Alone(t)
    BY <1>1, <1>5, <1>6 DEF Alone, Unreleased
  <1> QED BY <1>1, <1>2, <1>3, <1>5, <1>7, <1>10, <1>11, <1>12, OwnKeeps

LEMMA NoResumeKeeps ==
  ASSUME IInv, TypeOK', todo # <<>>, NEW i \in Items, i = todo[1], NoResume(i)
  PROVE  CallsOK'
  <1>1. /\ i.op = "run"
        /\ todo' = (IF Live(i.task) THEN <<[op |-> "cancel", fn |-> i.task[1]]>> ELSE <<>>) \o Tail(todo)
        /\ UNCHANGED <<tasks, requests, mounted, selfish, phase, generations>>
    BY DEF NoResume, model, world
  <1>2. /\ i.task \in Calls /\ CallOK(i.task) /\ Acting(i.task) /\ Held(i)
        /\ Unreleased(i.task) # {} => Live(i.task) \/ i.task \in selfish
        /\ Live(i.task) /\ tasks[i.task].suspended =>
              Unreleased(i.task) # {} /\ ~Dead(Unreleased(i.task))
        /\ Tail(todo) \in Seq(Items)
    BY <1>1, RunsNow, OthersOnly
  <1>3. PICK t \in Calls : t = i.task
    BY <1>2
  <1>4. Unreleased(t)' = Unreleased(t) /\ (Live(t)' <=> Live(t)) /\ (Dead(Unreleased(t))' <=> Dead(Unreleased(t)))
    BY <1>1 DEF Unreleased, Live, Dead
  <1>5. CallOK(t)'
    BY <1>1, <1>2, <1>3, <1>4 DEF CallOK, Fresh, Current, Held
  <1>6. ToSet(Tail(todo)) \subseteq ToSet(todo') => Alone(t)
    BY <1>1 DEF Alone
  <1>7. Onward(t)
    <2>1. CASE Live(t)
      <3>1. PICK x \in Items : x = [op |-> "cancel", fn |-> t[1]]
        BY CallsAre, MadeItems
      <3>2. x.op = "cancel" /\ todo' = <<x>> \o Tail(todo)
        BY <1>1, <1>3, <2>1, <3>1
      <3> QED BY <3>2 DEF Onward, Held, Stacked
    <2>2. CASE ~Live(t)
      BY <1>1, <1>2, <1>3, <2>2 DEF Onward
    <2> QED BY <2>1, <2>2
  <1> QED BY <1>1, <1>2, <1>3, <1>4, <1>5, <1>6, <1>7, OwnKeeps

-----------------------------------------------------------------------------
(* A step that cancels S, and what it goes on with.                        *)

Turned(S) ==
  \/ todo' = todo /\ (todo = <<>> \/ Stacked(todo[1].op))
  \/ \E f \in Fns :
       /\ MayStart(f)' /\ Current(f) \in S
       /\ \/ (todo = <<>> \/ Stacked(todo[1].op)) /\ todo' = <<[op |-> "begin", fn |-> f]>> \o todo
          \/ /\ todo # <<>> /\ todo[1].op = "restart"
             /\ todo' = <<[op |-> "begin", fn |-> f]>> \o Tail(todo)
  \/ todo # <<>> /\ todo[1].op = "cancel" /\ Current(todo[1].fn) \in S /\ todo' = Tail(todo)

(* The items that run or resume a call stay, and a beginning is first.      *)
LEMMA TurnedStack ==
  ASSUME IInv, NEW S, Turned(S), UNCHANGED generations
  PROVE  /\ Ordered(todo') /\ \A j \in ToSet(todo) : Stacked(j.op) => j \in ToSet(todo')
         /\ \A j \in ToSet(todo') : j \in ToSet(todo) \/ j.op = "begin"
         /\ todo' # <<>> => /\ todo'[1].op # "restart"
                            /\ todo'[1].op = "begin" =>
                                 \E f \in Fns : /\ f = todo'[1].fn /\ MayStart(f)' /\ Current(f) \in S
                                                /\ Current(f)' = Current(f)
  <1>1. todo \in Seq(Items) /\ Ordered(todo)
    BY DEF IInv, TypeOK, CallsOK, StackOK
  <1>2. todo # <<>> =>
          /\ 1 \in DOMAIN todo /\ todo[1] \in Items /\ Tail(todo) \in Seq(Items) /\ Ordered(Tail(todo))
          /\ ToSet(todo) = {todo[1]} \cup ToSet(Tail(todo))
          /\ \A j \in ToSet(Tail(todo)) : Stacked(j.op)
    BY <1>1, Popped, Unstacked
  <1>3. ASSUME NEW f \in Fns, NEW s \in {todo, Tail(todo)}, s = todo \/ todo # <<>>,
               \A j \in ToSet(s) : Stacked(j.op), todo' = <<[op |-> "begin", fn |-> f]>> \o s
        PROVE  Ordered(todo') /\ todo'[1].op = "begin" /\ todo'[1].fn = f
               /\ \A j : j \in ToSet(todo') <=> j \in ToSet(s) \/ j = [op |-> "begin", fn |-> f]
    <2>1. PICK x \in Items : x = [op |-> "begin", fn |-> f]
      BY MadeItems
    <2>2. s \in Seq(Items) /\ Ordered(s)
      BY <1>1, <1>2, <1>3
    <2>3. ~Stacked(x.op) /\ x.op = "begin" /\ x.fn = f
      BY <2>1 DEF Stacked
    <2>4. Ordered(<<x>> \o s) /\ ToSet(<<x>> \o s) = {x} \cup ToSet(s) /\ (<<x>> \o s)[1] = x
      BY <1>3, <2>2, <2>3, Stacking
    <2> QED BY <1>3, <2>1, <2>3, <2>4
  <1>4. CASE todo' = todo /\ (todo = <<>> \/ Stacked(todo[1].op))
    BY <1>1, <1>4 DEF Stacked
  <1>5. todo = <<>> \/ Stacked(todo[1].op) => \A j \in ToSet(todo) : Stacked(j.op)
    <2>1. todo = <<>> => ToSet(todo) = {}
      BY DEF ToSet
    <2> QED BY <1>2, <2>1
  <1>6. CASE \E f \in Fns :
               /\ MayStart(f)' /\ Current(f) \in S
               /\ (todo = <<>> \/ Stacked(todo[1].op)) /\ todo' = <<[op |-> "begin", fn |-> f]>> \o todo
    <2>1. PICK f \in Fns :
               /\ MayStart(f)' /\ Current(f) \in S
               /\ (todo = <<>> \/ Stacked(todo[1].op)) /\ todo' = <<[op |-> "begin", fn |-> f]>> \o todo
      BY <1>6
    <2>2. /\ Ordered(todo') /\ todo'[1].op = "begin" /\ todo'[1].fn = f
          /\ \A j : j \in ToSet(todo') <=> j \in ToSet(todo) \/ j = [op |-> "begin", fn |-> f]
      BY <1>3, <1>5, <2>1
    <2>3. Current(f)' = Current(f)
      BY DEF Current
    <2> QED BY <2>1, <2>2, <2>3
  <1>7. CASE \E f \in Fns :
               /\ MayStart(f)' /\ Current(f) \in S /\ todo # <<>> /\ todo[1].op = "restart"
               /\ todo' = <<[op |-> "begin", fn |-> f]>> \o Tail(todo)
    <2>1. PICK f \in Fns :
               /\ MayStart(f)' /\ Current(f) \in S /\ todo # <<>> /\ todo[1].op = "restart"
               /\ todo' = <<[op |-> "begin", fn |-> f]>> \o Tail(todo)
      BY <1>7
    <2>2. /\ Ordered(todo') /\ todo'[1].op = "begin" /\ todo'[1].fn = f
          /\ \A j : j \in ToSet(todo') <=> j \in ToSet(Tail(todo)) \/ j = [op |-> "begin", fn |-> f]
      BY <1>2, <1>3, <2>1
    <2>3. Current(f)' = Current(f)
      BY DEF Current
    <2> QED BY <1>2, <2>1, <2>2, <2>3 DEF Stacked
  <1>8. CASE todo # <<>> /\ todo[1].op = "cancel" /\ todo' = Tail(todo)
    <2>1. todo' # <<>> => 1 \in DOMAIN todo'
      BY <1>2, <1>8
    <2>2. todo' # <<>> => Stacked(todo'[1].op)
      BY <1>2, <1>8, <2>1 DEF ToSet
    <2> QED BY <1>2, <1>8, <2>2 DEF Stacked
  <1> QED BY <1>4, <1>6, <1>7, <1>8 DEF Turned

LEMMA CancelKeeps ==
  ASSUME IInv, TypeOK', NEW S, CancelAll(S), Turned(S), UNCHANGED generations,
         mounted' \subseteq mounted, phase = "handlers", phase' = phase,
         \A t \in Calls : Live(t) /\ Home[t[1]] \notin mounted' => t \in S
  PROVE  CallsOK'
  <1> DEFINE C == Cancelled(S)
  <1>1. /\ TypeOK /\ StackOK /\ HeadOK /\ WaitsOK /\ (\A t \in Calls : CallOK(t))
        /\ todo \in Seq(Items) /\ tasks \in [Calls -> Records]
    BY DEF IInv, CallsOK, TypeOK
  <1>2. /\ C \subseteq {t \in Calls : Live(t)} /\ (\A t \in S \cap Calls : Live(t) => t \in C)
        /\ Joiners(C) \subseteq C
    BY CancelledAre
  <1>3. /\ \A t \in Calls \ C : tasks'[t] = tasks[t]
        /\ \A t \in C : tasks'[t].status = "cancelled" /\ ~tasks'[t].suspended
        /\ selfish' = selfish \cup {t \in C : Running(t)}
        /\ Lost(S) \in SUBSET DOMAIN requests /\ Drops(Lost(S))
    BY <1>1, CancelAllDoes
  <1>4. /\ DOMAIN requests' = DOMAIN requests \ Lost(S)
        /\ \A k \in DOMAIN requests' : requests'[k] = requests[k]
    BY <1>1, <1>3, DropsDo
  <1>5. \A k \in DOMAIN requests :
          k \in Lost(S) <=> Task(requests[k].id) \in C /\ tasks[Task(requests[k].id)].suspended
    BY DEF Lost, Pending, Unreleased
  <1> HIDE DEF C
  <1>6. \A t \in Calls : Live(t)' <=> Live(t) /\ t \notin C
    BY <1>2, <1>3 DEF Live
  <1>7. \A t \in Calls : ~tasks[t].suspended \/ t \notin C => Unreleased(t)' = Unreleased(t)
    BY <1>4, <1>5 DEF Unreleased
  <1>8. /\ Ordered(todo') /\ \A j \in ToSet(todo) : Stacked(j.op) => j \in ToSet(todo')
        /\ \A j \in ToSet(todo') : j \in ToSet(todo) \/ j.op = "begin"
        /\ todo' # <<>> => /\ todo'[1].op # "restart"
                           /\ todo'[1].op = "begin" =>
                                \E f \in Fns : /\ f = todo'[1].fn /\ MayStart(f)' /\ Current(f) \in S
                                               /\ Current(f)' = Current(f)
    BY TurnedStack
  <1>9. \A t \in Calls : Running(t) => Running(t)'
    <2> SUFFICES ASSUME NEW t \in Calls, Running(t) PROVE Running(t)'
      OBVIOUS
    <2>1. PICK j \in ToSet(todo) : j.op \in {"segment", "register"} /\ j.task = t
      BY RunningIs
    <2>2. j \in ToSet(todo')
      BY <1>8, <2>1 DEF Stacked
    <2>3. PICK n \in DOMAIN todo' : todo'[n] = j
      BY <2>2 DEF ToSet
    <2> QED BY <2>1, <2>3 DEF Running
  <1>10. ASSUME NEW t \in Calls PROVE CallOK(t)'
    <2>1. CallOK(t) /\ Current(t[1])' = Current(t[1])
      BY <1>1 DEF Current
    <2>2. t[2] > generations'[t[1]] => tasks'[t] = Fresh
      BY <1>2, <1>3, <2>1 DEF CallOK, Live, Fresh
    <2>3. t \in selfish' => tasks'[t].status \in {"cancelled", "done"}
      BY <1>2, <1>3, <2>1 DEF CallOK, Live
    <2>4. Live(t)' => /\ t = Current(t[1])' /\ Home[t[1]] \in mounted'
                      /\ tasks'[t].suspended \/ Running(t)'
      BY <1>2, <1>3, <1>6, <1>9, <2>1 DEF CallOK
    <2> QED BY <2>2, <2>3, <2>4 DEF CallOK
  <1>11. ASSUME NEW j \in ToSet(todo) PROVE Held(j)'
    <2>1. Held(j) /\ j \in Items /\ (Stacked(j.op) => j.task \in Calls)
      <3>1. j \in Items
        BY <1>1 DEF ToSet
      <3> QED BY <1>1, <3>1, ItemsAre DEF StackOK
    <2>2. CASE ~Stacked(j.op)
      BY <2>2 DEF Held, Stacked
    <2>3. CASE Stacked(j.op) /\ j.task \notin C
      BY <1>3, <1>6, <1>7, <2>1, <2>3 DEF Held
    <2>4. CASE j.op \in {"segment", "register"} /\ j.task \in C
      <3>1. Running(j.task) /\ ~tasks[j.task].suspended
        BY <2>1, <2>4, RunningIs DEF Held
      <3>2. /\ j.task \in selfish' /\ tasks'[j.task].status = "cancelled" /\ ~tasks'[j.task].suspended
            /\ Unreleased(j.task)' = Unreleased(j.task)
        BY <1>2, <1>3, <1>7, <2>4, <3>1
      <3> QED BY <2>1, <2>4, <3>2 DEF Held
    <2>5. CASE j.op = "run" /\ j.task \in C
      BY <1>3, <2>5 DEF Held, Live
    <2> QED BY <2>2, <2>3, <2>4, <2>5 DEF Stacked
  <1>12. StackOK'
    <2>1. \A j \in ToSet(todo') : Held(j)'
      BY <1>8, <1>11 DEF Held
    <2> QED BY <1>8, <2>1 DEF StackOK
  <1>13. HeadOK'
    <2>1. \A f \in Fns : Current(f) \in S => \A t \in Calls : t = Current(f) => ~Live(t)'
      BY <1>2, <1>6
    <2> QED BY <1>8, <2>1 DEF HeadOK
  <1>14. ASSUME NEW k \in DOMAIN requests'
         PROVE  \/ tasks'[Task(requests'[k].id)].status = "live"
                \/ Task(requests'[k].id) \in selfish'
    <2>1. k \in DOMAIN requests /\ k \notin Lost(S) /\ requests'[k] = requests[k]
      BY <1>4
    <2>2. PICK t \in Calls : t = Task(requests[k].id) /\ (Live(t) \/ t \in selfish)
      BY <1>1, <2>1 DEF TypeOK, WaitsOK
    <2>3. CASE t \in C
      <3>1. ~tasks[t].suspended /\ Live(t)
        BY <1>2, <1>5, <2>1, <2>2, <2>3
      <3>2. Running(t)
        BY <1>1, <2>2, <3>1 DEF CallOK
      <3> QED BY <1>3, <2>1, <2>2, <2>3, <3>2
    <2>4. CASE t \notin C
      BY <1>3, <2>1, <2>2, <2>4 DEF Live
    <2> QED BY <2>3, <2>4
  <1>15. ASSUME NEW t \in Calls, Live(t)', tasks'[t].suspended
         PROVE  Unreleased(t)' # {} /\ ~Dead(Unreleased(t))'
    <2>1. Live(t) /\ t \notin C /\ tasks[t].suspended /\ Unreleased(t)' = Unreleased(t)
      BY <1>3, <1>6, <1>7, <1>15
    <2>2. Unreleased(t) # {} /\ (Dead(Unreleased(t)) => Doomed(t))
      BY <1>1, <2>1 DEF WaitsOK
    <2>3. ~Doomed(t)
      <3>1. t = Current(t[1])
        BY <1>1, <2>1 DEF CallOK
      <3> QED BY <1>2, <2>1, <3>1 DEF Doomed, Turned, Stacked
    <2>4. SUFFICES ASSUME NEW k \in Unreleased(t), requests[k].kind = "join", ~requests[k].wrapped,
                          tasks'[requests[k].target].status = "cancelled"
                   PROVE  FALSE
      <3>1. \A k \in Unreleased(t) : requests'[k] = requests[k]
        BY <1>4, <2>1 DEF Unreleased
      <3> QED BY <2>1, <2>2, <3>1 DEF Dead
    <2>5. k \in DOMAIN requests /\ requests[k].target \in Calls /\ k \in Pending(t)
      BY <1>1, <2>1, <2>4 DEF TypeOK, Waits, Unreleased, Pending
    <2>6. requests[k].target \in C
      BY <1>3, <2>2, <2>3, <2>4, <2>5 DEF Dead
    <2>7. Home[t[1]] \in mounted
      BY <1>1, <2>1 DEF CallOK
    <2>8. t \in Joiners(C)
      BY <2>1, <2>4, <2>5, <2>6, <2>7 DEF Joiners, AwaitsBare
    <2> QED BY <1>2, <2>1, <2>8
  <1>16. WaitsOK'
    BY <1>14, <1>15 DEF WaitsOK, Live
  <1> QED BY <1>10, <1>12, <1>13, <1>16 DEF CallsOK

(* Every step that cancels is of that kind. *)
Cancelling ==
  \/ todo # <<>> /\ (RestartItem(todo[1]) \/ Segment(todo[1]) \/ Cancel(todo[1]))
  \/ Handler
  \/ \E r \in Regions : DisposeRegion(r)

LEMMA CancellingIs ==
  ASSUME IInv, Cancelling
  PROVE  \E S : /\ CancelAll(S) /\ Turned(S) /\ UNCHANGED <<generations, world>>
                /\ mounted' \subseteq mounted /\ phase = "handlers" /\ todo' \in Seq(Items)
                /\ bounds' \in [cancels : Nat, spurious : Nat]
                /\ \A t \in Calls : Live(t) /\ Home[t[1]] \notin mounted' => t \in S
  <1>1. /\ \A t \in Calls : Live(t) => t = Current(t[1]) /\ Home[t[1]] \in mounted
        /\ phase # "handlers" => todo = <<>>
        /\ todo \in Seq(Items) /\ bounds \in [cancels : Nat, spurious : Nat]
    BY DEF IInv, TypeOK, CallsOK, StackOK, CallOK
  <1>2. todo # <<>> => todo[1] \in Items /\ Tail(todo) \in Seq(Items)
    BY <1>1, Popped
  <1>3. \A f \in Fns : /\ <<[op |-> "begin", fn |-> f]>> \o todo \in Seq(Items)
                       /\ todo # <<>> => <<[op |-> "begin", fn |-> f]>> \o Tail(todo) \in Seq(Items)
    BY <1>1, <1>2, MadeItems, Pushed
  <1>4. ASSUME NEW f \in Fns, CancelCall(f, todo), todo = <<>> \/ Stacked(todo[1].op), phase = "handlers"
        PROVE  /\ CancelAll({Current(f)}) /\ Turned({Current(f)}) /\ UNCHANGED <<generations, world>>
               /\ mounted' = mounted /\ todo' \in Seq(Items)
               /\ bounds' \in [cancels : Nat, spurious : Nat]
    BY <1>1, <1>4 DEF CancelCall, Turned
  <1>5. ASSUME NEW f \in Fns, Restart(f, todo), MayStart(f), todo = <<>> \/ Stacked(todo[1].op)
        PROVE  /\ CancelAll({Current(f)}) /\ Turned({Current(f)}) /\ UNCHANGED <<generations, world>>
               /\ mounted' = mounted /\ todo' \in Seq(Items)
               /\ bounds' \in [cancels : Nat, spurious : Nat]
    <2>1. MayStart(f)'
      BY <1>5 DEF Restart, MayStart
    <2> QED BY <1>1, <1>3, <1>5, <2>1 DEF Restart, Turned
  <1>6. CASE todo # <<>> /\ Segment(todo[1])
    <2>1. todo[1].op = "segment" /\ Stacked(todo[1].op)
      BY <1>6 DEF Segment, Stacked
    <2>2. todo[1].task[1] \in Fns
      BY <1>2, <1>6, <2>1, ItemsAre, CallsAre
    <2>3. PICK f \in Fns : CancelCall(f, todo) \/ (MayStart(f) /\ Restart(f, todo))
      BY <1>6, <2>2, TasksAssumption DEF Segment
    <2>4. /\ CancelAll({Current(f)}) /\ Turned({Current(f)}) /\ UNCHANGED <<generations, world>>
          /\ mounted' = mounted /\ todo' \in Seq(Items)
          /\ bounds' \in [cancels : Nat, spurious : Nat]
      BY <1>1, <1>4, <1>5, <1>6, <2>1, <2>3
    <2> QED BY <1>1, <1>6, <2>4
  <1>7. CASE Handler
    <2>1. todo = <<>> /\ phase = "handlers"
      BY <1>7 DEF Handler, Handlers, AtRest
    <2>2. PICK f \in Fns : CancelCall(f, todo) \/ (MayStart(f) /\ Restart(f, todo))
      BY <1>7, <2>1 DEF Handler
    <2>3. /\ CancelAll({Current(f)}) /\ Turned({Current(f)}) /\ UNCHANGED <<generations, world>>
          /\ mounted' = mounted /\ todo' \in Seq(Items)
          /\ bounds' \in [cancels : Nat, spurious : Nat]
      BY <1>4, <1>5, <2>1, <2>2
    <2> QED BY <1>1, <2>1, <2>3
  <1>8. CASE todo # <<>> /\ RestartItem(todo[1])
    <2>1. todo[1].op = "restart" /\ Restart(todo[1].fn, Tail(todo)) /\ todo[1].fn \in Fns
      BY <1>2, <1>8, ItemsAre DEF RestartItem, Stacked
    <2>2. PICK f \in Fns : f = todo[1].fn
      BY <2>1
    <2>3. MayStart(f)'
      BY <1>8, <2>1, <2>2 DEF IInv, CallsOK, HeadOK, MayStart, Restart
    <2>4. /\ CancelAll({Current(f)}) /\ Turned({Current(f)}) /\ UNCHANGED <<generations, world>>
          /\ mounted' = mounted /\ todo' \in Seq(Items)
          /\ bounds' \in [cancels : Nat, spurious : Nat]
      BY <1>1, <1>3, <1>8, <2>1, <2>2, <2>3 DEF Restart, Turned
    <2> QED BY <1>1, <1>8, <2>4
  <1>9. CASE todo # <<>> /\ Cancel(todo[1])
    <2>1. /\ CancelAll({Current(todo[1].fn)}) /\ Turned({Current(todo[1].fn)})
          /\ UNCHANGED <<generations, world>> /\ mounted' = mounted /\ todo' \in Seq(Items)
          /\ bounds' \in [cancels : Nat, spurious : Nat]
      BY <1>1, <1>2, <1>9 DEF Cancel, Turned
    <2> QED BY <1>1, <1>9, <2>1
  <1>10. CASE \E r \in Regions : DisposeRegion(r)
    <2>1. PICK r \in Regions : DisposeRegion(r)
      BY <1>10
    <2> DEFINE S == {Current(f) : f \in {g \in Fns : Home[g] = r}}
    <2>2. /\ CancelAll(S) /\ todo = <<>> /\ phase = "handlers" /\ mounted' = mounted \ {r}
          /\ UNCHANGED <<generations, world, todo, bounds>>
      BY <2>1 DEF DisposeRegion, Handlers, AtRest
    <2>3. \A t \in Calls : Live(t) /\ Home[t[1]] \notin mounted' => t \in S
      BY <1>1, <2>2, CallsAre
    <2> HIDE DEF S
    <2>4. Turned(S)
      BY <2>2 DEF Turned
    <2> QED BY <1>1, <2>2, <2>3, <2>4
  <1> QED BY <1>6, <1>7, <1>8, <1>9, <1>10 DEF Cancelling

(* The frame's own steps, and the host's, leave the calls as they are.      *)
LEMMA FrameKeeps ==
  ASSUME IInv, Boundary \/ Drain \/ Drained \/ \E id \in host.asked : Deliver(id)
  PROVE  CallsOK'
  <1>1. /\ TypeOK /\ WaitsOK /\ (\A t \in Calls : CallOK(t)) /\ (phase # "handlers" => todo = <<>>)
    BY DEF IInv, CallsOK, StackOK
  <1>2. CASE Boundary
    <2>1. todo = <<>> /\ phase' = "handlers" /\ UNCHANGED <<generations, tasks, mounted, selfish>>
      BY <1>1, <1>2 DEF Boundary
    <2>2. PICK T :
           /\ DOMAIN requests' = DOMAIN requests \ Released(T)
           /\ \A k \in DOMAIN requests' : requests'[k] = Latched(k, T)
           /\ todo' \in Seq(Items)
           /\ \A n \in DOMAIN todo' : todo'[n].op = "run" /\ todo'[n].task \in ReadyCalls(T)
           /\ \A m, n \in DOMAIN todo' : m # n => todo'[m].task # todo'[n].task
      BY <1>1, <1>2, BoundaryDoes
    <2>3. \A k \in DOMAIN requests' :
            /\ k \in DOMAIN requests /\ requests'[k].id = requests[k].id
            /\ requests'[k].kind = requests[k].kind /\ requests'[k].target = requests[k].target
            /\ requests'[k].wrapped = requests[k].wrapped
      BY <1>1, <2>2, LatchedAre
    <2>4. \A t \in Calls : ~Running(t)
      BY <2>1 DEF Running
    <2>5. \A t \in Calls : CallOK(t)'
      BY <1>1, <2>1, <2>4 DEF CallOK, Live, Current
    <2>6. \A j \in ToSet(todo') : j.op = "run" /\ tasks[j.task].status = "live" /\ tasks[j.task].suspended
      BY <2>2 DEF ToSet, ReadyCalls, Ready, Live
    <2>7. StackOK'
      <3>1. Ordered(todo')
        BY <2>2 DEF Ordered, Stacked
      <3>2. \A j \in ToSet(todo') : Held(j)'
        BY <2>1, <2>6 DEF Held, Live
      <3> QED BY <2>1, <3>1, <3>2 DEF StackOK
    <2>8. HeadOK'
      <3>1. todo' # <<>> => 1 \in DOMAIN todo'
        BY <2>2
      <3> QED BY <2>2, <3>1 DEF HeadOK
    <2>9. \A k \in DOMAIN requests' : \/ tasks'[Task(requests'[k].id)].status = "live"
                                      \/ Task(requests'[k].id) \in selfish'
      BY <1>1, <2>1, <2>3 DEF WaitsOK, Live
    <2>10. ASSUME NEW t \in Calls, Live(t)', tasks'[t].suspended
           PROVE  Unreleased(t)' # {} /\ ~Dead(Unreleased(t))'
      <3>1. Unreleased(t) # {} /\ ~Dead(Unreleased(t))
        BY <1>1, <2>1, <2>10 DEF WaitsOK, Live, Doomed
      <3>2. PICK k \in Unreleased(t) : k \notin Released(T)
        BY <1>1, <3>1, LosersAre
      <3>3. k \in Unreleased(t)'
        BY <2>2, <2>3, <3>2 DEF Unreleased
      <3>4. \A q \in Unreleased(t)' : q \in Unreleased(t)
        BY <2>3 DEF Unreleased
      <3>5. \A q \in Unreleased(t)' : q \in DOMAIN requests'
        BY DEF Unreleased
      <3>6. ~Dead(Unreleased(t))'
        BY <2>1, <2>3, <3>1, <3>4, <3>5 DEF Dead
      <3> QED BY <3>3, <3>6
    <2>11. WaitsOK'
      BY <2>9, <2>10 DEF WaitsOK, Live
    <2> QED BY <2>5, <2>7, <2>8, <2>11 DEF CallsOK
  <1>3. CASE ~Boundary
    <2>1. /\ UNCHANGED <<generations, tasks, mounted, requests, todo, selfish>>
          /\ phase' # "handlers" => todo = <<>>
      BY <1>1, <1>3 DEF Drain, Drained, Deliver, model, AtRest
    <2>2. \A t \in Calls : CallOK(t)'
      BY <1>1, <2>1 DEF CallOK, Live, Current, Running
    <2>3. StackOK' /\ HeadOK'
      BY <2>1 DEF IInv, CallsOK, StackOK, HeadOK, Held, Live, Unreleased, MayStart, Current
    <2>4. WaitsOK'
      BY <1>1, <2>1 DEF WaitsOK, Live, Unreleased, Dead, Doomed
    <2> QED BY <2>2, <2>3, <2>4 DEF CallsOK
  <1> QED BY <1>2, <1>3

-----------------------------------------------------------------------------
(* Requests and the host.  A call never goes back to a wait it has passed.  *)

Forward ==
  /\ \A t \in Calls : tasks'[t].status # "done" =>
       tasks[t].status # "done" /\ tasks'[t].wait >= tasks[t].wait
  /\ \A i \in ToSet(todo') : i.op = "register" =>
       \/ tasks'[i.task].wait > tasks[i.task].wait
       \/ \E j \in ToSet(todo) : j.op = "register" /\ j.task = i.task /\ j.n <= i.n

LEMMA KnownAre ==
  ASSUME TypeOK
  PROVE  /\ Known \subseteq Ids /\ host.asked \subseteq Known
         /\ \A n \in DOMAIN commands : /\ commands[n] \in Commands /\ commands[n].id \in Ids
                                       /\ Asking(n) => commands[n].id \in Known
  <1>1. \A n \in DOMAIN commands : commands[n] \in Commands /\ commands[n].id \in Ids
    <2>1. commands \in Seq(Commands)
      BY DEF TypeOK
    <2>2. \A n \in DOMAIN commands : commands[n] \in Commands
      BY <2>1
    <2> QED BY <2>2 DEF Commands
  <1>2. host.asked \subseteq Ids
    BY DEF TypeOK
  <1> QED BY <1>1, <1>2 DEF Known, Asking

LEMMA PassedOn ==
  ASSUME IInv, TypeOK', Forward, NEW id \in Known
  PROVE  Passed(id)'
  <1>1. Passed(id) /\ id \in Ids /\ id.wait \in Nat /\ id.member \in Nat
    BY KnownAre DEF IInv, AskedOnce, Ids
  <1>2. PICK t : t = Task(id)
    OBVIOUS
  <1>3. SUFFICES ASSUME t \in Calls, tasks'[t].status # "done"
                 PROVE  /\ id.wait <= tasks'[t].wait
                        /\ \A i \in ToSet(todo') :
                             i.op = "register" /\ i.task = t /\ id.wait = tasks'[t].wait => id.member < i.n
    BY <1>2 DEF Passed
  <1>4. tasks[t].wait \in Nat /\ tasks'[t].wait \in Nat
    BY <1>3 DEF IInv, TypeOK, Records
  <1>5. /\ tasks'[t].wait >= tasks[t].wait /\ id.wait <= tasks[t].wait
        /\ \A i \in ToSet(todo) :
             i.op = "register" /\ i.task = t /\ id.wait = tasks[t].wait => id.member < i.n
    BY <1>1, <1>2, <1>3 DEF Forward, Passed
  <1>6. ASSUME NEW i \in ToSet(todo'), i.op = "register", i.task = t, id.wait = tasks'[t].wait
        PROVE  id.member < i.n
    <2>1. id.wait = tasks[t].wait /\ ~(tasks'[t].wait > tasks[t].wait)
      BY <1>1, <1>4, <1>5, <1>6
    <2>2. PICK j \in ToSet(todo) : j.op = "register" /\ j.task = t /\ j.n <= i.n
      BY <1>6, <2>1 DEF Forward
    <2>3. id.member < j.n
      BY <1>5, <2>1, <2>2
    <2>4. i \in Items /\ j \in Items
      BY DEF IInv, TypeOK, ToSet
    <2>5. i.n \in Nat /\ j.n \in Nat
      BY <1>6, <2>2, <2>4, ItemsAre
    <2> QED BY <1>1, <2>2, <2>3, <2>5
  <1> QED BY <1>1, <1>4, <1>5, <1>6

(* Fewer service calls are under way: no more than there were.              *)
LEMMA FewerActive ==
  ASSUME IInv, \A r \in Regions : Active(r)' \subseteq Active(r)
  PROVE  \A r \in Regions : Cardinality(Active(r)') <= Capacity
  <1> TAKE r \in Regions
  <1>1. PICK A : A = Active(r)
    OBVIOUS
  <1>2. PICK B : B = Active(r)'
    OBVIOUS
  <1>3. IsFiniteSet(A)
    <2>1. A \in SUBSET DOMAIN requests
      BY <1>1 DEF Active
    <2> QED BY <2>1, FS_Subset DEF IInv, TypeOK
  <1>4. Cardinality(B) <= Cardinality(A) /\ Cardinality(A) \in Nat /\ Cardinality(B) \in Nat
    BY <1>1, <1>2, <1>3, FS_Subset, FS_CardinalityType
  <1>5. Cardinality(A) <= Capacity
    BY <1>1 DEF IInv, HostOK
  <1> QED BY <1>2, <1>4, <1>5, TasksAssumption

(* Releasing K withdraws what the host works on of it. *)
LEMMA DropsHost ==
  ASSUME IInv, TypeOK', NEW K \in SUBSET DOMAIN requests, Drops(K), UNCHANGED <<host, deliveries>>,
         phase' = "handlers", Forward
  PROVE  AskedOnce' /\ HostOK'
  <1>1. /\ TypeOK /\ AskedOnce /\ HostOK /\ commands \in Seq(Commands) /\ commands' \in Seq(Commands)
        /\ host \in [open : SUBSET Ids, asked : SUBSET Ids]
    BY DEF IInv, TypeOK
  <1>2. /\ DOMAIN requests' = DOMAIN requests \ K
        /\ \A k \in DOMAIN requests' : requests'[k] = requests[k]
        /\ \A n \in DOMAIN commands : n \in DOMAIN commands' /\ commands'[n] = commands[n]
        /\ \A n \in DOMAIN commands' \ DOMAIN commands : commands'[n].op = "cancel"
        /\ \A k \in K : Tellable(requests[k]) =>
             \E n \in DOMAIN commands' : /\ n > Len(commands) /\ commands'[n].op = "cancel"
                                         /\ commands'[n].id = requests[k].id
    BY <1>1, DropsDo
  <1>3. \A n : Asking(n)' <=> Asking(n)
    BY <1>2 DEF Asking
  <1>4. Known' = Known
    BY <1>2, <1>3 DEF Known, Asking
  <1>5. \A n : Asking(n) => commands'[n] = commands[n]
    BY <1>2 DEF Asking
  <1>6. AskedOnce'
    <2>1. \A id \in Known' : Passed(id)'
      BY <1>4, PassedOn
    <2> QED BY <1>1, <1>2, <1>3, <1>5, <2>1 DEF AskedOnce, Asking
  <1>7. ASSUME NEW id \in Known, Key(id) \in K, id \in host.open \/ id \notin host.asked
        PROVE  \E n \in DOMAIN commands' : /\ n > Len(commands) /\ commands'[n].op = "cancel"
                                           /\ commands'[n].id = id
    <2>1. PICK k \in K : k = Key(id)
      BY <1>7
    <2>2. requests[k].id = id
      <3>1. Key(requests[k].id) = k /\ requests[k].id \in Ids
        BY <1>1, <2>1 DEF TypeOK, Waits
      <3> QED BY <1>1, <2>1, <3>1, KnownAre, KeysDiffer
    <2>3. Tellable(requests[k])
      BY <1>1, <1>7, <2>2 DEF HostOK, Tellable
    <2> QED BY <1>2, <2>2, <2>3
  <1>8. ASSUME NEW id \in host'.open
        PROVE  Key(id) \in DOMAIN requests' \/ \E n \in DOMAIN commands' : Withdrawing(n)' /\ commands'[n].id = id
    <2>1. id \in host.open /\ id \in Known
      BY <1>1, <1>8, KnownAre DEF AskedOnce
    <2>2. CASE Key(id) \in DOMAIN requests
      BY <1>2, <1>7, <2>1, <2>2 DEF Withdrawing
    <2>3. CASE \E n \in DOMAIN commands : Withdrawing(n) /\ commands[n].id = id
      BY <1>2, <2>3 DEF Withdrawing
    <2> QED BY <1>1, <2>1, <2>2, <2>3 DEF HostOK, Registry
  <1>9. ASSUME NEW n \in DOMAIN commands', Asking(n)'
        PROVE  \/ Key(commands'[n].id) \in DOMAIN requests'
               \/ \E m \in DOMAIN commands' : m > n /\ Withdrawing(m)' /\ commands'[m].id = commands'[n].id
    <2>1. Asking(n) /\ n \in DOMAIN commands /\ commands'[n] = commands[n]
      BY <1>3, <1>5, <1>9 DEF Asking
    <2>2. PICK id \in Known : id = commands[n].id
      BY <1>1, <2>1, KnownAre
    <2>3. id \notin host.asked
      BY <1>1, <2>1, <2>2 DEF AskedOnce
    <2>4. CASE Key(id) \in DOMAIN requests
      <3>1. CASE Key(id) \in K
        <4>1. PICK m \in DOMAIN commands' : m > Len(commands) /\ commands'[m].op = "cancel" /\ commands'[m].id = id
          BY <1>7, <2>3, <3>1
        <4>2. m > n
          BY <1>1, <2>1, <4>1
        <4> QED BY <2>1, <2>2, <4>1, <4>2 DEF Withdrawing
      <3> QED BY <1>2, <2>1, <2>2, <2>4, <3>1
    <2>5. CASE \E m \in DOMAIN commands : m > n /\ Withdrawing(m) /\ commands[m].id = commands[n].id
      BY <1>2, <2>1, <2>5 DEF Withdrawing
    <2> QED BY <1>1, <2>1, <2>2, <2>4, <2>5 DEF HostOK, Registry
  <1>10. \A r \in Regions : Cardinality(Active(r)') <= Capacity
    <2>1. \A r \in Regions : Active(r)' \subseteq Active(r)
      BY <1>2 DEF Active
    <2> QED BY <2>1, FewerActive
  <1>11. HostOK'
    BY <1>1, <1>2, <1>4, <1>8, <1>9, <1>10 DEF HostOK, Registry
  <1> QED BY <1>6, <1>11

(* Registering asks the host for what was never asked.                      *)
LEMMA RegisterHost ==
  ASSUME IInv, TypeOK', todo # <<>>, NEW i \in Items, i = todo[1], Register(i), Forward
  PROVE  AskedOnce' /\ HostOK'
  <1>1. /\ TypeOK /\ AskedOnce /\ HostOK /\ commands \in Seq(Commands) /\ commands' \in Seq(Commands)
        /\ i.op = "register" /\ UNCHANGED <<generations, tasks, deliveries, host, phase>>
    BY DEF IInv, TypeOK, Register, world
  <1>2. /\ i.task \in Calls /\ Held(i) /\ Acting(i.task) /\ tasks[i.task] \in Records /\ i.n \in Nat
        /\ Tail(todo) \in Seq(Items) /\ phase = "handlers"
    BY <1>1, RunsNow, OthersOnly, ItemsAre DEF IInv, CallsOK, StackOK
  <1>3. PICK w \in Waits : Registered(w) /\ Registers(i, w)
    BY <1>1, RegisterDoes
  <1>4. PICK id \in Ids : /\ id = Id(i) /\ Task(id) = i.task /\ id.wait = tasks[i.task].wait
                          /\ id.member = i.n /\ w.id = id
    BY <1>1, <1>3, MemberWaits DEF Registers
  <1>5. /\ DOMAIN requests' = DOMAIN requests \cup {Key(id)} /\ requests'[Key(id)] = w
        /\ \A k \in DOMAIN requests : k # Key(id) => requests'[k] = requests[k]
        /\ \A k \in DOMAIN requests' : Key(requests'[k].id) = k
    <2>1. Task(w.id) \in Calls
      BY <1>2, <1>4
    <2>2. /\ DOMAIN requests' = DOMAIN requests \cup {Key(w.id)} /\ requests'[Key(w.id)] = w
          /\ \A k \in DOMAIN requests : k # Key(w.id) => requests'[k] = requests[k]
          /\ \A k \in DOMAIN requests' : Key(requests'[k].id) = k
      BY <1>1, <1>3, <2>1, RegisteredDo
    <2> QED BY <1>4, <2>2
  <1>6. id \notin Known
    <2>1. i \in ToSet(todo) /\ tasks[i.task].status # "done"
      BY <1>1, <1>2, OthersOnly DEF Held
    <2> QED BY <1>1, <1>2, <1>4, <2>1 DEF AskedOnce, Passed
  <1>7. /\ \A n \in DOMAIN commands : n \in DOMAIN commands' /\ commands'[n] = commands[n]
        /\ \A n \in DOMAIN commands' \ DOMAIN commands :
             commands'[n] = [op |-> "request", id |-> id] /\ (w.kind = "animate" \/ w.reserved)
               /\ n = Len(commands) + 1
        /\ DOMAIN commands = 1 .. Len(commands) /\ Len(commands) \in Nat
    <2>1. CASE commands' = commands
      BY <1>1, <2>1
    <2>2. CASE commands' = Append(commands, [op |-> "request", id |-> id]) /\ (w.kind = "animate" \/ w.reserved)
      BY <1>1, <2>2
    <2> QED BY <1>3, <1>4, <2>1, <2>2 DEF Registers, Asked
  <1>8. \A n \in DOMAIN commands' : Asking(n)' => Asking(n) \/ (n \notin DOMAIN commands /\ commands'[n].id = id)
    BY <1>7 DEF Asking
  <1>9. Known' \subseteq Known \cup {id}
    <2>1. \A n \in DOMAIN commands' : Asking(n)' => commands'[n].id \in Known \cup {id}
      BY <1>1, <1>7, <1>8, KnownAre DEF Asking
    <2> QED BY <1>1, <2>1, KnownAre DEF Known, Asking
  <1>10. Passed(id)'
    <2>1. PICK x \in Items : x = [i EXCEPT !.n = @ + 1] /\ x.op = "register" /\ x.task = i.task /\ x.n = i.n + 1
      BY <1>1, NextMember
    <2>2. \/ todo' = <<x>> \o Tail(todo)
          \/ \E f \in Fns : todo' = <<[op |-> "restart", fn |-> f]>> \o (<<x>> \o Tail(todo))
      BY <1>3, <2>1 DEF Registers, More
    <2>3. \A j \in ToSet(todo') : j = x \/ j \in ToSet(Tail(todo)) \/ j.op = "restart"
      <3>1. ToSet(<<x>> \o Tail(todo)) = {x} \cup ToSet(Tail(todo)) /\ <<x>> \o Tail(todo) \in Seq(Items)
        BY <1>2, StackedSet, Pushed
      <3>2. ASSUME NEW f \in Fns, todo' = <<[op |-> "restart", fn |-> f]>> \o (<<x>> \o Tail(todo))
            PROVE  \A j \in ToSet(todo') : j = x \/ j \in ToSet(Tail(todo)) \/ j.op = "restart"
        <4>1. PICK r \in Items : r = [op |-> "restart", fn |-> f]
          BY MadeItems
        <4>2. ToSet(todo') = {r} \cup ToSet(<<x>> \o Tail(todo))
          BY <3>1, <3>2, <4>1, StackedSet
        <4> QED BY <3>1, <4>1, <4>2
      <3> QED BY <2>2, <3>1, <3>2
    <2>4. \A j \in ToSet(todo') : j.op = "register" /\ j.task = i.task => j.n = i.n + 1
      BY <1>2, <2>1, <2>3, OthersOnly
    <2>5. tasks'[i.task].wait = id.wait /\ id.wait \in Nat
      BY <1>1, <1>4 DEF Ids
    <2> QED BY <1>2, <1>4, <2>4, <2>5 DEF Passed
  <1>11. AskedOnce'
    <2>1. \A jd \in Known' : Passed(jd)'
      BY <1>9, <1>10, PassedOn
    <2>2. \A n \in DOMAIN commands : Asking(n) => commands[n].id # id
      BY <1>1, <1>6, KnownAre
    <2>3. id \notin host.asked
      BY <1>1, <1>6, KnownAre
    <2>4. \A n \in DOMAIN commands' : Asking(n)' => commands'[n].id \notin host'.asked
      BY <1>1, <1>7, <1>8, <2>3 DEF AskedOnce, Asking
    <2>5. \A m, n \in DOMAIN commands' : Asking(m)' /\ Asking(n)' /\ m # n => commands'[m].id # commands'[n].id
      BY <1>1, <1>7, <1>8, <2>2 DEF AskedOnce, Asking
    <2> QED BY <1>1, <1>2, <2>1, <2>4, <2>5 DEF AskedOnce
  <1>12. \A n \in DOMAIN commands : Withdrawing(n) => Withdrawing(n)'
    BY <1>7 DEF Withdrawing
  <1>13. ASSUME NEW jd \in host'.open
         PROVE  \/ Key(jd) \in DOMAIN requests'
                \/ \E n \in DOMAIN commands' : Withdrawing(n)' /\ commands'[n].id = jd
    BY <1>1, <1>5, <1>7, <1>12 DEF HostOK, Registry
  <1>14. ASSUME NEW n \in DOMAIN commands', Asking(n)'
         PROVE  \/ Key(commands'[n].id) \in DOMAIN requests'
                \/ \E m \in DOMAIN commands' : m > n /\ Withdrawing(m)' /\ commands'[m].id = commands'[n].id
    <2>1. CASE Asking(n)
      <3>1. n \in DOMAIN commands /\ commands'[n] = commands[n]
        BY <1>7, <2>1 DEF Asking
      <3> QED BY <1>1, <1>5, <1>7, <1>12, <2>1, <3>1 DEF HostOK, Registry
    <2>2. CASE commands'[n].id = id
      BY <1>5, <2>2
    <2> QED BY <1>8, <1>14, <2>1, <2>2
  <1>15. ASSUME NEW k \in DOMAIN requests'
         PROVE  /\ requests'[k].reserved => requests'[k].kind = "service"
                /\ requests'[k].delivered => requests'[k].id \in host'.asked \ host'.open
                /\ requests'[k].delivered => requests'[k].answer = requests'[k].id
                /\ requests'[k].id \in Known' => requests'[k].kind = "animate" \/ requests'[k].reserved
    <2>1. CASE k = Key(id)
      <3>1. id \in Known' => \E n \in DOMAIN commands' : Asking(n)' /\ commands'[n].id = id
        BY <1>1, <1>6, KnownAre DEF Known
      <3>2. id \in Known' => w.kind = "animate" \/ w.reserved
        <4> SUFFICES ASSUME id \in Known' PROVE w.kind = "animate" \/ w.reserved
          OBVIOUS
        <4>1. PICK n \in DOMAIN commands' : Asking(n)' /\ commands'[n].id = id
          BY <3>1
        <4>2. n \notin DOMAIN commands
          BY <1>1, <1>6, <1>7, <1>8, <4>1, KnownAre
        <4> QED BY <1>7, <4>2
      <3> QED BY <1>3, <1>4, <1>5, <2>1, <3>2 DEF Registers
    <2>2. CASE k # Key(id)
      <3>1. k \in DOMAIN requests /\ requests'[k] = requests[k] /\ requests[k].id # id
        BY <1>5, <2>2
      <3> QED BY <1>1, <1>9, <3>1 DEF HostOK
    <2> QED BY <2>1, <2>2
  <1>16. \A r \in Regions : Cardinality(Active(r)') <= Capacity
    <2> TAKE r \in Regions
    <2>1. PICK A : A = Active(r)
      OBVIOUS
    <2>2. PICK B : B = Active(r)'
      OBVIOUS
    <2>3. IsFiniteSet(A) /\ Cardinality(A) \in Nat /\ Cardinality(A) <= Capacity
      <3>1. A \in SUBSET DOMAIN requests
        BY <2>1 DEF Active
      <3>2. IsFiniteSet(A)
        BY <1>1, <3>1, FS_Subset DEF TypeOK
      <3> QED BY <1>1, <2>1, <3>2, FS_CardinalityType DEF HostOK
    <2>4. B \subseteq A \cup {Key(id)}
      BY <1>5, <2>1, <2>2 DEF Active
    <2>5. CASE Key(id) \in B
      <3>1. w.reserved /\ Home[id.fn] = r
        BY <1>4, <1>5, <2>2, <2>5 DEF Active
      <3>2. id.fn = i.task[1]
        BY <1>4, KeysDiffer
      <3>3. Cardinality(A) < Capacity
        BY <1>3, <2>1, <3>1, <3>2 DEF Registers
      <3>4. IsFiniteSet(A \cup {Key(id)}) /\ Cardinality(A \cup {Key(id)}) <= Cardinality(A) + 1
            /\ Cardinality(A \cup {Key(id)}) \in Nat
        <4>1. /\ IsFiniteSet(A \cup {Key(id)})
              /\ Cardinality(A \cup {Key(id)}) = IF Key(id) \in A THEN Cardinality(A) ELSE Cardinality(A) + 1
          BY <2>3, FS_AddElement
        <4>2. Cardinality(A \cup {Key(id)}) \in Nat
          BY <4>1, FS_CardinalityType
        <4> QED BY <2>3, <4>1, <4>2
      <3>5. Cardinality(B) <= Cardinality(A \cup {Key(id)}) /\ Cardinality(B) \in Nat
        BY <2>4, <3>4, FS_Subset, FS_CardinalityType
      <3> QED BY <2>2, <2>3, <3>3, <3>4, <3>5, TasksAssumption
    <2>6. CASE Key(id) \notin B
      <3>1. B \subseteq A
        BY <2>4, <2>6
      <3>2. Cardinality(B) <= Cardinality(A) /\ Cardinality(B) \in Nat
        BY <2>3, <3>1, FS_Subset, FS_CardinalityType
      <3> QED BY <2>2, <2>3, <3>2, TasksAssumption
    <2> QED BY <2>5, <2>6
  <1>17. HostOK'
    BY <1>13, <1>14, <1>15, <1>16 DEF HostOK, Registry
  <1> QED BY <1>11, <1>17

(* A boundary withdraws what the losers asked, but for what was answered.   *)
LEMMA BoundaryHost ==
  ASSUME IInv, TypeOK', Boundary, Forward
  PROVE  AskedOnce' /\ HostOK'
  <1>1. /\ TypeOK /\ AskedOnce /\ HostOK /\ commands = <<>> /\ phase' = "handlers"
        /\ deliveries' = {} /\ host' = host /\ host \in [open : SUBSET Ids, asked : SUBSET Ids]
    BY DEF IInv, TypeOK, AskedOnce, Boundary
  <1>2. PICK T :
         /\ DOMAIN requests' = DOMAIN requests \ Released(T)
         /\ \A k \in DOMAIN requests' : requests'[k] = Latched(k, T)
         /\ commands' = commands \o Withdrawals({k \in Released(T) : Taken(k) = {}})
    BY <1>1, BoundaryDoes
  <1>3. PICK K : K = {k \in Released(T) : Taken(k) = {}}
    OBVIOUS
  <1>4. Released(T) \in SUBSET DOMAIN requests /\ K \in SUBSET DOMAIN requests
    BY <1>1, <1>3, LosersAre
  <1>5. PICK W : W = Withdrawals(K)
    OBVIOUS
  <1>6. /\ commands' = W /\ \A n \in DOMAIN W : W[n].op = "cancel"
        /\ \A id \in Told(K) : \E n \in DOMAIN W : W[n].id = id
    <2>1. /\ W \in Seq(Commands) /\ \A n \in DOMAIN W : W[n].op = "cancel"
          /\ \A id \in Told(K) : \E n \in DOMAIN W : W[n].id = id
      BY <1>1, <1>4, <1>5, WithdrawalsAre
    <2>2. commands' = <<>> \o W
      BY <1>1, <1>2, <1>3, <1>5
    <2> QED BY <2>1, <2>2
  <1>7. (\A n \in DOMAIN commands' : ~Asking(n)') /\ Known' = host.asked /\ Known = host.asked
    BY <1>1, <1>6 DEF Asking, Known
  <1>8. \A k \in DOMAIN requests' :
          /\ k \in DOMAIN requests /\ requests'[k].id = requests[k].id
          /\ requests'[k].kind = requests[k].kind /\ requests'[k].reserved = requests[k].reserved
          /\ Taken(k) \subseteq deliveries \cap {requests[k].id}
          /\ Taken(k) # {} => requests'[k].delivered /\ requests'[k].answer = requests[k].id
          /\ Taken(k) = {} => /\ requests'[k].delivered = requests[k].delivered
                              /\ requests'[k].answer = requests[k].answer
    BY <1>1, <1>2, LatchedAre
  <1>9. AskedOnce'
    <2>1. \A id \in Known' : Passed(id)'
      BY <1>7, PassedOn
    <2> QED BY <1>1, <1>7, <2>1 DEF AskedOnce
  <1>10. ASSUME NEW id \in host'.open
         PROVE  \/ Key(id) \in DOMAIN requests'
                \/ \E n \in DOMAIN commands' : Withdrawing(n)' /\ commands'[n].id = id
    <2>1. id \in host.open /\ id \in Known /\ id \in Ids /\ id \notin deliveries
      BY <1>1, <1>7, <1>10 DEF AskedOnce
    <2>2. Key(id) \in DOMAIN requests
      BY <1>1, <2>1 DEF HostOK, Registry
    <2>3. PICK k \in DOMAIN requests : k = Key(id)
      BY <2>2
    <2>4. requests[k].id = id
      <3>1. Key(requests[k].id) = k /\ requests[k].id \in Ids
        BY <1>1 DEF TypeOK, Waits
      <3> QED BY <2>1, <2>3, <3>1, KeysDiffer
    <2>5. CASE k \in Released(T)
      <3>1. Taken(k) = {}
        <4>1. Taken(k) \subseteq deliveries \cap {requests[k].id}
          BY <1>1, LatchedAre
        <4> QED BY <2>1, <2>4, <4>1
      <3>2. ~requests[k].delivered /\ (requests[k].kind = "animate" \/ requests[k].reserved)
        BY <1>1, <2>1, <2>4 DEF HostOK
      <3>3. id \in Told(K)
        BY <1>3, <2>4, <2>5, <3>1, <3>2 DEF Told
      <3> QED BY <1>6, <3>3 DEF Withdrawing
    <2>6. CASE k \notin Released(T)
      BY <1>2, <2>3, <2>6
    <2> QED BY <2>5, <2>6
  <1>11. \A k \in DOMAIN requests' :
           /\ requests'[k].reserved => requests'[k].kind = "service"
           /\ requests'[k].delivered => requests'[k].id \in host'.asked \ host'.open
           /\ requests'[k].delivered => requests'[k].answer = requests'[k].id
           /\ requests'[k].id \in Known' => requests'[k].kind = "animate" \/ requests'[k].reserved
    <2> TAKE k \in DOMAIN requests'
    <2>1. deliveries \subseteq host.asked \ host.open
      BY <1>1 DEF AskedOnce
    <2> QED BY <1>1, <1>7, <1>8, <2>1 DEF HostOK
  <1>12. \A r \in Regions : Cardinality(Active(r)') <= Capacity
    <2>1. \A r \in Regions : Active(r)' \subseteq Active(r)
      <3> SUFFICES ASSUME NEW r \in Regions, NEW k \in Active(r)' PROVE k \in Active(r)
        OBVIOUS
      <3>1. k \in DOMAIN requests' /\ Home[requests'[k].id.fn] = r /\ requests'[k].reserved
            /\ ~requests'[k].delivered
        BY DEF Active
      <3>2. k \in DOMAIN requests /\ Home[requests[k].id.fn] = r /\ requests[k].reserved
            /\ ~requests[k].delivered
        BY <1>8, <3>1
      <3> QED BY <3>2 DEF Active
    <2> QED BY <2>1, FewerActive
  <1>13. HostOK'
    BY <1>7, <1>10, <1>11, <1>12 DEF HostOK, Registry
  <1> QED BY <1>9, <1>13

(* Steps that neither register nor release leave the host as it is.         *)
LEMMA QuietHost ==
  ASSUME IInv, TypeOK', UNCHANGED <<requests, commands, host, deliveries>>,
         phase' = "idle" => commands = <<>>, Forward
  PROVE  AskedOnce' /\ HostOK'
  <1>1. AskedOnce /\ HostOK
    BY DEF IInv
  <1>2. Known' = Known /\ \A n : (Asking(n)' <=> Asking(n)) /\ (Withdrawing(n)' <=> Withdrawing(n))
    BY DEF Known, Asking, Withdrawing
  <1>3. \A id \in Known' : Passed(id)'
    BY <1>2, PassedOn
  <1>4. \A r \in Regions : Cardinality(Active(r)') <= Capacity
    <2>1. \A r \in Regions : Active(r)' \subseteq Active(r)
      BY DEF Active
    <2> QED BY <2>1, FewerActive
  <1>5. AskedOnce'
    BY <1>1, <1>2, <1>3 DEF AskedOnce
  <1>6. HostOK'
    BY <1>1, <1>2, <1>4 DEF HostOK, Registry
  <1> QED BY <1>5, <1>6

(* The host hears of a request or a withdrawal, in order.                   *)
LEMMA DrainHost ==
  ASSUME IInv, TypeOK', Drain, Forward
  PROVE  AskedOnce' /\ HostOK'
  <1>1. /\ TypeOK /\ AskedOnce /\ HostOK /\ commands \in Seq(Commands) /\ commands # <<>>
        /\ commands' = Tail(commands) /\ requests' = requests /\ phase' = "drain"
        /\ host \in [open : SUBSET Ids, asked : SUBSET Ids]
    BY DEF IInv, TypeOK, Drain
  <1>2. /\ 1 \in DOMAIN commands /\ Head(commands) = commands[1]
        /\ \A n \in DOMAIN commands' : /\ n \in Nat /\ n + 1 \in DOMAIN commands /\ n + 1 # 1
                                       /\ commands'[n] = commands[n + 1]
        /\ \A n \in DOMAIN commands : n # 1 => /\ n - 1 \in DOMAIN commands' /\ n \in Nat
                                              /\ commands'[n - 1] = commands[n]
    BY <1>1
  <1>3. PICK c \in Commands : c = commands[1] /\ c = Head(commands)
    BY <1>1, <1>2, KnownAre
  <1>4. c.id \in Ids
    BY DEF Commands
  <1>5. /\ \A n \in DOMAIN commands' : (Asking(n)' <=> Asking(n + 1)) /\ (Withdrawing(n)' <=> Withdrawing(n + 1))
        /\ \A n : Asking(n)' \/ Withdrawing(n)' => n \in DOMAIN commands'
    BY <1>2 DEF Asking, Withdrawing
  <1>6. ASSUME NEW id, NEW l \in Nat, NEW n \in DOMAIN commands, n > l + 1, Withdrawing(n), commands[n].id = id
        PROVE  \E m \in DOMAIN commands' : m > l /\ Withdrawing(m)' /\ commands'[m].id = id
    <2>1. PICK m : m = n - 1
      OBVIOUS
    <2>2. n \in Nat
      BY <1>1
    <2>3. m \in DOMAIN commands' /\ m > l /\ commands'[m] = commands[n] /\ m + 1 = n
      BY <1>2, <1>6, <2>1, <2>2
    <2> QED BY <1>5, <1>6, <2>3
  <1>7. \/ /\ c.op = "cancel" /\ host'.open = host.open \ {c.id} /\ host'.asked = host.asked
           /\ deliveries' = deliveries
        \/ /\ c.op = "request" /\ host'.asked = host.asked \cup {c.id}
           /\ \/ host'.open = host.open \cup {c.id} /\ deliveries' = deliveries
              \/ host'.open = host.open /\ deliveries' = deliveries \cup {c.id}
    BY <1>1, <1>3 DEF Drain
  <1>8. /\ Asking(1) <=> c.op = "request"
        /\ Asking(1) => c.id \in Known /\ c.id \notin host.asked /\ c.id \notin host.open /\ c.id \notin deliveries
    BY <1>1, <1>2, <1>3, KnownAre DEF Asking, AskedOnce
  <1>9. Known' \subseteq Known
    <2>1. \A n \in DOMAIN commands' : Asking(n)' => commands'[n].id \in Known
      BY <1>1, <1>2, <1>5, KnownAre
    <2>2. host'.asked \subseteq Known
      BY <1>1, <1>7, <1>8, KnownAre
    <2> QED BY <1>5, <2>1, <2>2 DEF Known
  <1>10. AskedOnce'
    <2>1. \A id \in Known' : Passed(id)'
      BY <1>9, PassedOn
    <2>2. ASSUME NEW n \in DOMAIN commands', Asking(n)' PROVE commands'[n].id \notin host'.asked
      <3>1. n + 1 \in DOMAIN commands /\ n + 1 # 1 /\ commands'[n] = commands[n + 1] /\ Asking(n + 1)
        BY <1>2, <1>5, <2>2
      <3>2. commands[n + 1].id \notin host.asked /\ (Asking(1) => commands[n + 1].id # c.id)
        BY <1>1, <1>2, <1>3, <3>1 DEF AskedOnce
      <3> QED BY <1>7, <1>8, <3>1, <3>2
    <2>3. \A m, n \in DOMAIN commands' : Asking(m)' /\ Asking(n)' /\ m # n => commands'[m].id # commands'[n].id
      <3> TAKE m, n \in DOMAIN commands'
      <3>1. m # n => m + 1 # n + 1
        BY <1>2
      <3> QED BY <1>1, <1>2, <1>5, <3>1 DEF AskedOnce
    <2>4. host'.open \subseteq host'.asked /\ deliveries' \subseteq host'.asked /\ host'.open \cap deliveries' = {}
      BY <1>1, <1>7, <1>8 DEF AskedOnce
    <2> QED BY <1>1, <2>1, <2>2, <2>3, <2>4 DEF AskedOnce
  <1>11. ASSUME NEW id \in host'.open
         PROVE  Registry(id) \/ \E n \in DOMAIN commands' : Withdrawing(n)' /\ commands'[n].id = id
    <2>1. CASE id \in host.open
      <3>1. ASSUME NEW n \in DOMAIN commands, Withdrawing(n), commands[n].id = id
            PROVE  \E m \in DOMAIN commands' : Withdrawing(m)' /\ commands'[m].id = id
        <4>1. c.op = "cancel" => id # c.id
          BY <1>7, <1>11
        <4>2. n # 1
          BY <1>3, <3>1, <4>1 DEF Withdrawing
        <4>3. n \in Nat /\ n > 0 + 1
          BY <1>1, <4>2
        <4> QED BY <1>6, <3>1, <4>3
      <3> QED BY <1>1, <2>1, <3>1 DEF HostOK
    <2>2. CASE id \notin host.open
      <3>1. id = c.id /\ Asking(1)
        BY <1>7, <1>8, <1>11, <2>2
      <3>2. CASE ~Registry(id)
        <4>1. PICK m \in DOMAIN commands : m > 1 /\ Withdrawing(m) /\ commands[m].id = id
          BY <1>1, <1>2, <1>3, <3>1, <3>2 DEF HostOK
        <4>2. m > 0 + 1
          BY <4>1
        <4> QED BY <1>6, <4>1, <4>2
      <3> QED BY <3>2
    <2> QED BY <2>1, <2>2
  <1>12. ASSUME NEW n \in DOMAIN commands', Asking(n)'
         PROVE  \/ Registry(commands'[n].id)
                \/ \E m \in DOMAIN commands' : m > n /\ Withdrawing(m)' /\ commands'[m].id = commands'[n].id
    <2>1. n \in Nat /\ n + 1 \in DOMAIN commands /\ commands'[n] = commands[n + 1] /\ Asking(n + 1)
      BY <1>2, <1>5, <1>12
    <2>2. CASE ~Registry(commands'[n].id)
      <3>1. PICK m \in DOMAIN commands : m > n + 1 /\ Withdrawing(m) /\ commands[m].id = commands'[n].id
        BY <1>1, <2>1, <2>2 DEF HostOK
      <3>2. \A id : commands[m].id = id =>
              \E q \in DOMAIN commands' : q > n /\ Withdrawing(q)' /\ commands'[q].id = id
        BY <1>6, <2>1, <3>1
      <3> QED BY <3>1, <3>2
    <2> QED BY <2>2
  <1>13. \A k \in DOMAIN requests' :
           /\ requests'[k].reserved => requests'[k].kind = "service"
           /\ requests'[k].delivered => requests'[k].id \in host'.asked \ host'.open
           /\ requests'[k].delivered => requests'[k].answer = requests'[k].id
           /\ requests'[k].id \in Known' => requests'[k].kind = "animate" \/ requests'[k].reserved
    <2> TAKE k \in DOMAIN requests'
    <2>1. host.asked \ host.open \subseteq host'.asked \ host'.open
      BY <1>7, <1>8
    <2> QED BY <1>1, <1>9, <2>1 DEF HostOK
  <1>14. \A r \in Regions : Cardinality(Active(r)') <= Capacity
    <2>1. \A r \in Regions : Active(r)' \subseteq Active(r)
      BY <1>1 DEF Active
    <2> QED BY <2>1, FewerActive
  <1>15. \A id : Registry(id)' <=> Registry(id)
    BY <1>1 DEF Registry
  <1>16. HostOK'
    BY <1>11, <1>12, <1>13, <1>14, <1>15 DEF HostOK
  <1> QED BY <1>10, <1>16

(* An answer ends the host's work.                                          *)
LEMMA DeliverHost ==
  ASSUME IInv, TypeOK', NEW id \in host.asked, Deliver(id), Forward
  PROVE  AskedOnce' /\ HostOK'
  <1>1. /\ AskedOnce /\ HostOK /\ commands' = commands /\ requests' = requests /\ phase' = phase
        /\ host'.open = host.open \ {id} /\ host'.asked = host.asked
        /\ deliveries' = deliveries \cup {id}
    BY DEF IInv, TypeOK, Deliver, model
  <1>2. Known' = Known /\ \A n : (Asking(n)' <=> Asking(n)) /\ (Withdrawing(n)' <=> Withdrawing(n))
    BY <1>1 DEF Known, Asking, Withdrawing
  <1>3. \A jd \in Known' : Passed(jd)'
    BY <1>2, PassedOn
  <1>4. \A r \in Regions : Cardinality(Active(r)') <= Capacity
    <2>1. \A r \in Regions : Active(r)' \subseteq Active(r)
      BY <1>1 DEF Active
    <2> QED BY <2>1, FewerActive
  <1>5. AskedOnce'
    BY <1>1, <1>2, <1>3 DEF AskedOnce
  <1>6. HostOK'
    BY <1>1, <1>2, <1>4 DEF HostOK, Registry
  <1> QED BY <1>5, <1>6

(* A step's cancellations and new items take no call back to an earlier wait. *)
LEMMA CancelForward ==
  ASSUME IInv, NEW S, CancelAll(S), Turned(S), UNCHANGED generations
  PROVE  Forward
  <1>1. /\ Cancelled(S) \subseteq {t \in Calls : Live(t)} /\ tasks \in [Calls -> Records]
        /\ \A t \in Calls \ Cancelled(S) : tasks'[t] = tasks[t]
        /\ \A t \in Cancelled(S) : tasks'[t].wait = tasks[t].wait
    BY CancelledAre, CancelAllDoes DEF IInv, TypeOK
  <1>2. ASSUME NEW t \in Calls, tasks'[t].status # "done"
        PROVE  tasks[t].status # "done" /\ tasks'[t].wait >= tasks[t].wait
    <2>1. tasks[t].wait \in Nat
      BY <1>1 DEF Records
    <2> QED BY <1>1, <1>2, <2>1 DEF Live
  <1>3. \A j \in ToSet(todo') : j.op = "register" => j \in ToSet(todo) /\ j \in Items
    <2>1. \A j \in ToSet(todo) : j \in Items
      <3>1. todo \in Seq(Items)
        BY DEF IInv, TypeOK
      <3> QED BY <3>1 DEF ToSet
    <2> QED BY <2>1, TurnedStack
  <1>4. \A j \in Items : j.op = "register" => j.n <= j.n
    BY ItemsAre
  <1> QED BY <1>2, <1>3, <1>4 DEF Forward

(* What is pushed in place of the first item is the only new registration.  *)
LEMMA NewItem ==
  ASSUME IInv, todo # <<>>, NEW x \in Items,
         \/ todo' = Tail(todo)
         \/ todo' = <<x>> \o Tail(todo)
         \/ \E f \in Fns : todo' = <<[op |-> "restart", fn |-> f]>> \o (<<x>> \o Tail(todo))
  PROVE  \A j \in ToSet(todo') : j.op = "register" => (j \in ToSet(todo) /\ j \in Items) \/ j = x
  <1>1. todo \in Seq(Items) /\ Ordered(todo)
    BY DEF IInv, TypeOK, CallsOK, StackOK
  <1>2. Tail(todo) \in Seq(Items) /\ \A j \in ToSet(Tail(todo)) : j \in ToSet(todo) /\ j \in Items
    BY <1>1, Popped, Unstacked
  <1>3. ToSet(<<x>> \o Tail(todo)) = {x} \cup ToSet(Tail(todo)) /\ <<x>> \o Tail(todo) \in Seq(Items)
    BY <1>2, StackedSet, Pushed
  <1>4. ASSUME NEW f \in Fns, todo' = <<[op |-> "restart", fn |-> f]>> \o (<<x>> \o Tail(todo))
        PROVE  \A j \in ToSet(todo') : j.op = "register" => (j \in ToSet(todo) /\ j \in Items) \/ j = x
    <2>1. PICK r \in Items : r = [op |-> "restart", fn |-> f]
      BY MadeItems
    <2>2. ToSet(todo') = {r} \cup ToSet(<<x>> \o Tail(todo))
      BY <1>3, <1>4, <2>1, StackedSet
    <2> QED BY <1>2, <1>3, <2>1, <2>2
  <1> QED BY <1>2, <1>3, <1>4

LEMMA OwnForward ==
  ASSUME IInv, TypeOK', todo # <<>>, NEW i \in Items, i = todo[1],
         \/ Begin(i) \/ Leave(i) \/ Complete(i) \/ Suspend(i)
         \/ Register(i) \/ Registration(i) \/ Resume(i) \/ NoResume(i)
  PROVE  Forward
  <1>1. /\ tasks \in [Calls -> Records] /\ (\A t \in Calls : CallOK(t)) /\ Tail(todo) \in Seq(Items)
        /\ \A t \in Calls : tasks[t] \in Records /\ tasks[t].wait \in Nat
        /\ i \in ToSet(todo)
    <2>1. tasks \in [Calls -> Records] /\ (\A t \in Calls : CallOK(t)) /\ todo \in Seq(Items)
      BY DEF IInv, TypeOK, CallsOK
    <2>2. Tail(todo) \in Seq(Items) /\ 1 \in DOMAIN todo
      BY <2>1, Popped
    <2>3. i \in ToSet(todo)
      BY <2>2 DEF ToSet
    <2>4. \A t \in Calls : tasks[t] \in Records /\ tasks[t].wait \in Nat
      BY <2>1 DEF Records
    <2> QED BY <2>1, <2>2, <2>3, <2>4
  <1>2. ASSUME tasks' = tasks
        PROVE  \A t \in Calls : tasks'[t].status # "done" =>
                 tasks[t].status # "done" /\ tasks'[t].wait >= tasks[t].wait
    BY <1>1, <1>2
  <1>3. ASSUME NEW x \in Items,
               \/ todo' = Tail(todo)
               \/ todo' = <<x>> \o Tail(todo)
               \/ \E f \in Fns : todo' = <<[op |-> "restart", fn |-> f]>> \o (<<x>> \o Tail(todo)),
               x.op = "register" =>
                 \/ tasks'[x.task].wait > tasks[x.task].wait
                 \/ i.op = "register" /\ i.task = x.task /\ i.n <= x.n
        PROVE  \A j \in ToSet(todo') : j.op = "register" =>
                 \/ tasks'[j.task].wait > tasks[j.task].wait
                 \/ \E q \in ToSet(todo) : q.op = "register" /\ q.task = j.task /\ q.n <= j.n
    <2> SUFFICES ASSUME NEW j \in ToSet(todo'), j.op = "register"
                 PROVE  \/ tasks'[j.task].wait > tasks[j.task].wait
                        \/ \E q \in ToSet(todo) : q.op = "register" /\ q.task = j.task /\ q.n <= j.n
      OBVIOUS
    <2>1. (j \in ToSet(todo) /\ j \in Items) \/ j = x
      BY <1>3, NewItem
    <2>2. CASE j \in ToSet(todo) /\ j \in Items
      <3>1. j.n <= j.n
        BY <2>2, ItemsAre
      <3> QED BY <2>2, <3>1
    <2>3. CASE j = x
      BY <1>1, <1>3, <2>3
    <2> QED BY <2>1, <2>2, <2>3
  <1>4. CASE Begin(i)
    <2>1. i.fn \in Fns /\ generations[i.fn] \in Nat
      BY <1>4, ItemsAre DEF Begin, Stacked, IInv, TypeOK
    <2>2. PICK f \in Fns : f = i.fn
      BY <2>1
    <2>3. PICK new : new = <<f, generations[f] + 1>>
      OBVIOUS
    <2>4. new \in Calls
      <3>1. generations'[f] = generations[f] + 1
        BY <1>4, <2>2 DEF Begin, IInv, TypeOK
      <3>2. generations'[f] <= MaxCalls[f]
        BY DEF TypeOK
      <3> QED BY <2>1, <2>2, <2>3, <3>1, <3>2, CallsAre
    <2>5. tasks[new].status = "none"
      BY <1>1, <2>1, <2>2, <2>3, <2>4 DEF CallOK, Fresh
    <2>6. tasks' = [tasks EXCEPT ![new].status = "live"] /\ todo' = <<[op |-> "segment", task |-> new]>> \o Tail(todo)
      BY <1>4, <2>2, <2>3 DEF Begin
    <2>7. \A t \in Calls : tasks'[t].status # "done" =>
            tasks[t].status # "done" /\ tasks'[t].wait >= tasks[t].wait
      <3> TAKE t \in Calls
      <3>1. CASE t = new
        <4>1. tasks'[t].wait = tasks[t].wait
          BY <1>1, <2>4, <2>6, <3>1 DEF Records
        <4> QED BY <1>1, <2>5, <3>1, <4>1
      <3>2. CASE t # new
        BY <1>1, <2>6, <3>2
      <3> QED BY <3>1, <3>2
    <2>8. PICK x \in Items : x = [op |-> "segment", task |-> new]
      BY <2>4, MadeItems
    <2> QED BY <1>3, <2>6, <2>7, <2>8 DEF Forward
  <1>5. CASE Leave(i) \/ NoResume(i)
    <2>1. tasks' = tasks
      BY <1>5 DEF Leave, NoResume, model
    <2>2. \E x \in Items : x.op # "register" /\ (todo' = Tail(todo) \/ todo' = <<x>> \o Tail(todo))
      <3>1. CASE todo' = Tail(todo)
        BY <1>5, <3>1 DEF Leave, NoResume
      <3>2. CASE NoResume(i) /\ todo' # Tail(todo)
        <4>1. i.task[1] \in Fns
          BY <3>2, ItemsAre, CallsAre DEF NoResume, Stacked
        <4>2. PICK x \in Items : x = [op |-> "cancel", fn |-> i.task[1]]
          BY <4>1, MadeItems
        <4>3. todo' = (IF Live(i.task) THEN <<x>> ELSE <<>>) \o Tail(todo)
          BY <3>2, <4>2 DEF NoResume
        <4>4. <<>> \o Tail(todo) = Tail(todo)
          BY <1>1
        <4> QED BY <3>2, <4>2, <4>3, <4>4
      <3> QED BY <1>5, <3>1, <3>2 DEF Leave
    <2> QED BY <1>2, <1>3, <2>1, <2>2 DEF Forward
  <1>6. CASE Complete(i)
    <2>1. i.task \in Calls /\ tasks' = [tasks EXCEPT ![i.task] = [Fresh EXCEPT !.status = "done"]] /\ todo' = Tail(todo)
          /\ i.op # "register"
      BY <1>6, ItemsAre DEF Complete, Stacked
    <2>2. \A t \in Calls : tasks'[t].status # "done" =>
            tasks[t].status # "done" /\ tasks'[t].wait >= tasks[t].wait
      <3> TAKE t \in Calls
      <3>1. CASE t = i.task
        BY <1>1, <2>1, <3>1 DEF Fresh
      <3>2. CASE t # i.task
        BY <1>1, <2>1, <3>2
      <3> QED BY <3>1, <3>2
    <2> QED BY <1>3, <2>1, <2>2 DEF Forward
  <1>7. CASE Suspend(i)
    <2>1. /\ i.task \in Calls /\ tasks[i.task].status # "done" /\ i.task[1] \in Fns
      <3>1. i.op = "segment" /\ UNCHANGED generations
        BY <1>7 DEF Suspend
      <3>2. i.task \in Calls /\ Held(i)
        BY <3>1, RunsNow
      <3> QED BY <3>1, <3>2, CallsAre DEF Held
    <2>2. PICK plan \in Plans[i.task[1]] :
            /\ tasks' = [tasks EXCEPT ![i.task] =
                           [tasks[i.task] EXCEPT !.wait = tasks[i.task].wait + 1, !.any = plan.any]]
            /\ todo' = <<[op |-> "register", task |-> i.task, n |-> 1, members |-> plan.members]>> \o Tail(todo)
      BY <1>7 DEF Suspend
    <2>3. PICK x \in Items : x = [op |-> "register", task |-> i.task, n |-> 1, members |-> plan.members]
      BY <2>1, MadeItems, TasksAssumption
    <2>4. tasks'[i.task].wait = tasks[i.task].wait + 1 /\ \A t \in Calls : t # i.task => tasks'[t] = tasks[t]
      BY <1>1, <2>1, <2>2 DEF Records
    <2>5. \A t \in Calls : tasks'[t].status # "done" =>
            tasks[t].status # "done" /\ tasks'[t].wait >= tasks[t].wait
      BY <1>1, <2>1, <2>4
    <2>6. x.task = i.task /\ tasks'[x.task].wait > tasks[x.task].wait
      BY <1>1, <2>1, <2>3, <2>4
    <2> QED BY <1>3, <2>2, <2>3, <2>5, <2>6 DEF Forward
  <1>8. CASE Register(i)
    <2>1. i.op = "register" /\ tasks' = tasks
      BY <1>8 DEF Register
    <2>2. PICK w \in Waits : Registers(i, w)
      BY <1>8, RegisterDoes DEF IInv
    <2>3. PICK x \in Items : x = [i EXCEPT !.n = @ + 1] /\ x.task = i.task /\ x.n = i.n + 1
      BY <2>1, NextMember
    <2>4. i.n <= x.n
      BY <2>1, <2>3, ItemsAre
    <2>5. \/ todo' = <<x>> \o Tail(todo)
          \/ \E f \in Fns : todo' = <<[op |-> "restart", fn |-> f]>> \o (<<x>> \o Tail(todo))
      BY <2>2, <2>3 DEF Registers, More
    <2> QED BY <1>2, <1>3, <2>1, <2>3, <2>4, <2>5 DEF Forward
  <1>9. CASE Registration(i)
    <2>1. i.op = "register" /\ i.task \in Calls /\ i.task[1] \in Fns /\ tasks' = [tasks EXCEPT ![i.task].suspended = TRUE]
      BY <1>9, ItemsAre, CallsAre DEF Registration, Stacked
    <2>2. PICK x \in Items : x = [op |-> "cancel", fn |-> i.task[1]]
      BY <2>1, MadeItems
    <2>3. todo' = Tail(todo) \/ todo' = <<x>> \o Tail(todo)
      <3>1. todo' = (IF Dead(Unreleased(i.task)) THEN <<x>> ELSE <<>>) \o Tail(todo)
        BY <1>9, <2>2 DEF Registration
      <3>2. <<>> \o Tail(todo) = Tail(todo)
        BY <1>1
      <3> QED BY <3>1, <3>2
    <2>4. \A t \in Calls : tasks'[t].status # "done" =>
            tasks[t].status # "done" /\ tasks'[t].wait >= tasks[t].wait
      <3> TAKE t \in Calls
      <3>1. tasks'[t].wait = tasks[t].wait /\ tasks'[t].status = tasks[t].status
        BY <1>1, <2>1 DEF Records
      <3> QED BY <1>1, <3>1
    <2> QED BY <1>3, <2>2, <2>3, <2>4 DEF Forward
  <1>10. CASE Resume(i)
    <2>1. i.op = "run" /\ i.task \in Calls /\ tasks' = [tasks EXCEPT ![i.task].suspended = FALSE]
          /\ todo' = <<[op |-> "segment", task |-> i.task]>> \o Tail(todo)
      BY <1>10, ItemsAre DEF Resume, Stacked
    <2>2. PICK x \in Items : x = [op |-> "segment", task |-> i.task]
      BY <2>1, MadeItems
    <2>3. \A t \in Calls : tasks'[t].status # "done" =>
            tasks[t].status # "done" /\ tasks'[t].wait >= tasks[t].wait
      <3> TAKE t \in Calls
      <3>1. tasks'[t].wait = tasks[t].wait /\ tasks'[t].status = tasks[t].status
        BY <1>1, <2>1 DEF Records
      <3> QED BY <1>1, <3>1
    <2> QED BY <1>3, <2>1, <2>2, <2>3 DEF Forward
  <1> QED BY <1>4, <1>5, <1>6, <1>7, <1>8, <1>9, <1>10

LEMMA FrameForward ==
  ASSUME IInv, Boundary \/ Drain \/ Drained \/ \E id \in host.asked : Deliver(id)
  PROVE  Forward
  <1>1. TypeOK /\ tasks \in [Calls -> Records] /\ todo \in Seq(Items) /\ tasks' = tasks
    BY DEF IInv, TypeOK, Boundary, Drain, Drained, Deliver, model
  <1>2. \A t \in Calls : tasks[t].wait \in Nat
    BY <1>1 DEF Records
  <1>3. CASE todo' = todo
    <2>1. \A j \in ToSet(todo) : j.op = "register" => j.n <= j.n
      <3>1. \A j \in ToSet(todo) : j \in Items
        BY <1>1 DEF ToSet
      <3> QED BY <3>1, ItemsAre
    <2> QED BY <1>1, <1>2, <1>3, <2>1 DEF Forward
  <1>4. CASE Boundary
    <2>1. \A n \in DOMAIN todo' : todo'[n].op = "run"
      BY <1>1, <1>4, BoundaryDoes
    <2>2. \A j \in ToSet(todo') : j.op = "run"
      BY <2>1 DEF ToSet
    <2> QED BY <1>1, <1>2, <2>2 DEF Forward
  <1> QED BY <1>3, <1>4 DEF Drain, Drained, Deliver, model

-----------------------------------------------------------------------------
(* Every step keeps the invariant.                                          *)

LEMMA ItemStep ==
  ASSUME IInv, todo # <<>>, NEW i \in Items, i = todo[1],
         \/ Begin(i) \/ Leave(i) \/ Complete(i) \/ Suspend(i)
         \/ Register(i) \/ Registration(i) \/ Resume(i) \/ NoResume(i)
  PROVE  IInv'
  <1>1. TypeOK /\ phase = "handlers" /\ todo \in Seq(Items)
    BY DEF IInv, TypeOK, CallsOK, StackOK
  <1>2. TypeOK'
    <2>1. CASE Leave(i)
      <3>1. todo' \in Seq(Items)
        BY <1>1, <2>1, Popped DEF Leave
      <3> QED BY <1>1, <2>1, <3>1 DEF Leave, TypeOK, model, world
    <2>2. CASE NoResume(i)
      <3>1. i.op = "run" /\ i.task[1] \in Fns
        BY <2>2, ItemsAre, CallsAre DEF NoResume, Stacked
      <3>2. PICK x \in Items : x = [op |-> "cancel", fn |-> i.task[1]]
        BY <3>1, MadeItems
      <3>3. todo' = (IF Live(i.task) THEN <<x>> ELSE <<>>) \o Tail(todo)
        BY <2>2, <3>2 DEF NoResume
      <3>4. todo' \in Seq(Items)
        BY <1>1, <3>3, Popped
      <3> QED BY <1>1, <2>2, <3>4 DEF NoResume, TypeOK, model, world
    <2> QED BY <1>1, <2>1, <2>2, OwnTypes, RegisterTypes, ResumeTypes
  <1>3. Forward
    BY <1>2, OwnForward
  <1>4. CallsOK'
    BY <1>2, BeginKeeps, LeaveKeeps, CompleteKeeps, SuspendKeeps, RegisterKeeps, RegistrationKeeps,
       ResumeKeeps, NoResumeKeeps
  <1>5. AskedOnce' /\ HostOK'
    <2>1. CASE Register(i)
      BY <1>2, <1>3, <2>1, RegisterHost
    <2>2. CASE Resume(i)
      <3>1. Pending(i.task) \in SUBSET DOMAIN requests /\ Drops(Pending(i.task))
        BY <2>2 DEF Resume, Drops, Pending, Unreleased
      <3>2. UNCHANGED <<host, deliveries>> /\ phase' = "handlers"
        BY <1>1, <2>2 DEF Resume, world
      <3> QED BY <1>2, <1>3, <3>1, <3>2, DropsHost
    <2>3. CASE Begin(i) \/ Leave(i) \/ Complete(i) \/ Suspend(i) \/ Registration(i) \/ NoResume(i)
      <3>1. UNCHANGED <<requests, commands, host, deliveries>> /\ phase' = "handlers"
        BY <1>1, <2>3 DEF Begin, Leave, Complete, Suspend, Registration, NoResume, model, world
      <3> QED BY <1>2, <1>3, <3>1, QuietHost
    <2> QED BY <2>1, <2>2, <2>3
  <1> QED BY <1>2, <1>4, <1>5 DEF IInv

LEMMA CancellingStep ==
  ASSUME IInv, Cancelling
  PROVE  IInv'
  <1>1. PICK S : /\ CancelAll(S) /\ Turned(S) /\ UNCHANGED <<generations, world>>
                 /\ mounted' \subseteq mounted /\ phase = "handlers" /\ todo' \in Seq(Items)
                 /\ bounds' \in [cancels : Nat, spurious : Nat]
                 /\ \A t \in Calls : Live(t) /\ Home[t[1]] \notin mounted' => t \in S
    BY CancellingIs
  <1>2. TypeOK /\ UNCHANGED generations /\ UNCHANGED <<host, deliveries>> /\ phase' = phase
    BY <1>1 DEF IInv, world
  <1>3. TypeOK'
    BY <1>1, <1>2, CancelTypes
  <1>4. CallsOK'
    BY <1>1, <1>2, <1>3, CancelKeeps
  <1>5. Forward
    BY <1>1, <1>2, CancelForward
  <1>6. Lost(S) \in SUBSET DOMAIN requests /\ Drops(Lost(S))
    BY <1>1, <1>2, CancelAllDoes
  <1>7. AskedOnce' /\ HostOK'
    BY <1>1, <1>2, <1>3, <1>5, <1>6, DropsHost
  <1> QED BY <1>3, <1>4, <1>7 DEF IInv

LEMMA FrameStep ==
  ASSUME IInv, Boundary \/ Drain \/ Drained \/ \E id \in host.asked : Deliver(id)
  PROVE  IInv'
  <1>1. TypeOK' /\ CallsOK' /\ Forward
    BY FrameTypes, FrameKeeps, FrameForward DEF IInv
  <1>2. AskedOnce' /\ HostOK'
    <2>1. CASE Boundary
      BY <1>1, <2>1, BoundaryHost
    <2>2. CASE Drain
      BY <1>1, <2>2, DrainHost
    <2>3. CASE Drained
      <3>1. UNCHANGED <<requests, commands, host, deliveries>> /\ commands = <<>>
        BY <2>3 DEF Drained, model
      <3> QED BY <1>1, <3>1, QuietHost
    <2>4. CASE \E id \in host.asked : Deliver(id)
      BY <1>1, <2>4, DeliverHost
    <2> QED BY <2>1, <2>2, <2>3, <2>4
  <1> QED BY <1>1, <1>2 DEF IInv

(* A step is a cancellation, another step of the first item's call, or one  *)
(* of the frame or of the host.                                             *)
LEMMA Steps ==
  ASSUME IInv, Next
  PROVE  \/ Cancelling
         \/ /\ todo # <<>>
            /\ \E i \in Items : /\ i = todo[1]
                                /\ \/ Begin(i) \/ Leave(i) \/ Complete(i) \/ Suspend(i)
                                   \/ Register(i) \/ Registration(i) \/ Resume(i) \/ NoResume(i)
         \/ Boundary \/ Drain \/ Drained \/ \E id \in host.asked : Deliver(id)
  <1>1. CASE todo # <<>> /\ Step(Head(todo))
    <2>1. todo \in Seq(Items)
      BY DEF IInv, TypeOK
    <2>2. PICK i \in Items : i = todo[1] /\ i = Head(todo)
      BY <1>1, <2>1, Popped
    <2>3. Step(i)
      BY <1>1, <2>2
    <2> QED BY <1>1, <2>2, <2>3 DEF Step, Cancelling
  <1> QED BY <1>1 DEF Next, Cancelling

LEMMA StepKeeps == IInv /\ [Next]_vars => IInv'
  <1>1. ASSUME IInv, Next PROVE IInv'
    BY <1>1, Steps, CancellingStep, ItemStep, FrameStep
  <1>2. ASSUME IInv, UNCHANGED vars PROVE IInv'
    <2>1. /\ UNCHANGED <<generations, tasks, mounted, requests, commands, deliveries, host, phase, todo>>
          /\ UNCHANGED <<bounds, selfish>>
      BY <1>2 DEF vars, model, world
    <2>2. TypeOK'
      BY <1>2, <2>1 DEF IInv, TypeOK
    <2>3. CallsOK'
      <3>1. /\ (\A t \in Calls : CallOK(t)) /\ StackOK /\ HeadOK /\ WaitsOK
        BY <1>2 DEF IInv, CallsOK
      <3>2. \A t \in Calls : CallOK(t)'
        BY <2>1, <3>1 DEF CallOK, Live, Current, Running
      <3>3. StackOK' /\ HeadOK'
        BY <2>1, <3>1 DEF StackOK, HeadOK, Held, Live, Unreleased, MayStart, Current
      <3>4. WaitsOK'
        BY <2>1, <3>1 DEF WaitsOK, Live, Unreleased, Dead, Doomed
      <3> QED BY <3>2, <3>3, <3>4 DEF CallsOK
    <2>4. AskedOnce'
      BY <1>2, <2>1 DEF IInv, AskedOnce, Known, Asking, Passed
    <2>5. HostOK'
      BY <1>2, <2>1 DEF IInv, HostOK, Registry, Withdrawing, Known, Asking, Active
    <2> QED BY <2>2, <2>3, <2>4, <2>5 DEF IInv
  <1> QED BY <1>1, <1>2

LEMMA InitHolds == Init => IInv
  <1> SUFFICES ASSUME Init PROVE IInv
    OBVIOUS
  <1>1. /\ generations = [f \in Fns |-> 0] /\ tasks = [t \in Calls |-> Fresh] /\ mounted = Regions
        /\ requests = <<>> /\ commands = <<>> /\ deliveries = {} /\ todo = <<>> /\ phase = "idle"
        /\ host = [open |-> {}, asked |-> {}] /\ bounds = [cancels |-> 0, spurious |-> 0] /\ selfish = {}
    BY DEF Init
  <1>2. DOMAIN requests = {} /\ DOMAIN commands = {} /\ DOMAIN todo = {}
    BY <1>1
  <1>3. TypeOK
    <2>1. IsFiniteSet(DOMAIN requests)
      BY <1>2, FS_EmptySet
    <2>2. Fresh \in Records
      BY DEF Fresh, Records
    <2>3. \A f \in Fns : MaxCalls[f] \in Nat
      BY TasksAssumption
    <2>4. requests \in [DOMAIN requests -> Waits]
      BY <1>1, <1>2
    <2> QED BY <1>1, <1>2, <2>1, <2>2, <2>3, <2>4 DEF TypeOK
  <1>4. CallsOK
    <2>1. \A t \in Calls : tasks[t] = Fresh /\ tasks[t].status = "none"
      BY <1>1 DEF Fresh
    <2>2. \A t \in Calls : CallOK(t)
      BY <1>1, <2>1 DEF CallOK, Live
    <2>3. StackOK /\ HeadOK
      BY <1>1, <1>2 DEF StackOK, HeadOK, Ordered, ToSet
    <2>4. WaitsOK
      BY <1>2, <2>1 DEF WaitsOK, Live
    <2> QED BY <2>2, <2>3, <2>4 DEF CallsOK
  <1>5. Known = {}
    BY <1>1, <1>2 DEF Known
  <1>6. AskedOnce
    BY <1>1, <1>2, <1>5 DEF AskedOnce
  <1>7. HostOK
    <2>1. \A r \in Regions : Active(r) = {}
      BY <1>2 DEF Active
    <2>2. \A r \in Regions : Cardinality(Active(r)) <= Capacity
      <3>1. 0 <= Capacity /\ Cardinality({}) = 0
        BY FS_EmptySet, TasksAssumption
      <3> QED BY <2>1, <3>1
    <2>3. host.open = {}
      BY <1>1
    <2> QED BY <1>2, <2>2, <2>3 DEF HostOK
  <1> QED BY <1>3, <1>4, <1>6, <1>7 DEF IInv

-----------------------------------------------------------------------------
(* IInv holds for all functions, regions, plans and bounds.                 *)
THEOREM Inductive == Spec => []IInv
  <1>1. Init => IInv
    BY InitHolds
  <1>2. IInv /\ [Next]_vars => IInv'
    BY StepKeeps
  <1> QED BY <1>1, <1>2, PTL DEF Spec

(* Between segments every registered wait is a live call's, every live call *)
(* waits, and cancelling, restarting and unmounting have reached the calls  *)
(* that await the cancelled one, in every region (cancel, release).         *)
THEOREM WaitsLive == Spec => []WaitsAreLive
  <1>1. ASSUME IInv PROVE WaitsAreLive
    <2> SUFFICES ASSUME todo = <<>>
                 PROVE  /\ Waiting \subseteq {t \in Calls : Live(t)} \cup selfish
                        /\ \A t \in Calls : Live(t) => t \in Waiting /\ tasks[t].suspended
                        /\ \A t \in Calls \ selfish : ~(Live(t) /\ Dead(Pending(t)))
      BY DEF WaitsAreLive, AtRest
    <2>1. TypeOK /\ WaitsOK /\ \A t \in Calls : CallOK(t)
      BY <1>1 DEF IInv, CallsOK
    <2>2. \A t \in Calls : ~Running(t) /\ ~Doomed(t)
      BY DEF Running, Doomed
    <2>3. Waiting \subseteq {t \in Calls : Live(t)} \cup selfish
      BY <2>1 DEF Waiting, TypeOK, WaitsOK
    <2>4. \A t \in Calls : Live(t) =>
            tasks[t].suspended /\ Unreleased(t) # {} /\ ~Dead(Unreleased(t)) /\ Pending(t) = Unreleased(t)
      BY <2>1, <2>2 DEF CallOK, WaitsOK, Pending
    <2>5. \A t \in Calls : Unreleased(t) # {} => t \in Waiting
      BY DEF Waiting, Unreleased
    <2> QED BY <2>3, <2>4, <2>5
  <1> QED BY <1>1, Inductive, PTL

(* Once a frame's commands are drained, the host works only on requests     *)
(* that somebody waits for, and in a region on no more of the service's     *)
(* than its capacity: losers of a race, cancelled and unmounted calls are   *)
(* withdrawn (release, then the command queue in order).                    *)
THEOREM HostFollowsCalls == Spec => []HostFollows
  <1>1. ASSUME IInv PROVE HostFollows
    <2> SUFFICES ASSUME phase = "idle"
                 PROVE  /\ \A id \in host.open :
                             /\ Key(id) \in DOMAIN requests /\ requests[Key(id)].id = id
                             /\ Live(Task(id)) \/ Task(id) \in selfish
                        /\ \A r \in Regions :
                             Cardinality({id \in host.open :
                               Home[id.fn] = r /\ requests[Key(id)].kind = "service"}) <= Capacity
      BY DEF HostFollows
    <2>1. /\ TypeOK /\ WaitsOK /\ AskedOnce /\ HostOK /\ commands = <<>>
          /\ host.open \subseteq Known /\ Known \subseteq Ids
      BY <1>1, KnownAre DEF IInv, CallsOK, AskedOnce
    <2>2. \A id \in host.open : Key(id) \in DOMAIN requests /\ requests[Key(id)].id = id
      <3> TAKE id \in host.open
      <3>1. Key(id) \in DOMAIN requests
        BY <2>1 DEF HostOK, Registry
      <3>2. PICK k \in DOMAIN requests : k = Key(id)
        BY <3>1
      <3>3. Key(requests[k].id) = k /\ requests[k].id \in Ids /\ id \in Ids
        BY <2>1 DEF TypeOK, Waits
      <3> QED BY <3>2, <3>3, KeysDiffer
    <2>3. \A id \in host.open : Live(Task(id)) \/ Task(id) \in selfish
      BY <2>1, <2>2 DEF WaitsOK
    <2>4. ASSUME NEW r \in Regions
          PROVE  Cardinality({id \in host.open : Home[id.fn] = r /\ requests[Key(id)].kind = "service"})
                   <= Capacity
      <3>1. PICK D : D = {id \in host.open : Home[id.fn] = r /\ requests[Key(id)].kind = "service"}
        OBVIOUS
      <3>2. PICK A : A = Active(r)
        OBVIOUS
      <3>3. PICK F : F = [id \in D |-> Key(id)]
        OBVIOUS
      <3>4. \A id \in D : F[id] \in A
        <4> SUFFICES ASSUME NEW id \in D PROVE F[id] \in A
          OBVIOUS
        <4>1. /\ id \in host.open /\ id \in Known /\ Home[id.fn] = r
              /\ requests[Key(id)].kind = "service" /\ Key(id) \in DOMAIN requests
              /\ requests[Key(id)].id = id
          BY <2>1, <2>2, <3>1
        <4>2. requests[Key(id)].reserved /\ ~requests[Key(id)].delivered
          BY <2>1, <4>1 DEF HostOK
        <4> QED BY <3>2, <3>3, <4>1, <4>2 DEF Active
      <3>5. \A id, jd \in D : F[id] = F[jd] => id = jd
        BY <2>1, <3>1, <3>3, KeysDiffer
      <3>6. F \in Injection(D, A)
        BY <3>3, <3>4, <3>5 DEF Injection, IsInjective
      <3>7. IsFiniteSet(A) /\ Cardinality(A) <= Capacity
        <4>1. A \in SUBSET DOMAIN requests
          BY <3>2 DEF Active
        <4> QED BY <2>1, <3>2, <4>1, FS_Subset DEF TypeOK, HostOK
      <3>8. IsFiniteSet(D) /\ Cardinality(D) <= Cardinality(A)
        BY <3>6, <3>7, FS_Injection
      <3>9. Cardinality(D) \in Nat /\ Cardinality(A) \in Nat
        BY <3>7, <3>8, FS_CardinalityType
      <3> QED BY <3>1, <3>7, <3>8, <3>9, TasksAssumption
    <2> QED BY <2>2, <2>3, <2>4
  <1> QED BY <1>1, Inductive, PTL

(* A wait ends with the answer to its own request, however late, repeated   *)
(* or withdrawn the others are (deliverModelResult, pendingRequests).       *)
THEOREM AnswersOwn == Spec => []AnswersAreOwn
  <1>1. ASSUME IInv PROVE AnswersAreOwn
    BY <1>1 DEF IInv, HostOK, AnswersAreOwn
  <1> QED BY <1>1, Inductive, PTL

(* No step takes a call back from cancelled, but its own segment's end.     *)
Final ==
  \A t \in Calls : /\ tasks[t].status = "cancelled"
                   /\ tasks'[t].status # "cancelled"
                   => t \in selfish

LEMMA StaysCancelled == IInv /\ IInv' /\ [Next]_vars => Final
  <1>1. ASSUME IInv, IInv', Next PROVE Final
    <2>1. /\ tasks \in [Calls -> Records] /\ TypeOK /\ TypeOK' /\ generations \in [Fns -> Nat]
          /\ \A t \in Calls : CallOK(t)
      BY <1>1 DEF IInv, TypeOK, CallsOK
    <2>2. CASE Cancelling
      <3>1. PICK S : CancelAll(S)
        BY <1>1, <2>2, CancellingIs
      <3>2. /\ \A t \in Calls \ Cancelled(S) : tasks'[t] = tasks[t]
            /\ \A t \in Cancelled(S) : tasks'[t].status = "cancelled"
        BY <2>1, <3>1, CancelAllDoes
      <3> QED BY <3>2 DEF Final
    <2>3. ASSUME todo # <<>>, NEW i \in Items, i = todo[1],
                 \/ Begin(i) \/ Leave(i) \/ Complete(i) \/ Suspend(i)
                 \/ Register(i) \/ Registration(i) \/ Resume(i) \/ NoResume(i)
          PROVE  Final
      <3>1. CASE Begin(i)
        <4>1. i.op = "begin" /\ i.fn \in Fns
          BY <3>1, ItemsAre DEF Begin, Stacked
        <4>2. PICK new : new = <<i.fn, generations[i.fn] + 1>>
          OBVIOUS
        <4>3. new \in Calls => tasks[new].status = "none"
          BY <2>1, <4>1, <4>2 DEF CallOK, Fresh
        <4>4. \A t \in Calls : t # new => tasks'[t] = tasks[t]
          BY <2>1, <3>1, <4>2 DEF Begin
        <4> QED BY <4>3, <4>4 DEF Final
      <3>2. CASE Complete(i)
        <4>1. i.op = "segment" /\ UNCHANGED generations /\ \A t \in Calls : t # i.task => tasks'[t] = tasks[t]
          BY <2>1, <3>2 DEF Complete
        <4>2. i.task \in Calls /\ (Live(i.task) \/ i.task \in selfish)
          BY <1>1, <2>3, <4>1, RunsNow DEF Held
        <4> QED BY <4>1, <4>2 DEF Final, Live
      <3>3. CASE Leave(i) \/ NoResume(i) \/ Register(i)
        BY <3>3 DEF Leave, NoResume, Register, model, Final
      <3>4. CASE Suspend(i)
        <4>1. i.task \in Calls
          BY <3>4, ItemsAre DEF Suspend, Stacked
        <4>2. PICK plan : tasks' = [tasks EXCEPT ![i.task] =
                                     [tasks[i.task] EXCEPT !.wait = tasks[i.task].wait + 1, !.any = plan.any]]
          BY <3>4 DEF Suspend
        <4>3. \A t \in Calls : tasks'[t].status = tasks[t].status
          BY <2>1, <4>1, <4>2 DEF Records
        <4> QED BY <4>3 DEF Final
      <3>5. CASE Registration(i) \/ Resume(i)
        <4>1. i.task \in Calls
          BY <3>5, ItemsAre DEF Registration, Resume, Stacked
        <4>2. PICK b \in BOOLEAN : tasks' = [tasks EXCEPT ![i.task].suspended = b]
          BY <3>5 DEF Registration, Resume
        <4>3. \A t \in Calls : tasks'[t].status = tasks[t].status
          BY <2>1, <4>1, <4>2 DEF Records
        <4> QED BY <4>3 DEF Final
      <3> QED BY <2>3, <3>1, <3>2, <3>3, <3>4, <3>5
    <2>4. CASE Boundary \/ Drain \/ Drained \/ \E id \in host.asked : Deliver(id)
      BY <2>4 DEF Boundary, Drain, Drained, Deliver, model, Final
    <2> QED BY <1>1, <2>2, <2>3, <2>4, Steps
  <1>2. ASSUME UNCHANGED vars PROVE Final
    BY <1>2 DEF vars, model, Final
  <1> QED BY <1>1, <1>2

(* A cancelled call stays so: a boundary that found it ready, an earlier    *)
(* resumption and its calls do not bring it back (snapshot's deferred       *)
(* steps); only a call that cancels itself goes on to the segment's end.    *)
THEOREM CancelFinal == Spec => CancelIsFinal
  <1>1. IInv /\ IInv' /\ [Next]_vars => [Final]_vars
    BY StaysCancelled
  <1>2. CancelIsFinal <=> [][Final]_vars
    BY DEF CancelIsFinal, Final
  <1> HIDE DEF Final
  <1> QED BY <1>1, <1>2, Inductive, PTL DEF Spec

=============================================================================
