--------------------------- MODULE ResourceCache ----------------------------
(***************************************************************************)
(* The shared read scheduler of the framework (resource-cache.ts): caches  *)
(* of one identity each, admitted against entry and cost budgets, whose    *)
(* loads share one concurrency budget and are started, materialized and    *)
(* preempted by an explicit step once per UI frame.                        *)
(*                                                                         *)
(* JavaScript runs one call at a time: a load answers between calls, or    *)
(* inside the call that starts it.  A frame number is kept as a distance   *)
(* (backoff, age), an order as a place in a sequence, a generation as a    *)
(* token that matches the completions of one load; keys stand for inputs.  *)
(* The caches have one configuration, and exist when the model starts.     *)
(***************************************************************************)
EXTENDS Integers, FiniteSets, Sequences, SequencesExt, FiniteSetsExt, Lists

CONSTANTS
  Keys, Caches,          (* inputs; caches, 1 .. n in order of creation     *)
  HomeOf, Cost,          (* the cache of a key and its cost()               *)
  MaxEntries, MaxCost,   (* budgets of each cache                           *)
  MaxAge,                (* maxAgeFrames, 0 for none                        *)
  Attempts, Delay, MaxDelay,                          (* retry              *)
  MaxConcurrent, StartsPerFrame, CompletionsPerFrame, (* of the scheduler   *)
  Plans,                 (* demands a controller may pass to reconcile      *)
  Refusing,              (* keys whose loader declines every start          *)
  Latency,               (* bound: frames before a load can answer          *)
  MaxLate,               (* bound: completions that outlive their load      *)
  Env                    (* bound: what loaders and controllers do here     *)

Demands == [key : Keys, priority : Nat, pin : BOOLEAN]

(* "The planner supplies highest-priority demands first for admission."     *)
ASSUME CacheAssumption ==
  /\ Caches = 1 .. Cardinality(Caches)
  /\ HomeOf \in [Keys -> Caches] /\ Cost \in [Keys -> Nat \ {0}]
  /\ {MaxEntries, MaxCost, Attempts, Delay, MaxDelay} \subseteq Nat \ {0}
  /\ {MaxConcurrent, StartsPerFrame, CompletionsPerFrame} \subseteq Nat \ {0}
  /\ {MaxAge, Latency, MaxLate} \subseteq Nat /\ Refusing \subseteq Keys
  /\ Plans \subseteq Seq(Demands)
  /\ \A p \in Plans : \A i \in 1 .. Len(p) :
       /\ i > 1 => p[i - 1].priority <= p[i].priority
       /\ HomeOf[p[i].key] = HomeOf[p[1].key]

VARIABLES
  residents,  (* the keys with an entry, in order of admission              *)
  entry,      (* the entry of each key                                      *)
  cost,       (* reserved in each cache                                     *)
  active,     (* loads charged to the scheduler                             *)
  arrived,    (* entries with a result, in order of completion              *)
  dead,       (* caches disposed of                                         *)
  pc, n,      (* where reconcile or step is; completions, starts so far     *)
  wanted, todo,               (* merged demands, and those not looked at    *)
  flights,    (* loads, and completions that outlive them (live = FALSE)    *)
  alive,      (* values materialized for a key and not disposed of          *)
  failures,   (* history: reads of a key failed since it was last healthy   *)
  intruded    (* history: a result was taken from a withdrawn load          *)

caches == <<residents, entry, cost, dead>>
loads  == <<active, arrived, flights>>
place  == <<pc, n, wanted, todo>>
vars   == <<caches, loads, place, alive, failures, intruded>>

Blank == [desired |-> FALSE, pin |-> FALSE, priority |-> 0, touched |-> 0,
          busy |-> FALSE, generation |-> 0, result |-> "none", charged |-> FALSE,
          attempts |-> 0, backoff |-> 0, age |-> 0, declined |-> FALSE,
          state |-> "pending", value |-> 0, stale |-> TRUE, error |-> FALSE]

Init ==
  /\ residents = <<>> /\ entry = [k \in Keys |-> Blank]
  /\ cost = [c \in Caches |-> 0] /\ dead = {}
  /\ active = 0 /\ arrived = <<>> /\ flights = {}
  /\ pc = "idle" /\ n = 0 /\ wanted = <<>> /\ todo = <<>>
  /\ alive = [k \in Keys |-> {}] /\ failures = [k \in Keys |-> 0] /\ intruded = FALSE

Resident(c) == {k \in ToSet(residents) : HomeOf[k] = c}
Rank(k) == CHOOSE i \in DOMAIN residents : residents[i] = k
TotalCost(K) == MapThenSumSet(LAMBDA k : Cost[k], K)

(* Slip: a withdrawn attempt stays counted.                                 *)
HaltedCharged(e) ==
  [e EXCEPT !.generation = 0, !.busy = FALSE, !.charged = FALSE, !.result = "none"]

-----------------------------------------------------------------------------
(* stop: no completion of the load counts any more, and a start that had    *)
(* been charged as an attempt is given back.                                *)
Halted(e) ==
  [e EXCEPT !.generation = 0, !.busy = FALSE, !.charged = FALSE, !.result = "none",
            !.attempts = IF e.busy /\ e.charged THEN @ - 1 ELSE @]

(* Slip: an entry with nothing under way gives credit back as well.         *)
CreditsOfAll(K) == Cardinality(K)
Credits(K) == Cardinality({k \in K : entry[k].busy})

(* The rest of stop, for the entries of K: credit, result and cancel().  A  *)
(* cancelled load may answer all the same.                                  *)
Withdraw(K) ==
  LET mine == {f \in flights : f.key \in K /\ f.live}
  IN /\ active' = active - Credits(K)
     /\ arrived' = Omit(arrived, K)
     /\ \E late \in SUBSET mine :
          /\ flights' = (flights \ mine) \cup {[f EXCEPT !.live = FALSE] : f \in late}
          /\ Cardinality({f \in flights' : ~f.live}) <= MaxLate

(* config.dispose of the values of K.                                       *)
Disposed(K) == [k \in Keys |-> IF k \in K THEN alive[k] \ {entry[k].value} ELSE alive[k]]

Drop(K) ==
  /\ Withdraw(K)
  /\ residents' = Omit(residents, K)
  /\ cost' = [c \in Caches |-> cost[c] - TotalCost(K \cap Resident(c))]
  /\ entry' = [k \in Keys |-> IF k \in K THEN Blank ELSE entry[k]]
  /\ alive' = Disposed(K)
  /\ failures' = [k \in Keys |-> IF k \in K THEN 0 ELSE failures[k]]

-----------------------------------------------------------------------------
(* reconcile: "replaces this cache's bounded working set."                  *)

(* The demands of one key become one: the lowest priority, any pin.         *)
Merged(plan) ==
  LET keys == FoldLeft(LAMBDA seen, d : IF Contains(seen, d.key) THEN seen ELSE Append(seen, d.key),
                       <<>>, plan)
      Of(k) == {d \in ToSet(plan) : d.key = k}
  IN [i \in DOMAIN keys |-> [key |-> keys[i],
                             priority |-> Min({d.priority : d \in Of(keys[i])}),
                             pin |-> \E d \in Of(keys[i]) : d.pin]]

(* Slip: work that left the demand goes on.                                 *)
MarkedOnly(k, demands) ==
  [entry[k] EXCEPT !.desired = \E d \in demands : d.key = k, !.pin = FALSE, !.touched = 0]

Marked(k, demands) ==
  IF \E d \in demands : d.key = k
  THEN LET d == CHOOSE d \in demands : d.key = k
       IN [entry[k] EXCEPT !.desired = TRUE, !.pin = d.pin, !.priority = d.priority, !.touched = 0]
  ELSE LET e == [entry[k] EXCEPT !.desired = FALSE, !.pin = FALSE]
       IN IF e.busy THEN Halted(e) ELSE e

Obsolete(c, demands) ==
  {k \in Resident(c) : entry[k].busy /\ \A d \in demands : d.key # k}

Reconcile(c, plan) ==
  LET demands == ToSet(Merged(plan))
  IN /\ pc = "idle" /\ c \notin dead /\ Len(plan) <= MaxEntries
     /\ \A d \in demands : HomeOf[d.key] = c
     /\ Withdraw(Obsolete(c, demands))
     /\ entry' = [k \in Keys |-> IF k \in Resident(c) THEN Marked(k, demands) ELSE entry[k]]
     /\ pc' = "admit" /\ wanted' = Merged(plan) /\ todo' = Merged(plan)
     /\ UNCHANGED <<residents, cost, dead, n, alive, failures, intruded>>

Fits(d) ==
  LET c == HomeOf[d.key]
  IN Cardinality(Resident(c)) < MaxEntries /\ cost[c] + Cost[d.key] <= MaxCost

(* Slip: only what nobody wants is evicted.                                 *)
EvictableIdle(d) == {k \in Resident(HomeOf[d.key]) : ~entry[k].pin /\ ~entry[k].desired}

Evictable(d) ==
  {k \in Resident(HomeOf[d.key]) :
     ~entry[k].pin /\ ~(entry[k].desired /\ entry[k].priority <= d.priority)}

(* Outside the working set first, then the less important, the longest      *)
(* untouched, the earliest admitted.                                        *)
Sooner(j, k) ==
  LET a == entry[j]
      b == entry[k]
  IN \/ ~a.desired /\ b.desired
     \/ /\ a.desired = b.desired
        /\ \/ a.priority > b.priority
           \/ a.priority = b.priority /\ a.touched > b.touched
           \/ a.priority = b.priority /\ a.touched = b.touched /\ Rank(j) < Rank(k)

Admitting == pc = "admit" /\ todo # <<>>
Passed == todo' = Tail(todo) /\ UNCHANGED <<pc, n, wanted, dead, intruded>>
Room(d) == d.key \in ToSet(residents) \/ Cost[d.key] > MaxCost \/ Fits(d)

Evict ==
  /\ Admitting /\ ~Room(Head(todo))
  /\ \E victim \in Evictable(Head(todo)) :
       /\ \A k \in Evictable(Head(todo)) \ {victim} : Sooner(victim, k)
       /\ Drop({victim})
  /\ UNCHANGED <<place, dead, intruded>>

(* Resident already, too dear for the cache, or nothing left to evict.      *)
PassOver ==
  /\ Admitting /\ Passed
  /\ LET d == Head(todo)
     IN \/ d.key \in ToSet(residents) \/ Cost[d.key] > MaxCost
        \/ ~Fits(d) /\ Evictable(d) = {}
  /\ UNCHANGED <<residents, entry, cost, loads, alive, failures>>

Admit ==
  LET d == Head(todo)
  IN /\ Admitting /\ Passed
     /\ d.key \notin ToSet(residents) /\ Fits(d)
     /\ residents' = Append(residents, d.key)
     /\ cost' = [cost EXCEPT ![HomeOf[d.key]] = @ + Cost[d.key]]
     /\ entry' = [entry EXCEPT ![d.key] =
                    [Blank EXCEPT !.desired = TRUE, !.pin = d.pin, !.priority = d.priority]]
     /\ UNCHANGED <<loads, alive, failures>>

ReconcileEnd ==
  /\ pc = "admit" /\ todo = <<>>
  /\ pc' = "idle" /\ wanted' = <<>>
  /\ UNCHANGED <<caches, loads, n, todo, alive, failures, intruded>>

-----------------------------------------------------------------------------
(* The other calls of a controller.                                         *)

Clear(c) ==
  /\ "clear" \in Env /\ pc = "idle" /\ Resident(c) # {}
  /\ Drop(Resident(c))
  /\ UNCHANGED <<place, dead, intruded>>

(* dispose of one cache, or of all with the scheduler: what is created then *)
(* belongs to a new scheduler, which starts as an idle one.                 *)
Dispose(C) ==
  /\ "dispose" \in Env /\ pc = "idle" /\ C \cap dead = {}
  /\ dead' = dead \cup C /\ Drop(UNION {Resident(c) : c \in C})
  /\ UNCHANGED <<place, intruded>>

(* createCache, again with the configuration of a cache disposed of.  The   *)
(* scheduler visits caches in order of creation, which their numbers are.   *)
CreateCache(c) ==
  /\ pc = "idle" /\ dead' = dead \ {c}
  /\ c \in dead /\ \A later \in Caches : later > c => later \in dead
  /\ UNCHANGED <<residents, entry, cost, loads, place, alive, failures, intruded>>

(* cancel of one cache or of the scheduler.                                 *)
Cancel(C) ==
  LET K == {k \in ToSet(residents) : HomeOf[k] \in C /\ entry[k].busy}
  IN /\ "cancel" \in Env /\ pc = "idle" /\ K # {}
     /\ Withdraw(K)
     /\ entry' = [k \in Keys |-> IF k \in K THEN Halted(entry[k]) ELSE entry[k]]
     /\ UNCHANGED <<residents, cost, dead, place, alive, failures, intruded>>

Invalidated(e, dropValue) ==
  [Halted(e) EXCEPT !.stale = TRUE, !.attempts = 0, !.backoff = 0, !.error = FALSE,
     !.state = IF dropValue \/ @ = "error" THEN "pending" ELSE @,
     !.value = IF dropValue THEN 0 ELSE @]

InvalidateEntries(K, dropValue) ==
  /\ pc = "idle" /\ K # {}
  /\ Withdraw(K)
  /\ entry' = [k \in Keys |-> IF k \in K THEN Invalidated(entry[k], dropValue) ELSE entry[k]]
  /\ alive' = Disposed(IF dropValue THEN K ELSE {})
  /\ failures' = [k \in Keys |-> IF k \in K THEN 0 ELSE failures[k]]
  /\ UNCHANGED <<residents, cost, dead, place, intruded>>

Invalidate(c) ==
  /\ "invalidate" \in Env
  /\ \E K \in SUBSET Resident(c), dropValue \in BOOLEAN : InvalidateEntries(K, dropValue)

Failing(e) == e.state = "error" \/ e.error \/ (~e.busy /\ e.stale /\ e.attempts > 0)

RetryFailed(c) ==
  /\ "retry" \in Env
  /\ InvalidateEntries({k \in Resident(c) : Failing(entry[k])}, FALSE)

-----------------------------------------------------------------------------
(* step: once per UI frame.                                                 *)

(* The frame counter moves on.  An order of ages is all touched is for.     *)
Aged(k) ==
  LET younger == {entry[j].touched : j \in ToSet(residents)} \cap 0 .. entry[k].touched - 1
  IN [entry[k] EXCEPT !.backoff = IF @ > 0 THEN @ - 1 ELSE 0,
                      !.age = IF @ < MaxAge THEN @ + 1 ELSE @,
                      !.declined = FALSE, !.touched = 1 + Cardinality(younger)]

Step ==
  /\ pc = "idle" /\ pc' = "complete" /\ n' = 0
  /\ entry' = [k \in Keys |-> IF k \in ToSet(residents) THEN Aged(k) ELSE entry[k]]
  /\ flights' = {[f EXCEPT !.left = IF @ > 0 THEN @ - 1 ELSE 0] : f \in flights}
  /\ UNCHANGED <<residents, cost, dead, active, arrived, wanted, todo, alive, failures, intruded>>

(* The oldest result of all caches is the next to be materialized.          *)
NextResult == Head(arrived)

Taken(e) == [e EXCEPT !.result = "none", !.busy = FALSE, !.charged = FALSE]

(* Slip: the value replaced is not disposed of.                             *)
Beside(k, value) == alive[k] \cup {value}
Replaced(k, value) == (alive[k] \ {entry[k].value}) \cup {value}

Materialized(k, value) ==
  /\ entry[k].result = "ok"
  /\ entry' = [entry EXCEPT ![k] =
       [Taken(@) EXCEPT !.state = "ready", !.value = value, !.stale = FALSE, !.error = FALSE,
                        !.attempts = 0, !.age = 0]]
  /\ alive' = [alive EXCEPT ![k] = Replaced(k, value)]
  /\ failures' = [failures EXCEPT ![k] = 0]

(* The loader failed or materialize threw; the error may be undefined.      *)
Failed(k) ==
  /\ entry[k].result = "failed" \/ "throw" \in Env
  /\ \E error \in BOOLEAN :
       entry' = [entry EXCEPT ![k] =
         [Taken(entry[k]) EXCEPT !.error = error, !.stale = TRUE,
            !.backoff = Min({MaxDelay, Delay * 2 ^ Min({20, entry[k].attempts - 1})}),
            !.state = IF @ = "ready" THEN @ ELSE "error"]]
  /\ failures' = [failures EXCEPT ![k] = @ + 1]
  /\ UNCHANGED alive

Complete ==
  /\ pc = "complete" /\ n < CompletionsPerFrame /\ arrived # <<>>
  /\ LET k == NextResult
         unused == Min(1 .. Cardinality(alive[k]) + 1 \ alive[k])
     IN /\ \/ \E value \in {unused} \cup {v \in {entry[k].value} : v # 0} : Materialized(k, value)
           \/ Failed(k)
        /\ arrived' = Omit(arrived, {k})
  /\ active' = active - 1 /\ n' = n + 1
  /\ UNCHANGED <<residents, cost, dead, flights, pc, wanted, todo, intruded>>

CompletionsEnd ==
  /\ pc = "complete" /\ (n >= CompletionsPerFrame \/ arrived = <<>>)
  /\ pc' = "start" /\ n' = 0
  /\ UNCHANGED <<caches, loads, wanted, todo, alive, failures, intruded>>

Expired(e) == MaxAge > 0 /\ e.age >= MaxAge

Startable(e) ==
  /\ e.desired /\ ~e.busy /\ ~e.declined /\ e.attempts < Attempts /\ e.backoff = 0
  /\ e.stale \/ e.state # "ready" \/ Expired(e)

Candidates == {k \in ToSet(residents) : Startable(entry[k])}

IsChosen(k) ==
  /\ k \in Candidates
  /\ \A j \in Candidates \ {k} :
       \/ entry[k].priority < entry[j].priority
       \/ entry[k].priority = entry[j].priority /\ Rank(k) < Rank(j)

Speculative == {k \in ToSet(residents) : entry[k].busy /\ ~entry[k].pin /\ entry[k].result = "none"}

IsWorst(k) ==
  /\ k \in Speculative
  /\ \A j \in Speculative \ {k} :
       \/ entry[k].priority > entry[j].priority
       \/ /\ entry[k].priority = entry[j].priority
          /\ HomeOf[k] < HomeOf[j] \/ (HomeOf[k] = HomeOf[j] /\ Rank(k) < Rank(j))

(* Slip: equals preempt each other.                                         *)
OutranksEqual(chosen, worst) == entry[worst].priority >= entry[chosen].priority

Outranks(chosen, worst) == entry[worst].priority > entry[chosen].priority

Starting == pc = "start" /\ n < StartsPerFrame
Full == active >= MaxConcurrent

(* Cancels the least important load for the chosen one.  The chosen stays   *)
(* chosen, so asking available() and starting it is the next iteration.     *)
Preempt ==
  /\ Starting /\ Full
  /\ \E chosen \in Candidates, worst \in Speculative :
       /\ IsChosen(chosen) /\ IsWorst(worst) /\ Outranks(chosen, worst)
       /\ Withdraw({worst})
       /\ entry' = [entry EXCEPT ![worst] = Halted(@)]
  /\ UNCHANGED <<residents, cost, dead, place, alive, failures, intruded>>

Unused(k) == Min(1 .. MaxLate + 1 \ {f.generation : f \in {g \in flights : g.key = k}})

Started(k, result) ==
  [entry[k] EXCEPT !.busy = TRUE, !.stale = TRUE, !.generation = Unused(k), !.result = result,
                   !.attempts = @ + 1, !.charged = TRUE]

StartLater(k) ==
  /\ entry' = [entry EXCEPT ![k] = Started(k, "none")]
  /\ flights' = flights \cup
       {[key |-> k, generation |-> Unused(k), left |-> Latency, live |-> TRUE]}
  /\ active' = active + 1 /\ n' = n + 1 /\ UNCHANGED arrived

(* load() completes before it returns, or throws.                           *)
StartNow(k) ==
  /\ \E result \in {r \in {"ok", "failed"} : (IF r = "ok" THEN "sync" ELSE "throw") \in Env} :
       entry' = [entry EXCEPT ![k] = Started(k, result)]
  /\ arrived' = Append(arrived, k)
  /\ active' = active + 1 /\ n' = n + 1 /\ UNCHANGED flights

(* load() returns false: stop, and not again in this frame.                 *)
Decline(k) ==
  /\ k \in Refusing \/ "decline" \in Env
  /\ entry' = [entry EXCEPT ![k] = [Halted(@) EXCEPT !.stale = TRUE, !.declined = TRUE]]
  /\ UNCHANGED <<loads, n>>

Start ==
  /\ Starting /\ ~Full
  /\ \E k \in Candidates :
       /\ IsChosen(k)
       /\ Decline(k) \/ (k \notin Refusing /\ (StartLater(k) \/ StartNow(k)))
  /\ UNCHANGED <<residents, cost, dead, pc, wanted, todo, alive, failures, intruded>>

(* Budget spent, nothing to start, nothing to preempt, or not available().  *)
StepEnd ==
  /\ pc = "start"
  /\ \/ n >= StartsPerFrame \/ Candidates = {}
     \/ Full /\ \A chosen \in Candidates, worst \in Speculative :
                  IsChosen(chosen) /\ IsWorst(worst) => ~Outranks(chosen, worst)
     \/ ~Full /\ "offline" \in Env
  /\ pc' = "idle" /\ n' = 0
  /\ UNCHANGED <<caches, loads, wanted, todo, alive, failures, intruded>>

(* Slip: completions are not told apart by generation.                      *)
AcceptsBusy(f) == LET e == entry[f.key] IN e.busy /\ e.result = "none"

-----------------------------------------------------------------------------
(* complete(result), between two calls.  A result over maxResponseBytes is  *)
(* a failed one.                                                            *)
Accepts(f) ==
  LET e == entry[f.key]
  IN HomeOf[f.key] \notin dead /\ e.busy /\ e.generation = f.generation /\ e.result = "none"

Answer(f) ==
  /\ pc = "idle" /\ f.left = 0
  /\ IF Accepts(f)
     THEN /\ \E result \in {"ok"} \cup {r \in {"failed"} : "fail" \in Env} :
               entry' = [entry EXCEPT ![f.key].result = result]
          /\ arrived' = Append(arrived, f.key)
          /\ intruded' = (intruded \/ ~f.live)
     ELSE UNCHANGED <<entry, arrived, intruded>>
  /\ \E again \in SUBSET {[f EXCEPT !.live = FALSE]} :    (* a duplicate later *)
       /\ flights' = (flights \ {f}) \cup again
       /\ Cardinality({g \in flights' : ~g.live}) <= MaxLate
  /\ UNCHANGED <<residents, cost, dead, active, place, alive, failures>>

-----------------------------------------------------------------------------
Controller ==
  \/ \E c \in Caches : \E plan \in Plans : Reconcile(c, plan)
  \/ \E c \in Caches : CreateCache(c) \/ Clear(c) \/ Dispose({c}) \/ Cancel({c})
                        \/ Invalidate(c) \/ RetryFailed(c)
  \/ Dispose(Caches) \/ Cancel(Caches)

Admission == Evict \/ PassOver \/ Admit \/ ReconcileEnd

Frame == Step \/ Complete \/ CompletionsEnd \/ Preempt \/ Start \/ StepEnd

Next == Controller \/ Admission \/ Frame \/ \E f \in flights : Answer(f)

Spec == Init /\ [][Next]_vars

(* The UI calls step in every frame, a call returns, and a load that is not *)
(* cancelled is answered some day, whatever the frames do meanwhile.        *)
AnswerOf(k) == \E f \in flights : f.key = k /\ f.live /\ Answer(f)

Fairness == SF_vars(Frame) /\ WF_vars(Admission) /\ \A k \in Keys : SF_vars(AnswerOf(k))

FairSpec == Spec /\ Fairness
=============================================================================
