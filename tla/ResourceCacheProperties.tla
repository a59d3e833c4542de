----------------------- MODULE ResourceCacheProperties -----------------------
(* What framework/src/resource-cache.ts must get right, over ResourceCache. *)
EXTENDS ResourceCache

(* The counters of the budgets are what the entries add up to, and within   *)
(* the budgets at every moment: a raw completion stays charged until it is  *)
(* materialized, whatever cancels, evicts, declines or throws.              *)
BudgetsHold ==
  /\ active = Cardinality({k \in Keys : entry[k].busy}) /\ active <= MaxConcurrent
  /\ \A c \in Caches : /\ cost[c] = TotalCost(Resident(c)) /\ cost[c] <= MaxCost
                       /\ Cardinality(Resident(c)) <= MaxEntries

(* A value materialized is owned by the one ready entry that shows it, until*)
(* it is replaced, dropped, evicted or disposed of: none leaks, none is     *)
(* shown after its disposal.                                                *)
ValuesOwned ==
  \A k \in Keys : alive[k] = IF entry[k].state = "ready" THEN {entry[k].value} ELSE {}

(* "Late, duplicate, cancelled and disposed completions never reach the     *)
(* materializer", also when the key is being loaded again.                  *)
NoIntruder == ~intruded

(* "Refusals and cancelled attempts preserve the failure budget already     *)
(* accumulated": it is the failures since the last success, and the load    *)
(* under way.                                                               *)
BudgetIsFailures ==
  \A k \in Keys : entry[k].attempts = failures[k] + IF entry[k].charged THEN 1 ELSE 0

(* Between calls the cache works on what is demanded and nothing else: a    *)
(* busy entry is desired, and either waits for its one load or has a result *)
(* in the queue.                                                            *)
WorkFollowsDemand ==
  pc = "idle" =>
    /\ \A k \in Keys : entry[k].busy => k \in ToSet(residents) /\ entry[k].desired
    /\ \A k \in Keys : (\E f \in flights : f.key = k /\ f.live)
                         <=> (entry[k].busy /\ entry[k].result = "none")
    /\ \A k \in Keys : k \in ToSet(arrived) <=> entry[k].result # "none"
    /\ IsInjective(arrived)

-----------------------------------------------------------------------------
(* A demand a reconcile leaves out could only be admitted by evicting what  *)
(* is pinned or no less important.                                          *)
Protected(d) ==
  {k \in Resident(HomeOf[d.key]) :
     entry[k].pin \/ (entry[k].desired /\ entry[k].priority <= d.priority)}

AdmissionByPriority ==
  [][pc = "admit" /\ todo = <<>> =>
       \A d \in ToSet(wanted) : d.key \notin ToSet(residents) =>
         \/ Cardinality(Protected(d)) >= MaxEntries
         \/ TotalCost(Protected(d)) + Cost[d.key] > MaxCost]_vars

-----------------------------------------------------------------------------
(* Once the controller leaves the cache alone, every demanded resident is   *)
(* loaded or has used up its attempts: retries end, and preemption does not *)
(* restart the same loads for ever.                                         *)
Undisturbed == <>[][~Controller]_vars
Settled(k) == entry[k].desired => entry[k].attempts = Attempts \/ (entry[k].state = "ready" /\ ~entry[k].stale)

ReadsSettle == Undisturbed => \A k \in Keys \ Refusing : <>[](~entry[k].busy /\ Settled(k))

(* "That entry is skipped for the rest of the frame; other keys and loaders *)
(* can still start" (RESOURCES.md); "a refusing loader cannot block healthy *)
(* loaders" (resource-cache.test.ts): the same, beside loaders that refuse. *)
RefusalBlocksNobody == Undisturbed => \A k \in Keys \ Refusing : <>[]Settled(k)
=============================================================================
