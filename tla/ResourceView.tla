---------------------------- MODULE ResourceView ----------------------------
(***************************************************************************)
(* Scoped views over the resource caches (resource-view.ts): the demands   *)
(* of the open views of a collection are merged by key, cut to what the    *)
(* budgets of its cache hold, and reconciled in every frame before the     *)
(* scheduler's step.  Views are the only controllers of these caches.      *)
(*                                                                         *)
(* A reader is an effect of a component that shows the state of one key in *)
(* one view.  It runs again, at the end of the batch, when its view's set  *)
(* of keys or the key's lane is notified; a lane exists only for demanded  *)
(* keys, so a reader must not go by it alone.                              *)
(***************************************************************************)
EXTENDS ResourceCacheProperties

CONSTANTS
  Views, CollectionOf, (* views that may be open, and where               *)
  Asks                 (* what the demand accessor of a view may return    *)

ASSUME ViewAssumption ==
  /\ CollectionOf \in [Views -> Caches]
  /\ \A v \in Views :
       /\ Asks[v] \subseteq Seq(Demands)
       /\ \A asks \in Asks[v] : \A i \in DOMAIN asks : HomeOf[asks[i].key] = CollectionOf[v]

VARIABLES
  views,   (* open views of each collection, in order of creation          *)
  demand,  (* view.wanted: what each view asked for in its last plan       *)
  lanes,   (* keys with a signal                                           *)
  dirty,   (* keys a cache has changed since the last flush                *)
  told,    (* readers to run when the batch ends                           *)
  shown,   (* what each reader read last, and whether it read a lane       *)
  at, turn (* in a step: which collection is planned next                  *)

signals == <<lanes, dirty, told, shown>>
viewVars == <<views, demand, signals, at, turn>>

Readers == {r \in Views \X Keys : CollectionOf[r[1]] = HomeOf[r[2]]}
KeysIn(list) == {d.key : d \in ToSet(list)}

IsOpen(v) == Contains(views[CollectionOf[v]], v)

(* view.state: what is not in the view's last plan is pending.             *)
Unread == [state |-> "pending", value |-> 0, lane |-> FALSE]
Read(r) ==
  IF ~IsOpen(r[1]) \/ r[2] \notin KeysIn(demand[r[1]]) THEN Unread
  ELSE [state |-> entry[r[2]].state, value |-> entry[r[2]].value, lane |-> TRUE]

ViewInit ==
  /\ Init
  /\ views = [c \in Caches |-> <<>>] /\ demand = [v \in Views |-> <<>>]
  /\ lanes = {} /\ dirty = {} /\ told = {} /\ shown = [r \in Readers |-> Unread]
  /\ at = "rest" /\ turn = 1

-----------------------------------------------------------------------------
(* The union of the demands, by priority, as far as the budgets go.        *)
Union(open, wants) == Merged(FlattenSeq([i \in DOMAIN open |-> wants[open[i]]]))

Ahead(union, i) ==
  {j \in DOMAIN union :
     \/ union[j].priority < union[i].priority
     \/ union[j].priority = union[i].priority /\ j < i}
ByPriority(union) ==
  [nth \in DOMAIN union |->
     union[CHOOSE i \in DOMAIN union : Cardinality(Ahead(union, i)) = nth - 1]]

(* Slip: what is too much is left to the cache.                            *)
FittingEntries(union) ==
  SubSeq(ByPriority(union), 1, Min({Len(union), MaxEntries}))

Fitting(union) ==
  FoldLeft(LAMBDA plan, d :
             IF Len(plan) < MaxEntries /\ TotalCost(KeysIn(plan)) + Cost[d.key] <= MaxCost
             THEN Append(plan, d) ELSE plan,
           <<>>, ByPriority(union))

(* reconcile of a collection: the readers of lanes that go are told.       *)
ReconcileViews(c, open, wants, notified) ==
  LET union == Union(open, wants)
      plan == Fitting(union)
      gone == {k \in lanes : HomeOf[k] = c} \ KeysIn(union)
  IN /\ Reconcile(c, plan)
     /\ demand' = wants
     /\ dirty' = dirty \cup Obsolete(c, ToSet(plan))
     /\ lanes' = (lanes \ gone) \cup KeysIn(union)
     /\ told' = told \cup notified \cup {r \in Readers : r[2] \in gone /\ shown[r].lane}
     /\ UNCHANGED shown

(* Slip: as many keys as before are the same keys.                         *)
ResizedViews(C, wants) ==
  {v \in C : Cardinality(KeysIn(wants[v])) # Cardinality(KeysIn(demand[v]))}
ChangedViews(C, wants) == {v \in C : KeysIn(wants[v]) # KeysIn(demand[v])}

(* plan of the next collection: every view is asked before any is changed. *)
Plan ==
  /\ at \in {"rest", "plan"} /\ turn \in Caches \ dead /\ pc = "idle"
  /\ LET mine == ToSet(views[turn]) IN
     \E asks \in [mine -> UNION {Asks[v] : v \in mine}] :
       /\ \A v \in mine : asks[v] \in Asks[v]
       /\ LET wants == [v \in Views |-> IF v \in mine THEN Merged(asks[v]) ELSE demand[v]]
          IN ReconcileViews(turn, views[turn], wants,
                            {r \in Readers : r[1] \in ChangedViews(mine, wants)})
  /\ at' = "plan" /\ turn' = turn + 1 /\ UNCHANGED views

NoPlan ==
  /\ at \in {"rest", "plan"} /\ turn \in dead /\ pc = "idle"
  /\ at' = "plan" /\ turn' = turn + 1 /\ UNCHANGED <<vars, views, demand, signals>>

(* Then the scheduler's step, and the flush of all collections.            *)
Schedule ==
  /\ at = "plan" /\ turn \notin Caches /\ Step
  /\ at' = "flush" /\ UNCHANGED <<views, demand, signals, turn>>

Flush ==
  /\ at = "flush" /\ pc = "idle"
  /\ shown' = [r \in Readers |->
       IF r \in told \/ (r[2] \in dirty \cap lanes /\ shown[r].lane) THEN Read(r) ELSE shown[r]]
  /\ told' = {} /\ dirty' = {} /\ at' = "rest" /\ turn' = 1
  /\ UNCHANGED <<vars, views, demand, lanes>>

-----------------------------------------------------------------------------
(* What components and the application do between two frames.              *)
Open(v) ==
  /\ at = "rest" /\ ~IsOpen(v) /\ CollectionOf[v] \notin dead
  /\ views' = [views EXCEPT ![CollectionOf[v]] = Append(@, v)]
  /\ UNCHANGED <<vars, demand, signals, at, turn>>

(* Slip: the cache keeps its plan until the next frame.                    *)
CloseLazily(v) ==
  /\ at = "rest" /\ IsOpen(v)
  /\ views' = [views EXCEPT ![CollectionOf[v]] = Omit(@, {v})]
  /\ demand' = [demand EXCEPT ![v] = <<>>] /\ told' = told \cup {r \in Readers : r[1] = v}
  /\ at' = "flush" /\ UNCHANGED <<vars, lanes, dirty, shown, turn>>
Close(v) ==
  /\ at = "rest" /\ IsOpen(v)
  /\ LET others == Omit(views[CollectionOf[v]], {v})
     IN /\ views' = [views EXCEPT ![CollectionOf[v]] = others]
        /\ ReconcileViews(CollectionOf[v], others, [demand EXCEPT ![v] = <<>>],
                          {r \in Readers : r[1] = v})
  /\ at' = "flush" /\ UNCHANGED turn

CreateCollection(c) ==
  at = "rest" /\ CreateCache(c) /\ UNCHANGED viewVars

(* dispose of a collection, or of all and the scheduler with the runtime:   *)
(* the views close, and the cache is disposed of without another reconcile. *)
DisposeCollections(C) ==
  LET closed == UNION {ToSet(views[c]) : c \in C}
  IN /\ at = "rest" /\ Dispose(C) /\ at' = "flush"
     /\ views' = [c \in Caches |-> IF c \in C THEN <<>> ELSE views[c]]
     /\ demand' = [v \in Views |-> IF v \in closed THEN <<>> ELSE demand[v]]
     /\ told' = told \cup {r \in Readers : r[1] \in closed}
     /\ lanes' = {k \in lanes : HomeOf[k] \notin C}
     /\ UNCHANGED <<dirty, shown, turn>>

Update(K) ==
  /\ dirty' = dirty \cup K /\ at' = "flush"
  /\ UNCHANGED <<views, demand, lanes, told, shown, turn>>

Call ==
  /\ at = "rest"
  /\ \/ \E c \in Caches : Clear(c) /\ Update(Resident(c))
     \/ Cancel(Caches) /\ Update({k \in ToSet(residents) : entry[k].busy})
     \/ /\ "invalidate" \in Env
        /\ \E c \in Caches : \E K \in SUBSET Resident(c), dropValue \in BOOLEAN :
             InvalidateEntries(K, dropValue) /\ Update(K)

-----------------------------------------------------------------------------
(* What the cache does meanwhile, and whom it notifies: drop, a completion,*)
(* a load cancelled for another or started; not a load that throws.        *)
Notify(K) == dirty' = dirty \cup K /\ UNCHANGED <<views, demand, lanes, told, shown, at, turn>>

Work ==
  \/ Evict /\ Notify(ToSet(residents) \ ToSet(residents'))
  \/ Complete /\ Notify({NextResult})
  \/ Preempt /\ Notify({k \in Keys : entry[k].busy /\ ~entry'[k].busy})
  \/ Start /\ Notify({k \in Keys : entry'[k].busy /\ ~entry[k].busy /\ entry'[k].result # "failed"})
  \/ (PassOver \/ Admit \/ ReconcileEnd \/ CompletionsEnd \/ StepEnd) /\ Notify({})

Answered == at = "rest" /\ (\E f \in flights : Answer(f)) /\ Notify({})

Application ==
  \/ Call \/ \E v \in Views : Open(v) \/ Close(v)
  \/ DisposeCollections(Caches)
  \/ \E c \in Caches : CreateCollection(c) \/ DisposeCollections({c})
Runtime == Plan \/ NoPlan \/ Schedule \/ Work \/ Flush

ViewNext == Application \/ Runtime \/ Answered

ViewSpec == ViewInit /\ [][ViewNext]_<<vars, viewVars>>
=============================================================================
