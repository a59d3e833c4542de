----------------------- MODULE ResourceViewProperties -----------------------
(* What components rely on, over ResourceView.                              *)
EXTENDS ResourceView

(* Between frames every reader shows what its view would answer now: a      *)
(* value disposed of, dropped or no longer demanded is shown nowhere, and   *)
(* one that arrived is shown by all who demand it, though lanes come and go *)
(* with the union and a reader hears only what it subscribed to.            *)
ReadersCurrent == at = "rest" => \A r \in Readers : shown[r] = Read(r)

(* "The union is admitted by priority within the existing entry and byte    *)
(* budgets": all of the plan that is cut from it is admitted, whatever the  *)
(* costs, and to make room nothing of the plan itself is evicted.           *)
PlanAdmitted ==
  [][pc = "admit" =>
       /\ KeysIn(wanted) \cap ToSet(residents) \subseteq ToSet(residents')
       /\ todo = <<>> => KeysIn(wanted) \subseteq ToSet(residents)]_<<vars, viewVars>>

(* "Closing one pane withdraws only that pane's demand": between frames no  *)
(* load goes on for a key that no open view demands.                        *)
LoadsWanted ==
  at = "rest" => \A k \in Keys : entry[k].busy => \E v \in Views : IsOpen(v) /\ k \in KeysIn(demand[v])
=============================================================================
