--------------------------- MODULE MCResourceView ---------------------------
(* Two collections on one load slot: v1 and v2 share keys of unequal cost   *)
(* that exceed the budget of theirs, v3 is alone in the other.              *)
EXTENDS ResourceViewProperties

CONSTANTS k1, k2, k3, v1, v2, v3

Want(k, p) == [key |-> k, priority |-> p, pin |-> FALSE]
Pin(k, p) == [key |-> k, priority |-> p, pin |-> TRUE]

Homes == [k \in Keys |-> IF k = k3 THEN 2 ELSE 1]
Places == [v \in Views |-> IF v = v3 THEN 2 ELSE 1]
Costs == [k \in Keys |-> IF k = k2 THEN 2 ELSE 1]

Lists == (v1 :> {<<Want(k1, 1)>>, <<Pin(k2, 0)>>})
      @@ (v2 :> {<<Want(k2, 2), Want(k1, 1)>>})
      @@ (v3 :> {<<Want(k3, 1)>>})
=============================================================================
