-------------------------- MODULE MCResourceCache ---------------------------
(* Instances of ResourceCache for TLC: keys k1, k2, k3, plans for them.     *)
EXTENDS ResourceCacheProperties

CONSTANTS k1, k2, k3

Want(k, p) == [key |-> k, priority |-> p, pin |-> FALSE]
Pin(k, p) == [key |-> k, priority |-> p, pin |-> TRUE]

OneCache == [k \in Keys |-> 1]
TwoCaches == [k \in Keys |-> IF k = k3 THEN 2 ELSE 1]
Uniform == [k \in Keys |-> 1]
Dear == [k \in Keys |-> IF k = k2 THEN 2 ELSE 1]

(* k2 alone is demanded twice.                                              *)
TwoKeys == {<<Want(k1, 0), Want(k2, 1)>>, <<Want(k2, 0), Pin(k2, 1)>>, <<>>}

(* k1 and k2, twice as dear, compete for the budget of their cache; k3, of  *)
(* another, is less or as important as k1.                                  *)
Shared == {<<Want(k1, 0), Want(k2, 1)>>, <<Want(k2, 0), Want(k1, 1)>>, <<Want(k2, 0), Pin(k1, 1)>>,
           <<Want(k3, 1)>>, <<Want(k3, 0)>>}

(* The demands of "a refusing loader cannot block healthy loaders".         *)
BesideRefusing == {<<Want(k1, 0), Want(k2, 2)>>, <<Want(k3, 3)>>}
=============================================================================
