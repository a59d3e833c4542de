----------------------------- MODULE MCGestures -----------------------------
(* Gestures with contacts that are alike, each under all recognizers: the   *)
(* limits are in the configuration.                                         *)
EXTENDS GesturesProperties

CONSTANTS c1, c2, c3

Fingers == Permutations(Contacts)
Everywhere == [c \in Contacts |-> Recognizers]
=============================================================================
