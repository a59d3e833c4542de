------------------------- MODULE GesturesProperties -------------------------
(***************************************************************************)
(* What the gesture pump promises the recognizers, also when callbacks     *)
(* cancel, dispose, register or block.  Idle is the application's turn: no *)
(* frame and no call is under way.                                         *)
(***************************************************************************)
EXTENDS Gestures

(* A recognizer whose last word of a contact was onDown still observes it: *)
(* "every other owner is cancelled (a list pan cancels the row's press-    *)
(* highlight)", and so it is when disposed of, blocked, or left by the     *)
(* finger, which is down as of the last frame.                             *)
NoStrandedPress ==
  Idle => \A r \in Recognizers, s \in Slots :
            heard[r][s] = "onDown" =>
              track[s].used /\ Observes(r, s) /\ track[s].contact \in ToSet(input.touches)

(* After onUp or onCancel a recognizer hears nothing more of a contact, but*)
(* the tap or the end of the pan that its onUp announces ("not a phantom   *)
(* release later").  It is cancelled only of what it was told of, and once;*)
(* a block pushed or a cancel made in onTap does that after onUp.  Where a *)
(* callback called back and it was cancelled before the loop over owners   *)
(* came to its onDown, the cancel is of an onDown still to be told, and the *)
(* end of a pan may come after a cancel that came after its onUp.          *)
QuietAfterEnd ==
  \A i \in Turn :
    /\ i.op \in {"onMove", "onPanStart", "onPanMove", "onLongPress", "onUp"}
         => heard[i.r][i.s] = "onDown"
    /\ i.op = "onTap" => heard[i.r][i.s] = "onUp"
    /\ i.op = "onPanEnd" => heard[i.r][i.s] \in {"onUp", "lateCancel"}
    /\ i.op = "onCancel" =>
         \/ heard[i.r][i.s] \in {"onDown", "onUp"}
         \/ heard[i.r][i.s] = "nothing" /\ Do("onDown", i.s, i.r) \in ToSet(i.rest)

(* One contact becomes one exclusive gesture of one recognizer: a tap, a   *)
(* long press, a pan or a pinch (the pinch pass, the long press and the pan*)
(* each test and set the claim, with callbacks in between).                *)
SingleWinner == \A s \in Slots : Cardinality(won[s]) <= 1

(* While a touch block is held, no recognizer without allowWhenBlocked has *)
(* a contact: not one it already had, and none that lands later.           *)
ModalMutes ==
  Idle /\ blocks > 0 =>
    \A r \in ToSet(recs) \ Exempt, s \in Slots : track[s].used => ~Observes(r, s)

(* A recognizer told of a pinch is told of its end, once, wherever one of  *)
(* its contacts lifts, is cancelled or stolen, or it is disposed of: an    *)
(* active pinch has two contacts on the screen, both its own.  A pinch that*)
(* ends in a callback before its start was told has the end told first.    *)
PinchesPaired ==
  /\ \A i \in Turn :
       /\ i.op = "onPinchMove" => i.r \in pinched
       /\ i.op = "onPinchEnd" => i.r \in pinched \/ Do("onPinchStart", 0, i.r) \in ToSet(i.rest)
  /\ Idle => /\ pinched = {r \in Recognizers : pinch[r] # {}}
             /\ \A r \in pinched : \A s \in pinch[r] : track[s].used /\ track[s].claimed = r
=============================================================================
