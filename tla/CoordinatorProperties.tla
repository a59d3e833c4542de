----------------------- MODULE CoordinatorProperties ------------------------
(* What engine/runtime/src/coordinator.rs must get right, over Coordinator. *)
EXTENDS Coordinator

Submissions == [display : Displays, strip : Strips, frame : 1 .. FrameLimit]

(* Where the coordinator keeps a submission until it retires it.            *)
HeldBy(d) ==
  {Sub(d, p) : p \in {q \in {pending[d], deferred[d]} : q # NoWork}}
    \cup {Sub(d, transfers[d][i]) : i \in 1 .. Len(transfers[d])}

(* Every submission a driver returned is held until it is retired or its    *)
(* renderer destroyed, and nothing retired is held; only the submission of  *)
(* a render that unwound has no holder, until its renderer is destroyed.    *)
NothingForgotten ==
  /\ \A d \in Displays : HeldBy(d) \subseteq issued
  /\ blamed = NoRenderer => issued = UNION {HeldBy(d) : d \in Displays}

(* Between calls only Deferred submissions of the latest frame are in       *)
(* flight, and none after a call that failed or unwound: "any failure       *)
(* leaves no work in flight" (present).                                     *)
AtRest ==
  pc = "caller" =>
    /\ issued \cup drawing \cup reading \subseteq
         {Sub(d, deferred[d]) : d \in {e \in Displays : deferred[e] # NoWork}}
    /\ \A d \in Displays : deferred[d] # NoWork => deferred[d].frame = frame /\ Defers(d)
    /\ result # "ok" => issued \cup drawing \cup reading = {}

Underway(d) == {s.strip : s \in {t \in issued : t.display = d}}

(* A display whose history is valid shows the committed frame: wherever a   *)
(* frame failed, the next one repaints.  Only strips still in flight are    *)
(* not shown yet, and the torn ones: those a display moved for a frame      *)
(* whose preparation then unwound, before FrameGuard.                       *)
HistoryHonest ==
  pc = "caller" => \A d \in Displays : valid[d] => stale[d] \subseteq Underway(d)

(* borrowed_textures names the frame of every zero-copy submission still    *)
(* drawing, with that frame's handles; retired_frame stays below every      *)
(* submission not retired.                                                  *)
BorrowedTextures ==
  {deferred[d].frame : d \in {e \in Displays : deferred[e] # NoWork /\ RendererOf[e] \in ZeroCopy}}

RetiredFrame ==
  LET inFlight == {deferred[d].frame : d \in {e \in Displays : deferred[e] # NoWork}}
  IN IF inFlight = {} THEN frame
     ELSE (CHOOSE f \in inFlight : \A g \in inFlight : f <= g) - 1

BorrowsReported ==
  pc = "caller" =>
    /\ \A s \in drawing : RendererOf[s.display] \in ZeroCopy =>
         s.frame \in BorrowedTextures /\ borrowed = s.frame
    /\ \A s \in issued : s.frame > RetiredFrame

(* "A render or wait may unwind without a terminal result.  Destroy that    *)
(* renderer before the caller's frame can unwind." (FrameGuard)             *)
UnwoundDestroyed ==
  pc = "caller" /\ blamed # NoRenderer /\ result = "panic" => blamed \notin alive

(* The coordinator keeps the contract of its drivers.                       *)
Contract == INSTANCE FrameContract
KeepsContract == Contract!Spec

(* Every API call returns, whatever its drivers answer.                     *)
CallReturns == call # "none" ~> call = "none"
=============================================================================
