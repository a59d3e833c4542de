---------------------------- MODULE Coordinator -----------------------------
(***************************************************************************)
(* The frame coordinator of the runtime (engine/runtime/src/coordinator.rs)*)
(* as the program it is: one thread that calls renderer and display        *)
(* drivers, each call returning, failing or unwinding.  A Deferred         *)
(* renderer's submission stays in flight after present returns and is      *)
(* completed by the next call that needs a quiet display.  FrameGuard's    *)
(* Drop runs whenever a frame fails or unwinds.                            *)
(*                                                                         *)
(* Damage and moved pixels are sets of strips; which pixels a strip holds, *)
(* and the history each retained buffer has of its own, are left out.      *)
(***************************************************************************)
EXTENDS Naturals, Sequences, FiniteSets

CONSTANTS
  NumDisplays,   (* registered displays                                     *)
  Renderers,     (* registered renderers                                    *)
  Bindings,      (* the registrations: display -> renderer it is bound to   *)
  Device,        (* renderers of device-owned targets                       *)
  Deferring,     (* renderers with Synchronization::Deferred                *)
  ZeroCopy,      (* of those, the ones that read the caller's textures      *)
  Moving,        (* displays that may have retained_move                    *)
  Software,      (* RendererId::SOFTWARE                                    *)
  NoRenderer,
  MaxStrips,     (* bound: strips of a display                              *)
  FrameLimit,    (* u64::MAX: the frame counter stops here                  *)
  Env            (* bound: what drivers and callers do in this instance     *)

Displays == 0 .. NumDisplays - 1
Last == NumDisplays - 1
Strips == 1 .. MaxStrips

ASSUME RegistryAssumption ==
  /\ NumDisplays \in Nat \ {0}
  /\ Bindings \subseteq [Displays -> Renderers] /\ Moving \subseteq Displays
  /\ ZeroCopy \subseteq Deferring /\ Deferring \subseteq Device /\ Device \subseteq Renderers
  /\ Software \in Renderers /\ NoRenderer \notin Renderers

ASSUME BoundsAssumption ==
  /\ MaxStrips \in Nat \ {0} /\ FrameLimit \in Nat
  /\ Env \subseteq {"err", "panic", "dropPanic", "configure", "overlay"}

(* validate_display and budget_plans: device-owned targets are one strip,   *)
(* only they queue a flush, only CPU staging buffers are pipelined.         *)
Shapes == [renderer : Renderers, queued : BOOLEAN, pipelined : BOOLEAN, strips : Strips]
Legal(s) ==
  IF s.renderer \in Device THEN s.strips = 1 /\ ~s.pipelined ELSE ~s.queued
LegalShapes(binding) ==
  {f \in [Displays -> {s \in Shapes : Legal(s)}] : \A d \in Displays : f[d].renderer = binding[d]}

VARIABLES
  shape, alive, shown,          (* descriptors; driver objects that exist   *)
  frame, borrowed, valid,       (* counter, frame of the log, history_valid *)
  nextStrip, damage,            (* of the frame in progress                 *)
  pending, deferred, transfers, (* where submissions wait for completion    *)
  call, pc, phase, at,          (* API call, place in it, guard, display    *)
  goal, resume,                 (* what follows drain, and a transfer       *)
  submitted, failed,            (* locals of present_inner                  *)
  panicking, blamed,            (* unwinding; FrameGuard.rendering          *)
  result,                       (* of the last API call                     *)
  issued, drawing, reading,     (* hardware: see FrameContract              *)
  flushed, stale,               (* history: transfers, strips not drawn yet *)
  moved, torn                   (* strips moved for the frame in            *)
                                (* preparation, or for one that never came  *)

registry == <<shape, alive, shown>>
locals   == <<goal, resume, submitted, failed, panicking, blamed, result>>
work     == <<pending, deferred, transfers>>
picture  == <<nextStrip, damage, stale, moved, torn>>
counters == <<frame, borrowed, valid>>
hardware == <<issued, drawing, reading, flushed>>
control  == <<call, pc, phase, at>>
vars == <<registry, locals, work, picture, counters, hardware, control>>

NoWork == [frame |-> 0, strip |-> 0, waited |-> FALSE, inCall |-> FALSE,
           token |-> FALSE, defer |-> FALSE]

RendererOf == [d \in Displays |-> shape[d].renderer]
Defers(d) == RendererOf[d] \in Deferring
Sub(d, p) == [display |-> d, strip |-> p.strip, frame |-> p.frame]
Without(hw, D) == {s \in hw : s.display \notin D}
Nowhere == [d \in Displays |-> FALSE]
Nothing == [d \in Displays |-> {}]

Init ==
  /\ \E binding \in Bindings : shape \in LegalShapes(binding)
  /\ alive = Renderers /\ shown = Displays
  /\ frame = 0 /\ borrowed = 0 /\ valid = Nowhere
  /\ nextStrip = [d \in Displays |-> 1] /\ damage = Nothing
  /\ pending = [d \in Displays |-> NoWork]
  /\ deferred = [d \in Displays |-> NoWork]
  /\ transfers = [d \in Displays |-> <<>>]
  /\ call = "none" /\ pc = "caller" /\ phase = "complete" /\ at = 0
  /\ goal = "completed" /\ resume = "drain" /\ submitted = FALSE /\ failed = FALSE
  /\ panicking = FALSE /\ blamed = NoRenderer /\ result = "ok"
  /\ issued = {} /\ drawing = {} /\ reading = {} /\ flushed = {}
  /\ stale = Nothing /\ moved = Nothing /\ torn = Nothing

-----------------------------------------------------------------------------
(* How calls end.                                                           *)

Return(outcome) ==
  /\ pc' = IF call = "drop" THEN "gone" ELSE "caller"
  /\ call' = "none"
  /\ result' = outcome
  /\ UNCHANGED <<phase, at, goal, resume, submitted, panicking, blamed>>

(* A driver call unwinds.  The guard's Drop runs; a panic inside that Drop, *)
(* which an error return started, leaves it at once.  (A panic while one    *)
(* unwinds aborts the process.)                                             *)
Unwind(renderer) ==
  IF phase # "drop"
  THEN /\ "panic" \in Env
       /\ pc' = "guardDrop" /\ phase' = "drop"
       /\ panicking' = TRUE /\ blamed' = renderer
       /\ UNCHANGED <<call, at, goal, resume, submitted, result>>
  ELSE /\ "dropPanic" \in Env /\ ~panicking
       /\ pc' = IF call = "drop" THEN "gone" ELSE "caller"
       /\ call' = "none" /\ result' = "panic"
       /\ panicking' = TRUE /\ blamed' = renderer
       /\ UNCHANGED <<phase, at, goal, resume, submitted>>

(* Proceed to a place in the same guard.                                    *)
Goto(place, display) ==
  /\ pc' = place /\ at' = display
  /\ UNCHANGED <<call, phase, goal, panicking, blamed, result>>

(* The next display of a reverse-order round.                               *)
Down == IF at > 0 THEN Goto("finish", at - 1) ELSE Goto("roundEnd", Last)

May(outcome) == outcome = "err" => "err" \in Env

(* Slip: a failed wait or flush leaves the damage history as it was.        *)
NoteFailureOnly(d, outcome) == failed' = (failed \/ outcome = "err") /\ UNCHANGED valid

(* A failure is noted and invalidates the history of its display.           *)
Note(d, outcome) ==
  /\ failed' = (failed \/ outcome = "err")
  /\ valid' = [valid EXCEPT ![d] = @ /\ outcome = "ok"]

-----------------------------------------------------------------------------
(* The API.  Every call first completes the Deferred frames (complete).     *)

(* Slip: complete forgets the submissions left in flight.                   *)
HeldPending(d) == pending[d]
Held(d) == IF deferred[d] # NoWork THEN deferred[d] ELSE pending[d]
TakeDeferred ==
  /\ pending' = [d \in Displays |-> Held(d)]
  /\ deferred' = [d \in Displays |-> NoWork]

Start(kind) ==
  /\ pc = "caller"
  /\ kind \in {"setScale", "refresh"} => "configure" \in Env
  /\ kind = "overlay" => "overlay" \in Env /\ \A d \in Displays : RendererOf[d] \in Device
  /\ call' = kind
  /\ phase' = "complete" /\ goal' = "completed"
  /\ failed' = FALSE /\ panicking' = FALSE /\ blamed' = NoRenderer
  /\ IF \E d \in Displays : deferred[d] # NoWork
     THEN TakeDeferred /\ borrowed' = 0 /\ pc' = "finish" /\ at' = Last
     ELSE pc' = "completed" /\ UNCHANGED <<pending, deferred, borrowed, at>>
  /\ UNCHANGED <<registry, transfers, picture, frame, valid, hardware, resume,
                 submitted, result>>

(* complete returned: the call goes on, unless completion failed.           *)
Completed ==
  /\ pc = "completed"
  /\ IF call = "drop" \/ call = "complete" \/ failed
     THEN Return(IF failed THEN "err" ELSE "ok")
     ELSE Goto(IF call \in {"present", "overlay"} THEN "begin" ELSE "configure", 0)
          /\ UNCHANGED <<resume, submitted>>
  /\ UNCHANGED <<registry, work, picture, counters, hardware, failed>>

(* set_scale and refresh_displays, after complete.  Both replace the        *)
(* software renderer; refresh re-reads every descriptor.                    *)
Quiet == \A d \in Displays : pending[d] = NoWork /\ transfers[d] = <<>>

Configure ==
  /\ pc = "configure"
  /\ call = "setScale" => \A d \in Displays : pending[d] = NoWork
  /\ call = "refresh" =>
       Quiet /\ shown = Displays /\ \A d \in Displays : RendererOf[d] \in alive
  /\ shape' \in IF call = "refresh" THEN LegalShapes(RendererOf) ELSE {shape}
  /\ alive' = alive \cup {Software}
  /\ valid' = Nowhere
  /\ stale' = [d \in Displays |-> 1 .. shape'[d].strips]
  /\ moved' = Nothing /\ torn' = Nothing
  /\ Return("ok")
  /\ UNCHANGED <<shown, work, nextStrip, damage, frame, borrowed, hardware, failed>>

ConfigureRejected ==
  /\ pc = "configure"
  /\ \/ "err" \in Env
     \/ \E d \in Displays : pending[d] # NoWork
     \/ call = "refresh" /\ ~(Quiet /\ shown = Displays /\
                              \A d \in Displays : RendererOf[d] \in alive)
  /\ Return("err")
  /\ UNCHANGED <<registry, work, picture, counters, hardware, failed>>

-----------------------------------------------------------------------------
(* present_inner before the guard.                                          *)

Usable == frame < FrameLimit /\ shown = Displays /\ \A d \in Displays : RendererOf[d] \in alive

Begin ==
  /\ pc = "begin" /\ Usable
  /\ frame' = frame + 1 /\ borrowed' = 0
  /\ Goto("prepare", 0)
  /\ UNCHANGED <<registry, work, picture, valid, hardware, resume, submitted, failed>>

(* A disabled driver, the counter's end, or an invalid viewport.            *)
BeginRejected ==
  /\ pc = "begin" /\ (~Usable \/ "err" \in Env)
  /\ valid' = Nowhere
  /\ Return("err")
  /\ UNCHANGED <<registry, work, picture, frame, borrowed, hardware, failed>>

(* move_pixels: a retained_move display moves pixels only where a valid     *)
(* history lets a frame reuse them; it moves none if the driver declines.   *)
Motions(d) ==
  IF d \in Moving /\ valid[d] /\ call # "overlay" THEN SUBSET (1 .. shape[d].strips) ELSE {{}}

(* Validation, frame identity, motion and damage of one display.  The last  *)
(* one creates the guard; from then on damaged strips need repainting, and  *)
(* the moved ones show the new frame, unless wrong pixels were moved.       *)
Prepare(d, region, motion) ==
  /\ pc = "prepare" /\ at = d
  /\ region \subseteq 1 .. shape[d].strips
  /\ ~valid[d] \/ call = "overlay" => region = 1 .. shape[d].strips
  /\ motion \in Motions(d)
  /\ damage' = [damage EXCEPT ![d] = region]
  /\ nextStrip' = [nextStrip EXCEPT ![d] = 1]
  /\ torn' = [torn EXCEPT ![d] = IF @ = {} THEN {} ELSE @ \cup motion]
  /\ IF d < Last
     THEN /\ Goto("prepare", d + 1)
          /\ moved' = [moved EXCEPT ![d] = motion]
          /\ UNCHANGED <<stale, submitted, failed>>
     ELSE /\ pc' = "submit" /\ at' = 0 /\ phase' = "frame"
          /\ stale' = [e \in Displays |-> stale[e] \cup damage'[e]]
          /\ moved' = Nothing
          /\ submitted' = FALSE /\ failed' = FALSE
          /\ UNCHANGED <<call, goal, panicking, blamed, result>>
  /\ UNCHANGED <<registry, work, counters, hardware, resume>>

(* A display fails, maybe after it moved pixels.  An error invalidates all  *)
(* histories; before the guard exists an unwinding call invalidates none,   *)
(* and what this display and those before it moved is torn.                 *)
PrepareFails(outcome, motion) ==
  LET touched == [moved EXCEPT ![at] = motion]
  IN /\ pc = "prepare" /\ outcome \in {"err", "panic"} \cap Env
     /\ motion \in Motions(at)
     /\ IF outcome = "err"
        THEN /\ valid' = Nowhere
             /\ stale' = [d \in Displays |-> stale[d] \cup touched[d]]
             /\ UNCHANGED torn
        ELSE /\ torn' = [d \in Displays |-> torn[d] \cup touched[d]]
             /\ UNCHANGED <<valid, stale>>
     /\ moved' = Nothing
     /\ Return(outcome)
     /\ UNCHANGED <<registry, work, nextStrip, damage, frame, borrowed, hardware, failed>>

-----------------------------------------------------------------------------
(* One round: submit a strip of each display, then finish it.               *)

Up == IF at < Last THEN Goto("submit", at + 1) ELSE Goto("finish", Last)

(* Slip: a finished display counts as submitted.                            *)
PassCounts(d) ==
  /\ pc = "submit" /\ at = d
  /\ nextStrip[d] > shape[d].strips \/ nextStrip[d] \notin damage[d]
  /\ nextStrip' = IF nextStrip[d] > shape[d].strips THEN nextStrip
                  ELSE [nextStrip EXCEPT ![d] = @ + 1]
  /\ submitted' = TRUE
  /\ Up
  /\ UNCHANGED <<registry, work, counters, damage, stale, moved, torn, hardware, resume, failed>>

(* All strips of this display are done, or this one has no damage.          *)
Pass(d) ==
  /\ pc = "submit" /\ at = d
  /\ nextStrip[d] > shape[d].strips \/ nextStrip[d] \notin damage[d]
  /\ IF nextStrip[d] > shape[d].strips
     THEN UNCHANGED <<nextStrip, submitted>>
     ELSE nextStrip' = [nextStrip EXCEPT ![d] = @ + 1] /\ submitted' = TRUE
  /\ Up
  /\ UNCHANGED <<registry, work, counters, damage, stale, moved, torn, hardware, resume, failed>>

(* acquire; a target that does not match its descriptor is an error too.    *)
Acquire(d, outcome) ==
  /\ pc = "submit" /\ at = d
  /\ nextStrip[d] \in damage[d]
  /\ May(outcome)
  /\ nextStrip' = [nextStrip EXCEPT ![d] = @ + 1]
  /\ \/ outcome = "ok" /\ Goto("render", d) /\ UNCHANGED <<submitted, failed, resume>>
     \/ outcome = "err" /\ Goto("finish", Last) /\ failed' = TRUE
                        /\ UNCHANGED <<submitted, resume>>
     \/ outcome = "panic" /\ Unwind(NoRenderer) /\ UNCHANGED failed
  /\ UNCHANGED <<registry, work, counters, damage, stale, moved, torn, hardware>>

Render(d, outcome) ==
  LET p == [NoWork EXCEPT !.frame = frame, !.strip = nextStrip[d] - 1, !.defer = Defers(d)]
  IN /\ pc = "render" /\ at = d
     /\ May(outcome)
     /\ IF outcome = "err"
        THEN UNCHANGED <<issued, drawing>>
        ELSE issued' = issued \cup {Sub(d, p)} /\ drawing' = drawing \cup {Sub(d, p)}
     /\ \/ /\ outcome = "ok"
           /\ pending' = [pending EXCEPT ![d] = p]
           /\ submitted' = TRUE
           /\ IF call = "overlay" THEN Goto("overlay", d) ELSE Up
           /\ UNCHANGED <<failed, resume>>
        \/ outcome = "err" /\ Goto("finish", Last) /\ failed' = TRUE
                           /\ UNCHANGED <<pending, submitted, resume>>
        \/ outcome = "panic" /\ Unwind(RendererOf[d]) /\ UNCHANGED <<pending, failed>>
     /\ UNCHANGED <<registry, deferred, transfers, picture, counters, reading, flushed>>

Overlay(d, outcome) ==
  /\ pc = "overlay" /\ at = d
  /\ \/ outcome = "ok" /\ Up /\ UNCHANGED <<submitted, resume>>
     \/ outcome = "panic" /\ Unwind(RendererOf[d])
  /\ UNCHANGED <<registry, work, picture, counters, hardware, failed>>

-----------------------------------------------------------------------------
(* finish_round, displays in reverse order.                                 *)

FinishNothing ==
  /\ pc = "finish" /\ pending[at] = NoWork
  /\ Down
  /\ UNCHANGED <<registry, work, picture, counters, hardware, resume, submitted, failed>>

(* A Deferred submission stays in flight ...                                *)
Keep(d) ==
  /\ pc = "finish" /\ at = d
  /\ pending[d].defer /\ phase # "drop" /\ ~shape[d].queued
  /\ deferred' = [deferred EXCEPT ![d] = [pending[d] EXCEPT !.defer = FALSE]]
  /\ pending' = [pending EXCEPT ![d] = NoWork]
  /\ Down
  /\ UNCHANGED <<registry, transfers, picture, counters, hardware, resume, submitted,
                 failed>>

(* ... with a queued flush where the device orders it; a refused one is     *)
(* completed at once.                                                       *)
QueueFlush(d, outcome) ==
  LET p == pending[d]
      s == Sub(d, p)
  IN /\ pc = "finish" /\ at = d
     /\ p.defer /\ phase # "drop" /\ shape[d].queued
     /\ May(outcome)
     /\ IF outcome = "err"
        THEN UNCHANGED <<reading, flushed>>
        ELSE reading' = reading \cup {s} /\ flushed' = flushed \cup {s}
     /\ \/ /\ outcome = "ok"
           /\ deferred' = [deferred EXCEPT ![d] = [p EXCEPT !.defer = FALSE, !.token = TRUE]]
           /\ pending' = [pending EXCEPT ![d] = NoWork]
           /\ Down
           /\ UNCHANGED <<valid, failed, resume, submitted>>
        \/ /\ outcome = "err"
           /\ pending' = [pending EXCEPT ![d].defer = FALSE]
           /\ Note(d, outcome)
           /\ UNCHANGED <<deferred, control, goal, resume, submitted, panicking, blamed,
                          result>>
        \/ /\ outcome = "panic"
           /\ pending' = [pending EXCEPT ![d].inCall = TRUE]
           /\ Unwind(NoRenderer)
           /\ UNCHANGED <<deferred, valid, failed>>
     /\ UNCHANGED <<registry, transfers, picture, frame, borrowed, issued, drawing>>

(* The renderer's wait; an earlier wait is not repeated.                    *)
RenderWait(d, outcome) ==
  LET p == pending[d]
      flushes == outcome = "ok" /\ ~p.inCall /\ phase # "drop" /\ ~p.token
  IN /\ pc = "finish" /\ at = d
     /\ p # NoWork /\ (p.defer => phase = "drop") /\ ~p.waited
     /\ May(outcome)
     /\ \/ /\ outcome \in {"ok", "err"}
           /\ pending' = [pending EXCEPT ![d].waited = TRUE]
           /\ drawing' = drawing \ {Sub(d, p)}
           /\ Note(d, outcome)
           /\ Goto(IF flushes THEN "flush" ELSE "settle", d)
           /\ UNCHANGED <<submitted, resume>>
        \/ outcome = "panic" /\ Unwind(RendererOf[d])
           /\ UNCHANGED <<pending, drawing, valid, failed>>
     /\ UNCHANGED <<registry, deferred, transfers, picture, frame, borrowed, issued,
                    reading, flushed>>

WaitedBefore ==
  /\ pc = "finish" /\ pending[at].waited
  /\ Goto("settle", at)
  /\ UNCHANGED <<registry, work, picture, counters, hardware, resume, submitted, failed>>

Flush(d, outcome) ==
  LET s == Sub(d, pending[d])
  IN /\ pc = "flush" /\ at = d
     /\ May(outcome)
     /\ IF outcome = "err"
        THEN UNCHANGED <<reading, flushed>>
        ELSE reading' = reading \cup {s} /\ flushed' = flushed \cup {s}
     /\ \/ /\ outcome \in {"ok", "err"}
           /\ pending' = [pending EXCEPT ![d].token = (outcome = "ok")]
           /\ Note(d, outcome)
           /\ Goto("settle", d)
           /\ UNCHANGED <<submitted, resume>>
        \/ /\ outcome = "panic"
           /\ pending' = [pending EXCEPT ![d].inCall = TRUE]
           /\ Unwind(NoRenderer)
           /\ UNCHANGED <<valid, failed>>
     /\ UNCHANGED <<registry, deferred, transfers, picture, frame, borrowed, issued, drawing>>

(* Slip: a display whose callback unwound is kept.                          *)
KeepDisplay(d) ==
  /\ pc = "settle" /\ at = d
  /\ pending[d].inCall
  /\ Goto("retire", d)
  /\ UNCHANGED <<registry, work, picture, counters, hardware, resume, submitted, failed>>

(* A display whose callback unwound is destroyed before retirement.         *)
DropDisplay(d) ==
  /\ pc = "settle" /\ at = d
  /\ pending[d].inCall
  /\ shown' = shown \ {d}
  /\ reading' = Without(reading, {d})
  /\ Goto("retire", d)
  /\ UNCHANGED <<shape, alive, work, picture, counters, issued, drawing, flushed,
                 resume, submitted, failed>>

TransferLimit == 2
Pipelines(d) == shape[d].pipelined /\ shape[d].strips > 1

Transfer(d) ==
  /\ pc = "settle" /\ at = d
  /\ pending[d].token /\ ~pending[d].inCall
  /\ transfers' = [transfers EXCEPT ![d] = Append(@, pending[d])]
  /\ pending' = [pending EXCEPT ![d] = NoWork]
  /\ IF ~Pipelines(d) \/ Len(transfers'[d]) >= TransferLimit \/ phase = "drop"
     THEN Goto("transfer", d) /\ resume' = "finish"
     ELSE Down /\ UNCHANGED resume
  /\ UNCHANGED <<registry, deferred, picture, counters, hardware, submitted, failed>>

Retire(d) ==
  LET s == Sub(d, pending[d])
  IN /\ at = d
     /\ pc = "retire" \/ (pc = "settle" /\ ~pending[d].token /\ ~pending[d].inCall)
     /\ pending' = [pending EXCEPT ![d] = NoWork]
     /\ issued' = issued \ {s} /\ flushed' = flushed \ {s}
     /\ Down
     /\ UNCHANGED <<registry, deferred, transfers, picture, counters, drawing, reading,
                    resume, submitted, failed>>

(* The round is over: the guard's own round drains and returns, complete's  *)
(* drains, a frame's starts the next round or drains.                       *)
RoundEnd ==
  /\ pc = "roundEnd"
  /\ \/ phase = "drop" /\ pc' = "drain" /\ goal' = "return" /\ at' = Last
                       /\ UNCHANGED <<phase, submitted>>
     \/ phase = "complete" /\ pc' = "drain" /\ goal' = "completed" /\ at' = Last
                       /\ UNCHANGED <<phase, submitted>>
     \/ /\ phase = "frame"
        /\ IF failed THEN pc' = "guardDrop" /\ phase' = "drop" /\ UNCHANGED <<goal, at, submitted>>
           ELSE IF submitted
           THEN pc' = "submit" /\ at' = 0 /\ submitted' = FALSE /\ UNCHANGED <<goal, phase>>
           ELSE pc' = "drain" /\ goal' = "commit" /\ at' = Last /\ UNCHANGED <<phase, submitted>>
  /\ UNCHANGED <<registry, work, picture, counters, hardware, call, resume, failed,
                 panicking, blamed, result>>

-----------------------------------------------------------------------------
(* finish_transfer and drain_transfers.                                     *)

(* The oldest transfer's wait; on a destroyed display there is none.        *)
TransferWait(d, outcome) ==
  LET t == Head(transfers[d])
      s == Sub(d, t)
  IN /\ pc = "transfer" /\ at = d
     /\ ~t.inCall /\ d \in shown
     /\ May(outcome)
     /\ \/ /\ outcome \in {"ok", "err"}
           /\ reading' = reading \ {s}
           /\ IF outcome = "ok"
              THEN /\ stale' = [stale EXCEPT ![d] = @ \ {t.strip}]
                   /\ torn' = [torn EXCEPT ![d] = @ \ {t.strip}]
              ELSE UNCHANGED <<stale, torn>>
           /\ Note(d, outcome)
           /\ Goto("retireTransfer", d)
           /\ UNCHANGED <<transfers, submitted, resume>>
        \/ /\ outcome = "panic"
           /\ transfers' = [transfers EXCEPT ![d][1].inCall = TRUE, ![d][1].token = FALSE]
           /\ Unwind(NoRenderer)
           /\ UNCHANGED <<reading, stale, torn, valid, failed>>
     /\ UNCHANGED <<registry, pending, deferred, nextStrip, damage, moved, frame, borrowed,
                    issued, drawing, flushed>>

TransferStopped(d) ==
  /\ pc = "transfer" /\ at = d
  /\ Head(transfers[d]).inCall \/ d \notin shown
  /\ shown' = shown \ {d}
  /\ reading' = Without(reading, {d})
  /\ Goto("retireTransfer", d)
  /\ UNCHANGED <<shape, alive, work, picture, counters, issued, drawing, flushed,
                 resume, submitted, failed>>

RetireTransfer(d) ==
  LET s == Sub(d, Head(transfers[d]))
  IN /\ pc = "retireTransfer" /\ at = d
     /\ transfers' = [transfers EXCEPT ![d] = Tail(@)]
     /\ issued' = issued \ {s} /\ flushed' = flushed \ {s}
     /\ IF resume = "drain" THEN Goto("drain", d) ELSE Down
     /\ UNCHANGED <<registry, pending, deferred, picture, counters, drawing, reading,
                    resume, submitted, failed>>

Drain ==
  /\ pc = "drain"
  /\ IF transfers[at] # <<>> THEN Goto("transfer", at) /\ resume' = "drain"
     ELSE IF at > 0 THEN Goto("drain", at - 1) /\ UNCHANGED resume
     ELSE Goto(goal, Last) /\ UNCHANGED resume
  /\ UNCHANGED <<registry, work, picture, counters, hardware, submitted, failed>>

(* Slip: the texture log of the frame is not kept.                          *)
CommitWithoutLog ==
  /\ pc = "commit" /\ ~failed
  /\ valid' = [d \in Displays |-> call # "overlay"]
  /\ Return("ok")
  /\ UNCHANGED <<registry, work, picture, frame, borrowed, hardware, failed>>

(* Commit the histories; a failed drain is a failed frame.  Pixels drawn by *)
(* an overlay are in no history.                                            *)
Commit ==
  /\ pc = "commit" /\ ~failed
  /\ valid' = [d \in Displays |-> call # "overlay"]
  /\ borrowed' = frame
  /\ Return("ok")
  /\ UNCHANGED <<registry, work, picture, frame, hardware, failed>>

CommitFails ==
  /\ pc = "commit" /\ failed
  /\ pc' = "guardDrop" /\ phase' = "drop"
  /\ UNCHANGED <<registry, work, picture, counters, hardware, locals, call, at>>

-----------------------------------------------------------------------------
(* FrameGuard::drop of an uncommitted frame.                                *)

(* Slip: the guard waits for the renderer that unwound, as for the others.  *)
GuardDropWaits ==
  /\ pc = "guardDrop"
  /\ valid' = Nowhere
  /\ TakeDeferred
  /\ at' = Last /\ pc' = "finish"
  /\ UNCHANGED <<registry, transfers, picture, frame, borrowed, hardware, call, phase, goal,
                 resume, submitted, failed, panicking, blamed, result>>

(* Slip: a failed frame leaves its Deferred submissions in flight.          *)
GuardDropLeaves ==
  /\ pc = "guardDrop"
  /\ valid' = Nowhere
  /\ at' = Last
  /\ IF blamed # NoRenderer THEN pc' = "drain" /\ goal' = "destroy"
                            ELSE pc' = "finish" /\ UNCHANGED goal
  /\ UNCHANGED <<registry, work, picture, frame, borrowed, hardware, call, phase, resume,
                 submitted, failed, panicking, blamed, result>>

GuardDrop ==
  /\ pc = "guardDrop"
  /\ valid' = Nowhere
  /\ TakeDeferred
  /\ at' = Last
  /\ IF blamed # NoRenderer THEN pc' = "drain" /\ goal' = "destroy"
                            ELSE pc' = "finish" /\ UNCHANGED goal
  /\ UNCHANGED <<registry, transfers, picture, frame, borrowed, hardware, call, phase, resume,
                 submitted, failed, panicking, blamed, result>>

(* The renderer whose call unwound is destroyed, which stops its hardware;  *)
(* then the submissions it still holds, and the displays bound to it.       *)
Destroy ==
  LET D == {d \in Displays : RendererOf[d] = blamed}
  IN /\ pc = "destroy"
     /\ alive' = alive \ {blamed} /\ shown' = shown \ D
     /\ pending' = [d \in Displays |-> IF d \in D THEN NoWork ELSE pending[d]]
     /\ issued' = Without(issued, D) /\ drawing' = Without(drawing, D)
     /\ reading' = Without(reading, D)
     /\ flushed' = Without(flushed, D)
     /\ Goto("finish", Last)
     /\ UNCHANGED <<shape, deferred, transfers, picture, counters, resume, submitted, failed>>

GuardReturn ==
  /\ pc = "return"
  /\ Return(IF panicking THEN "panic" ELSE "err")
  /\ UNCHANGED <<registry, work, picture, counters, hardware, failed>>

(* A destroyed coordinator has no next step.                                *)
Gone == pc = "gone" /\ UNCHANGED vars

-----------------------------------------------------------------------------
Calls == {"present", "overlay", "complete", "setScale", "refresh", "drop"}
Outcomes == {"ok", "err", "panic"}

Step ==
  \/ Completed \/ Configure \/ ConfigureRejected \/ Begin \/ BeginRejected
  \/ FinishNothing \/ WaitedBefore \/ RoundEnd \/ Drain \/ Commit \/ CommitFails
  \/ GuardDrop \/ Destroy \/ GuardReturn
  \/ \E d \in Displays :
       \/ \E region, motion \in SUBSET Strips : Prepare(d, region, motion)
       \/ Pass(d) \/ Keep(d) \/ DropDisplay(d) \/ Transfer(d) \/ Retire(d)
       \/ TransferStopped(d) \/ RetireTransfer(d)
       \/ \E outcome \in Outcomes :
            \/ Acquire(d, outcome) \/ Render(d, outcome) \/ Overlay(d, outcome)
            \/ QueueFlush(d, outcome) \/ RenderWait(d, outcome) \/ Flush(d, outcome)
            \/ TransferWait(d, outcome)
  \/ \E outcome \in {"err", "panic"}, motion \in SUBSET Strips : PrepareFails(outcome, motion)

Next == Step \/ (\E kind \in Calls : Start(kind)) \/ Gone

Spec == Init /\ [][Next]_vars

(* Every driver call returns or unwinds, and the program goes on.           *)
FairSpec == Spec /\ WF_vars(Step)
=============================================================================
