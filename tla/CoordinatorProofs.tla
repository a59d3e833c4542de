-------------------------- MODULE CoordinatorProofs -------------------------
(* The safety properties of Coordinator, and that it implements             *)
(* FrameContract, for all registries, strips and frames.  They follow from  *)
(* IInv: where each submission is held at each place of a call, and what    *)
(* the hardware and the damage history know of it.                          *)
(*                                                                          *)
(* No driver call unwinds inside the guard's Drop (NoDropPanic): the run    *)
(* CoordinatorDropPanic shows what such a panic leaves behind.              *)
EXTENDS CoordinatorProperties, FiniteSetTheorems, TLAPS

NoDropPanic == "dropPanic" \notin Env

(* A submission being worked on, and the slot that may hold one.            *)
Live == [frame : 1 .. FrameLimit, strip : Strips, waited : BOOLEAN, inCall : BOOLEAN,
         token : BOOLEAN, defer : BOOLEAN]
Slot == Live \cup {NoWork}

(* Groups of places: between calls; before the guard; a transfer awaited,   *)
(* from a round or from the drain that follows it.                          *)
Resting == {"caller", "gone"}
Before == {"completed", "configure", "begin", "prepare"}
Goals == {"completed", "commit", "destroy", "return"}
Places == Resting \cup Before \cup Goals \cup
  {"submit", "render", "overlay", "finish", "flush", "settle", "retire", "roundEnd",
   "drain", "transfer", "retireTransfer", "guardDrop"}
Transferring == pc \in {"transfer", "retireTransfer"}
Finishing == pc \in {"finish", "flush", "settle", "retire"} \/ (Transferring /\ resume = "finish")
Draining == pc = "drain" \/ (Transferring /\ resume = "drain")

(* A renderer unwound and is not destroyed yet.                             *)
Doomed == pc \in {"guardDrop", "destroy"} \/ (Draining /\ goal = "destroy")

RegistryType ==
  /\ shape \in [Displays -> {s \in Shapes : Legal(s)}]
  /\ alive \subseteq Renderers /\ shown \subseteq Displays
CountersType ==
  frame \in 0 .. FrameLimit /\ borrowed \in Nat /\ valid \in [Displays -> BOOLEAN]
PictureType ==
  /\ nextStrip \in [Displays -> Nat \ {0}]
  /\ damage \in [Displays -> SUBSET Strips] /\ stale \in [Displays -> SUBSET Strips]
  /\ moved \in [Displays -> SUBSET Strips] /\ torn \in [Displays -> SUBSET Strips]
WorkType ==
  /\ pending \in [Displays -> Slot] /\ deferred \in [Displays -> Slot]
  /\ transfers \in [Displays -> Seq(Live)]
ControlType ==
  /\ pc \in Places /\ phase \in {"complete", "frame", "drop"} /\ at \in Displays
  /\ goal \in Goals /\ resume \in {"finish", "drain"}
  /\ submitted \in BOOLEAN /\ failed \in BOOLEAN
  /\ blamed \in Renderers \cup {NoRenderer}
TypeOK ==
  /\ RegistryType /\ CountersType /\ PictureType /\ WorkType /\ ControlType
  /\ issued \subseteq Submissions

(* Which guard each place is under, where a drain leads, who is blamed.     *)
ControlOK ==
  /\ pc \in Before => phase = "complete"
  /\ pc \in {"submit", "render", "overlay", "commit"} => phase = "frame"
  /\ pc \in {"guardDrop", "destroy", "return"} => phase = "drop"
  /\ Draining => \/ phase = "complete" /\ goal = "completed"
                 \/ phase = "frame" /\ goal = "commit"
                 \/ phase = "drop" /\ goal \in {"destroy", "return"}
  /\ blamed # NoRenderer => phase = "drop" /\ (Doomed \/ blamed \notin alive)
  /\ phase # "drop" /\ pc \notin Resting \cup {"completed", "configure", "begin"} =>
       shown = Displays
  /\ phase = "frame" \/ pc = "prepare" => frame # 0

(* Which slots are empty at which place.                                    *)
PlacesOK ==
  /\ \/ pc \in Resting \cup Before \cup {"roundEnd", "commit", "return"}
     \/ Draining /\ goal # "destroy"
     => \A d \in Displays : pending[d] = NoWork
  /\ pc \in Resting \cup Before \cup {"commit", "return", "destroy"} =>
       \A d \in Displays : transfers[d] = <<>>
  /\ Draining => \A d \in Displays : d > at => transfers[d] = <<>>
  /\ pc \in {"submit", "render", "overlay"} \/ Finishing =>
       \A d \in Displays : d > at => pending[d] = NoWork
  /\ pc \in {"submit", "render"} => pending[at] = NoWork
  /\ pc \in {"flush", "settle", "retire"} => pending[at] # NoWork
  /\ Transferring => transfers[at] # <<>> /\ (resume = "finish" => pending[at] = NoWork)
  /\ \A d \in Displays : deferred[d] # NoWork => pc \in Resting \cup {"guardDrop"} \/ phase = "frame"
  /\ pc \in Resting =>
       \A d \in Displays : deferred[d] # NoWork => result = "ok" /\ borrowed = frame /\ shown = Displays

(* The marks on the submissions of a display.                               *)
FlagsOK(d) ==
  /\ pending[d].inCall => phase = "drop"
  /\ pending[d].waited => phase = "drop" \/ (d = at /\ pc \in {"flush", "settle"})
  /\ pending[d].defer => Defers(d) /\ ~pending[d].token /\ phase # "complete"
  /\ deferred[d] # NoWork =>
       Defers(d) /\ ~deferred[d].waited /\ ~deferred[d].inCall /\ ~deferred[d].defer
  /\ \A i \in 1 .. Len(transfers[d]) :
       transfers[d][i].waited /\ (transfers[d][i].inCall => phase = "drop")
  /\ at = d => /\ pc \in {"flush", "settle", "retire"} => pending[d].waited
               /\ pc = "flush" =>
                    phase # "drop" /\ ~pending[d].token /\ ~pending[d].inCall /\ ~pending[d].defer
               /\ pc = "retire" => phase = "drop"

(* The strip of a submission was passed in this frame; the one about to be  *)
(* drawn is beyond all of them.                                             *)
Passed(d, p) ==
  /\ p.frame = frame
  /\ p.strip < nextStrip[d]
  /\ pc = "render" /\ at = d => p.strip + 1 < nextStrip[d]

(* The submissions of a display are those of one frame, in strip order.     *)
Overlap(d) == IF Pipelines(d) THEN 1 ELSE 0
OrderOK(d) ==
  /\ pending[d] # NoWork => Passed(d, pending[d])
  /\ deferred[d] # NoWork =>
       Passed(d, deferred[d]) /\ pending[d] = NoWork /\ transfers[d] = <<>>
  /\ \A i \in 1 .. Len(transfers[d]) :
       /\ Passed(d, transfers[d][i])
       /\ pending[d] # NoWork => transfers[d][i].strip < pending[d].strip
       /\ \A j \in 1 .. Len(transfers[d]) : i < j => transfers[d][i].strip < transfers[d][j].strip
  /\ phase = "frame" => Len(transfers[d]) <= Overlap(d) + (IF Finishing /\ Transferring /\ at = d THEN 1 ELSE 0)
  /\ pc = "render" /\ at = d => nextStrip[d] - 1 \in damage[d]

(* HeldBy, as a formula.                                                    *)
Holds(d, s) ==
  \/ pending[d] # NoWork /\ s = Sub(d, pending[d])
  \/ deferred[d] # NoWork /\ s = Sub(d, deferred[d])
  \/ \E i \in 1 .. Len(transfers[d]) : s = Sub(d, transfers[d][i])

(* What the devices still use is issued, and what is issued is held, but    *)
(* for the submission of a render that unwound.                             *)
IssuedOK ==
  /\ drawing \subseteq issued /\ reading \subseteq issued /\ flushed \subseteq issued
  /\ \A d \in Displays : \A s \in Submissions : Holds(d, s) => s \in issued
  /\ \A s \in issued : Holds(s.display, s) \/ (Doomed /\ blamed = RendererOf[s.display])

(* What is known of the devices from the marks.                             *)
DevicesOK(d) ==
  /\ pending[d].waited => Sub(d, pending[d]) \notin drawing
  /\ \A i \in 1 .. Len(transfers[d]) : Sub(d, transfers[d][i]) \notin drawing
  /\ pending[d] # NoWork /\ ~pending[d].token /\ ~pending[d].inCall =>
       Sub(d, pending[d]) \notin reading \cup flushed
  /\ deferred[d] # NoWork /\ ~deferred[d].token => Sub(d, deferred[d]) \notin reading \cup flushed
  /\ at = d /\ pc = "retire" => \A s \in reading : s.display # d
  /\ at = d /\ pc = "retireTransfer" => Sub(d, transfers[d][1]) \notin reading

(* A frame that has not failed, or a valid history, vouches for a display:  *)
(* its stale strips are held, or still to be drawn.                         *)
InFrame == phase = "frame" /\ pc \notin Resting
Vouched(d) == IF InFrame THEN ~failed ELSE valid[d]
HeldStrip(d, k) ==
  \/ pending[d] # NoWork /\ k = pending[d].strip
  \/ deferred[d] # NoWork /\ k = deferred[d].strip
  \/ \E i \in 1 .. Len(transfers[d]) : k = transfers[d][i].strip
ToDraw(d, k) ==
  InFrame /\ k \in damage[d] /\ (k >= nextStrip[d] \/ (pc = "render" /\ at = d /\ k = nextStrip[d] - 1))

BoundsOK(d) ==
  /\ stale[d] \subseteq 1 .. shape[d].strips /\ moved[d] \subseteq 1 .. shape[d].strips
  /\ phase = "frame" => damage[d] \subseteq 1 .. shape[d].strips
  /\ phase = "drop" /\ pc # "guardDrop" => ~valid[d]
AccountedOK(d) ==
  Vouched(d) /\ pc # "guardDrop" => \A k \in stale[d] : HeldStrip(d, k) \/ ToDraw(d, k)
DoneOK(d) ==
  at = d /\ phase # "drop" =>
    /\ pc = "settle" /\ ~pending[d].token => failed /\ ~valid[d]
    /\ pc = "retireTransfer" /\ Vouched(d) => transfers[d][1].strip \notin stale[d]
HistoryOK(d) == BoundsOK(d) /\ AccountedOK(d) /\ DoneOK(d)

(* A round in which nothing was submitted passed every display.             *)
Over(d) == nextStrip[d] > shape[d].strips
RoundsOK ==
  /\ pc = "prepare" => \A d \in Displays : d < at =>
       nextStrip[d] = 1 /\ damage[d] \subseteq 1 .. shape[d].strips /\ stale[d] \subseteq damage[d]
  /\ pc = "overlay" => submitted
  /\ pc = "submit" /\ ~submitted => \A d \in Displays : d < at => Over(d)
  /\ (Finishing \/ pc = "roundEnd") /\ phase = "frame" /\ ~failed /\ ~submitted =>
       \A d \in Displays : Over(d)
  /\ pc = "commit" \/ (Draining /\ phase = "frame") => \A d \in Displays : Over(d)

IInv ==
  /\ TypeOK /\ ControlOK /\ PlacesOK
  /\ \A d \in Displays : FlagsOK(d) /\ OrderOK(d) /\ DevicesOK(d) /\ HistoryOK(d)
  /\ IssuedOK /\ RoundsOK

(* The submission a render starts.                                          *)
Fresh(d) == [NoWork EXCEPT !.frame = frame, !.strip = nextStrip[d] - 1, !.defer = Defers(d)]

-----------------------------------------------------------------------------
(* Slots and displays.                                                      *)

LEMMA EmptySlot ==
  /\ NoWork.frame = 0 /\ NoWork.strip = 0 /\ NoWork \notin Live
  /\ ~NoWork.waited /\ ~NoWork.inCall /\ ~NoWork.token /\ ~NoWork.defer
  /\ Len(<<>>) = 0 /\ 1 .. 0 = {}
  BY DEF NoWork, Live

LEMMA SlotFacts ==
  ASSUME NEW p \in Slot
  PROVE  /\ p # NoWork <=> p \in Live
         /\ p # NoWork => p.frame \in 1 .. FrameLimit /\ p.strip \in Strips
         /\ p.waited \in BOOLEAN /\ p.inCall \in BOOLEAN /\ p.token \in BOOLEAN
         /\ p.defer \in BOOLEAN
         /\ p.waited \/ p.inCall \/ p.token \/ p.defer => p # NoWork
  <1>1. CASE p = NoWork
    BY <1>1, EmptySlot DEF NoWork
  <1>2. CASE p \in Live
    BY <1>2, EmptySlot DEF Live
  <1> QED BY <1>1, <1>2 DEF Slot

(* What is in the slots and transfers of a display.                         *)
LEMMA Typed ==
  ASSUME TypeOK, NEW d \in Displays
  PROVE  /\ pending[d] \in Slot /\ deferred[d] \in Slot
         /\ transfers[d] \in Seq(Live) /\ Len(transfers[d]) \in Nat
         /\ \A i \in 1 .. Len(transfers[d]) :
              transfers[d][i] \in Live /\ transfers[d][i] \in Slot /\ transfers[d][i] # NoWork
         /\ nextStrip[d] \in Nat \ {0} /\ valid[d] \in BOOLEAN
         /\ shape[d] \in Shapes /\ Legal(shape[d]) /\ shape[d].strips \in Strips
         /\ damage[d] \subseteq Strips /\ stale[d] \subseteq Strips /\ moved[d] \subseteq Strips
         /\ torn[d] \subseteq Strips
  <1>1. \A i \in 1 .. Len(transfers[d]) : transfers[d][i] \in Live
    BY DEF TypeOK, WorkType
  <1>2. \A i \in 1 .. Len(transfers[d]) : transfers[d][i] \in Slot /\ transfers[d][i] # NoWork
    BY <1>1, EmptySlot DEF Slot
  <1> QED BY <1>1, <1>2 DEF TypeOK, RegistryType, CountersType, PictureType, WorkType, Shapes

LEMMA DisplayNumbers ==
  /\ Displays \subseteq Nat /\ Last \in Displays /\ 0 \in Displays
  /\ \A d \in Displays : d <= Last
  /\ \A d \in Displays : d # 0 => d - 1 \in Displays
  /\ \A d \in Displays : d # Last => d + 1 \in Displays
  BY RegistryAssumption DEF Displays, Last

LEMMA InitInv == Init => IInv
  <1> SUFFICES ASSUME Init PROVE IInv
    OBVIOUS
  <1> USE RegistryAssumption, BoundsAssumption, DisplayNumbers, EmptySlot
  <1>1. shape \in [Displays -> {s \in Shapes : Legal(s)}]
    BY DEF Init, LegalShapes
  <1>2. TypeOK
    <2>1. frame \in 0 .. FrameLimit /\ borrowed \in Nat
      BY DEF Init
    <2>2. valid \in [Displays -> BOOLEAN]
      BY DEF Init, Nowhere
    <2>3. nextStrip \in [Displays -> Nat \ {0}] /\ transfers \in [Displays -> Seq(Live)]
      BY DEF Init
    <2>4. /\ damage \in [Displays -> SUBSET Strips] /\ stale \in [Displays -> SUBSET Strips]
          /\ moved \in [Displays -> SUBSET Strips] /\ torn \in [Displays -> SUBSET Strips]
      BY DEF Init, Nothing
    <2>5. pending \in [Displays -> Slot] /\ deferred \in [Displays -> Slot]
      BY DEF Init, Slot
    <2>6. pc \in Places /\ goal \in Goals /\ phase \in {"complete", "frame", "drop"}
          /\ resume \in {"finish", "drain"} /\ at \in Displays
      BY DEF Init, Places, Resting, Goals
    <2> QED BY <1>1, <2>1, <2>2, <2>3, <2>4, <2>5, <2>6 DEF Init, TypeOK, RegistryType, CountersType, PictureType, WorkType, ControlType
  <1>3. ControlOK /\ PlacesOK
    BY DEF Init, ControlOK, PlacesOK, Before, Resting, Draining, Finishing, Transferring
  <1>4. \A d \in Displays : FlagsOK(d) /\ OrderOK(d)
    BY DEF Init, FlagsOK, OrderOK
  <1>5. \A d \in Displays : DevicesOK(d) /\ HistoryOK(d)
    BY DEF Init, Nothing, DevicesOK, HistoryOK, BoundsOK, AccountedOK, DoneOK
  <1>6. IssuedOK /\ RoundsOK
    BY DEF Init, IssuedOK, Holds, RoundsOK, Draining, Finishing, Transferring
  <1> QED BY <1>2, <1>3, <1>4, <1>5, <1>6 DEF IInv

(* The next display of a round, upwards while submitting and downwards while *)
(* finishing.                                                               *)
LEMMA UpFacts ==
  ASSUME ControlType, Up
  PROVE  /\ \/ at # Last /\ at + 1 \in Displays /\ at' = at + 1 /\ pc' = "submit"
            \/ at = Last /\ at' = Last /\ pc' = "finish"
         /\ \A d \in Displays : d > at \/ d = at \/ d < at
         /\ \A d \in Displays : pc' = "submit" => (d < at' <=> d < at \/ d = at)
         /\ \A d \in Displays : d > at' => d > at
         /\ \A d \in Displays : pc' = "submit" /\ d = at' => d > at
         /\ \A d \in Displays : pc' = "finish" => d < at \/ d = at
         /\ at' \in Displays
         /\ UNCHANGED <<call, phase, goal, panicking, blamed, result>>
  <1>1. at \in Displays /\ at \in Nat
    BY DisplayNumbers DEF ControlType
  <1>2. \/ at < Last /\ at' = at + 1 /\ pc' = "submit"
        \/ ~(at < Last) /\ at' = Last /\ pc' = "finish"
    BY DEF Up, Goto
  <1>3. UNCHANGED <<call, phase, goal, panicking, blamed, result>>
    BY DEF Up, Goto
  <1>4. Last \in Nat /\ at <= Last
    BY <1>1, DisplayNumbers
  <1> QED BY <1>1, <1>2, <1>3, <1>4, DisplayNumbers

LEMMA DownFacts ==
  ASSUME ControlType, Down
  PROVE  /\ \/ at # 0 /\ at - 1 \in Displays /\ at' = at - 1 /\ pc' = "finish"
            \/ at = 0 /\ at' = Last /\ pc' = "roundEnd"
         /\ \A d \in Displays : d > at \/ d = at \/ d < at
         /\ \A d \in Displays : pc' = "finish" => (d > at' <=> d > at \/ d = at)
         /\ \A d \in Displays : pc' = "roundEnd" => d > at \/ d = at
         /\ at' \in Displays
         /\ UNCHANGED <<call, phase, goal, panicking, blamed, result>>
  <1>1. at \in Displays /\ at \in Nat
    BY DisplayNumbers DEF ControlType
  <1>2. \/ at > 0 /\ at' = at - 1 /\ pc' = "finish"
        \/ ~(at > 0) /\ at' = Last /\ pc' = "roundEnd"
    BY DEF Down, Goto
  <1>3. UNCHANGED <<call, phase, goal, panicking, blamed, result>>
    BY DEF Down, Goto
  <1> QED BY <1>1, <1>2, <1>3, DisplayNumbers

LEMMA UnwindFacts ==
  ASSUME NoDropPanic, NEW r, Unwind(r)
  PROVE  /\ phase # "drop" /\ pc' = "guardDrop" /\ phase' = "drop" /\ blamed' = r
         /\ UNCHANGED <<call, at, goal, resume, submitted, result>>
  BY DEF NoDropPanic, Unwind

(* A display is bound to a renderer; a Deferred one has a single strip.     *)
LEMMA Bound ==
  ASSUME RegistryType, NEW d \in Displays
  PROVE  /\ RendererOf[d] = shape[d].renderer /\ RendererOf[d] \in Renderers
         /\ RendererOf[d] # NoRenderer
         /\ Defers(d) => shape[d].strips = 1 /\ ~Pipelines(d)
  BY RegistryAssumption DEF RegistryType, RendererOf, Defers, Pipelines, Legal, Shapes

LEMMA NowhereFacts == Nowhere \in [Displays -> BOOLEAN] /\ \A d \in Displays : ~Nowhere[d]
  BY DEF Nowhere

(* Marking a submission changes that mark only.                             *)
LEMMA MarkWaited ==
  ASSUME NEW p \in Live, NEW b \in BOOLEAN, NEW q, q = [p EXCEPT !.waited = b]
  PROVE  /\ q \in Live /\ q.strip = p.strip /\ q.frame = p.frame /\ (q.waited <=> b)
         /\ (q.inCall <=> p.inCall) /\ (q.token <=> p.token) /\ (q.defer <=> p.defer)
  BY DEF Live

LEMMA MarkInCall ==
  ASSUME NEW p \in Live, NEW b \in BOOLEAN, NEW q, q = [p EXCEPT !.inCall = b]
  PROVE  /\ q \in Live /\ q.strip = p.strip /\ q.frame = p.frame /\ (q.inCall <=> b)
         /\ (q.waited <=> p.waited) /\ (q.token <=> p.token) /\ (q.defer <=> p.defer)
  BY DEF Live

LEMMA MarkToken ==
  ASSUME NEW p \in Live, NEW b \in BOOLEAN, NEW q, q = [p EXCEPT !.token = b]
  PROVE  /\ q \in Live /\ q.strip = p.strip /\ q.frame = p.frame /\ (q.token <=> b)
         /\ (q.waited <=> p.waited) /\ (q.inCall <=> p.inCall) /\ (q.defer <=> p.defer)
  BY DEF Live

LEMMA MarkDefer ==
  ASSUME NEW p \in Live, NEW b \in BOOLEAN, NEW q, q = [p EXCEPT !.defer = b]
  PROVE  /\ q \in Live /\ q.strip = p.strip /\ q.frame = p.frame /\ (q.defer <=> b)
         /\ (q.waited <=> p.waited) /\ (q.inCall <=> p.inCall) /\ (q.token <=> p.token)
  BY DEF Live

(* What is held is told by the frames and strips in the slots alone.        *)
LEMMA HeldSame ==
  ASSUME NEW e, pending'[e] # NoWork <=> pending[e] # NoWork, deferred'[e] = deferred[e],
         pending'[e].strip = pending[e].strip, pending'[e].frame = pending[e].frame,
         Len(transfers'[e]) = Len(transfers[e]),
         \A i \in 1 .. Len(transfers[e]) :
           transfers'[e][i].strip = transfers[e][i].strip /\ transfers'[e][i].frame = transfers[e][i].frame
  PROVE  /\ \A s : Holds(e, s)' <=> Holds(e, s)
         /\ \A k : HeldStrip(e, k)' <=> HeldStrip(e, k)
  BY DEF Holds, HeldStrip, Sub

(* A submission moves from one holder to another.                           *)
LEMMA HeldMoved ==
  ASSUME NEW e, transfers[e] \in Seq(Live),
         \/ /\ deferred[e] = NoWork /\ pending'[e] = NoWork /\ transfers'[e] = transfers[e]
            /\ pending[e] # NoWork /\ deferred'[e] # NoWork
            /\ deferred'[e].strip = pending[e].strip /\ deferred'[e].frame = pending[e].frame
         \/ /\ deferred[e] # NoWork /\ pending[e] = NoWork /\ transfers'[e] = transfers[e]
            /\ pending'[e] = deferred[e] /\ deferred'[e] = NoWork
         \/ /\ deferred'[e] = deferred[e] /\ pending[e] \in Live /\ pending'[e] = NoWork
            /\ transfers'[e] = Append(transfers[e], pending[e])
  PROVE  /\ \A s : Holds(e, s)' <=> Holds(e, s)
         /\ \A k : HeldStrip(e, k)' <=> HeldStrip(e, k)
  <1>1. CASE deferred[e] = NoWork /\ deferred'[e] # NoWork
    BY <1>1 DEF Holds, HeldStrip, Sub
  <1>2. CASE deferred[e] # NoWork /\ deferred'[e] = NoWork
    BY <1>2 DEF Holds, HeldStrip, Sub
  <1>3. CASE /\ deferred'[e] = deferred[e] /\ pending[e] \in Live /\ pending'[e] = NoWork
             /\ transfers'[e] = Append(transfers[e], pending[e])
    <2>1. pending[e] # NoWork
      BY <1>3, EmptySlot
    <2>2. Len(transfers[e]) \in Nat /\ Len(transfers'[e]) = Len(transfers[e]) + 1
          /\ transfers'[e][Len(transfers[e]) + 1] = pending[e]
          /\ \A i \in 1 .. Len(transfers[e]) : transfers'[e][i] = transfers[e][i]
      BY <1>3
    <2>3. \A i : i \in 1 .. Len(transfers'[e]) <=> i \in 1 .. Len(transfers[e]) \/ i = Len(transfers[e]) + 1
      BY <2>2
    <2>4. ASSUME NEW s PROVE Holds(e, s)' <=> Holds(e, s)
      BY <1>3, <2>1, <2>2, <2>3 DEF Holds, Sub
    <2>5. ASSUME NEW k PROVE HeldStrip(e, k)' <=> HeldStrip(e, k)
      BY <1>3, <2>1, <2>2, <2>3 DEF HeldStrip
    <2> QED BY <2>4, <2>5
  <1> QED BY <1>1, <1>2, <1>3

(* What a display holds is a submission of its own.                         *)
LEMMA HeldIs ==
  ASSUME TypeOK, NEW e \in Displays, NEW s, Holds(e, s)
  PROVE  s \in Submissions /\ s.display = e
  BY Typed, SlotFacts DEF Holds, Sub, Submissions

(* The strip about to be drawn is beyond all that the display has in flight. *)
LEMMA FreshFacts ==
  ASSUME IInv, NEW d \in Displays, pc = "render", at = d
  PROVE  /\ phase = "frame" /\ pending[d] = NoWork /\ deferred[d] = NoWork /\ ~Doomed
         /\ Fresh(d) \in Live /\ Fresh(d) # NoWork /\ Fresh(d).frame = frame
         /\ Fresh(d).strip = nextStrip[d] - 1 /\ Fresh(d).strip \in damage[d]
         /\ Fresh(d).strip < nextStrip[d] /\ Fresh(d).strip \in Strips
         /\ ~Fresh(d).waited /\ ~Fresh(d).inCall /\ ~Fresh(d).token /\ (Fresh(d).defer <=> Defers(d))
         /\ Sub(d, Fresh(d)) \in Submissions /\ Sub(d, Fresh(d)).display = d
         /\ \A i \in 1 .. Len(transfers[d]) :
              /\ transfers[d][i].strip < Fresh(d).strip
              /\ Sub(d, transfers[d][i]) # Sub(d, Fresh(d))
         /\ Sub(d, Fresh(d)) \notin issued
  <1> USE EmptySlot DEF IInv
  <1>0. pc = "render" /\ at = d
    OBVIOUS
  <1>a. phase = "frame" /\ pending[d] = NoWork /\ deferred[d] = NoWork /\ ~Doomed
    <2>1. phase = "frame" /\ pending[d] = NoWork /\ ~Doomed
      BY <1>0 DEF ControlOK, PlacesOK, Doomed, Draining, Transferring
    <2>2. ASSUME deferred[d] # NoWork PROVE FALSE
      <3>1. Defers(d) /\ shape[d].strips = 1
        BY <2>2, Bound DEF FlagsOK, TypeOK
      <3>2. nextStrip[d] - 1 \in 1 .. 1
        BY <1>0, <2>1, <3>1 DEF OrderOK, HistoryOK, BoundsOK
      <3>3. deferred[d].strip + 1 < nextStrip[d] /\ deferred[d].strip \in Strips
        BY <1>0, <2>2, Typed, SlotFacts DEF OrderOK, Passed
      <3> QED BY <3>2, <3>3, Typed DEF Strips
    <2> QED BY <2>1, <2>2
  <1>b. /\ Fresh(d) \in Live /\ Fresh(d) # NoWork /\ Fresh(d).frame = frame
        /\ Fresh(d).strip = nextStrip[d] - 1 /\ Fresh(d).strip \in damage[d]
        /\ Fresh(d).strip < nextStrip[d] /\ Fresh(d).strip \in Strips
        /\ ~Fresh(d).waited /\ ~Fresh(d).inCall /\ ~Fresh(d).token /\ (Fresh(d).defer <=> Defers(d))
    <2>1. frame \in 1 .. FrameLimit
      BY <1>0, <1>a, BoundsAssumption DEF ControlOK, TypeOK, CountersType
    <2>2. nextStrip[d] - 1 \in damage[d] /\ nextStrip[d] - 1 \in Strips /\ nextStrip[d] - 1 < nextStrip[d]
      BY <1>0, Typed DEF OrderOK, Strips
    <2>3. NoWork \in [frame : Nat, strip : Nat, waited : BOOLEAN, inCall : BOOLEAN, token : BOOLEAN,
                      defer : BOOLEAN]
      BY DEF NoWork
    <2>4. Defers(d) \in BOOLEAN
      BY DEF Defers
    <2>5. Fresh(d) \in Live
      <3>1. [NoWork EXCEPT !.frame = frame, !.strip = nextStrip[d] - 1, !.defer = Defers(d)] \in Live
        BY <2>1, <2>2, <2>3, <2>4 DEF Live
      <3> QED BY <3>1 DEF Fresh
    <2>6. /\ Fresh(d).frame = frame /\ Fresh(d).strip = nextStrip[d] - 1
          /\ ~Fresh(d).waited /\ ~Fresh(d).inCall /\ ~Fresh(d).token
      BY DEF Fresh, NoWork
    <2>7. Fresh(d).defer <=> Defers(d)
      BY <2>4 DEF Fresh, NoWork
    <2> QED BY <2>2, <2>5, <2>6, <2>7
  <1>c. Sub(d, Fresh(d)) \in Submissions /\ Sub(d, Fresh(d)).display = d
    BY <1>b DEF Sub, Submissions, Live
  <1>d. ASSUME NEW i \in 1 .. Len(transfers[d])
        PROVE  /\ transfers[d][i].strip < Fresh(d).strip
               /\ Sub(d, transfers[d][i]) # Sub(d, Fresh(d))
    <2>1. transfers[d][i].strip + 1 < nextStrip[d] /\ transfers[d][i].strip \in Strips
      BY <1>0, Typed, SlotFacts DEF OrderOK, Passed
    <2>2. transfers[d][i].strip < Fresh(d).strip /\ transfers[d][i].strip # Fresh(d).strip
      BY <1>b, <2>1, Typed DEF Strips
    <2> QED BY <2>2 DEF Sub
  <1>e. Sub(d, Fresh(d)) \notin issued
    <2>1. ~Holds(d, Sub(d, Fresh(d)))
      BY <1>a, <1>d DEF Holds
    <2> QED BY <1>a, <1>c, <2>1 DEF IssuedOK
  <1> QED BY <1>a, <1>b, <1>c, <1>d, <1>e

(* A call begins: what was left in flight is taken to be completed.         *)
LEMMA StartStep ==
  ASSUME IInv, NEW kind \in Calls, Start(kind)
  PROVE  IInv'
  <1> USE EmptySlot
  <1>1. pc = "caller" /\ TypeOK /\ ControlOK /\ PlacesOK /\ IssuedOK /\ RoundsOK
        /\ \A d \in Displays : FlagsOK(d) /\ OrderOK(d) /\ DevicesOK(d) /\ HistoryOK(d)
    BY DEF IInv, Start
  <1>2. \A d \in Displays : pending[d] = NoWork /\ transfers[d] = <<>>
    BY <1>1 DEF PlacesOK, Resting
  <1>3. \A d \in Displays : deferred'[d] = NoWork /\ pending'[d] = deferred[d] /\ transfers'[d] = <<>>
    BY <1>1, <1>2 DEF Start, TakeDeferred, Held, TypeOK, WorkType
  <1>4. TypeOK'
    <2>1. RegistryType' /\ PictureType' /\ issued' \subseteq Submissions
      BY <1>1 DEF TypeOK, RegistryType, PictureType, Start, registry, picture, hardware
    <2>2. CountersType'
      BY <1>1 DEF TypeOK, CountersType, Start
    <2>3. WorkType'
      BY <1>1, <1>3 DEF TypeOK, WorkType, Start, TakeDeferred, Held, Slot
    <2>4. ControlType'
      BY <1>1, DisplayNumbers DEF TypeOK, ControlType, Start, Places, Before, Goals
    <2> QED BY <2>1, <2>2, <2>3, <2>4 DEF TypeOK
  <1>5. ControlOK'
    BY <1>1, <1>4 DEF ControlOK, TypeOK, RegistryType, CountersType, PlacesOK, Start, Resting, Before, Draining, Transferring, registry
  <1>6. PlacesOK'
    <2>1. /\ phase' = "complete" /\ goal' = "completed"
          /\ \/ pc' = "finish" /\ at' = Last
             \/ pc' = "completed" /\ UNCHANGED <<pending, deferred>>
      BY DEF Start
    <2>2. \A d \in Displays : pc' = "finish" => ~(d > at')
      BY <2>1, DisplayNumbers
    <2> QED BY <1>2, <1>3, <2>1, <2>2 DEF PlacesOK, Resting, Before, Draining, Finishing, Transferring
  <1>7. ASSUME NEW d \in Displays PROVE FlagsOK(d)'
    <2>1. pc' \in {"finish", "completed"} /\ phase' = "complete"
      BY <1>1 DEF Start
    <2>2. ~pending'[d].waited /\ ~pending'[d].inCall /\ ~pending'[d].defer
      BY <1>1, <1>3 DEF FlagsOK
    <2> QED BY <2>1, <2>2, <1>3 DEF FlagsOK
  <1>8. ASSUME NEW d \in Displays PROVE OrderOK(d)'
    <2>1. pc' # "render" /\ phase' = "complete" /\ nextStrip' = nextStrip /\ frame' = frame
      BY <1>1 DEF Start, picture
    <2>2. deferred[d] # NoWork => Passed(d, deferred[d])
      BY <1>1 DEF OrderOK
    <2>3. pending'[d] # NoWork => pending'[d].frame = frame /\ pending'[d].strip < nextStrip[d]
      BY <2>2, <1>3 DEF Passed
    <2> QED BY <2>1, <2>3, <1>3 DEF OrderOK, Passed
  <1>9. ASSUME NEW d \in Displays PROVE DevicesOK(d)'
    BY <1>1, <1>2, <1>3 DEF DevicesOK, FlagsOK, Sub, Start, hardware
  <1>10. ASSUME NEW d \in Displays PROVE HistoryOK(d)'
    BY <1>1, <1>2, <1>3 DEF HistoryOK, BoundsOK, AccountedOK, DoneOK, Vouched, InFrame, HeldStrip, ToDraw, Start, picture, registry, Resting
  <1>11. IssuedOK'
    <2>1. ~Doomed
      BY <1>1 DEF Start, Doomed, Draining, Transferring
    <2>2. \A d \in Displays : \A s : Holds(d, s)' <=> Holds(d, s)
      BY <1>2, <1>3 DEF Holds, Sub
    <2>3. \A s \in issued : s.display \in Displays
      BY <1>1 DEF TypeOK, Submissions
    <2> QED BY <1>1, <2>1, <2>2, <2>3 DEF IssuedOK, Start, hardware
  <1>12. RoundsOK'
    BY <1>1 DEF RoundsOK, Start, Draining, Finishing, Transferring
  <1> QED BY <1>4, <1>5, <1>6, <1>7, <1>8, <1>9, <1>10, <1>11, <1>12 DEF IInv

(* complete returned: the call goes on, or ends.                            *)
LEMMA CompletedStep ==
  ASSUME IInv, NoDropPanic, Completed
  PROVE  IInv'
  <1> USE EmptySlot DEF IInv
  <1>0. /\ pc = "completed" /\ pc' \in {"caller", "gone", "begin", "configure"} /\ at' \in {at, 0}
        /\ UNCHANGED <<shape, alive, shown, nextStrip, damage, stale, moved, torn, frame, borrowed, valid, issued,
                        drawing, reading, flushed, pending, deferred, transfers, goal, resume,
                        submitted, failed, panicking, blamed, phase>>
    BY DEF TypeOK, WorkType, Completed, Return, Goto, registry, locals, work, picture,
       counters, hardware, control
  <1>1. TypeOK'
    <2>1. RegistryType'
      BY <1>0 DEF TypeOK, RegistryType
    <2>2. CountersType'
      BY <1>0 DEF TypeOK, CountersType, Return, Goto
    <2>3. PictureType'
      BY <1>0 DEF TypeOK, PictureType
    <2>4. WorkType'
      BY <1>0 DEF TypeOK, WorkType
    <2>5. ControlType'
      BY <1>0, DisplayNumbers DEF TypeOK, ControlType, Places, Goals, Resting, Before, Return,
         Goto
    <2>6. issued' \subseteq Submissions
      BY <1>0 DEF TypeOK
    <2> QED BY <2>1, <2>2, <2>3, <2>4, <2>5, <2>6 DEF TypeOK
  <1>2. ControlOK'
    BY <1>0, <1>1, DisplayNumbers DEF ControlOK, PlacesOK, NoDropPanic, Doomed, TypeOK,
       RegistryType, Resting, Before, Draining, Finishing, Transferring, Return, Goto
  <1>3. PlacesOK'
    BY <1>0, <1>1, DisplayNumbers DEF PlacesOK, ControlOK, TypeOK, ControlType, Resting, Before,
       Draining, Finishing, Transferring, Return, Goto
  <1>4. ASSUME NEW e \in Displays PROVE FlagsOK(e)'
    BY <1>0, Typed DEF FlagsOK, PlacesOK, ControlOK, Defers, RendererOf, Resting, Before,
       Draining, Finishing, Transferring, Return, Goto
  <1>5. ASSUME NEW e \in Displays PROVE OrderOK(e)'
    BY <1>0, Typed DEF OrderOK, Passed, Overlap, Pipelines, PlacesOK, ControlOK, Resting,
       Before, Draining, Finishing, Transferring, Return, Goto
  <1>6. ASSUME NEW e \in Displays PROVE DevicesOK(e)'
    BY <1>0, Typed DEF DevicesOK, Sub, PlacesOK, Resting, Before, Draining, Finishing,
       Transferring, Return, Goto
  <1>7. ASSUME NEW e \in Displays PROVE BoundsOK(e)'
    BY <1>0 DEF HistoryOK, BoundsOK, ControlOK, Resting, Before, Draining, Finishing,
       Transferring, Return, Goto
  <1>8. ASSUME NEW e \in Displays PROVE AccountedOK(e)'
    BY <1>0, Typed DEF HistoryOK, BoundsOK, AccountedOK, Vouched, InFrame, HeldStrip, ToDraw,
       PlacesOK, ControlOK, Resting, Before, Draining, Finishing, Transferring, Return, Goto
  <1>9. ASSUME NEW e \in Displays PROVE DoneOK(e)'
    BY <1>0, Typed DEF HistoryOK, DoneOK, Vouched, InFrame, PlacesOK, ControlOK, Resting,
       Before, Draining, Finishing, Transferring, Return, Goto
  <1>10. IssuedOK'
    BY <1>0, Typed DEF IssuedOK, Holds, Sub, Doomed, TypeOK, Submissions, ControlOK, PlacesOK,
       RendererOf, Resting, Before, Draining, Finishing, Transferring, Return, Goto
  <1>11. RoundsOK'
    BY <1>0, DisplayNumbers DEF RoundsOK, Over, PlacesOK, ControlOK, Resting, Before, Draining,
       Finishing, Transferring, Return, Goto
  <1> QED
    BY <1>1, <1>2, <1>3, <1>4, <1>5, <1>6, <1>7, <1>8, <1>9, <1>10, <1>11 DEF HistoryOK

(* Geometry and the software renderer are replaced.                         *)
LEMMA ConfigureStep ==
  ASSUME IInv, NoDropPanic, Configure
  PROVE  IInv'
  <1> USE EmptySlot DEF IInv
  <1>0. /\ pc = "configure" /\ pc' \in {"caller", "gone"} /\ valid' = Nowhere
        /\ shape' \in LegalShapes(RendererOf) \/ shape' = shape
        /\ alive' = alive \cup {Software} /\ stale' = [d \in Displays |-> 1 .. shape'[d].strips]
        /\ moved' = Nothing /\ torn' = Nothing
        /\ UNCHANGED <<shown, nextStrip, damage, frame, borrowed, issued, drawing, reading, flushed,
                        pending, deferred, transfers, goal, resume, submitted, failed,
                        panicking, blamed, phase, at>>
    BY DEF TypeOK, WorkType, Configure, Return, registry, locals, work, picture,
       counters, hardware, control
  <1>1. TypeOK'
    <2>1. RegistryType'
      <3>1. shape' \in [Displays -> {s \in Shapes : Legal(s)}]
        BY <1>0 DEF TypeOK, RegistryType, LegalShapes
      <3> QED BY <1>0, <3>1, RegistryAssumption DEF TypeOK, RegistryType
    <2>2. CountersType'
      BY <1>0, NowhereFacts DEF TypeOK, CountersType
    <2>3. PictureType'
      <3>1. shape' \in [Displays -> {s \in Shapes : Legal(s)}]
        BY <2>1 DEF RegistryType
      <3>2. \A d \in Displays : 1 .. shape'[d].strips \subseteq Strips
        BY <3>1, BoundsAssumption DEF Shapes, Strips
      <3> QED BY <1>0, <3>2 DEF TypeOK, PictureType, Nothing
    <2>4. WorkType'
      BY <1>0 DEF TypeOK, WorkType
    <2>5. ControlType'
      BY <1>0, DisplayNumbers DEF TypeOK, ControlType, Places, Goals, Resting, Before
    <2>6. issued' \subseteq Submissions
      BY <1>0 DEF TypeOK
    <2> QED BY <2>1, <2>2, <2>3, <2>4, <2>5, <2>6 DEF TypeOK
  <1>2. ControlOK'
    BY <1>0, <1>1, DisplayNumbers DEF ControlOK, PlacesOK, NoDropPanic, Doomed, TypeOK,
       RegistryType, Resting, Before, Draining, Finishing, Transferring, Return
  <1>3. PlacesOK'
    BY <1>0, <1>1, DisplayNumbers DEF PlacesOK, ControlOK, TypeOK, ControlType, Resting, Before,
       Draining, Finishing, Transferring, Return
  <1>4. ASSUME NEW e \in Displays PROVE FlagsOK(e)'
    BY <1>0, Typed DEF FlagsOK, PlacesOK, ControlOK, Defers, RendererOf, Resting, Before,
       Draining, Finishing, Transferring, Return
  <1>5. ASSUME NEW e \in Displays PROVE OrderOK(e)'
    BY <1>0, Typed DEF OrderOK, Passed, Overlap, Pipelines, PlacesOK, ControlOK, Resting,
       Before, Draining, Finishing, Transferring, Return
  <1>6. ASSUME NEW e \in Displays PROVE DevicesOK(e)'
    BY <1>0, Typed DEF DevicesOK, Sub, PlacesOK, Resting, Before, Draining, Finishing,
       Transferring, Return
  <1>7. ASSUME NEW e \in Displays PROVE BoundsOK(e)'
    BY <1>0 DEF Nothing, HistoryOK, BoundsOK, ControlOK, Resting, Before, Draining, Finishing,
       Transferring, Return
  <1>8. ASSUME NEW e \in Displays PROVE AccountedOK(e)'
    BY <1>0, NowhereFacts DEF HistoryOK, AccountedOK, Vouched, InFrame, HeldStrip, ToDraw, ControlOK,
       Before, Resting
  <1>9. ASSUME NEW e \in Displays PROVE DoneOK(e)'
    BY <1>0, Typed DEF HistoryOK, DoneOK, Vouched, InFrame, PlacesOK, ControlOK, Resting,
       Before, Draining, Finishing, Transferring, Return
  <1>10. IssuedOK'
    BY <1>0, Typed DEF IssuedOK, Holds, Sub, Doomed, TypeOK, Submissions, ControlOK, PlacesOK,
       RendererOf, Resting, Before, Draining, Finishing, Transferring, Return
  <1>11. RoundsOK'
    BY <1>0, DisplayNumbers DEF RoundsOK, Over, PlacesOK, ControlOK, Resting, Before, Draining,
       Finishing, Transferring, Return
  <1> QED
    BY <1>1, <1>2, <1>3, <1>4, <1>5, <1>6, <1>7, <1>8, <1>9, <1>10, <1>11 DEF HistoryOK

(* A rejected configuration changes nothing.                                *)
LEMMA ConfigureRejectedStep ==
  ASSUME IInv, NoDropPanic, ConfigureRejected
  PROVE  IInv'
  <1> USE EmptySlot DEF IInv
  <1>0. /\ pc = "configure" /\ pc' \in {"caller", "gone"}
        /\ UNCHANGED <<shape, alive, shown, nextStrip, damage, stale, moved, torn, frame, borrowed, valid, issued,
                        drawing, reading, flushed, pending, deferred, transfers, goal, resume,
                        submitted, failed, panicking, blamed, phase, at>>
    BY DEF TypeOK, WorkType, ConfigureRejected, Return, registry, locals, work, picture,
       counters, hardware, control
  <1>1. TypeOK'
    <2>1. RegistryType'
      BY <1>0 DEF TypeOK, RegistryType
    <2>2. CountersType'
      BY <1>0 DEF TypeOK, CountersType, Return
    <2>3. PictureType'
      BY <1>0 DEF TypeOK, PictureType
    <2>4. WorkType'
      BY <1>0 DEF TypeOK, WorkType
    <2>5. ControlType'
      BY <1>0, DisplayNumbers DEF TypeOK, ControlType, Places, Goals, Resting, Before, Return
    <2>6. issued' \subseteq Submissions
      BY <1>0 DEF TypeOK
    <2> QED BY <2>1, <2>2, <2>3, <2>4, <2>5, <2>6 DEF TypeOK
  <1>2. ControlOK'
    BY <1>0, <1>1, DisplayNumbers DEF ControlOK, PlacesOK, NoDropPanic, Doomed, TypeOK,
       RegistryType, Resting, Before, Draining, Finishing, Transferring, Return
  <1>3. PlacesOK'
    BY <1>0, <1>1, DisplayNumbers DEF PlacesOK, ControlOK, TypeOK, ControlType, Resting, Before,
       Draining, Finishing, Transferring, Return
  <1>4. ASSUME NEW e \in Displays PROVE FlagsOK(e)'
    BY <1>0, Typed DEF FlagsOK, PlacesOK, ControlOK, Defers, RendererOf, Resting, Before,
       Draining, Finishing, Transferring, Return
  <1>5. ASSUME NEW e \in Displays PROVE OrderOK(e)'
    BY <1>0, Typed DEF OrderOK, Passed, Overlap, Pipelines, PlacesOK, ControlOK, Resting,
       Before, Draining, Finishing, Transferring, Return
  <1>6. ASSUME NEW e \in Displays PROVE DevicesOK(e)'
    BY <1>0, Typed DEF DevicesOK, Sub, PlacesOK, Resting, Before, Draining, Finishing,
       Transferring, Return
  <1>7. ASSUME NEW e \in Displays PROVE BoundsOK(e)'
    BY <1>0 DEF HistoryOK, BoundsOK, ControlOK, Resting, Before, Draining, Finishing,
       Transferring, Return
  <1>8. ASSUME NEW e \in Displays PROVE AccountedOK(e)'
    BY <1>0, Typed DEF HistoryOK, BoundsOK, AccountedOK, Vouched, InFrame, HeldStrip, ToDraw,
       PlacesOK, ControlOK, Resting, Before, Draining, Finishing, Transferring, Return
  <1>9. ASSUME NEW e \in Displays PROVE DoneOK(e)'
    BY <1>0, Typed DEF HistoryOK, DoneOK, Vouched, InFrame, PlacesOK, ControlOK, Resting,
       Before, Draining, Finishing, Transferring, Return
  <1>10. IssuedOK'
    BY <1>0, Typed DEF IssuedOK, Holds, Sub, Doomed, TypeOK, Submissions, ControlOK, PlacesOK,
       RendererOf, Resting, Before, Draining, Finishing, Transferring, Return
  <1>11. RoundsOK'
    BY <1>0, DisplayNumbers DEF RoundsOK, Over, PlacesOK, ControlOK, Resting, Before, Draining,
       Finishing, Transferring, Return
  <1> QED
    BY <1>1, <1>2, <1>3, <1>4, <1>5, <1>6, <1>7, <1>8, <1>9, <1>10, <1>11 DEF HistoryOK

(* A frame gets its number.                                                 *)
LEMMA BeginStep ==
  ASSUME IInv, NoDropPanic, Begin
  PROVE  IInv'
  <1> USE EmptySlot DEF IInv
  <1>0. /\ pc = "begin" /\ pc' = "prepare" /\ at' = 0 /\ shown = Displays
        /\ frame < FrameLimit /\ frame' = frame + 1 /\ borrowed' = 0
        /\ UNCHANGED <<shape, alive, shown, nextStrip, damage, stale, moved, torn, valid, issued, drawing, reading,
                        flushed, pending, deferred, transfers, goal, resume, submitted, failed,
                        panicking, blamed, result, call, phase>>
    BY DEF TypeOK, WorkType, Begin, Usable, Goto, registry, locals, work, picture,
       counters, hardware, control
  <1>1. TypeOK'
    <2>1. RegistryType'
      BY <1>0 DEF TypeOK, RegistryType
    <2>2. CountersType'
      BY <1>0, BoundsAssumption DEF TypeOK, CountersType
    <2>3. PictureType'
      BY <1>0 DEF TypeOK, PictureType
    <2>4. WorkType'
      BY <1>0 DEF TypeOK, WorkType
    <2>5. ControlType'
      BY <1>0, DisplayNumbers DEF TypeOK, ControlType, Places, Goals, Resting, Before
    <2>6. issued' \subseteq Submissions
      BY <1>0 DEF TypeOK
    <2> QED BY <2>1, <2>2, <2>3, <2>4, <2>5, <2>6 DEF TypeOK
  <1>2. ControlOK'
    BY <1>0, <1>1, DisplayNumbers DEF ControlOK, Doomed, TypeOK, CountersType, Resting, Before, Draining,
       Transferring
  <1>3. PlacesOK'
    BY <1>0, <1>1, DisplayNumbers DEF PlacesOK, ControlOK, TypeOK, ControlType, Resting, Before,
       Draining, Finishing, Transferring, Usable, Goto
  <1>4. ASSUME NEW e \in Displays PROVE FlagsOK(e)'
    BY <1>0, Typed DEF FlagsOK, PlacesOK, ControlOK, Defers, RendererOf, Resting, Before,
       Draining, Finishing, Transferring, Usable, Goto
  <1>5. ASSUME NEW e \in Displays PROVE OrderOK(e)'
    BY <1>0, Typed DEF OrderOK, Passed, Overlap, Pipelines, PlacesOK, ControlOK, Resting,
       Before, Draining, Finishing, Transferring, Usable, Goto
  <1>6. ASSUME NEW e \in Displays PROVE DevicesOK(e)'
    BY <1>0, Typed DEF DevicesOK, Sub, PlacesOK, Resting, Before, Draining, Finishing,
       Transferring, Usable, Goto
  <1>7. ASSUME NEW e \in Displays PROVE BoundsOK(e)'
    BY <1>0 DEF HistoryOK, BoundsOK, ControlOK, Resting, Before, Draining, Finishing,
       Transferring, Usable, Goto
  <1>8. ASSUME NEW e \in Displays PROVE AccountedOK(e)'
    BY <1>0, Typed DEF HistoryOK, BoundsOK, AccountedOK, Vouched, InFrame, HeldStrip, ToDraw,
       PlacesOK, ControlOK, Resting, Before, Draining, Finishing, Transferring, Usable, Goto
  <1>9. ASSUME NEW e \in Displays PROVE DoneOK(e)'
    BY <1>0, Typed DEF HistoryOK, DoneOK, Vouched, InFrame, PlacesOK, ControlOK, Resting,
       Before, Draining, Finishing, Transferring, Usable, Goto
  <1>10. IssuedOK'
    BY <1>0, Typed DEF IssuedOK, Holds, Sub, Doomed, TypeOK, Submissions, ControlOK, PlacesOK,
       RendererOf, Resting, Before, Draining, Finishing, Transferring, Usable, Goto
  <1>11. RoundsOK'
    BY <1>0, DisplayNumbers DEF RoundsOK, Over, PlacesOK, ControlOK, Resting, Before, Draining,
       Finishing, Transferring, Usable, Goto
  <1> QED
    BY <1>1, <1>2, <1>3, <1>4, <1>5, <1>6, <1>7, <1>8, <1>9, <1>10, <1>11 DEF HistoryOK

(* A refused frame leaves no display trusted.                               *)
LEMMA BeginRejectedStep ==
  ASSUME IInv, NoDropPanic, BeginRejected
  PROVE  IInv'
  <1> USE EmptySlot DEF IInv
  <1>0. /\ pc = "begin" /\ pc' \in {"caller", "gone"} /\ valid' = Nowhere
        /\ UNCHANGED <<shape, alive, shown, nextStrip, damage, stale, moved, torn, frame, borrowed, issued, drawing,
                        reading, flushed, pending, deferred, transfers, goal, resume, submitted,
                        failed, panicking, blamed, phase, at>>
    BY DEF TypeOK, WorkType, BeginRejected, Return, registry, locals, work, picture,
       counters, hardware, control
  <1>1. TypeOK'
    <2>1. RegistryType'
      BY <1>0 DEF TypeOK, RegistryType
    <2>2. CountersType'
      BY <1>0, NowhereFacts DEF TypeOK, CountersType
    <2>3. PictureType'
      BY <1>0 DEF TypeOK, PictureType
    <2>4. WorkType'
      BY <1>0 DEF TypeOK, WorkType
    <2>5. ControlType'
      BY <1>0, DisplayNumbers DEF TypeOK, ControlType, Places, Goals, Resting, Before
    <2>6. issued' \subseteq Submissions
      BY <1>0 DEF TypeOK
    <2> QED BY <2>1, <2>2, <2>3, <2>4, <2>5, <2>6 DEF TypeOK
  <1>2. ControlOK'
    BY <1>0, <1>1, DisplayNumbers DEF ControlOK, PlacesOK, NoDropPanic, Doomed, TypeOK,
       RegistryType, Resting, Before, Draining, Finishing, Transferring, Return
  <1>3. PlacesOK'
    BY <1>0, <1>1, DisplayNumbers DEF PlacesOK, ControlOK, TypeOK, ControlType, Resting, Before,
       Draining, Finishing, Transferring, Return
  <1>4. ASSUME NEW e \in Displays PROVE FlagsOK(e)'
    BY <1>0, Typed DEF FlagsOK, PlacesOK, ControlOK, Defers, RendererOf, Resting, Before,
       Draining, Finishing, Transferring, Return
  <1>5. ASSUME NEW e \in Displays PROVE OrderOK(e)'
    BY <1>0, Typed DEF OrderOK, Passed, Overlap, Pipelines, PlacesOK, ControlOK, Resting,
       Before, Draining, Finishing, Transferring, Return
  <1>6. ASSUME NEW e \in Displays PROVE DevicesOK(e)'
    BY <1>0, Typed DEF DevicesOK, Sub, PlacesOK, Resting, Before, Draining, Finishing,
       Transferring, Return
  <1>7. ASSUME NEW e \in Displays PROVE BoundsOK(e)'
    BY <1>0 DEF HistoryOK, BoundsOK, ControlOK, Resting, Before, Draining, Finishing,
       Transferring, Return
  <1>8. ASSUME NEW e \in Displays PROVE AccountedOK(e)'
    BY <1>0, NowhereFacts DEF HistoryOK, AccountedOK, Vouched, InFrame, HeldStrip, ToDraw, ControlOK,
       Before, Resting
  <1>9. ASSUME NEW e \in Displays PROVE DoneOK(e)'
    BY <1>0, Typed DEF HistoryOK, DoneOK, Vouched, InFrame, PlacesOK, ControlOK, Resting,
       Before, Draining, Finishing, Transferring, Return
  <1>10. IssuedOK'
    BY <1>0, Typed DEF IssuedOK, Holds, Sub, Doomed, TypeOK, Submissions, ControlOK, PlacesOK,
       RendererOf, Resting, Before, Draining, Finishing, Transferring, Return
  <1>11. RoundsOK'
    BY <1>0, DisplayNumbers DEF RoundsOK, Over, PlacesOK, ControlOK, Resting, Before, Draining,
       Finishing, Transferring, Return
  <1> QED
    BY <1>1, <1>2, <1>3, <1>4, <1>5, <1>6, <1>7, <1>8, <1>9, <1>10, <1>11 DEF HistoryOK

(* Validation or damage fails before the guard exists.                      *)
LEMMA PrepareFailsStep ==
  ASSUME IInv, NoDropPanic, NEW outcome \in {"err", "panic"}, NEW motion \in SUBSET Strips,
         PrepareFails(outcome, motion)
  PROVE  IInv'
  <1> USE EmptySlot DEF IInv
  <1> DEFINE touched == [moved EXCEPT ![at] = motion]
  <1>0. /\ pc = "prepare" /\ pc' \in {"caller", "gone"} /\ motion \in Motions(at)
        /\ \/ valid' = Nowhere /\ stale' = [d \in Displays |-> stale[d] \cup touched[d]] /\ torn' = torn
           \/ valid' = valid /\ stale' = stale /\ torn' = [d \in Displays |-> torn[d] \cup touched[d]]
        /\ moved' = Nothing
        /\ UNCHANGED <<shape, alive, shown, nextStrip, damage, frame, borrowed, issued, drawing,
                        reading, flushed, pending, deferred, transfers, goal, resume, submitted,
                        failed, panicking, blamed, phase, at>>
    BY DEF TypeOK, WorkType, PrepareFails, Return, registry, locals, work, picture,
       counters, hardware, control
  <1>a. \A e \in Displays : touched[e] \subseteq 1 .. shape[e].strips /\ touched[e] \subseteq Strips
    <2>1. motion \subseteq 1 .. shape[at].strips
      BY <1>0 DEF Motions
    <2>2. touched[at] = motion
      BY DEF TypeOK, PictureType, ControlType
    <2>3. \A e \in Displays : e # at => touched[e] = moved[e]
      BY DEF TypeOK, PictureType
    <2>4. \A e \in Displays : moved[e] \subseteq 1 .. shape[e].strips /\ moved[e] \subseteq Strips
      BY Typed DEF HistoryOK, BoundsOK
    <2> QED BY <2>1, <2>2, <2>3, <2>4
  <1> HIDE DEF touched
  <1>1. TypeOK'
    <2>1. RegistryType'
      BY <1>0 DEF TypeOK, RegistryType
    <2>2. CountersType'
      BY <1>0, NowhereFacts DEF TypeOK, CountersType
    <2>3. PictureType'
      <3>1. moved' \in [Displays -> SUBSET Strips]
        BY <1>0 DEF Nothing
      <3>2. stale' \in [Displays -> SUBSET Strips] /\ torn' \in [Displays -> SUBSET Strips]
        BY <1>0, <1>a DEF TypeOK, PictureType
      <3> QED BY <1>0, <3>1, <3>2 DEF TypeOK, PictureType
    <2>4. WorkType'
      BY <1>0 DEF TypeOK, WorkType
    <2>5. ControlType'
      BY <1>0, DisplayNumbers DEF TypeOK, ControlType, Places, Goals, Resting, Before
    <2>6. issued' \subseteq Submissions
      BY <1>0 DEF TypeOK
    <2> QED BY <2>1, <2>2, <2>3, <2>4, <2>5, <2>6 DEF TypeOK
  <1>2. ControlOK'
    BY <1>0, <1>1, DisplayNumbers DEF ControlOK, PlacesOK, NoDropPanic, Doomed, TypeOK,
       RegistryType, Resting, Before, Draining, Finishing, Transferring, Return
  <1>3. PlacesOK'
    BY <1>0, <1>1, DisplayNumbers DEF PlacesOK, ControlOK, TypeOK, ControlType, Resting, Before,
       Draining, Finishing, Transferring, Return
  <1>4. ASSUME NEW e \in Displays PROVE FlagsOK(e)'
    BY <1>0, Typed DEF FlagsOK, PlacesOK, ControlOK, Defers, RendererOf, Resting, Before,
       Draining, Finishing, Transferring, Return
  <1>5. ASSUME NEW e \in Displays PROVE OrderOK(e)'
    BY <1>0, Typed DEF OrderOK, Passed, Overlap, Pipelines, PlacesOK, ControlOK, Resting,
       Before, Draining, Finishing, Transferring, Return
  <1>6. ASSUME NEW e \in Displays PROVE DevicesOK(e)'
    BY <1>0, Typed DEF DevicesOK, Sub, PlacesOK, Resting, Before, Draining, Finishing,
       Transferring, Return
  <1>7. ASSUME NEW e \in Displays PROVE BoundsOK(e)'
    <2>1. stale'[e] \subseteq 1 .. shape[e].strips /\ moved'[e] = {}
      BY <1>0, <1>a DEF HistoryOK, BoundsOK, Nothing
    <2> QED BY <1>0, <2>1 DEF HistoryOK, BoundsOK, ControlOK, Before
  <1>8. ASSUME NEW e \in Displays PROVE AccountedOK(e)'
    BY <1>0, NowhereFacts DEF HistoryOK, AccountedOK, Vouched, InFrame, HeldStrip, ToDraw, ControlOK,
       Before, Resting
  <1>9. ASSUME NEW e \in Displays PROVE DoneOK(e)'
    BY <1>0, Typed DEF HistoryOK, DoneOK, Vouched, InFrame, PlacesOK, ControlOK, Resting,
       Before, Draining, Finishing, Transferring, Return
  <1>10. IssuedOK'
    BY <1>0, Typed DEF IssuedOK, Holds, Sub, Doomed, TypeOK, Submissions, ControlOK, PlacesOK,
       RendererOf, Resting, Before, Draining, Finishing, Transferring, Return
  <1>11. RoundsOK'
    BY <1>0, DisplayNumbers DEF RoundsOK, Over, PlacesOK, ControlOK, Resting, Before, Draining,
       Finishing, Transferring, Return
  <1> QED
    BY <1>1, <1>2, <1>3, <1>4, <1>5, <1>6, <1>7, <1>8, <1>9, <1>10, <1>11 DEF HistoryOK

(* A display without a submission is passed.                                *)
LEMMA FinishNothingStep ==
  ASSUME IInv, NoDropPanic, FinishNothing
  PROVE  IInv'
  <1> USE EmptySlot DEF IInv
  <1>0. /\ pc = "finish" /\ pending[at] = NoWork /\ Down
        /\ UNCHANGED <<shape, alive, shown, nextStrip, damage, stale, moved, torn, frame, borrowed, valid, issued,
                        drawing, reading, flushed, pending, deferred, transfers, goal, resume,
                        submitted, failed, panicking, blamed, result, call, phase>>
    BY DEF FinishNothing, Down, Goto, registry, locals, work, picture, counters, hardware, control
  <1>a. ControlType
    BY DEF TypeOK
  <1>1. TypeOK'
    <2>1. RegistryType'
      BY <1>0 DEF TypeOK, RegistryType
    <2>2. CountersType'
      BY <1>0 DEF TypeOK, CountersType
    <2>3. PictureType'
      BY <1>0 DEF TypeOK, PictureType
    <2>4. WorkType'
      BY <1>0 DEF TypeOK, WorkType
    <2>5. ControlType'
      BY <1>0, <1>a, DownFacts, DisplayNumbers DEF TypeOK, ControlType, Places, Goals, Resting,
         Before
    <2>6. issued' \subseteq Submissions
      BY <1>0 DEF TypeOK
    <2> QED BY <2>1, <2>2, <2>3, <2>4, <2>5, <2>6 DEF TypeOK
  <1>2. ControlOK'
    BY <1>0, <1>1, <1>a, DownFacts, DisplayNumbers DEF ControlOK, PlacesOK, NoDropPanic, Doomed,
       TypeOK, RegistryType, Resting, Before, Draining, Finishing, Transferring
  <1>3. PlacesOK'
    BY <1>0, <1>1, <1>a, DownFacts, DisplayNumbers DEF PlacesOK, ControlOK, TypeOK, ControlType,
       Resting, Before, Draining, Finishing, Transferring
  <1>4. ASSUME NEW e \in Displays PROVE FlagsOK(e)'
    BY <1>0, <1>a, DownFacts, Typed DEF FlagsOK, PlacesOK, ControlOK, Defers, RendererOf,
       Resting, Before, Draining, Finishing, Transferring
  <1>5. ASSUME NEW e \in Displays PROVE OrderOK(e)'
    BY <1>0, <1>a, DownFacts, Typed DEF OrderOK, Passed, Overlap, Pipelines, PlacesOK,
       ControlOK, Resting, Before, Draining, Finishing, Transferring
  <1>6. ASSUME NEW e \in Displays PROVE DevicesOK(e)'
    BY <1>0, <1>a, DownFacts, Typed DEF DevicesOK, Sub, PlacesOK, Resting, Before, Draining,
       Finishing, Transferring
  <1>7. ASSUME NEW e \in Displays PROVE BoundsOK(e)'
    BY <1>0, <1>a, DownFacts DEF HistoryOK, BoundsOK, ControlOK, Resting, Before, Draining,
       Finishing, Transferring
  <1>8. ASSUME NEW e \in Displays PROVE AccountedOK(e)'
    BY <1>0, <1>a, DownFacts, Typed DEF HistoryOK, BoundsOK, AccountedOK, Vouched, InFrame,
       HeldStrip, ToDraw, PlacesOK, ControlOK, Resting, Before, Draining, Finishing,
       Transferring
  <1>9. ASSUME NEW e \in Displays PROVE DoneOK(e)'
    BY <1>0, <1>a, DownFacts, Typed DEF HistoryOK, DoneOK, Vouched, InFrame, PlacesOK,
       ControlOK, Resting, Before, Draining, Finishing, Transferring
  <1>10. IssuedOK'
    BY <1>0, <1>a, DownFacts, Typed DEF IssuedOK, Holds, Sub, Doomed, TypeOK, Submissions,
       ControlOK, PlacesOK, RendererOf, Resting, Before, Draining, Finishing, Transferring
  <1>11. RoundsOK'
    BY <1>0, <1>a, DownFacts, DisplayNumbers DEF RoundsOK, Over, PlacesOK, ControlOK, Resting,
       Before, Draining, Finishing, Transferring
  <1> QED
    BY <1>1, <1>2, <1>3, <1>4, <1>5, <1>6, <1>7, <1>8, <1>9, <1>10, <1>11 DEF HistoryOK

(* An earlier wait is not repeated.                                         *)
LEMMA WaitedBeforeStep ==
  ASSUME IInv, NoDropPanic, WaitedBefore
  PROVE  IInv'
  <1> USE EmptySlot DEF IInv
  <1>0. /\ pc = "finish" /\ pending[at].waited /\ pc' = "settle"
        /\ UNCHANGED <<shape, alive, shown, nextStrip, damage, stale, moved, torn, frame, borrowed, valid, issued,
                        drawing, reading, flushed, pending, deferred, transfers, goal, resume,
                        submitted, failed, panicking, blamed, result, call, phase, at>>
    BY DEF TypeOK, WorkType, WaitedBefore, Goto, registry, locals, work, picture,
       counters, hardware, control
  <1>1. TypeOK'
    <2>1. RegistryType'
      BY <1>0 DEF TypeOK, RegistryType
    <2>2. CountersType'
      BY <1>0 DEF TypeOK, CountersType, Goto
    <2>3. PictureType'
      BY <1>0 DEF TypeOK, PictureType
    <2>4. WorkType'
      BY <1>0 DEF TypeOK, WorkType
    <2>5. ControlType'
      BY <1>0, DisplayNumbers DEF TypeOK, ControlType, Places, Goals, Resting, Before, Goto
    <2>6. issued' \subseteq Submissions
      BY <1>0 DEF TypeOK
    <2> QED BY <2>1, <2>2, <2>3, <2>4, <2>5, <2>6 DEF TypeOK
  <1>2. ControlOK'
    BY <1>0, <1>1, DisplayNumbers DEF ControlOK, PlacesOK, NoDropPanic, Doomed, TypeOK,
       RegistryType, Resting, Before, Draining, Finishing, Transferring, Goto
  <1>3. PlacesOK'
    BY <1>0, <1>1, DisplayNumbers DEF PlacesOK, ControlOK, TypeOK, ControlType, Resting, Before,
       Draining, Finishing, Transferring, Goto
  <1>4. ASSUME NEW e \in Displays PROVE FlagsOK(e)'
    BY <1>0, Typed DEF FlagsOK, PlacesOK, ControlOK, Defers, RendererOf, Resting, Before,
       Draining, Finishing, Transferring, Goto
  <1>5. ASSUME NEW e \in Displays PROVE OrderOK(e)'
    BY <1>0, Typed DEF OrderOK, Passed, Overlap, Pipelines, PlacesOK, ControlOK, Resting,
       Before, Draining, Finishing, Transferring, Goto
  <1>6. ASSUME NEW e \in Displays PROVE DevicesOK(e)'
    BY <1>0, Typed DEF DevicesOK, Sub, PlacesOK, Resting, Before, Draining, Finishing,
       Transferring, Goto
  <1>7. ASSUME NEW e \in Displays PROVE BoundsOK(e)'
    BY <1>0 DEF HistoryOK, BoundsOK, ControlOK, Resting, Before, Draining, Finishing,
       Transferring, Goto
  <1>8. ASSUME NEW e \in Displays PROVE AccountedOK(e)'
    BY <1>0, Typed DEF HistoryOK, BoundsOK, AccountedOK, Vouched, InFrame, HeldStrip, ToDraw,
       PlacesOK, ControlOK, Resting, Before, Draining, Finishing, Transferring, Goto
  <1>9. ASSUME NEW e \in Displays PROVE DoneOK(e)'
    BY <1>0, Typed DEF HistoryOK, DoneOK, FlagsOK, ControlType, TypeOK
  <1>10. IssuedOK'
    BY <1>0, Typed DEF IssuedOK, Holds, Sub, Doomed, TypeOK, Submissions, ControlOK, PlacesOK,
       RendererOf, Resting, Before, Draining, Finishing, Transferring, Goto
  <1>11. RoundsOK'
    BY <1>0, DisplayNumbers DEF RoundsOK, Over, PlacesOK, ControlOK, Resting, Before, Draining,
       Finishing, Transferring, Goto
  <1> QED
    BY <1>1, <1>2, <1>3, <1>4, <1>5, <1>6, <1>7, <1>8, <1>9, <1>10, <1>11 DEF HistoryOK

(* The next transfer, the next display, or what follows the drain.          *)
LEMMA DrainStep ==
  ASSUME IInv, NoDropPanic, Drain
  PROVE  IInv'
  <1> USE EmptySlot DEF IInv
  <1>0. /\ pc = "drain"
        /\ \/ transfers[at] # <<>> /\ pc' = "transfer" /\ at' = at /\ resume' = "drain"
           \/ transfers[at] = <<>> /\ at > 0 /\ pc' = "drain" /\ at' = at - 1 /\ resume' = resume
           \/ transfers[at] = <<>> /\ ~(at > 0) /\ pc' = goal /\ at' = Last /\ resume' = resume
        /\ UNCHANGED <<shape, alive, shown, nextStrip, damage, stale, moved, torn, frame, borrowed, valid, issued,
                        drawing, reading, flushed, pending, deferred, transfers, goal,
                        submitted, failed, panicking, blamed, result, call, phase>>
    BY DEF TypeOK, WorkType, Drain, Goto, registry, locals, work, picture, counters,
       hardware, control
  <1>1. TypeOK'
    <2>1. RegistryType'
      BY <1>0 DEF TypeOK, RegistryType
    <2>2. CountersType'
      BY <1>0 DEF TypeOK, CountersType, Goto
    <2>3. PictureType'
      BY <1>0 DEF TypeOK, PictureType
    <2>4. WorkType'
      BY <1>0 DEF TypeOK, WorkType
    <2>5. ControlType'
      BY <1>0, DisplayNumbers DEF TypeOK, ControlType, Places, Goals, Resting, Before, Goto
    <2>6. issued' \subseteq Submissions
      BY <1>0 DEF TypeOK
    <2> QED BY <2>1, <2>2, <2>3, <2>4, <2>5, <2>6 DEF TypeOK
  <1>2. ControlOK'
    BY <1>0, <1>1, DisplayNumbers DEF ControlOK, PlacesOK, NoDropPanic, Doomed, TypeOK,
       RegistryType, Resting, Before, Draining, Finishing, Transferring, Goto
  <1>3. PlacesOK'
    BY <1>0, <1>1, DisplayNumbers DEF PlacesOK, ControlOK, TypeOK, ControlType, Resting, Before,
       Draining, Finishing, Transferring, Goto
  <1>4. ASSUME NEW e \in Displays PROVE FlagsOK(e)'
    BY <1>0, Typed DEF FlagsOK, PlacesOK, ControlOK, Defers, RendererOf, Resting, Before,
       Draining, Finishing, Transferring, Goto
  <1>5. ASSUME NEW e \in Displays PROVE OrderOK(e)'
    BY <1>0, Typed DEF OrderOK, Passed, Overlap, Pipelines, PlacesOK, ControlOK, Resting,
       Before, Draining, Finishing, Transferring, Goto
  <1>6. ASSUME NEW e \in Displays PROVE DevicesOK(e)'
    BY <1>0 DEF DevicesOK, Sub, ControlOK, Draining, TypeOK, ControlType, Goals
  <1>7. ASSUME NEW e \in Displays PROVE BoundsOK(e)'
    BY <1>0 DEF HistoryOK, BoundsOK, ControlOK, Resting, Before, Draining, Finishing,
       Transferring, Goto
  <1>8. ASSUME NEW e \in Displays PROVE AccountedOK(e)'
    BY <1>0, Typed DEF HistoryOK, BoundsOK, AccountedOK, Vouched, InFrame, HeldStrip, ToDraw,
       PlacesOK, ControlOK, Resting, Before, Draining, Finishing, Transferring, Goto
  <1>9. ASSUME NEW e \in Displays PROVE DoneOK(e)'
    BY <1>0, Typed DEF HistoryOK, DoneOK, Vouched, InFrame, PlacesOK, ControlOK, Resting,
       Before, Draining, Finishing, Transferring, Goto
  <1>10. IssuedOK'
    BY <1>0, Typed DEF IssuedOK, Holds, Sub, Doomed, TypeOK, Submissions, ControlOK, PlacesOK,
       RendererOf, Resting, Before, Draining, Finishing, Transferring, Goto
  <1>11. RoundsOK'
    BY <1>0, DisplayNumbers DEF RoundsOK, Over, PlacesOK, ControlOK, Resting, Before, Draining,
       Finishing, Transferring, Goto
  <1> QED
    BY <1>1, <1>2, <1>3, <1>4, <1>5, <1>6, <1>7, <1>8, <1>9, <1>10, <1>11 DEF HistoryOK

(* The histories and the texture log of the frame are committed.            *)
LEMMA CommitStep ==
  ASSUME IInv, NoDropPanic, Commit
  PROVE  IInv'
  <1> USE EmptySlot DEF IInv
  <1>0. /\ pc = "commit" /\ ~failed /\ pc' \in {"caller", "gone"} /\ result' = "ok"
        /\ valid' = [d \in Displays |-> call # "overlay"] /\ borrowed' = frame
        /\ UNCHANGED <<shape, alive, shown, nextStrip, damage, stale, moved, torn, frame, issued, drawing, reading,
                        flushed, pending, deferred, transfers, goal, resume, submitted, failed,
                        panicking, blamed, phase, at>>
    BY DEF TypeOK, WorkType, Commit, Return, registry, locals, work, picture, counters,
       hardware, control
  <1>1. TypeOK'
    <2>1. RegistryType'
      BY <1>0 DEF TypeOK, RegistryType
    <2>2. CountersType'
      BY <1>0 DEF TypeOK, CountersType, Return
    <2>3. PictureType'
      BY <1>0 DEF TypeOK, PictureType
    <2>4. WorkType'
      BY <1>0 DEF TypeOK, WorkType
    <2>5. ControlType'
      BY <1>0, DisplayNumbers DEF TypeOK, ControlType, Places, Goals, Resting, Before, Return
    <2>6. issued' \subseteq Submissions
      BY <1>0 DEF TypeOK
    <2> QED BY <2>1, <2>2, <2>3, <2>4, <2>5, <2>6 DEF TypeOK
  <1>2. ControlOK'
    BY <1>0, <1>1, DisplayNumbers DEF ControlOK, PlacesOK, NoDropPanic, Doomed, TypeOK,
       RegistryType, Resting, Before, Draining, Finishing, Transferring, Return
  <1>3. PlacesOK'
    BY <1>0, <1>1, DisplayNumbers DEF PlacesOK, ControlOK, TypeOK, ControlType, Resting, Before,
       Draining, Finishing, Transferring, Return
  <1>4. ASSUME NEW e \in Displays PROVE FlagsOK(e)'
    BY <1>0, Typed DEF FlagsOK, PlacesOK, ControlOK, Defers, RendererOf, Resting, Before,
       Draining, Finishing, Transferring, Return
  <1>5. ASSUME NEW e \in Displays PROVE OrderOK(e)'
    BY <1>0, Typed DEF OrderOK, Passed, Overlap, Pipelines, PlacesOK, ControlOK, Resting,
       Before, Draining, Finishing, Transferring, Return
  <1>6. ASSUME NEW e \in Displays PROVE DevicesOK(e)'
    BY <1>0, Typed DEF DevicesOK, Sub, PlacesOK, Resting, Before, Draining, Finishing,
       Transferring, Return
  <1>7. ASSUME NEW e \in Displays PROVE BoundsOK(e)'
    BY <1>0 DEF HistoryOK, BoundsOK, ControlOK, Resting, Before, Draining, Finishing,
       Transferring, Return
  <1>8. ASSUME NEW e \in Displays PROVE AccountedOK(e)'
    <2>1. Vouched(e) /\ Over(e) /\ pc # "guardDrop" /\ pc # "render"
      BY <1>0 DEF Vouched, InFrame, ControlOK, RoundsOK, Resting
    <2>2. \A k \in stale[e] : HeldStrip(e, k) \/ ToDraw(e, k)
      BY <2>1 DEF HistoryOK, AccountedOK
    <2>3. \A k \in stale[e] : ~ToDraw(e, k)
      <3>1. damage[e] \subseteq 1 .. shape[e].strips
        BY <1>0 DEF HistoryOK, BoundsOK, ControlOK
      <3> QED BY <3>1, <2>1, Typed DEF ToDraw, Over, Strips
    <2>4. \A k : HeldStrip(e, k) => HeldStrip(e, k)'
      BY <1>0 DEF HeldStrip
    <2> QED BY <1>0, <2>2, <2>3, <2>4 DEF AccountedOK
  <1>9. ASSUME NEW e \in Displays PROVE DoneOK(e)'
    BY <1>0, Typed DEF HistoryOK, DoneOK, Vouched, InFrame, PlacesOK, ControlOK, Resting,
       Before, Draining, Finishing, Transferring, Return
  <1>10. IssuedOK'
    BY <1>0, Typed DEF IssuedOK, Holds, Sub, Doomed, TypeOK, Submissions, ControlOK, PlacesOK,
       RendererOf, Resting, Before, Draining, Finishing, Transferring, Return
  <1>11. RoundsOK'
    BY <1>0, DisplayNumbers DEF RoundsOK, Over, PlacesOK, ControlOK, Resting, Before, Draining,
       Finishing, Transferring, Return
  <1> QED
    BY <1>1, <1>2, <1>3, <1>4, <1>5, <1>6, <1>7, <1>8, <1>9, <1>10, <1>11 DEF HistoryOK

(* A failed drain is a failed frame.                                        *)
LEMMA CommitFailsStep ==
  ASSUME IInv, NoDropPanic, CommitFails
  PROVE  IInv'
  <1> USE EmptySlot DEF IInv
  <1>0. /\ pc = "commit" /\ failed /\ pc' = "guardDrop" /\ phase' = "drop"
        /\ UNCHANGED <<shape, alive, shown, nextStrip, damage, stale, moved, torn, frame, borrowed, valid, issued,
                        drawing, reading, flushed, pending, deferred, transfers, goal, resume,
                        submitted, failed, panicking, blamed, result, call, at>>
    BY DEF TypeOK, WorkType, CommitFails, registry, locals, work, picture, counters,
       hardware, control
  <1>1. TypeOK'
    <2>1. RegistryType'
      BY <1>0 DEF TypeOK, RegistryType
    <2>2. CountersType'
      BY <1>0 DEF TypeOK, CountersType
    <2>3. PictureType'
      BY <1>0 DEF TypeOK, PictureType
    <2>4. WorkType'
      BY <1>0 DEF TypeOK, WorkType
    <2>5. ControlType'
      BY <1>0, DisplayNumbers DEF TypeOK, ControlType, Places, Goals, Resting, Before
    <2>6. issued' \subseteq Submissions
      BY <1>0 DEF TypeOK
    <2> QED BY <2>1, <2>2, <2>3, <2>4, <2>5, <2>6 DEF TypeOK
  <1>2. ControlOK'
    BY <1>0, <1>1, DisplayNumbers DEF ControlOK, PlacesOK, NoDropPanic, Doomed, TypeOK,
       RegistryType, Resting, Before, Draining, Finishing, Transferring
  <1>3. PlacesOK'
    BY <1>0, <1>1, DisplayNumbers DEF PlacesOK, ControlOK, TypeOK, ControlType, Resting, Before,
       Draining, Finishing, Transferring
  <1>4. ASSUME NEW e \in Displays PROVE FlagsOK(e)'
    BY <1>0, Typed DEF FlagsOK, PlacesOK, ControlOK, Defers, RendererOf, Resting, Before,
       Draining, Finishing, Transferring
  <1>5. ASSUME NEW e \in Displays PROVE OrderOK(e)'
    BY <1>0, Typed DEF OrderOK, Passed, Overlap, Pipelines, PlacesOK, ControlOK, Resting,
       Before, Draining, Finishing, Transferring
  <1>6. ASSUME NEW e \in Displays PROVE DevicesOK(e)'
    BY <1>0, Typed DEF DevicesOK, Sub, PlacesOK, Resting, Before, Draining, Finishing,
       Transferring
  <1>7. ASSUME NEW e \in Displays PROVE BoundsOK(e)'
    BY <1>0 DEF HistoryOK, BoundsOK, ControlOK, Resting, Before, Draining, Finishing,
       Transferring
  <1>8. ASSUME NEW e \in Displays PROVE AccountedOK(e)'
    BY <1>0, Typed DEF HistoryOK, BoundsOK, AccountedOK, Vouched, InFrame, HeldStrip, ToDraw,
       PlacesOK, ControlOK, Resting, Before, Draining, Finishing, Transferring
  <1>9. ASSUME NEW e \in Displays PROVE DoneOK(e)'
    BY <1>0, Typed DEF HistoryOK, DoneOK, Vouched, InFrame, PlacesOK, ControlOK, Resting,
       Before, Draining, Finishing, Transferring
  <1>10. IssuedOK'
    BY <1>0, Typed DEF IssuedOK, Holds, Sub, Doomed, TypeOK, Submissions, ControlOK, PlacesOK,
       RendererOf, Resting, Before, Draining, Finishing, Transferring
  <1>11. RoundsOK'
    BY <1>0, DisplayNumbers DEF RoundsOK, Over, PlacesOK, ControlOK, Resting, Before, Draining,
       Finishing, Transferring
  <1> QED
    BY <1>1, <1>2, <1>3, <1>4, <1>5, <1>6, <1>7, <1>8, <1>9, <1>10, <1>11 DEF HistoryOK

(* The guard is gone and the call reports its failure.                      *)
LEMMA GuardReturnStep ==
  ASSUME IInv, NoDropPanic, GuardReturn
  PROVE  IInv'
  <1> USE EmptySlot DEF IInv
  <1>0. /\ pc = "return" /\ pc' \in {"caller", "gone"}
        /\ UNCHANGED <<shape, alive, shown, nextStrip, damage, stale, moved, torn, frame, borrowed, valid, issued,
                        drawing, reading, flushed, pending, deferred, transfers, goal, resume,
                        submitted, failed, panicking, blamed, phase, at>>
    BY DEF TypeOK, WorkType, GuardReturn, Return, registry, locals, work, picture,
       counters, hardware, control
  <1>1. TypeOK'
    <2>1. RegistryType'
      BY <1>0 DEF TypeOK, RegistryType
    <2>2. CountersType'
      BY <1>0 DEF TypeOK, CountersType, Return
    <2>3. PictureType'
      BY <1>0 DEF TypeOK, PictureType
    <2>4. WorkType'
      BY <1>0 DEF TypeOK, WorkType
    <2>5. ControlType'
      BY <1>0, DisplayNumbers DEF TypeOK, ControlType, Places, Goals, Resting, Before, Return
    <2>6. issued' \subseteq Submissions
      BY <1>0 DEF TypeOK
    <2> QED BY <2>1, <2>2, <2>3, <2>4, <2>5, <2>6 DEF TypeOK
  <1>2. ControlOK'
    BY <1>0, <1>1, DisplayNumbers DEF ControlOK, PlacesOK, NoDropPanic, Doomed, TypeOK,
       RegistryType, Resting, Before, Draining, Finishing, Transferring, Return
  <1>3. PlacesOK'
    BY <1>0, <1>1, DisplayNumbers DEF PlacesOK, ControlOK, TypeOK, ControlType, Resting, Before,
       Draining, Finishing, Transferring, Return
  <1>4. ASSUME NEW e \in Displays PROVE FlagsOK(e)'
    BY <1>0, Typed DEF FlagsOK, PlacesOK, ControlOK, Defers, RendererOf, Resting, Before,
       Draining, Finishing, Transferring, Return
  <1>5. ASSUME NEW e \in Displays PROVE OrderOK(e)'
    BY <1>0, Typed DEF OrderOK, Passed, Overlap, Pipelines, PlacesOK, ControlOK, Resting,
       Before, Draining, Finishing, Transferring, Return
  <1>6. ASSUME NEW e \in Displays PROVE DevicesOK(e)'
    BY <1>0, Typed DEF DevicesOK, Sub, PlacesOK, Resting, Before, Draining, Finishing,
       Transferring, Return
  <1>7. ASSUME NEW e \in Displays PROVE BoundsOK(e)'
    BY <1>0 DEF HistoryOK, BoundsOK, ControlOK, Resting, Before, Draining, Finishing,
       Transferring, Return
  <1>8. ASSUME NEW e \in Displays PROVE AccountedOK(e)'
    BY <1>0, Typed DEF HistoryOK, BoundsOK, AccountedOK, Vouched, InFrame, HeldStrip, ToDraw,
       PlacesOK, ControlOK, Resting, Before, Draining, Finishing, Transferring, Return
  <1>9. ASSUME NEW e \in Displays PROVE DoneOK(e)'
    BY <1>0, Typed DEF HistoryOK, DoneOK, Vouched, InFrame, PlacesOK, ControlOK, Resting,
       Before, Draining, Finishing, Transferring, Return
  <1>10. IssuedOK'
    BY <1>0, Typed DEF IssuedOK, Holds, Sub, Doomed, TypeOK, Submissions, ControlOK, PlacesOK,
       RendererOf, Resting, Before, Draining, Finishing, Transferring, Return
  <1>11. RoundsOK'
    BY <1>0, DisplayNumbers DEF RoundsOK, Over, PlacesOK, ControlOK, Resting, Before, Draining,
       Finishing, Transferring, Return
  <1> QED
    BY <1>1, <1>2, <1>3, <1>4, <1>5, <1>6, <1>7, <1>8, <1>9, <1>10, <1>11 DEF HistoryOK

(* After a round: the drain, the next round, or the guard's Drop.           *)
LEMMA RoundEndStep ==
  ASSUME IInv, NoDropPanic, RoundEnd
  PROVE  IInv'
  <1> USE EmptySlot DEF IInv
  <1>0. /\ pc = "roundEnd"
        /\ \/ /\ phase = "drop" /\ pc' = "drain" /\ goal' = "return" /\ at' = Last
              /\ phase' = phase /\ submitted' = submitted
           \/ /\ phase = "complete" /\ pc' = "drain" /\ goal' = "completed" /\ at' = Last
              /\ phase' = phase /\ submitted' = submitted
           \/ /\ phase = "frame" /\ failed /\ pc' = "guardDrop" /\ phase' = "drop"
              /\ goal' = goal /\ at' = at /\ submitted' = submitted
           \/ /\ phase = "frame" /\ ~failed /\ submitted /\ pc' = "submit" /\ at' = 0
              /\ submitted' = FALSE /\ goal' = goal /\ phase' = phase
           \/ /\ phase = "frame" /\ ~failed /\ ~submitted /\ pc' = "drain" /\ goal' = "commit"
              /\ at' = Last /\ phase' = phase /\ submitted' = submitted
        /\ UNCHANGED <<shape, alive, shown, nextStrip, damage, stale, moved, torn, frame, borrowed, valid, issued,
                        drawing, reading, flushed, pending, deferred, transfers, resume, failed,
                        panicking, blamed, result, call>>
    BY DEF TypeOK, WorkType, RoundEnd, registry, locals, work, picture, counters,
       hardware, control
  <1>1. TypeOK'
    <2>1. RegistryType'
      BY <1>0 DEF TypeOK, RegistryType
    <2>2. CountersType'
      BY <1>0 DEF TypeOK, CountersType
    <2>3. PictureType'
      BY <1>0 DEF TypeOK, PictureType
    <2>4. WorkType'
      BY <1>0 DEF TypeOK, WorkType
    <2>5. ControlType'
      BY <1>0, DisplayNumbers DEF TypeOK, ControlType, Places, Goals, Resting, Before
    <2>6. issued' \subseteq Submissions
      BY <1>0 DEF TypeOK
    <2> QED BY <2>1, <2>2, <2>3, <2>4, <2>5, <2>6 DEF TypeOK
  <1>2. ControlOK'
    BY <1>0, <1>1, DisplayNumbers DEF ControlOK, PlacesOK, NoDropPanic, Doomed, TypeOK,
       RegistryType, Resting, Before, Draining, Finishing, Transferring
  <1>3. PlacesOK'
    BY <1>0, <1>1, DisplayNumbers DEF PlacesOK, ControlOK, TypeOK, ControlType, Resting, Before,
       Draining, Finishing, Transferring
  <1>4. ASSUME NEW e \in Displays PROVE FlagsOK(e)'
    BY <1>0, Typed DEF FlagsOK, PlacesOK, ControlOK, Defers, RendererOf, Resting, Before,
       Draining, Finishing, Transferring
  <1>5. ASSUME NEW e \in Displays PROVE OrderOK(e)'
    BY <1>0, Typed DEF OrderOK, Passed, Overlap, Pipelines, PlacesOK, ControlOK, Resting,
       Before, Draining, Finishing, Transferring
  <1>6. ASSUME NEW e \in Displays PROVE DevicesOK(e)'
    BY <1>0, Typed DEF DevicesOK, Sub, PlacesOK, Resting, Before, Draining, Finishing,
       Transferring
  <1>7. ASSUME NEW e \in Displays PROVE BoundsOK(e)'
    BY <1>0 DEF HistoryOK, BoundsOK, ControlOK, Resting, Before, Draining, Finishing,
       Transferring
  <1>8. ASSUME NEW e \in Displays PROVE AccountedOK(e)'
    BY <1>0, Typed DEF HistoryOK, BoundsOK, AccountedOK, Vouched, InFrame, HeldStrip, ToDraw,
       PlacesOK, ControlOK, Resting, Before, Draining, Finishing, Transferring
  <1>9. ASSUME NEW e \in Displays PROVE DoneOK(e)'
    BY <1>0, Typed DEF HistoryOK, DoneOK, Vouched, InFrame, PlacesOK, ControlOK, Resting,
       Before, Draining, Finishing, Transferring
  <1>10. IssuedOK'
    BY <1>0, Typed DEF IssuedOK, Holds, Sub, Doomed, TypeOK, Submissions, ControlOK, PlacesOK,
       RendererOf, Resting, Before, Draining, Finishing, Transferring
  <1>11. RoundsOK'
    BY <1>0, DisplayNumbers DEF RoundsOK, Over, PlacesOK, ControlOK, Resting, Before, Draining,
       Finishing, Transferring
  <1> QED
    BY <1>1, <1>2, <1>3, <1>4, <1>5, <1>6, <1>7, <1>8, <1>9, <1>10, <1>11 DEF HistoryOK

(* A strip without damage is passed.                                        *)
LEMMA PassStep ==
  ASSUME IInv, NoDropPanic, NEW d \in Displays, Pass(d)
  PROVE  IInv'
  <1> USE EmptySlot DEF IInv
  <1>0. /\ pc = "submit" /\ at = d /\ Up
        /\ \/ nextStrip[d] > shape[d].strips /\ nextStrip' = nextStrip /\ submitted' = submitted
           \/ /\ nextStrip[d] \notin damage[d]
              /\ nextStrip' = [nextStrip EXCEPT ![d] = @ + 1] /\ submitted' = TRUE
        /\ UNCHANGED <<shape, alive, shown, damage, stale, moved, torn, frame, borrowed, valid, issued, drawing,
                        reading, flushed, pending, deferred, transfers, goal, resume, failed,
                        panicking, blamed, result, call, phase>>
    BY DEF Pass, Up, Goto, registry, locals, work, picture, counters, hardware, control
  <1>a. ControlType
    BY DEF TypeOK
  <1>1. TypeOK'
    <2>1. RegistryType'
      BY <1>0 DEF TypeOK, RegistryType
    <2>2. CountersType'
      BY <1>0 DEF TypeOK, CountersType
    <2>3. PictureType'
      BY <1>0 DEF TypeOK, PictureType
    <2>4. WorkType'
      BY <1>0 DEF TypeOK, WorkType
    <2>5. ControlType'
      BY <1>0, <1>a, UpFacts, DisplayNumbers DEF TypeOK, ControlType, Places, Goals, Resting,
         Before
    <2>6. issued' \subseteq Submissions
      BY <1>0 DEF TypeOK
    <2> QED BY <2>1, <2>2, <2>3, <2>4, <2>5, <2>6 DEF TypeOK
  <1>2. ControlOK'
    BY <1>0, <1>1, <1>a, UpFacts, DisplayNumbers DEF ControlOK, PlacesOK, NoDropPanic, Doomed,
       TypeOK, RegistryType, Resting, Before, Draining, Finishing, Transferring
  <1>3. PlacesOK'
    BY <1>0, <1>1, <1>a, UpFacts, DisplayNumbers DEF PlacesOK, ControlOK, TypeOK, ControlType,
       Resting, Before, Draining, Finishing, Transferring
  <1>4. ASSUME NEW e \in Displays PROVE FlagsOK(e)'
    BY <1>0, <1>a, UpFacts, Typed DEF FlagsOK, PlacesOK, ControlOK, Defers, RendererOf, Resting,
       Before, Draining, Finishing, Transferring
  <1>5. ASSUME NEW e \in Displays PROVE OrderOK(e)'
    <2>1. nextStrip'[e] \in Nat /\ nextStrip[e] \in Nat /\ nextStrip'[e] >= nextStrip[e]
      BY <1>0, Typed DEF TypeOK, PictureType
    <2>2. pc' # "render" /\ ~(Finishing /\ Transferring)'
      BY <1>0, <1>a, UpFacts DEF Finishing, Transferring
    <2>3. ~(Finishing /\ Transferring)
      BY <1>0 DEF Finishing, Transferring
    <2>4. \A p \in Live : Passed(e, p) => Passed(e, p)'
      BY <1>0, <2>1, <2>2 DEF Passed, Live, Strips
    <2> QED BY <1>0, <1>a, UpFacts, <2>2, <2>3, <2>4, Typed, SlotFacts DEF OrderOK, Overlap, Pipelines
  <1>6. ASSUME NEW e \in Displays PROVE DevicesOK(e)'
    BY <1>0, <1>a, UpFacts, Typed DEF DevicesOK, Sub, PlacesOK, Resting, Before, Draining,
       Finishing, Transferring
  <1>7. ASSUME NEW e \in Displays PROVE BoundsOK(e)'
    BY <1>0, <1>a, UpFacts DEF HistoryOK, BoundsOK, ControlOK, Resting, Before, Draining,
       Finishing, Transferring
  <1>8. ASSUME NEW e \in Displays PROVE AccountedOK(e)'
    <2>1. InFrame /\ InFrame' /\ (Vouched(e)' <=> Vouched(e)) /\ pc # "guardDrop"
      BY <1>0, <1>a, UpFacts DEF InFrame, Vouched, ControlOK, Resting
    <2>2. \A k : HeldStrip(e, k)' <=> HeldStrip(e, k)
      BY <1>0 DEF HeldStrip
    <2>3. ASSUME NEW k \in stale[e], ToDraw(e, k) PROVE ToDraw(e, k)'
      <3>1. k \in damage[e] /\ k >= nextStrip[e] /\ k \in Nat /\ nextStrip[e] \in Nat
        BY <1>0, <2>3, Typed DEF ToDraw, Strips
      <3>2. k >= nextStrip'[e]
        <4>1. CASE nextStrip'[e] = nextStrip[e]
          BY <4>1, <3>1
        <4>2. CASE nextStrip'[e] # nextStrip[e]
          <5>1. e = d /\ nextStrip[d] \notin damage[d] /\ nextStrip'[d] = nextStrip[d] + 1
            BY <1>0, <4>2 DEF TypeOK, PictureType
          <5> QED BY <5>1, <3>1
        <4> QED BY <4>1, <4>2
      <3> QED BY <1>0, <2>1, <3>1, <3>2 DEF ToDraw
    <2> QED BY <1>0, <2>1, <2>2, <2>3 DEF HistoryOK, AccountedOK
  <1>9. ASSUME NEW e \in Displays PROVE DoneOK(e)'
    BY <1>0, <1>a, UpFacts, Typed DEF HistoryOK, DoneOK, Vouched, InFrame, PlacesOK, ControlOK,
       Resting, Before, Draining, Finishing, Transferring
  <1>10. IssuedOK'
    BY <1>0, <1>a, UpFacts, Typed DEF IssuedOK, Holds, Sub, Doomed, TypeOK, Submissions,
       ControlOK, PlacesOK, RendererOf, Resting, Before, Draining, Finishing, Transferring
  <1>11. RoundsOK'
    BY <1>0, <1>a, UpFacts, DisplayNumbers DEF RoundsOK, Over, PlacesOK, ControlOK, Resting,
       Before, Draining, Finishing, Transferring
  <1> QED
    BY <1>1, <1>2, <1>3, <1>4, <1>5, <1>6, <1>7, <1>8, <1>9, <1>10, <1>11 DEF HistoryOK

(* The overlay of a submitted display.                                      *)
LEMMA OverlayStep ==
  ASSUME IInv, NoDropPanic, NEW d \in Displays, NEW outcome \in Outcomes, Overlay(d, outcome)
  PROVE  IInv'
  <1> USE EmptySlot DEF IInv
  <1>0. /\ pc = "overlay" /\ at = d
        /\ \/ Up /\ UNCHANGED <<submitted, resume>>
           \/ Unwind(RendererOf[d])
        /\ UNCHANGED <<shape, alive, shown, nextStrip, damage, stale, moved, torn, frame, borrowed, valid, issued,
                        drawing, reading, flushed, pending, deferred, transfers, resume,
                        submitted, failed, goal>>
    BY DEF Overlay, Up, Goto, Unwind, registry, locals, work, picture, counters, hardware, control
  <1>a. ControlType
    BY DEF TypeOK
  <1>b. RendererOf[d] \in Renderers
    BY Bound DEF TypeOK
  <1>1. TypeOK'
    <2>1. RegistryType'
      BY <1>0 DEF TypeOK, RegistryType
    <2>2. CountersType'
      BY <1>0 DEF TypeOK, CountersType
    <2>3. PictureType'
      BY <1>0 DEF TypeOK, PictureType
    <2>4. WorkType'
      BY <1>0 DEF TypeOK, WorkType
    <2>5. ControlType'
      BY <1>0, <1>a, <1>b, UpFacts, UnwindFacts, DisplayNumbers DEF TypeOK, ControlType, Places,
         Goals, Resting, Before
    <2>6. issued' \subseteq Submissions
      BY <1>0 DEF TypeOK
    <2> QED BY <2>1, <2>2, <2>3, <2>4, <2>5, <2>6 DEF TypeOK
  <1>2. ControlOK'
    BY <1>0, <1>1, <1>a, <1>b, UpFacts, UnwindFacts, DisplayNumbers DEF ControlOK, PlacesOK,
       NoDropPanic, Doomed, TypeOK, RegistryType, Resting, Before, Draining, Finishing,
       Transferring
  <1>3. PlacesOK'
    BY <1>0, <1>1, <1>a, <1>b, UpFacts, UnwindFacts, DisplayNumbers DEF PlacesOK, ControlOK,
       TypeOK, ControlType, Resting, Before, Draining, Finishing, Transferring
  <1>4. ASSUME NEW e \in Displays PROVE FlagsOK(e)'
    BY <1>0, <1>a, <1>b, UpFacts, UnwindFacts, Typed DEF FlagsOK, PlacesOK, ControlOK, Defers,
       RendererOf, Resting, Before, Draining, Finishing, Transferring
  <1>5. ASSUME NEW e \in Displays PROVE OrderOK(e)'
    BY <1>0, <1>a, <1>b, UpFacts, UnwindFacts, Typed DEF OrderOK, Passed, Overlap, Pipelines,
       PlacesOK, ControlOK, Resting, Before, Draining, Finishing, Transferring
  <1>6. ASSUME NEW e \in Displays PROVE DevicesOK(e)'
    BY <1>0, <1>a, <1>b, UpFacts, UnwindFacts, Typed DEF DevicesOK, Sub, PlacesOK, Resting,
       Before, Draining, Finishing, Transferring
  <1>7. ASSUME NEW e \in Displays PROVE BoundsOK(e)'
    BY <1>0, <1>a, <1>b, UpFacts, UnwindFacts DEF HistoryOK, BoundsOK, ControlOK, Resting,
       Before, Draining, Finishing, Transferring
  <1>8. ASSUME NEW e \in Displays PROVE AccountedOK(e)'
    BY <1>0, <1>a, <1>b, UpFacts, UnwindFacts, Typed DEF HistoryOK, BoundsOK, AccountedOK,
       Vouched, InFrame, HeldStrip, ToDraw, PlacesOK, ControlOK, Resting, Before, Draining,
       Finishing, Transferring
  <1>9. ASSUME NEW e \in Displays PROVE DoneOK(e)'
    BY <1>0, <1>a, <1>b, UpFacts, UnwindFacts, Typed DEF HistoryOK, DoneOK, Vouched, InFrame,
       PlacesOK, ControlOK, Resting, Before, Draining, Finishing, Transferring
  <1>10. IssuedOK'
    BY <1>0, <1>a, <1>b, UpFacts, UnwindFacts, Typed DEF IssuedOK, Holds, Sub, Doomed, TypeOK,
       Submissions, ControlOK, PlacesOK, RendererOf, Resting, Before, Draining, Finishing,
       Transferring
  <1>11. RoundsOK'
    BY <1>0, <1>a, <1>b, UpFacts, UnwindFacts, DisplayNumbers DEF RoundsOK, Over, PlacesOK,
       ControlOK, Resting, Before, Draining, Finishing, Transferring
  <1> QED
    BY <1>1, <1>2, <1>3, <1>4, <1>5, <1>6, <1>7, <1>8, <1>9, <1>10, <1>11 DEF HistoryOK

(* A display whose callback unwound is destroyed.                           *)
LEMMA DropDisplayStep ==
  ASSUME IInv, NoDropPanic, NEW d \in Displays, DropDisplay(d)
  PROVE  IInv'
  <1> USE EmptySlot DEF IInv
  <1>0. /\ pc = "settle" /\ at = d /\ pending[d].inCall /\ pc' = "retire"
        /\ shown' = shown \ {d} /\ reading' = {s \in reading : s.display # d}
        /\ UNCHANGED <<shape, alive, nextStrip, damage, stale, moved, torn, frame, borrowed, valid, issued, drawing,
                        flushed, pending, deferred, transfers, goal, resume, submitted, failed,
                        panicking, blamed, result, call, phase, at>>
    BY DEF DropDisplay, Goto, Without, registry, locals, work, picture, counters, hardware, control
  <1>a. phase = "drop"
    BY <1>0 DEF FlagsOK, TypeOK, ControlType
  <1>1. TypeOK'
    <2>1. RegistryType'
      BY <1>0 DEF TypeOK, RegistryType
    <2>2. CountersType'
      BY <1>0 DEF TypeOK, CountersType
    <2>3. PictureType'
      BY <1>0 DEF TypeOK, PictureType
    <2>4. WorkType'
      BY <1>0 DEF TypeOK, WorkType
    <2>5. ControlType'
      BY <1>0, <1>a, DisplayNumbers DEF TypeOK, ControlType, Places, Goals, Resting, Before
    <2>6. issued' \subseteq Submissions
      BY <1>0 DEF TypeOK
    <2> QED BY <2>1, <2>2, <2>3, <2>4, <2>5, <2>6 DEF TypeOK
  <1>2. ControlOK'
    BY <1>0, <1>1, <1>a, DisplayNumbers DEF ControlOK, PlacesOK, NoDropPanic, Doomed, TypeOK,
       RegistryType, Resting, Before, Draining, Finishing, Transferring
  <1>3. PlacesOK'
    BY <1>0, <1>1, <1>a, DisplayNumbers DEF PlacesOK, ControlOK, TypeOK, ControlType, Resting,
       Before, Draining, Finishing, Transferring
  <1>4. ASSUME NEW e \in Displays PROVE FlagsOK(e)'
    BY <1>0, <1>a, Typed DEF FlagsOK, PlacesOK, ControlOK, Defers, RendererOf, Resting, Before,
       Draining, Finishing, Transferring
  <1>5. ASSUME NEW e \in Displays PROVE OrderOK(e)'
    BY <1>0, <1>a, Typed DEF OrderOK, Passed, Overlap, Pipelines, PlacesOK, ControlOK, Resting,
       Before, Draining, Finishing, Transferring
  <1>6. ASSUME NEW e \in Displays PROVE DevicesOK(e)'
    BY <1>0, <1>a, Typed DEF DevicesOK, Sub, PlacesOK, Resting, Before, Draining, Finishing,
       Transferring
  <1>7. ASSUME NEW e \in Displays PROVE BoundsOK(e)'
    BY <1>0, <1>a DEF HistoryOK, BoundsOK, ControlOK, Resting, Before, Draining, Finishing,
       Transferring
  <1>8. ASSUME NEW e \in Displays PROVE AccountedOK(e)'
    BY <1>0, <1>a, Typed DEF HistoryOK, BoundsOK, AccountedOK, Vouched, InFrame, HeldStrip,
       ToDraw, PlacesOK, ControlOK, Resting, Before, Draining, Finishing, Transferring
  <1>9. ASSUME NEW e \in Displays PROVE DoneOK(e)'
    BY <1>0, <1>a, Typed DEF HistoryOK, DoneOK, Vouched, InFrame, PlacesOK, ControlOK, Resting,
       Before, Draining, Finishing, Transferring
  <1>10. IssuedOK'
    BY <1>0, <1>a, Typed DEF IssuedOK, Holds, Sub, Doomed, TypeOK, Submissions, ControlOK,
       PlacesOK, RendererOf, Resting, Before, Draining, Finishing, Transferring
  <1>11. RoundsOK'
    BY <1>0, <1>a, DisplayNumbers DEF RoundsOK, Over, PlacesOK, ControlOK, Resting, Before,
       Draining, Finishing, Transferring
  <1> QED
    BY <1>1, <1>2, <1>3, <1>4, <1>5, <1>6, <1>7, <1>8, <1>9, <1>10, <1>11 DEF HistoryOK

(* The oldest transfer of a destroyed display ends with the display.        *)
LEMMA TransferStoppedStep ==
  ASSUME IInv, NoDropPanic, NEW d \in Displays, TransferStopped(d)
  PROVE  IInv'
  <1> USE EmptySlot DEF IInv
  <1>0. /\ pc = "transfer" /\ at = d /\ (Head(transfers[d]).inCall \/ d \notin shown) /\ pc' = "retireTransfer"
        /\ shown' = shown \ {d} /\ reading' = {s \in reading : s.display # d}
        /\ UNCHANGED <<shape, alive, nextStrip, damage, stale, moved, torn, frame, borrowed, valid, issued, drawing,
                        flushed, pending, deferred, transfers, goal, resume, submitted, failed,
                        panicking, blamed, result, call, phase, at>>
    BY DEF TransferStopped, Goto, Without, registry, locals, work, picture, counters, hardware, control
  <1>a. phase = "drop"
    <2>1. transfers[d] \in Seq(Live) /\ transfers[d] # <<>>
      BY <1>0, Typed DEF PlacesOK, Transferring
    <2>2. Head(transfers[d]) = transfers[d][1] /\ 1 \in 1 .. Len(transfers[d])
      BY <2>1
    <2> QED BY <1>0, <2>2 DEF FlagsOK, ControlOK, Resting
  <1>1. TypeOK'
    <2>1. RegistryType'
      BY <1>0 DEF TypeOK, RegistryType
    <2>2. CountersType'
      BY <1>0 DEF TypeOK, CountersType
    <2>3. PictureType'
      BY <1>0 DEF TypeOK, PictureType
    <2>4. WorkType'
      BY <1>0 DEF TypeOK, WorkType
    <2>5. ControlType'
      BY <1>0, <1>a, DisplayNumbers DEF TypeOK, ControlType, Places, Goals, Resting, Before
    <2>6. issued' \subseteq Submissions
      BY <1>0 DEF TypeOK
    <2> QED BY <2>1, <2>2, <2>3, <2>4, <2>5, <2>6 DEF TypeOK
  <1>2. ControlOK'
    BY <1>0, <1>1, <1>a, DisplayNumbers DEF ControlOK, PlacesOK, NoDropPanic, Doomed, TypeOK,
       RegistryType, Resting, Before, Draining, Finishing, Transferring
  <1>3. PlacesOK'
    BY <1>0, <1>1, <1>a, DisplayNumbers DEF PlacesOK, ControlOK, TypeOK, ControlType, Resting,
       Before, Draining, Finishing, Transferring
  <1>4. ASSUME NEW e \in Displays PROVE FlagsOK(e)'
    BY <1>0, <1>a, Typed DEF FlagsOK, PlacesOK, ControlOK, Defers, RendererOf, Resting, Before,
       Draining, Finishing, Transferring
  <1>5. ASSUME NEW e \in Displays PROVE OrderOK(e)'
    BY <1>0, <1>a, Typed DEF OrderOK, Passed, Overlap, Pipelines, PlacesOK, ControlOK, Resting,
       Before, Draining, Finishing, Transferring
  <1>6. ASSUME NEW e \in Displays PROVE DevicesOK(e)'
    BY <1>0, <1>a, Typed DEF DevicesOK, Sub, PlacesOK, Resting, Before, Draining, Finishing,
       Transferring
  <1>7. ASSUME NEW e \in Displays PROVE BoundsOK(e)'
    BY <1>0, <1>a DEF HistoryOK, BoundsOK, ControlOK, Resting, Before, Draining, Finishing,
       Transferring
  <1>8. ASSUME NEW e \in Displays PROVE AccountedOK(e)'
    BY <1>0, <1>a, Typed DEF HistoryOK, BoundsOK, AccountedOK, Vouched, InFrame, HeldStrip,
       ToDraw, PlacesOK, ControlOK, Resting, Before, Draining, Finishing, Transferring
  <1>9. ASSUME NEW e \in Displays PROVE DoneOK(e)'
    BY <1>0, <1>a, Typed DEF HistoryOK, DoneOK, Vouched, InFrame, PlacesOK, ControlOK, Resting,
       Before, Draining, Finishing, Transferring
  <1>10. IssuedOK'
    BY <1>0, <1>a, Typed DEF IssuedOK, Holds, Sub, Doomed, TypeOK, Submissions, ControlOK,
       PlacesOK, RendererOf, Resting, Before, Draining, Finishing, Transferring
  <1>11. RoundsOK'
    BY <1>0, <1>a, DisplayNumbers DEF RoundsOK, Over, PlacesOK, ControlOK, Resting, Before,
       Draining, Finishing, Transferring
  <1> QED
    BY <1>1, <1>2, <1>3, <1>4, <1>5, <1>6, <1>7, <1>8, <1>9, <1>10, <1>11 DEF HistoryOK

(* One display is validated; after the last one the guard exists.           *)
LEMMA PrepareStep ==
  ASSUME IInv, NoDropPanic, NEW d \in Displays, NEW region \in SUBSET Strips,
         NEW motion \in SUBSET Strips, Prepare(d, region, motion)
  PROVE  IInv'
  <1> USE EmptySlot DEF IInv
  <1>0. /\ pc = "prepare" /\ at = d
        /\ region \subseteq 1 .. shape[d].strips /\ (~valid[d] => region = 1 .. shape[d].strips)
        /\ damage' = [damage EXCEPT ![d] = region] /\ nextStrip' = [nextStrip EXCEPT ![d] = 1]
        /\ motion \in Motions(d)
        /\ torn' = [torn EXCEPT ![d] = IF @ = {} THEN {} ELSE @ \cup motion]
        /\ moved' = [moved EXCEPT ![d] = motion] \/ moved' = Nothing
        /\ \/ /\ d < Last /\ pc' = "prepare" /\ at' = d + 1 /\ phase' = phase
              /\ UNCHANGED <<stale, submitted, failed>>
           \/ /\ ~(d < Last) /\ pc' = "submit" /\ at' = 0 /\ phase' = "frame"
              /\ stale' = [e \in Displays |-> stale[e] \cup damage'[e]]
              /\ submitted' = FALSE /\ failed' = FALSE
        /\ UNCHANGED <<shape, alive, shown, frame, borrowed, valid, issued, drawing, reading, flushed,
                        pending, deferred, transfers, goal, resume, panicking, blamed, result,
                        call>>
    BY DEF Prepare, Goto, registry, locals, work, picture, counters, hardware, control
  <1>a. /\ d < Last => d + 1 \in Displays
        /\ \A e \in Displays : ~(d < Last) => e < d \/ e = d
        /\ \A e \in Displays : e < d + 1 <=> e < d \/ e = d
    BY DisplayNumbers
  <1>b. stale[d] \subseteq region
    <2>1. CASE ~valid[d]
      BY <1>0, <2>1 DEF HistoryOK, BoundsOK
    <2>2. CASE valid[d]
      <3>1. \A k \in stale[d] : HeldStrip(d, k) \/ ToDraw(d, k)
        BY <1>0, <2>2 DEF HistoryOK, AccountedOK, Vouched, InFrame, ControlOK, Before
      <3>2. pending[d] = NoWork /\ transfers[d] = <<>> /\ deferred[d] = NoWork /\ phase = "complete"
        BY <1>0 DEF PlacesOK, ControlOK, Before, Resting
      <3> QED BY <3>1, <3>2 DEF HeldStrip, ToDraw, InFrame
    <2> QED BY <2>1, <2>2
  <1>c. \A e \in Displays : e < d \/ e = d =>
          nextStrip'[e] = 1 /\ damage'[e] \subseteq 1 .. shape[e].strips /\ stale[e] \subseteq damage'[e]
    <2>1. nextStrip'[d] = 1 /\ damage'[d] = region
      BY <1>0 DEF TypeOK, PictureType
    <2>2. \A e \in Displays : e # d => nextStrip'[e] = nextStrip[e] /\ damage'[e] = damage[e]
      BY <1>0 DEF TypeOK, PictureType
    <2> QED BY <1>0, <1>b, <2>1, <2>2 DEF RoundsOK
  <1>d. \A e \in Displays : moved'[e] \subseteq 1 .. shape[e].strips
    <2>1. motion \subseteq 1 .. shape[d].strips
      BY <1>0 DEF Motions
    <2> QED BY <1>0, <2>1 DEF Nothing, TypeOK, PictureType, HistoryOK, BoundsOK
  <1>1. TypeOK'
    <2>1. RegistryType'
      BY <1>0 DEF TypeOK, RegistryType
    <2>2. CountersType'
      BY <1>0 DEF TypeOK, CountersType
    <2>3. PictureType'
      <3>1. damage' \in [Displays -> SUBSET Strips] /\ nextStrip' \in [Displays -> Nat \ {0}]
        BY <1>0 DEF TypeOK, PictureType
      <3>2. moved' \in [Displays -> SUBSET Strips]
        BY <1>0 DEF TypeOK, PictureType, Nothing
      <3>3. torn' \in [Displays -> SUBSET Strips]
        BY <1>0 DEF TypeOK, PictureType
      <3>4. stale' \in [Displays -> SUBSET Strips]
        <4>1. \A e \in Displays : damage'[e] \subseteq Strips /\ stale[e] \subseteq Strips
          BY <3>1 DEF TypeOK, PictureType
        <4> QED BY <1>0, <4>1 DEF TypeOK, PictureType
      <3> QED BY <3>1, <3>2, <3>3, <3>4 DEF PictureType
    <2>4. WorkType'
      BY <1>0 DEF TypeOK, WorkType
    <2>5. ControlType'
      BY <1>0, <1>a, DisplayNumbers DEF TypeOK, ControlType, Places, Goals, Resting, Before
    <2>6. issued' \subseteq Submissions
      BY <1>0 DEF TypeOK
    <2> QED BY <2>1, <2>2, <2>3, <2>4, <2>5, <2>6 DEF TypeOK
  <1>2. ControlOK'
    BY <1>0, <1>1, <1>a, DisplayNumbers DEF ControlOK, PlacesOK, NoDropPanic, Doomed, TypeOK,
       RegistryType, Resting, Before, Draining, Finishing, Transferring
  <1>3. PlacesOK'
    BY <1>0, <1>1, <1>a, DisplayNumbers DEF PlacesOK, ControlOK, TypeOK, ControlType, Resting,
       Before, Draining, Finishing, Transferring
  <1>4. ASSUME NEW e \in Displays PROVE FlagsOK(e)'
    BY <1>0, <1>a, Typed DEF FlagsOK, PlacesOK, ControlOK, Defers, RendererOf, Resting, Before,
       Draining, Finishing, Transferring
  <1>5. ASSUME NEW e \in Displays PROVE OrderOK(e)'
    BY <1>0, <1>a, Typed DEF OrderOK, Passed, Overlap, Pipelines, PlacesOK, ControlOK, Resting,
       Before, Draining, Finishing, Transferring
  <1>6. ASSUME NEW e \in Displays PROVE DevicesOK(e)'
    BY <1>0, <1>a, Typed DEF DevicesOK, Sub, PlacesOK, Resting, Before, Draining, Finishing,
       Transferring
  <1>7. ASSUME NEW e \in Displays PROVE BoundsOK(e)'
    <2>1. phase' = "frame" => damage'[e] \subseteq 1 .. shape[e].strips
      BY <1>0, <1>a, <1>c DEF ControlOK, Before
    <2>2. stale'[e] \subseteq 1 .. shape[e].strips
      BY <1>0, <1>a, <1>c DEF HistoryOK, BoundsOK
    <2> QED BY <1>0, <1>d, <2>1, <2>2 DEF BoundsOK, ControlOK, Before
  <1>8. ASSUME NEW e \in Displays PROVE AccountedOK(e)'
    <2>1. phase = "complete"
      BY <1>0 DEF ControlOK, Before
    <2>2. CASE pc' = "prepare"
      <3>1. \A k : HeldStrip(e, k)' <=> HeldStrip(e, k)
        BY <1>0 DEF HeldStrip
      <3> QED BY <1>0, <2>1, <2>2, <3>1 DEF HistoryOK, AccountedOK, Vouched, InFrame, ToDraw
    <2>3. CASE pc' = "submit"
      <3>1. e < d \/ e = d
        BY <1>0, <1>a, <2>3
      <3>2. stale'[e] = damage'[e]
        <4>1. stale'[e] = stale[e] \cup damage'[e] /\ stale[e] \subseteq damage'[e]
          BY <1>0, <1>c, <3>1, <2>3
        <4> QED BY <4>1
      <3> QED BY <1>0, <1>c, <2>3, <3>1, <3>2, <1>1, Typed DEF AccountedOK, InFrame, ToDraw, Resting, TypeOK, PictureType, Strips
    <2> QED BY <1>0, <2>2, <2>3
  <1>9. ASSUME NEW e \in Displays PROVE DoneOK(e)'
    BY <1>0, <1>a, Typed DEF HistoryOK, DoneOK, Vouched, InFrame, PlacesOK, ControlOK, Resting,
       Before, Draining, Finishing, Transferring
  <1>10. IssuedOK'
    BY <1>0, <1>a, Typed DEF IssuedOK, Holds, Sub, Doomed, TypeOK, Submissions, ControlOK,
       PlacesOK, RendererOf, Resting, Before, Draining, Finishing, Transferring
  <1>11. RoundsOK'
    <2>1. pc' = "prepare" => \A e \in Displays : e < at' => e < d \/ e = d
      BY <1>0, <1>a
    <2>2. pc' = "submit" => \A e \in Displays : ~(e < at')
      BY <1>0, DisplayNumbers
    <2> QED BY <1>0, <1>c, <2>1, <2>2 DEF RoundsOK, Finishing, Draining, Transferring
  <1> QED
    BY <1>1, <1>2, <1>3, <1>4, <1>5, <1>6, <1>7, <1>8, <1>9, <1>10, <1>11 DEF HistoryOK

(* A target of the display, or the failure of the call.                     *)
LEMMA AcquireStep ==
  ASSUME IInv, NoDropPanic, NEW d \in Displays, NEW outcome \in Outcomes, Acquire(d, outcome)
  PROVE  IInv'
  <1> USE EmptySlot DEF IInv
  <1>0. /\ pc = "submit" /\ at = d /\ nextStrip[d] \in damage[d]
        /\ nextStrip' = [nextStrip EXCEPT ![d] = @ + 1]
        /\ \/ pc' = "render" /\ UNCHANGED <<at, phase, failed, blamed>>
           \/ pc' = "finish" /\ at' = Last /\ failed' = TRUE /\ UNCHANGED <<phase, blamed>>
           \/ pc' = "guardDrop" /\ phase' = "drop" /\ blamed' = NoRenderer /\ UNCHANGED <<at, failed>>
        /\ UNCHANGED <<shape, alive, shown, damage, stale, moved, torn, frame, borrowed, valid, issued, drawing,
                        reading, flushed, pending, deferred, transfers, goal, resume, submitted,
                        result, call>>
    BY UnwindFacts DEF Acquire, Goto, registry, locals, work, picture, counters, hardware, control
  <1>1. TypeOK'
    <2>1. RegistryType'
      BY <1>0 DEF TypeOK, RegistryType
    <2>2. CountersType'
      BY <1>0 DEF TypeOK, CountersType
    <2>3. PictureType'
      BY <1>0 DEF TypeOK, PictureType
    <2>4. WorkType'
      BY <1>0 DEF TypeOK, WorkType
    <2>5. ControlType'
      BY <1>0, DisplayNumbers DEF TypeOK, ControlType, Places, Goals, Resting, Before
    <2>6. issued' \subseteq Submissions
      BY <1>0 DEF TypeOK
    <2> QED BY <2>1, <2>2, <2>3, <2>4, <2>5, <2>6 DEF TypeOK
  <1>2. ControlOK'
    BY <1>0, <1>1, DisplayNumbers DEF ControlOK, PlacesOK, NoDropPanic, Doomed, TypeOK,
       RegistryType, Resting, Before, Draining, Finishing, Transferring
  <1>3. PlacesOK'
    BY <1>0, <1>1, DisplayNumbers DEF PlacesOK, ControlOK, TypeOK, ControlType, Resting, Before,
       Draining, Finishing, Transferring
  <1>4. ASSUME NEW e \in Displays PROVE FlagsOK(e)'
    BY <1>0, Typed DEF FlagsOK, PlacesOK, ControlOK, Defers, RendererOf, Resting, Before,
       Draining, Finishing, Transferring
  <1>5. ASSUME NEW e \in Displays PROVE OrderOK(e)'
    <2>1. nextStrip'[e] \in Nat /\ nextStrip[e] \in Nat /\ nextStrip'[e] >= nextStrip[e]
          /\ (e = d => nextStrip'[e] = nextStrip[e] + 1)
      BY <1>0, Typed DEF TypeOK, PictureType
    <2>2. \A p \in Live : Passed(e, p) => Passed(e, p)'
      BY <1>0, <2>1 DEF Passed, Live, Strips
    <2>3. pc' = "render" /\ at' = e => nextStrip'[e] - 1 \in damage'[e]
      BY <1>0, <2>1
    <2>4. ~(Finishing /\ Transferring) /\ ~(Finishing /\ Transferring)'
      BY <1>0 DEF Finishing, Transferring
    <2> QED BY <1>0, <2>2, <2>3, <2>4, Typed, SlotFacts DEF OrderOK, Overlap, Pipelines
  <1>6. ASSUME NEW e \in Displays PROVE DevicesOK(e)'
    BY <1>0, Typed DEF DevicesOK, Sub, PlacesOK, Resting, Before, Draining, Finishing,
       Transferring
  <1>7. ASSUME NEW e \in Displays PROVE BoundsOK(e)'
    BY <1>0 DEF HistoryOK, BoundsOK, ControlOK, Resting, Before, Draining, Finishing,
       Transferring
  <1>8. ASSUME NEW e \in Displays PROVE AccountedOK(e)'
    BY <1>0, Typed DEF HistoryOK, BoundsOK, AccountedOK, Vouched, InFrame, HeldStrip, ToDraw,
       PlacesOK, ControlOK, Resting, Before, Draining, Finishing, Transferring
  <1>9. ASSUME NEW e \in Displays PROVE DoneOK(e)'
    BY <1>0, Typed DEF HistoryOK, DoneOK, Vouched, InFrame, PlacesOK, ControlOK, Resting,
       Before, Draining, Finishing, Transferring
  <1>10. IssuedOK'
    BY <1>0, Typed DEF IssuedOK, Holds, Sub, Doomed, TypeOK, Submissions, ControlOK, PlacesOK,
       RendererOf, Resting, Before, Draining, Finishing, Transferring
  <1>11. RoundsOK'
    BY <1>0, DisplayNumbers DEF RoundsOK, Over, PlacesOK, ControlOK, Resting, Before, Draining,
       Finishing, Transferring
  <1> QED
    BY <1>1, <1>2, <1>3, <1>4, <1>5, <1>6, <1>7, <1>8, <1>9, <1>10, <1>11 DEF HistoryOK

(* The renderer's wait for the submission of a display.                     *)
LEMMA RenderWaitStep ==
  ASSUME IInv, NoDropPanic, NEW d \in Displays, NEW outcome \in Outcomes, RenderWait(d, outcome)
  PROVE  IInv'
  <1> USE EmptySlot DEF IInv
  <1>0. /\ pc = "finish" /\ at = d /\ pending[d] # NoWork /\ ~pending[d].waited
        /\ pending[d].defer => phase = "drop"
        /\ \/ /\ pending' = [pending EXCEPT ![d].waited = TRUE]
              /\ drawing' = drawing \ {Sub(d, pending[d])}
              /\ failed' = (failed \/ outcome = "err")
              /\ valid' = [valid EXCEPT ![d] = @ /\ outcome = "ok"]
              /\ at' = at /\ phase' = phase /\ blamed' = blamed
              /\ \/ /\ pc' = "flush" /\ outcome = "ok" /\ phase # "drop"
                    /\ ~pending[d].inCall /\ ~pending[d].token
                 \/ /\ pc' = "settle"
                    /\ pending[d].inCall \/ phase = "drop" \/ pending[d].token \/ outcome = "err"
           \/ /\ pc' = "guardDrop" /\ phase' = "drop" /\ blamed' = RendererOf[d] /\ at' = at
              /\ UNCHANGED <<pending, drawing, valid, failed>>
        /\ UNCHANGED <<shape, alive, shown, nextStrip, damage, stale, moved, torn, frame, borrowed, issued, reading,
                        flushed, deferred, transfers, goal, resume, submitted, result, call>>
    BY UnwindFacts DEF RenderWait, Goto, Note, registry, locals, work, picture, counters, hardware, control
  <1>a. pending[d] \in Live /\ RendererOf[d] \in Renderers
    BY <1>0, Typed, SlotFacts, Bound DEF TypeOK
  <1>b. pending'[d] = pending[d] \/ pending'[d] = [pending[d] EXCEPT !.waited = TRUE]
    BY <1>0 DEF TypeOK, WorkType
  <1>c. \A e \in Displays : e # d => pending'[e] = pending[e] /\ valid'[e] = valid[e]
    BY <1>0 DEF TypeOK, WorkType, CountersType
  <1>d. /\ pending'[d] \in Live /\ pending'[d].strip = pending[d].strip
        /\ pending'[d].frame = pending[d].frame /\ (pending'[d].inCall <=> pending[d].inCall)
        /\ (pending'[d].token <=> pending[d].token) /\ (pending'[d].defer <=> pending[d].defer)
        /\ pending'[d].waited <=> pending[d].waited \/ pc' # "guardDrop"
    <2>1. CASE pc' = "guardDrop"
      BY <1>0, <1>a, <2>1
    <2>2. CASE pc' # "guardDrop"
      <3>1. pending'[d] = [pending[d] EXCEPT !.waited = TRUE]
        BY <1>0, <2>2 DEF TypeOK, WorkType
      <3> QED BY <1>a, <2>2, <3>1, MarkWaited
    <2> QED BY <2>1, <2>2
  <1>e. \A e \in Displays : /\ \A s : Holds(e, s)' <=> Holds(e, s)
                            /\ \A k : HeldStrip(e, k)' <=> HeldStrip(e, k)
    BY <1>0, <1>a, <1>c, <1>d, HeldSame
  <1>f. \A e \in Displays : valid'[e] => valid[e]
    BY <1>0 DEF TypeOK, CountersType
  <1>g. pc' = "settle" /\ phase # "drop" /\ ~pending[d].token => outcome = "err" /\ failed' /\ ~valid'[d]
    BY ZenonT(60), <1>0 DEF TypeOK, CountersType, FlagsOK
  <1>1. TypeOK'
    <2>1. RegistryType'
      BY <1>0 DEF TypeOK, RegistryType
    <2>2. CountersType'
      BY <1>0 DEF TypeOK, CountersType
    <2>3. PictureType'
      BY <1>0 DEF TypeOK, PictureType
    <2>4. WorkType'
      BY <1>0, <1>c, <1>d DEF TypeOK, WorkType, Slot
    <2>5. ControlType'
      BY <1>0, <1>a DEF TypeOK, ControlType, Places, Goals, Resting, Before
    <2>6. issued' \subseteq Submissions
      BY <1>0 DEF TypeOK
    <2> QED BY <2>1, <2>2, <2>3, <2>4, <2>5, <2>6 DEF TypeOK
  <1>2. ControlOK'
    BY <1>0, <1>1, <1>a, <1>b, <1>c, <1>d, <1>e, <1>f, <1>g, DisplayNumbers DEF ControlOK,
       PlacesOK, NoDropPanic, Doomed, TypeOK, RegistryType, Resting, Before, Draining,
       Finishing, Transferring
  <1>3. PlacesOK'
    BY <1>0, <1>1, <1>a, <1>b, <1>c, <1>d, <1>e, <1>f, <1>g, DisplayNumbers DEF PlacesOK,
       ControlOK, TypeOK, ControlType, Resting, Before, Draining, Finishing, Transferring
  <1>4. ASSUME NEW e \in Displays PROVE FlagsOK(e)'
    BY <1>0, <1>a, <1>b, <1>c, <1>d, <1>e, <1>f, <1>g, Typed DEF FlagsOK, PlacesOK, ControlOK,
       Defers, RendererOf, Resting, Before, Draining, Finishing, Transferring
  <1>5. ASSUME NEW e \in Displays PROVE OrderOK(e)'
    BY <1>0, <1>a, <1>b, <1>c, <1>d, <1>e, <1>f, <1>g, Typed DEF OrderOK, Passed, Overlap,
       Pipelines, PlacesOK, ControlOK, Resting, Before, Draining, Finishing, Transferring
  <1>6. ASSUME NEW e \in Displays PROVE DevicesOK(e)'
    BY <1>0, <1>a, <1>b, <1>c, <1>d, <1>e, <1>f, <1>g, Typed DEF DevicesOK, Sub, PlacesOK,
       Resting, Before, Draining, Finishing, Transferring
  <1>7. ASSUME NEW e \in Displays PROVE BoundsOK(e)'
    BY <1>0, <1>a, <1>b, <1>c, <1>d, <1>e, <1>f, <1>g DEF HistoryOK, BoundsOK, ControlOK,
       Resting, Before, Draining, Finishing, Transferring
  <1>8. ASSUME NEW e \in Displays PROVE AccountedOK(e)'
    <2>1. SUFFICES ASSUME Vouched(e)', pc' # "guardDrop" PROVE \A k \in stale'[e] : HeldStrip(e, k)' \/ ToDraw(e, k)'
      BY DEF AccountedOK
    <2>2. Vouched(e) /\ pc # "guardDrop" /\ (InFrame' <=> InFrame)
      BY <1>0, <1>f, <2>1 DEF Vouched, InFrame, Resting
    <2>3. \A k : ToDraw(e, k)' <=> ToDraw(e, k)
      BY <1>0, <2>1, <2>2 DEF ToDraw
    <2> QED BY <1>0, <1>e, <2>2, <2>3 DEF HistoryOK, AccountedOK
  <1>9. ASSUME NEW e \in Displays PROVE DoneOK(e)'
    BY <1>0, <1>a, <1>b, <1>c, <1>d, <1>e, <1>f, <1>g, Typed DEF HistoryOK, DoneOK, Vouched,
       InFrame, PlacesOK, ControlOK, Resting, Before, Draining, Finishing, Transferring
  <1>10. IssuedOK'
    BY <1>0, <1>a, <1>b, <1>c, <1>d, <1>e, <1>f, <1>g, Typed DEF IssuedOK, Holds, Sub, Doomed,
       TypeOK, Submissions, ControlOK, PlacesOK, RendererOf, Resting, Before, Draining,
       Finishing, Transferring
  <1>11. RoundsOK'
    BY <1>0, <1>a, <1>b, <1>c, <1>d, <1>e, <1>f, <1>g, DisplayNumbers DEF RoundsOK, Over,
       PlacesOK, ControlOK, Resting, Before, Draining, Finishing, Transferring
  <1> QED
    BY <1>1, <1>2, <1>3, <1>4, <1>5, <1>6, <1>7, <1>8, <1>9, <1>10, <1>11 DEF HistoryOK

(* The flush of a submission already drawn.                                 *)
LEMMA FlushStep ==
  ASSUME IInv, NoDropPanic, NEW d \in Displays, NEW outcome \in Outcomes, Flush(d, outcome)
  PROVE  IInv'
  <1> USE EmptySlot DEF IInv
  <1>0. /\ pc = "flush" /\ at = d
        /\ \/ outcome = "err" /\ reading' = reading /\ flushed' = flushed
           \/ /\ outcome # "err" /\ reading' = reading \cup {Sub(d, pending[d])}
              /\ flushed' = flushed \cup {Sub(d, pending[d])}
        /\ \/ /\ outcome \in {"ok", "err"}
              /\ pending' = [pending EXCEPT ![d].token = (outcome = "ok")]
              /\ failed' = (failed \/ outcome = "err")
              /\ valid' = [valid EXCEPT ![d] = @ /\ outcome = "ok"]
              /\ pc' = "settle" /\ at' = at /\ phase' = phase /\ blamed' = blamed
           \/ /\ outcome = "panic"
              /\ pending' = [pending EXCEPT ![d].inCall = TRUE]
              /\ pc' = "guardDrop" /\ phase' = "drop" /\ blamed' = NoRenderer /\ at' = at
              /\ UNCHANGED <<valid, failed>>
        /\ UNCHANGED <<shape, alive, shown, nextStrip, damage, stale, moved, torn, frame, borrowed, issued, drawing,
                        deferred, transfers, goal, resume, submitted, result, call>>
    BY UnwindFacts DEF Flush, Goto, Note, registry, locals, work, picture, counters, hardware, control
  <1>a. /\ pending[d] \in Live /\ phase # "drop" /\ pending[d].waited
        /\ ~pending[d].token /\ ~pending[d].inCall /\ ~pending[d].defer /\ deferred[d] = NoWork
        /\ Holds(d, Sub(d, pending[d]))
    BY <1>0, Typed, SlotFacts DEF FlagsOK, PlacesOK, OrderOK, Holds
  <1>b. /\ pc' = "settle" => pending'[d] = [pending[d] EXCEPT !.token = (outcome = "ok")]
        /\ pc' = "guardDrop" => pending'[d] = [pending[d] EXCEPT !.inCall = TRUE]
    BY <1>0 DEF TypeOK, WorkType
  <1>c. \A e \in Displays : e # d => pending'[e] = pending[e] /\ valid'[e] = valid[e]
    BY <1>0 DEF TypeOK, WorkType, CountersType
  <1>d. /\ pending'[d] \in Live /\ pending'[d].strip = pending[d].strip
        /\ pending'[d].frame = pending[d].frame /\ (pending'[d].waited <=> pending[d].waited)
        /\ (pending'[d].defer <=> pending[d].defer)
    <2>1. CASE pc' = "settle"
      <3>1. PICK b \in BOOLEAN : pending'[d] = [pending[d] EXCEPT !.token = b]
        BY <1>b, <2>1
      <3> QED BY <1>a, <3>1, MarkToken
    <2>2. CASE pc' = "guardDrop"
      <3>1. pending'[d] = [pending[d] EXCEPT !.inCall = TRUE]
        BY <1>b, <2>2
      <3> QED BY <1>a, <3>1, MarkInCall
    <2> QED BY <1>0, <2>1, <2>2
  <1>i. ASSUME pc' = "settle"
        PROVE  ~pending'[d].inCall /\ (pending'[d].token <=> outcome = "ok")
    <2>1. PICK b \in BOOLEAN : /\ b <=> outcome = "ok"
                               /\ pending'[d] = [pending[d] EXCEPT !.token = b]
      BY <1>b, <1>i
    <2>2. (pending'[d].token <=> b) /\ (pending'[d].inCall <=> pending[d].inCall)
      BY <1>a, <2>1, MarkToken
    <2> QED BY <1>a, <2>1, <2>2
  <1>j. ASSUME pc' = "guardDrop"
        PROVE  pending'[d].inCall /\ ~pending'[d].token
    <2>1. pending'[d] = [pending[d] EXCEPT !.inCall = TRUE]
      BY <1>b, <1>j
    <2>2. pending'[d].inCall /\ (pending'[d].token <=> pending[d].token)
      BY <1>a, <2>1, MarkInCall
    <2> QED BY <1>a, <2>2
  <1>e. \A e \in Displays : /\ \A s : Holds(e, s)' <=> Holds(e, s)
                            /\ \A k : HeldStrip(e, k)' <=> HeldStrip(e, k)
    BY <1>0, <1>a, <1>c, <1>d, HeldSame
  <1>f. \A e \in Displays : valid'[e] => valid[e]
    BY <1>0 DEF TypeOK, CountersType
  <1>g. pc' = "settle" /\ ~pending'[d].token => outcome = "err" /\ failed' /\ ~valid'[d]
    BY <1>0, <1>i DEF TypeOK, CountersType
  <1>h. Sub(d, pending[d]) \in issued
    BY <1>a, HeldIs DEF IssuedOK
  <1>1. TypeOK'
    <2>1. RegistryType'
      BY <1>0 DEF TypeOK, RegistryType
    <2>2. CountersType'
      BY <1>0 DEF TypeOK, CountersType
    <2>3. PictureType'
      BY <1>0 DEF TypeOK, PictureType
    <2>4. WorkType'
      BY <1>0, <1>c, <1>d DEF TypeOK, WorkType, Slot
    <2>5. ControlType'
      BY <1>0, DisplayNumbers DEF TypeOK, ControlType, Places, Goals, Resting, Before
    <2>6. issued' \subseteq Submissions
      BY <1>0 DEF TypeOK
    <2> QED BY <2>1, <2>2, <2>3, <2>4, <2>5, <2>6 DEF TypeOK
  <1>2. ControlOK'
    BY <1>0, <1>1, <1>a, <1>c, <1>d, <1>e, <1>f, <1>g, <1>h, <1>i, <1>j, DisplayNumbers DEF
       ControlOK, PlacesOK, NoDropPanic, Doomed, TypeOK, RegistryType, Resting, Before,
       Draining, Finishing, Transferring
  <1>3. PlacesOK'
    BY <1>0, <1>1, <1>a, <1>c, <1>d, <1>e, <1>f, <1>g, <1>h, <1>i, <1>j, DisplayNumbers DEF
       PlacesOK, ControlOK, TypeOK, ControlType, Resting, Before, Draining, Finishing,
       Transferring
  <1>4. ASSUME NEW e \in Displays PROVE FlagsOK(e)'
    BY <1>0, <1>a, <1>c, <1>d, <1>e, <1>f, <1>g, <1>h, <1>i, <1>j, Typed DEF FlagsOK, PlacesOK,
       ControlOK, Defers, RendererOf, Resting, Before, Draining, Finishing, Transferring
  <1>5. ASSUME NEW e \in Displays PROVE OrderOK(e)'
    BY <1>0, <1>a, <1>c, <1>d, <1>e, <1>f, <1>g, <1>h, <1>i, <1>j, Typed DEF OrderOK, Passed,
       Overlap, Pipelines, PlacesOK, ControlOK, Resting, Before, Draining, Finishing,
       Transferring
  <1>6. ASSUME NEW e \in Displays PROVE DevicesOK(e)'
    BY <1>0, <1>a, <1>c, <1>d, <1>e, <1>f, <1>g, <1>h, <1>i, <1>j, Typed DEF DevicesOK, Sub,
       PlacesOK, Resting, Before, Draining, Finishing, Transferring
  <1>7. ASSUME NEW e \in Displays PROVE BoundsOK(e)'
    BY <1>0, <1>a, <1>c, <1>d, <1>e, <1>f, <1>g, <1>h, <1>i, <1>j DEF HistoryOK, BoundsOK,
       ControlOK, Resting, Before, Draining, Finishing, Transferring
  <1>8. ASSUME NEW e \in Displays PROVE AccountedOK(e)'
    <2>1. SUFFICES ASSUME Vouched(e)', pc' # "guardDrop" PROVE \A k \in stale'[e] : HeldStrip(e, k)' \/ ToDraw(e, k)'
      BY DEF AccountedOK
    <2>2. Vouched(e) /\ pc # "guardDrop" /\ (InFrame' <=> InFrame)
      BY <1>0, <1>f, <2>1 DEF Vouched, InFrame, Resting
    <2>3. \A k : ToDraw(e, k)' <=> ToDraw(e, k)
      BY <1>0, <2>1, <2>2 DEF ToDraw
    <2> QED BY <1>0, <1>e, <2>2, <2>3 DEF HistoryOK, AccountedOK
  <1>9. ASSUME NEW e \in Displays PROVE DoneOK(e)'
    BY <1>0, <1>a, <1>c, <1>d, <1>e, <1>f, <1>g, <1>h, <1>i, <1>j, Typed DEF HistoryOK, DoneOK,
       Vouched, InFrame, PlacesOK, ControlOK, Resting, Before, Draining, Finishing, Transferring
  <1>10. IssuedOK'
    BY <1>0, <1>a, <1>c, <1>d, <1>e, <1>f, <1>g, <1>h, <1>i, <1>j, Typed DEF IssuedOK, Holds,
       Sub, Doomed, TypeOK, Submissions, ControlOK, PlacesOK, RendererOf, Resting, Before,
       Draining, Finishing, Transferring
  <1>11. RoundsOK'
    BY <1>0, <1>a, <1>c, <1>d, <1>e, <1>f, <1>g, <1>h, <1>i, <1>j, DisplayNumbers DEF RoundsOK,
       Over, PlacesOK, ControlOK, Resting, Before, Draining, Finishing, Transferring
  <1> QED
    BY <1>1, <1>2, <1>3, <1>4, <1>5, <1>6, <1>7, <1>8, <1>9, <1>10, <1>11 DEF HistoryOK

(* A Deferred submission stays in flight.                                   *)
LEMMA KeepStep ==
  ASSUME IInv, NoDropPanic, NEW d \in Displays, Keep(d)
  PROVE  IInv'
  <1> USE EmptySlot DEF IInv
  <1>0. /\ pc = "finish" /\ at = d /\ pending[d].defer /\ phase # "drop" /\ Down
        /\ phase' = phase /\ pc' \in {"finish", "roundEnd"}
        /\ deferred' = [deferred EXCEPT ![d] = [pending[d] EXCEPT !.defer = FALSE]]
        /\ pending' = [pending EXCEPT ![d] = NoWork]
        /\ UNCHANGED <<shape, alive, shown, nextStrip, damage, stale, moved, torn, frame, borrowed, valid, issued,
                        drawing, reading, flushed, transfers, goal, resume, submitted, failed,
                        panicking, blamed, result, call, phase>>
    BY DEF Keep, Down, Goto, registry, locals, work, picture, counters, hardware, control
  <1>a. /\ pending[d] \in Live /\ deferred[d] = NoWork /\ phase = "frame" /\ ~pending[d].waited
        /\ ~pending[d].token /\ ~pending[d].inCall /\ Defers(d) /\ transfers[d] = <<>>
        /\ Holds(d, Sub(d, pending[d]))
    <2>1. pending[d] # NoWork /\ Defers(d) /\ phase = "frame" /\ ~pending[d].waited
          /\ ~pending[d].token /\ ~pending[d].inCall
      BY <1>0 DEF FlagsOK, TypeOK, ControlType
    <2>2. Len(transfers[d]) <= 0
      BY <1>0, <2>1, Bound DEF OrderOK, Overlap, Finishing, Transferring, TypeOK
    <2> QED BY <1>0, <2>1, <2>2, Typed, SlotFacts DEF OrderOK, Holds
  <1>b. deferred'[d] = [pending[d] EXCEPT !.defer = FALSE] /\ pending'[d] = NoWork
    BY <1>0 DEF TypeOK, WorkType
  <1>c. \A e \in Displays : e # d => pending'[e] = pending[e] /\ deferred'[e] = deferred[e]
    BY <1>0 DEF TypeOK, WorkType
  <1>d. /\ deferred'[d] \in Live /\ deferred'[d] # NoWork /\ ~deferred'[d].defer
        /\ deferred'[d].strip = pending[d].strip /\ deferred'[d].frame = pending[d].frame
        /\ (deferred'[d].waited <=> pending[d].waited) /\ (deferred'[d].inCall <=> pending[d].inCall)
        /\ (deferred'[d].token <=> pending[d].token)
    BY <1>a, <1>b, MarkDefer
  <1>e. \A e \in Displays : /\ \A s : Holds(e, s)' <=> Holds(e, s)
                            /\ \A k : HeldStrip(e, k)' <=> HeldStrip(e, k)
    <2>1. /\ \A s : Holds(d, s)' <=> Holds(d, s)
          /\ \A k : HeldStrip(d, k)' <=> HeldStrip(d, k)
      BY <1>0, <1>a, <1>b, <1>d, HeldMoved, Typed
    <2> QED BY <1>0, <1>c, <2>1, HeldSame
  <1>f. \A e \in Displays : valid'[e] => valid[e]
    BY <1>0
  <1>g. ControlType
    BY DEF TypeOK
  <1>1. TypeOK'
    <2>1. RegistryType'
      BY <1>0 DEF TypeOK, RegistryType
    <2>2. CountersType'
      BY <1>0 DEF TypeOK, CountersType
    <2>3. PictureType'
      BY <1>0 DEF TypeOK, PictureType
    <2>4. WorkType'
      BY <1>0, <1>b, <1>c, <1>d DEF TypeOK, WorkType, Slot
    <2>5. ControlType'
      BY <1>0, <1>g, DownFacts DEF TypeOK, ControlType, Places, Goals, Resting, Before
    <2>6. issued' \subseteq Submissions
      BY <1>0 DEF TypeOK
    <2> QED BY <2>1, <2>2, <2>3, <2>4, <2>5, <2>6 DEF TypeOK
  <1>2. ControlOK'
    BY <1>0, <1>1, <1>a, <1>b, <1>c, <1>d, <1>e, <1>g, DownFacts, DisplayNumbers DEF ControlOK,
       PlacesOK, NoDropPanic, Doomed, TypeOK, RegistryType, Resting, Before, Draining,
       Finishing, Transferring
  <1>3. PlacesOK'
    BY <1>0, <1>1, <1>a, <1>b, <1>c, <1>d, <1>e, <1>g, DownFacts, DisplayNumbers DEF PlacesOK,
       ControlOK, TypeOK, ControlType, Resting, Before, Draining, Finishing, Transferring
  <1>4. ASSUME NEW e \in Displays PROVE FlagsOK(e)'
    BY <1>0, <1>a, <1>b, <1>c, <1>d, <1>e, <1>g, DownFacts, Typed DEF FlagsOK, PlacesOK,
       ControlOK, Defers, RendererOf, Resting, Before, Draining, Finishing, Transferring
  <1>5. ASSUME NEW e \in Displays PROVE OrderOK(e)'
    BY <1>0, <1>a, <1>b, <1>c, <1>d, <1>e, <1>g, DownFacts, Typed DEF OrderOK, Passed, Overlap,
       Pipelines, PlacesOK, ControlOK, Resting, Before, Draining, Finishing, Transferring
  <1>6. ASSUME NEW e \in Displays PROVE DevicesOK(e)'
    BY <1>0, <1>a, <1>b, <1>c, <1>d, <1>e, <1>g, DownFacts, Typed DEF DevicesOK, Sub, PlacesOK,
       Resting, Before, Draining, Finishing, Transferring
  <1>7. ASSUME NEW e \in Displays PROVE BoundsOK(e)'
    BY <1>0, <1>a, <1>b, <1>c, <1>d, <1>e, <1>g, DownFacts DEF HistoryOK, BoundsOK, ControlOK,
       Resting, Before, Draining, Finishing, Transferring
  <1>8. ASSUME NEW e \in Displays PROVE AccountedOK(e)'
    <2>1. SUFFICES ASSUME Vouched(e)', pc' # "guardDrop" PROVE \A k \in stale'[e] : HeldStrip(e, k)' \/ ToDraw(e, k)'
      BY DEF AccountedOK
    <2>2. Vouched(e) /\ pc # "guardDrop" /\ (InFrame' <=> InFrame)
      BY <1>0, <1>f, <2>1 DEF Vouched, InFrame, Resting
    <2>3. \A k : ToDraw(e, k)' <=> ToDraw(e, k)
      BY <1>0, <2>1, <2>2 DEF ToDraw
    <2> QED BY <1>0, <1>e, <2>2, <2>3 DEF HistoryOK, AccountedOK
  <1>9. ASSUME NEW e \in Displays PROVE DoneOK(e)'
    BY <1>0, <1>a, <1>b, <1>c, <1>d, <1>e, <1>g, DownFacts, Typed DEF HistoryOK, DoneOK,
       Vouched, InFrame, PlacesOK, ControlOK, Resting, Before, Draining, Finishing, Transferring
  <1>10. IssuedOK'
    BY <1>0, <1>a, <1>b, <1>c, <1>d, <1>e, <1>g, DownFacts, Typed DEF IssuedOK, Holds, Sub,
       Doomed, TypeOK, Submissions, ControlOK, PlacesOK, RendererOf, Resting, Before, Draining,
       Finishing, Transferring
  <1>11. RoundsOK'
    BY <1>0, <1>a, <1>b, <1>c, <1>d, <1>e, <1>g, DownFacts, DisplayNumbers DEF RoundsOK, Over,
       PlacesOK, ControlOK, Resting, Before, Draining, Finishing, Transferring
  <1> QED
    BY <1>1, <1>2, <1>3, <1>4, <1>5, <1>6, <1>7, <1>8, <1>9, <1>10, <1>11 DEF HistoryOK

(* A queued flush keeps the submission in flight, or is refused.            *)
LEMMA QueueFlushStep ==
  ASSUME IInv, NoDropPanic, NEW d \in Displays, NEW outcome \in Outcomes, QueueFlush(d, outcome)
  PROVE  IInv'
  <1> USE EmptySlot DEF IInv
  <1>0. /\ pc = "finish" /\ at = d /\ pending[d].defer /\ phase # "drop"
        /\ \/ outcome = "err" /\ reading' = reading /\ flushed' = flushed
           \/ /\ outcome # "err" /\ reading' = reading \cup {Sub(d, pending[d])}
              /\ flushed' = flushed \cup {Sub(d, pending[d])}
        /\ \/ /\ outcome = "ok" /\ Down
              /\ deferred' = [deferred EXCEPT ![d] = [pending[d] EXCEPT !.defer = FALSE, !.token = TRUE]]
              /\ pending' = [pending EXCEPT ![d] = NoWork]
              /\ phase' = phase /\ blamed' = blamed /\ pc' \in {"finish", "roundEnd"}
              /\ UNCHANGED <<valid, failed>>
           \/ /\ outcome = "err" /\ UNCHANGED <<deferred, pc, phase, at, blamed>>
              /\ pending' = [pending EXCEPT ![d].defer = FALSE]
              /\ failed' = TRUE /\ valid' = [valid EXCEPT ![d] = FALSE]
           \/ /\ outcome = "panic" /\ UNCHANGED <<deferred, valid, failed>>
              /\ pending' = [pending EXCEPT ![d].inCall = TRUE]
              /\ pc' = "guardDrop" /\ phase' = "drop" /\ blamed' = NoRenderer /\ at' = at
        /\ UNCHANGED <<shape, alive, shown, nextStrip, damage, stale, moved, torn, frame, borrowed, issued, drawing,
                        transfers, goal, resume, submitted, result, call>>
    BY UnwindFacts DEF QueueFlush, Down, Goto, Note, registry, locals, work, picture, counters, hardware, control
  <1>a. /\ pending[d] \in Live /\ deferred[d] = NoWork /\ phase = "frame" /\ ~pending[d].waited
        /\ ~pending[d].token /\ ~pending[d].inCall /\ Defers(d) /\ transfers[d] = <<>>
        /\ Holds(d, Sub(d, pending[d]))
    <2>1. pending[d] # NoWork /\ Defers(d) /\ phase = "frame" /\ ~pending[d].waited
          /\ ~pending[d].token /\ ~pending[d].inCall
      BY <1>0 DEF FlagsOK, TypeOK, ControlType
    <2>2. Len(transfers[d]) <= 0
      BY <1>0, <2>1, Bound DEF OrderOK, Overlap, Finishing, Transferring, TypeOK
    <2> QED BY <1>0, <2>1, <2>2, Typed, SlotFacts DEF OrderOK, Holds
  <1>b. /\ outcome = "ok" =>
             deferred'[d] = [pending[d] EXCEPT !.defer = FALSE, !.token = TRUE] /\ pending'[d] = NoWork
        /\ outcome = "err" => pending'[d] = [pending[d] EXCEPT !.defer = FALSE]
        /\ outcome = "panic" => pending'[d] = [pending[d] EXCEPT !.inCall = TRUE]
    BY <1>0 DEF TypeOK, WorkType
  <1>c. \A e \in Displays : e # d =>
          pending'[e] = pending[e] /\ deferred'[e] = deferred[e] /\ valid'[e] = valid[e]
    BY <1>0 DEF TypeOK, WorkType, CountersType
  <1>d. ASSUME outcome = "ok"
        PROVE  /\ deferred'[d] \in Live /\ deferred'[d] # NoWork /\ deferred'[d].token
               /\ deferred'[d].strip = pending[d].strip /\ deferred'[d].frame = pending[d].frame
               /\ ~deferred'[d].defer /\ ~deferred'[d].waited /\ ~deferred'[d].inCall
               /\ pending'[d] = NoWork
    <2>1. PICK q : q = [pending[d] EXCEPT !.defer = FALSE]
      OBVIOUS
    <2>2. deferred'[d] = [q EXCEPT !.token = TRUE]
      BY <1>a, <1>b, <1>d, <2>1 DEF Live
    <2>3. q \in Live /\ q.strip = pending[d].strip /\ q.frame = pending[d].frame
          /\ ~q.defer /\ ~q.waited /\ ~q.inCall
      <3>1. pending[d] \in Live /\ ~pending[d].waited /\ ~pending[d].inCall
        BY <1>a
      <3>2. q \in Live /\ q.strip = pending[d].strip /\ q.frame = pending[d].frame
        BY <3>1, <2>1, MarkDefer
      <3>3. ~q.defer
        BY <3>1, <2>1, MarkDefer
      <3>4. (q.waited <=> pending[d].waited) /\ (q.inCall <=> pending[d].inCall)
        BY <3>1, <2>1, MarkDefer
      <3> QED BY <3>1, <3>2, <3>3, <3>4
    <2> QED BY ZenonT(60), <1>a, <1>b, <1>d, <2>2, <2>3, MarkToken, EmptySlot
  <1>i. ASSUME outcome = "err"
        PROVE  /\ pending'[d] \in Live /\ pending'[d].strip = pending[d].strip
               /\ pending'[d].frame = pending[d].frame /\ ~pending'[d].defer
               /\ ~pending'[d].waited /\ ~pending'[d].inCall /\ ~pending'[d].token
               /\ deferred'[d] = NoWork /\ ~valid'[d]
    <2>1. pending'[d] = [pending[d] EXCEPT !.defer = FALSE]
      BY <1>b, <1>i
    <2>2. deferred'[d] = NoWork /\ ~valid'[d]
      BY <1>0, <1>a, <1>i DEF TypeOK, CountersType
    <2> QED BY <1>a, <2>1, <2>2, MarkDefer
  <1>j. ASSUME outcome = "panic"
        PROVE  /\ pending'[d] \in Live /\ pending'[d].strip = pending[d].strip
               /\ pending'[d].frame = pending[d].frame /\ pending'[d].inCall
               /\ ~pending'[d].waited /\ ~pending'[d].token /\ pending'[d].defer
               /\ deferred'[d] = NoWork
    <2>1. pending'[d] = [pending[d] EXCEPT !.inCall = TRUE]
      BY <1>b, <1>j
    <2>2. deferred'[d] = NoWork
      BY <1>0, <1>a, <1>j
    <2> QED BY <1>0, <1>a, <2>1, <2>2, MarkInCall
  <1>e. \A e \in Displays : /\ \A s : Holds(e, s)' <=> Holds(e, s)
                            /\ \A k : HeldStrip(e, k)' <=> HeldStrip(e, k)
    <2>1. /\ \A s : Holds(d, s)' <=> Holds(d, s)
          /\ \A k : HeldStrip(d, k)' <=> HeldStrip(d, k)
      <3>1. CASE outcome = "ok"
        BY <1>0, <1>a, <1>d, <3>1, HeldMoved, EmptySlot, Typed
      <3>2. CASE outcome # "ok"
        BY <1>0, <1>a, <1>i, <1>j, <3>2, HeldSame, EmptySlot
      <3> QED BY <3>1, <3>2
    <2> QED BY <1>0, <1>c, <2>1, HeldSame
  <1>f. \A e \in Displays : valid'[e] => valid[e]
    BY <1>0 DEF TypeOK, CountersType
  <1>g. ControlType
    BY DEF TypeOK
  <1>h. Sub(d, pending[d]) \in issued
    BY <1>a, HeldIs DEF IssuedOK
  <1>1. TypeOK'
    <2>1. RegistryType'
      BY <1>0 DEF TypeOK, RegistryType
    <2>2. CountersType'
      BY <1>0 DEF TypeOK, CountersType
    <2>3. PictureType'
      BY <1>0 DEF TypeOK, PictureType
    <2>4. WorkType'
      BY <1>0, <1>c, <1>d, <1>i, <1>j DEF TypeOK, WorkType, Slot
    <2>5. ControlType'
      BY <1>0, <1>g, DownFacts DEF TypeOK, ControlType, Places, Goals, Resting, Before
    <2>6. issued' \subseteq Submissions
      BY <1>0 DEF TypeOK
    <2> QED BY <2>1, <2>2, <2>3, <2>4, <2>5, <2>6 DEF TypeOK
  <1>2. ControlOK'
    BY <1>0, <1>1, <1>a, <1>c, <1>d, <1>e, <1>f, <1>g, <1>h, <1>i, <1>j, DownFacts,
       DisplayNumbers DEF ControlOK, PlacesOK, NoDropPanic, Doomed, TypeOK, RegistryType,
       Resting, Before, Draining, Finishing, Transferring
  <1>3. PlacesOK'
    BY <1>0, <1>1, <1>a, <1>c, <1>d, <1>e, <1>f, <1>g, <1>h, <1>i, <1>j, DownFacts,
       DisplayNumbers DEF PlacesOK, ControlOK, TypeOK, ControlType, Resting, Before, Draining,
       Finishing, Transferring
  <1>4. ASSUME NEW e \in Displays PROVE FlagsOK(e)'
    BY <1>0, <1>a, <1>c, <1>d, <1>e, <1>f, <1>g, <1>h, <1>i, <1>j, DownFacts, Typed DEF FlagsOK,
       PlacesOK, ControlOK, Defers, RendererOf, Resting, Before, Draining, Finishing,
       Transferring
  <1>5. ASSUME NEW e \in Displays PROVE OrderOK(e)'
    BY <1>0, <1>a, <1>c, <1>d, <1>e, <1>f, <1>g, <1>h, <1>i, <1>j, DownFacts, Typed DEF OrderOK,
       Passed, Overlap, Pipelines, PlacesOK, ControlOK, Resting, Before, Draining, Finishing,
       Transferring
  <1>6. ASSUME NEW e \in Displays PROVE DevicesOK(e)'
    BY <1>0, <1>a, <1>c, <1>d, <1>e, <1>f, <1>g, <1>h, <1>i, <1>j, DownFacts, Typed DEF
       DevicesOK, Sub, PlacesOK, Resting, Before, Draining, Finishing, Transferring
  <1>7. ASSUME NEW e \in Displays PROVE BoundsOK(e)'
    BY <1>0, <1>a, <1>c, <1>d, <1>e, <1>f, <1>g, <1>h, <1>i, <1>j, DownFacts DEF HistoryOK,
       BoundsOK, ControlOK, Resting, Before, Draining, Finishing, Transferring
  <1>8. ASSUME NEW e \in Displays PROVE AccountedOK(e)'
    <2>1. SUFFICES ASSUME Vouched(e)', pc' # "guardDrop" PROVE \A k \in stale'[e] : HeldStrip(e, k)' \/ ToDraw(e, k)'
      BY DEF AccountedOK
    <2>2. Vouched(e) /\ pc # "guardDrop" /\ (InFrame' <=> InFrame)
      BY <1>0, <1>f, <2>1 DEF Vouched, InFrame, Resting
    <2>3. \A k : ToDraw(e, k)' <=> ToDraw(e, k)
      BY <1>0, <2>1, <2>2 DEF ToDraw
    <2> QED BY <1>0, <1>e, <2>2, <2>3 DEF HistoryOK, AccountedOK
  <1>9. ASSUME NEW e \in Displays PROVE DoneOK(e)'
    BY <1>0, <1>a, <1>c, <1>d, <1>e, <1>f, <1>g, <1>h, <1>i, <1>j, DownFacts, Typed DEF
       HistoryOK, DoneOK, Vouched, InFrame, PlacesOK, ControlOK, Resting, Before, Draining,
       Finishing, Transferring
  <1>10. IssuedOK'
    BY <1>0, <1>a, <1>c, <1>d, <1>e, <1>f, <1>g, <1>h, <1>i, <1>j, DownFacts, Typed DEF
       IssuedOK, Holds, Sub, Doomed, TypeOK, Submissions, ControlOK, PlacesOK, RendererOf,
       Resting, Before, Draining, Finishing, Transferring
  <1>11. RoundsOK'
    BY <1>0, <1>a, <1>c, <1>d, <1>e, <1>f, <1>g, <1>h, <1>i, <1>j, DownFacts, DisplayNumbers DEF
       RoundsOK, Over, PlacesOK, ControlOK, Resting, Before, Draining, Finishing, Transferring
  <1> QED
    BY <1>1, <1>2, <1>3, <1>4, <1>5, <1>6, <1>7, <1>8, <1>9, <1>10, <1>11 DEF HistoryOK

(* A started transfer is queued; too many, or a failing frame, await the oldest.*)
LEMMA TransferStep ==
  ASSUME IInv, NoDropPanic, NEW d \in Displays, Transfer(d)
  PROVE  IInv'
  <1> USE EmptySlot DEF IInv
  <1>0. /\ pc = "settle" /\ at = d /\ pending[d].token /\ ~pending[d].inCall
        /\ transfers' = [transfers EXCEPT ![d] = Append(@, pending[d])]
        /\ pending' = [pending EXCEPT ![d] = NoWork]
        /\ \/ pc' = "transfer" /\ at' = at /\ resume' = "finish"
           \/ /\ Down /\ resume' = resume /\ pc' \in {"finish", "roundEnd"}
              /\ Pipelines(d) /\ ~(Len(transfers'[d]) >= 2)
        /\ phase' = phase /\ blamed' = blamed
        /\ UNCHANGED <<shape, alive, shown, nextStrip, damage, stale, moved, torn, frame, borrowed, valid, issued,
                        drawing, reading, flushed, deferred, goal, submitted, failed, panicking,
                        blamed, result, call, phase>>
    BY DEF Transfer, Down, Goto, TransferLimit, registry, locals, work, picture, counters, hardware, control
  <1>a. /\ pending[d] \in Live /\ pending[d] # NoWork /\ deferred[d] = NoWork /\ pending[d].waited
        /\ transfers[d] \in Seq(Live)
    BY <1>0, Typed, SlotFacts DEF FlagsOK, PlacesOK, OrderOK
  <1>b. transfers'[d] = Append(transfers[d], pending[d]) /\ pending'[d] = NoWork
    BY <1>0 DEF TypeOK, WorkType
  <1>c. \A e \in Displays : e # d => pending'[e] = pending[e] /\ transfers'[e] = transfers[e]
    BY <1>0 DEF TypeOK, WorkType
  <1>d. /\ Len(transfers[d]) \in Nat /\ Len(transfers'[d]) = Len(transfers[d]) + 1
        /\ transfers'[d][Len(transfers[d]) + 1] = pending[d] /\ transfers'[d] # <<>>
        /\ \A i \in 1 .. Len(transfers[d]) : transfers'[d][i] = transfers[d][i]
        /\ \A i \in 1 .. Len(transfers'[d]) :
             i \in Nat /\ (i \in 1 .. Len(transfers[d]) \/ i = Len(transfers[d]) + 1)
        /\ transfers'[d] \in Seq(Live)
    BY <1>a, <1>b
  <1>e. \A e \in Displays : /\ \A s : Holds(e, s)' <=> Holds(e, s)
                            /\ \A k : HeldStrip(e, k)' <=> HeldStrip(e, k)
    <2>1. /\ \A s : Holds(d, s)' <=> Holds(d, s)
          /\ \A k : HeldStrip(d, k)' <=> HeldStrip(d, k)
      BY <1>0, <1>a, <1>b, HeldMoved
    <2> QED BY <1>0, <1>c, <2>1, HeldSame
  <1>f. \A e \in Displays : valid'[e] => valid[e]
    BY <1>0
  <1>g. ControlType
    BY DEF TypeOK
  <1>1. TypeOK'
    <2>1. RegistryType'
      BY <1>0 DEF TypeOK, RegistryType
    <2>2. CountersType'
      BY <1>0 DEF TypeOK, CountersType
    <2>3. PictureType'
      BY <1>0 DEF TypeOK, PictureType
    <2>4. WorkType'
      BY <1>0, <1>b, <1>c, <1>d DEF TypeOK, WorkType, Slot
    <2>5. ControlType'
      BY <1>0, <1>g, DownFacts DEF TypeOK, ControlType, Places, Goals, Resting, Before
    <2>6. issued' \subseteq Submissions
      BY <1>0 DEF TypeOK
    <2> QED BY <2>1, <2>2, <2>3, <2>4, <2>5, <2>6 DEF TypeOK
  <1>2. ControlOK'
    BY <1>0, <1>1, <1>a, <1>b, <1>c, <1>d, <1>e, <1>g, DownFacts, DisplayNumbers DEF ControlOK,
       PlacesOK, NoDropPanic, Doomed, TypeOK, RegistryType, Resting, Before, Draining,
       Finishing, Transferring
  <1>3. PlacesOK'
    BY <1>0, <1>1, <1>a, <1>b, <1>c, <1>d, <1>e, <1>g, DownFacts, DisplayNumbers DEF PlacesOK,
       ControlOK, TypeOK, ControlType, Resting, Before, Draining, Finishing, Transferring
  <1>4. ASSUME NEW e \in Displays PROVE FlagsOK(e)'
    BY <1>0, <1>a, <1>b, <1>c, <1>d, <1>e, <1>g, DownFacts, Typed DEF FlagsOK, PlacesOK,
       ControlOK, Defers, RendererOf, Resting, Before, Draining, Finishing, Transferring
  <1>5. ASSUME NEW e \in Displays PROVE OrderOK(e)'
    BY <1>0, <1>a, <1>b, <1>c, <1>d, <1>e, <1>g, DownFacts, Typed DEF OrderOK, Passed, Overlap,
       Pipelines, PlacesOK, ControlOK, Resting, Before, Draining, Finishing, Transferring
  <1>6. ASSUME NEW e \in Displays PROVE DevicesOK(e)'
    <2>1. \A i \in 1 .. Len(transfers'[e]) : Sub(e, transfers'[e][i]) \notin drawing
      <3>1. CASE e = d
        <4>1. Sub(d, pending[d]) \notin drawing
          BY <1>a DEF DevicesOK
        <4>2. \A i \in 1 .. Len(transfers[d]) : Sub(d, transfers[d][i]) \notin drawing
          BY DEF DevicesOK
        <4> QED BY <1>d, <3>1, <4>1, <4>2
      <3>2. CASE e # d
        BY <1>c, <3>2 DEF DevicesOK
      <3> QED BY <3>1, <3>2
    <2>2. pc' # "retire" /\ pc' # "retireTransfer"
      BY <1>0
    <2>3. pending'[e] = NoWork \/ pending'[e] = pending[e]
      BY <1>b, <1>c
    <2>4. /\ pending'[e].waited => Sub(e, pending'[e]) \notin drawing
          /\ pending'[e] # NoWork /\ ~pending'[e].token /\ ~pending'[e].inCall =>
               Sub(e, pending'[e]) \notin reading \cup flushed
      BY <2>3, EmptySlot DEF DevicesOK
    <2>5. deferred[e] # NoWork /\ ~deferred[e].token => Sub(e, deferred[e]) \notin reading \cup flushed
      BY DEF DevicesOK
    <2> QED BY <1>0, <2>1, <2>2, <2>4, <2>5 DEF DevicesOK, Sub
  <1>7. ASSUME NEW e \in Displays PROVE BoundsOK(e)'
    BY <1>0, <1>a, <1>b, <1>c, <1>d, <1>e, <1>g, DownFacts DEF HistoryOK, BoundsOK, ControlOK,
       Resting, Before, Draining, Finishing, Transferring
  <1>8. ASSUME NEW e \in Displays PROVE AccountedOK(e)'
    <2>1. SUFFICES ASSUME Vouched(e)', pc' # "guardDrop" PROVE \A k \in stale'[e] : HeldStrip(e, k)' \/ ToDraw(e, k)'
      BY DEF AccountedOK
    <2>2. Vouched(e) /\ pc # "guardDrop" /\ (InFrame' <=> InFrame)
      BY <1>0, <1>f, <2>1 DEF Vouched, InFrame, Resting
    <2>3. \A k : ToDraw(e, k)' <=> ToDraw(e, k)
      BY <1>0, <2>1, <2>2 DEF ToDraw
    <2> QED BY <1>0, <1>e, <2>2, <2>3 DEF HistoryOK, AccountedOK
  <1>9. ASSUME NEW e \in Displays PROVE DoneOK(e)'
    BY <1>0, <1>a, <1>b, <1>c, <1>d, <1>e, <1>g, DownFacts, Typed DEF HistoryOK, DoneOK,
       Vouched, InFrame, PlacesOK, ControlOK, Resting, Before, Draining, Finishing, Transferring
  <1>10. IssuedOK'
    BY SMTT(30), <1>0, <1>a, <1>b, <1>c, <1>d, <1>e, <1>g, DownFacts, Typed DEF IssuedOK, Holds, Sub,
       Doomed, TypeOK, Submissions, ControlOK, PlacesOK, RendererOf, Resting, Before, Draining,
       Finishing, Transferring
  <1>11. RoundsOK'
    BY <1>0, <1>a, <1>b, <1>c, <1>d, <1>e, <1>g, DownFacts, DisplayNumbers DEF RoundsOK, Over,
       PlacesOK, ControlOK, Resting, Before, Draining, Finishing, Transferring
  <1> QED
    BY <1>1, <1>2, <1>3, <1>4, <1>5, <1>6, <1>7, <1>8, <1>9, <1>10, <1>11 DEF HistoryOK

(* A submission neither device uses gives its memory back.                  *)
LEMMA RetireStep ==
  ASSUME IInv, NoDropPanic, NEW d \in Displays, Retire(d)
  PROVE  IInv'
  <1> USE EmptySlot DEF IInv
  <1>0. /\ at = d /\ Down
        /\ pc = "retire" \/ (pc = "settle" /\ ~pending[d].token /\ ~pending[d].inCall)
        /\ pending' = [pending EXCEPT ![d] = NoWork]
        /\ issued' = issued \ {Sub(d, pending[d])} /\ flushed' = flushed \ {Sub(d, pending[d])}
        /\ phase' = phase /\ blamed' = blamed /\ pc' \in {"finish", "roundEnd"}
        /\ UNCHANGED <<shape, alive, shown, nextStrip, damage, stale, moved, torn, frame, borrowed, valid, drawing,
                        reading, deferred, transfers, goal, resume, submitted, failed,
                        panicking, blamed, result, call, phase>>
    BY DEF Retire, Down, Goto, registry, locals, work, picture, counters, hardware, control
  <1>a. pending[d] \in Live /\ pending[d] # NoWork /\ deferred[d] = NoWork /\ pending[d].waited
    BY <1>0, Typed, SlotFacts DEF FlagsOK, PlacesOK, OrderOK
  <1>b. pending'[d] = NoWork
    BY <1>0 DEF TypeOK, WorkType
  <1>c. \A e \in Displays : e # d => pending'[e] = pending[e]
    BY <1>0 DEF TypeOK, WorkType
  <1>d. Sub(d, pending[d]) \notin drawing \cup reading
    BY <1>0, <1>a DEF DevicesOK, Sub
  <1>e. ASSUME NEW e \in Displays, NEW s
        PROVE  Holds(e, s)' <=> Holds(e, s) /\ s # Sub(d, pending[d])
    <2>1. CASE e = d
      <3>1. ASSUME NEW i \in 1 .. Len(transfers[d])
            PROVE  Sub(d, transfers[d][i]) # Sub(d, pending[d])
        <4>1. transfers[d][i].strip < pending[d].strip
          BY <1>a DEF OrderOK
        <4>2. transfers[d][i].strip \in Nat /\ pending[d].strip \in Nat
          BY <1>a, Typed DEF Live, Strips
        <4>3. transfers[d][i].strip # pending[d].strip
          BY <4>1, <4>2
        <4> QED BY <4>3 DEF Sub
      <3> QED BY <1>0, <1>a, <1>b, <2>1, <3>1 DEF Holds
    <2>2. CASE e # d
      <3>1. Holds(e, s)' <=> Holds(e, s)
        BY <1>0, <1>c, <2>2, HeldSame
      <3> QED BY <2>2, <3>1, HeldIs DEF Sub
    <2> QED BY <2>1, <2>2
  <1>f. phase = "drop" => \A e \in Displays : ~valid[e]
    BY <1>0 DEF HistoryOK, BoundsOK
  <1>g. ControlType
    BY DEF TypeOK
  <1>h. phase # "drop" => failed /\ ~valid[d]
    BY <1>0 DEF HistoryOK, DoneOK, FlagsOK
  <1>1. TypeOK'
    <2>1. RegistryType'
      BY <1>0 DEF TypeOK, RegistryType
    <2>2. CountersType'
      BY <1>0 DEF TypeOK, CountersType
    <2>3. PictureType'
      BY <1>0 DEF TypeOK, PictureType
    <2>4. WorkType'
      BY <1>0, <1>b, <1>c DEF TypeOK, WorkType, Slot
    <2>5. ControlType'
      BY <1>0, <1>g, DownFacts DEF TypeOK, ControlType, Places, Goals, Resting, Before
    <2>6. issued' \subseteq Submissions
      BY <1>0 DEF TypeOK
    <2> QED BY <2>1, <2>2, <2>3, <2>4, <2>5, <2>6 DEF TypeOK
  <1>2. ControlOK'
    BY <1>0, <1>1, <1>a, <1>b, <1>c, <1>g, DownFacts, DisplayNumbers DEF ControlOK, PlacesOK,
       NoDropPanic, Doomed, TypeOK, RegistryType, Resting, Before, Draining, Finishing,
       Transferring
  <1>3. PlacesOK'
    BY <1>0, <1>1, <1>a, <1>b, <1>c, <1>g, DownFacts, DisplayNumbers DEF PlacesOK, ControlOK,
       TypeOK, ControlType, Resting, Before, Draining, Finishing, Transferring
  <1>4. ASSUME NEW e \in Displays PROVE FlagsOK(e)'
    BY <1>0, <1>a, <1>b, <1>c, <1>g, DownFacts, Typed DEF FlagsOK, PlacesOK, ControlOK, Defers,
       RendererOf, Resting, Before, Draining, Finishing, Transferring
  <1>5. ASSUME NEW e \in Displays PROVE OrderOK(e)'
    BY <1>0, <1>a, <1>b, <1>c, <1>g, DownFacts, Typed DEF OrderOK, Passed, Overlap, Pipelines,
       PlacesOK, ControlOK, Resting, Before, Draining, Finishing, Transferring
  <1>6. ASSUME NEW e \in Displays PROVE DevicesOK(e)'
    BY <1>0, <1>a, <1>b, <1>c, <1>g, DownFacts, Typed DEF DevicesOK, Sub, PlacesOK, Resting,
       Before, Draining, Finishing, Transferring
  <1>7. ASSUME NEW e \in Displays PROVE BoundsOK(e)'
    BY <1>0, <1>a, <1>b, <1>c, <1>g, DownFacts DEF HistoryOK, BoundsOK, ControlOK, Resting,
       Before, Draining, Finishing, Transferring
  <1>8. ASSUME NEW e \in Displays PROVE AccountedOK(e)'
    <2>1. SUFFICES ASSUME Vouched(e)' PROVE \A k \in stale'[e] : HeldStrip(e, k)' \/ ToDraw(e, k)'
      BY DEF AccountedOK
    <2>2. Vouched(e) /\ ~InFrame /\ ~InFrame' /\ e # d
      BY <1>0, <1>f, <1>h, <2>1 DEF Vouched, InFrame, Resting
    <2>3. \A k : HeldStrip(e, k)' <=> HeldStrip(e, k)
      BY <1>0, <1>c, <2>2, HeldSame
    <2> QED BY <1>0, <2>2, <2>3 DEF HistoryOK, AccountedOK, ToDraw
  <1>9. ASSUME NEW e \in Displays PROVE DoneOK(e)'
    BY <1>0, <1>a, <1>b, <1>c, <1>g, DownFacts, Typed DEF HistoryOK, DoneOK, Vouched, InFrame,
       PlacesOK, ControlOK, Resting, Before, Draining, Finishing, Transferring
  <1>10. IssuedOK'
    <2>1. ~Doomed
      BY <1>0 DEF Doomed, Draining, Transferring
    <2>2. \A s \in issued' : Holds(s.display, s)'
      BY <1>0, <1>e, <2>1 DEF IssuedOK, TypeOK, Submissions
    <2>3. \A e \in Displays : \A s \in Submissions : Holds(e, s)' => s \in issued'
      BY <1>0, <1>e DEF IssuedOK
    <2> QED BY <1>0, <1>d, <2>2, <2>3 DEF IssuedOK
  <1>11. RoundsOK'
    BY <1>0, <1>a, <1>b, <1>c, <1>g, DownFacts, DisplayNumbers DEF RoundsOK, Over, PlacesOK,
       ControlOK, Resting, Before, Draining, Finishing, Transferring
  <1> QED
    BY <1>1, <1>2, <1>3, <1>4, <1>5, <1>6, <1>7, <1>8, <1>9, <1>10, <1>11 DEF HistoryOK

(* The display's wait for its oldest transfer.                              *)
LEMMA TransferWaitStep ==
  ASSUME IInv, NoDropPanic, NEW d \in Displays, NEW outcome \in Outcomes, TransferWait(d, outcome)
  PROVE  IInv'
  <1> USE EmptySlot DEF IInv
  <1>0. /\ pc = "transfer" /\ at = d /\ ~transfers[d][1].inCall /\ d \in shown
        /\ \/ /\ reading' = reading \ {Sub(d, transfers[d][1])} /\ transfers' = transfers
              /\ \/ outcome = "ok" /\ stale' = [stale EXCEPT ![d] = @ \ {transfers[d][1].strip}]
                 \/ outcome = "err" /\ stale' = stale
              /\ failed' = (failed \/ outcome = "err")
              /\ valid' = [valid EXCEPT ![d] = @ /\ outcome = "ok"]
              /\ pc' = "retireTransfer" /\ at' = at /\ phase' = phase /\ blamed' = blamed
           \/ /\ outcome = "panic" /\ UNCHANGED <<reading, stale, torn, valid, failed>>
              /\ transfers' = [transfers EXCEPT ![d][1].inCall = TRUE, ![d][1].token = FALSE]
              /\ phase # "drop"
              /\ pc' = "guardDrop" /\ phase' = "drop" /\ blamed' = NoRenderer /\ at' = at
        /\ torn' = torn \/ torn' = [torn EXCEPT ![d] = @ \ {transfers[d][1].strip}]
        /\ UNCHANGED <<shape, alive, shown, nextStrip, damage, moved, frame, borrowed, issued, drawing, flushed,
                        pending, deferred, goal, resume, submitted, result, call>>
    <2>1. Head(transfers[d]) = transfers[d][1]
      <3>1. transfers[d] \in Seq(Live) /\ transfers[d] # <<>>
        BY Typed DEF TransferWait, PlacesOK, Transferring
      <3> QED BY <3>1
    <2> QED BY <2>1, UnwindFacts DEF TransferWait, Goto, Note, registry, locals, work, picture, counters, hardware, control
  <1>a. /\ transfers[d] \in Seq(Live) /\ 1 \in 1 .. Len(transfers[d]) /\ Len(transfers[d]) \in Nat
        /\ transfers[d][1] \in Live
    <2>1. transfers[d] \in Seq(Live) /\ transfers[d] # <<>>
      BY <1>0, Typed DEF PlacesOK, Transferring
    <2> QED BY <2>1
  <1>b. ASSUME pc' = "guardDrop"
        PROVE  /\ transfers'[d] \in Seq(Live) /\ Len(transfers'[d]) = Len(transfers[d])
               /\ \A i \in 1 .. Len(transfers[d]) :
                    /\ transfers'[d][i].strip = transfers[d][i].strip
                    /\ transfers'[d][i].frame = transfers[d][i].frame
                    /\ transfers'[d][i].waited <=> transfers[d][i].waited
    <2>1. transfers'[d] = [transfers[d] EXCEPT ![1] = [@ EXCEPT !.inCall = TRUE, !.token = FALSE]]
      BY ZenonT(60), <1>0, <1>b DEF TypeOK, WorkType
    <2>2. PICK q : q = [transfers[d][1] EXCEPT !.inCall = TRUE, !.token = FALSE]
      OBVIOUS
    <2>3. q \in Live /\ q.strip = transfers[d][1].strip /\ q.frame = transfers[d][1].frame
          /\ (q.waited <=> transfers[d][1].waited)
      BY <1>a, <2>2 DEF Live
    <2>4. Len(transfers'[d]) = Len(transfers[d]) /\ transfers'[d][1] = q
          /\ (\A i \in 1 .. Len(transfers[d]) : i # 1 => transfers'[d][i] = transfers[d][i])
          /\ transfers'[d] \in Seq(Live)
      BY <1>a, <2>1, <2>2, <2>3
    <2> QED BY <2>3, <2>4
  <1>c. \A e \in Displays : e # d =>
          transfers'[e] = transfers[e] /\ valid'[e] = valid[e] /\ stale'[e] = stale[e]
    BY <1>0 DEF TypeOK, WorkType, CountersType, PictureType
  <1>d. /\ \A e \in Displays : stale'[e] \subseteq stale[e]
        /\ pc' = "retireTransfer" /\ outcome = "ok" => transfers'[d][1].strip \notin stale'[d]
    BY <1>0 DEF TypeOK, PictureType
  <1>e. \A e \in Displays : /\ \A s : Holds(e, s)' <=> Holds(e, s)
                            /\ \A k : HeldStrip(e, k)' <=> HeldStrip(e, k)
    <2>1. /\ \A s : Holds(d, s)' <=> Holds(d, s)
          /\ \A k : HeldStrip(d, k)' <=> HeldStrip(d, k)
      <3>1. CASE pc' = "guardDrop"
        BY <1>0, <1>b, <3>1, HeldSame
      <3>2. CASE pc' # "guardDrop"
        BY <1>0, <3>2, HeldSame
      <3> QED BY <3>1, <3>2
    <2> QED BY <1>0, <1>c, <2>1, HeldSame
  <1>f. \A e \in Displays : valid'[e] => valid[e]
    BY <1>0 DEF TypeOK, CountersType
  <1>g. pc' = "retireTransfer" /\ outcome = "err" => failed' /\ ~valid'[d]
    BY <1>0 DEF TypeOK, CountersType
  <1>h. pending'[d] = pending[d] /\ deferred[d] = NoWork
    BY <1>0, <1>a DEF OrderOK
  <1>1. TypeOK'
    <2>1. RegistryType'
      BY <1>0 DEF TypeOK, RegistryType
    <2>2. CountersType'
      BY <1>0 DEF TypeOK, CountersType
    <2>3. PictureType'
      BY <1>0 DEF TypeOK, PictureType
    <2>4. WorkType'
      BY <1>0, <1>a, <1>b, <1>c DEF TypeOK, WorkType, Slot
    <2>5. ControlType'
      BY <1>0, DisplayNumbers DEF TypeOK, ControlType, Places, Goals, Resting, Before
    <2>6. issued' \subseteq Submissions
      BY <1>0 DEF TypeOK
    <2> QED BY <2>1, <2>2, <2>3, <2>4, <2>5, <2>6 DEF TypeOK
  <1>2. ControlOK'
    BY <1>0, <1>1, <1>a, <1>b, <1>c, <1>d, <1>e, <1>f, <1>g, <1>h, DisplayNumbers DEF ControlOK,
       PlacesOK, NoDropPanic, Doomed, TypeOK, RegistryType, Resting, Before, Draining,
       Finishing, Transferring
  <1>3. PlacesOK'
    BY <1>0, <1>1, <1>a, <1>b, <1>c, <1>d, <1>e, <1>f, <1>g, <1>h, DisplayNumbers DEF PlacesOK,
       ControlOK, TypeOK, ControlType, Resting, Before, Draining, Finishing, Transferring
  <1>4. ASSUME NEW e \in Displays PROVE FlagsOK(e)'
    BY <1>0, <1>a, <1>b, <1>c, <1>d, <1>e, <1>f, <1>g, <1>h, Typed DEF FlagsOK, PlacesOK,
       ControlOK, Defers, RendererOf, Resting, Before, Draining, Finishing, Transferring
  <1>5. ASSUME NEW e \in Displays PROVE OrderOK(e)'
    BY SMTT(30), <1>0, <1>a, <1>b, <1>c, <1>d, <1>e, <1>f, <1>g, <1>h, Typed DEF OrderOK, Passed, Overlap,
       Pipelines, PlacesOK, ControlOK, Resting, Before, Draining, Finishing, Transferring
  <1>6. ASSUME NEW e \in Displays PROVE DevicesOK(e)'
    BY <1>0, <1>a, <1>b, <1>c, <1>d, <1>e, <1>f, <1>g, <1>h, Typed DEF DevicesOK, Sub, PlacesOK,
       Resting, Before, Draining, Finishing, Transferring
  <1>7. ASSUME NEW e \in Displays PROVE BoundsOK(e)'
    BY <1>0, <1>a, <1>b, <1>c, <1>d, <1>e, <1>f, <1>g, <1>h DEF HistoryOK, BoundsOK, ControlOK,
       Resting, Before, Draining, Finishing, Transferring
  <1>8. ASSUME NEW e \in Displays PROVE AccountedOK(e)'
    <2>1. SUFFICES ASSUME Vouched(e)', pc' # "guardDrop" PROVE \A k \in stale'[e] : HeldStrip(e, k)' \/ ToDraw(e, k)'
      BY DEF AccountedOK
    <2>2. Vouched(e) /\ pc # "guardDrop" /\ (InFrame' <=> InFrame)
      BY <1>0, <1>f, <2>1 DEF Vouched, InFrame, Resting
    <2>3. \A k : ToDraw(e, k)' <=> ToDraw(e, k)
      BY <1>0, <2>1, <2>2 DEF ToDraw
    <2> QED BY <1>0, <1>d, <1>e, <2>2, <2>3 DEF HistoryOK, AccountedOK
  <1>9. ASSUME NEW e \in Displays PROVE DoneOK(e)'
    BY <1>0, <1>a, <1>b, <1>c, <1>d, <1>e, <1>f, <1>g, <1>h, Typed DEF HistoryOK, DoneOK,
       Vouched, InFrame, PlacesOK, ControlOK, Resting, Before, Draining, Finishing, Transferring
  <1>10. IssuedOK'
    <2>1. Doomed => Doomed' /\ blamed' = blamed
      BY <1>0 DEF Doomed, Draining, Transferring, ControlOK
    <2>2. \A s \in issued' : Holds(s.display, s)' \/ (Doomed' /\ blamed' = RendererOf'[s.display])
      BY <1>0, <1>e, <2>1 DEF IssuedOK, TypeOK, Submissions, RendererOf
    <2>3. \A e \in Displays : \A s \in Submissions : Holds(e, s)' => s \in issued'
      BY <1>0, <1>e DEF IssuedOK
    <2>4. reading' \subseteq reading
      BY <1>0
    <2> QED BY <1>0, <2>2, <2>3, <2>4 DEF IssuedOK
  <1>11. RoundsOK'
    BY <1>0, <1>a, <1>b, <1>c, <1>d, <1>e, <1>f, <1>g, <1>h, DisplayNumbers DEF RoundsOK, Over,
       PlacesOK, ControlOK, Resting, Before, Draining, Finishing, Transferring
  <1> QED
    BY <1>1, <1>2, <1>3, <1>4, <1>5, <1>6, <1>7, <1>8, <1>9, <1>10, <1>11 DEF HistoryOK

(* A finished transfer gives its memory back.                               *)
LEMMA RetireTransferStep ==
  ASSUME IInv, NoDropPanic, NEW d \in Displays, RetireTransfer(d)
  PROVE  IInv'
  <1> USE EmptySlot DEF IInv
  <1>0. /\ pc = "retireTransfer" /\ at = d
        /\ transfers' = [transfers EXCEPT ![d] = Tail(@)]
        /\ issued' = issued \ {Sub(d, transfers[d][1])} /\ flushed' = flushed \ {Sub(d, transfers[d][1])}
        /\ \/ resume = "drain" /\ pc' = "drain" /\ at' = at
           \/ resume # "drain" /\ Down /\ pc' \in {"finish", "roundEnd"}
        /\ phase' = phase /\ blamed' = blamed
        /\ UNCHANGED <<shape, alive, shown, nextStrip, damage, stale, moved, torn, frame, borrowed, valid, drawing,
                        reading, pending, deferred, goal, resume, submitted, failed, panicking,
                        blamed, result, call, phase>>
    <2>1. Head(transfers[d]) = transfers[d][1]
      <3>1. transfers[d] \in Seq(Live) /\ transfers[d] # <<>>
        BY Typed DEF RetireTransfer, PlacesOK, Transferring
      <3> QED BY <3>1
    <2> QED BY <2>1 DEF RetireTransfer, Down, Goto, registry, locals, work, picture, counters, hardware, control
  <1>a. /\ transfers[d] \in Seq(Live) /\ transfers[d] # <<>> /\ deferred[d] = NoWork
    BY <1>0, Typed DEF PlacesOK, Transferring, OrderOK
  <1>b. transfers'[d] = Tail(transfers[d])
    BY <1>0 DEF TypeOK, WorkType
  <1>c. \A e \in Displays : e # d => transfers'[e] = transfers[e]
    BY <1>0 DEF TypeOK, WorkType
  <1>d. /\ Len(transfers[d]) \in Nat /\ 1 \in 1 .. Len(transfers[d])
        /\ Len(transfers'[d]) = Len(transfers[d]) - 1 /\ transfers'[d] \in Seq(Live)
        /\ \A i \in 1 .. Len(transfers'[d]) :
             i \in Nat /\ i + 1 \in 1 .. Len(transfers[d]) /\ transfers'[d][i] = transfers[d][i + 1]
        /\ \A i \in 1 .. Len(transfers[d]) :
             i # 1 => i - 1 \in 1 .. Len(transfers'[d]) /\ transfers'[d][i - 1] = transfers[d][i]
    BY <1>a, <1>b
  <1>e. ASSUME NEW e \in Displays, NEW s
        PROVE  Holds(e, s)' <=> Holds(e, s) /\ s # Sub(d, transfers[d][1])
    <2>1. CASE e = d
      <3>1. ASSUME NEW i \in 1 .. Len(transfers[d]), i # 1
            PROVE  Sub(d, transfers[d][i]) # Sub(d, transfers[d][1])
        <4>1. transfers[d][1].strip < transfers[d][i].strip
          BY <1>d, <3>1 DEF OrderOK
        <4>2. transfers[d][i] \in Slot /\ transfers[d][1] \in Slot
              /\ transfers[d][i] # NoWork /\ transfers[d][1] # NoWork
          BY <1>d, Typed
        <4>4. transfers[d][i].strip \in Strips /\ transfers[d][1].strip \in Strips
          BY <4>2, SlotFacts
        <4>5. transfers[d][i].strip \in Nat /\ transfers[d][1].strip \in Nat
          BY <4>4 DEF Strips
        <4>3. transfers[d][i].strip # transfers[d][1].strip
          BY <4>1, <4>5
        <4> QED BY <4>3 DEF Sub
      <3>2. pending[d] # NoWork => Sub(d, pending[d]) # Sub(d, transfers[d][1])
        <4>1. SUFFICES ASSUME pending[d] # NoWork PROVE pending[d].strip # transfers[d][1].strip
          BY DEF Sub
        <4>2. transfers[d][1].strip < pending[d].strip
          BY <1>d, <4>1 DEF OrderOK
        <4>3. pending[d].strip \in Nat /\ transfers[d][1].strip \in Nat
          BY <1>d, <4>1, Typed, SlotFacts DEF Live, Strips
        <4> QED BY <4>2, <4>3
      <3>3. Holds(d, s)' => Holds(d, s) /\ s # Sub(d, transfers[d][1])
        BY <1>0, <1>a, <1>d, <3>1, <3>2 DEF Holds
      <3>4. Holds(d, s) /\ s # Sub(d, transfers[d][1]) => Holds(d, s)'
        BY ZenonT(60), <1>0, <1>a, <1>d DEF Holds
      <3> QED BY <2>1, <3>3, <3>4
    <2>2. CASE e # d
      <3>1. Holds(e, s)' <=> Holds(e, s)
        BY <1>0, <1>c, <2>2, HeldSame
      <3> QED BY <2>2, <3>1, HeldIs DEF Sub
    <2> QED BY <2>1, <2>2
  <1>f. phase = "drop" => \A e \in Displays : ~valid[e]
    BY <1>0 DEF HistoryOK, BoundsOK
  <1>g. ControlType
    BY DEF TypeOK
  <1>h. Sub(d, transfers[d][1]) \notin drawing \cup reading
    BY <1>0, <1>d DEF DevicesOK
  <1>1. TypeOK'
    <2>1. RegistryType'
      BY <1>0 DEF TypeOK, RegistryType
    <2>2. CountersType'
      BY <1>0 DEF TypeOK, CountersType
    <2>3. PictureType'
      BY <1>0 DEF TypeOK, PictureType
    <2>4. WorkType'
      BY <1>0, <1>c, <1>d DEF TypeOK, WorkType, Slot
    <2>5. ControlType'
      BY <1>0, <1>g, DownFacts DEF TypeOK, ControlType, Places, Goals, Resting, Before
    <2>6. issued' \subseteq Submissions
      BY <1>0 DEF TypeOK
    <2> QED BY <2>1, <2>2, <2>3, <2>4, <2>5, <2>6 DEF TypeOK
  <1>2. ControlOK'
    BY <1>0, <1>1, <1>a, <1>b, <1>c, <1>d, <1>g, DownFacts, DisplayNumbers DEF ControlOK,
       PlacesOK, NoDropPanic, Doomed, TypeOK, RegistryType, Resting, Before, Draining,
       Finishing, Transferring
  <1>3. PlacesOK'
    BY <1>0, <1>1, <1>a, <1>b, <1>c, <1>d, <1>g, DownFacts, DisplayNumbers DEF PlacesOK,
       ControlOK, TypeOK, ControlType, Resting, Before, Draining, Finishing, Transferring
  <1>4. ASSUME NEW e \in Displays PROVE FlagsOK(e)'
    BY <1>0, <1>a, <1>b, <1>c, <1>d, <1>g, DownFacts, Typed DEF FlagsOK, PlacesOK, ControlOK,
       Defers, RendererOf, Resting, Before, Draining, Finishing, Transferring
  <1>5. ASSUME NEW e \in Displays PROVE OrderOK(e)'
    BY SMTT(30), <1>0, <1>a, <1>b, <1>c, <1>d, <1>g, DownFacts, Typed DEF OrderOK, Passed, Overlap,
       Pipelines, PlacesOK, ControlOK, Resting, Before, Draining, Finishing, Transferring
  <1>6. ASSUME NEW e \in Displays PROVE DevicesOK(e)'
    BY <1>0, <1>a, <1>b, <1>c, <1>d, <1>g, DownFacts, Typed DEF DevicesOK, Sub, PlacesOK,
       Resting, Before, Draining, Finishing, Transferring
  <1>7. ASSUME NEW e \in Displays PROVE BoundsOK(e)'
    BY <1>0, <1>a, <1>b, <1>c, <1>d, <1>g, DownFacts DEF HistoryOK, BoundsOK, ControlOK,
       Resting, Before, Draining, Finishing, Transferring
  <1>8. ASSUME NEW e \in Displays PROVE AccountedOK(e)'
    <2>1. SUFFICES ASSUME Vouched(e)' PROVE \A k \in stale'[e] : HeldStrip(e, k)' \/ ToDraw(e, k)'
      BY DEF AccountedOK
    <2>2. Vouched(e) /\ (InFrame <=> InFrame') /\ phase # "drop"
      BY <1>0, <1>f, <2>1 DEF Vouched, InFrame, Resting
    <2>3. ASSUME NEW k, HeldStrip(e, k), e = d => k # transfers[d][1].strip PROVE HeldStrip(e, k)'
      <3>1. CASE e # d
        BY <1>0, <1>c, <2>3, <3>1, HeldSame
      <3>2. CASE e = d
        <4>1. CASE pending[d] # NoWork /\ k = pending[d].strip
          BY <1>0, <3>2, <4>1 DEF HeldStrip
        <4>2. ASSUME NEW i \in 1 .. Len(transfers[d]), k = transfers[d][i].strip
              PROVE  HeldStrip(d, k)'
          <5>1. i # 1
            BY <2>3, <3>2, <4>2
          <5>2. i - 1 \in 1 .. Len(transfers'[d]) /\ transfers'[d][i - 1] = transfers[d][i]
            BY <1>d, <5>1
          <5> QED BY <4>2, <5>2 DEF HeldStrip
        <4> QED BY <1>a, <2>3, <3>2, <4>1, <4>2 DEF HeldStrip
      <3> QED BY <3>1, <3>2
    <2>4. e = d => transfers[d][1].strip \notin stale[d]
      BY <1>0, <2>2 DEF HistoryOK, DoneOK
    <2>5. \A k : ToDraw(e, k)' <=> ToDraw(e, k)
      BY <1>0, <2>2 DEF ToDraw
    <2> QED BY <1>0, <2>2, <2>3, <2>4, <2>5 DEF HistoryOK, AccountedOK
  <1>9. ASSUME NEW e \in Displays PROVE DoneOK(e)'
    BY <1>0, <1>a, <1>b, <1>c, <1>d, <1>g, DownFacts, Typed DEF HistoryOK, DoneOK, Vouched,
       InFrame, PlacesOK, ControlOK, Resting, Before, Draining, Finishing, Transferring
  <1>10. IssuedOK'
    <2>1. Doomed' <=> Doomed
      BY <1>0 DEF Doomed, Draining, Transferring
    <2>2. \A s \in issued' : Holds(s.display, s)' \/ (Doomed' /\ blamed' = RendererOf'[s.display])
      BY <1>0, <1>e, <2>1 DEF IssuedOK, TypeOK, Submissions, RendererOf
    <2>3. \A e \in Displays : \A s \in Submissions : Holds(e, s)' => s \in issued'
      BY <1>0, <1>e DEF IssuedOK
    <2> QED BY <1>0, <1>h, <2>2, <2>3 DEF IssuedOK
  <1>11. RoundsOK'
    <2>1. CASE resume = "drain"
      <3>1. Draining /\ ~Finishing /\ (Draining' /\ ~Finishing')
        BY <1>0, <2>1 DEF Draining, Finishing, Transferring
      <3> QED BY <1>0, <2>1, <3>1 DEF RoundsOK, Over, Draining
    <2>2. CASE resume # "drain"
      <3>1. Finishing /\ ~Draining' /\ pc' \in {"finish", "roundEnd"}
        BY <1>0, <2>2 DEF Draining, Finishing, Transferring, TypeOK, ControlType
      <3> QED BY <1>0, <3>1 DEF RoundsOK, Over
    <2> QED BY <2>1, <2>2
  <1> QED
    BY <1>1, <1>2, <1>3, <1>4, <1>5, <1>6, <1>7, <1>8, <1>9, <1>10, <1>11 DEF HistoryOK

(* A strip is drawn, or its renderer fails or unwinds.                      *)
LEMMA RenderStep ==
  ASSUME IInv, NoDropPanic, NEW d \in Displays, NEW outcome \in Outcomes, Render(d, outcome)
  PROVE  IInv'
  <1> USE EmptySlot DEF IInv
  <1>0. /\ pc = "render" /\ at = d
        /\ \/ outcome = "err" /\ issued' = issued /\ drawing' = drawing
           \/ /\ outcome # "err" /\ issued' = issued \cup {Sub(d, Fresh(d))}
              /\ drawing' = drawing \cup {Sub(d, Fresh(d))}
        /\ \/ /\ outcome = "ok" /\ pending' = [pending EXCEPT ![d] = Fresh(d)]
              /\ submitted' = TRUE /\ UNCHANGED <<phase, blamed, failed>>
              /\ \/ pc' = "overlay" /\ at' = at
                 \/ Up /\ pc' \in {"submit", "finish"}
           \/ /\ outcome = "err" /\ pc' = "finish" /\ at' = Last /\ failed' = TRUE
              /\ UNCHANGED <<pending, submitted, phase, blamed>>
           \/ /\ outcome = "panic" /\ pc' = "guardDrop" /\ phase' = "drop"
              /\ blamed' = RendererOf[d] /\ UNCHANGED <<at, pending, submitted, failed>>
        /\ UNCHANGED <<shape, alive, shown, nextStrip, damage, stale, moved, torn, frame, borrowed, valid, reading,
                        flushed, deferred, transfers, goal, resume, result, call>>
    BY UnwindFacts DEF Render, Fresh, Up, Goto, Outcomes, registry, locals, work, picture, counters, hardware, control
  <1>a. phase = "frame" /\ pending[d] = NoWork /\ deferred[d] = NoWork /\ ~Doomed
    BY <1>0, FreshFacts
  <1>b. /\ Fresh(d) \in Live /\ Fresh(d) # NoWork /\ Fresh(d).frame = frame
        /\ Fresh(d).strip = nextStrip[d] - 1 /\ Fresh(d).strip \in damage[d]
        /\ Fresh(d).strip < nextStrip[d] /\ Fresh(d).strip \in Strips
        /\ ~Fresh(d).waited /\ ~Fresh(d).inCall /\ ~Fresh(d).token /\ (Fresh(d).defer <=> Defers(d))
    BY <1>0, FreshFacts
  <1>c. Sub(d, Fresh(d)) \in Submissions /\ Sub(d, Fresh(d)).display = d
    BY <1>0, FreshFacts
  <1>d. \A i \in 1 .. Len(transfers[d]) :
          /\ transfers[d][i].strip < Fresh(d).strip
          /\ Sub(d, transfers[d][i]) # Sub(d, Fresh(d))
    BY <1>0, FreshFacts
  <1>e. Sub(d, Fresh(d)) \notin issued
    BY <1>0, FreshFacts
  <1>f. \A e \in Displays : e # d => pending'[e] = pending[e]
    BY <1>0 DEF TypeOK, WorkType
  <1>g. pending'[d] = (IF outcome = "ok" THEN Fresh(d) ELSE NoWork)
    BY <1>0, <1>a DEF TypeOK, WorkType
  <1>h. ASSUME NEW e \in Displays
        PROVE  /\ \A s : Holds(e, s)' <=> Holds(e, s) \/ (outcome = "ok" /\ e = d /\ s = Sub(d, Fresh(d)))
               /\ \A k : HeldStrip(e, k)' <=> HeldStrip(e, k) \/ (outcome = "ok" /\ e = d /\ k = Fresh(d).strip)
    <2>1. CASE e = d
      BY <1>0, <1>a, <1>b, <1>g, <2>1 DEF Holds, HeldStrip
    <2>2. CASE e # d
      BY <1>0, <1>f, <2>2, HeldSame
    <2> QED BY <2>1, <2>2
  <1>i. RendererOf[d] \in Renderers
    BY Bound DEF TypeOK
  <1>j. ControlType
    BY DEF TypeOK
  <1>1. TypeOK'
    <2>1. RegistryType'
      BY <1>0 DEF TypeOK, RegistryType
    <2>2. CountersType'
      BY <1>0 DEF TypeOK, CountersType
    <2>3. PictureType'
      BY <1>0 DEF TypeOK, PictureType
    <2>4. WorkType'
      BY <1>0, <1>b DEF TypeOK, WorkType, Slot
    <2>5. ControlType'
      BY <1>0, <1>i, <1>j, UpFacts, DisplayNumbers DEF TypeOK, ControlType, Places, Goals, Resting, Before
    <2>6. issued' \subseteq Submissions
      BY <1>0, <1>c DEF TypeOK
    <2> QED BY <2>1, <2>2, <2>3, <2>4, <2>5, <2>6 DEF TypeOK
  <1>2. ControlOK'
    BY <1>0, <1>1, <1>a, <1>b, <1>d, <1>f, <1>g, <1>j, UpFacts, DisplayNumbers DEF ControlOK,
       PlacesOK, NoDropPanic, Doomed, TypeOK, RegistryType, Resting, Before, Draining,
       Finishing, Transferring
  <1>3. PlacesOK'
    <2>1. /\ pc' \in {"overlay", "submit", "finish", "guardDrop"} /\ ~Draining' /\ ~Transferring'
          /\ phase' = "frame" \/ pc' = "guardDrop"
      BY <1>0, <1>a, <1>j, UpFacts DEF Draining, Transferring
    <2>2. ASSUME NEW e \in Displays, pc' # "guardDrop", e > at' PROVE pending'[e] = NoWork
      <3>1. e > at
        BY <1>0, <1>j, <2>2, UpFacts, DisplayNumbers
      <3>2. e # d /\ pending[e] = NoWork
        BY <1>0, <3>1, DisplayNumbers DEF PlacesOK
      <3> QED BY <1>f, <3>2
    <2>3. pc' = "submit" => pending'[at'] = NoWork
      <3>1. SUFFICES ASSUME pc' = "submit" PROVE pending'[at'] = NoWork
        OBVIOUS
      <3>2. at' \in Displays /\ at' > at
        BY <1>0, <1>j, <3>1, UpFacts
      <3>3. at' # d /\ pending[at'] = NoWork
        BY <1>0, <3>2, DisplayNumbers DEF PlacesOK
      <3> QED BY <1>f, <3>2, <3>3
    <2> QED BY <1>0, <2>1, <2>2, <2>3 DEF PlacesOK, Resting, Before, Finishing
  <1>4. ASSUME NEW e \in Displays PROVE FlagsOK(e)'
    BY <1>0, <1>a, <1>b, <1>d, <1>f, <1>g, <1>j, UpFacts, Typed DEF FlagsOK, PlacesOK,
       ControlOK, Defers, RendererOf, Resting, Before, Draining, Finishing, Transferring
  <1>5. ASSUME NEW e \in Displays PROVE OrderOK(e)'
    BY <1>0, <1>a, <1>b, <1>d, <1>f, <1>g, <1>j, UpFacts, Typed DEF OrderOK, Passed, Overlap,
       Pipelines, PlacesOK, ControlOK, Resting, Before, Draining, Finishing, Transferring
  <1>6. ASSUME NEW e \in Displays PROVE DevicesOK(e)'
    <2>1. pc' # "retire" /\ pc' # "retireTransfer"
      BY <1>0, <1>j, UpFacts
    <2>2. ASSUME NEW i \in 1 .. Len(transfers[e]) PROVE Sub(e, transfers[e][i]) \notin drawing'
      <3>1. Sub(e, transfers[e][i]) # Sub(d, Fresh(d))
        BY <1>d DEF Sub
      <3>2. Sub(e, transfers[e][i]) \notin drawing
        BY DEF DevicesOK
      <3> QED BY <1>0, <3>1, <3>2
    <2>3. ~pending'[e].waited
      BY <1>0, <1>a, <1>b, <1>f, <1>g DEF FlagsOK
    <2>4. pending'[e] # NoWork /\ ~pending'[e].token /\ ~pending'[e].inCall =>
            Sub(e, pending'[e]) \notin reading \cup flushed
      BY <1>e, <1>f, <1>g DEF DevicesOK, IssuedOK
    <2>5. deferred[e] # NoWork /\ ~deferred[e].token => Sub(e, deferred[e]) \notin reading \cup flushed
      BY DEF DevicesOK
    <2> QED BY <1>0, <2>1, <2>2, <2>3, <2>4, <2>5 DEF DevicesOK, Sub
  <1>7. ASSUME NEW e \in Displays PROVE BoundsOK(e)'
    BY <1>0, <1>a, <1>b, <1>d, <1>f, <1>g, <1>j, UpFacts DEF HistoryOK, BoundsOK, ControlOK,
       Resting, Before, Draining, Finishing, Transferring
  <1>8. ASSUME NEW e \in Displays PROVE AccountedOK(e)'
    <2>1. SUFFICES ASSUME Vouched(e)', pc' # "guardDrop"
                   PROVE  \A k \in stale'[e] : HeldStrip(e, k)' \/ ToDraw(e, k)'
      BY DEF AccountedOK
    <2>2. outcome = "ok" /\ InFrame /\ InFrame' /\ Vouched(e)
      BY <1>0, <1>a, <1>j, <2>1, UpFacts DEF InFrame, Vouched, Resting
    <2>3. ASSUME NEW k, ToDraw(e, k) PROVE ToDraw(e, k)' \/ (e = d /\ k = Fresh(d).strip)
      BY <1>0, <1>b, <2>2, <2>3 DEF ToDraw
    <2> QED BY <1>0, <1>h, <2>2, <2>3 DEF HistoryOK, AccountedOK
  <1>9. ASSUME NEW e \in Displays PROVE DoneOK(e)'
    BY <1>0, <1>a, <1>b, <1>d, <1>f, <1>g, <1>j, UpFacts, Typed DEF HistoryOK, DoneOK, Vouched,
       InFrame, PlacesOK, ControlOK, Resting, Before, Draining, Finishing, Transferring
  <1>10. IssuedOK'
    <2>1. \A s \in issued : Holds(s.display, s)'
      BY <1>a, <1>h DEF IssuedOK, TypeOK, Submissions
    <2>2. \A s \in issued' : Holds(s.display, s)' \/ (Doomed' /\ blamed' = RendererOf'[s.display])
      BY <1>0, <1>c, <1>h, <2>1 DEF Doomed, RendererOf
    <2>3. \A e \in Displays : \A s \in Submissions : Holds(e, s)' => s \in issued'
      BY <1>0, <1>h DEF IssuedOK
    <2> QED BY <1>0, <2>2, <2>3 DEF IssuedOK
  <1>11. RoundsOK'
    BY <1>0, <1>a, <1>b, <1>d, <1>f, <1>g, <1>j, UpFacts, DisplayNumbers DEF RoundsOK, Over,
       PlacesOK, ControlOK, Resting, Before, Draining, Finishing, Transferring
  <1> QED
    BY <1>1, <1>2, <1>3, <1>4, <1>5, <1>6, <1>7, <1>8, <1>9, <1>10, <1>11 DEF HistoryOK

(* The frame failed: histories are lost and what was kept is completed.     *)
LEMMA GuardDropStep ==
  ASSUME IInv, NoDropPanic, GuardDrop
  PROVE  IInv'
  <1> USE EmptySlot DEF IInv
  <1>0. /\ pc = "guardDrop" /\ at' = Last /\ valid' = Nowhere
        /\ pending' = [e \in Displays |-> Held(e)] /\ deferred' = [e \in Displays |-> NoWork]
        /\ \/ blamed # NoRenderer /\ pc' = "drain" /\ goal' = "destroy"
           \/ blamed = NoRenderer /\ pc' = "finish" /\ goal' = goal
        /\ UNCHANGED <<shape, alive, shown, nextStrip, damage, stale, moved, torn, frame, borrowed, issued, drawing,
                        reading, flushed, transfers, resume, submitted, failed, panicking,
                        blamed, result, call, phase>>
    BY DEF GuardDrop, TakeDeferred, registry, locals, work, picture, counters, hardware, control
  <1>a. \A e \in Displays :
          /\ deferred'[e] = NoWork
          /\ deferred[e] # NoWork => pending'[e] = deferred[e]
          /\ deferred[e] = NoWork => pending'[e] = pending[e]
    BY <1>0 DEF Held
  <1>b. phase = "drop"
    BY <1>0 DEF ControlOK
  <1>c. \A e \in Displays : \A s : Holds(e, s)' <=> Holds(e, s)
    <2>1. ASSUME NEW e \in Displays PROVE \A s : Holds(e, s)' <=> Holds(e, s)
      <3>1. CASE deferred[e] = NoWork
        BY <1>0, <1>a, <3>1, HeldSame
      <3>2. CASE deferred[e] # NoWork
        <4>1. pending[e] = NoWork /\ transfers[e] \in Seq(Live)
          BY <3>2, Typed DEF OrderOK
        <4> QED BY <1>0, <1>a, <3>2, <4>1, HeldMoved
      <3> QED BY <3>1, <3>2
    <2> QED BY <2>1
  <1>d. \A e \in Displays : ~valid'[e]
    BY <1>0, NowhereFacts
  <1>1. TypeOK'
    <2>1. RegistryType'
      BY <1>0 DEF TypeOK, RegistryType
    <2>2. CountersType'
      BY <1>0, NowhereFacts DEF TypeOK, CountersType
    <2>3. PictureType'
      BY <1>0 DEF TypeOK, PictureType
    <2>4. WorkType'
      <3>1. pending' \in [Displays -> Slot]
        BY <1>0 DEF Held, TypeOK, WorkType
      <3> QED BY <1>0, <3>1 DEF TypeOK, WorkType, Slot
    <2>5. ControlType'
      BY <1>0, DisplayNumbers DEF TypeOK, ControlType, Places, Goals, Resting, Before
    <2>6. issued' \subseteq Submissions
      BY <1>0 DEF TypeOK
    <2> QED BY <2>1, <2>2, <2>3, <2>4, <2>5, <2>6 DEF TypeOK
  <1>2. ControlOK'
    BY <1>0, <1>1, <1>a, <1>b, <1>d, DisplayNumbers DEF ControlOK, PlacesOK, NoDropPanic,
       Doomed, TypeOK, RegistryType, Resting, Before, Draining, Finishing, Transferring
  <1>3. PlacesOK'
    BY <1>0, <1>1, <1>a, <1>b, <1>d, DisplayNumbers DEF PlacesOK, ControlOK, TypeOK,
       ControlType, Resting, Before, Draining, Finishing, Transferring
  <1>4. ASSUME NEW e \in Displays PROVE FlagsOK(e)'
    BY <1>0, <1>a, <1>b, <1>d, Typed DEF FlagsOK, PlacesOK, ControlOK, Defers, RendererOf,
       Resting, Before, Draining, Finishing, Transferring
  <1>5. ASSUME NEW e \in Displays PROVE OrderOK(e)'
    BY <1>0, <1>a, <1>b, <1>d, Typed DEF OrderOK, Passed, Overlap, Pipelines, PlacesOK,
       ControlOK, Resting, Before, Draining, Finishing, Transferring
  <1>6. ASSUME NEW e \in Displays PROVE DevicesOK(e)'
    <2>1. pending'[e] = pending[e] \/ (pending'[e] = deferred[e] /\ deferred[e] # NoWork)
      BY <1>a
    <2>2. pending'[e].waited => Sub(e, pending'[e]) \notin drawing
      BY <2>1 DEF DevicesOK, FlagsOK
    <2>3. pending'[e] # NoWork /\ ~pending'[e].token /\ ~pending'[e].inCall =>
            Sub(e, pending'[e]) \notin reading \cup flushed
      BY <2>1 DEF DevicesOK
    <2>4. \A i \in 1 .. Len(transfers[e]) : Sub(e, transfers[e][i]) \notin drawing
      BY DEF DevicesOK
    <2>5. pc' # "retire" /\ pc' # "retireTransfer" /\ deferred'[e] = NoWork
      BY <1>0, <1>a
    <2> QED BY <1>0, <2>2, <2>3, <2>4, <2>5 DEF DevicesOK, Sub
  <1>7. ASSUME NEW e \in Displays PROVE BoundsOK(e)'
    BY <1>0, <1>a, <1>b, <1>d DEF HistoryOK, BoundsOK, ControlOK, Resting, Before, Draining,
       Finishing, Transferring
  <1>8. ASSUME NEW e \in Displays PROVE AccountedOK(e)'
    BY <1>0, <1>a, <1>b, <1>d, Typed DEF HistoryOK, BoundsOK, AccountedOK, Vouched, InFrame,
       HeldStrip, ToDraw, PlacesOK, ControlOK, Resting, Before, Draining, Finishing,
       Transferring
  <1>9. ASSUME NEW e \in Displays PROVE DoneOK(e)'
    BY <1>0, <1>a, <1>b, <1>d, Typed DEF HistoryOK, DoneOK, Vouched, InFrame, PlacesOK,
       ControlOK, Resting, Before, Draining, Finishing, Transferring
  <1>10. IssuedOK'
    <2>1. \A s \in issued' : Holds(s.display, s)' \/ (Doomed' /\ blamed' = RendererOf'[s.display])
      BY <1>0, <1>c, Bound DEF IssuedOK, TypeOK, Submissions, Doomed, Draining, RendererOf
    <2>2. \A e \in Displays : \A s \in Submissions : Holds(e, s)' => s \in issued'
      BY <1>0, <1>c DEF IssuedOK
    <2> QED BY <1>0, <2>1, <2>2 DEF IssuedOK
  <1>11. RoundsOK'
    BY <1>0, <1>a, <1>b, <1>d, DisplayNumbers DEF RoundsOK, Over, PlacesOK, ControlOK, Resting,
       Before, Draining, Finishing, Transferring
  <1> QED
    BY <1>1, <1>2, <1>3, <1>4, <1>5, <1>6, <1>7, <1>8, <1>9, <1>10, <1>11 DEF HistoryOK

(* The renderer that unwound is destroyed, with the displays bound to it.   *)
LEMMA DestroyStep ==
  ASSUME IInv, NoDropPanic, Destroy
  PROVE  IInv'
  <1> USE EmptySlot DEF IInv
  <1>0. /\ pc = "destroy" /\ pc' = "finish" /\ at' = Last
        /\ alive' = alive \ {blamed} /\ shown' \subseteq shown
        /\ pending' = [e \in Displays |-> IF RendererOf[e] = blamed THEN NoWork ELSE pending[e]]
        /\ issued' = {s \in issued : ~(s.display \in Displays /\ RendererOf[s.display] = blamed)}
        /\ drawing' = {s \in drawing : ~(s.display \in Displays /\ RendererOf[s.display] = blamed)}
        /\ reading' = {s \in reading : ~(s.display \in Displays /\ RendererOf[s.display] = blamed)}
        /\ flushed' = {s \in flushed : ~(s.display \in Displays /\ RendererOf[s.display] = blamed)}
        /\ UNCHANGED <<shape, nextStrip, damage, stale, moved, torn, frame, borrowed, valid, deferred, transfers, goal,
                        resume, submitted, failed, panicking, blamed, result, call, phase>>
    BY DEF Destroy, Without, Goto, registry, locals, work, picture, counters, hardware, control
  <1>a. phase = "drop"
    BY <1>0 DEF ControlOK
  <1>b. \A e \in Displays : transfers[e] = <<>> /\ deferred[e] = NoWork
    BY <1>0, <1>a DEF PlacesOK, Resting
  <1>c. \A e \in Displays : /\ RendererOf[e] = blamed => pending'[e] = NoWork
                            /\ RendererOf[e] # blamed => pending'[e] = pending[e]
    BY <1>0
  <1>d. \A e \in Displays : \A s : Holds(e, s)' <=> Holds(e, s) /\ RendererOf[e] # blamed
    BY <1>0, <1>b, <1>c DEF Holds, Sub
  <1>e. \A e \in Displays : ~valid[e]
    BY <1>0, <1>a DEF HistoryOK, BoundsOK
  <1>f. \A s \in Submissions : s.display \in Displays
    BY DEF Submissions
  <1>1. TypeOK'
    <2>1. RegistryType'
      BY <1>0 DEF TypeOK, RegistryType
    <2>2. CountersType'
      BY <1>0 DEF TypeOK, CountersType
    <2>3. PictureType'
      BY <1>0 DEF TypeOK, PictureType
    <2>4. WorkType'
      <3>1. pending' \in [Displays -> Slot]
        BY <1>0 DEF TypeOK, WorkType, Slot
      <3> QED BY <1>0, <3>1 DEF TypeOK, WorkType
    <2>5. ControlType'
      BY <1>0, DisplayNumbers DEF TypeOK, ControlType, Places, Goals, Resting, Before
    <2>6. issued' \subseteq Submissions
      BY <1>0 DEF TypeOK
    <2> QED BY <2>1, <2>2, <2>3, <2>4, <2>5, <2>6 DEF TypeOK
  <1>2. ControlOK'
    BY <1>0, <1>1, <1>a, <1>b, <1>c, <1>e, DisplayNumbers DEF ControlOK, PlacesOK, NoDropPanic,
       Doomed, TypeOK, RegistryType, Resting, Before, Draining, Finishing, Transferring
  <1>3. PlacesOK'
    BY <1>0, <1>1, <1>a, <1>b, <1>c, <1>e, DisplayNumbers DEF PlacesOK, ControlOK, TypeOK,
       ControlType, Resting, Before, Draining, Finishing, Transferring
  <1>4. ASSUME NEW e \in Displays PROVE FlagsOK(e)'
    BY <1>0, <1>a, <1>b, <1>c, <1>e, Typed DEF FlagsOK, PlacesOK, ControlOK, Defers, RendererOf,
       Resting, Before, Draining, Finishing, Transferring
  <1>5. ASSUME NEW e \in Displays PROVE OrderOK(e)'
    BY <1>0, <1>a, <1>b, <1>c, <1>e, Typed DEF OrderOK, Passed, Overlap, Pipelines, PlacesOK,
       ControlOK, Resting, Before, Draining, Finishing, Transferring
  <1>6. ASSUME NEW e \in Displays PROVE DevicesOK(e)'
    BY <1>0, <1>a, <1>b, <1>c, <1>e, Typed DEF DevicesOK, Sub, PlacesOK, Resting, Before,
       Draining, Finishing, Transferring
  <1>7. ASSUME NEW e \in Displays PROVE BoundsOK(e)'
    BY <1>0, <1>a, <1>b, <1>c, <1>e DEF HistoryOK, BoundsOK, ControlOK, Resting, Before,
       Draining, Finishing, Transferring
  <1>8. ASSUME NEW e \in Displays PROVE AccountedOK(e)'
    BY <1>0, <1>a, <1>b, <1>c, <1>e, Typed DEF HistoryOK, BoundsOK, AccountedOK, Vouched,
       InFrame, HeldStrip, ToDraw, PlacesOK, ControlOK, Resting, Before, Draining, Finishing,
       Transferring
  <1>9. ASSUME NEW e \in Displays PROVE DoneOK(e)'
    BY <1>0, <1>a, <1>b, <1>c, <1>e, Typed DEF HistoryOK, DoneOK, Vouched, InFrame, PlacesOK,
       ControlOK, Resting, Before, Draining, Finishing, Transferring
  <1>10. IssuedOK'
    <2>1. \A s \in issued' : Holds(s.display, s)'
      BY <1>0, <1>d, <1>f DEF IssuedOK, TypeOK
    <2>2. ASSUME NEW e \in Displays, NEW s \in Submissions, Holds(e, s)' PROVE s \in issued'
      <3>1. Holds(e, s) /\ RendererOf[e] # blamed
        BY <1>d, <2>2
      <3>2. s.display = e /\ s \in issued
        BY <3>1, HeldIs DEF IssuedOK
      <3> QED BY <1>0, <3>1, <3>2
    <2>3. drawing' \subseteq issued' /\ reading' \subseteq issued' /\ flushed' \subseteq issued'
      BY <1>0 DEF IssuedOK
    <2> QED BY <2>1, <2>2, <2>3 DEF IssuedOK
  <1>11. RoundsOK'
    BY <1>0, <1>a, <1>b, <1>c, <1>e, DisplayNumbers DEF RoundsOK, Over, PlacesOK, ControlOK,
       Resting, Before, Draining, Finishing, Transferring
  <1> QED
    BY <1>1, <1>2, <1>3, <1>4, <1>5, <1>6, <1>7, <1>8, <1>9, <1>10, <1>11 DEF HistoryOK

(* The steps together, and what follows.                                    *)

LEMMA NextInv ==
  ASSUME IInv, NoDropPanic, [Next]_vars
  PROVE  IInv'
  <1>1. CASE Gone \/ UNCHANGED vars
    <2>1. /\ UNCHANGED <<shape, alive, shown, frame, borrowed, valid, nextStrip, damage, stale, moved, torn>>
          /\ UNCHANGED <<pending, deferred, transfers, issued, drawing, reading, flushed>>
          /\ UNCHANGED <<call, pc, phase, at, goal, resume, submitted, failed, panicking, blamed, result>>
      BY <1>1 DEF Gone, vars, registry, locals, work, picture, counters, hardware, control
    <2>2. TypeOK'
      BY <2>1 DEF IInv, TypeOK, RegistryType, CountersType, PictureType, WorkType, ControlType
    <2>3. ControlOK' /\ PlacesOK' /\ RoundsOK'
      BY <2>1 DEF IInv, ControlOK, PlacesOK, RoundsOK, Over, Doomed, Draining, Finishing, Transferring
    <2>4. IssuedOK'
      BY <2>1 DEF IInv, IssuedOK, Holds, Doomed, Draining, Transferring, RendererOf
    <2>5. ASSUME NEW d \in Displays PROVE FlagsOK(d)' /\ DevicesOK(d)' /\ HistoryOK(d)'
      BY <2>1 DEF IInv, FlagsOK, DevicesOK, HistoryOK, BoundsOK, AccountedOK, DoneOK, Vouched,
         InFrame, HeldStrip, ToDraw, Defers, RendererOf
    <2>6. ASSUME NEW d \in Displays PROVE OrderOK(d)'
      BY <2>1 DEF IInv, OrderOK, Passed, Overlap, Pipelines, Finishing, Transferring
    <2> QED BY <2>2, <2>3, <2>4, <2>5, <2>6 DEF IInv
  <1>2. CASE \E kind \in Calls : Start(kind)
    BY <1>2, StartStep
  <1>3. CASE \/ Completed \/ Configure \/ ConfigureRejected \/ Begin \/ BeginRejected
             \/ \E outcome \in {"err", "panic"}, motion \in SUBSET Strips : PrepareFails(outcome, motion)
             \/ \E d \in Displays : \E region, motion \in SUBSET Strips : Prepare(d, region, motion)
    BY <1>3, CompletedStep, ConfigureStep, ConfigureRejectedStep, BeginStep, BeginRejectedStep,
       PrepareFailsStep, PrepareStep
  <1>4. CASE \E d \in Displays :
               Pass(d) \/ \E outcome \in Outcomes :
                            Acquire(d, outcome) \/ Render(d, outcome) \/ Overlay(d, outcome)
    BY <1>4, PassStep, AcquireStep, RenderStep, OverlayStep
  <1>5. CASE \/ FinishNothing \/ WaitedBefore \/ RoundEnd
             \/ \E d \in Displays :
                  \/ Keep(d) \/ DropDisplay(d) \/ Transfer(d) \/ Retire(d)
                  \/ \E outcome \in Outcomes :
                       QueueFlush(d, outcome) \/ RenderWait(d, outcome) \/ Flush(d, outcome)
    BY <1>5, FinishNothingStep, WaitedBeforeStep, RoundEndStep, KeepStep, DropDisplayStep,
       TransferStep, RetireStep, QueueFlushStep, RenderWaitStep, FlushStep
  <1>6. CASE \/ Drain \/ Commit \/ CommitFails \/ GuardDrop \/ Destroy \/ GuardReturn
             \/ \E d \in Displays :
                  \/ TransferStopped(d) \/ RetireTransfer(d)
                  \/ \E outcome \in Outcomes : TransferWait(d, outcome)
    BY <1>6, DrainStep, CommitStep, CommitFailsStep, GuardDropStep, DestroyStep, GuardReturnStep,
       TransferStoppedStep, RetireTransferStep, TransferWaitStep
  <1> QED BY <1>1, <1>2, <1>3, <1>4, <1>5, <1>6 DEF Next, Step

(* In every call of present, complete, set_scale, refresh_displays and drop, *)
(* whatever the drivers answer, each submission is where IInv says.         *)
THEOREM Inductive ==
  ASSUME NoDropPanic
  PROVE  Spec => []IInv
  <1>1. Init => IInv
    BY InitInv
  <1>2. IInv /\ [Next]_vars => IInv'
    BY NextInv
  <1> QED BY <1>1, <1>2, PTL DEF Spec

(* What HeldBy collects.                                                    *)
LEMMA HeldByHolds ==
  ASSUME NEW d
  PROVE  \A s : s \in HeldBy(d) <=> Holds(d, s)
  BY DEF HeldBy, Holds

(* Nothing is forgotten: a submission is held until it is retired or its    *)
(* renderer is destroyed.                                                   *)
THEOREM Remembered ==
  ASSUME NoDropPanic
  PROVE  Spec => []NothingForgotten
  <1>1. IInv => NothingForgotten
    <2> SUFFICES ASSUME IInv PROVE NothingForgotten
      OBVIOUS
    <2>1. \A d \in Displays : HeldBy(d) \subseteq issued
      BY HeldByHolds, HeldIs DEF IInv, IssuedOK
    <2>2. ASSUME blamed = NoRenderer, NEW s \in issued PROVE s \in UNION {HeldBy(d) : d \in Displays}
      <3>1. s.display \in Displays
        BY DEF IInv, TypeOK, Submissions
      <3>2. Holds(s.display, s)
        BY <2>2, <3>1, Bound DEF IInv, TypeOK, IssuedOK
      <3> QED BY <3>1, <3>2, HeldByHolds
    <2> QED BY <2>1, <2>2 DEF NothingForgotten
  <1> QED BY <1>1, Inductive, PTL

(* Between calls what is issued is what was deferred.                       *)
LEMMA RestingHolds ==
  ASSUME IInv, pc = "caller"
  PROVE  /\ ~Doomed
         /\ \A d \in Displays : \A s : Holds(d, s) <=> deferred[d] # NoWork /\ s = Sub(d, deferred[d])
         /\ \A s \in issued : /\ s.display \in Displays /\ deferred[s.display] # NoWork
                              /\ s = Sub(s.display, deferred[s.display])
         /\ \A d \in Displays : deferred[d] # NoWork =>
              /\ Sub(d, deferred[d]) \in issued /\ deferred[d].frame = frame /\ Defers(d)
              /\ result = "ok" /\ borrowed = frame
  <1> USE DEF IInv
  <1>1. ~Doomed
    BY DEF Doomed, Draining, Transferring
  <1>2. \A d \in Displays : pending[d] = NoWork /\ transfers[d] = <<>>
    BY DEF PlacesOK, Resting
  <1>3. \A d \in Displays : \A s : Holds(d, s) <=> deferred[d] # NoWork /\ s = Sub(d, deferred[d])
    BY <1>2, EmptySlot DEF Holds
  <1>4. \A s \in issued : s.display \in Displays /\ Holds(s.display, s)
    BY <1>1 DEF TypeOK, Submissions, IssuedOK
  <1>5. ASSUME NEW d \in Displays, deferred[d] # NoWork
        PROVE  /\ Sub(d, deferred[d]) \in issued /\ deferred[d].frame = frame /\ Defers(d)
               /\ result = "ok" /\ borrowed = frame
    <2>1. Holds(d, Sub(d, deferred[d]))
      BY <1>5 DEF Holds
    <2> QED BY <1>5, <2>1, HeldIs DEF IssuedOK, OrderOK, Passed, FlagsOK, PlacesOK, Resting
  <1> QED BY <1>1, <1>3, <1>4, <1>5

(* Any failure leaves no work in flight, and a success only the Deferred    *)
(* submissions of its frame.                                                *)
THEOREM RestIsQuiet ==
  ASSUME NoDropPanic
  PROVE  Spec => []AtRest
  <1>1. IInv => AtRest
    <2> SUFFICES ASSUME IInv, pc = "caller"
                 PROVE  /\ issued \cup drawing \cup reading \subseteq
                             {Sub(d, deferred[d]) : d \in {e \in Displays : deferred[e] # NoWork}}
                        /\ \A d \in Displays : deferred[d] # NoWork => deferred[d].frame = frame /\ Defers(d)
                        /\ result # "ok" => issued \cup drawing \cup reading = {}
      BY DEF AtRest
    <2>1. issued \cup drawing \cup reading = issued
      BY DEF IInv, IssuedOK
    <2> QED BY <2>1, RestingHolds
  <1> QED BY <1>1, Inductive, PTL

(* A valid history is honest: a strip that differs from the committed frame *)
(* is still in flight, unless a display had moved it for a frame whose      *)
(* preparation unwound.                                                     *)
THEOREM HistoryIsHonest ==
  ASSUME NoDropPanic
  PROVE  Spec => []HistoryHonest
  <1>1. IInv => HistoryHonest
    <2> SUFFICES ASSUME IInv, pc = "caller", NEW d \in Displays, valid[d], NEW k \in stale[d]
                 PROVE  k \in Underway(d)
      BY DEF HistoryHonest
    <2>1. HeldStrip(d, k) /\ pending[d] = NoWork /\ transfers[d] = <<>>
      BY DEF IInv, HistoryOK, AccountedOK, Vouched, InFrame, ToDraw, Resting, PlacesOK
    <2>2. deferred[d] # NoWork /\ k = deferred[d].strip
      BY <2>1, EmptySlot DEF HeldStrip
    <2>3. Sub(d, deferred[d]) \in issued
      BY <2>2, RestingHolds
    <2> QED BY <2>2, <2>3 DEF Sub, Underway
  <1> QED BY <1>1, Inductive, PTL

(* Pixels are torn only where a display moves them and a call unwinds.      *)
Orderly == Moving = {} \/ "panic" \notin Env
Untorn ==
  /\ Moving = {} => moved = Nothing
  /\ Orderly => torn = Nothing

LEMMA UntornInv ==
  ASSUME Untorn, IInv, [Next]_vars
  PROVE  Untorn'
  <1> USE DEF IInv
  <1>1. ASSUME NEW d \in Displays, NEW region, NEW motion, Prepare(d, region, motion)
        PROVE  Untorn'
    <2>1. Moving = {} => motion = {}
      BY <1>1 DEF Prepare, Motions
    <2>2. Moving = {} => moved' = Nothing
      BY <1>1, <2>1 DEF Prepare, Untorn, Nothing
    <2>3. torn = Nothing => torn' = Nothing
      BY <1>1 DEF Prepare, Nothing
    <2> QED BY <2>2, <2>3 DEF Untorn
  <1>2. ASSUME NEW outcome, NEW motion, PrepareFails(outcome, motion)
        PROVE  Untorn'
    <2> DEFINE touched == [moved EXCEPT ![at] = motion]
    <2>1. moved' = Nothing
      BY <1>2 DEF PrepareFails
    <2>2. "panic" \notin Env => torn' = torn
      BY <1>2 DEF PrepareFails
    <2>3. ASSUME Moving = {} PROVE torn' = torn
      <3>1. moved = Nothing /\ motion = {}
        BY <1>2, <2>3 DEF PrepareFails, Motions, Untorn
      <3>2. \A d \in Displays : touched[d] = {}
        BY <3>1 DEF Nothing
      <3>3. torn \in [Displays -> SUBSET Strips]
        BY DEF TypeOK, PictureType
      <3>4. torn' = torn \/ torn' = [d \in Displays |-> torn[d] \cup touched[d]]
        BY <1>2 DEF PrepareFails
      <3> HIDE DEF touched
      <3> QED BY <3>2, <3>3, <3>4
    <2> QED BY <2>1, <2>2, <2>3 DEF Untorn, Orderly
  <1>3. ASSUME NEW d \in Displays, NEW outcome, TransferWait(d, outcome)
        PROVE  Untorn'
    <2>1. moved' = moved /\ (torn' = torn \/ torn' = [torn EXCEPT ![d] = @ \ {Head(transfers[d]).strip}])
      BY <1>3 DEF TransferWait
    <2>2. torn = Nothing => torn' = Nothing
      BY <2>1 DEF Nothing
    <2> QED BY <2>1, <2>2 DEF Untorn
  <1>4. ASSUME Configure PROVE Untorn'
    BY <1>4 DEF Configure, Untorn
  <1>5. ASSUME UNCHANGED <<moved, torn>> PROVE Untorn'
    BY <1>5 DEF Untorn
  <1>6. CASE \/ \E kind \in Calls : Start(kind)
             \/ Completed \/ ConfigureRejected \/ Begin \/ BeginRejected \/ FinishNothing
             \/ WaitedBefore \/ RoundEnd \/ Drain \/ Commit \/ CommitFails \/ GuardDrop
             \/ Destroy \/ GuardReturn \/ Gone \/ UNCHANGED vars
    BY <1>5, <1>6 DEF Start, Completed, ConfigureRejected, Begin, BeginRejected, FinishNothing,
       WaitedBefore, RoundEnd, Drain, Commit, CommitFails, GuardDrop, Destroy, GuardReturn, Gone,
       vars, picture
  <1>7. CASE \E d \in Displays :
               \/ Pass(d) \/ Keep(d) \/ DropDisplay(d) \/ Transfer(d) \/ Retire(d)
               \/ TransferStopped(d) \/ RetireTransfer(d)
               \/ \E outcome \in Outcomes :
                    \/ Acquire(d, outcome) \/ Render(d, outcome) \/ Overlay(d, outcome)
                    \/ QueueFlush(d, outcome) \/ RenderWait(d, outcome) \/ Flush(d, outcome)
    BY <1>5, <1>7 DEF Pass, Keep, DropDisplay, Transfer, Retire, TransferStopped, RetireTransfer,
       Acquire, Render, Overlay, QueueFlush, RenderWait, Flush, picture
  <1> QED BY <1>1, <1>2, <1>3, <1>4, <1>6, <1>7 DEF Next, Step

(* "A DamageTracker snapshots the DrawList whose pixels currently live in   *)
(* one persistent render target" (engine/render/src/damage.rs): where no    *)
(* display moves pixels, or no call unwinds, a valid history is that of     *)
(* what the display shows, for an error after a move invalidates it.        *)
HistoryShown ==
  pc = "caller" => \A d \in Displays : valid[d] => stale[d] \cup torn[d] \subseteq Underway(d)

THEOREM HistoryIsShown ==
  ASSUME NoDropPanic, Orderly
  PROVE  Spec => []HistoryShown
  <1>1. Init => Untorn
    BY DEF Init, Untorn
  <1>2. Untorn /\ IInv /\ [Next]_vars => Untorn'
    BY UntornInv
  <1>3. Untorn /\ HistoryHonest => HistoryShown
    BY DEF Untorn, Nothing, HistoryHonest, HistoryShown
  <1> QED BY <1>1, <1>2, <1>3, Inductive, HistoryIsHonest, PTL DEF Spec

(* The caller is told of every texture a renderer may still read, and of no *)
(* frame retired that is not.                                               *)
THEOREM BorrowsAreReported ==
  ASSUME NoDropPanic
  PROVE  Spec => []BorrowsReported
  <1>1. IInv => BorrowsReported
    <2> SUFFICES ASSUME IInv, pc = "caller"
                 PROVE  /\ \A s \in drawing : RendererOf[s.display] \in ZeroCopy =>
                             s.frame \in BorrowedTextures /\ borrowed = s.frame
                        /\ \A s \in issued : s.frame > RetiredFrame
      BY DEF BorrowsReported
    <2>1. ASSUME NEW s \in drawing, RendererOf[s.display] \in ZeroCopy
          PROVE  s.frame \in BorrowedTextures /\ borrowed = s.frame
      <3>1. /\ s.display \in Displays /\ deferred[s.display] # NoWork
            /\ s = Sub(s.display, deferred[s.display])
        BY RestingHolds DEF IInv, IssuedOK
      <3>2. s.frame = deferred[s.display].frame /\ borrowed = s.frame
        <4>1. s.frame = deferred[s.display].frame
          BY <3>1 DEF Sub
        <4> QED BY <3>1, <4>1, RestingHolds
      <3> QED BY <2>1, <3>1, <3>2 DEF BorrowedTextures
    <2>2. ASSUME NEW s \in issued PROVE s.frame > RetiredFrame
      <3> DEFINE InFlight == {deferred[d].frame : d \in {e \in Displays : deferred[e] # NoWork}}
      <3>1. InFlight = {frame} /\ s.frame = frame /\ frame \in Nat
        <4>1. /\ s.display \in Displays /\ deferred[s.display] # NoWork
              /\ s = Sub(s.display, deferred[s.display])
          BY RestingHolds
        <4>2. s.frame = deferred[s.display].frame
          BY <4>1 DEF Sub
        <4>3. \A d \in Displays : deferred[d] # NoWork => deferred[d].frame = frame
          BY RestingHolds
        <4>4. frame \in Nat
          BY BoundsAssumption DEF IInv, TypeOK, CountersType
        <4> QED BY <4>1, <4>2, <4>3, <4>4
      <3>2. RetiredFrame = (CHOOSE f \in InFlight : \A g \in InFlight : f <= g) - 1
        BY <3>1 DEF RetiredFrame
      <3>3. (CHOOSE f \in InFlight : \A g \in InFlight : f <= g) = frame
        BY <3>1
      <3> QED BY <3>1, <3>2, <3>3
    <2> QED BY <2>1, <2>2
  <1> QED BY <1>1, Inductive, PTL

(* The renderer whose render or wait unwound is destroyed before the caller *)
(* sees the panic.                                                          *)
THEOREM UnwoundIsDestroyed ==
  ASSUME NoDropPanic
  PROVE  Spec => []UnwoundDestroyed
  <1>1. IInv => UnwoundDestroyed
    BY RestingHolds DEF IInv, ControlOK, UnwoundDestroyed
  <1> QED BY <1>1, Inductive, PTL

-----------------------------------------------------------------------------
(* Coordinator implements FrameContract: each step is one of the contract's, *)
(* or leaves the hardware as it is.                                         *)

(* Calls that tell no driver anything about a submission.                   *)
LEMMA QuietSteps ==
  ASSUME \/ \E kind \in Calls : Start(kind)
         \/ Completed \/ ConfigureRejected \/ Begin \/ BeginRejected \/ FinishNothing \/ WaitedBefore
         \/ RoundEnd \/ Drain \/ Commit \/ CommitFails \/ GuardDrop \/ GuardReturn
         \/ \E outcome \in {"err", "panic"}, motion \in SUBSET Strips : PrepareFails(outcome, motion)
         \/ \E d \in Displays :
              \/ \E region, motion \in SUBSET Strips : Prepare(d, region, motion)
              \/ Pass(d) \/ Keep(d) \/ Transfer(d)
              \/ \E outcome \in Outcomes : Acquire(d, outcome) \/ Overlay(d, outcome)
         \/ Gone \/ UNCHANGED vars
  PROVE  UNCHANGED Contract!vars
  BY DEF Start, Completed, ConfigureRejected, Begin, BeginRejected, FinishNothing, WaitedBefore,
     RoundEnd, Drain, Commit, CommitFails, GuardDrop, GuardReturn, PrepareFails, Prepare, Pass, Keep,
     Transfer, Acquire, Overlay, Gone, vars, registry, hardware, Contract!vars

(* What a display works on is issued.                                       *)
LEMMA PendingIssued ==
  ASSUME IInv, NEW d \in Displays, pending[d] # NoWork
  PROVE  Sub(d, pending[d]) \in Submissions /\ Sub(d, pending[d]) \in issued
         /\ Sub(d, pending[d]).display = d
  <1>1. Holds(d, Sub(d, pending[d]))
    BY DEF Holds
  <1> QED BY <1>1, HeldIs DEF IInv, IssuedOK

LEMMA OldestIssued ==
  ASSUME IInv, NEW d \in Displays, Transferring, at = d
  PROVE  /\ Head(transfers[d]) = transfers[d][1] /\ 1 \in 1 .. Len(transfers[d])
         /\ Sub(d, transfers[d][1]) \in Submissions /\ Sub(d, transfers[d][1]) \in issued
         /\ Sub(d, transfers[d][1]).display = d
  <1>1. transfers[d] \in Seq(Live) /\ transfers[d] # <<>>
    BY Typed DEF IInv, PlacesOK
  <1>2. Head(transfers[d]) = transfers[d][1] /\ 1 \in 1 .. Len(transfers[d])
    BY <1>1
  <1>3. Holds(d, Sub(d, transfers[d][1]))
    BY <1>2 DEF Holds
  <1> QED BY <1>2, <1>3, HeldIs DEF IInv, IssuedOK

(* A render submits: nothing else is drawn on its display, and no more than *)
(* the overlapped transfer runs.                                            *)
LEMMA RenderSubmits ==
  ASSUME IInv, NoDropPanic, NEW d \in Displays, NEW outcome \in Outcomes, Render(d, outcome)
  PROVE  Contract!Submit(Sub(d, Fresh(d))) \/ UNCHANGED Contract!vars
  <1> DEFINE s == Sub(d, Fresh(d))
  <1>0. /\ pc = "render" /\ at = d /\ UNCHANGED <<shape, reading, flushed>>
        /\ \/ UNCHANGED <<issued, drawing>>
           \/ issued' = issued \cup {s} /\ drawing' = drawing \cup {s}
    BY DEF Render, Fresh, registry
  <1>1. s.display = d /\ s \notin issued /\ ~Doomed /\ pending[d] = NoWork /\ deferred[d] = NoWork
        /\ phase = "frame"
    BY <1>0, FreshFacts
  <1>2. \A t \in Contract!Of(d) : \E i \in 1 .. Len(transfers[d]) : t = Sub(d, transfers[d][i])
    BY <1>1 DEF Contract!Of, IInv, IssuedOK, Holds
  <1>3. Contract!Of(d) \cap drawing = {}
    BY <1>2 DEF IInv, DevicesOK
  <1>4. Len(transfers[d]) \in Nat /\ Len(transfers[d]) <= Overlap(d)
    <2>1. ~Transferring /\ Overlap(d) \in Nat
      BY <1>0 DEF Transferring, Overlap
    <2>2. Len(transfers[d]) <= Overlap(d) + 0
      BY <1>1, <2>1 DEF IInv, OrderOK
    <2> QED BY <2>1, <2>2, Typed DEF IInv
  <1>5. Overlap(d) = Contract!Overlap(d) /\ Overlap(d) \in {0, 1}
    BY DEF Overlap, Pipelines, Contract!Overlap
  <1>6. Cardinality(Contract!Of(d)) <= Overlap(d)
    <2>1. CASE Len(transfers[d]) = 0
      <3>1. Contract!Of(d) = {}
        BY <1>2, <2>1
      <3> QED BY <1>5, <3>1, FS_EmptySet
    <2>2. CASE Len(transfers[d]) = 1 /\ Overlap(d) = 1
      <3>1. Contract!Of(d) = {} \/ Contract!Of(d) = {Sub(d, transfers[d][1])}
        BY <1>2, <2>2
      <3>2. Cardinality({}) = 0 /\ Cardinality({Sub(d, transfers[d][1])}) = 1
        BY FS_EmptySet, FS_Singleton
      <3> QED BY <2>2, <3>1, <3>2
    <2>3. Len(transfers[d]) = 0 \/ (Len(transfers[d]) = 1 /\ Overlap(d) = 1)
      <3>1. \A length \in Nat, most \in {0, 1} :
              length <= most => length = 0 \/ (length = 1 /\ most = 1)
        OBVIOUS
      <3>2. Len(transfers[d]) \in Nat /\ Overlap(d) \in {0, 1} /\ Len(transfers[d]) <= Overlap(d)
        BY Zenon, <1>4, <1>5
      <3> QED BY Zenon, <3>1, <3>2
    <2> QED BY <2>1, <2>2, <2>3
  <1>7. CASE UNCHANGED <<issued, drawing>>
    BY <1>0, <1>7 DEF Contract!vars
  <1>8. CASE issued' = issued \cup {s} /\ drawing' = drawing \cup {s}
    <2>1. Contract!Of(s.display) \cap drawing = {}
      BY <1>1, <1>3
    <2>2. Cardinality(Contract!Of(s.display)) <= Contract!Overlap(s.display)
      BY <1>1, <1>5, <1>6
    <2>3. UNCHANGED <<shape, reading, flushed>>
      BY <1>0
    <2>4. Contract!Cardinality(Contract!Of(s.display)) = Cardinality(Contract!Of(s.display))
      BY Zenon DEF Cardinality, Contract!Cardinality
    <2>5. Contract!Cardinality(Contract!Of(s.display)) <= Contract!Overlap(s.display)
      <3> HIDE DEF s
      <3> QED BY Zenon, <2>2, <2>4
    <2>6. Contract!Submit(s)
      <3> HIDE DEF s
      <3> QED BY Zenon, <1>1, <1>8, <2>1, <2>5, <2>3 DEF Contract!Submit
    <2> QED BY <2>6
  <1> QED BY <1>0, <1>7, <1>8

(* The drivers' own steps on the submission of a display.                   *)
LEMMA WorkMaps ==
  ASSUME IInv, NoDropPanic, NEW d \in Displays, NEW outcome \in Outcomes,
         RenderWait(d, outcome) \/ Flush(d, outcome) \/ QueueFlush(d, outcome)
  PROVE  [Contract!Next]_(Contract!vars)
  <1> DEFINE s == Sub(d, pending[d])
  <1>1. pending[d] # NoWork
    BY SlotFacts, Typed DEF IInv, RenderWait, Flush, QueueFlush, PlacesOK
  <1>2. s \in Submissions /\ s \in issued /\ s.display = d
    BY <1>1, PendingIssued
  <1>3. CASE RenderWait(d, outcome)
    <2>1. UNCHANGED <<shape, issued, reading, flushed>> /\ (drawing' = drawing \ {s} \/ drawing' = drawing)
      BY <1>3 DEF RenderWait, registry
    <2>2. CASE s \in drawing /\ drawing' = drawing \ {s}
      BY <1>2, <2>1, <2>2 DEF Contract!Next, Contract!Drawn
    <2>3. CASE drawing' = drawing
      BY <2>1, <2>3 DEF Contract!vars
    <2> QED BY <2>1, <2>2, <2>3
  <1>4. CASE Flush(d, outcome) \/ QueueFlush(d, outcome)
    <2>1. /\ UNCHANGED <<shape, issued, drawing>>
          /\ \/ UNCHANGED <<reading, flushed>>
             \/ reading' = reading \cup {s} /\ flushed' = flushed \cup {s}
      BY <1>4 DEF Flush, QueueFlush, registry
    <2>2. ~pending[d].token /\ ~pending[d].inCall /\ (s \in drawing => shape[d].queued)
      <3>1. CASE Flush(d, outcome)
        BY <3>1 DEF Flush, IInv, FlagsOK, DevicesOK
      <3>2. CASE QueueFlush(d, outcome)
        BY <3>2 DEF QueueFlush, IInv, FlagsOK
      <3> QED BY <1>4, <3>1, <3>2
    <2>3. s \notin flushed
      BY <1>1, <2>2 DEF IInv, DevicesOK
    <2>4. CASE UNCHANGED <<reading, flushed>>
      BY <2>1, <2>4 DEF Contract!vars
    <2>5. CASE reading' = reading \cup {s} /\ flushed' = flushed \cup {s}
      BY <1>2, <2>1, <2>2, <2>3, <2>5 DEF Contract!Next, Contract!Flush
    <2> QED BY <2>1, <2>4, <2>5
  <1> QED BY <1>3, <1>4

(* A transfer's end, and memory given back.                                 *)
LEMMA ReturnMaps ==
  ASSUME IInv, NoDropPanic, NEW d \in Displays,
         \/ Retire(d) \/ RetireTransfer(d)
         \/ \E outcome \in Outcomes : TransferWait(d, outcome)
  PROVE  [Contract!Next]_(Contract!vars)
  <1>1. CASE Retire(d)
    <2> DEFINE s == Sub(d, pending[d])
    <2>1. /\ at = d /\ UNCHANGED <<shape, drawing, reading>>
          /\ pc = "retire" \/ (pc = "settle" /\ ~pending[d].token /\ ~pending[d].inCall)
          /\ issued' = issued \ {s} /\ flushed' = flushed \ {s}
      BY <1>1 DEF Retire, registry
    <2>2. pending[d] # NoWork /\ pending[d].waited
      BY <2>1 DEF IInv, PlacesOK, FlagsOK
    <2>3. s \in Submissions /\ s \in issued /\ s.display = d
      BY <2>2, PendingIssued
    <2>4. s \notin drawing /\ s \notin reading
      BY <2>1, <2>2, <2>3 DEF IInv, DevicesOK
    <2> QED BY <2>1, <2>3, <2>4 DEF Contract!Next, Contract!Retire
  <1>2. CASE RetireTransfer(d)
    <2> DEFINE s == Sub(d, transfers[d][1])
    <2>1. pc = "retireTransfer" /\ at = d
      BY <1>2 DEF RetireTransfer
    <2>2. /\ Head(transfers[d]) = transfers[d][1] /\ 1 \in 1 .. Len(transfers[d])
          /\ s \in Submissions /\ s \in issued
      BY <2>1, OldestIssued DEF Transferring
    <2>3. /\ UNCHANGED <<shape, drawing, reading>>
          /\ issued' = issued \ {s} /\ flushed' = flushed \ {s}
      BY <1>2, <2>2 DEF RetireTransfer, registry
    <2>4. s \notin drawing /\ s \notin reading
      BY <2>1, <2>2 DEF IInv, DevicesOK
    <2> QED BY <2>2, <2>3, <2>4 DEF Contract!Next, Contract!Retire
  <1>3. ASSUME NEW outcome \in Outcomes, TransferWait(d, outcome)
        PROVE  [Contract!Next]_(Contract!vars)
    <2> DEFINE s == Sub(d, transfers[d][1])
    <2>1. pc = "transfer" /\ at = d
      BY <1>3 DEF TransferWait
    <2>2. Head(transfers[d]) = transfers[d][1] /\ s \in Submissions
      BY <2>1, OldestIssued DEF Transferring
    <2>3. /\ UNCHANGED <<shape, issued, drawing, flushed>>
          /\ reading' = reading \/ reading' = reading \ {s}
      BY <1>3, <2>2 DEF TransferWait, registry
    <2>4. CASE s \in reading /\ reading' = reading \ {s}
      BY <2>2, <2>3, <2>4 DEF Contract!Next, Contract!Shown
    <2>5. CASE reading' = reading
      BY <2>3, <2>5 DEF Contract!vars
    <2> QED BY <2>3, <2>4, <2>5
  <1> QED BY <1>1, <1>2, <1>3

(* Displays and renderers destroyed, and geometry replaced.                 *)
LEMMA StopMaps ==
  ASSUME IInv, NoDropPanic,
         \/ Configure \/ Destroy
         \/ \E d \in Displays : DropDisplay(d) \/ TransferStopped(d)
  PROVE  [Contract!Next]_(Contract!vars)
  <1>1. CASE Configure
    <2>1. pc = "configure" /\ UNCHANGED <<issued, drawing, reading, flushed>>
      BY <1>1 DEF Configure, hardware
    <2>2. shape' \in [Displays -> Shapes]
      BY <1>1 DEF Configure, LegalShapes, IInv, TypeOK, RegistryType
    <2>3. \A d \in Displays : pending[d] = NoWork /\ deferred[d] = NoWork /\ transfers[d] = <<>>
      BY <2>1 DEF IInv, PlacesOK, ControlOK, Before, Resting
    <2>4. issued = {}
      BY <2>1, <2>3, EmptySlot DEF IInv, IssuedOK, TypeOK, Submissions, Holds, Doomed, Draining, Transferring
    <2> QED BY <2>1, <2>2, <2>4 DEF Contract!Next, Contract!Configure
  <1>2. CASE Destroy
    <2> DEFINE D == {d \in Displays : RendererOf[d] = blamed}
    <2>1. Contract!Stop(D)
      BY <1>2 DEF Destroy, Without, Contract!Stop
    <2> QED BY <2>1 DEF Contract!Next
  <1>3. ASSUME NEW d \in Displays, DropDisplay(d) \/ TransferStopped(d)
        PROVE  [Contract!Next]_(Contract!vars)
    <2>1. Contract!StopDisplay(d)
      BY <1>3 DEF DropDisplay, TransferStopped, Without, Contract!StopDisplay
    <2> QED BY <2>1 DEF Contract!Next
  <1> QED BY <1>1, <1>2, <1>3

LEMMA StepMaps ==
  ASSUME IInv, NoDropPanic, [Next]_vars
  PROVE  [Contract!Next]_(Contract!vars)
  <1>1. CASE \/ \E kind \in Calls : Start(kind)
             \/ Completed \/ ConfigureRejected \/ Begin \/ BeginRejected \/ FinishNothing
             \/ WaitedBefore \/ RoundEnd \/ Drain \/ Commit \/ CommitFails \/ GuardDrop \/ GuardReturn
             \/ \E outcome \in {"err", "panic"}, motion \in SUBSET Strips : PrepareFails(outcome, motion)
             \/ \E d \in Displays :
                  \/ \E region, motion \in SUBSET Strips : Prepare(d, region, motion)
                  \/ Pass(d) \/ Keep(d) \/ Transfer(d)
                  \/ \E outcome \in Outcomes : Acquire(d, outcome) \/ Overlay(d, outcome)
             \/ Gone \/ UNCHANGED vars
    BY <1>1, QuietSteps
  <1>2. ASSUME NEW d \in Displays, NEW outcome \in Outcomes, Render(d, outcome)
        PROVE  [Contract!Next]_(Contract!vars)
    <2>1. CASE Contract!Submit(Sub(d, Fresh(d)))
      <3>1. Sub(d, Fresh(d)) \in Submissions
        BY <1>2, FreshFacts DEF Render
      <3> QED BY <2>1, <3>1 DEF Contract!Next
    <2> QED BY <1>2, <2>1, RenderSubmits
  <1>3. CASE \E d \in Displays, outcome \in Outcomes :
               RenderWait(d, outcome) \/ Flush(d, outcome) \/ QueueFlush(d, outcome)
    BY <1>3, WorkMaps
  <1>4. CASE \E d \in Displays :
               Retire(d) \/ RetireTransfer(d) \/ \E outcome \in Outcomes : TransferWait(d, outcome)
    BY <1>4, ReturnMaps
  <1>5. CASE \/ Configure \/ Destroy
             \/ \E d \in Displays : DropDisplay(d) \/ TransferStopped(d)
    BY <1>5, StopMaps
  <1> QED BY <1>1, <1>2, <1>3, <1>4, <1>5 DEF Next, Step

(* Whatever renderers and displays answer, the coordinator acquires, draws, *)
(* waits, flushes and retires as its drivers may expect.                    *)
THEOREM Refinement ==
  ASSUME NoDropPanic
  PROVE  Spec => KeepsContract
  <1>1. Init => Contract!Init
    BY DEF Init, LegalShapes, Contract!Init
  <1>2. IInv /\ [Next]_vars => [Contract!Next]_(Contract!vars)
    BY StepMaps
  <1>3. Spec => []IInv
    BY Inductive
  <1> QED BY <1>1, <1>2, <1>3, PTL DEF Spec, KeepsContract, Contract!Spec
=============================================================================
