------------------------------ MODULE Gestures ------------------------------
(***************************************************************************)
(* The gesture pump of gesture-core.ts over the touch snapshot of touch.ts.*)
(*                                                                         *)
(* The pump is one sequential program that calls the application at many   *)
(* places, and the application may call back: cancel or dispose of a       *)
(* recognizer, register one, push or release a modal touch block.  The     *)
(* rest of the running frame is therefore part of the state: todo is what  *)
(* the pump, and the calls it is nested in, have still to do, next item    *)
(* first; a call an application makes puts its work in front.  A loop over *)
(* owners or pool slots is a run of items, each tested when its turn comes.*)
(*                                                                         *)
(* Recognizers are numbered in registration order.  Geometry is abstracted *)
(* to what it decides: whether a contact moved, left a recognizer's tap    *)
(* slop, crossed a pan or pinch slop, or was held past a deadline is free, *)
(* but no travel grows in a frame in which the contact did not move.       *)
(***************************************************************************)
EXTENDS Integers, FiniteSets, Sequences, SequencesExt, Lists

CONSTANTS
  Contacts,       \* touch contacts: a surface and an id
  MaxTracks,      \* MAX_TRACKS, the contact pool
  MaxRecognizers, \* recognizers a run may register
  Mounted,        \* of them, those registered before the first frame
  Region,         \* contact -> the recognizers whose region it lands in
  Taps, LongPresses, Pans, Pinches, \* recognizers with these handlers
  Exempt,         \* recognizers that set allowWhenBlocked
  Pushed,         \* blocks that may be pushed before the first frame
  Reentrant,      \* callbacks in which the application calls back, and
                  \* "unmount" if it unmounts there too
  MaxFrames, MaxCalls, \* bounds: frames, and calls of the application
  None            \* no recognizer, no contact

ASSUME GesturesAssumption ==
  /\ MaxTracks \in Nat /\ MaxRecognizers \in Nat /\ Mounted \in 0 .. MaxRecognizers
  /\ IsFiniteSet(Contacts) /\ Pushed \subseteq Nat
  /\ None \notin Contacts \cup (1 .. MaxRecognizers)

VARIABLES
  input,   \* the contacts of this frame in wire order, and those it cancels
  recs,    \* recognizers: the registered ones, first registered first
  mounted, \* how many were ever registered
  blocks,  \* blockDepth
  track,   \* tracks: per pool slot, the contact and who watches it
  flags,   \* per recognizer and slot, its flag byte as a set
  pair,    \* per recognizer, the slots of its candidate pinch
  pinch,   \* per recognizer, the slots of its active pinch
  live,    \* liveCount
  todo,    \* the rest of the running frame or call
  threw,   \* the last frame ended in an exception
  frames, calls, \* what the bounds count
  heard,   \* history: what a recognizer last heard of a slot's contact
  won,     \* history: per slot, the exclusive gestures its contact became
  basis,   \* history: the contacts whose span a candidate pair starts from
  pinched, \* history: recognizers told of a pinch that has not ended
  missed   \* history: recognizers the last block passed over

app == <<recs, mounted, blocks, calls>>
world == <<input, frames, threw>>
pinches == <<pair, pinch>>
history == <<heard, won, basis, pinched, missed>>
vars == <<world, app, track, flags, live, pinches, todo, history>>

Slots == 1..MaxTracks
Recognizers == 1..MaxRecognizers
Flags == {"observing", "tapDead", "longFired", "panning"}

Free == [used |-> FALSE, present |-> FALSE, fresh |-> FALSE, moved |-> FALSE,
         contact |-> None, owners |-> <<>>, claimed |-> None]

Init ==
  /\ input = [touches |-> <<>>, cancelled |-> {}] /\ frames = 0 /\ threw = FALSE
  /\ recs = [n \in 1..Mounted |-> n] /\ mounted = Mounted /\ blocks \in Pushed /\ calls = 0
  /\ track = [s \in Slots |-> Free] /\ live = 0
  /\ flags = [r \in Recognizers |-> [s \in Slots |-> {}]]
  /\ pair = [r \in Recognizers |-> {}] /\ pinch = pair /\ basis = pair
  /\ heard = [r \in Recognizers |-> [s \in Slots |-> "nothing"]]
  /\ won = [s \in Slots |-> {}] /\ pinched = {} /\ missed = {} /\ todo = <<>>

Observes(r, s) == "observing" \in flags[r][s]
Panning(r, s) == {"observing", "panning"} \subseteq flags[r][s]
Quick(r, s) == Observes(r, s) /\ flags[r][s] \cap {"tapDead", "longFired"} = {}
Down == {track[s].contact : s \in {q \in Slots : track[q].used}}

Do(op, s, r) == [op |-> op, s |-> s, r |-> r]
Owners(op, s) == [n \in DOMAIN track[s].owners |-> Do(op, s, track[s].owners[n])]
OnSlots(op, r) == [s \in Slots |-> Do(op, s, r)]

(* A reset empties the owners under a loop that runs over them.            *)
Owns(r, s) == r \in ToSet(track[s].owners)

(* The tests a loop makes before it does anything for an item.             *)
Due(i) ==
  /\ i.op = "cancel" => track[i.s].used /\ Observes(i.r, i.s)
  /\ i.op = "endPinch" => pinch[i.r] # {} /\ i.s \in pinch[i.r] \cup {0}
  /\ i.op = "move" => track[i.s].moved /\ Observes(i.r, i.s)
  /\ i.op = "panMove" => Owns(i.r, i.s) /\ Panning(i.r, i.s)
  /\ i.op = "up" => Owns(i.r, i.s) /\ Observes(i.r, i.s)
  /\ i.op = "recognize" => track[i.s].used /\ track[i.s].present

Idle == \A n \in DOMAIN todo : ~Due(todo[n])

(* The next item that does something (none or one), with what follows it.  *)
Turn ==
  {[op |-> todo[n].op, s |-> todo[n].s, r |-> todo[n].r, rest |-> SubSeq(todo, n + 1, Len(todo))] :
     n \in {m \in DOMAIN todo : Due(todo[m]) /\ \A q \in 1..(m - 1) : ~Due(todo[q])}}

(* What comes of it goes before the rest.                                  *)
Then(i, items) == todo' = items \o i.rest

-----------------------------------------------------------------------------
(* The application: attachGesture, a handle's cancel and dispose,          *)
(* pushTouchBlock with its disposer, and the framework's unmount.  "app" is*)
(* an application that runs inside a callback and may call again before it *)
(* returns.                                                                *)

Attach(rest) ==
  /\ mounted < MaxRecognizers
  /\ mounted' = mounted + 1 /\ recs' = Append(recs, mounted + 1)
  /\ todo' = rest /\ UNCHANGED <<blocks, missed>>

HandleCancel(r, rest) ==
  todo' = OnSlots("cancel", r) \o rest /\ UNCHANGED <<recs, mounted, blocks, missed>>

Disposal(r) == OnSlots("cancel", r) \o <<Do("endPinch", 0, r), Do("unregister", 0, r)>>

Dispose(r, rest) ==
  todo' = Disposal(r) \o rest /\ UNCHANGED <<recs, mounted, blocks, missed>>

PushTouchBlock(rest) ==
  /\ blocks' = blocks + 1 /\ todo' = <<Do("block", 1, None)>> \o rest
  /\ missed' = {} /\ UNCHANGED <<recs, mounted>>

Unblock(rest) ==
  /\ blocks > 0 /\ blocks' = blocks - 1
  /\ todo' = rest /\ UNCHANGED <<recs, mounted, missed>>

(* resetGestures; recognizers keep their flags and pinches.                *)
Reset == track' = [s \in Slots |-> Free] /\ live' = 0 /\ blocks' = 0

(* The disposer of render resets before it disposes of the components, whom*)
(* nothing is promised any more; then the next application is mounted.     *)
Unmount(rest) ==
  /\ Reset /\ recs' = <<>> /\ UNCHANGED <<mounted, missed>>
  /\ heard' = [r \in Recognizers |-> [s \in Slots |->
                 IF heard[r][s] = "onDown" THEN "nothing" ELSE heard[r][s]]]
  /\ todo' = FlattenSeq([n \in DOMAIN recs |-> Disposal(recs[n])])
               \o <<Do("mount", 0, None)>> \o rest

Mount(i) ==
  /\ i.op = "mount" /\ Then(i, <<>>)
  /\ Reset /\ recs' = IF mounted < MaxRecognizers THEN <<mounted + 1>> ELSE <<>>
  /\ mounted' = mounted + Len(recs')
  /\ UNCHANGED <<world, calls, flags, pinches, history>>

AppCall(rest) ==
  /\ calls < MaxCalls /\ calls' = calls + 1
  /\ \/ /\ \/ Attach(rest) \/ PushTouchBlock(rest) \/ Unblock(rest)
           \/ \E r \in ToSet(recs) : HandleCancel(r, rest) \/ Dispose(r, rest)
        /\ UNCHANGED <<track, live, heard>>
     \/ (rest = <<>> \/ "unmount" \in Reentrant) /\ mounted < MaxRecognizers /\ Unmount(rest)
  /\ UNCHANGED <<world, flags, pinches, won, basis, pinched>>

Outside == Idle /\ AppCall(<<>>)
Inside(i) == i.op = "app" /\ AppCall(<<Do("app", 0, None)>> \o i.rest)
Return(i) ==
  /\ i.op = "app" /\ Then(i, <<>>)
  /\ UNCHANGED <<world, app, track, flags, live, pinches, history>>

(* The loop of pushTouchBlock runs by index over an array that a dispose   *)
(* in one of its callbacks shortens: what was next comes to stand where the*)
(* loop has been.                                                          *)
Slipped(r) ==
  {recs[n] : n \in {m \in DOMAIN recs : Do("block", m, None) \in ToSet(todo)
                                       /\ r \in ToSet(SubSeq(recs, 1, m - 1))}}

Unregister(i) ==
  /\ i.op = "unregister" /\ Then(i, <<>>)
  /\ recs' = Omit(recs, {i.r}) /\ missed' = missed \cup Slipped(i.r)
  /\ UNCHANGED <<world, mounted, blocks, calls, track, flags, live, pinches,
                 heard, won, basis, pinched>>

(* cancelContactsFor, for each recognizer in turn.                         *)
Block(i) ==
  /\ i.op = "block"
  /\ Then(i, IF i.s > Len(recs) THEN <<>>
             ELSE (IF recs[i.s] \in Exempt THEN <<>> ELSE OnSlots("cancel", recs[i.s]))
                    \o <<Do("block", i.s + 1, None)>>)
  /\ UNCHANGED <<world, app, track, flags, live, pinches, history>>

-----------------------------------------------------------------------------
(* Callbacks, and the two operations that end a recognizer's part.         *)

Callbacks == {"onDown", "onMove", "onUp", "onCancel", "onTap", "onLongPress", "onPanStart",
              "onPanMove", "onPanEnd", "onPinchStart", "onPinchMove", "onPinchEnd"}

(* What a recognizer last heard of a contact: an onDown that comes after   *)
(* the onCancel, and an onCancel after the onUp, are told apart.           *)
Hears(before, op) ==
  CASE before = "onCancel" /\ op = "onDown" -> "lateDown"
    [] before = "onUp" /\ op = "onCancel" -> "lateCancel"
    [] OTHER -> op

(* A start told of a pinch that has ended already begins nothing.          *)
Callback(i) ==
  /\ i.op \in Callbacks
  /\ Then(i, IF i.op \in Reentrant /\ calls < MaxCalls THEN <<Do("app", 0, None)>> ELSE <<>>)
  /\ heard' = IF i.op \in {"onDown", "onUp", "onCancel"}
              THEN [heard EXCEPT ![i.r][i.s] = Hears(heard[i.r][i.s], i.op)] ELSE heard
  /\ won' = IF i.op \in {"onTap", "onLongPress", "onPanStart"}
            THEN [won EXCEPT ![i.s] = @ \cup {<<i.op, i.r>>}] ELSE won
  /\ pinched' = CASE i.op = "onPinchStart" /\ pinch[i.r] # {} -> pinched \cup {i.r}
                  [] i.op = "onPinchEnd" -> pinched \ {i.r}
                  [] OTHER -> pinched
  /\ UNCHANGED <<world, app, track, flags, live, pinches, basis, missed>>

(* Slip: a cancelled member does not end the pinch.                        *)
CancelContact(i) ==
  /\ i.op = "cancel"
  /\ flags' = [flags EXCEPT ![i.r][i.s] = {}]
  /\ track' = [track EXCEPT ![i.s].claimed = IF @ = i.r THEN None ELSE @]
  /\ Then(i, <<Do("onCancel", i.s, i.r)>>)
  /\ UNCHANGED <<world, app, live, pinches, history>>

(* fireCancel; it ends a pinch the contact is a member of.                 *)
Cancel(i) ==
  /\ i.op = "cancel"
  /\ flags' = [flags EXCEPT ![i.r][i.s] = {}]
  /\ track' = [track EXCEPT ![i.s].claimed = IF @ = i.r THEN None ELSE @]
  /\ Then(i, <<Do("endPinch", i.s, i.r), Do("onCancel", i.s, i.r)>>)
  /\ UNCHANGED <<world, app, live, pinches, history>>

(* endPinch, of a member slot that goes, or of any (slot 0).               *)
EndPinch(i) ==
  /\ i.op = "endPinch"
  /\ pinch' = [pinch EXCEPT ![i.r] = {}] /\ pair' = [pair EXCEPT ![i.r] = {}]
  /\ Then(i, <<Do("onPinchEnd", i.s, i.r)>>)
  /\ UNCHANGED <<world, app, track, flags, live, history>>

(* Slip: the losers are forgotten without onCancel.                        *)
ClaimSilently(i) ==
  /\ i.op = "claim"
  /\ track' = [track EXCEPT ![i.s].claimed = i.r]
  /\ flags' = [r \in Recognizers |-> IF r = i.r THEN flags[r] ELSE [flags[r] EXCEPT ![i.s] = {}]]
  /\ Then(i, <<>>)
  /\ UNCHANGED <<world, app, live, pinches, history>>

Claim(i) ==
  /\ i.op = "claim"
  /\ track' = [track EXCEPT ![i.s].claimed = i.r]
  /\ Then(i, Omit(Owners("cancel", i.s), {Do("cancel", i.s, i.r)}))
  /\ UNCHANGED <<world, app, flags, live, pinches, history>>

-----------------------------------------------------------------------------
(* __runGestures: contacts that ended, then the contacts of the frame,     *)
(* then pinches, then each contact's own gestures.  (Its last test for     *)
(* slots not present finds none: what is used then was seen in this frame.)*)

Frame ==
  /\ Idle /\ frames < MaxFrames /\ frames' = frames + 1
  /\ \E S \in SUBSET Contacts, C \in SUBSET Down :
       /\ Cardinality(S) <= MaxTracks
       /\ \E touches \in SetToSeqs(S) : input' = [touches |-> touches, cancelled |-> C]
  /\ threw' = FALSE
  /\ todo' = IF input'.touches = <<>> /\ live = 0 THEN <<>>
              ELSE OnSlots("retire", None) \o [n \in DOMAIN input'.touches |-> Do("touch", n, None)]
                     \o <<Do("pinches", 0, None)>> \o OnSlots("recognize", None)
  /\ UNCHANGED <<app, track, flags, live, pinches, history>>

Finish(s) ==
  Owners("endPinch", s) \o Owners("up", s) \o <<Do("tap", s, None), Do("release", s, None)>>

Retire(i) ==
  /\ i.op = "retire"
  /\ LET t == track[i.s] IN
       Then(i, IF t.used /\ t.contact \in input.cancelled
               THEN Owners("cancel", i.s) \o <<Do("release", i.s, None)>>
               ELSE IF t.used /\ t.contact \notin ToSet(input.touches) THEN Finish(i.s) ELSE <<>>)
  /\ track' = [track EXCEPT ![i.s].present = FALSE]
  /\ UNCHANGED <<world, app, flags, live, pinches, history>>

Release(i) ==
  /\ i.op = "release" /\ Then(i, <<>>)
  /\ flags' = [r \in Recognizers |->
                 IF r \in ToSet(track[i.s].owners) THEN [flags[r] EXCEPT ![i.s] = {}] ELSE flags[r]]
  /\ track' = [track EXCEPT ![i.s] = [Free EXCEPT !.present = track[i.s].present]]
  /\ live' = live - 1
  /\ UNCHANGED <<world, app, pinches, history>>

(* Slip: a block does not keep recognizers from new contacts.              *)
WatchersBlockedOrNot(c) == Omit(Reverse(recs), Recognizers \ Region[c])

(* beginTrack resolves the owners, last registered first, before any of    *)
(* them is told.                                                           *)
Watchers(c) ==
  Omit(Reverse(recs), {r \in Recognizers : r \notin Region[c] \/ (blocks > 0 /\ r \notin Exempt)})

(* A slot is free: a frame has no more contacts than the pool, and those   *)
(* not in it are gone.                                                     *)
Begin(i, s, c) ==
  LET owners == Watchers(c) IN
  /\ track' = [track EXCEPT ![s] = [Free EXCEPT !.used = TRUE, !.present = TRUE, !.fresh = TRUE,
                                                !.contact = c, !.owners = owners]]
  /\ flags' = [r \in Recognizers |->
                 IF r \in ToSet(owners) THEN [flags[r] EXCEPT ![s] = {"observing"}] ELSE flags[r]]
  /\ live' = live + 1
  /\ Then(i, [n \in DOMAIN owners |-> Do("onDown", s, owners[n])])
  /\ heard' = [r \in Recognizers |-> [heard[r] EXCEPT ![s] = "nothing"]]
  /\ won' = [won EXCEPT ![s] = {}]

Update(i, s) ==
  /\ \E moved \in BOOLEAN :
       track' = [track EXCEPT ![s] = [@ EXCEPT !.present = TRUE, !.fresh = FALSE, !.moved = moved]]
  /\ Then(i, <<>>) /\ UNCHANGED <<flags, live, heard, won>>

Touch(i) ==
  /\ i.op = "touch"
  /\ LET c == input.touches[i.s]
         has == {s \in Slots : track[s].used /\ track[s].contact = c}
         free == {s \in Slots : ~track[s].used}
     IN
     \/ \E s \in has : Update(i, s)
     \/ has = {} /\ \E s \in free : (\A q \in free : s <= q) /\ Begin(i, s, c)
  /\ UNCHANGED <<world, app, pinches, basis, pinched, missed>>

-----------------------------------------------------------------------------
(* recognizePinches, last registered first.  It runs by index too: after a *)
(* callback that disposes of two recognizers the next index may be past    *)
(* the end of the array, and using what is there throws.                   *)

RecognizePinches(i) ==
  /\ i.op = "pinches" /\ Then(i, <<Do("pinchPass", Len(recs), None)>>)
  /\ UNCHANGED <<world, app, track, flags, live, pinches, history>>

Candidates(r) ==
  {s \in Slots : track[s].used /\ track[s].present /\ track[s].claimed = None /\ Observes(r, s)}
Pair(r) == {s \in Candidates(r) : Cardinality({q \in Candidates(r) : q < s}) < 2}
Touching(S) == {track[s].contact : s \in S}

(* The geometry on record is this pair's: its slots are.                   *)
SamePair(r) == pair[r] = Pair(r)

(* Travel may cross the slop only in a frame with motion, if it is measured*)
(* from where these contacts were.                                         *)
MayPinch(r) ==
  (\E s \in Pair(r) : track[s].moved) \/ basis[r] # Touching(Pair(r))

PinchStart(i, r, next) ==
  /\ pinch[r] = {} /\ Cardinality(Pair(r)) = 2 /\ SamePair(r) /\ MayPinch(r)
  /\ pinch' = [pinch EXCEPT ![r] = Pair(r)]
  /\ flags' = [flags EXCEPT ![r] = [s \in Slots |-> @[s] \cup IF s \in Pair(r) THEN {"tapDead"} ELSE {}]]
  /\ won' = [s \in Slots |-> won[s] \cup IF s \in Pair(r) THEN {<<"onPinchStart", r>>} ELSE {}]
  /\ Then(i, Omit(OnSlots("claim", r), {Do("claim", s, r) : s \in Slots \ Pair(r)})
               \o <<Do("onPinchStart", 0, r), next>>)
  /\ UNCHANGED <<pair, basis>>

(* A pair that has just formed is measured and left for the next frame.    *)
PinchWatch(i, r, next) ==
  /\ pinch[r] = {}
  /\ pair' = [pair EXCEPT ![r] = IF Cardinality(Pair(r)) = 2 THEN Pair(r) ELSE {}]
  /\ basis' = IF Cardinality(Pair(r)) < 2 \/ SamePair(r) THEN basis
              ELSE [basis EXCEPT ![r] = Touching(Pair(r))]
  /\ Then(i, <<next>>) /\ UNCHANGED <<flags, pinch, won>>

PinchPass(i) ==
  /\ i.op = "pinchPass" /\ i.s \in DOMAIN recs
  /\ LET r == recs[i.s]
         next == Do("pinchPass", i.s - 1, None)
     IN
     \/ r \in Pinches /\ PinchWatch(i, r, next)
     \/ r \in Pinches /\ PinchStart(i, r, next)
     \/ /\ r \notin Pinches \/ pinch[r] # {}
        /\ Then(i, (IF r \in Pinches THEN <<Do("onPinchMove", 0, r)>> ELSE <<>>) \o <<next>>)
        /\ UNCHANGED <<flags, pinches, won, basis>>
  /\ UNCHANGED <<world, app, track, live, heard, pinched, missed>>

(* The pass is over, or past the end.                                      *)
PinchBounds(i) ==
  /\ i.op = "pinchPass" /\ i.s \notin DOMAIN recs
  /\ threw' = (i.s > Len(recs))
  /\ todo' = IF threw' THEN <<>> ELSE i.rest
  /\ UNCHANGED <<input, frames, app, track, flags, live, pinches, history>>

-----------------------------------------------------------------------------
(* recognize, for one contact, and the two ends a contact may have.        *)

Recognize(i) ==
  /\ i.op = "recognize"
  /\ Then(i, Owners("move", i.s) \o <<Do("longPress", i.s, None), Do("panStart", i.s, None)>>
               \o Owners("panMove", i.s))
  /\ UNCHANGED <<world, app, track, flags, live, pinches, history>>

(* The flags were read before onMove and the slop is tested after it.      *)
Move(i) ==
  /\ i.op = "move"
  /\ Then(i, <<Do("onMove", i.s, i.r)>>
               \o (IF "tapDead" \in flags[i.r][i.s] THEN <<>> ELSE <<Do("slop", i.s, i.r)>>))
  /\ UNCHANGED <<world, app, track, flags, live, pinches, history>>

Slop(i) ==
  /\ i.op = "slop" /\ Then(i, <<>>)
  /\ flags' \in {flags, [flags EXCEPT ![i.r][i.s] = @ \cup {"tapDead"}]}
  /\ UNCHANGED <<world, app, track, live, pinches, history>>

(* The first owner the gesture fits gets it, unless the contact is claimed.*)
(* Which owners' deadline or slop is passed is free, so it may be any of   *)
(* them, or none.  The callback comes first and the claim after it.        *)
LongPress(i) ==
  /\ i.op = "longPress" /\ track[i.s].claimed = None /\ ~track[i.s].fresh
  /\ \E r \in ToSet(track[i.s].owners) \cap LongPresses :
       /\ Quick(r, i.s)
       /\ flags' = [flags EXCEPT ![r][i.s] = @ \cup {"longFired"}]
       /\ Then(i, <<Do("onLongPress", i.s, r), Do("claim", i.s, r)>>)
  /\ UNCHANGED <<world, app, track, live, pinches, history>>

(* Slip: a pan starts on a contact a pinch or a long press claimed.        *)
PanStartAnyway(i) ==
  /\ i.op = "panStart" /\ track[i.s].moved
  /\ \E r \in ToSet(track[i.s].owners) \cap Pans :
       /\ Observes(r, i.s) /\ ~Panning(r, i.s)
       /\ flags' = [flags EXCEPT ![r][i.s] = @ \cup {"panning", "tapDead"}]
       /\ Then(i, <<Do("onPanStart", i.s, r), Do("claim", i.s, r)>>)
  /\ UNCHANGED <<world, app, track, live, pinches, history>>

PanStart(i) ==
  /\ i.op = "panStart" /\ track[i.s].claimed = None /\ track[i.s].moved
  /\ \E r \in ToSet(track[i.s].owners) \cap Pans :
       /\ Observes(r, i.s) /\ ~Panning(r, i.s)
       /\ flags' = [flags EXCEPT ![r][i.s] = @ \cup {"panning", "tapDead"}]
       /\ Then(i, <<Do("onPanStart", i.s, r), Do("claim", i.s, r)>>)
  /\ UNCHANGED <<world, app, track, live, pinches, history>>

NoWinner(i) ==
  /\ i.op \in {"longPress", "panStart"} /\ Then(i, <<>>)
  /\ UNCHANGED <<world, app, track, flags, live, pinches, history>>

PanMove(i) ==
  /\ i.op = "panMove" /\ Then(i, <<Do("onPanMove", i.s, i.r)>>)
  /\ UNCHANGED <<world, app, track, flags, live, pinches, history>>

(* finishTrack: onPanEnd goes by the flags read before onUp.               *)
Up(i) ==
  /\ i.op = "up"
  /\ Then(i, <<Do("onUp", i.s, i.r)>>
               \o (IF Panning(i.r, i.s) THEN <<Do("onPanEnd", i.s, i.r)>> ELSE <<>>))
  /\ UNCHANGED <<world, app, track, flags, live, pinches, history>>

(* Slip: a recognizer that was cancelled is not passed over.               *)
TappedUnobserved(s) ==
  LET o == track[s].owners
  IN {n \in DOMAIN o : o[n] \in Taps /\ flags[o[n]][s] \cap {"tapDead", "longFired", "panning"} = {}}

Tapped(s) ==
  LET o == track[s].owners
  IN {n \in DOMAIN o : o[n] \in Taps /\ Quick(o[n], s) /\ ~Panning(o[n], s)}

Tap(i) ==
  /\ i.op = "tap"
  /\ Then(i, IF track[i.s].claimed = None /\ Tapped(i.s) # {}
             THEN <<Do("onTap", i.s, track[i.s].owners[Min(Tapped(i.s))])>> ELSE <<>>)
  /\ UNCHANGED <<world, app, track, flags, live, pinches, history>>

-----------------------------------------------------------------------------
Pump(i) ==
  \/ Inside(i) \/ Return(i) \/ Callback(i)
  \/ Mount(i) \/ Unregister(i) \/ Block(i) \/ Cancel(i) \/ EndPinch(i) \/ Claim(i)
  \/ Retire(i) \/ Release(i) \/ Touch(i)
  \/ RecognizePinches(i) \/ PinchPass(i) \/ PinchBounds(i)
  \/ Recognize(i) \/ Move(i) \/ Slop(i) \/ LongPress(i) \/ PanStart(i) \/ NoWinner(i)
  \/ PanMove(i) \/ Up(i) \/ Tap(i)

Next == Frame \/ Outside \/ \E i \in Turn : Pump(i)
Spec == Init /\ [][Next]_vars
=============================================================================
