--------------------------- MODULE GesturesProofs ---------------------------
(***************************************************************************)
(* What the gesture pump promises the recognizers, proved for all numbers  *)
(* of contacts, slots and recognizers, all regions, handlers, frames and   *)
(* calls of the application, which may call back in any callback and do    *)
(* anything there but unmount (StaysMounted).  The properties follow from  *)
(* GInv, which says what the rest of the running frame may hold in every   *)
(* state.                                                                  *)
(***************************************************************************)
EXTENDS GesturesProperties, FoldLemmas

(* No callback unmounts the application: the disposer of render is called   *)
(* between frames.  The pump does not check that; resetGestures under a     *)
(* running frame leaves liveCount below the number of tracks.               *)
StaysMounted == "unmount" \notin Reentrant

Work == ToSet(todo)
Has(op, s, r) == Do(op, s, r) \in Work

-----------------------------------------------------------------------------
Ops == Callbacks \cup
  {"cancel", "endPinch", "unregister", "block", "app", "up", "tap", "release", "retire", "touch",
   "claim", "move", "slop", "longPress", "panStart", "panMove", "pinches", "pinchPass",
   "recognize", "mount"}
Item == [op : Ops, s : Nat, r : Recognizers \cup {None}]

(* What items are about, and the order in which they are done: what ends a  *)
(* contact, the frame's contacts, their gestures.                           *)
SlotOps ==
  {"cancel", "retire", "recognize", "claim", "release", "tap", "longPress", "panStart", "move",
   "slop", "panMove", "up", "onDown", "onMove", "onUp", "onCancel", "onTap", "onLongPress",
   "onPanStart", "onPanMove", "onPanEnd"}
RecOps ==
  Callbacks \cup {"cancel", "endPinch", "unregister", "claim", "move", "slop", "panMove", "up"}

Calls ==
  {"cancel", "endPinch", "unregister", "block", "app", "onCancel", "onPinchEnd"}
Lifts == {"up", "onUp", "onPanEnd"}
Gains ==
  {"claim", "onPinchStart", "onPinchMove", "onLongPress", "onPanStart", "move", "onMove", "slop"}

Rank(op) ==
  CASE op \in Calls -> 0
    [] op \in Lifts -> 1
    [] op \in {"tap", "onTap"} -> 2
    [] op = "release" -> 3
    [] op = "retire" -> 4
    [] op = "onDown" -> 5
    [] op = "touch" -> 6
    [] op \in Gains -> 8
    [] op = "longPress" -> 10
    [] op = "panStart" -> 11
    [] op \in {"panMove", "onPanMove"} -> 12
    [] op \in {"pinches", "pinchPass"} -> 13
    [] OTHER -> 14

Once == {"onCancel", "up", "onDown", "tap", "onTap", "release", "onPinchStart"}
Heads ==
  {"onUp", "onMove", "onLongPress", "onPanStart", "onPanMove", "onTap", "onPinchMove", "onPinchEnd"}

Sorted(t) == \A m, n \in DOMAIN t : m < n => Rank(t[m].op) <= Rank(t[n].op)
Distinct(t) == \A m, n \in DOMAIN t : t[m] = t[n] /\ t[m].op \in Once => m = n
HeadsFirst(t) == \A n \in DOMAIN t : t[n].op \in Heads => n = 1

(* A contact ends alone, what is new is told before more is done, and the   *)
(* gestures come after all contacts.                                        *)
Apart(S) ==
  /\ \A x, y \in S : Rank(x.op) \in 1 .. 3 /\ Rank(y.op) \in 1 .. 3 => x.s = y.s
  /\ \A x, y \in S : Rank(x.op) \in 1 .. 7 => Rank(y.op) \notin 8 .. 12
  /\ \A x, y \in S : Rank(x.op) = 5 => Rank(y.op) \notin 1 .. 4

-----------------------------------------------------------------------------
(* The invariant, part by part.                                             *)
Tracks ==
  [used : BOOLEAN, present : BOOLEAN, fresh : BOOLEAN, moved : BOOLEAN,
   contact : Contacts \cup {None}, owners : Seq(Recognizers), claimed : Recognizers \cup {None}]

TypeOK ==
  /\ input.touches \in Seq(Contacts)
  /\ mounted \in 0 .. MaxRecognizers /\ recs \in Seq(1 .. mounted) /\ IsInjective(recs)
  /\ track \in [Slots -> Tracks] /\ flags \in [Recognizers -> [Slots -> SUBSET Flags]]
  /\ pinch \in [Recognizers -> SUBSET Slots] /\ pinched \subseteq Recognizers
  /\ heard \in [Recognizers -> [Slots -> {"nothing", "onDown", "onUp", "onCancel", "lateDown", "lateCancel"}]]
  /\ won \in [Slots -> SUBSET (Callbacks \X Recognizers)]
  /\ live \in Int

OwnersOK ==
  \A s \in Slots : IsInjective(track[s].owners) /\ ToSet(track[s].owners) \subseteq 1 .. mounted

Typed(x) ==
  /\ x.op \in SlotOps => x.s \in Slots
  /\ IF x.op \in RecOps THEN x.r \in Recognizers ELSE x.r = None
  /\ x.op = "touch" => x.s \in DOMAIN input.touches
  /\ x.op = "block" => x.s # 0
WorkOK == todo \in Seq(Item) /\ \A x \in Work : Typed(x)

OrderOK == Sorted(todo) /\ Distinct(todo) /\ HeadsFirst(todo) /\ Apart(Work)

Unmounting == \E x \in Work : x.op = "mount"
UnmountOK ==
  Unmounting => /\ \A s \in Slots : ~track[s].used
                /\ \A x \in Work : x.op = "mount" \/ Rank(x.op) = 0

(* What a recognizer knows of a slot it knows as an owner.                  *)
Sane(r) == \A s \in Slots : flags[r][s] # {} => track[s].used /\ Owns(r, s)
FlagsOK ==
  /\ \A r \in Recognizers, s \in Slots : r > mounted => flags[r][s] = {}
  /\ \A r \in ToSet(recs) : Sane(r)
  /\ \A x \in Work : x.op = "cancel" /\ track[x.s].used /\ Observes(x.r, x.s) => Owns(x.r, x.s)

LiveOK == live = Cardinality({s \in Slots : track[s].used})

(* A contact that is not in the frame is about to go.                       *)
OnScreen ==
  \A s \in Slots : track[s].used =>
    track[s].contact \in ToSet(input.touches) \/ Has("retire", s, None) \/ Has("release", s, None)

Ending(s) == Has("release", s, None)
HeardAt(r, s) ==
  /\ heard[r][s] = "onDown" => track[s].used /\ Owns(r, s) /\ (Observes(r, s) \/ Has("onCancel", s, r))
  /\ track[s].used /\ Owns(r, s) /\ Observes(r, s) =>
       \/ heard[r][s] = "onDown"
       \/ heard[r][s] = "nothing" /\ Has("onDown", s, r)
       \/ heard[r][s] = "onUp" /\ Ending(s)
  /\ heard[r][s] = "onDown" /\ Observes(r, s) /\ Ending(s) =>
       Has("up", s, r) \/ Has("onUp", s, r) \/ Has("cancel", s, r)
  /\ Has("up", s, r) \/ Has("onUp", s, r) => heard[r][s] \notin {"onUp", "lateCancel"}
  /\ Has("onUp", s, r) => ~Has("up", s, r)
  /\ track[s].used /\ heard[r][s] \in {"onUp", "lateCancel"} => Ending(s)
HeardOK == \A r \in Recognizers, s \in Slots : HeardAt(r, s)

(* A contact won is claimed, or about to be, or it ends.                    *)
WonAt(s) ==
  /\ \A a, b \in won[s] : a = b
  /\ track[s].used /\ won[s] # {} =>
       \/ \E r \in Recognizers : Has("claim", s, r)
       \/ Ending(s) /\ \A x \in Work : x.op \in {"tap", "onTap"} => x.s # s
       \/ \A q \in Recognizers :
            Owns(q, s) /\ Observes(q, s) => track[s].claimed = q \/ Has("cancel", s, q)
WonOK == \A s \in Slots : WonAt(s)

Told ==
  {"up", "onUp", "onPanEnd", "onTap", "claim", "move", "onMove", "slop", "onLongPress",
   "onPanStart", "panMove", "onPanMove", "onDown"}
ItemOK(x) ==
  /\ x.op \in Told => track[x.s].used /\ Owns(x.r, x.s)
  /\ x.op \in {"tap", "release", "longPress", "panStart"} => track[x.s].used
  /\ x.op \in {"up", "onUp", "onPanEnd", "tap", "onTap"} => Ending(x.s)
  /\ x.op = "onDown" =>
       \/ heard[x.r][x.s] = "nothing" /\ (Observes(x.r, x.s) \/ Has("onCancel", x.s, x.r))
       \/ heard[x.r][x.s] = "onCancel"
  /\ x.op \in {"onMove", "onPanStart", "onPanMove", "onLongPress", "onUp"} => heard[x.r][x.s] = "onDown"
  /\ x.op = "onTap" => heard[x.r][x.s] = "onUp" /\ \A y \in Work : y.op # "tap"
  /\ x.op = "onPanEnd" => heard[x.r][x.s] \in {"onUp", "lateCancel"} \/ Has("onUp", x.s, x.r)
  /\ x.op = "onCancel" =>
       /\ ~Observes(x.r, x.s)
       /\ \/ heard[x.r][x.s] \in {"onDown", "onUp"}
          \/ heard[x.r][x.s] = "nothing" /\ Has("onDown", x.s, x.r)
  /\ x.op \in {"onTap", "onLongPress", "onPanStart"} => won[x.s] = {}
  /\ x.op \in {"onLongPress", "onPanStart"} => Has("claim", x.s, x.r)
  /\ x.op = "claim" => \A o \in Recognizers : x.s \in pinch[o] => o = x.r
ItemsOK == \A x \in Work : ItemOK(x)

(* A pinch is its recognizer's until it ends, by whichever of its contacts. *)
Broken(r) == todo # <<>> /\ todo[1].op = "endPinch" /\ todo[1].r = r /\ todo[1].s \in pinch[r]
Held(r, s) ==
  /\ track[s].used /\ Owns(r, s) /\ Observes(r, s)
  /\ track[s].claimed = r \/ Has("claim", s, r)
  /\ Ending(s) => Has("endPinch", s, r) \/ Has("cancel", s, r)
EndsAt(r) ==
  /\ pinch[r] # {} => r \in ToSet(recs) \/ Has("endPinch", 0, r)
  /\ pinch[r] # {} /\ Unmounting => Has("endPinch", 0, r)
  /\ pinch[r] # {} => \A x \in Work : x.op = "unregister" /\ x.r = r => Has("endPinch", 0, r)
  /\ r \in pinched /\ pinch[r] = {} => todo # <<>> /\ todo[1].op = "onPinchEnd" /\ todo[1].r = r
EndsOK == \A r \in Recognizers : EndsAt(r)
HeldOK ==
  /\ \A r, o \in Recognizers, s \in Slots : s \in pinch[r] /\ s \in pinch[o] => r = o
  /\ \A r \in Recognizers : \A s \in pinch[r] : Unmounting \/ Broken(r) \/ Held(r, s)

StartsOK ==
  /\ \A r \in Recognizers : pinch[r] # {} /\ r \notin pinched => Has("onPinchStart", 0, r)
  /\ \A x \in Work :
       /\ x.op = "onPinchEnd" => pinch[x.r] = {} /\ (x.r \in pinched \/ Has("onPinchStart", 0, x.r))
       /\ x.op = "onPinchMove" => x.r \in pinched
       /\ x.op = "onPinchStart" => x.s = 0 /\ x.r \notin pinched

GInv ==
  /\ TypeOK /\ OwnersOK /\ WorkOK /\ OrderOK /\ UnmountOK /\ FlagsOK /\ LiveOK /\ OnScreen
  /\ HeardOK /\ WonOK /\ ItemsOK /\ EndsOK /\ HeldOK /\ StartsOK

-----------------------------------------------------------------------------
(* Lists of items.                                                          *)

(* Two lists, one after the other. *)
LEMMA Joined ==
  ASSUME NEW S, NEW a \in Seq(S), NEW b \in Seq(S), NEW c, c = a \o b
  PROVE  /\ c \in Seq(S) /\ ToSet(c) = ToSet(a) \cup ToSet(b)
         /\ Len(a) \in Nat /\ DOMAIN a = 1 .. Len(a)
         /\ \A n \in DOMAIN a : n \in DOMAIN c /\ c[n] = a[n]
         /\ \A n \in DOMAIN c :
              \/ n \in DOMAIN a /\ c[n] = a[n]
              \/ n \notin DOMAIN a /\ n > Len(a) /\ n - Len(a) \in DOMAIN b /\ c[n] = b[n - Len(a)]
  <1>1. /\ c \in Seq(S) /\ DOMAIN a = 1 .. Len(a) /\ DOMAIN b = 1 .. Len(b)
        /\ DOMAIN c = 1 .. Len(a) + Len(b) /\ Len(a) \in Nat /\ Len(b) \in Nat
        /\ \A n \in 1 .. Len(a) : c[n] = a[n]
        /\ \A n \in 1 .. Len(b) : c[Len(a) + n] = b[n]
    OBVIOUS
  <1>2. \A n \in DOMAIN a : n \in DOMAIN c /\ c[n] = a[n]
    BY <1>1
  <1>3. \A n \in DOMAIN c :
          \/ n \in DOMAIN a /\ c[n] = a[n]
          \/ n \notin DOMAIN a /\ n > Len(a) /\ n - Len(a) \in DOMAIN b /\ c[n] = b[n - Len(a)]
    <2> TAKE n \in DOMAIN c
    <2>1. n \in 1 .. Len(a) \/ (n \notin 1 .. Len(a) /\ n > Len(a) /\ n - Len(a) \in 1 .. Len(b) /\ n = Len(a) + (n - Len(a)))
      BY <1>1
    <2> QED BY <1>1, <2>1
  <1>4. \A n \in DOMAIN b : Len(a) + n \in DOMAIN c /\ c[Len(a) + n] = b[n]
    BY <1>1
  <1>5. ToSet(c) = ToSet(a) \cup ToSet(b)
    <2>1. (\A x \in ToSet(a) : x \in ToSet(c)) /\ (\A x \in ToSet(b) : x \in ToSet(c))
      BY <1>2, <1>4 DEF ToSet
    <2>2. \A x \in ToSet(c) : x \in ToSet(a) \/ x \in ToSet(b)
      BY <1>3 DEF ToSet
    <2> QED BY <2>1, <2>2
  <1> QED BY <1>1, <1>2, <1>3, <1>5

(* A concatenation has the members of both lists.                           *)
LEMMA JoinSets ==
  ASSUME NEW S, NEW a \in Seq(S), NEW b \in Seq(S)
  PROVE  a \o b \in Seq(S) /\ ToSet(a \o b) = ToSet(a) \cup ToSet(b)
  <1>1. PICK c : c = a \o b
    OBVIOUS
  <1>2. c \in Seq(S) /\ ToSet(c) = ToSet(a) \cup ToSet(b)
    BY <1>1, Joined
  <1> QED BY <1>1, <1>2

(* The rest of a list. *)
LEMMA RestOf ==
  ASSUME NEW S, NEW t \in Seq(S), NEW n \in DOMAIN t, NEW b, b = SubSeq(t, n + 1, Len(t))
  PROVE  /\ b \in Seq(S) /\ n \in Nat /\ n >= 1
         /\ \A m \in DOMAIN b : m \in Nat /\ m >= 1 /\ m + n \in DOMAIN t /\ b[m] = t[m + n]
         /\ \A m \in DOMAIN t : m \in Nat /\ (m > n => m - n \in DOMAIN b /\ b[m - n] = t[m])
  <1>1. n \in 1 .. Len(t) /\ Len(t) \in Nat /\ DOMAIN t = 1 .. Len(t)
    OBVIOUS
  <1>2. /\ b \in Seq(S) /\ DOMAIN b = 1 .. (Len(t) - n)
        /\ \A m \in 1 .. (Len(t) - n) : b[m] = t[m + n]
    BY <1>1
  <1>3. \A m \in DOMAIN b : m \in Nat /\ m >= 1 /\ m + n \in DOMAIN t /\ b[m] = t[m + n]
    BY <1>1, <1>2
  <1>4. ASSUME NEW m \in DOMAIN t PROVE m \in Nat /\ (m > n => m - n \in DOMAIN b /\ b[m - n] = t[m])
    <2>1. m > n => m - n \in 1 .. (Len(t) - n) /\ (m - n) + n = m
      BY <1>1
    <2> QED BY <1>1, <1>2, <2>1
  <1> QED BY <1>1, <1>2, <1>3, <1>4

(* Where each operation ranks. *)
LEMMA Ranks ==
  /\ Rank("cancel") = 0 /\ Rank("endPinch") = 0 /\ Rank("unregister") = 0 /\ Rank("block") = 0
  /\ Rank("app") = 0 /\ Rank("onCancel") = 0 /\ Rank("onPinchEnd") = 0
  /\ Rank("up") = 1 /\ Rank("onUp") = 1 /\ Rank("onPanEnd") = 1
  /\ Rank("tap") = 2 /\ Rank("onTap") = 2 /\ Rank("release") = 3 /\ Rank("retire") = 4
  /\ Rank("onDown") = 5 /\ Rank("touch") = 6
  /\ Rank("claim") = 8 /\ Rank("onPinchStart") = 8 /\ Rank("onPinchMove") = 8
  /\ Rank("onLongPress") = 8 /\ Rank("onPanStart") = 8 /\ Rank("move") = 8
  /\ Rank("onMove") = 8 /\ Rank("slop") = 8
  /\ Rank("longPress") = 10 /\ Rank("panStart") = 11 /\ Rank("panMove") = 12 /\ Rank("onPanMove") = 12
  /\ Rank("pinches") = 13 /\ Rank("pinchPass") = 13 /\ Rank("recognize") = 14 /\ Rank("mount") = 14
  <1>1. /\ Rank("cancel") = 0 /\ Rank("endPinch") = 0 /\ Rank("unregister") = 0 /\ Rank("block") = 0
        /\ Rank("app") = 0 /\ Rank("onCancel") = 0 /\ Rank("onPinchEnd") = 0
    BY DEF Rank, Calls, Lifts, Gains
  <1>2. /\ Rank("up") = 1 /\ Rank("onUp") = 1 /\ Rank("onPanEnd") = 1
        /\ Rank("tap") = 2 /\ Rank("onTap") = 2 /\ Rank("release") = 3 /\ Rank("retire") = 4
        /\ Rank("onDown") = 5 /\ Rank("touch") = 6
    BY DEF Rank, Calls, Lifts, Gains
  <1>3. /\ Rank("claim") = 8 /\ Rank("onPinchStart") = 8 /\ Rank("onPinchMove") = 8
        /\ Rank("onLongPress") = 8 /\ Rank("onPanStart") = 8 /\ Rank("move") = 8
        /\ Rank("onMove") = 8 /\ Rank("slop") = 8
    BY DEF Rank, Calls, Lifts, Gains
  <1>4. /\ Rank("longPress") = 10 /\ Rank("panStart") = 11 /\ Rank("panMove") = 12 /\ Rank("onPanMove") = 12
        /\ Rank("pinches") = 13 /\ Rank("pinchPass") = 13 /\ Rank("recognize") = 14 /\ Rank("mount") = 14
    BY DEF Rank, Calls, Lifts, Gains
  <1> QED BY <1>1, <1>2, <1>3, <1>4

LEMMA RankType == \A op : Rank(op) \in 0 .. 14
  BY DEF Rank

(* An item is what its parts are. *)
LEMMA Parts ==
  /\ \A x \in Item : x = Do(x.op, x.s, x.r) /\ x.op \in Ops /\ x.s \in Nat /\ x.r \in Recognizers \cup {None}
  /\ \A op \in Ops, s \in Nat, r \in Recognizers \cup {None} : Do(op, s, r) \in Item
  /\ \A op, s, r : Do(op, s, r).op = op /\ Do(op, s, r).s = s /\ Do(op, s, r).r = r
  BY DEF Item, Do

(* Order is kept when what goes first ranks no higher. *)
LEMMA SortedJoin ==
  ASSUME NEW a \in Seq(Item), NEW b \in Seq(Item), NEW c, c = a \o b, Sorted(a), Sorted(b),
         \A x \in ToSet(a), y \in ToSet(b) : Rank(x.op) <= Rank(y.op)
  PROVE  Sorted(c)
  <1>1. ASSUME NEW m \in DOMAIN c, NEW n \in DOMAIN c, m < n PROVE Rank(c[m].op) <= Rank(c[n].op)
    <2>1. \/ m \in DOMAIN a /\ c[m] = a[m]
          \/ m \notin DOMAIN a /\ m > Len(a) /\ m - Len(a) \in DOMAIN b /\ c[m] = b[m - Len(a)]
      BY Joined
    <2>2. \/ n \in DOMAIN a /\ c[n] = a[n]
          \/ n \notin DOMAIN a /\ n > Len(a) /\ n - Len(a) \in DOMAIN b /\ c[n] = b[n - Len(a)]
      BY Joined
    <2>3. DOMAIN a = 1 .. Len(a) /\ Len(a) \in Nat /\ m \in Nat /\ n \in Nat /\ m >= 1
      <3>1. c \in Seq(Item)
        BY Joined
      <3> QED BY <3>1
    <2>4. CASE m \in DOMAIN a /\ n \in DOMAIN a
      BY <1>1, <2>1, <2>2, <2>3, <2>4 DEF Sorted
    <2>5. CASE m \in DOMAIN a /\ n \notin DOMAIN a
      <3>1. c[m] \in ToSet(a) /\ c[n] \in ToSet(b)
        BY <2>1, <2>2, <2>5, <2>3 DEF ToSet
      <3> QED BY <3>1
    <2>6. CASE m \notin DOMAIN a
      <3>1. n \notin DOMAIN a /\ m - Len(a) < n - Len(a)
        BY <1>1, <2>1, <2>2, <2>3, <2>6
      <3> QED BY <2>1, <2>2, <2>6, <3>1 DEF Sorted
    <2> QED BY <2>4, <2>5, <2>6
  <1> QED BY <1>1 DEF Sorted

(* So is what comes once, when the lists share none of it. *)
LEMMA DistinctJoin ==
  ASSUME NEW a \in Seq(Item), NEW b \in Seq(Item), NEW c, c = a \o b, Distinct(a), Distinct(b),
         \A x \in ToSet(a) : x.op \in Once => x \notin ToSet(b)
  PROVE  Distinct(c)
  <1>1. ASSUME NEW m \in DOMAIN c, NEW n \in DOMAIN c, c[m] = c[n], c[m].op \in Once PROVE m = n
    <2>1. \/ m \in DOMAIN a /\ c[m] = a[m]
          \/ m \notin DOMAIN a /\ m > Len(a) /\ m - Len(a) \in DOMAIN b /\ c[m] = b[m - Len(a)]
      BY Joined
    <2>2. \/ n \in DOMAIN a /\ c[n] = a[n]
          \/ n \notin DOMAIN a /\ n > Len(a) /\ n - Len(a) \in DOMAIN b /\ c[n] = b[n - Len(a)]
      BY Joined
    <2>3. Len(a) \in Nat /\ m \in Nat /\ n \in Nat
      <3>1. c \in Seq(Item)
        BY Joined
      <3> QED BY <3>1
    <2>4. CASE m \in DOMAIN a /\ n \in DOMAIN a
      BY <1>1, <2>1, <2>2, <2>4 DEF Distinct
    <2>5. CASE m \notin DOMAIN a /\ n \notin DOMAIN a
      <3>1. m - Len(a) = n - Len(a)
        BY <1>1, <2>1, <2>2, <2>5 DEF Distinct
      <3> QED BY <2>3, <3>1
    <2>6. CASE m \in DOMAIN a /\ n \notin DOMAIN a
      <3>1. c[m] \in ToSet(a) /\ c[m] \in ToSet(b)
        BY <1>1, <2>1, <2>2, <2>6 DEF ToSet
      <3> QED BY <1>1, <3>1
    <2>7. CASE m \notin DOMAIN a /\ n \in DOMAIN a
      <3>1. c[m] \in ToSet(a) /\ c[m] \in ToSet(b)
        BY <1>1, <2>1, <2>2, <2>7 DEF ToSet
      <3> QED BY <1>1, <3>1
    <2> QED BY <2>4, <2>5, <2>6, <2>7
  <1> QED BY <1>1 DEF Distinct

-----------------------------------------------------------------------------
(* The next item.                                                           *)

(* Items whose turn always comes.                                           *)
Always(op) == op \notin {"cancel", "endPinch", "move", "panMove", "up", "recognize"}

(* The item i is the first that is due: what is known of the rest.          *)
Fires(i) ==
  /\ Do(i.op, i.s, i.r) \in Work /\ Due(i) /\ Do(i.op, i.s, i.r) \in Item
  /\ i.rest \in Seq(Item) /\ ToSet(i.rest) \subseteq Work
  /\ \A y \in Work : Due(y) => y = Do(i.op, i.s, i.r) \/ y \in ToSet(i.rest)
  /\ \A y \in ToSet(i.rest) : Rank(i.op) <= Rank(y.op)
  /\ \A y \in Work : Rank(y.op) < Rank(i.op) => ~Due(y)
  /\ i.op \in Once => Do(i.op, i.s, i.r) \notin ToSet(i.rest)
  /\ Sorted(i.rest) /\ Distinct(i.rest)
  /\ \A y \in ToSet(i.rest) : y.op \notin Heads
  /\ todo # <<>> /\ (Due(todo[1]) => todo[1] = Do(i.op, i.s, i.r))
  /\ i.op \in Heads => todo[1] = Do(i.op, i.s, i.r)

(* The item a turn takes is due, and nothing that ranks before it is.       *)
LEMMA Fired ==
  ASSUME WorkOK, OrderOK, NEW i \in Turn
  PROVE  Fires(i)
  <1>1. PICK n \in DOMAIN todo :
          /\ Due(todo[n]) /\ \A q \in 1 .. (n - 1) : ~Due(todo[q])
          /\ i = [op |-> todo[n].op, s |-> todo[n].s, r |-> todo[n].r, rest |-> SubSeq(todo, n + 1, Len(todo))]
    BY DEF Turn
  <1> DEFINE x == Do(i.op, i.s, i.r)
             b == i.rest
  <1>2. i.op = todo[n].op /\ i.s = todo[n].s /\ i.r = todo[n].r /\ b = SubSeq(todo, n + 1, Len(todo))
    BY <1>1
  <1>3. todo \in Seq(Item) /\ \A m \in DOMAIN todo : todo[m] \in Item /\ todo[m] \in Work
    BY DEF WorkOK, Work, ToSet
  <1>4. x = todo[n]
    BY <1>2, <1>3, Parts
  <1>5. Due(i)
    BY <1>1, <1>2 DEF Due
  <1> HIDE DEF b
  <1>6. /\ b \in Seq(Item) /\ n \in Nat /\ n >= 1
        /\ \A m \in DOMAIN b : m \in Nat /\ m >= 1 /\ m + n \in DOMAIN todo /\ b[m] = todo[m + n]
        /\ \A m \in DOMAIN todo : m \in Nat /\ (m > n => m - n \in DOMAIN b /\ b[m - n] = todo[m])
    BY <1>2, <1>3, RestOf
  <1>7. ToSet(b) \subseteq Work
    BY <1>6 DEF ToSet, Work
  <1>8. \A m \in DOMAIN todo : m \in 1 .. Len(todo)
    BY <1>3
  <1> HIDE DEF x
  <1>9. ASSUME NEW m \in DOMAIN todo, Due(todo[m]) PROVE m >= n
    <2>1. m \notin 1 .. (n - 1)
      BY <1>1, <1>9
    <2> QED BY <1>6, <1>8, <2>1
  <1>10. ASSUME NEW y \in Work, Due(y) PROVE y = x \/ y \in ToSet(b)
    <2>1. PICK m \in DOMAIN todo : y = todo[m]
      BY DEF Work, ToSet
    <2>2. m >= n
      BY <1>9, <1>10, <2>1
    <2>3. m = n \/ (m > n /\ m - n \in DOMAIN b /\ b[m - n] = todo[m])
      BY <1>6, <2>2
    <2> QED BY <1>4, <2>1, <2>3 DEF ToSet
  <1>11. ASSUME NEW y \in ToSet(b) PROVE Rank(i.op) <= Rank(y.op)
    <2>1. PICK m \in DOMAIN b : y = b[m]
      BY DEF ToSet
    <2>2. m + n \in DOMAIN todo /\ n < m + n /\ y = todo[m + n]
      BY <1>6, <2>1
    <2> QED BY <1>2, <2>2 DEF OrderOK, Sorted
  <1>12. ASSUME NEW y \in Work, Rank(y.op) < Rank(i.op) PROVE ~Due(y)
    <2>1. SUFFICES ASSUME Due(y) PROVE FALSE
      OBVIOUS
    <2>2. Rank(i.op) <= Rank(y.op)
      <3>1. x.op = i.op /\ Rank(i.op) \in 0 .. 14
        BY RankType, <1>2, <1>4
      <3> QED BY <1>10, <1>11, <2>1, <3>1
    <2>3. Rank(i.op) \in 0 .. 14 /\ Rank(y.op) \in 0 .. 14
      BY RankType
    <2> QED BY <1>12, <2>2, <2>3
  <1>13. i.op \in Once => x \notin ToSet(b)
    <2>1. SUFFICES ASSUME i.op \in Once, x \in ToSet(b) PROVE FALSE
      OBVIOUS
    <2>2. PICK m \in DOMAIN b : x = b[m]
      BY <2>1 DEF ToSet
    <2>3. m + n \in DOMAIN todo /\ n # m + n /\ todo[n] = todo[m + n]
      BY <1>4, <1>6, <2>2
    <2> QED BY <1>2, <2>1, <2>3 DEF OrderOK, Distinct
  <1>14. Sorted(b)
    <2> SUFFICES ASSUME NEW p \in DOMAIN b, NEW q \in DOMAIN b, p < q PROVE Rank(b[p].op) <= Rank(b[q].op)
      BY DEF Sorted
    <2>1. p + n \in DOMAIN todo /\ q + n \in DOMAIN todo /\ p + n < q + n
      BY <1>6
    <2> QED BY <1>6, <2>1 DEF OrderOK, Sorted
  <1>15. Distinct(b)
    <2> SUFFICES ASSUME NEW p \in DOMAIN b, NEW q \in DOMAIN b, b[p] = b[q], b[p].op \in Once PROVE p = q
      BY DEF Distinct
    <2>1. p + n \in DOMAIN todo /\ q + n \in DOMAIN todo /\ todo[p + n] = todo[q + n] /\ todo[p + n].op \in Once
      BY <1>6
    <2>2. p + n = q + n
      BY <2>1 DEF OrderOK, Distinct
    <2> QED BY <1>6, <2>2
  <1>16. ASSUME NEW y \in ToSet(b) PROVE y.op \notin Heads
    <2>1. PICK m \in DOMAIN b : y = b[m]
      BY DEF ToSet
    <2>2. m + n \in DOMAIN todo /\ y = todo[m + n] /\ m + n # 1
      BY <1>6, <2>1
    <2> QED BY <2>2 DEF OrderOK, HeadsFirst
  <1>17. 1 \in DOMAIN todo /\ todo # <<>>
    BY <1>3, <1>6, <1>8
  <1>18. Due(todo[1]) => todo[1] = x
    <2>1. Due(todo[1]) => n = 1
      BY <1>9, <1>6, <1>17
    <2> QED BY <1>4, <2>1
  <1>19. i.op \in Heads => todo[1] = x
    BY <1>2, <1>4 DEF OrderOK, HeadsFirst
  <1>20. x \in Work /\ x \in Item
    BY <1>3, <1>4
  <1> QED BY <1>5, <1>6, <1>7, <1>10, <1>11, <1>12, <1>13, <1>14, <1>15, <1>16, <1>17, <1>18, <1>19, <1>20 DEF Fires, x, b

(* No item is due before one that always is. *)
LEMMA Below ==
  ASSUME NEW i, Fires(i), NEW y \in Work, Rank(y.op) < Rank(i.op), Always(y.op)
  PROVE  FALSE
  BY DEF Fires, Due, Always

(* What comes of an item ranks no higher, comes once, and callbacks first.  *)
Fits(i, a) ==
  /\ a \in Seq(Item) /\ Sorted(a) /\ Distinct(a) /\ HeadsFirst(a)
  /\ \A y \in ToSet(a) : Rank(y.op) <= Rank(i.op) /\ (y.op \in Once => y \notin ToSet(i.rest))

(* It goes before the rest. *)
LEMMA FrontFacts ==
  ASSUME NEW i, Fires(i), NEW a, Fits(i, a), NEW c, c = a \o i.rest
  PROVE  /\ c \in Seq(Item) /\ Sorted(c) /\ Distinct(c) /\ HeadsFirst(c)
         /\ ToSet(c) = ToSet(a) \cup ToSet(i.rest)
         /\ a # <<>> => c # <<>> /\ c[1] = a[1]
  <1> DEFINE b == i.rest
  <1>2. /\ b \in Seq(Item) /\ a \in Seq(Item) /\ c = a \o b
        /\ Sorted(a) /\ Sorted(b) /\ Distinct(a) /\ Distinct(b)
    BY DEF Fires, Fits
  <1>3. \A x \in ToSet(a), y \in ToSet(b) : Rank(x.op) <= Rank(y.op)
    <2> TAKE x \in ToSet(a), y \in ToSet(b)
    <2>1. Rank(x.op) <= Rank(i.op) /\ Rank(i.op) <= Rank(y.op)
      BY DEF Fires, Fits
    <2>2. Rank(x.op) \in 0 .. 14 /\ Rank(i.op) \in 0 .. 14 /\ Rank(y.op) \in 0 .. 14
      BY RankType
    <2> QED BY <2>1, <2>2
  <1>4. \A x \in ToSet(a) : x.op \in Once => x \notin ToSet(b)
    BY DEF Fits
  <1>5. HeadsFirst(a)
    BY DEF Fits
  <1>6. \A n \in DOMAIN b : b[n].op \notin Heads
    BY DEF Fires, ToSet
  <1> HIDE DEF b
  <1>7. Sorted(c) /\ Distinct(c)
    BY <1>2, <1>3, <1>4, SortedJoin, DistinctJoin
  <1>8. /\ c \in Seq(Item) /\ ToSet(c) = ToSet(a) \cup ToSet(b)
        /\ Len(a) \in Nat /\ DOMAIN a = 1 .. Len(a)
        /\ \A n \in DOMAIN a : n \in DOMAIN c /\ c[n] = a[n]
        /\ \A n \in DOMAIN c :
             \/ n \in DOMAIN a /\ c[n] = a[n]
             \/ n \notin DOMAIN a /\ n > Len(a) /\ n - Len(a) \in DOMAIN b /\ c[n] = b[n - Len(a)]
    <2>1. a \in Seq(Item) /\ b \in Seq(Item) /\ c = a \o b
      BY <1>2
    <2>2. c \in Seq(Item) /\ ToSet(c) = ToSet(a) \cup ToSet(b)
      BY <2>1, Joined
    <2>3. Len(a) \in Nat /\ DOMAIN a = 1 .. Len(a)
      BY <2>1, Joined
    <2>4. \A n \in DOMAIN a : n \in DOMAIN c /\ c[n] = a[n]
      BY <2>1, Joined
    <2>5. \A n \in DOMAIN c :
             \/ n \in DOMAIN a /\ c[n] = a[n]
             \/ n \notin DOMAIN a /\ n > Len(a) /\ n - Len(a) \in DOMAIN b /\ c[n] = b[n - Len(a)]
      BY <2>1, Joined
    <2> QED BY <2>2, <2>3, <2>4, <2>5
  <1>9. a # <<>> => 1 \in DOMAIN a
    BY <1>2
  <1>11. HeadsFirst(c)
    BY <1>5, <1>6, <1>8 DEF HeadsFirst
  <1>12. a # <<>> => c # <<>> /\ c[1] = a[1]
    BY <1>8, <1>9
  <1> QED BY <1>7, <1>8, <1>11, <1>12 DEF b

(* Work that a call of the application puts in front.                       *)
CallOps == {"cancel", "endPinch", "unregister", "block", "app"}

(* A list without callbacks that must stand at its head.                    *)
Ready(t) ==
  /\ t \in Seq(Item) /\ Sorted(t) /\ Distinct(t) /\ Apart(ToSet(t))
  /\ \A y \in ToSet(t) : Typed(y) /\ y.op \notin Heads

(* What a call puts in front of such a list leaves it one.                  *)
LEMMA Pushed0 ==
  ASSUME NEW a \in Seq(Item), \A y \in ToSet(a) : y.op \in CallOps /\ Typed(y),
         NEW b, Ready(b), NEW c, c = a \o b
  PROVE  Ready(c) /\ ToSet(c) = ToSet(a) \cup ToSet(b)
  <1>1. \A y \in ToSet(a) : Rank(y.op) = 0 /\ y.op \notin Once \cup Heads
    BY Ranks DEF CallOps, Once, Heads
  <1>2. b \in Seq(Item) /\ Sorted(b) /\ Distinct(b) /\ Apart(ToSet(b))
    BY DEF Ready
  <1>3. c \in Seq(Item) /\ ToSet(c) = ToSet(a) \cup ToSet(b)
    BY <1>2, Joined
  <1>4. \A n \in DOMAIN a : a[n] \in ToSet(a)
    BY DEF ToSet
  <1>5. Sorted(a)
    <2> SUFFICES ASSUME NEW m \in DOMAIN a, NEW n \in DOMAIN a PROVE Rank(a[m].op) <= Rank(a[n].op)
      BY DEF Sorted
    <2>1. Rank(a[m].op) = 0 /\ Rank(a[n].op) = 0
      BY <1>1, <1>4
    <2> QED BY <2>1
  <1>6. Distinct(a)
    BY <1>1, <1>4 DEF Distinct
  <1>7. \A x \in ToSet(a), y \in ToSet(b) : Rank(x.op) <= Rank(y.op)
    <2> TAKE x \in ToSet(a), y \in ToSet(b)
    <2>1. Rank(x.op) = 0 /\ Rank(y.op) \in 0 .. 14
      BY <1>1, RankType
    <2> QED BY <2>1
  <1>8. Sorted(c) /\ Distinct(c)
    BY <1>1, <1>2, <1>5, <1>6, <1>7, SortedJoin, DistinctJoin
  <1>9. \A y \in ToSet(c) : Typed(y) /\ y.op \notin Heads
    BY <1>1, <1>3 DEF Ready
  <1>10. Apart(ToSet(c))
    <2>1. \A x \in ToSet(c) : x \in ToSet(b) \/ Rank(x.op) = 0
      BY <1>1, <1>3
    <2>2. \A x, y \in ToSet(c) : Rank(x.op) \in 1 .. 3 /\ Rank(y.op) \in 1 .. 3 => x.s = y.s
      BY <1>2, <2>1 DEF Apart
    <2>3. \A x, y \in ToSet(c) : Rank(x.op) \in 1 .. 7 => Rank(y.op) \notin 8 .. 12
      BY <1>2, <2>1 DEF Apart
    <2>4. \A x, y \in ToSet(c) : Rank(x.op) = 5 => Rank(y.op) \notin 1 .. 4
      BY <1>2, <2>1 DEF Apart
    <2> QED BY <2>2, <2>3, <2>4 DEF Apart
  <1> QED BY <1>3, <1>8, <1>9, <1>10 DEF Ready

(* Put in todo, it is work in order. *)
LEMMA ReadyNext ==
  ASSUME NEW c, Ready(c), todo' = c, input' = input
  PROVE  WorkOK' /\ OrderOK'
  <1>1. c \in Seq(Item) /\ Sorted(c) /\ Distinct(c) /\ Apart(ToSet(c)) /\ Work' = ToSet(c)
    BY DEF Ready, Work
  <1>2. \A y \in ToSet(c) : Typed(y)' /\ y.op \notin Heads
    BY DEF Ready, Typed
  <1>3. HeadsFirst(c)
    <2>1. \A n \in DOMAIN c : c[n] \in ToSet(c)
      BY DEF ToSet
    <2> QED BY <1>2, <2>1 DEF HeadsFirst
  <1> QED BY <1>1, <1>2, <1>3 DEF WorkOK, OrderOK

(* The rest is such a list. *)
LEMMA RestReady ==
  ASSUME WorkOK, OrderOK, NEW i, Fires(i)
  PROVE  Ready(i.rest)
  <1>1. i.rest \in Seq(Item) /\ Sorted(i.rest) /\ Distinct(i.rest) /\ ToSet(i.rest) \subseteq Work
    BY DEF Fires
  <1>2. Apart(ToSet(i.rest))
    BY <1>1 DEF OrderOK, Apart
  <1>3. \A y \in ToSet(i.rest) : Typed(y) /\ y.op \notin Heads
    BY <1>1 DEF Fires, WorkOK
  <1> QED BY <1>1, <1>2, <1>3 DEF Ready

LEMMA Dues ==
  /\ \A op, s, r : Always(op) => Due(Do(op, s, r))
  /\ \A s, r : Due(Do("cancel", s, r)) <=> track[s].used /\ Observes(r, s)
  /\ \A s, r : Due(Do("endPinch", s, r)) <=> pinch[r] # {} /\ s \in pinch[r] \cup {0}
  /\ \A s, r : Due(Do("up", s, r)) <=> Owns(r, s) /\ Observes(r, s)
  BY Parts DEF Due, Always

SameTracks ==
  /\ input' = input /\ live' = live
  /\ \A s \in Slots :
       /\ track'[s].used = track[s].used /\ track'[s].owners = track[s].owners
       /\ track'[s].contact = track[s].contact
  /\ \A r \in Recognizers, s \in Slots :
       /\ Observes(r, s)' => Observes(r, s)
       /\ flags'[r][s] # {} => flags[r][s] # {} \/ (track[s].used /\ Owns(r, s))

LEMMA TracksKept ==
  ASSUME GInv, SameTracks, TypeOK', OwnersOK', WorkOK', mounted <= mounted',
         \A r \in ToSet(recs') : r \in ToSet(recs) \/ r > mounted,
         \A y \in Work' :
           \/ y \in Work
           \/ /\ y.op # "mount" /\ (Unmounting => Rank(y.op) = 0)
              /\ y.op = "cancel" /\ track[y.s].used /\ Observes(y.r, y.s) => Owns(y.r, y.s),
         \A s \in Slots :
           track[s].used /\ (Has("retire", s, None) \/ Has("release", s, None)) =>
             \/ Has("retire", s, None)' \/ Has("release", s, None)'
             \/ track[s].contact \in ToSet(input.touches)
  PROVE  UnmountOK' /\ FlagsOK' /\ LiveOK' /\ OnScreen' /\ (Unmounting' => Unmounting)
  <1>1. TypeOK /\ OwnersOK /\ WorkOK /\ UnmountOK /\ FlagsOK /\ LiveOK /\ OnScreen
    BY DEF GInv
  <1>2. \A s \in Slots : track'[s].used = track[s].used /\ \A r : Owns(r, s)' <=> Owns(r, s)
    BY DEF SameTracks, Owns
  <1>3. Unmounting' => Unmounting
    BY DEF Unmounting
  <1>4. UnmountOK'
    <2> SUFFICES ASSUME Unmounting' PROVE UnmountOK'
      BY DEF UnmountOK
    <2>1. \A s \in Slots : ~track'[s].used
      BY <1>1, <1>2, <1>3 DEF UnmountOK
    <2>2. \A x \in Work' : x.op = "mount" \/ Rank(x.op) = 0
      BY <1>1, <1>3 DEF UnmountOK
    <2> QED BY <2>1, <2>2 DEF UnmountOK
  <1>5. FlagsOK'
    <2>1. ASSUME NEW r \in Recognizers, NEW s \in Slots, r > mounted' PROVE flags'[r][s] = {}
      <3>1. r > mounted
        <4>1. mounted <= mounted' /\ mounted \in Int /\ mounted' \in Int /\ r \in Int
          BY <1>1, GesturesAssumption DEF TypeOK, Recognizers
        <4> QED BY <2>1, <4>1
      <3>2. flags[r][s] = {}
        BY <1>1, <3>1 DEF FlagsOK
      <3>3. ~Owns(r, s)
        <4>1. r \notin 1 .. mounted
          <5>1. r \in Int /\ mounted \in Int
            BY <1>1, GesturesAssumption DEF TypeOK, Recognizers
          <5> QED BY <3>1, <5>1
        <4>2. ToSet(track[s].owners) \subseteq 1 .. mounted
          BY <1>1 DEF OwnersOK
        <4> QED BY <4>1, <4>2 DEF Owns
      <3> QED BY <3>2, <3>3 DEF SameTracks
    <2>2. ASSUME NEW r \in ToSet(recs'), NEW s \in Slots, flags'[r][s] # {}
          PROVE  track'[s].used /\ Owns(r, s)'
      <3>1. r \in Recognizers
        <4>1. recs' \in Seq(1 .. mounted') /\ mounted' \in 0 .. MaxRecognizers
          BY DEF TypeOK
        <4>2. r \in 1 .. mounted'
          BY <4>1 DEF ToSet
        <4> QED BY <4>1, <4>2, GesturesAssumption DEF Recognizers
      <3>2. flags[r][s] # {} \/ (track[s].used /\ Owns(r, s))
        BY <2>2, <3>1 DEF SameTracks
      <3>3. r \in ToSet(recs) \/ flags[r][s] = {}
        BY <1>1, <3>1 DEF FlagsOK
      <3> QED BY <1>1, <1>2, <3>2, <3>3 DEF FlagsOK, Sane
    <2>3. ASSUME NEW x \in Work', x.op = "cancel", track'[x.s].used, Observes(x.r, x.s)'
          PROVE  Owns(x.r, x.s)'
      <3>1. x.s \in Slots /\ x.r \in Recognizers
        BY <2>3 DEF WorkOK, Typed, SlotOps, RecOps
      <3>2. track[x.s].used /\ Observes(x.r, x.s)
        BY <2>3, <3>1 DEF SameTracks
      <3>3. Owns(x.r, x.s)
        BY <1>1, <2>3, <3>2 DEF FlagsOK
      <3> QED BY <1>2, <3>1, <3>3
    <2> QED BY <2>1, <2>2, <2>3 DEF FlagsOK, Sane
  <1>6. LiveOK'
    <2>1. {s \in Slots : track'[s].used} = {s \in Slots : track[s].used}
      BY <1>2
    <2> QED BY <1>1, <2>1 DEF LiveOK, SameTracks
  <1>7. OnScreen'
    BY <1>1 DEF OnScreen, SameTracks
  <1> QED BY <1>3, <1>4, <1>5, <1>6, <1>7

LEMMA HeardSame ==
  ASSUME NEW r \in Recognizers, NEW s \in Slots, HeardAt(r, s), heard'[r][s] = heard[r][s],
         track'[s].used = track[s].used, Owns(r, s)' <=> Owns(r, s), Observes(r, s)' <=> Observes(r, s),
         Ending(s)' <=> Ending(s),
         Has("onCancel", s, r) => Has("onCancel", s, r)',
         Has("onDown", s, r) => Has("onDown", s, r)',
         track[s].used /\ Owns(r, s) /\ Observes(r, s)
             /\ (Has("up", s, r) \/ Has("onUp", s, r) \/ Has("cancel", s, r))
           => Has("up", s, r)' \/ Has("onUp", s, r)' \/ Has("cancel", s, r)',
         Has("up", s, r)' \/ Has("onUp", s, r)' => Has("up", s, r) \/ Has("onUp", s, r),
         Has("onUp", s, r)' => ~Has("up", s, r)'
  PROVE  HeardAt(r, s)'
  BY DEF HeardAt

LEMMA WonSame ==
  ASSUME NEW s \in Slots, WonAt(s), won'[s] = won[s], track'[s].used => track[s].used,
         \A r \in Recognizers : Has("claim", s, r) => Has("claim", s, r)',
         Ending(s) => Ending(s)',
         (\A x \in Work : x.op \in {"tap", "onTap"} => x.s # s)
           => \A x \in Work' : x.op \in {"tap", "onTap"} => x.s # s,
         \A q \in Recognizers : Owns(q, s)' /\ Observes(q, s)' => Owns(q, s) /\ Observes(q, s),
         \A q \in Recognizers :
           track'[s].used /\ Owns(q, s)' /\ Observes(q, s)' /\ (track[s].claimed = q \/ Has("cancel", s, q))
             => track'[s].claimed = q \/ Has("cancel", s, q)'
  PROVE  WonAt(s)'
  <1> SUFFICES ASSUME track'[s].used, won'[s] # {}
               PROVE  \/ \E r \in Recognizers : Has("claim", s, r)'
                      \/ Ending(s)' /\ \A x \in Work' : x.op \in {"tap", "onTap"} => x.s # s
                      \/ \A q \in Recognizers :
                           Owns(q, s)' /\ Observes(q, s)' => track'[s].claimed = q \/ Has("cancel", s, q)'
    BY DEF WonAt
  <1>1. \/ \E r \in Recognizers : Has("claim", s, r)
        \/ Ending(s) /\ \A x \in Work : x.op \in {"tap", "onTap"} => x.s # s
        \/ \A q \in Recognizers :
             Owns(q, s) /\ Observes(q, s) => track[s].claimed = q \/ Has("cancel", s, q)
    BY DEF WonAt
  <1>2. CASE \E r \in Recognizers : Has("claim", s, r)
    BY <1>2
  <1>3. CASE Ending(s) /\ \A x \in Work : x.op \in {"tap", "onTap"} => x.s # s
    BY <1>3
  <1>4. CASE \A q \in Recognizers :
               Owns(q, s) /\ Observes(q, s) => track[s].claimed = q \/ Has("cancel", s, q)
    BY <1>4
  <1> QED BY <1>1, <1>2, <1>3, <1>4

Hearers ==
  {"onDown", "onMove", "onPanStart", "onPanMove", "onLongPress", "onUp", "onTap", "onPanEnd", "onCancel"}

LEMMA ItemSame ==
  ASSUME NEW x, ItemOK(x),
         x.op \in SlotOps => /\ track'[x.s].used = track[x.s].used
                             /\ \A r : Owns(r, x.s)' <=> Owns(r, x.s)
                             /\ Ending(x.s) => Ending(x.s)',
         x.op \in {"onTap", "onLongPress", "onPanStart"} => won'[x.s] = won[x.s],
         x.op \in Hearers => heard'[x.r][x.s] = heard[x.r][x.s],
         x.op = "onDown" =>
           (Observes(x.r, x.s) \/ Has("onCancel", x.s, x.r)
              => Observes(x.r, x.s)' \/ Has("onCancel", x.s, x.r)'),
         x.op = "onCancel" =>
           /\ Observes(x.r, x.s)' => Observes(x.r, x.s)
           /\ Has("onDown", x.s, x.r) => Has("onDown", x.s, x.r)',
         x.op = "claim" => \A o \in Recognizers : x.s \in pinch'[o] => x.s \in pinch[o],
         x.op = "onTap" => ((\A y \in Work : y.op # "tap") => \A y \in Work' : y.op # "tap"),
         x.op = "onPanEnd" => (Has("onUp", x.s, x.r) => Has("onUp", x.s, x.r)'),
         x.op \in {"onLongPress", "onPanStart"} => (Has("claim", x.s, x.r) => Has("claim", x.s, x.r)')
  PROVE  ItemOK(x)'
  <1>1. /\ x.op \in Told => track'[x.s].used /\ Owns(x.r, x.s)'
        /\ x.op \in {"tap", "release", "longPress", "panStart"} => track'[x.s].used
        /\ x.op \in {"up", "onUp", "onPanEnd", "tap", "onTap"} => Ending(x.s)'
    BY DEF ItemOK, Told, SlotOps
  <1>2. /\ x.op \in {"onMove", "onPanStart", "onPanMove", "onLongPress", "onUp"} => heard'[x.r][x.s] = "onDown"
        /\ x.op = "onTap" => heard'[x.r][x.s] = "onUp" /\ \A y \in Work' : y.op # "tap"
    BY DEF ItemOK, Hearers
  <1>4. x.op = "onDown" =>
          \/ heard'[x.r][x.s] = "nothing" /\ (Observes(x.r, x.s)' \/ Has("onCancel", x.s, x.r)')
          \/ heard'[x.r][x.s] = "onCancel"
    BY DEF ItemOK, Hearers
  <1>5. x.op = "onCancel" =>
          /\ ~Observes(x.r, x.s)'
          /\ \/ heard'[x.r][x.s] \in {"onDown", "onUp"}
             \/ heard'[x.r][x.s] = "nothing" /\ Has("onDown", x.s, x.r)'
    BY DEF ItemOK, Hearers
  <1>3. /\ x.op = "onPanEnd" => heard'[x.r][x.s] \in {"onUp", "lateCancel"} \/ Has("onUp", x.s, x.r)'
        /\ x.op \in {"onTap", "onLongPress", "onPanStart"} => won'[x.s] = {}
        /\ x.op \in {"onLongPress", "onPanStart"} => Has("claim", x.s, x.r)'
        /\ x.op = "claim" => \A o \in Recognizers : x.s \in pinch'[o] => o = x.r
    BY DEF ItemOK, Hearers
  <1> QED BY <1>1, <1>2, <1>3, <1>4, <1>5 DEF ItemOK

LEMMA EndsSame ==
  ASSUME NEW r \in Recognizers, EndsAt(r), pinch'[r] = pinch[r], r \in pinched' <=> r \in pinched,
         r \in pinched => pinch[r] # {},
         r \in ToSet(recs) => r \in ToSet(recs') \/ pinch[r] = {} \/ Has("endPinch", 0, r)',
         pinch[r] # {} /\ Has("endPinch", 0, r) => Has("endPinch", 0, r)',
         Unmounting' => Unmounting,
         \A y \in Work' : y.op = "unregister" /\ y.r = r => y \in Work \/ Has("endPinch", 0, r)'
  PROVE  EndsAt(r)'
  BY DEF EndsAt

LEMMA HeldSame ==
  ASSUME NEW r \in Recognizers, NEW s \in Slots, Held(r, s),
         track'[s].used = track[s].used, Owns(r, s)' <=> Owns(r, s), Observes(r, s) => Observes(r, s)',
         track[s].claimed = r => track'[s].claimed = r,
         Has("claim", s, r) => track'[s].claimed = r \/ Has("claim", s, r)',
         Ending(s)' => Ending(s),
         Has("endPinch", s, r) \/ Has("cancel", s, r) => Has("endPinch", s, r)' \/ Has("cancel", s, r)'
  PROVE  Held(r, s)'
  BY DEF Held

LEMMA StartsSame ==
  ASSUME StartsOK, WorkOK, pinch' = pinch, pinched' = pinched,
         \A r \in Recognizers : Has("onPinchStart", 0, r) => Has("onPinchStart", 0, r)',
         \A y \in Work' :
           \/ y \in Work
           \/ y.op \notin {"onPinchEnd", "onPinchStart"} /\ (y.op = "onPinchMove" => y.r \in pinched)
  PROVE  StartsOK'
  <1>1. \A r \in Recognizers : pinch'[r] # {} /\ r \notin pinched' => Has("onPinchStart", 0, r)'
    BY DEF StartsOK
  <1>2. ASSUME NEW x \in Work', x.op = "onPinchEnd"
        PROVE  pinch'[x.r] = {} /\ (x.r \in pinched' \/ Has("onPinchStart", 0, x.r)')
    BY <1>2 DEF StartsOK, WorkOK, Typed, RecOps, Callbacks
  <1>3. ASSUME NEW x \in Work', x.op = "onPinchMove" PROVE x.r \in pinched'
    BY <1>3 DEF StartsOK
  <1>4. ASSUME NEW x \in Work', x.op = "onPinchStart" PROVE x.s = 0 /\ x.r \notin pinched'
    BY <1>4 DEF StartsOK
  <1> QED BY <1>1, <1>2, <1>3, <1>4 DEF StartsOK

-----------------------------------------------------------------------------
(* Steps that tell nothing new: contacts, gestures and pinches stay, and    *)
(* the work to do changes.                                                  *)

(* No pinch has just been broken or ended.                                  *)
Calm ==
  /\ \A r \in Recognizers : ~Broken(r) /\ (r \in pinched => pinch[r] # {})
  /\ \A y \in Work : y.op # "onPinchEnd"

SameContacts ==
  /\ SameTracks /\ pinch' = pinch /\ heard' = heard /\ won' = won /\ pinched' = pinched
  /\ \A s \in Slots : track'[s].claimed = track[s].claimed
  /\ \A r \in Recognizers, s \in Slots : Observes(r, s) => Observes(r, s)'

SameRecognizers ==
  /\ mounted <= mounted'
  /\ \A r \in ToSet(recs') : r \in ToSet(recs) \/ r > mounted
  /\ \A r \in ToSet(recs) : r \in ToSet(recs') \/ pinch[r] = {} \/ Has("endPinch", 0, r)'

Lasting ==
  {"cancel", "endPinch", "onCancel", "onDown", "release", "up", "onUp", "claim", "onPinchStart",
   "retire", "mount"}
New(y) ==
  /\ y.op \notin {"release", "up", "onUp", "tap", "mount", "onPinchStart", "onPinchEnd", "onDown",
                  "onCancel"}
  /\ y.op = "onTap" => Has("tap", y.s, None)
  /\ ItemOK(y)' /\ (Unmounting => Rank(y.op) = 0)
  /\ y.op = "cancel" /\ track[y.s].used /\ Observes(y.r, y.s) => Owns(y.r, y.s)
  /\ y.op = "onPinchMove" => y.r \in pinched
  /\ y.op = "unregister" => Has("endPinch", 0, y.r)'
SameWork ==
  /\ \A y \in Work : Due(y) /\ y.op \in Lasting => y \in Work'
  /\ \A y \in Work' : y \in Work \/ New(y)

(* A step that changes no contact and no recognizer, and whose items are in *)
(* order.                                                                   *)
LEMMA SteadyKeeps ==
  ASSUME GInv, Calm, SameContacts, SameRecognizers, SameWork, TypeOK', OwnersOK', WorkOK', OrderOK'
  PROVE  GInv'
  <1>1. /\ WorkOK /\ HeardOK /\ WonOK /\ ItemsOK /\ EndsOK /\ HeldOK /\ StartsOK /\ TypeOK
    BY DEF GInv
  <1>2. \A y \in Work : y \in Item /\ Typed(y) /\ y = Do(y.op, y.s, y.r)
    <2>1. \A y \in Work : y \in Item
      BY <1>1 DEF WorkOK, Work, ToSet
    <2> QED BY <1>1, <2>1, Parts DEF WorkOK
  <1>3. \A s \in Slots : track'[s].used = track[s].used /\ \A r : Owns(r, s)' <=> Owns(r, s)
    BY DEF SameContacts, SameTracks, Owns
  <1>4. \A s \in Nat, r \in Recognizers \cup {None} :
          /\ Has("onCancel", s, r) => Has("onCancel", s, r)'
          /\ Has("onDown", s, r) => Has("onDown", s, r)'
          /\ Has("release", s, r) => Has("release", s, r)'
          /\ Has("retire", s, r) => Has("retire", s, r)'
          /\ Has("onUp", s, r) => Has("onUp", s, r)'
          /\ Has("claim", s, r) => Has("claim", s, r)'
    BY Parts DEF SameWork, Has, Due, Lasting
  <1>5. \A s \in Nat, r \in Recognizers \cup {None} :
          /\ Has("cancel", s, r) /\ track[s].used /\ Observes(r, s) => Has("cancel", s, r)'
          /\ Has("endPinch", s, r) /\ pinch[r] # {} /\ s \in pinch[r] \cup {0} => Has("endPinch", s, r)'
          /\ Has("up", s, r) /\ Owns(r, s) /\ Observes(r, s) => Has("up", s, r)'
    BY Parts DEF SameWork, Has, Due, Lasting
  <1>6. \A s \in Nat, r \in Recognizers \cup {None} :
          /\ Has("release", s, r)' => Has("release", s, r)
          /\ Has("up", s, r)' => Has("up", s, r)
          /\ Has("onUp", s, r)' => Has("onUp", s, r)
    BY Parts DEF SameWork, Has, New
  <1>7. Slots \subseteq Nat /\ None \notin Recognizers
    BY GesturesAssumption DEF Slots, Recognizers
  <1>8. UnmountOK' /\ FlagsOK' /\ LiveOK' /\ OnScreen' /\ (Unmounting' => Unmounting)
    <2>1. \A y \in Work' :
            \/ y \in Work
            \/ /\ y.op # "mount" /\ (Unmounting => Rank(y.op) = 0)
               /\ y.op = "cancel" /\ track[y.s].used /\ Observes(y.r, y.s) => Owns(y.r, y.s)
      BY DEF SameWork, New
    <2>2. \A s \in Slots :
            track[s].used /\ (Has("retire", s, None) \/ Has("release", s, None)) =>
              \/ Has("retire", s, None)' \/ Has("release", s, None)'
              \/ track[s].contact \in ToSet(input.touches)
      BY <1>4, <1>7
    <2> QED BY <2>1, <2>2, TracksKept DEF SameContacts, SameRecognizers
  <1>9. \A s \in Slots : Ending(s)' <=> Ending(s)
    BY <1>4, <1>6, <1>7 DEF Ending
  <1>10. HeardOK'
    <2> SUFFICES ASSUME NEW r \in Recognizers, NEW s \in Slots PROVE HeardAt(r, s)'
      BY DEF HeardOK
    <2>1. HeardAt(r, s) /\ s \in Nat /\ r \in Recognizers \cup {None}
      BY <1>1, <1>7 DEF HeardOK
    <2>2. heard' = heard /\ (Observes(r, s)' <=> Observes(r, s))
      BY DEF SameContacts, SameTracks
    <2>3. Has("onUp", s, r)' => ~Has("up", s, r)'
      BY <1>6, <2>1 DEF HeardAt
    <2>4. /\ Has("onCancel", s, r) => Has("onCancel", s, r)'
          /\ Has("onDown", s, r) => Has("onDown", s, r)'
          /\ Has("up", s, r)' \/ Has("onUp", s, r)' => Has("up", s, r) \/ Has("onUp", s, r)
      BY <1>4, <1>6, <2>1
    <2>5. track[s].used /\ Owns(r, s) /\ Observes(r, s)
              /\ (Has("up", s, r) \/ Has("onUp", s, r) \/ Has("cancel", s, r))
            => Has("up", s, r)' \/ Has("onUp", s, r)' \/ Has("cancel", s, r)'
      BY <1>4, <1>5, <2>1
    <2> HIDE DEF HeardAt
    <2> QED BY <1>3, <1>9, <2>1, <2>2, <2>3, <2>4, <2>5, HeardSame
  <1>11. WonOK'
    <2> SUFFICES ASSUME NEW s \in Slots PROVE WonAt(s)'
      BY DEF WonOK
    <2>1. WonAt(s) /\ s \in Nat /\ won'[s] = won[s] /\ track'[s].claimed = track[s].claimed
      BY <1>1, <1>7 DEF WonOK, SameContacts
    <2>2. (\A x \in Work : x.op \in {"tap", "onTap"} => x.s # s)
            => \A x \in Work' : x.op \in {"tap", "onTap"} => x.s # s
      BY Parts DEF SameWork, New, Has
    <2>3. \A q \in Recognizers : Owns(q, s)' /\ Observes(q, s)' => Owns(q, s) /\ Observes(q, s)
      BY <1>3 DEF SameContacts, SameTracks
    <2>4. \A q \in Recognizers :
            track'[s].used /\ Owns(q, s)' /\ Observes(q, s)' /\ (track[s].claimed = q \/ Has("cancel", s, q))
              => track'[s].claimed = q \/ Has("cancel", s, q)'
      <3> TAKE q \in Recognizers
      <3> HAVE track'[s].used /\ Owns(q, s)' /\ Observes(q, s)' /\ (track[s].claimed = q \/ Has("cancel", s, q))
      <3>1. Has("cancel", s, q) => Has("cancel", s, q)'
        BY <1>3, <1>5, <2>1, <2>3
      <3> QED BY <2>1, <3>1
    <2>5. \A r \in Recognizers : Has("claim", s, r) => Has("claim", s, r)'
      BY <1>4, <2>1
    <2> QED BY <1>3, <1>9, <2>1, <2>2, <2>3, <2>4, <2>5, WonSame
  <1>12. ItemsOK'
    <2> SUFFICES ASSUME NEW x \in Work, x \in Work' PROVE ItemOK(x)'
      BY DEF ItemsOK, SameWork, New
    <2>1. ItemOK(x) /\ x \in Item /\ Typed(x)
      BY <1>1, <1>2 DEF ItemsOK
    <2>2. /\ x.op \in SlotOps => x.s \in Slots /\ x.s \in Nat
          /\ x.op \in RecOps => x.r \in Recognizers
      BY <1>7, <2>1 DEF Typed
    <2>3. heard' = heard /\ won' = won /\ pinch' = pinch
      BY DEF SameContacts
    <2>4. (\A y \in Work : y.op # "tap") => \A y \in Work' : y.op # "tap"
      BY DEF SameWork, New
    <2>5. /\ x.op = "onPanEnd" => (Has("onUp", x.s, x.r) => Has("onUp", x.s, x.r)')
          /\ x.op \in {"onLongPress", "onPanStart"} => (Has("claim", x.s, x.r) => Has("claim", x.s, x.r)')
          /\ x.op = "onDown" => (Has("onCancel", x.s, x.r) => Has("onCancel", x.s, x.r)')
          /\ x.op = "onCancel" => (Has("onDown", x.s, x.r) => Has("onDown", x.s, x.r)')
      BY <1>4, <2>2 DEF SlotOps, RecOps, Callbacks
    <2>6. x.op \in {"onDown", "onCancel"} => (Observes(x.r, x.s)' <=> Observes(x.r, x.s))
      BY <2>2 DEF SameContacts, SameTracks, SlotOps, RecOps, Callbacks
    <2>7. x.op \in SlotOps => /\ track'[x.s].used = track[x.s].used
                              /\ \A r : Owns(r, x.s)' <=> Owns(r, x.s)
                              /\ Ending(x.s) => Ending(x.s)'
      BY <1>3, <1>9, <2>2
    <2> QED BY <2>1, <2>3, <2>4, <2>5, <2>6, <2>7, ItemSame
  <1>13. \A r \in Recognizers : Has("endPinch", 0, r) /\ pinch[r] # {} => Has("endPinch", 0, r)'
    BY <1>5
  <1>14. EndsOK'
    <2> SUFFICES ASSUME NEW r \in Recognizers PROVE EndsAt(r)'
      BY DEF EndsOK
    <2>1. EndsAt(r) /\ pinch' = pinch /\ pinched' = pinched
      BY <1>1 DEF EndsOK, SameContacts
    <2>2. r \in ToSet(recs) => r \in ToSet(recs') \/ pinch[r] = {} \/ Has("endPinch", 0, r)'
      BY DEF SameRecognizers
    <2>3. \A y \in Work' : y.op = "unregister" /\ y.r = r => y \in Work \/ Has("endPinch", 0, r)'
      BY DEF SameWork, New
    <2>4. r \in pinched => pinch[r] # {}
      BY DEF Calm
    <2> QED BY <1>8, <1>13, <2>1, <2>2, <2>3, <2>4, EndsSame
  <1>15. HeldOK'
    <2>1. pinch' = pinch
      BY DEF SameContacts
    <2>2. ASSUME NEW r \in Recognizers, NEW s \in pinch[r] PROVE Unmounting' \/ Held(r, s)'
      <3>1. s \in Slots /\ s \in Nat /\ pinch[r] # {}
        BY <1>1, <1>7 DEF TypeOK
      <3>2. CASE Held(r, s)
        <4>1. track'[s].claimed = track[s].claimed /\ (Observes(r, s) => Observes(r, s)')
          BY <3>1 DEF SameContacts
        <4>2. Has("claim", s, r) => Has("claim", s, r)'
          BY <1>4, <3>1
        <4>3. Has("endPinch", s, r) \/ Has("cancel", s, r) => Has("endPinch", s, r)' \/ Has("cancel", s, r)'
          BY <1>5, <3>1, <3>2 DEF Held
        <4> QED BY <1>3, <1>9, <3>1, <3>2, <4>1, <4>2, <4>3, HeldSame
      <3>3. CASE Unmounting
        BY <3>3 DEF Unmounting, SameWork, Due, Lasting
      <3> QED BY <1>1, <3>2, <3>3 DEF HeldOK, Calm
    <2> QED BY <1>1, <2>1, <2>2 DEF HeldOK
  <1>16. StartsOK'
    <2>1. pinch' = pinch /\ pinched' = pinched
      BY DEF SameContacts
    <2>2. \A r \in Recognizers : Has("onPinchStart", 0, r) => Has("onPinchStart", 0, r)'
      <3> SUFFICES ASSUME NEW r \in Recognizers, Has("onPinchStart", 0, r)
                   PROVE  Has("onPinchStart", 0, r)'
        OBVIOUS
      <3>1. PICK z : z = Do("onPinchStart", 0, r)
        OBVIOUS
      <3>2. z \in Work /\ z.op = "onPinchStart" /\ Due(z) /\ z.op \in Lasting
        BY <3>1, Parts DEF Has, Due, Lasting
      <3> QED BY <3>1, <3>2 DEF SameWork, Has
    <2>3. \A y \in Work' :
            \/ y \in Work
            \/ y.op \notin {"onPinchEnd", "onPinchStart"} /\ (y.op = "onPinchMove" => y.r \in pinched)
      BY DEF SameWork, New
    <2> QED BY <1>1, <2>1, <2>2, <2>3, StartsSame
  <1> QED BY <1>8, <1>10, <1>11, <1>12, <1>14, <1>15, <1>16 DEF GInv

(* Who may stand first. *)
LEMMA AtHead ==
  ASSUME GInv, NEW i, Fires(i)
  PROVE  /\ i.op # "endPinch" => \A r \in Recognizers : ~Broken(r)
         /\ i.op # "onPinchEnd" => \A r \in Recognizers : r \in pinched => pinch[r] # {}
         /\ \A y \in Work : y.op \in Heads => y = Do(i.op, i.s, i.r)
  <1>1. todo # <<>> /\ (Due(todo[1]) => todo[1] = Do(i.op, i.s, i.r)) /\ Do(i.op, i.s, i.r).op = i.op
    BY Parts DEF Fires
  <1>2. ASSUME NEW r \in Recognizers, Broken(r) PROVE i.op = "endPinch"
    BY <1>1, <1>2 DEF Broken, Due
  <1>3. ASSUME NEW r \in Recognizers, r \in pinched, pinch[r] = {} PROVE i.op = "onPinchEnd"
    BY <1>1, <1>3 DEF GInv, EndsOK, EndsAt, Due
  <1>4. ASSUME NEW y \in Work, y.op \in Heads PROVE y = Do(i.op, i.s, i.r)
    <2>1. PICK n \in DOMAIN todo : y = todo[n]
      BY DEF Work, ToSet
    <2>2. n = 1
      BY <1>4, <2>1 DEF GInv, OrderOK, HeadsFirst
    <2>3. Due(y)
      BY <1>4 DEF Heads, Due
    <2> QED BY <1>1, <2>1, <2>2, <2>3
  <1> QED BY <1>2, <1>3, <1>4

(* A turn that is not about a pinch's end finds every pinch in order.       *)
LEMMA CalmNow ==
  ASSUME GInv, NEW i, Fires(i), i.op \notin {"endPinch", "onPinchEnd"}
  PROVE  Calm
  <1>1. Do(i.op, i.s, i.r).op = i.op
    BY Parts
  <1>2. \A y \in Work : y.op # "onPinchEnd"
    BY <1>1, AtHead DEF Heads
  <1> QED BY <1>2, AtHead DEF Calm

(* Nothing is under way when nothing is due. *)
LEMMA IdleFacts ==
  ASSUME GInv, Idle
  PROVE  /\ Calm /\ ~Unmounting
         /\ \A y \in Work : ~Due(y)
  <1>1. \A y \in Work : ~Due(y)
    BY DEF Idle, Work, ToSet
  <1>2. todo # <<>> => todo[1] \in Work
    BY DEF GInv, WorkOK, Work, ToSet
  <1>3. \A r \in Recognizers : ~Broken(r) /\ (r \in pinched => pinch[r] # {})
    BY <1>1, <1>2 DEF Broken, Due, GInv, EndsOK, EndsAt
  <1>4. \A y \in Work : y.op \notin {"onPinchEnd", "onPinchStart", "mount"}
    BY <1>1 DEF Due
  <1> QED BY <1>1, <1>3, <1>4 DEF Calm, Unmounting

(* A step that puts calls in front of the rest keeps the invariant.         *)
CallItem(y) ==
  /\ y.op \in CallOps /\ Typed(y)
  /\ y.op = "cancel" /\ track[y.s].used /\ Observes(y.r, y.s) => Owns(y.r, y.s)
  /\ y.op = "unregister" => Has("endPinch", 0, y.r)'

LEMMA CallIsNew ==
  ASSUME NEW y, CallItem(y)
  PROVE  New(y)
  <1>1. ItemOK(y)'
    BY DEF CallItem, CallOps, ItemOK, Told
  <1> QED BY <1>1, Ranks DEF CallItem, CallOps, New

(* Whatever a call or a callback puts in front keeps the invariant.         *)
LEMMA PushKeeps ==
  ASSUME GInv, Calm, NEW b, Ready(b), NEW a \in Seq(Item), \A y \in ToSet(a) : CallItem(y),
         todo' = a \o b,
         \A y \in Work : Due(y) /\ y.op \in Lasting => y \in ToSet(b),
         \A y \in ToSet(b) : y \in Work \/ New(y),
         SameContacts, SameRecognizers, TypeOK', OwnersOK'
  PROVE  GInv'
  <1>1. PICK c : c = todo'
    OBVIOUS
  <1>2. \A y \in ToSet(a) : y.op \in CallOps /\ Typed(y)
    BY DEF CallItem
  <1>3. Ready(c) /\ ToSet(c) = ToSet(a) \cup ToSet(b)
    BY <1>1, <1>2, Pushed0
  <1>4. WorkOK' /\ OrderOK'
    <2>1. input' = input
      BY DEF SameContacts, SameTracks
    <2> QED BY <1>1, <1>3, <2>1, ReadyNext
  <1>5. Work' = ToSet(a) \cup ToSet(b)
    BY <1>1, <1>3 DEF Work
  <1>6. SameWork
    BY <1>5, CallIsNew DEF SameWork
  <1> QED BY <1>4, <1>6, SteadyKeeps

(* So does one that leaves gestures to do later.                            *)
LEMMA LaterKeeps ==
  ASSUME GInv, Calm, NEW i, Fires(i), i.op \notin Lasting, Rank(i.op) \in 8 .. 14,
         NEW a \in Seq(Item), Sorted(a), HeadsFirst(a),
         \A y \in ToSet(a) : Rank(y.op) \in 8 .. 14 /\ Rank(y.op) <= Rank(i.op) /\ y.op \notin Once /\ Typed(y),
         \A y \in ToSet(a) : New(y),
         todo' = a \o i.rest, SameContacts, SameRecognizers, TypeOK', OwnersOK'
  PROVE  GInv'
  <1>1. i.op # "onUp"
    BY Ranks
  <1>2. Fits(i, a)
    <2>1. Distinct(a)
      BY DEF Distinct, ToSet
    <2> QED BY <1>1, <2>1 DEF Fits
  <1>3. PICK c : c = todo'
    OBVIOUS
  <1>4. /\ c \in Seq(Item) /\ Sorted(c) /\ Distinct(c) /\ HeadsFirst(c)
        /\ ToSet(c) = ToSet(a) \cup ToSet(i.rest)
    BY <1>2, <1>3, FrontFacts
  <1>5. Work' = ToSet(c) /\ input' = input
    BY <1>3 DEF Work, SameContacts, SameTracks
  <1>6. \A y \in ToSet(i.rest) : y \in Work /\ Typed(y)
    BY DEF Fires, GInv, WorkOK
  <1>7. WorkOK'
    <2>1. \A y \in Work' : Typed(y)'
      BY <1>4, <1>5, <1>6 DEF Typed
    <2> QED BY <1>3, <1>4, <2>1 DEF WorkOK
  <1>8. OrderOK'
    <2>1. \A y \in ToSet(c) : Rank(y.op) \in 8 .. 14
      <3>1. \A y \in ToSet(i.rest) : Rank(i.op) <= Rank(y.op)
        BY DEF Fires
      <3>2. \A y \in ToSet(i.rest) : Rank(y.op) \in 8 .. 14
        <4> TAKE y \in ToSet(i.rest)
        <4>1. Rank(i.op) <= Rank(y.op) /\ Rank(y.op) \in 0 .. 14 /\ Rank(i.op) \in 8 .. 14
          BY <3>1, RankType
        <4> QED BY <4>1
      <3> QED BY <1>4, <3>2
    <2>2. Apart(ToSet(c))
      <3>1. \A y \in ToSet(c) : Rank(y.op) \notin 1 .. 3 /\ Rank(y.op) \notin 1 .. 7 /\ Rank(y.op) # 5
        BY <2>1
      <3> QED BY <3>1 DEF Apart
    <2>3. Apart(Work')
      BY <2>2, <1>5
    <2> QED BY <1>3, <1>4, <2>3 DEF OrderOK
  <1>9. SameWork
    <2>1. \A y \in Work : Due(y) /\ y.op \in Lasting => y \in Work'
      BY <1>4, <1>5, Parts DEF Fires
    <2>2. \A y \in Work' : y \in Work \/ New(y)
      BY <1>4, <1>5, <1>6
    <2> QED BY <2>1, <2>2 DEF SameWork
  <1> QED BY <1>7, <1>8, <1>9, SteadyKeeps

-----------------------------------------------------------------------------
(* Runs of items: one for each slot, or for each owner.                     *)

(* The loops over the slots and over the owners of a slot, as lists of      *)
(* items.                                                                   *)
LEMMA OnSlotsFacts ==
  ASSUME NEW op \in Ops, NEW r \in Recognizers \cup {None}
  PROVE  /\ OnSlots(op, r) \in Seq(Item) /\ ToSet(OnSlots(op, r)) = {Do(op, s, r) : s \in Slots}
         /\ Sorted(OnSlots(op, r)) /\ Distinct(OnSlots(op, r))
  <1> DEFINE a == OnSlots(op, r)
  <1>1. a = [s \in 1 .. MaxTracks |-> Do(op, s, r)] /\ MaxTracks \in Nat
    BY GesturesAssumption DEF OnSlots, Slots
  <1>2. \A s \in 1 .. MaxTracks : Do(op, s, r) \in Item
    BY Parts, GesturesAssumption
  <1>3. \A s \in 1 .. MaxTracks : a[s] = Do(op, s, r) /\ a[s].op = op /\ a[s].s = s
    BY <1>1, Parts
  <1> HIDE DEF a
  <1>4. a \in Seq(Item) /\ DOMAIN a = 1 .. MaxTracks
    BY <1>1, <1>2, <1>3
  <1>5. ToSet(a) = {Do(op, s, r) : s \in Slots}
    BY <1>3, <1>4 DEF ToSet, Slots
  <1>6. Sorted(a) /\ Distinct(a)
    <2>1. \A m \in DOMAIN a : Rank(a[m].op) = Rank(op) /\ Rank(op) \in 0 .. 14 /\ a[m].s = m
      BY <1>3, <1>4, RankType
    <2>2. \A m, n \in DOMAIN a : Rank(a[m].op) <= Rank(a[n].op)
      BY <2>1
    <2> QED BY <2>1, <2>2 DEF Sorted, Distinct
  <1> QED BY <1>4, <1>5, <1>6 DEF a

LEMMA OwnerList ==
  ASSUME NEW o \in Seq(Recognizers), IsInjective(o), NEW op \in Ops, NEW s \in Slots,
         NEW a, a = [n \in DOMAIN o |-> Do(op, s, o[n])]
  PROVE  /\ a \in Seq(Item) /\ ToSet(a) = {Do(op, s, r) : r \in ToSet(o)}
         /\ Sorted(a) /\ Distinct(a) /\ ToSet(o) \subseteq Recognizers
  <1>1. s \in Nat
    BY GesturesAssumption DEF Slots
  <1>2. o \in [1 .. Len(o) -> Recognizers] /\ Len(o) \in Nat /\ DOMAIN o = 1 .. Len(o)
    OBVIOUS
  <1>3. \A n \in DOMAIN o : Do(op, s, o[n]) \in Item /\ a[n] = Do(op, s, o[n]) /\ a[n].op = op /\ a[n].r = o[n]
    BY <1>1, <1>2, Parts
  <1>4. a \in Seq(Item) /\ DOMAIN a = DOMAIN o
    BY <1>2, <1>3
  <1>5. ToSet(a) = {Do(op, s, r) : r \in ToSet(o)}
    BY <1>3, <1>4 DEF ToSet
  <1>6. Sorted(a) /\ Distinct(a)
    <2>1. \A m \in DOMAIN a : Rank(a[m].op) = Rank(op) /\ Rank(op) \in 0 .. 14 /\ a[m].r = o[m]
      BY <1>3, <1>4, RankType
    <2>2. \A m, n \in DOMAIN a : Rank(a[m].op) <= Rank(a[n].op)
      BY <2>1
    <2> QED BY <1>4, <2>1, <2>2 DEF Sorted, Distinct, IsInjective
  <1>7. ToSet(o) \subseteq Recognizers
    BY <1>2 DEF ToSet
  <1> QED BY <1>4, <1>5, <1>6, <1>7

LEMMA OwnersFacts ==
  ASSUME TypeOK, OwnersOK, NEW op \in Ops, NEW s \in Slots
  PROVE  /\ Owners(op, s) \in Seq(Item)
         /\ ToSet(Owners(op, s)) = {Do(op, s, r) : r \in ToSet(track[s].owners)}
         /\ Sorted(Owners(op, s)) /\ Distinct(Owners(op, s))
         /\ ToSet(track[s].owners) \subseteq Recognizers
  <1>1. PICK o : o = track[s].owners
    OBVIOUS
  <1>2. o \in Seq(Recognizers) /\ IsInjective(o)
    BY <1>1 DEF TypeOK, OwnersOK, Tracks
  <1>3. PICK a : a = Owners(op, s)
    OBVIOUS
  <1>4. a = [n \in DOMAIN o |-> Do(op, s, o[n])]
    BY <1>1, <1>3 DEF Owners
  <1> QED BY <1>1, <1>2, <1>3, <1>4, OwnerList

-----------------------------------------------------------------------------
(* The steady actions.                                                      *)

Unmoved ==
  /\ input' = input /\ recs' = recs /\ mounted' = mounted /\ track' = track /\ flags' = flags
  /\ live' = live /\ pinch' = pinch /\ heard' = heard /\ won' = won /\ pinched' = pinched

(* A step that leaves contacts and recognizers alone leaves their parts     *)
(* alone.                                                                   *)
LEMMA UnmovedSame ==
  ASSUME TypeOK, OwnersOK, Unmoved
  PROVE  SameContacts /\ SameRecognizers /\ TypeOK' /\ OwnersOK'
  <1>1. TypeOK' /\ OwnersOK'
    BY DEF TypeOK, OwnersOK, Unmoved
  <1>2. SameContacts
    BY DEF SameContacts, SameTracks, Unmoved, Observes
  <1>3. SameRecognizers
    BY DEF SameRecognizers, Unmoved, TypeOK
  <1> QED BY <1>1, <1>2, <1>3

(* What an item is. *)
LEMMA ItemFacts ==
  ASSUME GInv, NEW i, Fires(i)
  PROVE  /\ Typed(Do(i.op, i.s, i.r)) /\ i.op \in Ops /\ i.s \in Nat /\ i.r \in Recognizers \cup {None}
         /\ i.op \in SlotOps => i.s \in Slots
         /\ IF i.op \in RecOps THEN i.r \in Recognizers ELSE i.r = None
         /\ i.op = "touch" => i.s \in DOMAIN input.touches
         /\ i.op = "block" => i.s # 0
         /\ ItemOK(Do(i.op, i.s, i.r))
         /\ Rank(i.op) \in 0 .. 14
  <1>1. Do(i.op, i.s, i.r) \in Work /\ Do(i.op, i.s, i.r) \in Item
    BY DEF Fires
  <1>2. Typed(Do(i.op, i.s, i.r)) /\ ItemOK(Do(i.op, i.s, i.r))
    BY <1>1 DEF GInv, WorkOK, ItemsOK
  <1> QED BY <1>1, <1>2, Parts, RankType DEF Typed

(* A step that only takes the item away, or lets the application call. *)
LEMMA RestKeeps ==
  ASSUME GInv, Calm, NEW i, Fires(i), i.op \notin Lasting,
         NEW a \in Seq(Item), \A y \in ToSet(a) : CallItem(y), todo' = a \o i.rest,
         SameContacts, SameRecognizers, TypeOK', OwnersOK'
  PROVE  GInv'
  <1>1. Ready(i.rest)
    BY RestReady, RankType DEF GInv
  <1>2. \A y \in Work : Due(y) /\ y.op \in Lasting => y \in ToSet(i.rest)
    BY Parts DEF Fires
  <1>3. \A y \in ToSet(i.rest) : y \in Work
    BY DEF Fires
  <1> QED BY <1>1, <1>2, <1>3, PushKeeps

LEMMA AppItem ==
  /\ <<Do("app", 0, None)>> \in Seq(Item) /\ <<>> \in Seq(Item) /\ ToSet(<<>>) = {}
  /\ ToSet(<<Do("app", 0, None)>>) = {Do("app", 0, None)}
  /\ CallItem(Do("app", 0, None))
  <1>1. Do("app", 0, None) \in Item
    <2>1. "app" \in Ops
      BY DEF Ops
    <2>2. 0 \in Nat
      OBVIOUS
    <2>3. None \in Recognizers \cup {None}
      OBVIOUS
    <2> QED BY <2>1, <2>2, <2>3, Parts, Zenon
  <1>2. CallItem(Do("app", 0, None))
    BY Parts DEF CallItem, CallOps, Typed, SlotOps, RecOps, Callbacks
  <1> QED BY <1>1, <1>2 DEF ToSet

(* One item, and two. *)
LEMMA OneItem ==
  ASSUME NEW x \in Item
  PROVE  /\ <<x>> \in Seq(Item) /\ ToSet(<<x>>) = {x} /\ <<x>>[1] = x /\ <<x>> # <<>>
         /\ Sorted(<<x>>) /\ Distinct(<<x>>) /\ HeadsFirst(<<x>>)
  <1>1. <<x>> \in Seq(Item) /\ DOMAIN <<x>> = {1} /\ <<x>>[1] = x /\ <<x>> # <<>>
    OBVIOUS
  <1>2. ToSet(<<x>>) = {x}
    BY <1>1 DEF ToSet
  <1>3. Rank(x.op) <= Rank(x.op)
    BY RankType
  <1> QED BY <1>1, <1>2, <1>3 DEF Sorted, Distinct, HeadsFirst

LEMMA TwoItems ==
  ASSUME NEW x \in Item, NEW y \in Item, Rank(x.op) <= Rank(y.op), x # y, y.op \notin Heads
  PROVE  /\ <<x, y>> \in Seq(Item) /\ ToSet(<<x, y>>) = {x, y} /\ <<x, y>>[1] = x /\ <<x, y>> # <<>>
         /\ Sorted(<<x, y>>) /\ Distinct(<<x, y>>) /\ HeadsFirst(<<x, y>>)
  <1> DEFINE a == <<x, y>>
  <1>1. a \in Seq(Item) /\ DOMAIN a = {1, 2} /\ a[1] = x /\ a[2] = y /\ a # <<>>
    OBVIOUS
  <1> HIDE DEF a
  <1>2. ToSet(a) = {x, y}
    BY <1>1 DEF ToSet
  <1>3. Rank(x.op) <= Rank(x.op) /\ Rank(y.op) <= Rank(y.op)
    BY RankType
  <1>4. Sorted(a)
    BY <1>1, <1>3 DEF Sorted
  <1>5. Distinct(a)
    BY <1>1 DEF Distinct
  <1>6. HeadsFirst(a)
    BY <1>1 DEF HeadsFirst
  <1> QED BY <1>1, <1>2, <1>4, <1>5, <1>6 DEF a

LEMMA PairJoin ==
  ASSUME NEW S, NEW x \in S, NEW y \in S
  PROVE  <<x>> \o <<y>> = <<x, y>>
  <1> DEFINE c == <<x>> \o <<y>>
             d == <<x, y>>
  <1>1. c \in Seq(S) /\ Len(c) = 2 /\ c[1] = x /\ c[2] = y
    OBVIOUS
  <1>2. d \in Seq(S) /\ Len(d) = 2 /\ d[1] = x /\ d[2] = y
    OBVIOUS
  <1> HIDE DEF c, d
  <1>3. c = d
    BY <1>1, <1>2
  <1> QED BY <1>3 DEF c, d

(* An application that returns to the pump. *)
LEMMA ReturnKeeps ==
  ASSUME GInv, NEW i, Fires(i), Return(i)
  PROVE  GInv'
  <1>1. i.op = "app" /\ todo' = <<>> \o i.rest
    BY DEF Return, Then
  <1>2. SameContacts /\ SameRecognizers /\ TypeOK' /\ OwnersOK'
    BY UnmovedSame DEF GInv, Return, Unmoved, world, app, pinches, history
  <1>3. Calm
    BY <1>1, CalmNow
  <1>4. i.op \notin Lasting
    BY <1>1, Ranks DEF Lasting
  <1>5. <<>> \in Seq(Item) /\ \A y \in ToSet(<<>>) : CallItem(y)
    BY AppItem
  <1> QED BY <1>1, <1>2, <1>3, <1>4, <1>5, RestKeeps

(* A block puts cancels and itself in front.                                *)
LEMMA BlockKeeps ==
  ASSUME GInv, NEW i, Fires(i), Block(i)
  PROVE  GInv'
  <1>1. PICK a : /\ a = IF i.s > Len(recs) THEN <<>>
                        ELSE (IF recs[i.s] \in Exempt THEN <<>> ELSE OnSlots("cancel", recs[i.s]))
                               \o <<Do("block", i.s + 1, None)>>
                 /\ todo' = a \o i.rest /\ i.op = "block"
    BY DEF Block, Then
  <1>2. SameContacts /\ SameRecognizers /\ TypeOK' /\ OwnersOK'
    BY UnmovedSame DEF GInv, Block, Unmoved, world, app, pinches, history
  <1>3. Calm
    BY <1>1, CalmNow
  <1>4. i.op \notin Lasting
    BY <1>1, Ranks DEF Lasting
  <1>5. a \in Seq(Item) /\ \A y \in ToSet(a) : CallItem(y)
    <2>1. CASE i.s > Len(recs)
      BY <1>1, <2>1, AppItem
    <2>2. CASE ~(i.s > Len(recs))
      <3> DEFINE b == <<Do("block", i.s + 1, None)>>
      <3>1. i.s \in Nat
        BY ItemFacts
      <3>2. Do("block", i.s + 1, None) \in Item
        <4>1. i.s + 1 \in Nat
          BY <3>1
        <4>2. "block" \in Ops
          BY DEF Ops
        <4>3. None \in Recognizers \cup {None}
          OBVIOUS
        <4> QED BY <4>1, <4>2, <4>3, Parts, Zenon
      <3>3. b \in Seq(Item) /\ ToSet(b) = {Do("block", i.s + 1, None)}
        BY <3>2, OneItem
      <3>4. CallItem(Do("block", i.s + 1, None))
        BY <3>1, Parts DEF CallItem, CallOps, Typed, SlotOps, RecOps, Callbacks
      <3>5. CASE recs[i.s] \in Exempt
        <4>1. a = <<>> \o b
          BY <1>1, <2>2, <3>5
        <4> HIDE DEF b
        <4>2. a = b
          BY <3>3, <4>1
        <4> QED BY <3>3, <3>4, <4>2
      <3>6. CASE recs[i.s] \notin Exempt
        <4> DEFINE o == OnSlots("cancel", recs[i.s])
        <4>1. a = o \o b
          BY <1>1, <2>2, <3>6
        <4>2. recs[i.s] \in ToSet(recs) /\ recs[i.s] \in Recognizers
          <5>1. recs \in Seq(1 .. mounted) /\ mounted \in 0 .. MaxRecognizers
            BY DEF GInv, TypeOK
          <5>2. i.s \in DOMAIN recs
            <6>1. i.s # 0
              BY <1>1, ItemFacts
            <6> QED BY <2>2, <3>1, <5>1, <6>1
          <5> QED BY <5>1, <5>2, GesturesAssumption DEF ToSet, Recognizers
        <4>3. o \in Seq(Item) /\ ToSet(o) = {Do("cancel", s, recs[i.s]) : s \in Slots}
          <5>1. "cancel" \in Ops
            BY DEF Ops
          <5> QED BY <4>2, <5>1, OnSlotsFacts
        <4>4. ASSUME NEW s \in Slots PROVE CallItem(Do("cancel", s, recs[i.s]))
          <5>1. Observes(recs[i.s], s) => Owns(recs[i.s], s)
            BY <4>2 DEF GInv, FlagsOK, Sane, Observes
          <5> QED BY <4>2, <5>1, Parts DEF CallItem, CallOps, Typed, SlotOps, RecOps, Callbacks
        <4> HIDE DEF b, o
        <4>5. a \in Seq(Item) /\ ToSet(a) = ToSet(o) \cup ToSet(b)
          BY <3>3, <4>1, <4>3, Joined
        <4> QED BY <3>3, <3>4, <4>3, <4>4, <4>5
      <3> QED BY <3>5, <3>6
    <2> QED BY <2>1, <2>2
  <1> QED BY <1>1, <1>2, <1>3, <1>4, <1>5, RestKeeps

(* A recognizer that is unregistered has no pinch left.                     *)
LEMMA UnregisterKeeps ==
  ASSUME GInv, NEW i, Fires(i), Unregister(i)
  PROVE  GInv'
  <1>1. i.op = "unregister" /\ todo' = <<>> \o i.rest /\ recs' = Omit(recs, {i.r})
    BY DEF Unregister, Then
  <1>2. Calm
    BY <1>1, CalmNow
  <1>3. i.op \notin Lasting
    BY <1>1, Ranks DEF Lasting
  <1>4. <<>> \in Seq(Item) /\ \A y \in ToSet(<<>>) : CallItem(y)
    BY AppItem
  <1>5. recs' \in Seq(1 .. mounted) /\ IsInjective(recs') /\ ToSet(recs') = ToSet(recs) \ {i.r}
    BY <1>1, OmitFacts DEF GInv, TypeOK
  <1>6. /\ input' = input /\ mounted' = mounted /\ track' = track /\ flags' = flags /\ live' = live
        /\ pinch' = pinch /\ heard' = heard /\ won' = won /\ pinched' = pinched
    BY DEF Unregister, world, pinches, history
  <1>7. TypeOK' /\ OwnersOK' /\ SameContacts
    BY <1>5, <1>6 DEF GInv, TypeOK, OwnersOK, SameContacts, SameTracks, Observes
  <1>8. ASSUME NEW r \in ToSet(recs), r \notin ToSet(recs'), pinch[r] # {} PROVE Has("endPinch", 0, r)'
    <2>1. r = i.r /\ r \in Recognizers
      BY <1>1, <1>5, <1>8, ItemFacts DEF RecOps
    <2>2. Do(i.op, i.s, i.r) \in Work /\ Do(i.op, i.s, i.r).op = i.op /\ Do(i.op, i.s, i.r).r = r
      BY <2>1, Parts DEF Fires
    <2>3. Has("endPinch", 0, r)
      BY <1>1, <1>8, <2>1, <2>2 DEF GInv, EndsOK, EndsAt
    <2>4. Due(Do("endPinch", 0, r)) /\ Do("endPinch", 0, r) # Do(i.op, i.s, i.r)
      BY <1>1, <1>8, Parts DEF Due
    <2>5. Do("endPinch", 0, r) \in ToSet(i.rest)
      BY <2>3, <2>4 DEF Has, Fires
    <2>6. i.rest \in Seq(Item)
      BY DEF Fires
    <2>7. todo' = i.rest
      BY <1>1, <2>6
    <2> QED BY <2>5, <2>7 DEF Has, Work
  <1>9. SameRecognizers
    <2>1. mounted <= mounted'
      BY <1>6 DEF GInv, TypeOK
    <2> QED BY <1>5, <1>8, <2>1 DEF SameRecognizers
  <1> QED BY <1>1, <1>2, <1>3, <1>4, <1>7, <1>9, RestKeeps

(* Callbacks that say nothing lasting. *)
LEMMA PlainCallbackKeeps ==
  ASSUME GInv, NEW i, Fires(i), Callback(i), i.op \in {"onMove", "onPanMove", "onPanEnd", "onPinchMove"}
  PROVE  GInv'
  <1>1. PICK a : a \in {<<Do("app", 0, None)>>, <<>>} /\ todo' = a \o i.rest
    BY DEF Callback, Then
  <1>2. Unmoved
    BY DEF Callback, Unmoved, world, app, pinches
  <1>3. SameContacts /\ SameRecognizers /\ TypeOK' /\ OwnersOK'
    BY <1>2, UnmovedSame DEF GInv
  <1>4. Calm
    BY CalmNow
  <1>5. i.op \notin Lasting
    BY Ranks DEF Lasting
  <1>6. a \in Seq(Item) /\ \A y \in ToSet(a) : CallItem(y)
    BY <1>1, AppItem
  <1> QED BY <1>1, <1>3, <1>4, <1>5, <1>6, RestKeeps

(* A flag that does not say who observes. *)
LEMMA FlagAdded ==
  ASSUME TypeOK, OwnersOK, NEW s \in Slots, NEW r \in Recognizers, track[s].used, Owns(r, s),
         NEW X \in SUBSET (Flags \ {"observing"}), flags' = [flags EXCEPT ![r][s] = flags[r][s] \cup X],
         input' = input, recs' = recs, mounted' = mounted, track' = track, live' = live,
         pinch' = pinch, heard' = heard, won' = won, pinched' = pinched
  PROVE  SameContacts /\ SameRecognizers /\ TypeOK' /\ OwnersOK'
  <1>1. flags \in [Recognizers -> [Slots -> SUBSET Flags]] /\ flags[r][s] \cup X \in SUBSET Flags
    BY DEF TypeOK
  <1>2. /\ flags' \in [Recognizers -> [Slots -> SUBSET Flags]]
        /\ \A q \in Recognizers, t \in Slots :
             flags'[q][t] = IF q = r /\ t = s THEN flags[r][s] \cup X ELSE flags[q][t]
    BY <1>1
  <1>3. TypeOK' /\ OwnersOK'
    BY <1>2 DEF TypeOK, OwnersOK
  <1>4. \A q \in Recognizers, t \in Slots :
          /\ Observes(q, t)' <=> Observes(q, t)
          /\ flags'[q][t] # {} => flags[q][t] # {} \/ (track[t].used /\ Owns(q, t))
    BY <1>2 DEF Observes
  <1>5. SameContacts
    BY <1>4 DEF SameContacts, SameTracks
  <1>6. SameRecognizers
    BY DEF SameRecognizers, TypeOK
  <1> QED BY <1>3, <1>5, <1>6

(* A contact that leaves the slop is no tap any more; nobody else is        *)
(* concerned.                                                               *)
LEMMA SlopKeeps ==
  ASSUME GInv, NEW i, Fires(i), Slop(i)
  PROVE  GInv'
  <1>1. i.op = "slop" /\ todo' = <<>> \o i.rest
    BY DEF Slop, Then
  <1>2. /\ i.s \in Slots /\ i.r \in Recognizers /\ track[i.s].used /\ Owns(i.r, i.s)
    BY <1>1, ItemFacts, Parts DEF SlotOps, RecOps, ItemOK, Told
  <1>3. SameContacts /\ SameRecognizers /\ TypeOK' /\ OwnersOK'
    <2>1. CASE flags' = flags
      BY <2>1, UnmovedSame DEF GInv, Slop, Unmoved, world, app, pinches, history
    <2>2. CASE flags' = [flags EXCEPT ![i.r][i.s] = flags[i.r][i.s] \cup {"tapDead"}]
      <3>1. {"tapDead"} \in SUBSET (Flags \ {"observing"})
        BY DEF Flags
      <3> QED BY <1>2, <2>2, <3>1, FlagAdded DEF GInv, Slop, world, app, pinches, history
    <2> QED BY <2>1, <2>2 DEF Slop
  <1>4. Calm
    BY <1>1, CalmNow
  <1>5. i.op \notin Lasting
    BY <1>1, Ranks DEF Lasting
  <1>6. <<>> \in Seq(Item) /\ \A y \in ToSet(<<>>) : CallItem(y)
    BY AppItem
  <1> QED BY <1>1, <1>3, <1>4, <1>5, <1>6, RestKeeps

LEMMA NoWinnerKeeps ==
  ASSUME GInv, NEW i, Fires(i), NoWinner(i)
  PROVE  GInv'
  <1>1. i.op \in {"longPress", "panStart"} /\ todo' = <<>> \o i.rest
    BY DEF NoWinner, Then
  <1>2. SameContacts /\ SameRecognizers /\ TypeOK' /\ OwnersOK'
    BY UnmovedSame DEF GInv, NoWinner, Unmoved, world, app, pinches, history
  <1>3. Calm
    BY <1>1, CalmNow
  <1>4. i.op \notin Lasting
    BY <1>1, Ranks DEF Lasting
  <1>5. <<>> \in Seq(Item) /\ \A y \in ToSet(<<>>) : CallItem(y)
    BY AppItem
  <1> QED BY <1>1, <1>2, <1>3, <1>4, <1>5, RestKeeps

(* A contact that was known goes on. *)
LEMMA UpdateKeeps ==
  ASSUME GInv, NEW i, Fires(i), i.op = "touch", NEW s \in Slots, Update(i, s),
         UNCHANGED <<world, app, pinches, basis, pinched>>
  PROVE  GInv'
  <1>1. PICK moved \in BOOLEAN :
          track' = [track EXCEPT ![s] = [track[s] EXCEPT !.present = TRUE, !.fresh = FALSE, !.moved = moved]]
    BY DEF Update
  <1>2. track \in [Slots -> Tracks] /\ track[s] \in Tracks
    BY DEF GInv, TypeOK
  <1>3. PICK u : u = [track[s] EXCEPT !.present = TRUE, !.fresh = FALSE, !.moved = moved]
    OBVIOUS
  <1>4. /\ u \in Tracks /\ u.used = track[s].used /\ u.contact = track[s].contact
        /\ u.owners = track[s].owners /\ u.claimed = track[s].claimed
    BY <1>2, <1>3 DEF Tracks
  <1>5. track' = [track EXCEPT ![s] = u]
    BY <1>1, <1>3
  <1>6. /\ track' \in [Slots -> Tracks]
        /\ \A t \in Slots : /\ track'[t].used = track[t].used /\ track'[t].contact = track[t].contact
                            /\ track'[t].owners = track[t].owners /\ track'[t].claimed = track[t].claimed
    BY <1>2, <1>4, <1>5
  <1>7. /\ input' = input /\ recs' = recs /\ mounted' = mounted /\ flags' = flags /\ live' = live
        /\ pinch' = pinch /\ heard' = heard /\ won' = won /\ pinched' = pinched
    BY DEF Update, world, app, pinches
  <1>8. TypeOK' /\ OwnersOK'
    BY <1>6, <1>7 DEF GInv, TypeOK, OwnersOK
  <1>9. SameContacts
    BY <1>6, <1>7 DEF SameContacts, SameTracks, Observes
  <1>10. SameRecognizers
    BY <1>7 DEF SameRecognizers, GInv, TypeOK
  <1>11. Calm
    BY CalmNow
  <1>12. i.op \notin Lasting
    BY Ranks DEF Lasting
  <1>13. <<>> \in Seq(Item) /\ \A y \in ToSet(<<>>) : CallItem(y)
    BY AppItem
  <1>14. todo' = <<>> \o i.rest
    BY DEF Update, Then
  <1> QED BY <1>8, <1>9, <1>10, <1>11, <1>12, <1>13, <1>14, RestKeeps

-----------------------------------------------------------------------------
(* The gestures of the contacts, after all contacts.                        *)

(* Only calls are done while an application unmounts.                       *)
LEMMA NoMount ==
  ASSUME GInv, NEW i, Fires(i), Rank(i.op) # 0, i.op # "mount"
  PROVE  ~Unmounting
  <1>1. Do(i.op, i.s, i.r) \in Work /\ Do(i.op, i.s, i.r).op = i.op
    BY Parts DEF Fires
  <1> QED BY <1>1 DEF GInv, UnmountOK

(* An owner that observes was told of the contact by then. *)
LEMMA HeardDown ==
  ASSUME GInv, NEW i, Fires(i), Rank(i.op) \in 8 .. 14, NEW r \in Recognizers, NEW s \in Slots,
         track[s].used, Owns(r, s), Observes(r, s)
  PROVE  heard[r][s] = "onDown" /\ ~Ending(s)
  <1>1. ~Has("onDown", s, r)
    <2>1. Has("onDown", s, r) => Rank("onDown") < Rank(i.op) /\ Do("onDown", s, r) \in Work
      BY Ranks DEF Has
    <2> QED BY <2>1, Below, Parts DEF Always
  <1>2. ~Ending(s)
    <2>1. Ending(s) => Rank("release") < Rank(i.op) /\ Do("release", s, None) \in Work
      BY Ranks DEF Has, Ending
    <2> QED BY <2>1, Below, Parts DEF Always
  <1> QED BY <1>1, <1>2 DEF GInv, HeardOK, HeardAt

(* A contact nobody claimed then was not won, and is in no pinch. *)
LEMMA Unclaimed ==
  ASSUME GInv, NEW i, Fires(i), Rank(i.op) \in 10 .. 14, NEW r \in Recognizers, NEW s \in Slots,
         track[s].used, track[s].claimed = None, Owns(r, s), Observes(r, s)
  PROVE  won[s] = {} /\ \A o \in Recognizers : s \notin pinch[o]
  <1>1. \A o \in Recognizers : ~Has("claim", s, o)
    <2>1. ASSUME NEW o \in Recognizers, Has("claim", s, o) PROVE FALSE
      <3>1. Rank("claim") < Rank(i.op) /\ Do("claim", s, o) \in Work
        BY <2>1, Ranks DEF Has
      <3> QED BY <3>1, Below, Parts DEF Always
    <2> QED BY <2>1
  <1>2. ~Ending(s)
    BY HeardDown
  <1>3. ~Has("cancel", s, r)
    <2>1. Due(Do("cancel", s, r))
      BY Parts DEF Due
    <2>2. Rank("cancel") < Rank(i.op)
      BY Ranks
    <2> QED BY <2>1, <2>2, Parts DEF Has, Fires
  <1>4. None \notin Recognizers
    BY GesturesAssumption DEF Recognizers
  <1>5. won[s] = {}
    BY <1>1, <1>2, <1>3, <1>4 DEF GInv, WonOK, WonAt
  <1>6. ASSUME NEW o \in Recognizers, s \in pinch[o] PROVE FALSE
    <2>1. i.op # "endPinch"
      BY Ranks
    <2>2. ~Broken(o)
      BY <2>1, AtHead
    <2>3. ~Unmounting
      BY DEF GInv, UnmountOK
    <2>4. Held(o, s)
      BY <1>6, <2>2, <2>3 DEF GInv, HeldOK
    <2> QED BY <1>1, <1>4, <2>4 DEF Held
  <1> QED BY <1>5, <1>6

(* The pinch pass and what it leaves to do later.                           *)
LEMMA RecognizePinchesKeeps ==
  ASSUME GInv, NEW i, Fires(i), RecognizePinches(i)
  PROVE  GInv'
  <1> DEFINE x == Do("pinchPass", Len(recs), None)
  <1>1. i.op = "pinches" /\ todo' = <<x>> \o i.rest
    BY DEF RecognizePinches, Then
  <1>2. SameContacts /\ SameRecognizers /\ TypeOK' /\ OwnersOK'
    BY UnmovedSame DEF GInv, RecognizePinches, Unmoved, world, app, pinches, history
  <1>3. Calm /\ ~Unmounting
    BY <1>1, CalmNow, NoMount, Ranks
  <1>4. i.op \notin Lasting /\ Rank(i.op) \in 8 .. 14
    BY <1>1, Ranks DEF Lasting
  <1>5. x \in Item
    <2>1. "pinchPass" \in Ops /\ Len(recs) \in Nat /\ None \in Recognizers \cup {None}
      BY DEF Ops, GInv, TypeOK
    <2> QED BY <2>1, Parts, Zenon
  <1>6. <<x>> \in Seq(Item) /\ ToSet(<<x>>) = {x} /\ Sorted(<<x>>) /\ HeadsFirst(<<x>>)
    BY <1>5, OneItem
  <1>7. Rank(x.op) \in 8 .. 14 /\ Rank(x.op) <= Rank(i.op) /\ x.op \notin Once /\ Typed(x)
    BY <1>1, Parts, Ranks DEF Once, Typed, SlotOps, RecOps, Callbacks
  <1>8. New(x)
    BY <1>3, Parts DEF New, ItemOK, Told
  <1> QED BY <1>1, <1>2, <1>3, <1>4, <1>6, <1>7, <1>8, LaterKeeps

LEMMA PinchPassKeeps ==
  ASSUME GInv, NEW i, Fires(i), i.op = "pinchPass", i.s \in DOMAIN recs,
         NEW r, r = recs[i.s], NEW next, next = Do("pinchPass", i.s - 1, None),
         UNCHANGED <<world, app, track, live, heard, pinched>>,
         \/ PinchWatch(i, r, next)
         \/ /\ r \notin Pinches \/ pinch[r] # {}
            /\ todo' = (IF r \in Pinches THEN <<Do("onPinchMove", 0, r)>> ELSE <<>>) \o <<next>> \o i.rest
            /\ UNCHANGED <<flags, pinches, won, basis>>
  PROVE  GInv'
  <1>1. /\ input' = input /\ recs' = recs /\ mounted' = mounted /\ track' = track /\ flags' = flags
        /\ live' = live /\ pinch' = pinch /\ heard' = heard /\ won' = won /\ pinched' = pinched
    BY DEF PinchWatch, world, app, pinches
  <1>2. SameContacts /\ SameRecognizers /\ TypeOK' /\ OwnersOK'
    BY <1>1, UnmovedSame DEF GInv, Unmoved
  <1>3. Calm /\ ~Unmounting
    BY CalmNow, NoMount, Ranks
  <1>4. i.op \notin Lasting /\ Rank(i.op) = 13 /\ Rank(i.op) \in 8 .. 14
    BY Ranks DEF Lasting
  <1>5. i.s - 1 \in Nat /\ r \in Recognizers
    <2>1. recs \in Seq(1 .. mounted) /\ mounted \in 0 .. MaxRecognizers
      BY DEF GInv, TypeOK
    <2> QED BY <2>1, GesturesAssumption DEF Recognizers
  <1>6. next \in Item
    <2>1. "pinchPass" \in Ops /\ None \in Recognizers \cup {None}
      BY DEF Ops
    <2> QED BY <1>5, <2>1, Parts, Zenon
  <1>7. Rank(next.op) = 13 /\ next.op \notin Once /\ next.op \notin Heads /\ next.op # "onPanEnd" /\ Typed(next)
    BY Parts, Ranks DEF Once, Heads, Typed, SlotOps, RecOps, Callbacks
  <1>8. New(next)
    BY <1>3, Parts DEF New, ItemOK, Told
  <1>9. PICK a : /\ a = <<next>> \/ (pinch[r] # {} /\ a = <<Do("onPinchMove", 0, r), next>>)
                 /\ todo' = a \o i.rest
    <2>1. CASE PinchWatch(i, r, next)
      BY <2>1 DEF PinchWatch, Then
    <2>2. CASE /\ r \notin Pinches \/ pinch[r] # {}
               /\ todo' = (IF r \in Pinches THEN <<Do("onPinchMove", 0, r)>> ELSE <<>>) \o <<next>> \o i.rest
      <3> DEFINE x == Do("onPinchMove", 0, r)
      <3>1. CASE r \in Pinches
        <4>1. todo' = <<x>> \o <<next>> \o i.rest /\ pinch[r] # {}
          BY <2>2, <3>1
        <4>2. x \in Item
          <5>1. "onPinchMove" \in Ops
            BY DEF Ops, Callbacks
          <5>2. 0 \in Nat
            OBVIOUS
          <5>3. r \in Recognizers \cup {None}
            BY <1>5
          <5> QED BY <5>1, <5>2, <5>3, Parts, Zenon
        <4> HIDE DEF x
        <4>3. <<x>> \o <<next>> = <<x, next>>
          BY <1>6, <4>2, PairJoin
        <4> QED BY <4>1, <4>3 DEF x
      <3>2. CASE r \notin Pinches
        <4>1. todo' = <<>> \o <<next>> \o i.rest
          BY <2>2, <3>2
        <4>2. <<>> \o <<next>> = <<next>>
          OBVIOUS
        <4> QED BY <4>1, <4>2
      <3> QED BY <3>1, <3>2
    <2> QED BY <2>1, <2>2
  <1>10. CASE a = <<next>>
    <2>1. <<next>> \in Seq(Item) /\ ToSet(<<next>>) = {next} /\ Sorted(<<next>>) /\ HeadsFirst(<<next>>)
      BY <1>6, OneItem
    <2>2. Rank(next.op) \in 8 .. 14 /\ Rank(next.op) <= Rank(i.op)
      BY <1>4, <1>7
    <2>3. todo' = <<next>> \o i.rest
      BY <1>9, <1>10
    <2> QED BY <1>2, <1>3, <1>4, <1>7, <1>8, <2>1, <2>2, <2>3, LaterKeeps
  <1>11. CASE pinch[r] # {} /\ a = <<Do("onPinchMove", 0, r), next>>
    <2> DEFINE x == Do("onPinchMove", 0, r)
    <2>1. x \in Item /\ x.op = "onPinchMove" /\ x.r = r
      <3>1. "onPinchMove" \in Ops
        BY DEF Ops, Callbacks
      <3>2. 0 \in Nat
        OBVIOUS
      <3>3. r \in Recognizers \cup {None}
        BY <1>5
      <3>4. x \in Item
        BY <3>1, <3>2, <3>3, Parts, Zenon
      <3> QED BY <3>4, Parts
    <2>2. Rank(x.op) = 8 /\ x.op \notin Once /\ Typed(x)
      BY <1>5, <2>1, Ranks DEF Once, Typed, SlotOps, RecOps, Callbacks
    <2>3. r \in pinched
      <3>1. Has("onPinchStart", 0, r) => Rank("onPinchStart") < Rank(i.op) /\ Do("onPinchStart", 0, r) \in Work
        BY <1>4, Ranks DEF Has
      <3>2. ~Has("onPinchStart", 0, r)
        BY <3>1, Below, Parts DEF Always
      <3> QED BY <1>5, <1>11, <3>2 DEF GInv, StartsOK
    <2>4. New(x)
      BY <1>3, <2>1, <2>3 DEF New, ItemOK, Told
    <2>5. x # next
      BY <2>1, Parts
    <2> HIDE DEF x
    <2>6. Rank(x.op) <= Rank(next.op)
      BY <1>7, <2>2
    <2>7. <<x, next>> \in Seq(Item) /\ ToSet(<<x, next>>) = {x, next} /\ Sorted(<<x, next>>) /\ HeadsFirst(<<x, next>>)
      BY <1>6, <1>7, <2>1, <2>5, <2>6, TwoItems
    <2>8. todo' = <<x, next>> \o i.rest
      BY <1>9, <1>11 DEF x
    <2>9. \A y \in {x, next} : Rank(y.op) \in 8 .. 14 /\ Rank(y.op) <= Rank(i.op)
      BY <1>4, <1>7, <2>2
    <2>10. \A y \in {x, next} : y.op \notin Once /\ Typed(y) /\ New(y)
      BY <1>7, <1>8, <2>2, <2>4
    <2> HIDE DEF New, Typed
    <2> QED BY <1>2, <1>3, <1>4, <2>7, <2>8, <2>9, <2>10, LaterKeeps
  <1> QED BY <1>9, <1>10, <1>11

(* The pass is over, or the frame ends in an exception. *)
LEMMA PinchBoundsKeeps ==
  ASSUME GInv, NEW i, Fires(i), PinchBounds(i)
  PROVE  GInv'
  <1>1. /\ i.op = "pinchPass"
        /\ input' = input /\ recs' = recs /\ mounted' = mounted /\ track' = track /\ flags' = flags
        /\ live' = live /\ pinch' = pinch /\ heard' = heard /\ won' = won /\ pinched' = pinched
    BY DEF PinchBounds, app, pinches, history
  <1>2. SameContacts /\ SameRecognizers /\ TypeOK' /\ OwnersOK'
    BY <1>1, UnmovedSame DEF GInv, Unmoved
  <1>3. Calm /\ ~Unmounting
    BY <1>1, CalmNow, NoMount, Ranks
  <1>4. i.op \notin Lasting /\ Rank(i.op) = 13
    BY <1>1, Ranks DEF Lasting
  <1>5. CASE todo' = <<>>
    <2>1. Work' = {} /\ todo' \in Seq(Item) /\ DOMAIN todo' = {}
      BY <1>5 DEF Work, ToSet
    <2>2. WorkOK' /\ OrderOK'
      BY <2>1 DEF WorkOK, OrderOK, Sorted, Distinct, HeadsFirst, Apart
    <2>3. ASSUME NEW y \in Work, Due(y), y.op \in Lasting PROVE FALSE
      <3>1. ~(Rank(y.op) < 13)
        BY <1>4, <2>3 DEF Fires
      <3>2. y.op = "mount"
        BY <2>3, <3>1, Ranks DEF Lasting
      <3> QED BY <1>3, <3>2 DEF Unmounting
    <2>4. SameWork
      BY <2>1, <2>3 DEF SameWork
    <2> QED BY <1>2, <1>3, <2>2, <2>4, SteadyKeeps
  <1>6. CASE todo' = i.rest
    <2>1. <<>> \in Seq(Item) /\ \A y \in ToSet(<<>>) : CallItem(y)
      BY AppItem
    <2>2. i.rest \in Seq(Item)
      BY DEF Fires
    <2>3. todo' = <<>> \o i.rest
      BY <1>6, <2>2
    <2> QED BY <1>2, <1>3, <1>4, <2>1, <2>3, RestKeeps
  <1> QED BY <1>5, <1>6 DEF PinchBounds

LEMMA NoHeads ==
  ASSUME NEW a \in Seq(Item), \A y \in ToSet(a) : y.op \notin Heads
  PROVE  HeadsFirst(a)
  <1>1. \A n \in DOMAIN a : a[n] \in ToSet(a)
    BY DEF ToSet
  <1> QED BY <1>1 DEF HeadsFirst

(* An item about a contact. *)
LEMMA SlotItem ==
  ASSUME NEW op \in Ops, NEW s \in Slots, NEW r \in Recognizers \cup {None}
  PROVE  Do(op, s, r) \in Item
  <1>1. s \in Nat
    BY GesturesAssumption DEF Slots
  <1> QED BY <1>1, Parts, Zenon

(* The gestures of a contact begin.                                         *)
LEMMA RecognizeKeeps ==
  ASSUME GInv, NEW i, Fires(i), Recognize(i)
  PROVE  GInv'
  <1> DEFINE s == i.s
             ms == Owners("move", s)
             ps == Owners("panMove", s)
             x == Do("longPress", s, None)
             y == Do("panStart", s, None)
  <1>1. i.op = "recognize" /\ todo' = (ms \o <<x, y>> \o ps) \o i.rest
    BY DEF Recognize, Then
  <1>2. track' = track /\ SameContacts /\ SameRecognizers /\ TypeOK' /\ OwnersOK'
    BY UnmovedSame DEF GInv, Recognize, Unmoved, world, app, pinches, history
  <1>3. Calm /\ ~Unmounting
    BY <1>1, CalmNow, NoMount, Ranks
  <1>4. i.op \notin Lasting /\ Rank(i.op) = 14 /\ Rank(i.op) \in 8 .. 14
    BY <1>1, Ranks DEF Lasting
  <1>5. s \in Slots
    BY <1>1, ItemFacts DEF SlotOps
  <1>6. track[s].used
    <2>1. Due(i)
      BY DEF Fires
    <2> QED BY <1>1, <2>1 DEF Due
  <1>7. "move" \in Ops /\ "panMove" \in Ops /\ "longPress" \in Ops /\ "panStart" \in Ops
    BY DEF Ops
  <1>8. x \in Item /\ y \in Item
    BY <1>5, <1>7, SlotItem
  <1>9. /\ x.op = "longPress" /\ y.op = "panStart" /\ x.s = s /\ y.s = s /\ x.r = None /\ y.r = None
        /\ x # y
    BY Parts
  <1>10. /\ ms \in Seq(Item) /\ ToSet(ms) = {Do("move", s, r) : r \in ToSet(track[s].owners)} /\ Sorted(ms)
         /\ ToSet(track[s].owners) \subseteq Recognizers
    BY <1>5, <1>7, OwnersFacts DEF GInv
  <1>11. ps \in Seq(Item) /\ ToSet(ps) = {Do("panMove", s, r) : r \in ToSet(track[s].owners)} /\ Sorted(ps)
    BY <1>5, <1>7, OwnersFacts DEF GInv
  <1>12. \A z \in ToSet(ms) : z.op = "move" /\ z.s = s /\ z.r \in Recognizers /\ z.r \in ToSet(track[s].owners)
    BY <1>10, Parts
  <1>13. \A z \in ToSet(ps) : z.op = "panMove" /\ z.s = s /\ z.r \in Recognizers /\ z.r \in ToSet(track[s].owners)
    BY <1>10, <1>11, Parts
  <1>14. <<x, y>> \in Seq(Item) /\ ToSet(<<x, y>>) = {x, y} /\ Sorted(<<x, y>>)
    <2>1. Rank(x.op) <= Rank(y.op) /\ y.op \notin Heads
      BY <1>9, Ranks DEF Heads
    <2> QED BY <1>8, <1>9, <2>1, TwoItems
  <1> HIDE DEF ms, ps, x, y
  <1> DEFINE m == <<x, y>>
             b == ms \o m
             a == b \o ps
  <1> HIDE DEF m
  <1>15. m \in Seq(Item) /\ ToSet(m) = {x, y} /\ Sorted(m)
    BY <1>14 DEF m
  <1>16. b \in Seq(Item) /\ ToSet(b) = ToSet(ms) \cup {x, y}
    BY <1>10, <1>15, JoinSets
  <1>17. Sorted(b)
    <2>1. \A z \in ToSet(ms), w \in ToSet(m) : Rank(z.op) <= Rank(w.op)
      BY <1>9, <1>12, <1>15, Ranks
    <2> QED BY <1>10, <1>15, <2>1, SortedJoin
  <1> HIDE DEF b
  <1>18. a \in Seq(Item) /\ ToSet(a) = ToSet(ms) \cup {x, y} \cup ToSet(ps)
    BY <1>11, <1>16, JoinSets
  <1>19. Sorted(a)
    <2>1. \A z \in ToSet(b), w \in ToSet(ps) : Rank(z.op) <= Rank(w.op)
      BY <1>9, <1>12, <1>13, <1>16, Ranks
    <2> QED BY <1>11, <1>16, <1>17, <2>1, SortedJoin
  <1>20. todo' = a \o i.rest
    BY <1>1 DEF m, b
  <1> HIDE DEF a
  <1>21. \A z \in ToSet(a) :
           /\ z.op \in {"move", "longPress", "panStart", "panMove"} /\ z.s = s
           /\ IF z.op \in {"move", "panMove"} THEN z.r \in Recognizers /\ Owns(z.r, s) ELSE z.r = None
    BY <1>9, <1>12, <1>13, <1>18 DEF Owns
  <1>22. HeadsFirst(a)
    BY <1>18, <1>21, NoHeads DEF Heads
  <1>23. ASSUME NEW z \in ToSet(a)
         PROVE  Rank(z.op) \in 8 .. 14 /\ Rank(z.op) <= Rank(i.op) /\ z.op \notin Once /\ Typed(z)
    <2>1. Rank(z.op) \in 8 .. 14 /\ Rank(z.op) <= Rank(i.op)
      BY <1>4, <1>21, Ranks
    <2>2. z.op \notin Once
      BY <1>21 DEF Once
    <2>3. Typed(z)
      BY <1>5, <1>21 DEF Typed, SlotOps, RecOps, Callbacks
    <2> QED BY <2>1, <2>2, <2>3
  <1>24. ASSUME NEW z \in ToSet(a) PROVE New(z)
    <2>1. ItemOK(z)'
      BY <1>2, <1>6, <1>21 DEF ItemOK, Told, Owns
    <2> QED BY <1>3, <1>21, <2>1 DEF New
  <1> QED BY <1>2, <1>3, <1>4, <1>18, <1>19, <1>20, <1>22, <1>23, <1>24, LaterKeeps

(* One callback, and what may follow it at its rank. *)
LEMMA MoveKeeps ==
  ASSUME GInv, NEW i, Fires(i), Move(i) \/ PanMove(i)
  PROVE  GInv'
  <1> DEFINE s == i.s
             r == i.r
  <1>1. PICK x : /\ (i.op = "move" /\ x = Do("onMove", s, r)) \/ (i.op = "panMove" /\ x = Do("onPanMove", s, r))
                 /\ todo' = <<x>> \o i.rest \/ (i.op = "move" /\ todo' = (<<x>> \o <<Do("slop", s, r)>>) \o i.rest)
    <2>1. CASE PanMove(i)
      BY <2>1 DEF PanMove, Then
    <2>2. CASE Move(i)
      <3> DEFINE z == Do("onMove", s, r)
      <3>1. z \in Item
        <4>1. "onMove" \in Ops /\ s \in Slots /\ r \in Recognizers
          BY <2>2, ItemFacts DEF Move, Ops, Callbacks, SlotOps, RecOps
        <4> QED BY <4>1, SlotItem
      <3> HIDE DEF z
      <3>2. <<z>> \o <<>> = <<z>>
        BY <3>1
      <3>3. todo' = <<z>> \o i.rest \/ todo' = (<<z>> \o <<Do("slop", s, r)>>) \o i.rest
        BY <2>2, <3>2 DEF Move, Then, z
      <3>4. i.op = "move" /\ z = Do("onMove", s, r)
        BY <2>2 DEF Move, z
      <3>5. /\ (i.op = "move" /\ z = Do("onMove", s, r)) \/ (i.op = "panMove" /\ z = Do("onPanMove", s, r))
            /\ todo' = <<z>> \o i.rest \/ (i.op = "move" /\ todo' = (<<z>> \o <<Do("slop", s, r)>>) \o i.rest)
        BY <3>3, <3>4
      <3> QED BY <3>5
    <2> QED BY <2>1, <2>2
  <1>2. track' = track /\ heard' = heard /\ SameContacts /\ SameRecognizers /\ TypeOK' /\ OwnersOK'
    BY UnmovedSame DEF GInv, Move, PanMove, Unmoved, world, app, pinches, history
  <1>3. Calm /\ ~Unmounting
    BY <1>1, CalmNow, NoMount, Ranks
  <1>4. i.op \notin Lasting /\ Rank(i.op) \in 8 .. 14
    BY <1>1, Ranks DEF Lasting
  <1>5. s \in Slots /\ r \in Recognizers /\ track[s].used /\ Owns(r, s)
    BY <1>1, ItemFacts, Parts DEF SlotOps, RecOps, ItemOK, Told
  <1>6. Observes(r, s)
    <2>1. Due(i)
      BY DEF Fires
    <2> QED BY <1>1, <2>1 DEF Due, Panning, Observes
  <1>7. heard[r][s] = "onDown"
    BY <1>4, <1>5, <1>6, HeardDown
  <1>8. x \in Item /\ x.s = s /\ x.r = r
    <2>1. "onMove" \in Ops /\ "onPanMove" \in Ops
      BY DEF Ops, Callbacks
    <2> QED BY <1>1, <1>5, <2>1, SlotItem, Parts
  <1>9. /\ x.op \in {"onMove", "onPanMove"} /\ Rank(x.op) = Rank(i.op)
    BY <1>1, Parts, Ranks
  <1>10. New(x) /\ Typed(x) /\ x.op \notin Once
    <2>1. ItemOK(x)'
      BY <1>2, <1>5, <1>7, <1>8, <1>9 DEF ItemOK, Told, Owns
    <2>2. New(x)
      BY <1>3, <1>9, <2>1 DEF New
    <2>3. Typed(x)
      BY <1>5, <1>8, <1>9 DEF Typed, SlotOps, RecOps, Callbacks
    <2> QED BY <1>9, <2>2, <2>3 DEF Once
  <1>11. Rank(i.op) <= Rank(i.op)
    BY RankType
  <1>12. CASE todo' = <<x>> \o i.rest
    <2>1. <<x>> \in Seq(Item) /\ ToSet(<<x>>) = {x} /\ Sorted(<<x>>) /\ HeadsFirst(<<x>>)
      BY <1>8, OneItem
    <2>2. Rank(x.op) \in 8 .. 14 /\ Rank(x.op) <= Rank(i.op)
      BY <1>4, <1>9, <1>11
    <2> HIDE DEF New, Typed
    <2> QED BY <1>2, <1>3, <1>4, <1>10, <1>12, <2>1, <2>2, LaterKeeps
  <1>13. CASE i.op = "move" /\ todo' = (<<x>> \o <<Do("slop", s, r)>>) \o i.rest
    <2> DEFINE y == Do("slop", s, r)
    <2>1. y \in Item /\ y.op = "slop" /\ y.s = s /\ y.r = r
      <3>1. "slop" \in Ops
        BY DEF Ops
      <3> QED BY <1>5, <3>1, SlotItem, Parts
    <2> HIDE DEF y
    <2>2. New(y)
      <3>1. ItemOK(y)'
        BY <1>2, <1>5, <2>1 DEF ItemOK, Told, Owns
      <3> QED BY <1>3, <2>1, <3>1 DEF New
    <2>3. Typed(y) /\ y.op \notin Once /\ y.op \notin Heads /\ y # x
      BY <1>5, <1>9, <2>1 DEF Typed, SlotOps, RecOps, Callbacks, Once, Heads
    <2>4. Rank(x.op) = 8 /\ Rank(y.op) = 8 /\ Rank(i.op) = 8
      BY <1>9, <1>13, <2>1, Ranks
    <2>5. Rank(x.op) <= Rank(y.op)
      BY <2>4
    <2>6. <<x, y>> \in Seq(Item) /\ ToSet(<<x, y>>) = {x, y} /\ Sorted(<<x, y>>) /\ HeadsFirst(<<x, y>>)
      BY <1>8, <2>1, <2>3, <2>5, TwoItems
    <2>7. todo' = <<x, y>> \o i.rest
      BY <1>8, <1>13, <2>1, PairJoin DEF y
    <2>8. \A z \in {x, y} : Rank(z.op) \in 8 .. 14 /\ Rank(z.op) <= Rank(i.op)
      BY <2>4
    <2>9. \A z \in {x, y} : z.op \notin Once /\ Typed(z) /\ New(z)
      BY <1>10, <2>2, <2>3
    <2> HIDE DEF New, Typed
    <2> QED BY <1>2, <1>3, <1>4, <2>6, <2>7, <2>8, <2>9, LaterKeeps
  <1> QED BY <1>1, <1>12, <1>13

(* The first owner the gesture fits is told, and claims the contact. *)
LEMMA WinKeeps ==
  ASSUME GInv, NEW i, Fires(i), LongPress(i) \/ PanStart(i)
  PROVE  GInv'
  <1> DEFINE s == i.s
  <1>1. PICK r \in ToSet(track[s].owners), op \in {"onLongPress", "onPanStart"} :
          /\ i.op \in {"longPress", "panStart"} /\ track[s].claimed = None /\ Observes(r, s)
          /\ \E X \in SUBSET (Flags \ {"observing"}) : flags' = [flags EXCEPT ![r][s] = flags[r][s] \cup X]
          /\ todo' = <<Do(op, s, r), Do("claim", s, r)>> \o i.rest
    <2>1. CASE LongPress(i)
      <3>1. {"longFired"} \in SUBSET (Flags \ {"observing"})
        BY DEF Flags
      <3> QED BY <2>1, <3>1 DEF LongPress, Then, Quick
    <2>2. CASE PanStart(i)
      <3>1. {"panning", "tapDead"} \in SUBSET (Flags \ {"observing"})
        BY DEF Flags
      <3> QED BY <2>2, <3>1 DEF PanStart, Then
    <2> QED BY <2>1, <2>2
  <1>2. s \in Slots /\ track[s].used
    BY <1>1, ItemFacts, Parts DEF SlotOps, ItemOK
  <1>3. r \in Recognizers /\ Owns(r, s)
    <2>1. track[s].owners \in Seq(Recognizers)
      BY <1>2 DEF GInv, TypeOK, Tracks
    <2> QED BY <2>1, MembersFinite DEF Owns
  <1>4. /\ input' = input /\ recs' = recs /\ mounted' = mounted /\ track' = track /\ live' = live
        /\ pinch' = pinch /\ heard' = heard /\ won' = won /\ pinched' = pinched
    BY DEF LongPress, PanStart, world, app, pinches, history
  <1>5. SameContacts /\ SameRecognizers /\ TypeOK' /\ OwnersOK'
    BY <1>1, <1>2, <1>3, <1>4, FlagAdded DEF GInv
  <1>6. Calm /\ ~Unmounting
    BY <1>1, CalmNow, NoMount, Ranks
  <1>7. i.op \notin Lasting /\ Rank(i.op) \in 10 .. 14 /\ Rank(i.op) \in 8 .. 14
    BY <1>1, Ranks DEF Lasting
  <1>8. heard[r][s] = "onDown" /\ won[s] = {} /\ \A o \in Recognizers : s \notin pinch[o]
    BY <1>1, <1>2, <1>3, <1>7, HeardDown, Unclaimed
  <1> DEFINE x == Do(op, s, r)
             y == Do("claim", s, r)
  <1>9. x \in Item /\ y \in Item
    <2>1. op \in Ops /\ "claim" \in Ops
      BY DEF Ops, Callbacks
    <2> QED BY <1>2, <1>3, <2>1, SlotItem
  <1>10. x.op = op /\ x.s = s /\ x.r = r /\ y.op = "claim" /\ y.s = s /\ y.r = r
    BY Parts
  <1>11. todo' = <<x, y>> \o i.rest
    BY <1>1
  <1> HIDE DEF x, y
  <1>12. Rank(x.op) = 8 /\ Rank(y.op) = 8
    BY <1>10, Ranks
  <1>13. <<x, y>> \in Seq(Item) /\ ToSet(<<x, y>>) = {x, y} /\ Sorted(<<x, y>>) /\ HeadsFirst(<<x, y>>)
    <2>1. x # y /\ y.op \notin Heads
      BY <1>10 DEF Heads
    <2>2. Rank(x.op) <= Rank(y.op)
      BY <1>12
    <2> QED BY <1>9, <2>1, <2>2, TwoItems
  <1>14. \A z \in {x, y} : Rank(z.op) \in 8 .. 14 /\ Rank(z.op) <= Rank(i.op)
    BY <1>7, <1>12
  <1>15. Has("claim", s, r)'
    <2>1. PICK c : c = <<x, y>> /\ c \in Seq(Item) /\ ToSet(c) = {x, y}
      BY <1>13
    <2>2. PICK d : d = todo'
      OBVIOUS
    <2>3. i.rest \in Seq(Item)
      BY DEF Fires
    <2>4. ToSet(d) = ToSet(c) \cup ToSet(i.rest)
      BY <1>11, <2>1, <2>2, <2>3, JoinSets
    <2> QED BY <2>1, <2>2, <2>4 DEF Has, Work, y
  <1>16. ItemOK(x)'
    BY <1>2, <1>3, <1>4, <1>8, <1>10, <1>15 DEF ItemOK, Told, Owns
  <1>17. ItemOK(y)'
    BY <1>2, <1>3, <1>4, <1>8, <1>10 DEF ItemOK, Told, Owns
  <1>18. \A z \in {x, y} : z.op \notin Once /\ Typed(z)
    BY <1>2, <1>3, <1>10 DEF Once, Typed, SlotOps, RecOps, Callbacks
  <1>19. \A z \in {x, y} : New(z)
    BY <1>6, <1>10, <1>16, <1>17 DEF New
  <1> HIDE DEF New, Typed
  <1> QED BY <1>5, <1>6, <1>7, <1>11, <1>13, <1>14, <1>18, <1>19, LaterKeeps

-----------------------------------------------------------------------------
(* Steps that do change something: what they put in front of the rest.      *)

Band(i, y) ==
  \/ Rank(y.op) = 0
  \/ Rank(y.op) \in 1 .. 3 /\ Rank(i.op) \in 1 .. 4 /\ y.s = i.s
  \/ Rank(y.op) = 5 /\ Rank(i.op) = 6
  \/ Rank(y.op) \in 8 .. 14 /\ Rank(i.op) \in 8 .. 14
Adds(i, a) ==
  /\ Fits(i, a)
  /\ \A y \in ToSet(a) : Typed(y) /\ Band(i, y)

(* What a turn leaves: the items it put in front and the rest.              *)
LEMMA Stepped ==
  ASSUME GInv, NEW i, Fires(i), NEW a, Adds(i, a), todo' = a \o i.rest, input' = input
  PROVE  /\ WorkOK' /\ OrderOK' /\ Work' = ToSet(a) \cup ToSet(i.rest)
         /\ \A y \in Work : Due(y) => y = Do(i.op, i.s, i.r) \/ y \in Work'
         /\ \A y \in Work' : y \in ToSet(a) \/ (y \in Work /\ y \in ToSet(i.rest))
         /\ a # <<>> => todo' # <<>> /\ todo'[1] = a[1]
  <1>1. PICK c : c = todo'
    OBVIOUS
  <1>2. /\ c \in Seq(Item) /\ Sorted(c) /\ Distinct(c) /\ HeadsFirst(c)
        /\ ToSet(c) = ToSet(a) \cup ToSet(i.rest) /\ (a # <<>> => c # <<>> /\ c[1] = a[1])
    BY <1>1, FrontFacts DEF Adds
  <1>3. Work' = ToSet(c)
    BY <1>1 DEF Work
  <1>4. \A y \in ToSet(i.rest) : y \in Work /\ Typed(y) /\ Rank(i.op) <= Rank(y.op)
    BY DEF Fires, GInv, WorkOK
  <1>5. WorkOK'
    <2>1. \A y \in Work' : Typed(y)'
      BY <1>2, <1>3, <1>4 DEF Typed, Adds
    <2> QED BY <1>1, <1>2, <2>1 DEF WorkOK
  <1>6. \A y \in ToSet(c) : \/ y \in ToSet(i.rest) /\ Rank(i.op) <= Rank(y.op) /\ y \in Work
                            \/ Band(i, y) /\ Rank(y.op) <= Rank(i.op)
    BY <1>2, <1>4 DEF Adds, Fits
  <1>7. Do(i.op, i.s, i.r) \in Work /\ Do(i.op, i.s, i.r).op = i.op /\ Do(i.op, i.s, i.r).s = i.s
    BY Parts DEF Fires
  <1>8. /\ \A y \in Work : Rank(i.op) \in 1 .. 3 /\ Rank(y.op) \in 1 .. 3 => i.s = y.s
        /\ \A y \in Work : Rank(i.op) \in 1 .. 7 => Rank(y.op) \notin 8 .. 12
        /\ \A y \in Work : Rank(y.op) \in 1 .. 7 => Rank(i.op) \notin 8 .. 12
        /\ \A y \in Work : Rank(y.op) = 5 => Rank(i.op) \notin 1 .. 4
        /\ \A x, y \in Work : Rank(x.op) \in 1 .. 3 /\ Rank(y.op) \in 1 .. 3 => x.s = y.s
        /\ \A x, y \in Work : Rank(x.op) \in 1 .. 7 => Rank(y.op) \notin 8 .. 12
        /\ \A x, y \in Work : Rank(x.op) = 5 => Rank(y.op) \notin 1 .. 4
    BY <1>7 DEF GInv, OrderOK, Apart
  <1>9. Apart(ToSet(c))
    <2> SUFFICES ASSUME NEW x \in ToSet(c), NEW y \in ToSet(c)
                 PROVE  /\ Rank(x.op) \in 1 .. 3 /\ Rank(y.op) \in 1 .. 3 => x.s = y.s
                        /\ Rank(x.op) \in 1 .. 7 => Rank(y.op) \notin 8 .. 12
                        /\ Rank(x.op) = 5 => Rank(y.op) \notin 1 .. 4
      BY DEF Apart
    <2> DEFINE p == Rank(x.op)
               q == Rank(y.op)
               k == Rank(i.op)
    <2>1. p \in 0 .. 14 /\ q \in 0 .. 14 /\ k \in 0 .. 14
      BY RankType
    <2>2. \/ k <= p /\ x \in Work
          \/ Band(i, x) /\ p <= k
      BY <1>6
    <2>3. \/ k <= q /\ y \in Work
          \/ Band(i, y) /\ q <= k
      BY <1>6
    <2>4. CASE x \in Work /\ y \in Work
      BY <1>8, <2>4
    <2>5. CASE k <= p /\ x \in Work /\ Band(i, y) /\ q <= k
      <3>1. /\ k \in 1 .. 3 /\ p \in 1 .. 3 => i.s = x.s
            /\ k \in 1 .. 7 => p \notin 8 .. 12
            /\ p \in 1 .. 7 => k \notin 8 .. 12
            /\ p = 5 => k \notin 1 .. 4
        BY <1>8, <2>5
      <3>2. \/ q = 0
            \/ q \in 1 .. 3 /\ k \in 1 .. 4 /\ y.s = i.s
            \/ q = 5 /\ k = 6
            \/ q \in 8 .. 14 /\ k \in 8 .. 14
        BY <2>5 DEF Band
      <3> HIDE DEF p, q, k
      <3>3. /\ p \in 1 .. 3 /\ q \in 1 .. 3 => x.s = y.s
            /\ p \in 1 .. 7 => q \notin 8 .. 12
            /\ p = 5 => q \notin 1 .. 4
        BY <2>1, <2>5, <3>1, <3>2
      <3> QED BY <3>3 DEF p, q
    <2>6. CASE k <= q /\ y \in Work /\ Band(i, x) /\ p <= k
      <3>1. /\ k \in 1 .. 3 /\ q \in 1 .. 3 => i.s = y.s
            /\ k \in 1 .. 7 => q \notin 8 .. 12
            /\ q \in 1 .. 7 => k \notin 8 .. 12
            /\ q = 5 => k \notin 1 .. 4
        BY <1>8, <2>6
      <3>2. \/ p = 0
            \/ p \in 1 .. 3 /\ k \in 1 .. 4 /\ x.s = i.s
            \/ p = 5 /\ k = 6
            \/ p \in 8 .. 14 /\ k \in 8 .. 14
        BY <2>6 DEF Band
      <3> HIDE DEF p, q, k
      <3>3. /\ p \in 1 .. 3 /\ q \in 1 .. 3 => x.s = y.s
            /\ p \in 1 .. 7 => q \notin 8 .. 12
            /\ p = 5 => q \notin 1 .. 4
        BY <2>1, <2>6, <3>1, <3>2
      <3> QED BY <3>3 DEF p, q
    <2>7. CASE Band(i, x) /\ Band(i, y) /\ p <= k /\ q <= k
      <3>1. \/ p = 0
            \/ p \in 1 .. 3 /\ k \in 1 .. 4 /\ x.s = i.s
            \/ p = 5 /\ k = 6
            \/ p \in 8 .. 14 /\ k \in 8 .. 14
        BY <2>7 DEF Band
      <3>2. \/ q = 0
            \/ q \in 1 .. 3 /\ k \in 1 .. 4 /\ y.s = i.s
            \/ q = 5 /\ k = 6
            \/ q \in 8 .. 14 /\ k \in 8 .. 14
        BY <2>7 DEF Band
      <3> HIDE DEF p, q, k
      <3>3. /\ p \in 1 .. 3 /\ q \in 1 .. 3 => x.s = y.s
            /\ p \in 1 .. 7 => q \notin 8 .. 12
            /\ p = 5 => q \notin 1 .. 4
        BY <2>1, <2>7, <3>1, <3>2
      <3> QED BY <3>3 DEF p, q
    <2> HIDE DEF p, q, k
    <2> QED BY <2>2, <2>3, <2>4, <2>5, <2>6, <2>7
  <1>10. OrderOK'
    <2>1. Apart(Work')
      BY <1>3, <1>9
    <2> QED BY <1>1, <1>2, <2>1 DEF OrderOK
  <1>11. \A y \in Work : Due(y) => y = Do(i.op, i.s, i.r) \/ y \in Work'
    BY <1>2, <1>3 DEF Fires
  <1> QED BY <1>1, <1>2, <1>3, <1>4, <1>5, <1>10, <1>11

-----------------------------------------------------------------------------
(* Callbacks.                                                               *)

KeptBut(i) == \A y \in Work : Due(y) => y = Do(i.op, i.s, i.r) \/ y \in Work'

LEMMA HasKept ==
  ASSUME NEW i, KeptBut(i), NEW op, NEW s, NEW r, Has(op, s, r), Due(Do(op, s, r)),
         op # i.op \/ s # i.s \/ r # i.r
  PROVE  Has(op, s, r)'
  BY Parts DEF KeptBut, Has

Apps == {<<Do("app", 0, None)>>, <<>>}

(* Nothing but the application follows. *)
LEMMA Answered ==
  ASSUME GInv, NEW i, Fires(i), NEW a \in Apps,
         todo' = a \o i.rest, input' = input
  PROVE  /\ WorkOK' /\ OrderOK' /\ KeptBut(i)
         /\ \A y \in Work' : (y = Do("app", 0, None) /\ a # <<>>) \/ (y \in Work /\ y \in ToSet(i.rest))
  <1>1. Adds(i, a)
    <2>1. CASE a = <<>>
      <3>1. <<>> \in Seq(Item) /\ DOMAIN <<>> = {} /\ ToSet(<<>>) = {}
        BY AppItem
      <3> QED BY <2>1, <3>1 DEF Adds, Fits, Sorted, Distinct, HeadsFirst
    <2>2. CASE a # <<>>
      <3> DEFINE x == Do("app", 0, None)
      <3>1. a = <<x>> /\ x \in Item
        <4>1. "app" \in Ops
          BY DEF Ops
        <4>2. 0 \in Nat
          OBVIOUS
        <4>3. None \in Recognizers \cup {None}
          OBVIOUS
        <4>4. x \in Item
          BY <4>1, <4>2, <4>3, Parts, Zenon
        <4> QED BY <2>2, <4>4 DEF Apps
      <3>2. x.op = "app" /\ Typed(x) /\ Rank(x.op) = 0
        BY Parts, Ranks DEF Typed, SlotOps, RecOps, Callbacks
      <3> HIDE DEF x
      <3>3. <<x>> \in Seq(Item) /\ ToSet(<<x>>) = {x} /\ Sorted(<<x>>) /\ Distinct(<<x>>) /\ HeadsFirst(<<x>>)
        BY <3>1, OneItem
      <3>4. Rank(x.op) <= Rank(i.op)
        BY <3>2, RankType
      <3> QED BY <2>2, <3>1, <3>2, <3>3, <3>4 DEF Adds, Fits, Band, Once
    <2> QED BY <2>1, <2>2
  <1>2. ToSet(a) \subseteq {Do("app", 0, None)} /\ (a = <<>> => ToSet(a) = {})
    <2>1. a = <<>> \/ a = <<Do("app", 0, None)>>
      BY DEF Apps
    <2> QED BY <2>1, AppItem
  <1>3. /\ WorkOK' /\ OrderOK'
        /\ \A y \in Work : Due(y) => y = Do(i.op, i.s, i.r) \/ y \in Work'
        /\ \A y \in Work' : y \in ToSet(a) \/ (y \in Work /\ y \in ToSet(i.rest))
    BY <1>1, Stepped
  <1> QED BY <1>2, <1>3 DEF KeptBut

(* What a callback leaves, whatever it tells. *)
LEMMA CallbackFrame ==
  ASSUME GInv, StaysMounted, NEW i, Fires(i), Callback(i)
  PROVE  /\ TypeOK' /\ OwnersOK' /\ WorkOK' /\ OrderOK' /\ UnmountOK' /\ FlagsOK' /\ LiveOK' /\ OnScreen'
         /\ HeldOK' /\ KeptBut(i) /\ (Unmounting' => Unmounting) /\ pinch' = pinch
         /\ \A y \in Work' :
              y.op = "app" \/ (y \in Work /\ y \in ToSet(i.rest))
         /\ \A r \in Recognizers, s \in Slots :
              i.op \notin {"onDown", "onUp", "onCancel"} \/ r # i.r \/ s # i.s => HeardAt(r, s)'
         /\ \A s \in Slots : won'[s] = won[s] => WonAt(s)'
         /\ \A r \in Recognizers : (r \in pinched' <=> r \in pinched) /\ (r \in pinched => pinch[r] # {}) => EndsAt(r)'
  <1>1. PICK a \in Apps : /\ a = <<>> \/ i.op \in Reentrant
                          /\ todo' = a \o i.rest
    BY DEF Callback, Then, Apps
  <1>2. /\ input' = input /\ recs' = recs /\ mounted' = mounted /\ track' = track /\ flags' = flags
        /\ live' = live /\ pinch' = pinch /\ i.op \in Callbacks
    BY DEF Callback, world, app, pinches
  <1>5. /\ WorkOK' /\ OrderOK' /\ KeptBut(i)
        /\ \A y \in Work' : (y = Do("app", 0, None) /\ a # <<>>) \/ (y \in Work /\ y \in ToSet(i.rest))
    BY <1>1, <1>2, Answered
  <1>6. \A y \in Work' : y.op = "app" \/ (y \in Work /\ y \in ToSet(i.rest))
    BY <1>5, Parts
  <1>7. i.s \in Nat /\ i.r \in Recognizers /\ (i.op \in SlotOps => i.s \in Slots)
    BY <1>2, ItemFacts DEF RecOps
  <1>8. heard' \in [Recognizers -> [Slots -> {"nothing", "onDown", "onUp", "onCancel", "lateDown", "lateCancel"}]]
        /\ \A r \in Recognizers, s \in Slots :
             i.op \notin {"onDown", "onUp", "onCancel"} \/ r # i.r \/ s # i.s => heard'[r][s] = heard[r][s]
    <2>1. heard \in [Recognizers -> [Slots -> {"nothing", "onDown", "onUp", "onCancel", "lateDown", "lateCancel"}]]
      BY DEF GInv, TypeOK
    <2>2. CASE i.op \notin {"onDown", "onUp", "onCancel"}
      BY <2>1, <2>2 DEF Callback
    <2>3. CASE i.op \in {"onDown", "onUp", "onCancel"}
      <3>1. PICK h : h = Hears(heard[i.r][i.s], i.op)
        OBVIOUS
      <3>2. heard' = [heard EXCEPT ![i.r][i.s] = h] /\ i.s \in Slots
        BY <1>7, <2>3, <3>1 DEF Callback, SlotOps
      <3>3. h \in {"onDown", "onUp", "onCancel", "lateDown", "lateCancel"}
        BY <2>3, <3>1 DEF Hears
      <3> QED BY <1>7, <2>1, <2>3, <3>2, <3>3
    <2> QED BY <2>2, <2>3
  <1>9. won' \in [Slots -> SUBSET (Callbacks \X Recognizers)]
    <2>1. won \in [Slots -> SUBSET (Callbacks \X Recognizers)]
      BY DEF GInv, TypeOK
    <2>2. CASE i.op \notin {"onTap", "onLongPress", "onPanStart"}
      BY <2>1, <2>2 DEF Callback
    <2>3. CASE i.op \in {"onTap", "onLongPress", "onPanStart"}
      <3>1. won' = [won EXCEPT ![i.s] = won[i.s] \cup {<<i.op, i.r>>}] /\ i.s \in Slots
        BY <1>7, <2>3 DEF Callback, SlotOps
      <3>2. <<i.op, i.r>> \in Callbacks \X Recognizers
        BY <1>2, <1>7
      <3> QED BY <2>1, <3>1, <3>2
    <2> QED BY <2>2, <2>3
  <1>10. pinched' \subseteq Recognizers
    BY <1>7 DEF Callback, GInv, TypeOK
  <1>11. TypeOK' /\ OwnersOK'
    BY <1>2, <1>8, <1>9, <1>10 DEF GInv, TypeOK, OwnersOK
  <1>13. i.op \notin {"cancel", "endPinch", "release", "retire", "up", "claim", "mount"}
    BY <1>2 DEF Callbacks
  <1>14. \A s, r : /\ Has("release", s, r) => Has("release", s, r)'
                   /\ Has("retire", s, r) => Has("retire", s, r)'
                   /\ Has("claim", s, r) => Has("claim", s, r)'
                   /\ Has("mount", s, r) => Has("mount", s, r)'
    BY <1>5, <1>13, HasKept, Dues DEF Always
  <1>15. \A s, r : /\ Has("cancel", s, r) /\ track[s].used /\ Observes(r, s) => Has("cancel", s, r)'
                   /\ Has("endPinch", s, r) /\ pinch[r] # {} /\ s \in pinch[r] \cup {0} => Has("endPinch", s, r)'
                   /\ Has("up", s, r) /\ Owns(r, s) /\ Observes(r, s) => Has("up", s, r)'
    BY <1>5, <1>13, HasKept, Dues
  <1>16. \A op, s, r : op # "app" /\ Has(op, s, r)' => Has(op, s, r)
    BY <1>6, Parts DEF Has
  <1>17. \A s : Ending(s)' <=> Ending(s)
    BY <1>14, <1>16 DEF Ending
  <1>18. (\A s, r : Owns(r, s)' <=> Owns(r, s)) /\ (\A s, r : Observes(r, s)' <=> Observes(r, s))
    BY <1>2 DEF Owns, Observes
  <1>19. UnmountOK' /\ FlagsOK' /\ LiveOK' /\ OnScreen' /\ (Unmounting' => Unmounting)
    <2>1. SameTracks
      BY <1>2, <1>18 DEF SameTracks
    <2>2. mounted <= mounted' /\ \A r \in ToSet(recs') : r \in ToSet(recs) \/ r > mounted
      BY <1>2 DEF GInv, TypeOK
    <2>3. \A y \in Work' :
            \/ y \in Work
            \/ /\ y.op # "mount" /\ (Unmounting => Rank(y.op) = 0)
               /\ y.op = "cancel" /\ track[y.s].used /\ Observes(y.r, y.s) => Owns(y.r, y.s)
      BY <1>6, Ranks
    <2>4. \A s \in Slots :
            track[s].used /\ (Has("retire", s, None) \/ Has("release", s, None)) =>
              \/ Has("retire", s, None)' \/ Has("release", s, None)'
              \/ track[s].contact \in ToSet(input.touches)
      BY <1>14
    <2> QED BY <1>5, <1>11, <2>1, <2>2, <2>3, <2>4, TracksKept
  <1>20. ASSUME NEW r \in Recognizers, NEW s \in Slots,
                i.op \notin {"onDown", "onUp", "onCancel"} \/ r # i.r \/ s # i.s
         PROVE  HeardAt(r, s)'
    <2>1. HeardAt(r, s) /\ heard'[r][s] = heard[r][s] /\ track'[s].used = track[s].used
      BY <1>2, <1>8, <1>20 DEF GInv, HeardOK
    <2>2. /\ Has("onCancel", s, r) => Has("onCancel", s, r)'
          /\ Has("onDown", s, r) => Has("onDown", s, r)'
          /\ Has("onUp", s, r) => Has("onUp", s, r)'
      BY <1>5, <1>20, HasKept, Dues DEF Always
    <2>3. /\ Has("up", s, r)' \/ Has("onUp", s, r)' => Has("up", s, r) \/ Has("onUp", s, r)
          /\ Has("onUp", s, r)' => ~Has("up", s, r)'
      BY <1>16, <2>1 DEF HeardAt
    <2>4. track[s].used /\ Owns(r, s) /\ Observes(r, s)
              /\ (Has("up", s, r) \/ Has("onUp", s, r) \/ Has("cancel", s, r))
            => Has("up", s, r)' \/ Has("onUp", s, r)' \/ Has("cancel", s, r)'
      BY <1>15, <2>2
    <2> HIDE DEF HeardAt
    <2> QED BY <1>17, <1>18, <2>1, <2>2, <2>3, <2>4, HeardSame
  <1>21. ASSUME NEW s \in Slots, won'[s] = won[s] PROVE WonAt(s)'
    <2>1. WonAt(s)
      BY DEF GInv, WonOK
    <2>2. (\A x \in Work : x.op \in {"tap", "onTap"} => x.s # s)
            => \A x \in Work' : x.op \in {"tap", "onTap"} => x.s # s
      BY <1>6
    <2>3. \A q \in Recognizers :
            track'[s].used /\ Owns(q, s)' /\ Observes(q, s)' /\ (track[s].claimed = q \/ Has("cancel", s, q))
              => track'[s].claimed = q \/ Has("cancel", s, q)'
      BY <1>2, <1>15, <1>18
    <2> QED BY <1>2, <1>14, <1>17, <1>18, <1>21, <2>1, <2>2, <2>3, WonSame
  <1>22. ASSUME NEW r \in Recognizers, r \in pinched' <=> r \in pinched, r \in pinched => pinch[r] # {}
         PROVE  EndsAt(r)'
    <2>1. EndsAt(r)
      BY DEF GInv, EndsOK
    <2>2. pinch[r] # {} /\ Has("endPinch", 0, r) => Has("endPinch", 0, r)'
      BY <1>15
    <2>3. \A y \in Work' : y.op = "unregister" /\ y.r = r => y \in Work \/ Has("endPinch", 0, r)'
      BY <1>6
    <2> QED BY <1>2, <1>19, <1>22, <2>1, <2>2, <2>3, EndsSame
  <1>23. HeldOK'
    <2>1. ASSUME NEW r \in Recognizers, NEW s \in pinch[r] PROVE Unmounting' \/ Held(r, s)'
      <3>1. s \in Slots /\ pinch[r] # {}
        BY DEF GInv, TypeOK
      <3>2. ~Broken(r)
        BY <1>13, AtHead
      <3>3. CASE Held(r, s)
        <4>1. Has("endPinch", s, r) \/ Has("cancel", s, r) => Has("endPinch", s, r)' \/ Has("cancel", s, r)'
          BY <1>15, <3>1, <3>3 DEF Held
        <4> QED BY <1>2, <1>14, <1>17, <1>18, <3>1, <3>3, <4>1, HeldSame
      <3>4. CASE Unmounting
        <4>1. PICK x \in Work : x.op = "mount"
          BY <3>4 DEF Unmounting
        <4>2. x = Do("mount", x.s, x.r)
          BY <4>1, Parts DEF GInv, WorkOK, Work, ToSet
        <4>3. Do("mount", x.s, x.r) \in Work'
          BY <1>14, <4>1, <4>2 DEF Has
        <4> QED BY <4>3, Parts DEF Unmounting
      <3> QED BY <3>2, <3>3, <3>4 DEF GInv, HeldOK
    <2> QED BY <1>2, <2>1 DEF GInv, HeldOK
  <1> QED BY <1>2, <1>5, <1>6, <1>11, <1>19, <1>20, <1>21, <1>22, <1>23

(* What waits behind a callback finds what it takes for granted.            *)
LEMMA CallbackItem ==
  ASSUME GInv, StaysMounted, NEW i, Fires(i), Callback(i), NEW x \in Work', x \in Work,
         x.op \in Hearers => heard'[x.r][x.s] = heard[x.r][x.s],
         x.op = "onPanEnd" => (Has("onUp", x.s, x.r) => Has("onUp", x.s, x.r)'),
         x.op = "onDown" => (Has("onCancel", x.s, x.r) => Has("onCancel", x.s, x.r)'),
         x.op = "onCancel" => (Has("onDown", x.s, x.r) => Has("onDown", x.s, x.r)')
  PROVE  ItemOK(x)'
  <1>1. /\ track' = track /\ flags' = flags /\ pinch' = pinch /\ i.op \in Callbacks
        /\ i.op \notin {"onTap", "onLongPress", "onPanStart"} => won' = won
    BY DEF Callback, app, pinches
  <1>2. KeptBut(i) /\ \A y \in Work' : y.op = "app" \/ (y \in Work /\ y \in ToSet(i.rest))
    BY CallbackFrame
  <1>3. (\A s, r : Owns(r, s)' <=> Owns(r, s)) /\ (\A s, r : Observes(r, s)' <=> Observes(r, s))
    BY <1>1 DEF Owns, Observes
  <1>4. \A s, r : /\ Has("release", s, r) => Has("release", s, r)'
                  /\ Has("claim", s, r) => Has("claim", s, r)'
    BY <1>1, <1>2, HasKept, Dues DEF Always, Callbacks
  <1>5. ItemOK(x)
    BY DEF GInv, ItemsOK
  <1>6. x.op \in {"onTap", "onLongPress", "onPanStart"} => won' = won
    <2> SUFFICES ASSUME x.op \in {"onTap", "onLongPress", "onPanStart"}, i.op \in {"onTap", "onLongPress", "onPanStart"}
                 PROVE  FALSE
      BY <1>1
    <2>1. x.op \in Heads /\ x.op # "app"
      BY DEF Heads
    <2>2. x \in ToSet(i.rest)
      BY <1>2, <2>1
    <2> QED BY <2>1, <2>2 DEF Fires
  <1>7. (\A y \in Work : y.op # "tap") => \A y \in Work' : y.op # "tap"
    BY <1>2
  <1>8. Ending(x.s) => Ending(x.s)'
    BY <1>4 DEF Ending
  <1> HIDE DEF ItemOK
  <1> QED BY <1>1, <1>3, <1>4, <1>5, <1>6, <1>7, <1>8, ItemSame

(* What cannot come after a callback: another that waits at the head. *)
LEMMA RestHas ==
  ASSUME NEW i, Fires(i), NEW x \in ToSet(i.rest)
  PROVE  /\ x.op \notin Heads
         /\ Rank(i.op) <= Rank(x.op)
         /\ i.op \in Once => x # Do(i.op, i.s, i.r)
  BY DEF Fires

LEMMA AppOK ==
  ASSUME NEW x, x.op = "app"
  PROVE  ItemOK(x)'
  BY DEF ItemOK, Told

(* onDown, onUp, onCancel. *)
LEMMA HeardKeeps ==
  ASSUME GInv, StaysMounted, NEW i, Fires(i), Callback(i), i.op \in {"onDown", "onUp", "onCancel"}
  PROVE  GInv'
  <1> DEFINE s == i.s
             r == i.r
  <1>1. /\ TypeOK' /\ OwnersOK' /\ WorkOK' /\ OrderOK' /\ UnmountOK' /\ FlagsOK' /\ LiveOK' /\ OnScreen'
        /\ HeldOK' /\ KeptBut(i) /\ (Unmounting' => Unmounting) /\ pinch' = pinch
        /\ \A y \in Work' : y.op = "app" \/ (y \in Work /\ y \in ToSet(i.rest))
    BY CallbackFrame
  <1>2. s \in Slots /\ r \in Recognizers
    BY ItemFacts DEF SlotOps, RecOps, Callbacks
  <1>3. /\ won' = won /\ pinched' = pinched /\ track' = track /\ flags' = flags
        /\ heard' = [heard EXCEPT ![r][s] = Hears(heard[r][s], i.op)]
    BY DEF Callback, app
  <1>4. \A q \in Recognizers, t \in Slots :
          heard'[q][t] = IF q = r /\ t = s THEN Hears(heard[r][s], i.op) ELSE heard[q][t]
    <2>1. PICK h : h = Hears(heard[r][s], i.op)
      OBVIOUS
    <2>2. heard' = [heard EXCEPT ![r][s] = h]
      BY <1>3, <2>1
    <2>3. \A q \in Recognizers, t \in Slots : heard'[q][t] = IF q = r /\ t = s THEN h ELSE heard[q][t]
      BY <1>2, <2>2 DEF GInv, TypeOK
    <2> QED BY <2>1, <2>3
  <1>5. \A q \in Recognizers : q \in pinched => pinch[q] # {}
    BY AtHead
  <1>6. Do(i.op, s, r) \in Work /\ Do(i.op, s, r).op = i.op /\ Do(i.op, s, r).s = s /\ Do(i.op, s, r).r = r
    BY Parts DEF Fires
  <1>7. ItemOK(Do(i.op, s, r)) /\ HeardAt(r, s)
    BY <1>2, <1>6 DEF GInv, ItemsOK, HeardOK
  <1>8. \A op, t, q : op # "app" /\ Has(op, t, q)' => Do(op, t, q) \in Work /\ Do(op, t, q) \in ToSet(i.rest)
    BY <1>1, Parts DEF Has
  <1>9. HeardAt(r, s)'
    <2>1. CASE i.op = "onDown"
      <3>1. /\ track[s].used /\ Owns(r, s)
            /\ \/ heard[r][s] = "nothing" /\ (Observes(r, s) \/ Has("onCancel", s, r))
               \/ heard[r][s] = "onCancel"
        BY <1>6, <1>7, <2>1 DEF ItemOK, Told
      <3>4. Has("onCancel", s, r) => Has("onCancel", s, r)'
        BY <1>1, <2>1, HasKept, Dues DEF Always
      <3>5. /\ heard'[r][s] = IF heard[r][s] = "onCancel" THEN "lateDown" ELSE "onDown"
            /\ Observes(r, s)' <=> Observes(r, s)
            /\ track'[s].used = track[s].used /\ (Owns(r, s)' <=> Owns(r, s))
        BY <1>2, <1>3, <1>4, <2>1, <3>1 DEF Hears, Observes, Owns
      <3>2. ~Ending(s)'
        <4>1. Ending(s)' => Do("release", s, None) \in Work
          BY <1>8 DEF Ending
        <4>2. ~(Do("release", s, None) \in Work)
          BY <2>1, Below, Parts, Ranks DEF Always
        <4> QED BY <4>1, <4>2
      <3>3. ~Has("onUp", s, r)'
        <4>1. Has("onUp", s, r)' => Do("onUp", s, r) \in ToSet(i.rest)
          BY <1>8
        <4> QED BY <4>1, RestHas, Parts DEF Heads
      <3> QED BY <1>7, <3>1, <3>2, <3>3, <3>4, <3>5 DEF HeardAt
    <2>2. CASE i.op = "onUp"
      <3>1. Ending(s) /\ ~Has("up", s, r) /\ heard[r][s] = "onDown"
        BY <1>6, <1>7, <2>2 DEF ItemOK, HeardAt, Has
      <3>2. Ending(s)'
        BY <1>1, <2>2, <3>1, HasKept, Dues DEF Ending, Always
      <3>3. ~Has("onUp", s, r)' /\ ~Has("up", s, r)'
        <4>1. Has("onUp", s, r)' => Do("onUp", s, r) \in ToSet(i.rest)
          BY <1>8
        <4>2. ~Has("onUp", s, r)'
          BY <4>1, RestHas, Parts DEF Heads
        <4> QED BY <1>8, <3>1, <4>2 DEF Has
      <3>4. heard'[r][s] = "onUp"
        BY <1>2, <1>4, <2>2, <3>1 DEF Hears
      <3> QED BY <3>2, <3>3, <3>4 DEF HeardAt
    <2>3. CASE i.op = "onCancel"
      <3>1. ~Observes(r, s)'
        BY <1>3, <1>6, <1>7, <2>3 DEF ItemOK, Observes
      <3>4. heard[r][s] \in {"nothing", "onDown", "onUp"}
        BY <1>6, <1>7, <2>3 DEF ItemOK
      <3>2. ~Has("onUp", s, r)'
        <4>1. Has("onUp", s, r)' => Do("onUp", s, r) \in ToSet(i.rest)
          BY <1>8
        <4> QED BY <4>1, RestHas, Parts DEF Heads
      <3>3. heard'[r][s] = IF heard[r][s] = "onUp" THEN "lateCancel" ELSE "onCancel"
        BY <1>2, <1>4, <2>3, <3>4 DEF Hears
      <3>5. Has("up", s, r)' => Has("up", s, r)
        BY <1>8 DEF Has
      <3>6. Ending(s) => Ending(s)'
        BY <1>1, <2>3, HasKept, Dues DEF Ending, Always
      <3> QED BY <1>3, <1>7, <3>1, <3>2, <3>3, <3>5, <3>6 DEF HeardAt
    <2> QED BY <2>1, <2>2, <2>3
  <1>10. HeardOK'
    <2>1. \A q \in Recognizers, t \in Slots : q # r \/ t # s => HeardAt(q, t)'
      BY CallbackFrame
    <2>2. \A q \in Recognizers, t \in Slots : HeardAt(q, t)'
      BY <1>9, <2>1
    <2> QED BY <2>2 DEF HeardOK
  <1>11. WonOK'
    <2>1. \A t \in Slots : WonAt(t)'
      BY <1>3, CallbackFrame
    <2> QED BY <2>1 DEF WonOK
  <1>12. EndsOK'
    <2>1. \A q \in Recognizers : EndsAt(q)'
      BY <1>3, <1>5, CallbackFrame
    <2> QED BY <2>1 DEF EndsOK
  <1>13. ItemsOK'
    <2> SUFFICES ASSUME NEW x \in Work' PROVE ItemOK(x)'
      BY DEF ItemsOK
    <2>7. CASE x.op = "app"
      BY <2>7, AppOK
    <2> SUFFICES ASSUME x.op # "app" PROVE ItemOK(x)'
      BY <2>7
    <2>1. x \in Work /\ x \in ToSet(i.rest) /\ Typed(x) /\ ItemOK(x) /\ x = Do(x.op, x.s, x.r)
      <3>1. x \in Work /\ x \in ToSet(i.rest)
        BY <1>1
      <3>2. Typed(x) /\ ItemOK(x) /\ x \in Item
        BY <3>1 DEF GInv, WorkOK, ItemsOK, Work, ToSet
      <3> QED BY <3>1, <3>2, Parts
    <2>2. /\ x.op \in Hearers => x.op \in SlotOps /\ x.op \in RecOps
      BY DEF Hearers, SlotOps, RecOps, Callbacks
    <2>3. x.op \in Hearers => x.s \in Slots /\ x.r \in Recognizers
      BY <2>1, <2>2 DEF Typed
    <2>4. ASSUME x.op \in Hearers, x.s = s, x.r = r
          PROVE  \/ x.op = "onPanEnd" /\ i.op \in {"onUp", "onCancel"}
                 \/ x.op = "onDown" /\ i.op = "onCancel"
      <3>1. x.op \in {"onDown", "onPanEnd", "onCancel"}
        BY <2>1, <2>4, RestHas DEF Hearers, Heads
      <3>2. Rank(i.op) <= Rank(x.op) /\ (x.op = i.op => i.op \notin Once)
        BY <2>1, <2>4, RestHas
      <3>3. i.op # "onDown" \/ x.op = "onDown"
        BY <3>1, <3>2, Ranks
      <3>4. x.op = "onDown" => i.op # "onUp"
        BY <1>6, <2>1, Ranks DEF GInv, OrderOK, Apart
      <3>5. x.op = "onCancel" => i.op = "onCancel"
        BY <3>2, Ranks
      <3> QED BY <3>1, <3>2, <3>3, <3>4, <3>5 DEF Once
    <2>5. CASE i.op = "onUp" /\ x.op = "onPanEnd" /\ x.s = s /\ x.r = r
      <3>1. track[s].used /\ Owns(r, s) /\ Ending(s) /\ heard[r][s] = "onDown"
        BY <1>6, <1>7, <2>5 DEF ItemOK, Told
      <3>2. Ending(s)'
        BY <1>1, <2>5, <3>1, HasKept, Dues DEF Ending, Always
      <3>3. heard'[r][s] = "onUp"
        BY <1>2, <1>4, <2>5, <3>1 DEF Hears
      <3> QED BY <1>2, <1>3, <2>5, <3>1, <3>2, <3>3 DEF ItemOK, Told, Owns
    <2>8. CASE i.op = "onCancel" /\ x.op = "onPanEnd" /\ x.s = s /\ x.r = r
      <3>1. track[s].used /\ Owns(r, s) /\ Ending(s)
        BY <2>1, <2>8 DEF ItemOK, Told
      <3>2. Ending(s)'
        BY <1>1, <2>8, <3>1, HasKept, Dues DEF Ending, Always
      <3>3. ~Has("onUp", s, r)
        <4>1. "onUp" \in Heads /\ Do("onUp", s, r).op = "onUp"
          BY Parts DEF Heads
        <4> QED BY <1>6, <2>8, <4>1, AtHead DEF Has
      <3>4. heard[r][s] \in {"nothing", "onDown", "onUp"}
        BY <1>6, <1>7, <2>8 DEF ItemOK
      <3>5. heard[r][s] = "onUp"
        BY <2>1, <2>8, <3>3, <3>4 DEF ItemOK
      <3>6. heard'[r][s] = "lateCancel"
        BY <1>2, <1>4, <2>8, <3>5 DEF Hears
      <3> QED BY <1>2, <1>3, <2>8, <3>1, <3>2, <3>6 DEF ItemOK, Told, Owns
    <2>9. CASE i.op = "onCancel" /\ x.op = "onDown" /\ x.s = s /\ x.r = r
      <3>1. heard[r][s] \in {"nothing", "onDown", "onUp"}
        BY <1>6, <1>7, <2>9 DEF ItemOK
      <3>2. track[s].used /\ Owns(r, s) /\ heard[r][s] = "nothing"
        BY <2>1, <2>9, <3>1 DEF ItemOK, Told
      <3>3. heard'[r][s] = "onCancel"
        BY <1>2, <1>4, <2>9, <3>2 DEF Hears
      <3> QED BY <1>2, <1>3, <2>9, <3>2, <3>3 DEF ItemOK, Told, Owns
    <2>6. CASE ~(x.op \in Hearers /\ x.s = s /\ x.r = r)
      <3>1. x.op \in Hearers => heard'[x.r][x.s] = heard[x.r][x.s]
        BY <1>4, <2>3, <2>6
      <3>2. /\ x.op = "onPanEnd" => (Has("onUp", x.s, x.r) => Has("onUp", x.s, x.r)')
            /\ x.op = "onDown" => (Has("onCancel", x.s, x.r) => Has("onCancel", x.s, x.r)')
            /\ x.op = "onCancel" => (Has("onDown", x.s, x.r) => Has("onDown", x.s, x.r)')
        BY <1>1, <2>6, HasKept, Dues DEF Always, Hearers
      <3> QED BY <2>1, <3>1, <3>2, CallbackItem
    <2> QED BY <2>4, <2>5, <2>6, <2>8, <2>9
  <1>14. StartsOK'
    <2>1. \A q : Has("onPinchStart", 0, q) => Has("onPinchStart", 0, q)'
      BY <1>1, HasKept, Dues DEF Always
    <2> QED BY <1>1, <1>3, <2>1, StartsSame DEF GInv
  <1> QED BY <1>1, <1>10, <1>11, <1>12, <1>13, <1>14 DEF GInv

(* onTap, onLongPress and onPanStart: the contact is won. *)
LEMMA WonKeeps ==
  ASSUME GInv, StaysMounted, NEW i, Fires(i), Callback(i), i.op \in {"onTap", "onLongPress", "onPanStart"}
  PROVE  GInv'
  <1> DEFINE s == i.s
             r == i.r
  <1>1. /\ TypeOK' /\ OwnersOK' /\ WorkOK' /\ OrderOK' /\ UnmountOK' /\ FlagsOK' /\ LiveOK' /\ OnScreen'
        /\ HeldOK' /\ KeptBut(i) /\ pinch' = pinch
        /\ \A y \in Work' : y.op = "app" \/ (y \in Work /\ y \in ToSet(i.rest))
    BY CallbackFrame
  <1>2. s \in Slots /\ r \in Recognizers
    BY ItemFacts DEF SlotOps, RecOps, Callbacks
  <1>3. heard' = heard /\ pinched' = pinched /\ won' = [won EXCEPT ![s] = won[s] \cup {<<i.op, r>>}]
    BY DEF Callback
  <1>4. Calm
    BY CalmNow
  <1>5. ItemOK(Do(i.op, s, r)) /\ Do(i.op, s, r).op = i.op /\ Do(i.op, s, r).s = s /\ Do(i.op, s, r).r = r
    BY ItemFacts, Parts
  <1>6. won[s] = {} /\ \A t \in Slots : won'[t] = IF t = s THEN {<<i.op, r>>} ELSE won[t]
    BY <1>2, <1>3, <1>5 DEF ItemOK, GInv, TypeOK
  <1>7. WonAt(s)'
    <2>1. \A a, b \in won'[s] : a = b
      BY <1>2, <1>6
    <2>2. CASE i.op \in {"onLongPress", "onPanStart"}
      <3>1. Has("claim", s, r)
        BY <1>5, <2>2 DEF ItemOK
      <3>2. Has("claim", s, r)'
        BY <1>1, <2>2, <3>1, HasKept, Dues DEF Always
      <3> QED BY <1>2, <2>1, <3>2 DEF WonAt
    <2>3. CASE i.op = "onTap"
      <3>1. Ending(s) /\ \A y \in Work : y.op # "tap"
        BY <1>5, <2>3 DEF ItemOK
      <3>2. Ending(s)'
        BY <1>1, <2>3, <3>1, HasKept, Dues DEF Ending, Always
      <3>3. \A y \in Work' : y.op \notin {"tap", "onTap"}
        <4> TAKE y \in Work'
        <4>1. y.op = "app" \/ y.op # "tap"
          BY <1>1, <3>1
        <4>2. y.op = "app" \/ y.op # "onTap"
          BY <1>1, RestHas DEF Heads
        <4> QED BY <4>1, <4>2
      <3> QED BY <2>1, <3>2, <3>3 DEF WonAt
    <2> QED BY <2>2, <2>3
  <1>8. WonOK'
    <2>1. \A t \in Slots : t # s => WonAt(t)'
      BY <1>6, CallbackFrame
    <2>2. \A t \in Slots : WonAt(t)'
      BY <1>7, <2>1
    <2> QED BY <2>2 DEF WonOK
  <1>9. HeardOK'
    <2>1. \A q \in Recognizers, t \in Slots : HeardAt(q, t)'
      BY CallbackFrame
    <2> QED BY <2>1 DEF HeardOK
  <1>10. EndsOK'
    <2>1. \A q \in Recognizers : EndsAt(q)'
      BY <1>3, <1>4, CallbackFrame DEF Calm
    <2> QED BY <2>1 DEF EndsOK
  <1>11. ItemsOK'
    <2> SUFFICES ASSUME NEW x \in Work' PROVE ItemOK(x)'
      BY DEF ItemsOK
    <2>1. CASE x.op = "app"
      BY <2>1, AppOK
    <2>2. CASE x \in Work /\ x \in ToSet(i.rest)
      <3>1. /\ Has("onUp", x.s, x.r) => Has("onUp", x.s, x.r)'
            /\ Has("onCancel", x.s, x.r) => Has("onCancel", x.s, x.r)'
            /\ Has("onDown", x.s, x.r) => Has("onDown", x.s, x.r)'
        BY <1>1, HasKept, Dues DEF Always
      <3> QED BY <1>3, <2>2, <3>1, CallbackItem
    <2> QED BY <1>1, <2>1, <2>2
  <1>12. StartsOK'
    <2>1. \A q : Has("onPinchStart", 0, q) => Has("onPinchStart", 0, q)'
      BY <1>1, HasKept, Dues DEF Always
    <2>2. \A y \in Work' :
            \/ y \in Work
            \/ y.op \notin {"onPinchEnd", "onPinchStart"} /\ (y.op = "onPinchMove" => y.r \in pinched)
      BY <1>1
    <2> QED BY <1>1, <1>3, <2>1, <2>2, StartsSame DEF GInv
  <1> QED BY <1>1, <1>8, <1>9, <1>10, <1>11, <1>12 DEF GInv

(* onPinchStart and onPinchEnd. *)
LEMMA PinchedKeeps ==
  ASSUME GInv, StaysMounted, NEW i, Fires(i), Callback(i), i.op \in {"onPinchStart", "onPinchEnd"}
  PROVE  GInv'
  <1> DEFINE r == i.r
  <1>1. /\ TypeOK' /\ OwnersOK' /\ WorkOK' /\ OrderOK' /\ UnmountOK' /\ FlagsOK' /\ LiveOK' /\ OnScreen'
        /\ HeldOK' /\ KeptBut(i) /\ pinch' = pinch /\ (Unmounting' => Unmounting)
        /\ \A y \in Work' : y.op = "app" \/ (y \in Work /\ y \in ToSet(i.rest))
    BY CallbackFrame
  <1>2. r \in Recognizers
    BY ItemFacts DEF RecOps, Callbacks
  <1>3. /\ heard' = heard /\ won' = won
        /\ i.op = "onPinchStart" => pinched' = IF pinch[r] # {} THEN pinched \cup {r} ELSE pinched
        /\ i.op = "onPinchEnd" => pinched' = pinched \ {r}
        /\ recs' = recs
    BY DEF Callback, app
  <1>4. LET x == Do(i.op, i.s, r)
        IN  x \in Work /\ x.op = i.op /\ x.s = i.s /\ x.r = r
    BY Parts DEF Fires
  <1>5. \A y \in Work' : y.op \notin {"onPinchEnd", "onPinchMove"}
    BY <1>1, RestHas DEF Heads
  <1>6. \A y \in Work' : y.op = "onPinchStart" => y.s = 0 /\ y.r \notin pinched /\ (i.op = "onPinchStart" => y.r # r)
    <2> SUFFICES ASSUME NEW y \in Work', y.op = "onPinchStart"
                 PROVE  y.s = 0 /\ y.r \notin pinched /\ (i.op = "onPinchStart" => y.r # r)
      OBVIOUS
    <2>1. y \in Work /\ y \in ToSet(i.rest)
      BY <1>1
    <2>2. y.s = 0 /\ y.r \notin pinched /\ (i.op = "onPinchStart" => i.s = 0)
      BY <1>4, <2>1 DEF GInv, StartsOK
    <2>3. y = Do(y.op, y.s, y.r)
      BY <2>1, Parts DEF GInv, WorkOK, Work, ToSet
    <2>4. i.op = "onPinchStart" => y # Do(i.op, i.s, r)
      BY <2>1, RestHas DEF Once
    <2> QED BY <2>2, <2>3, <2>4
  <1>7. \A q \in Recognizers : (q # r \/ i.op = "onPinchStart") /\ q \in pinched => pinch[q] # {}
    <2>1. i.op = "onPinchEnd" => todo[1] = Do(i.op, i.s, r)
      BY DEF Fires, Heads
    <2>2. i.op = "onPinchEnd" => todo[1].r = r
      BY <1>4, <2>1
    <2> QED BY <2>2, AtHead DEF GInv, EndsOK, EndsAt
  <1>8. i.op = "onPinchStart" => r \notin pinched
    BY <1>4 DEF GInv, StartsOK
  <1>9. i.op = "onPinchEnd" => pinch[r] = {}
    BY <1>4 DEF GInv, StartsOK
  <1>10. EndsOK'
    <2>1. \A q \in Recognizers : q # r => EndsAt(q)'
      BY <1>3, <1>7, CallbackFrame
    <2>2. EndsAt(r)'
      <3>1. EndsAt(r)
        BY <1>2 DEF GInv, EndsOK
      <3>2. pinch[r] # {} /\ Has("endPinch", 0, r) => Has("endPinch", 0, r)'
        BY <1>1, HasKept, Dues
      <3>3. r \in pinched' => pinch[r] # {}
        BY <1>3, <1>8, <1>9
      <3>4. \A y \in Work' : y.op = "unregister" /\ y.r = r => y \in Work
        BY <1>1
      <3> QED BY <1>1, <1>3, <3>1, <3>2, <3>3, <3>4 DEF EndsAt
    <2> QED BY <2>1, <2>2 DEF EndsOK
  <1>11. StartsOK'
    <2>1. ASSUME NEW q \in Recognizers, pinch[q] # {}, q \notin pinched' PROVE Has("onPinchStart", 0, q)'
      <3>1. q # r /\ q \notin pinched
        BY <1>3, <1>9, <2>1
      <3>2. Has("onPinchStart", 0, q)
        BY <2>1, <3>1 DEF GInv, StartsOK
      <3> QED BY <1>1, <3>1, <3>2, HasKept, Dues DEF Always
    <2>2. \A y \in Work' : y.op = "onPinchStart" => y.s = 0 /\ y.r \notin pinched'
      BY <1>3, <1>6
    <2> QED BY <1>1, <1>5, <2>1, <2>2 DEF StartsOK
  <1>12. HeardOK'
    <2>1. \A q \in Recognizers, t \in Slots : HeardAt(q, t)'
      BY CallbackFrame
    <2> QED BY <2>1 DEF HeardOK
  <1>13. WonOK'
    <2>1. \A t \in Slots : WonAt(t)'
      BY <1>3, CallbackFrame
    <2> QED BY <2>1 DEF WonOK
  <1>14. ItemsOK'
    <2> SUFFICES ASSUME NEW x \in Work' PROVE ItemOK(x)'
      BY DEF ItemsOK
    <2>1. CASE x.op = "app"
      BY <2>1, AppOK
    <2>2. CASE x \in Work /\ x \in ToSet(i.rest)
      <3>1. /\ Has("onUp", x.s, x.r) => Has("onUp", x.s, x.r)'
            /\ Has("onCancel", x.s, x.r) => Has("onCancel", x.s, x.r)'
            /\ Has("onDown", x.s, x.r) => Has("onDown", x.s, x.r)'
        BY <1>1, HasKept, Dues DEF Always
      <3> QED BY <1>3, <2>2, <3>1, CallbackItem
    <2> QED BY <1>1, <2>1, <2>2
  <1> QED BY <1>1, <1>10, <1>11, <1>12, <1>13, <1>14 DEF GInv

(* A callback changes what was heard, won or pinched, and may be answered   *)
(* by calls.                                                                *)
LEMMA CallbackKeeps ==
  ASSUME GInv, StaysMounted, NEW i, Fires(i), Callback(i)
  PROVE  GInv'
  <1>1. i.op \in Callbacks
    BY DEF Callback
  <1> QED BY <1>1, HeardKeeps, WonKeeps, PinchedKeeps, PlainCallbackKeeps DEF Callbacks

-----------------------------------------------------------------------------
(* Steps of the pump that change a pinch, a claim, or what is to be told.   *)

LEMMA StepFrame ==
  ASSUME GInv, NEW i, Fires(i), NEW a, Adds(i, a), todo' = a \o i.rest,
         input' = input, recs' = recs, mounted' = mounted, flags' = flags, live' = live, heard' = heard,
         TypeOK',
         \A s \in Slots : /\ track'[s].used = track[s].used /\ track'[s].owners = track[s].owners
                          /\ track'[s].contact = track[s].contact,
         i.op \notin {"release", "retire", "mount", "onCancel", "onDown", "onUp", "cancel"},
         \A y \in ToSet(a) :
           /\ y.op \notin {"release", "retire", "tap", "mount", "up", "onDown", "onCancel"}
           /\ (Unmounting => Rank(y.op) = 0)
           /\ y.op = "cancel" /\ track[y.s].used /\ Observes(y.r, y.s) => Owns(y.r, y.s)
  PROVE  /\ OwnersOK' /\ WorkOK' /\ OrderOK' /\ UnmountOK' /\ FlagsOK' /\ LiveOK' /\ OnScreen'
         /\ (Unmounting' => Unmounting) /\ KeptBut(i) /\ Work' = ToSet(a) \cup ToSet(i.rest)
         /\ (a # <<>> => todo' # <<>> /\ todo'[1] = a[1])
         /\ \A s \in Slots : (Ending(s)' <=> Ending(s)) /\ \A r : Owns(r, s)' <=> Owns(r, s)
         /\ \A s, r : Observes(r, s)' <=> Observes(r, s)
         /\ \A r \in Recognizers, s \in Slots :
              (i.op # "up" \/ r # i.r \/ s # i.s) /\ Do("onUp", s, r) \notin ToSet(a) => HeardAt(r, s)'
  <1>1. /\ WorkOK' /\ OrderOK' /\ Work' = ToSet(a) \cup ToSet(i.rest) /\ KeptBut(i)
        /\ \A y \in Work' : y \in ToSet(a) \/ (y \in Work /\ y \in ToSet(i.rest))
        /\ (a # <<>> => todo' # <<>> /\ todo'[1] = a[1])
    BY Stepped DEF KeptBut
  <1>2. OwnersOK'
    BY DEF GInv, OwnersOK
  <1>3. /\ \A s \in Slots : \A r : Owns(r, s)' <=> Owns(r, s)
        /\ \A s, r : Observes(r, s)' <=> Observes(r, s)
    BY DEF Owns, Observes
  <1>4. \A s, r : /\ Has("release", s, r) => Has("release", s, r)'
                  /\ Has("retire", s, r) => Has("retire", s, r)'
                  /\ Has("onCancel", s, r) => Has("onCancel", s, r)'
                  /\ Has("onDown", s, r) => Has("onDown", s, r)'
                  /\ Has("onUp", s, r) => Has("onUp", s, r)'
    BY <1>1, HasKept, Dues DEF Always
  <1>5. \A s \in Slots : Ending(s)' <=> Ending(s)
    <2>1. \A s : Ending(s)' => Ending(s)
      BY <1>1, Parts DEF Ending, Has
    <2> QED BY <1>4, <2>1 DEF Ending
  <1>6. UnmountOK' /\ FlagsOK' /\ LiveOK' /\ OnScreen' /\ (Unmounting' => Unmounting)
    <2>1. SameTracks
      BY <1>3 DEF SameTracks
    <2>2. mounted <= mounted' /\ \A r \in ToSet(recs') : r \in ToSet(recs) \/ r > mounted
      BY DEF GInv, TypeOK
    <2>3. \A y \in Work' :
            \/ y \in Work
            \/ /\ y.op # "mount" /\ (Unmounting => Rank(y.op) = 0)
               /\ y.op = "cancel" /\ track[y.s].used /\ Observes(y.r, y.s) => Owns(y.r, y.s)
      BY <1>1
    <2>4. \A s \in Slots :
            track[s].used /\ (Has("retire", s, None) \/ Has("release", s, None)) =>
              \/ Has("retire", s, None)' \/ Has("release", s, None)'
              \/ track[s].contact \in ToSet(input.touches)
      BY <1>4
    <2> QED BY <1>1, <1>2, <2>1, <2>2, <2>3, <2>4, TracksKept
  <1>7. ASSUME NEW r \in Recognizers, NEW s \in Slots, i.op # "up" \/ r # i.r \/ s # i.s,
               Do("onUp", s, r) \notin ToSet(a)
        PROVE  HeardAt(r, s)'
    <2>1. HeardAt(r, s) /\ heard'[r][s] = heard[r][s] /\ track'[s].used = track[s].used
      BY DEF GInv, HeardOK
    <2>2. Has("up", s, r)' => Has("up", s, r)
      BY <1>1, Parts DEF Has
    <2>3. Has("onUp", s, r)' => Has("onUp", s, r)
      BY <1>1, <1>7 DEF Has
    <2>4. /\ Has("up", s, r)' \/ Has("onUp", s, r)' => Has("up", s, r) \/ Has("onUp", s, r)
          /\ Has("onUp", s, r)' => ~Has("up", s, r)'
      BY <2>1, <2>2, <2>3 DEF HeardAt
    <2>5. track[s].used /\ Owns(r, s) /\ Observes(r, s)
              /\ (Has("up", s, r) \/ Has("onUp", s, r) \/ Has("cancel", s, r))
            => Has("up", s, r)' \/ Has("onUp", s, r)' \/ Has("cancel", s, r)'
      <3>1. track[s].used /\ Owns(r, s) /\ Observes(r, s) =>
              /\ Has("up", s, r) => Has("up", s, r)'
              /\ Has("cancel", s, r) => Has("cancel", s, r)'
        BY <1>1, <1>7, HasKept, Dues
      <3> QED BY <1>4, <3>1
    <2> HIDE DEF HeardAt
    <2> QED BY <1>3, <1>4, <1>5, <2>1, <2>4, <2>5, HeardSame
  <1> QED BY <1>1, <1>2, <1>3, <1>5, <1>6, <1>7

(* A pinch that ends is ended for its recognizer, which is told next. *)
LEMMA EndPinchKeeps ==
  ASSUME GInv, NEW i, Fires(i), EndPinch(i)
  PROVE  GInv'
  <1> DEFINE s == i.s
             r == i.r
             x == Do("onPinchEnd", s, r)
  <1>1. i.op = "endPinch" /\ todo' = <<x>> \o i.rest
    BY DEF EndPinch, Then
  <1>2. s \in Nat /\ r \in Recognizers
    BY <1>1, ItemFacts DEF RecOps
  <1>3. pinch[r] # {} /\ s \in pinch[r] \cup {0}
    <2>1. Due(i)
      BY DEF Fires
    <2> QED BY <1>1, <2>1 DEF Due
  <1>4. x \in Item /\ x.op = "onPinchEnd" /\ x.s = s /\ x.r = r
    <2>1. "onPinchEnd" \in Ops
      BY DEF Ops, Callbacks
    <2>2. r \in Recognizers \cup {None}
      BY <1>2
    <2>3. x \in Item
      BY <1>2, <2>1, <2>2, Parts, Zenon
    <2> QED BY <2>3, Parts
  <1> HIDE DEF x
  <1>5. /\ <<x>> \in Seq(Item) /\ ToSet(<<x>>) = {x} /\ <<x>>[1] = x /\ <<x>> # <<>>
        /\ Sorted(<<x>>) /\ Distinct(<<x>>) /\ HeadsFirst(<<x>>)
    BY <1>4, OneItem
  <1>6. Adds(i, <<x>>)
    <2>1. Rank(x.op) = 0 /\ Rank(i.op) = 0 /\ x.op \notin Once
      BY <1>1, <1>4, Ranks DEF Once
    <2>2. Rank(x.op) <= Rank(i.op)
      BY <2>1
    <2>3. Typed(x)
      BY <1>2, <1>4 DEF Typed, SlotOps, RecOps, Callbacks
    <2> QED BY <1>1, <1>5, <2>1, <2>2, <2>3 DEF Adds, Fits, Band
  <1>7. /\ input' = input /\ recs' = recs /\ mounted' = mounted /\ flags' = flags /\ live' = live
        /\ heard' = heard /\ track' = track /\ won' = won /\ pinched' = pinched
        /\ pinch' = [pinch EXCEPT ![r] = {}]
    BY DEF EndPinch, world, app, history
  <1>8. \A q \in Recognizers : pinch'[q] = IF q = r THEN {} ELSE pinch[q]
    BY <1>2, <1>7 DEF GInv, TypeOK
  <1>9. TypeOK'
    BY <1>2, <1>7 DEF GInv, TypeOK
  <1>10. /\ OwnersOK' /\ WorkOK' /\ OrderOK' /\ UnmountOK' /\ FlagsOK' /\ LiveOK' /\ OnScreen'
         /\ (Unmounting' => Unmounting) /\ KeptBut(i) /\ Work' = {x} \cup ToSet(i.rest)
         /\ todo' # <<>> /\ todo'[1] = x
         /\ \A t \in Slots : (Ending(t)' <=> Ending(t)) /\ \A q : Owns(q, t)' <=> Owns(q, t)
         /\ \A t, q : Observes(q, t)' <=> Observes(q, t)
         /\ \A q \in Recognizers, t \in Slots : HeardAt(q, t)'
    <2>1. \A y \in ToSet(<<x>>) :
            /\ y.op \notin {"release", "retire", "tap", "mount", "up", "onDown", "onCancel"}
            /\ (Unmounting => Rank(y.op) = 0)
            /\ y.op = "cancel" /\ track[y.s].used /\ Observes(y.r, y.s) => Owns(y.r, y.s)
      BY <1>4, <1>5, Ranks
    <2>2. \A t, q : Do("onUp", t, q) # x
      BY <1>4, Parts
    <2>3. PICK a : a = <<x>> /\ ToSet(a) = {x} /\ a # <<>> /\ a[1] = x
      BY <1>5
    <2>4. Adds(i, a) /\ todo' = a \o i.rest
      BY <1>1, <1>6, <2>3
    <2>5. \A y \in ToSet(a) :
            /\ y.op \notin {"release", "retire", "tap", "mount", "up", "onDown", "onCancel"}
            /\ (Unmounting => Rank(y.op) = 0)
            /\ y.op = "cancel" /\ track[y.s].used /\ Observes(y.r, y.s) => Owns(y.r, y.s)
      BY <2>1, <2>3, <1>5
    <2>6. \A t \in Slots : /\ track'[t].used = track[t].used /\ track'[t].owners = track[t].owners
                           /\ track'[t].contact = track[t].contact
      BY <1>7
    <2>7. i.op \notin {"release", "retire", "mount", "onCancel", "onDown", "onUp", "cancel", "up"}
      BY <1>1
    <2>8. /\ OwnersOK' /\ WorkOK' /\ OrderOK' /\ UnmountOK' /\ FlagsOK' /\ LiveOK' /\ OnScreen'
          /\ (Unmounting' => Unmounting) /\ KeptBut(i) /\ Work' = ToSet(a) \cup ToSet(i.rest)
          /\ (a # <<>> => todo' # <<>> /\ todo'[1] = a[1])
          /\ \A t \in Slots : (Ending(t)' <=> Ending(t)) /\ \A q : Owns(q, t)' <=> Owns(q, t)
          /\ \A t, q : Observes(q, t)' <=> Observes(q, t)
          /\ \A q \in Recognizers, t \in Slots :
               (i.op # "up" \/ q # i.r \/ t # i.s) /\ Do("onUp", t, q) \notin ToSet(a) => HeardAt(q, t)'
      BY <1>7, <1>9, <2>4, <2>5, <2>6, <2>7, StepFrame
    <2> QED BY <2>2, <2>3, <2>7, <2>8
  <1>11. ToSet(i.rest) \subseteq Work
    BY DEF Fires
  <1>12. LET z == Do(i.op, s, r)
         IN  z \in Work /\ z.op = "endPinch" /\ z.s = s /\ z.r = r
    BY <1>1, Parts DEF Fires
  <1>13. \A q : Has("onPinchStart", 0, q) => Has("onPinchStart", 0, q)'
    BY <1>1, <1>10, HasKept, Dues DEF Always
  <1>15. \A q \in Recognizers : q \in pinched => pinch[q] # {}
    BY <1>1, AtHead
  <1>16. WonOK'
    <2> SUFFICES ASSUME NEW t \in Slots PROVE WonAt(t)'
      BY DEF WonOK
    <2>1. WonAt(t)
      BY DEF GInv, WonOK
    <2>2. (\A y \in Work : y.op \in {"tap", "onTap"} => y.s # t)
            => \A y \in Work' : y.op \in {"tap", "onTap"} => y.s # t
      BY <1>4, <1>10, <1>11
    <2>3. \A q \in Recognizers : Has("claim", t, q) => Has("claim", t, q)'
      BY <1>1, <1>10, HasKept, Dues DEF Always
    <2>4. \A q \in Recognizers :
            track'[t].used /\ Owns(q, t)' /\ Observes(q, t)' /\ (track[t].claimed = q \/ Has("cancel", t, q))
              => track'[t].claimed = q \/ Has("cancel", t, q)'
      BY <1>1, <1>7, <1>10, HasKept, Dues
    <2> QED BY <1>7, <1>10, <2>1, <2>2, <2>3, <2>4, WonSame
  <1>17. ItemsOK'
    <2> SUFFICES ASSUME NEW y \in ToSet(i.rest) PROVE ItemOK(y)'
      BY <1>4, <1>10 DEF ItemsOK, ItemOK, Told
    <2>1. y \in Work /\ ItemOK(y) /\ Typed(y)
      BY <1>11 DEF GInv, ItemsOK, WorkOK
    <2>2. y.op = "claim" => \A o \in Recognizers : y.s \in pinch'[o] => y.s \in pinch[o]
      BY <1>8
    <2>3. (\A z \in Work : z.op # "tap") => \A z \in Work' : z.op # "tap"
      BY <1>4, <1>10, <1>11
    <2>4. /\ Has("onUp", y.s, y.r) => Has("onUp", y.s, y.r)'
          /\ Has("claim", y.s, y.r) => Has("claim", y.s, y.r)'
          /\ Has("onCancel", y.s, y.r) => Has("onCancel", y.s, y.r)'
          /\ Has("onDown", y.s, y.r) => Has("onDown", y.s, y.r)'
      BY <1>1, <1>10, HasKept, Dues DEF Always
    <2>5. y.op \in SlotOps => y.s \in Slots
      BY <2>1 DEF Typed
    <2> QED BY <1>7, <1>10, <2>1, <2>2, <2>3, <2>4, <2>5, ItemSame
  <1>18. EndsOK'
    <2>1. ASSUME NEW q \in Recognizers, q # r PROVE EndsAt(q)'
      <3>1. EndsAt(q)
        BY DEF GInv, EndsOK
      <3>2. pinch[q] # {} /\ Has("endPinch", 0, q) => Has("endPinch", 0, q)'
        BY <1>10, <2>1, HasKept, Dues
      <3>3. \A y \in Work' : y.op = "unregister" /\ y.r = q => y \in Work \/ Has("endPinch", 0, q)'
        BY <1>4, <1>10, <1>11
      <3>4. pinch'[q] = pinch[q]
        BY <1>8, <2>1
      <3> QED BY <1>7, <1>10, <1>15, <3>1, <3>2, <3>3, <3>4, EndsSame
    <2>2. EndsAt(r)'
      <3>1. pinch'[r] = {}
        BY <1>2, <1>8
      <3> QED BY <1>4, <1>10, <3>1 DEF EndsAt
    <2> QED BY <2>1, <2>2 DEF EndsOK
  <1>19. HeldOK'
    <2>1. \A q, o \in Recognizers, t \in Slots : t \in pinch'[q] /\ t \in pinch'[o] => q = o
      BY <1>8 DEF GInv, HeldOK
    <2>2. ASSUME NEW q \in Recognizers, NEW t \in pinch'[q] PROVE Unmounting' \/ Held(q, t)'
      <3>1. q # r /\ t \in pinch[q] /\ t \in Slots
        BY <1>8, <2>2 DEF GInv, TypeOK
      <3>2. ~Broken(q)
        <4> SUFFICES ASSUME Broken(q) PROVE FALSE
          OBVIOUS
        <4>1. Due(todo[1]) /\ todo[1].r = q
          BY DEF Broken, Due
        <4>2. todo[1] = Do(i.op, s, r)
          BY <4>1 DEF Fires
        <4> QED BY <1>12, <3>1, <4>1, <4>2
      <3>3. CASE Held(q, t)
        <4>1. Has("claim", t, q) => Has("claim", t, q)'
          BY <1>1, <1>10, HasKept, Dues DEF Always
        <4>2. /\ Has("endPinch", t, q) => Has("endPinch", t, q)'
              /\ Has("cancel", t, q) => Has("cancel", t, q)'
          BY <1>1, <1>10, <3>1, <3>3, HasKept, Dues DEF Held
        <4> QED BY <1>7, <1>10, <3>1, <3>3, <4>1, <4>2, HeldSame
      <3>4. CASE Unmounting
        <4>1. PICK y \in Work : y.op = "mount"
          BY <3>4 DEF Unmounting
        <4>2. y \in Work'
          BY <1>1, <1>10, <1>12, <4>1 DEF KeptBut, Due
        <4> QED BY <4>1, <4>2 DEF Unmounting
      <3> QED BY <3>1, <3>2, <3>3, <3>4 DEF GInv, HeldOK
    <2> QED BY <2>1, <2>2 DEF HeldOK
  <1>20. StartsOK'
    <2>1. ASSUME NEW q \in Recognizers, pinch'[q] # {}, q \notin pinched' PROVE Has("onPinchStart", 0, q)'
      <3>1. pinch[q] # {} /\ q \notin pinched
        BY <1>7, <1>8, <2>1
      <3> QED BY <1>13, <3>1 DEF GInv, StartsOK
    <2>2. \A y \in Work' : y.op = "onPinchStart" => y.s = 0 /\ y.r \notin pinched'
      BY <1>4, <1>7, <1>10, <1>11 DEF GInv, StartsOK
    <2>3. \A y \in Work' : y.op = "onPinchMove" \/ y.op = "onPinchEnd" => y = x
      BY <1>10, RestHas DEF Heads
    <2>4. pinch'[r] = {} /\ (r \in pinched' \/ Has("onPinchStart", 0, r)')
      <3>1. r \in pinched \/ Has("onPinchStart", 0, r)
        BY <1>2, <1>3 DEF GInv, StartsOK
      <3> QED BY <1>2, <1>7, <1>8, <1>13, <3>1
    <2> QED BY <1>4, <2>1, <2>2, <2>3, <2>4 DEF StartsOK
  <1>21. HeardOK'
    BY <1>10 DEF HeardOK
  <1> QED BY <1>9, <1>10, <1>16, <1>17, <1>18, <1>19, <1>20, <1>21 DEF GInv

-----------------------------------------------------------------------------
(* How a contact ends.                                                      *)

(* The owner that is told of a tap was told of the lift before. *)
LEMMA TapTells ==
  ASSUME GInv, NEW i, Fires(i), i.op = "tap", NEW r \in Recognizers,
         Owns(r, i.s), Observes(r, i.s), track[i.s].claimed = None
  PROVE  heard[r][i.s] = "onUp" /\ won[i.s] = {}
  <1> DEFINE s == i.s
             z == Do("tap", s, i.r)
  <1>1. z \in Work /\ z.op = "tap" /\ z.s = s /\ z.r = None /\ s \in Slots
    BY ItemFacts, Parts DEF Fires, SlotOps, RecOps, Callbacks
  <1>2. track[s].used /\ Ending(s)
    BY <1>1 DEF GInv, ItemsOK, ItemOK
  <1>3. ~Has("up", s, r) /\ ~Has("cancel", s, r)
    <2>1. /\ Due(Do("up", s, r)) /\ Rank("up") < Rank(i.op)
          /\ Due(Do("cancel", s, r)) /\ Rank("cancel") < Rank(i.op)
      BY <1>2, Dues, Ranks
    <2> QED BY <2>1, Parts DEF Has, Fires
  <1>4. ~Has("onUp", s, r)
    BY Below, Parts, Ranks DEF Has, Always
  <1>5. ~Has("onDown", s, r)
    BY <1>1, Parts, Ranks DEF Has, GInv, OrderOK, Apart
  <1>6. \A q \in Recognizers : ~Has("claim", s, q)
    BY <1>1, Parts, Ranks DEF Has, GInv, OrderOK, Apart
  <1>7. HeardAt(r, s) /\ WonAt(s) /\ None \notin Recognizers
    BY <1>1, GesturesAssumption DEF GInv, HeardOK, WonOK, Recognizers
  <1>8. heard[r][s] = "onUp"
    BY <1>2, <1>3, <1>4, <1>5, <1>7 DEF HeardAt
  <1>9. won[s] = {}
    BY <1>1, <1>2, <1>3, <1>6, <1>7 DEF WonAt
  <1> QED BY <1>8, <1>9

(* The tap, the last word of a contact that ended.                          *)
LEMMA TapKeeps ==
  ASSUME GInv, NEW i, Fires(i), Tap(i)
  PROVE  GInv'
  <1> DEFINE s == i.s
  <1>1. i.op = "tap"
    BY DEF Tap
  <1>2. track' = track /\ SameContacts /\ SameRecognizers /\ TypeOK' /\ OwnersOK'
    BY UnmovedSame DEF GInv, Tap, Unmoved, world, app, pinches, history
  <1>3. Calm /\ ~Unmounting
    BY <1>1, CalmNow, NoMount, Ranks
  <1>4. i.op \notin Lasting /\ i.op # "onUp" /\ Rank(i.op) = 2
    BY <1>1, Ranks DEF Lasting
  <1>5. CASE todo' = <<>> \o i.rest
    <2>1. <<>> \in Seq(Item) /\ \A y \in ToSet(<<>>) : CallItem(y)
      BY AppItem
    <2>2. Rank(i.op) # 5
      BY <1>4
    <2> QED BY <1>2, <1>3, <1>4, <1>5, <2>1, <2>2, RestKeeps
  <1>6. ASSUME track[s].claimed = None, Tapped(s) # {},
               todo' = <<Do("onTap", s, track[s].owners[Min(Tapped(s))])>> \o i.rest
        PROVE  GInv'
    <2> DEFINE o == track[s].owners
               z == Do("tap", s, i.r)
    <2>1. z \in Work /\ z.op = "tap" /\ z.s = s /\ z.r = None /\ s \in Slots /\ i.r = None
      BY <1>1, ItemFacts, Parts DEF Fires, SlotOps, RecOps, Callbacks
    <2>2. track[s].used /\ Ending(s)
      BY <2>1 DEF GInv, ItemsOK, ItemOK
    <2>3. o \in Seq(Recognizers)
      BY <2>1 DEF GInv, TypeOK, Tracks
    <2>4. Min(Tapped(s)) \in Tapped(s)
      <3>1. Tapped(s) \subseteq Nat
        <4>1. DOMAIN o \subseteq Nat
          BY <2>3
        <4> QED BY <4>1 DEF Tapped
      <3>2. PICK m \in Tapped(s) : \A k \in Tapped(s) : m <= k
        BY <1>6, <3>1, LeastNumber
      <3> HIDE DEF Tapped
      <3> QED BY <3>2 DEF Min
    <2>5. PICK r \in Recognizers :
            r = o[Min(Tapped(s))] /\ Owns(r, s) /\ Observes(r, s)
      <3>1. PICK m \in DOMAIN o : m = Min(Tapped(s)) /\ Quick(o[m], s)
        BY <2>4 DEF Tapped
      <3>2. o[m] \in Recognizers
        BY <2>3
      <3>3. Owns(o[m], s) /\ Observes(o[m], s)
        BY <3>1 DEF Owns, Quick, ToSet
      <3> QED BY <3>1, <3>2, <3>3
    <2> DEFINE x == Do("onTap", s, r)
    <2>6. heard[r][s] = "onUp" /\ won[s] = {}
      BY <1>1, <1>6, <2>5, TapTells
    <2>7. x \in Item /\ x.op = "onTap" /\ x.s = s /\ x.r = r
      <3>1. "onTap" \in Ops
        BY DEF Ops, Callbacks
      <3> QED BY <2>1, <2>5, <3>1, SlotItem, Parts
    <2> HIDE DEF x
    <2>8. /\ <<x>> \in Seq(Item) /\ ToSet(<<x>>) = {x} /\ Sorted(<<x>>) /\ Distinct(<<x>>)
          /\ HeadsFirst(<<x>>)
      BY <2>7, OneItem
    <2>9. x \notin ToSet(i.rest)
      BY <2>7, RestHas DEF Heads
    <2>10. Adds(i, <<x>>)
      <3>1. Rank(x.op) = 2 /\ Rank(x.op) <= Rank(i.op) /\ Rank(x.op) \in 1 .. 3 /\ Rank(i.op) \in 1 .. 4
        BY <1>4, <2>7, Ranks
      <3>2. Typed(x)
        BY <2>1, <2>5, <2>7 DEF Typed, SlotOps, RecOps, Callbacks
      <3> QED BY <1>4, <2>7, <2>8, <2>9, <3>1, <3>2 DEF Adds, Fits, Band
    <2>11. todo' = <<x>> \o i.rest
      BY <1>6, <2>5 DEF x
    <2>12. /\ WorkOK' /\ OrderOK' /\ Work' = ToSet(<<x>>) \cup ToSet(i.rest)
           /\ \A y \in Work : Due(y) => y = Do(i.op, i.s, i.r) \/ y \in Work'
           /\ \A y \in Work' : y \in ToSet(<<x>>) \/ (y \in Work /\ y \in ToSet(i.rest))
      <3>1. PICK a : a = <<x>>
        OBVIOUS
      <3>2. Adds(i, a) /\ todo' = a \o i.rest /\ input' = input
        BY <1>2, <2>10, <2>11, <3>1 DEF SameContacts, SameTracks
      <3> QED BY <3>1, <3>2, Stepped
    <2>13. \A y \in Work' : y.op # "tap"
      <3> SUFFICES ASSUME NEW y \in ToSet(i.rest), y.op = "tap" PROVE FALSE
        BY <2>7, <2>8, <2>12
      <3>1. y \in Work /\ y \in Item /\ Typed(y)
        <4>1. y \in Work
          BY DEF Fires
        <4> QED BY <4>1 DEF GInv, WorkOK, Work, ToSet
      <3>2. y.s = s
        BY <2>1, <3>1, Ranks DEF GInv, OrderOK, Apart
      <3>3. y.r = None
        BY <3>1 DEF Typed, RecOps, Callbacks
      <3>4. y = Do(i.op, i.s, i.r)
        BY <1>1, <2>1, <3>1, <3>2, <3>3, Parts
      <3> QED BY <1>1, <3>4, RestHas DEF Once
    <2>14. Ending(s)'
      <3>1. KeptBut(i)
        BY <2>12 DEF KeptBut
      <3> QED BY <1>1, <2>2, <3>1, HasKept, Dues DEF Ending, Always
    <2>15. ItemOK(x)'
      <3>1. track'[s].used /\ Owns(r, s)' /\ heard'[r][s] = "onUp" /\ won'[s] = {}
        BY <1>2, <2>2, <2>5, <2>6 DEF Owns, SameContacts
      <3> QED BY <2>7, <2>13, <2>14, <3>1 DEF ItemOK
    <2>16. New(x)
      BY <1>3, <2>1, <2>7, <2>15 DEF New, Has
    <2>17. SameWork
      <3>1. \A y \in Work : Due(y) /\ y.op \in Lasting => y \in Work'
        BY <1>4, <2>12, Parts
      <3> QED BY <2>8, <2>12, <2>16, <3>1 DEF SameWork
    <2> QED BY <1>2, <1>3, <2>12, <2>17, SteadyKeeps
  <1> QED BY <1>5, <1>6 DEF Tap, Then

(* An owner that lost nothing of the contact hears onUp, and the end of its *)
(* pan.                                                                     *)
LEMMA UpKeeps ==
  ASSUME GInv, NEW i, Fires(i), Up(i)
  PROVE  GInv'
  <1> DEFINE s == i.s
             r == i.r
             x == Do("onUp", s, r)
             y == Do("onPanEnd", s, r)
             z == Do(i.op, s, r)
  <1>1. i.op = "up" /\ Due(i)
    BY DEF Up, Fires
  <1>2. s \in Slots /\ r \in Recognizers
    BY <1>1, ItemFacts DEF SlotOps, RecOps
  <1>3. z \in Work /\ z.op = "up" /\ z.s = s /\ z.r = r /\ Owns(r, s) /\ Observes(r, s)
    BY <1>1, Parts DEF Fires, Due
  <1>4. track[s].used /\ Ending(s)
    BY <1>3 DEF GInv, ItemsOK, ItemOK, Told
  <1>5. heard[r][s] = "onDown"
    <2>1. HeardAt(r, s) /\ Has("up", s, r)
      BY <1>1, <1>2, <1>3 DEF GInv, HeardOK, Has
    <2>2. ~Has("onDown", s, r)
      BY <1>3, Parts, Ranks DEF Has, GInv, OrderOK, Apart
    <2> QED BY <1>3, <1>4, <2>1, <2>2 DEF HeardAt
  <1>6. x \in Item /\ y \in Item
    <2>1. "onUp" \in Ops /\ "onPanEnd" \in Ops
      BY DEF Ops, Callbacks
    <2> QED BY <1>2, <2>1, SlotItem
  <1>7. /\ x.op = "onUp" /\ x.s = s /\ x.r = r /\ y.op = "onPanEnd" /\ y.s = s /\ y.r = r
        /\ x # y /\ Rank(x.op) = 1 /\ Rank(y.op) = 1 /\ Rank(i.op) = 1
    BY <1>1, Parts, Ranks
  <1>8. PICK a \in {<<x>>, <<x, y>>} : todo' = a \o i.rest
    <2>1. todo' = (<<x>> \o (IF Panning(r, s) THEN <<y>> ELSE <<>>)) \o i.rest
      BY DEF Up, Then
    <2>2. <<x>> \o <<y>> = <<x, y>>
      BY <1>6, PairJoin
    <2> HIDE DEF x, y
    <2>3. <<x>> \o <<>> = <<x>>
      BY <1>6
    <2> QED BY <2>1, <2>2, <2>3
  <1>9. /\ a \in Seq(Item) /\ ToSet(a) \subseteq {x, y} /\ x \in ToSet(a) /\ a # <<>>
        /\ Sorted(a) /\ Distinct(a) /\ HeadsFirst(a)
    <2>1. y.op \notin Heads /\ Rank(x.op) <= Rank(y.op)
      BY <1>7 DEF Heads
    <2> HIDE DEF x, y
    <2>2. CASE a = <<x>>
      BY <1>6, <2>2, OneItem
    <2>3. CASE a = <<x, y>>
      BY <1>6, <1>7, <2>1, <2>3, TwoItems
    <2> QED BY <2>2, <2>3
  <1> HIDE DEF x, y
  <1>10. \A w \in ToSet(a) : w.op \in {"onUp", "onPanEnd"} /\ w.s = s /\ w.r = r /\ Rank(w.op) = 1
    BY <1>7, <1>9
  <1>11. Adds(i, a)
    <2>1. \A w \in ToSet(a) : Rank(w.op) <= Rank(i.op) /\ Rank(w.op) \in 1 .. 3 /\ Rank(i.op) \in 1 .. 4
      BY <1>7, <1>10
    <2>2. \A w \in ToSet(a) : Typed(w) /\ w.op \notin Once
      BY <1>2, <1>10 DEF Typed, SlotOps, RecOps, Callbacks, Once
    <2> QED BY <1>1, <1>9, <1>10, <2>1, <2>2 DEF Adds, Fits, Band
  <1>12. /\ input' = input /\ recs' = recs /\ mounted' = mounted /\ flags' = flags /\ live' = live
         /\ heard' = heard /\ track' = track /\ won' = won /\ pinched' = pinched /\ pinch' = pinch
    BY DEF Up, world, app, history, pinches
  <1>13. TypeOK'
    BY <1>12 DEF GInv, TypeOK
  <1>14. Calm /\ ~Unmounting
    BY <1>1, CalmNow, NoMount, Ranks
  <1>15. /\ OwnersOK' /\ WorkOK' /\ OrderOK' /\ UnmountOK' /\ FlagsOK' /\ LiveOK' /\ OnScreen'
         /\ (Unmounting' => Unmounting) /\ KeptBut(i) /\ Work' = ToSet(a) \cup ToSet(i.rest)
         /\ \A t \in Slots : (Ending(t)' <=> Ending(t)) /\ \A q : Owns(q, t)' <=> Owns(q, t)
         /\ \A t, q : Observes(q, t)' <=> Observes(q, t)
         /\ \A q \in Recognizers, t \in Slots :
              (i.op # "up" \/ q # i.r \/ t # i.s) /\ Do("onUp", t, q) \notin ToSet(a) => HeardAt(q, t)'
    <2>1. \A w \in ToSet(a) :
            /\ w.op \notin {"release", "retire", "tap", "mount", "up", "onDown", "onCancel"}
            /\ (Unmounting => Rank(w.op) = 0)
            /\ w.op = "cancel" /\ track[w.s].used /\ Observes(w.r, w.s) => Owns(w.r, w.s)
      BY <1>10, <1>14
    <2>2. \A t \in Slots : /\ track'[t].used = track[t].used /\ track'[t].owners = track[t].owners
                           /\ track'[t].contact = track[t].contact
      BY <1>12
    <2>3. i.op \notin {"release", "retire", "mount", "onCancel", "onDown", "onUp", "cancel"}
      BY <1>1
    <2> QED BY <1>8, <1>11, <1>12, <1>13, <2>1, <2>2, <2>3, StepFrame
  <1>16. ToSet(i.rest) \subseteq Work
    BY DEF Fires
  <1>17. HeardOK'
    <2>1. ASSUME NEW q \in Recognizers, NEW t \in Slots, q # r \/ t # s PROVE HeardAt(q, t)'
      <3>1. Do("onUp", t, q) \notin ToSet(a)
        BY <1>10, <2>1, Parts
      <3> QED BY <1>15, <2>1, <3>1
    <2>2. HeardAt(r, s)'
      <3>1. Has("onUp", s, r)'
        BY <1>9, <1>15 DEF Has, x
      <3>2. ~Has("up", s, r)'
        <4>1. Do("up", s, r) \notin ToSet(a)
          BY <1>10, Parts
        <4>2. Do("up", s, r) \notin ToSet(i.rest)
          BY <1>1, RestHas DEF Once
        <4> QED BY <1>15, <4>1, <4>2 DEF Has
      <3> QED BY <1>2, <1>3, <1>4, <1>5, <1>12, <1>15, <3>1, <3>2 DEF HeardAt
    <2> QED BY <2>1, <2>2 DEF HeardOK
  <1>18. WonOK'
    <2> SUFFICES ASSUME NEW t \in Slots PROVE WonAt(t)'
      BY DEF WonOK
    <2>1. WonAt(t)
      BY DEF GInv, WonOK
    <2>2. (\A w \in Work : w.op \in {"tap", "onTap"} => w.s # t)
            => \A w \in Work' : w.op \in {"tap", "onTap"} => w.s # t
      BY <1>10, <1>15, <1>16
    <2>3. \A q \in Recognizers : Has("claim", t, q) => Has("claim", t, q)'
      BY <1>1, <1>15, HasKept, Dues DEF Always
    <2>4. \A q \in Recognizers :
            track'[t].used /\ Owns(q, t)' /\ Observes(q, t)' /\ (track[t].claimed = q \/ Has("cancel", t, q))
              => track'[t].claimed = q \/ Has("cancel", t, q)'
      BY <1>1, <1>12, <1>15, HasKept, Dues
    <2> QED BY <1>12, <1>15, <2>1, <2>2, <2>3, <2>4, WonSame
  <1>19. ItemsOK'
    <2>1. ASSUME NEW w \in ToSet(a) PROVE ItemOK(w)'
      <3>1. Has("onUp", s, r)'
        BY <1>9, <1>15 DEF Has, x
      <3> QED BY <1>2, <1>3, <1>4, <1>5, <1>10, <1>12, <1>15, <3>1 DEF ItemOK, Told
    <2>2. ASSUME NEW w \in ToSet(i.rest) PROVE ItemOK(w)'
      <3>1. w \in Work /\ ItemOK(w) /\ Typed(w)
        BY <1>16 DEF GInv, ItemsOK, WorkOK
      <3>2. (\A v \in Work : v.op # "tap") => \A v \in Work' : v.op # "tap"
        BY <1>10, <1>15, <1>16
      <3>3. /\ Has("onUp", w.s, w.r) => Has("onUp", w.s, w.r)'
            /\ Has("claim", w.s, w.r) => Has("claim", w.s, w.r)'
            /\ Has("onCancel", w.s, w.r) => Has("onCancel", w.s, w.r)'
            /\ Has("onDown", w.s, w.r) => Has("onDown", w.s, w.r)'
        BY <1>1, <1>15, HasKept, Dues DEF Always
      <3>4. w.op \in SlotOps => w.s \in Slots
        BY <3>1 DEF Typed
      <3> QED BY <1>12, <1>15, <3>1, <3>2, <3>3, <3>4, ItemSame
    <2> QED BY <1>15, <2>1, <2>2 DEF ItemsOK
  <1>20. EndsOK'
    <2> SUFFICES ASSUME NEW q \in Recognizers PROVE EndsAt(q)'
      BY DEF EndsOK
    <2>1. EndsAt(q) /\ (q \in pinched => pinch[q] # {})
      BY <1>14 DEF GInv, EndsOK, Calm
    <2>2. pinch[q] # {} /\ Has("endPinch", 0, q) => Has("endPinch", 0, q)'
      BY <1>1, <1>15, HasKept, Dues
    <2>3. \A w \in Work' : w.op = "unregister" /\ w.r = q => w \in Work \/ Has("endPinch", 0, q)'
      BY <1>10, <1>15, <1>16
    <2> QED BY <1>12, <1>15, <2>1, <2>2, <2>3, EndsSame
  <1>21. HeldOK'
    <2> SUFFICES ASSUME NEW q \in Recognizers, NEW t \in pinch[q] PROVE Held(q, t)'
      BY <1>12 DEF GInv, HeldOK
    <2>1. Held(q, t) /\ t \in Slots
      BY <1>14 DEF GInv, HeldOK, Calm, TypeOK
    <2>2. Has("claim", t, q) => Has("claim", t, q)'
      BY <1>1, <1>15, HasKept, Dues DEF Always
    <2>3. /\ Has("endPinch", t, q) => Has("endPinch", t, q)'
          /\ Has("cancel", t, q) => Has("cancel", t, q)'
      BY <1>1, <1>15, <2>1, HasKept, Dues DEF Held
    <2> QED BY <1>12, <1>15, <2>1, <2>2, <2>3, HeldSame
  <1>22. StartsOK'
    <2>1. \A q : Has("onPinchStart", 0, q) => Has("onPinchStart", 0, q)'
      BY <1>1, <1>15, HasKept, Dues DEF Always
    <2>2. \A w \in Work' : w \in Work \/ w.op \in {"onUp", "onPanEnd"}
      BY <1>10, <1>15, <1>16
    <2> QED BY <1>12, <2>1, <2>2, StartsSame DEF GInv
  <1> QED BY <1>13, <1>15, <1>17, <1>18, <1>19, <1>20, <1>21, <1>22 DEF GInv

(* A claim cancels the other owners. *)
LEMMA ClaimKeeps ==
  ASSUME GInv, NEW i, Fires(i), Claim(i)
  PROVE  GInv'
  <1> DEFINE s == i.s
             r == i.r
             z == Do(i.op, s, r)
  <1>1. i.op = "claim" /\ Rank(i.op) = 8
    BY Ranks DEF Claim
  <1>2. s \in Slots /\ r \in Recognizers
    BY <1>1, ItemFacts DEF SlotOps, RecOps
  <1>3. z \in Work /\ z.op = "claim" /\ z.s = s /\ z.r = r
    BY <1>1, Parts DEF Fires
  <1>4. track[s].used /\ Owns(r, s) /\ \A o \in Recognizers : s \in pinch[o] => o = r
    BY <1>3 DEF GInv, ItemsOK, ItemOK, Told
  <1>5. PICK a : a = Omit(Owners("cancel", s), {Do("cancel", s, r)}) /\ todo' = a \o i.rest
    BY DEF Claim, Then
  <1>6. /\ a \in Seq(Item)
        /\ ToSet(a) = {Do("cancel", s, q) : q \in ToSet(track[s].owners)} \ {Do("cancel", s, r)}
        /\ ToSet(track[s].owners) \subseteq Recognizers
    <2>1. "cancel" \in Ops
      BY DEF Ops
    <2> QED BY <1>2, <1>5, <2>1, OwnersFacts, OmitFacts DEF GInv
  <1>7. \A y \in ToSet(a) :
          /\ y.op = "cancel" /\ y.s = s /\ y.r \in Recognizers /\ y.r # r /\ Owns(y.r, s)
          /\ Rank(y.op) = 0
    BY <1>6, Parts, Ranks DEF Owns
  <1>8. \A q : Owns(q, s) /\ q # r => Do("cancel", s, q) \in ToSet(a)
    <2> TAKE q
    <2> HAVE Owns(q, s) /\ q # r
    <2>1. Do("cancel", s, q) # Do("cancel", s, r)
      BY Parts
    <2> QED BY <1>6, <2>1 DEF Owns
  <1>9. Sorted(a) /\ Distinct(a) /\ HeadsFirst(a)
    <2>1. \A n \in DOMAIN a : a[n] \in ToSet(a)
      BY DEF ToSet
    <2>2. \A n \in DOMAIN a : a[n].op = "cancel" /\ Rank(a[n].op) = 0
      BY <1>7, <2>1
    <2>3. \A m, n \in DOMAIN a : Rank(a[m].op) <= Rank(a[n].op)
      BY <2>2
    <2> QED BY <2>2, <2>3 DEF Sorted, Distinct, HeadsFirst, Once, Heads
  <1>10. Adds(i, a)
    <2>1. \A y \in ToSet(a) : Rank(y.op) <= Rank(i.op)
      BY <1>1, <1>7
    <2>2. \A y \in ToSet(a) : Typed(y) /\ y.op \notin Once
      BY <1>2, <1>7 DEF Typed, SlotOps, RecOps, Once
    <2> QED BY <1>1, <1>6, <1>7, <1>9, <2>1, <2>2 DEF Adds, Fits, Band
  <1>11. /\ input' = input /\ recs' = recs /\ mounted' = mounted /\ flags' = flags /\ live' = live
         /\ heard' = heard /\ won' = won /\ pinched' = pinched /\ pinch' = pinch
         /\ track' = [track EXCEPT ![s].claimed = r]
    BY DEF Claim, world, app, history, pinches
  <1>12. /\ track' \in [Slots -> Tracks]
         /\ \A t \in Slots : /\ track'[t].used = track[t].used /\ track'[t].owners = track[t].owners
                             /\ track'[t].contact = track[t].contact
                             /\ track'[t].claimed = IF t = s THEN r ELSE track[t].claimed
    <2>1. track \in [Slots -> Tracks]
      BY DEF GInv, TypeOK
    <2>2. PICK v : v = [track[s] EXCEPT !.claimed = r]
      OBVIOUS
    <2>3. /\ v \in Tracks /\ v.claimed = r /\ v.used = track[s].used /\ v.owners = track[s].owners
          /\ v.contact = track[s].contact
      <3>1. track[s] \in Tracks
        BY <1>2, <2>1
      <3> QED BY <1>2, <2>2, <3>1 DEF Tracks
    <2>4. track' = [track EXCEPT ![s] = v]
      BY <1>11, <2>2
    <2> QED BY <1>2, <2>1, <2>3, <2>4
  <1>13. TypeOK'
    BY <1>11, <1>12 DEF GInv, TypeOK
  <1>14. ~Unmounting
    BY <1>1, NoMount
  <1>15. /\ OwnersOK' /\ WorkOK' /\ OrderOK' /\ UnmountOK' /\ FlagsOK' /\ LiveOK' /\ OnScreen'
         /\ (Unmounting' => Unmounting) /\ KeptBut(i) /\ Work' = ToSet(a) \cup ToSet(i.rest)
         /\ \A t \in Slots : (Ending(t)' <=> Ending(t)) /\ \A q : Owns(q, t)' <=> Owns(q, t)
         /\ \A t, q : Observes(q, t)' <=> Observes(q, t)
         /\ \A q \in Recognizers, t \in Slots :
              (i.op # "up" \/ q # i.r \/ t # i.s) /\ Do("onUp", t, q) \notin ToSet(a) => HeardAt(q, t)'
    <2>1. \A w \in ToSet(a) :
            /\ w.op \notin {"release", "retire", "tap", "mount", "up", "onDown", "onCancel"}
            /\ (Unmounting => Rank(w.op) = 0)
            /\ w.op = "cancel" /\ track[w.s].used /\ Observes(w.r, w.s) => Owns(w.r, w.s)
      BY <1>7
    <2>2. i.op \notin {"release", "retire", "mount", "onCancel", "onDown", "onUp", "cancel"}
      BY <1>1
    <2>3. \A t \in Slots : /\ track'[t].used = track[t].used /\ track'[t].owners = track[t].owners
                           /\ track'[t].contact = track[t].contact
      BY <1>12
    <2> QED BY <1>5, <1>10, <1>11, <1>13, <2>1, <2>2, <2>3, StepFrame
  <1>16. ToSet(i.rest) \subseteq Work
    BY DEF Fires
  <1>17. HeardOK'
    <2>1. \A q, t : Do("onUp", t, q) \notin ToSet(a)
      BY <1>7, Parts
    <2> QED BY <1>1, <1>15, <2>1 DEF HeardOK
  <1>18. WonOK'
    <2>1. ASSUME NEW t \in Slots, t # s PROVE WonAt(t)'
      <3>1. WonAt(t)
        BY DEF GInv, WonOK
      <3>2. (\A w \in Work : w.op \in {"tap", "onTap"} => w.s # t)
              => \A w \in Work' : w.op \in {"tap", "onTap"} => w.s # t
        BY <1>7, <1>15, <1>16
      <3>3. \A q \in Recognizers : Has("claim", t, q) => Has("claim", t, q)'
        BY <1>15, <2>1, HasKept, Dues DEF Always
      <3>4. \A q \in Recognizers :
              track'[t].used /\ Owns(q, t)' /\ Observes(q, t)' /\ (track[t].claimed = q \/ Has("cancel", t, q))
                => track'[t].claimed = q \/ Has("cancel", t, q)'
        BY <1>1, <1>12, <1>15, <2>1, HasKept, Dues
      <3> QED BY <1>11, <1>12, <1>15, <3>1, <3>2, <3>3, <3>4, WonSame
    <2>2. WonAt(s)'
      <3>1. \A q \in Recognizers : Owns(q, s)' /\ Observes(q, s)' => track'[s].claimed = q \/ Has("cancel", s, q)'
        BY <1>2, <1>8, <1>12, <1>15 DEF Has
      <3>2. \A b, c \in won'[s] : b = c
        BY <1>2, <1>11 DEF GInv, WonOK, WonAt
      <3> QED BY <3>1, <3>2 DEF WonAt
    <2> QED BY <2>1, <2>2 DEF WonOK
  <1>19. ItemsOK'
    <2>1. ASSUME NEW w \in ToSet(a) PROVE ItemOK(w)'
      BY <1>7 DEF ItemOK, Told
    <2>2. ASSUME NEW w \in ToSet(i.rest) PROVE ItemOK(w)'
      <3>1. w \in Work /\ ItemOK(w) /\ Typed(w) /\ w.op \notin Heads
        BY <1>16, RestHas DEF GInv, ItemsOK, WorkOK
      <3>2. (\A v \in Work : v.op # "tap") => \A v \in Work' : v.op # "tap"
        BY <1>7, <1>15, <1>16
      <3>3. /\ Has("onUp", w.s, w.r) => Has("onUp", w.s, w.r)'
            /\ Has("onCancel", w.s, w.r) => Has("onCancel", w.s, w.r)'
            /\ Has("onDown", w.s, w.r) => Has("onDown", w.s, w.r)'
        BY <1>1, <1>15, HasKept, Dues DEF Always
      <3>4. w.op \in SlotOps => w.s \in Slots
        BY <3>1 DEF Typed
      <3>5. w.op \notin {"onLongPress", "onPanStart"}
        BY <3>1 DEF Heads
      <3> QED BY <1>11, <1>12, <1>15, <3>1, <3>2, <3>3, <3>4, <3>5, ItemSame
    <2> QED BY <1>15, <2>1, <2>2 DEF ItemsOK
  <1>20. EndsOK'
    <2> SUFFICES ASSUME NEW q \in Recognizers PROVE EndsAt(q)'
      BY DEF EndsOK
    <2>1. EndsAt(q) /\ (q \in pinched => pinch[q] # {})
      BY <1>1, AtHead DEF GInv, EndsOK
    <2>2. pinch[q] # {} /\ Has("endPinch", 0, q) => Has("endPinch", 0, q)'
      BY <1>1, <1>15, HasKept, Dues
    <2>3. \A w \in Work' : w.op = "unregister" /\ w.r = q => w \in Work \/ Has("endPinch", 0, q)'
      BY <1>7, <1>15, <1>16
    <2> QED BY <1>11, <1>15, <2>1, <2>2, <2>3, EndsSame
  <1>21. HeldOK'
    <2> SUFFICES ASSUME NEW q \in Recognizers, NEW t \in pinch[q] PROVE Held(q, t)'
      BY <1>11 DEF GInv, HeldOK
    <2>1. Held(q, t) /\ t \in Slots
      BY <1>1, <1>14, AtHead DEF GInv, HeldOK, TypeOK
    <2>2. t = s => q = r
      BY <1>4
    <2>3. Has("claim", t, q) => track'[t].claimed = q \/ Has("claim", t, q)'
      BY <1>1, <1>12, <1>15, <2>1, <2>2, HasKept, Dues DEF Always
    <2>4. /\ Has("endPinch", t, q) => Has("endPinch", t, q)'
          /\ Has("cancel", t, q) => Has("cancel", t, q)'
      BY <1>1, <1>15, <2>1, HasKept, Dues DEF Held
    <2>5. track[t].claimed = q => track'[t].claimed = q
      BY <1>12, <2>1, <2>2
    <2> QED BY <1>12, <1>15, <2>1, <2>3, <2>4, <2>5, HeldSame
  <1>22. StartsOK'
    <2>1. \A q : Has("onPinchStart", 0, q) => Has("onPinchStart", 0, q)'
      BY <1>1, <1>15, HasKept, Dues DEF Always
    <2>2. \A w \in Work' : w \in Work \/ w \in ToSet(a)
      BY <1>15, <1>16
    <2> QED BY <1>7, <1>11, <2>1, <2>2, StartsSame DEF GInv
  <1> QED BY <1>13, <1>15, <1>17, <1>18, <1>19, <1>20, <1>21, <1>22 DEF GInv

(* A cancel ends the pinch the contact is a member of, and is told. *)
LEMMA CancelKeeps ==
  ASSUME GInv, NEW i, Fires(i), Cancel(i)
  PROVE  GInv'
  <1> DEFINE s == i.s
             r == i.r
             z == Do(i.op, s, r)
             x == Do("endPinch", s, r)
             y == Do("onCancel", s, r)
  <1>1. i.op = "cancel" /\ Rank(i.op) = 0 /\ Due(i)
    BY Ranks DEF Cancel, Fires
  <1>2. s \in Slots /\ r \in Recognizers
    BY <1>1, ItemFacts DEF SlotOps, RecOps
  <1>3. z \in Work /\ z.op = "cancel" /\ z.s = s /\ z.r = r
    BY <1>1, Parts DEF Fires
  <1>4. track[s].used /\ Observes(r, s) /\ Owns(r, s)
    BY <1>1, <1>3 DEF Due, GInv, FlagsOK
  <1>5. ~Unmounting
    BY <1>2, <1>4 DEF GInv, UnmountOK
  <1>7. heard[r][s] \in {"onDown", "onUp"} \/ (heard[r][s] = "nothing" /\ Has("onDown", s, r))
    <2>1. HeardAt(r, s)
      BY <1>2 DEF GInv, HeardOK
    <2> QED BY <1>4, <2>1 DEF HeardAt
  <1>8. x \in Item /\ y \in Item
    <2>1. "endPinch" \in Ops /\ "onCancel" \in Ops
      BY DEF Ops, Callbacks
    <2> QED BY <1>2, <2>1, SlotItem
  <1>9. /\ x.op = "endPinch" /\ x.s = s /\ x.r = r /\ y.op = "onCancel" /\ y.s = s /\ y.r = r
        /\ x # y /\ Rank(x.op) = 0 /\ Rank(y.op) = 0
    BY Parts, Ranks
  <1>10. PICK a : a = <<x, y>> /\ todo' = a \o i.rest
    BY DEF Cancel, Then
  <1>11. y \notin ToSet(i.rest)
    <2> SUFFICES ASSUME y \in Work PROVE FALSE
      BY DEF Fires
    <2>1. ~Observes(r, s)
      BY <1>9 DEF GInv, ItemsOK, ItemOK
    <2> QED BY <1>4, <2>1
  <1> HIDE DEF x, y
  <1>12. /\ a \in Seq(Item) /\ ToSet(a) = {x, y} /\ a # <<>> /\ a[1] = x
         /\ Sorted(a) /\ Distinct(a) /\ HeadsFirst(a)
    <2>1. y.op \notin Heads /\ Rank(x.op) <= Rank(y.op)
      BY <1>9 DEF Heads
    <2> QED BY <1>8, <1>9, <1>10, <2>1, TwoItems
  <1>13. Adds(i, a)
    <2>1. \A w \in ToSet(a) : Rank(w.op) <= Rank(i.op) /\ Rank(w.op) = 0
      BY <1>1, <1>9, <1>12
    <2>2. \A w \in ToSet(a) : Typed(w) /\ (w.op \in Once => w \notin ToSet(i.rest))
      BY <1>2, <1>9, <1>11, <1>12 DEF Typed, SlotOps, RecOps, Callbacks, Once
    <2> QED BY <1>1, <1>12, <2>1, <2>2 DEF Adds, Fits, Band
  <1>14. /\ input' = input /\ recs' = recs /\ mounted' = mounted /\ live' = live
         /\ heard' = heard /\ won' = won /\ pinched' = pinched /\ pinch' = pinch
         /\ flags' = [flags EXCEPT ![r][s] = {}]
    BY DEF Cancel, world, app, history, pinches
  <1>15. /\ WorkOK' /\ OrderOK' /\ KeptBut(i) /\ Work' = {x, y} \cup ToSet(i.rest)
         /\ todo' # <<>> /\ todo'[1] = x
    <2>0. Adds(i, a) /\ todo' = a \o i.rest /\ input' = input
      BY <1>10, <1>13, <1>14
    <2>1. /\ WorkOK' /\ OrderOK' /\ Work' = ToSet(a) \cup ToSet(i.rest)
          /\ \A w \in Work : Due(w) => w = Do(i.op, i.s, i.r) \/ w \in Work'
          /\ (a # <<>> => todo' # <<>> /\ todo'[1] = a[1])
      BY <2>0, Stepped
    <2> QED BY <1>12, <2>1 DEF KeptBut
  <1>16. /\ track' \in [Slots -> Tracks]
         /\ \A t \in Slots : /\ track'[t].used = track[t].used /\ track'[t].owners = track[t].owners
                             /\ track'[t].contact = track[t].contact
         /\ \A t \in Slots, q \in Recognizers :
              track[t].claimed = q /\ (t # s \/ q # r) => track'[t].claimed = q
    <2>1. track \in [Slots -> Tracks]
      BY DEF GInv, TypeOK
    <2>2. PICK v : v = [track[s] EXCEPT !.claimed = IF track[s].claimed = r THEN None ELSE track[s].claimed]
      OBVIOUS
    <2>3. /\ v \in Tracks /\ v.used = track[s].used /\ v.owners = track[s].owners
          /\ v.contact = track[s].contact /\ (track[s].claimed # r => v.claimed = track[s].claimed)
      <3>1. track[s] \in Tracks
        BY <1>2, <2>1
      <3> QED BY <1>2, <2>2, <3>1 DEF Tracks
    <2>4. track' = [track EXCEPT ![s] = v]
      BY <1>2, <2>1, <2>2 DEF Cancel
    <2> QED BY <1>2, <2>1, <2>3, <2>4
  <1>17. /\ flags' \in [Recognizers -> [Slots -> SUBSET Flags]]
         /\ \A q \in Recognizers, t \in Slots : flags'[q][t] = IF q = r /\ t = s THEN {} ELSE flags[q][t]
    BY <1>2, <1>14 DEF GInv, TypeOK
  <1>18. TypeOK' /\ OwnersOK'
    BY <1>14, <1>16, <1>17 DEF GInv, TypeOK, OwnersOK
  <1>19. /\ \A t \in Slots : \A q : Owns(q, t)' <=> Owns(q, t)
         /\ \A q \in Recognizers, t \in Slots :
              Observes(q, t)' <=> Observes(q, t) /\ (q # r \/ t # s)
    BY <1>16, <1>17 DEF Owns, Observes
  <1>20. ToSet(i.rest) \subseteq Work
    BY DEF Fires
  <1>21. \A t, q : /\ Has("release", t, q) => Has("release", t, q)'
                   /\ Has("retire", t, q) => Has("retire", t, q)'
                   /\ Has("onCancel", t, q) => Has("onCancel", t, q)'
                   /\ Has("onDown", t, q) => Has("onDown", t, q)'
                   /\ Has("onUp", t, q) => Has("onUp", t, q)'
                   /\ Has("claim", t, q) => Has("claim", t, q)'
                   /\ Has("onPinchStart", t, q) => Has("onPinchStart", t, q)'
    BY <1>1, <1>15, HasKept, Dues DEF Always
  <1>22. \A t \in Slots : Ending(t)' <=> Ending(t)
    <2>1. \A t : Ending(t)' => Ending(t)
      BY <1>9, <1>15, <1>20, Parts DEF Ending, Has
    <2> QED BY <1>21, <2>1 DEF Ending
  <1>23. UnmountOK' /\ FlagsOK' /\ LiveOK' /\ OnScreen' /\ (Unmounting' => Unmounting)
    <2>1. SameTracks
      BY <1>14, <1>16, <1>17, <1>19 DEF SameTracks
    <2>2. mounted <= mounted' /\ \A q \in ToSet(recs') : q \in ToSet(recs) \/ q > mounted
      BY <1>14 DEF GInv, TypeOK
    <2>3. \A w \in Work' :
            \/ w \in Work
            \/ /\ w.op # "mount" /\ (Unmounting => Rank(w.op) = 0)
               /\ w.op = "cancel" /\ track[w.s].used /\ Observes(w.r, w.s) => Owns(w.r, w.s)
      BY <1>5, <1>9, <1>15, <1>20
    <2>4. \A t \in Slots :
            track[t].used /\ (Has("retire", t, None) \/ Has("release", t, None)) =>
              \/ Has("retire", t, None)' \/ Has("release", t, None)'
              \/ track[t].contact \in ToSet(input.touches)
      BY <1>21
    <2> QED BY <1>15, <1>18, <2>1, <2>2, <2>3, <2>4, TracksKept
  <1>24. \A t, q : /\ Has("up", t, q)' => Has("up", t, q)
                   /\ Has("onUp", t, q)' => Has("onUp", t, q)
    BY <1>9, <1>15, <1>20, Parts DEF Has
  <1>25. HeardOK'
    <2>1. ASSUME NEW q \in Recognizers, NEW t \in Slots, q # r \/ t # s PROVE HeardAt(q, t)'
      <3>1. HeardAt(q, t) /\ heard'[q][t] = heard[q][t] /\ track'[t].used = track[t].used
        BY <1>14, <1>16 DEF GInv, HeardOK
      <3>2. /\ Has("up", t, q)' \/ Has("onUp", t, q)' => Has("up", t, q) \/ Has("onUp", t, q)
            /\ Has("onUp", t, q)' => ~Has("up", t, q)'
        BY <1>24, <3>1 DEF HeardAt
      <3>3. track[t].used /\ Owns(q, t) /\ Observes(q, t)
                /\ (Has("up", t, q) \/ Has("onUp", t, q) \/ Has("cancel", t, q))
              => Has("up", t, q)' \/ Has("onUp", t, q)' \/ Has("cancel", t, q)'
        <4>1. track[t].used /\ Owns(q, t) /\ Observes(q, t) =>
                /\ Has("up", t, q) => Has("up", t, q)'
                /\ Has("cancel", t, q) => Has("cancel", t, q)'
          BY <1>1, <1>15, <2>1, HasKept, Dues
        <4> QED BY <1>21, <4>1
      <3> HIDE DEF HeardAt
      <3> QED BY <1>19, <1>21, <1>22, <2>1, <3>1, <3>2, <3>3, HeardSame
    <2>2. HeardAt(r, s)'
      <3>1. HeardAt(r, s) /\ ~Observes(r, s)'
        BY <1>2, <1>19 DEF GInv, HeardOK
      <3>2. Has("onCancel", s, r)'
        BY <1>15 DEF Has, y
      <3> QED BY <1>2, <1>4, <1>14, <1>16, <1>19, <1>22, <1>24, <3>1, <3>2 DEF HeardAt
    <2> QED BY <2>1, <2>2 DEF HeardOK
  <1>26. WonOK'
    <2> SUFFICES ASSUME NEW t \in Slots PROVE WonAt(t)'
      BY DEF WonOK
    <2>1. WonAt(t)
      BY DEF GInv, WonOK
    <2>2. (\A w \in Work : w.op \in {"tap", "onTap"} => w.s # t)
            => \A w \in Work' : w.op \in {"tap", "onTap"} => w.s # t
      BY <1>9, <1>15, <1>20
    <2>3. \A q \in Recognizers :
            track'[t].used /\ Owns(q, t)' /\ Observes(q, t)' /\ (track[t].claimed = q \/ Has("cancel", t, q))
              => track'[t].claimed = q \/ Has("cancel", t, q)'
      <3> TAKE q \in Recognizers
      <3> HAVE track'[t].used /\ Owns(q, t)' /\ Observes(q, t)' /\ (track[t].claimed = q \/ Has("cancel", t, q))
      <3>1. Observes(q, t) /\ (q # r \/ t # s) /\ track[t].used
        BY <1>16, <1>19
      <3>2. Has("cancel", t, q) => Has("cancel", t, q)'
        BY <1>15, <3>1, HasKept, Dues
      <3> QED BY <1>16, <3>1, <3>2
    <2> QED BY <1>14, <1>16, <1>19, <1>21, <1>22, <2>1, <2>2, <2>3, WonSame
  <1>27. ItemsOK'
    <2>1. ItemOK(x)'
      BY <1>9 DEF ItemOK, Told
    <2>2. ItemOK(y)'
      <3>1. ~Observes(r, s)'
        BY <1>2, <1>19
      <3>2. heard'[r][s] \in {"onDown", "onUp"} \/ (heard'[r][s] = "nothing" /\ Has("onDown", s, r)')
        BY <1>7, <1>14, <1>21
      <3> QED BY <1>9, <3>1, <3>2 DEF ItemOK, Told
    <2>3. ASSUME NEW w \in ToSet(i.rest) PROVE ItemOK(w)'
      <3>1. w \in Work /\ ItemOK(w) /\ Typed(w)
        BY <1>20 DEF GInv, ItemsOK, WorkOK
      <3>2. (\A v \in Work : v.op # "tap") => \A v \in Work' : v.op # "tap"
        BY <1>9, <1>15, <1>20
      <3>3. w.op \in SlotOps => w.s \in Slots
        BY <3>1 DEF Typed
      <3>4. w.op = "onCancel" => (Observes(w.r, w.s)' => Observes(w.r, w.s))
        BY <1>19, <3>1 DEF Typed, SlotOps, RecOps, Callbacks
      <3>5. w.op = "onDown" =>
              (Observes(w.r, w.s) \/ Has("onCancel", w.s, w.r)
                 => Observes(w.r, w.s)' \/ Has("onCancel", w.s, w.r)')
        <4> SUFFICES ASSUME w.op = "onDown", Observes(w.r, w.s)
                     PROVE  Observes(w.r, w.s)' \/ Has("onCancel", w.s, w.r)'
          BY <1>21
        <4>1. w.s \in Slots /\ w.r \in Recognizers
          BY <3>1 DEF Typed, SlotOps, RecOps, Callbacks
        <4>2. CASE w.s = s /\ w.r = r
          BY <1>15, <4>2 DEF Has, y
        <4>3. CASE w.s # s \/ w.r # r
          BY <1>19, <4>1, <4>3
        <4> QED BY <4>2, <4>3
      <3> QED BY <1>14, <1>16, <1>19, <1>21, <1>22, <3>1, <3>2, <3>3, <3>4, <3>5, ItemSame
    <2> QED BY <1>15, <2>1, <2>2, <2>3 DEF ItemsOK
  <1>28. EndsOK'
    <2> SUFFICES ASSUME NEW q \in Recognizers PROVE EndsAt(q)'
      BY DEF EndsOK
    <2>1. EndsAt(q) /\ (q \in pinched => pinch[q] # {})
      BY <1>1, AtHead DEF GInv, EndsOK
    <2>2. pinch[q] # {} /\ Has("endPinch", 0, q) => Has("endPinch", 0, q)'
      BY <1>1, <1>15, HasKept, Dues
    <2>3. \A w \in Work' : w.op = "unregister" /\ w.r = q => w \in Work \/ Has("endPinch", 0, q)'
      BY <1>9, <1>15, <1>20
    <2> QED BY <1>14, <1>23, <2>1, <2>2, <2>3, EndsSame
  <1>29. HeldOK'
    <2>1. ASSUME NEW q \in Recognizers, NEW t \in pinch[q] PROVE Broken(q)' \/ Held(q, t)'
      <3>1. Held(q, t) /\ t \in Slots
        BY <1>1, <1>5, AtHead DEF GInv, HeldOK, TypeOK
      <3>2. CASE q = r /\ t = s
        BY <1>9, <1>14, <1>15, <3>2 DEF Broken
      <3>3. CASE q # r \/ t # s
        <4>1. /\ Has("endPinch", t, q) => Has("endPinch", t, q)'
              /\ Has("cancel", t, q) => Has("cancel", t, q)'
          BY <1>1, <1>15, <3>1, <3>3, HasKept, Dues DEF Held
        <4> QED BY <1>16, <1>19, <1>21, <1>22, <3>1, <3>3, <4>1, HeldSame
      <3> QED BY <3>2, <3>3
    <2> QED BY <1>14, <2>1 DEF GInv, HeldOK
  <1>30. StartsOK'
    <2>1. \A w \in Work' : w \in Work \/ w = x \/ w = y
      BY <1>15, <1>20
    <2> QED BY <1>9, <1>14, <1>21, <2>1, StartsSame DEF GInv
  <1> QED BY <1>15, <1>18, <1>23, <1>25, <1>26, <1>27, <1>28, <1>29, <1>30 DEF GInv

-----------------------------------------------------------------------------
(* The contacts of a frame.                                                 *)

(* The two ends a contact may have, as lists of items.                      *)
LEMMA DroppedList ==
  ASSUME TypeOK, OwnersOK, NEW s \in Slots,
         NEW a, a = Owners("cancel", s) \o <<Do("release", s, None)>>
  PROVE  /\ a \in Seq(Item) /\ Sorted(a) /\ Distinct(a)
         /\ ToSet(a) = {Do("cancel", s, r) : r \in ToSet(track[s].owners)} \cup {Do("release", s, None)}
         /\ ToSet(track[s].owners) \subseteq Recognizers
  <1> DEFINE b == Owners("cancel", s)
             x == Do("release", s, None)
  <1>1. /\ b \in Seq(Item) /\ ToSet(b) = {Do("cancel", s, r) : r \in ToSet(track[s].owners)}
        /\ Sorted(b) /\ Distinct(b) /\ ToSet(track[s].owners) \subseteq Recognizers
    <2>1. "cancel" \in Ops
      BY DEF Ops
    <2> QED BY <2>1, OwnersFacts
  <1>2. x \in Item
    <2>1. "release" \in Ops
      BY DEF Ops
    <2> QED BY <2>1, SlotItem
  <1>3. \A y \in ToSet(b) : y.op = "cancel" /\ Rank(y.op) = 0
    BY <1>1, Parts, Ranks
  <1>4. x.op = "release" /\ Rank(x.op) = 3
    BY Parts, Ranks
  <1> DEFINE c == <<x>>
  <1>5. c \in Seq(Item) /\ ToSet(c) = {x} /\ Sorted(c) /\ Distinct(c)
    BY <1>2, OneItem
  <1>6. a = b \o c
    OBVIOUS
  <1>7. ToSet(c) = {Do("release", s, None)}
    BY <1>5
  <1> HIDE DEF b, c, x
  <1>8. a \in Seq(Item) /\ ToSet(a) = ToSet(b) \cup ToSet(c)
    BY <1>1, <1>5, <1>6, Joined
  <1>9. Sorted(a)
    <2>1. \A y \in ToSet(b), w \in ToSet(c) : Rank(y.op) <= Rank(w.op)
      BY <1>3, <1>4, <1>5
    <2> QED BY <1>1, <1>5, <1>6, <2>1, SortedJoin
  <1>10. Distinct(a)
    <2>1. \A y \in ToSet(b) : y.op \in Once => y \notin ToSet(c)
      BY <1>3 DEF Once
    <2> QED BY <1>1, <1>5, <1>6, <2>1, DistinctJoin
  <1> QED BY <1>1, <1>7, <1>8, <1>9, <1>10

LEMMA FinishList ==
  ASSUME TypeOK, OwnersOK, NEW s \in Slots, NEW a, a = Finish(s)
  PROVE  /\ a \in Seq(Item) /\ Sorted(a) /\ Distinct(a)
         /\ ToSet(a) = {Do("endPinch", s, r) : r \in ToSet(track[s].owners)}
                         \cup {Do("up", s, r) : r \in ToSet(track[s].owners)}
                         \cup {Do("tap", s, None), Do("release", s, None)}
         /\ ToSet(track[s].owners) \subseteq Recognizers
  <1> DEFINE b == Owners("endPinch", s)
             u == Owners("up", s)
             x == Do("tap", s, None)
             y == Do("release", s, None)
             c == <<x, y>>
             d == b \o u
  <1>1. "endPinch" \in Ops /\ "up" \in Ops /\ "tap" \in Ops /\ "release" \in Ops
    BY DEF Ops
  <1>2. /\ b \in Seq(Item) /\ ToSet(b) = {Do("endPinch", s, r) : r \in ToSet(track[s].owners)}
        /\ Sorted(b) /\ Distinct(b) /\ ToSet(track[s].owners) \subseteq Recognizers
    BY <1>1, OwnersFacts
  <1>3. /\ u \in Seq(Item) /\ ToSet(u) = {Do("up", s, r) : r \in ToSet(track[s].owners)}
        /\ Sorted(u) /\ Distinct(u)
    BY <1>1, OwnersFacts
  <1>4. x \in Item /\ y \in Item
    BY <1>1, SlotItem
  <1>5. \A w \in ToSet(b) : w.op = "endPinch" /\ Rank(w.op) = 0
    BY <1>2, Parts, Ranks
  <1>6. \A w \in ToSet(u) : w.op = "up" /\ Rank(w.op) = 1
    BY <1>3, Parts, Ranks
  <1>7. x.op = "tap" /\ Rank(x.op) = 2 /\ y.op = "release" /\ Rank(y.op) = 3 /\ x # y
    BY Parts, Ranks
  <1>8. a = d \o c
    BY DEF Finish
  <1>9. {Do("tap", s, None), Do("release", s, None)} = {x, y}
    OBVIOUS
  <1> HIDE DEF b, u, x, y
  <1>10. c \in Seq(Item) /\ ToSet(c) = {x, y} /\ Sorted(c) /\ Distinct(c)
    <2>1. Rank(x.op) <= Rank(y.op) /\ y.op \notin Heads
      BY <1>7 DEF Heads
    <2> QED BY <1>4, <1>7, <2>1, TwoItems
  <1> HIDE DEF c
  <1>11. d \in Seq(Item) /\ ToSet(d) = ToSet(b) \cup ToSet(u)
    BY <1>2, <1>3, JoinSets
  <1>12. Sorted(d)
    <2>1. \A v \in ToSet(b), w \in ToSet(u) : Rank(v.op) <= Rank(w.op)
      BY <1>5, <1>6
    <2> QED BY <1>2, <1>3, <2>1, SortedJoin
  <1>13. Distinct(d)
    <2>1. \A w \in ToSet(b) : w.op \in Once => w \notin ToSet(u)
      BY <1>5 DEF Once
    <2> QED BY <1>2, <1>3, <2>1, DistinctJoin
  <1> HIDE DEF d
  <1>14. a \in Seq(Item) /\ ToSet(a) = ToSet(d) \cup ToSet(c)
    BY <1>8, <1>10, <1>11, JoinSets
  <1>15. Sorted(a)
    <2>1. \A v \in ToSet(d), w \in ToSet(c) : Rank(v.op) <= Rank(w.op)
      BY <1>5, <1>6, <1>7, <1>10, <1>11
    <2> QED BY <1>8, <1>10, <1>11, <1>12, <2>1, SortedJoin
  <1>16. Distinct(a)
    <2>1. \A w \in ToSet(d) : w.op \in Once => w \notin ToSet(c)
      BY <1>5, <1>6, <1>7, <1>10, <1>11
    <2> QED BY <1>8, <1>10, <1>11, <1>12, <1>13, <2>1, DistinctJoin
  <1>17. ToSet(a) = ToSet(b) \cup ToSet(u) \cup {x, y}
    BY <1>10, <1>11, <1>14
  <1> QED BY <1>2, <1>3, <1>9, <1>14, <1>15, <1>16, <1>17

(* What follows the work on contacts. *)
LEMMA EarlyRest ==
  ASSUME GInv, NEW i, Fires(i), Rank(i.op) \in {3, 4, 6}, NEW y \in ToSet(i.rest)
  PROVE  y.op \in {"retire", "touch", "pinches", "pinchPass", "recognize", "mount"}
  <1>1. y \in Work
    BY DEF Fires
  <1>2. y \in Item /\ y.op \in Ops /\ Typed(y)
    <2>1. y \in Item
      BY <1>1 DEF GInv, WorkOK, Work, ToSet
    <2> QED BY <1>1, <2>1, Parts DEF GInv, WorkOK
  <1>3. Do(i.op, i.s, i.r) \in Work /\ Do(i.op, i.s, i.r).op = i.op /\ Do(i.op, i.s, i.r).s = i.s
    BY Parts DEF Fires
  <1>4. Rank(y.op) \notin 8 .. 12 /\ (Rank(y.op) = 5 => Rank(i.op) \notin 1 .. 4)
    BY <1>1, <1>3 DEF GInv, OrderOK, Apart
  <1>5. Rank(i.op) <= Rank(y.op) /\ Rank(y.op) \in 0 .. 14
    BY RestHas, RankType
  <1>6. y.op # "release"
    <2> SUFFICES ASSUME y.op = "release" PROVE FALSE
      OBVIOUS
    <2>1. Rank(y.op) = 3 /\ Rank(i.op) = 3
      BY <1>5, Ranks
    <2>2. i.op = "release"
      <3>1. i.op \in Ops
        BY ItemFacts
      <3> QED BY <2>1, <3>1, Ranks DEF Ops, Callbacks
    <2>3. y.s = i.s
      BY <1>1, <1>3, <2>1 DEF GInv, OrderOK, Apart
    <2>4. y.r = None /\ i.r = None
      BY <1>2, <2>2, ItemFacts DEF Typed, RecOps, Callbacks
    <2>5. y = Do(i.op, i.s, i.r)
      BY <1>2, <2>2, <2>3, <2>4, Parts
    <2> QED BY <2>2, <2>5, RestHas DEF Once
  <1>7. Rank(y.op) \notin {0, 1, 2, 5, 8, 10, 11, 12}
    BY <1>4, <1>5
  <1> QED BY <1>2, <1>6, <1>7, Ranks DEF Ops, Callbacks

(* Before a contact ends all that concerned those before it is done, and    *)
(* when it goes so is all that ended it.                                    *)
LEMMA NoneEnding ==
  ASSUME GInv, NEW i, Fires(i), Rank(i.op) \in {3, 4, 6}
  PROVE  /\ \A t \in Slots : Ending(t) => Rank(i.op) = 3 /\ t = i.s
         /\ \A t, q : ~Has("onUp", t, q) /\ ~Has("onCancel", t, q) /\ ~Has("claim", t, q)
         /\ \A t, q : Has("cancel", t, q) => ~(track[t].used /\ Observes(q, t))
         /\ \A t, q : Has("up", t, q) => ~(Owns(q, t) /\ Observes(q, t))
         /\ \A t, q : Has("endPinch", t, q) => pinch[q] = {} \/ t \notin pinch[q] \cup {0}
         /\ \A t, q : ~Has("onDown", t, q)
         /\ \A y \in Work : y.op \notin {"tap", "onTap"}
  <1>1. /\ Do(i.op, i.s, i.r) \in Work /\ Do(i.op, i.s, i.r).op = i.op
        /\ Do(i.op, i.s, i.r).s = i.s
    BY Parts DEF Fires
  <1>2. \A y \in Work : Rank(y.op) < Rank(i.op) => ~Always(y.op)
    BY Below
  <1>3. \A t, q : ~Has("onUp", t, q) /\ ~Has("onCancel", t, q)
    BY <1>2, Parts, Ranks DEF Has, Always
  <1>4. \A t, q : ~Has("claim", t, q)
    BY <1>1, Parts, Ranks DEF Has, GInv, OrderOK, Apart
  <1>5. \A t, q, op : Has(op, t, q) /\ op \in {"cancel", "up", "endPinch"} => ~Due(Do(op, t, q))
    BY Parts, Ranks DEF Has, Fires
  <1>6. \A t, q : ~Has("onDown", t, q)
    <2>1. Rank(i.op) = 6 => \A t, q : ~Has("onDown", t, q)
      BY <1>2, Parts, Ranks DEF Has, Always
    <2>2. Rank(i.op) \in {3, 4} => \A t, q : ~Has("onDown", t, q)
      BY <1>1, Parts, Ranks DEF Has, GInv, OrderOK, Apart
    <2> QED BY <2>1, <2>2
  <1>7. \A y \in Work : y.op \notin {"tap", "onTap"}
    BY <1>2, Ranks DEF Always
  <1>8. ASSUME NEW t \in Slots, Ending(t) PROVE Rank(i.op) = 3 /\ t = i.s
    <2>1. Do("release", t, None) \in Work /\ Rank("release") = 3 /\ Do("release", t, None).s = t
      BY <1>8, Parts, Ranks DEF Ending, Has
    <2>2. ~(3 < Rank(i.op))
      BY <1>2, <2>1, Parts DEF Always
    <2>3. Rank(i.op) = 3
      BY <2>2
    <2> QED BY <1>1, <2>1, <2>3, Parts DEF GInv, OrderOK, Apart
  <1> QED BY <1>3, <1>4, <1>5, <1>6, <1>7, <1>8, Dues

(* So every owner that observes a contact was told of it and no more. *)
LEMMA Settled ==
  ASSUME GInv, NEW i, Fires(i), Rank(i.op) \in {3, 4, 6},
         NEW t \in Slots, Rank(i.op) # 3 \/ t # i.s
  PROVE  /\ \A q \in Recognizers :
              /\ heard[q][t] = "onDown" => track[t].used /\ Owns(q, t) /\ Observes(q, t)
              /\ track[t].used /\ Owns(q, t) /\ Observes(q, t) => heard[q][t] = "onDown"
              /\ track[t].used => heard[q][t] \notin {"onUp", "lateCancel"}
              /\ t \in pinch[q] => /\ track[t].used /\ Owns(q, t) /\ Observes(q, t)
                                   /\ track[t].claimed = q
         /\ track[t].used /\ won[t] # {} =>
              \A q \in Recognizers : Owns(q, t) /\ Observes(q, t) => track[t].claimed = q
         /\ track[t].used => track[t].contact \in ToSet(input.touches) \/ Has("retire", t, None)
  <1>1. /\ ~Ending(t)
        /\ \A q : ~Has("onUp", t, q) /\ ~Has("onCancel", t, q) /\ ~Has("claim", t, q) /\ ~Has("onDown", t, q)
        /\ \A q : Has("cancel", t, q) => ~(track[t].used /\ Observes(q, t))
    BY NoneEnding
  <1>2. ASSUME NEW q \in Recognizers
        PROVE  /\ heard[q][t] = "onDown" => track[t].used /\ Owns(q, t) /\ Observes(q, t)
               /\ track[t].used /\ Owns(q, t) /\ Observes(q, t) => heard[q][t] = "onDown"
               /\ track[t].used => heard[q][t] \notin {"onUp", "lateCancel"}
    <2>1. HeardAt(q, t)
      BY DEF GInv, HeardOK
    <2> QED BY <1>1, <2>1 DEF HeardAt
  <1>3. ASSUME NEW q \in Recognizers, t \in pinch[q]
        PROVE  track[t].used /\ Owns(q, t) /\ Observes(q, t) /\ track[t].claimed = q
    <2>1. i.op # "endPinch" /\ i.op # "mount" /\ Rank(i.op) # 0
      BY Ranks
    <2>2. ~Broken(q) /\ ~Unmounting
      BY <2>1, AtHead, NoMount
    <2>3. Held(q, t)
      BY <1>3, <2>2 DEF GInv, HeldOK
    <2> QED BY <1>1, <2>3 DEF Held
  <1>4. ASSUME track[t].used, won[t] # {}
        PROVE  \A q \in Recognizers : Owns(q, t) /\ Observes(q, t) => track[t].claimed = q
    BY <1>1, <1>4 DEF GInv, WonOK, WonAt
  <1>5. track[t].used => track[t].contact \in ToSet(input.touches) \/ Has("retire", t, None)
    BY <1>1 DEF GInv, OnScreen, Ending
  <1> QED BY <1>2, <1>3, <1>4, <1>5

(* What retire puts first: what ends the contact, if the frame has it no    *)
(* more, and then its release.                                              *)
Ends(s, a) ==
  /\ a \in Seq(Item) /\ Sorted(a) /\ Distinct(a) /\ track[s].used
  /\ \A y \in ToSet(a) :
       /\ y.s = s
       /\ \/ y.op \in {"cancel", "endPinch", "up"} /\ y.r \in Recognizers /\ Owns(y.r, s)
          \/ y.op \in {"tap", "release"} /\ y.r = None
  /\ Do("release", s, None) \in ToSet(a)
  /\ \A r : Owns(r, s) =>
       \/ Do("cancel", s, r) \in ToSet(a)
       \/ Do("endPinch", s, r) \in ToSet(a) /\ Do("up", s, r) \in ToSet(a)

(* A contact that is not in the frame ends in one of them, or stays.        *)
LEMMA RetireEnds ==
  ASSUME TypeOK, OwnersOK, NEW i, Retire(i), i.s \in Slots
  PROVE  \/ /\ todo' = <<>> \o i.rest
            /\ track[i.s].used => track[i.s].contact \in ToSet(input.touches)
         \/ \E a : Ends(i.s, a) /\ todo' = a \o i.rest
  <1> DEFINE s == i.s
  <1>1. CASE track[s].used /\ track[s].contact \in input.cancelled
    <2>1. PICK a : a = Owners("cancel", s) \o <<Do("release", s, None)>> /\ todo' = a \o i.rest
      BY <1>1 DEF Retire, Then
    <2>2. /\ a \in Seq(Item) /\ Sorted(a) /\ Distinct(a)
          /\ ToSet(a) = {Do("cancel", s, r) : r \in ToSet(track[s].owners)} \cup {Do("release", s, None)}
          /\ ToSet(track[s].owners) \subseteq Recognizers
      BY <2>1, DroppedList
    <2>3. Ends(s, a)
      <3>1. \A y \in ToSet(a) :
              /\ y.s = s
              /\ \/ y.op \in {"cancel", "endPinch", "up"} /\ y.r \in Recognizers /\ Owns(y.r, s)
                 \/ y.op \in {"tap", "release"} /\ y.r = None
        BY <2>2, Parts DEF Owns
      <3>2. \A r : Owns(r, s) => Do("cancel", s, r) \in ToSet(a)
        BY <2>2 DEF Owns
      <3>3. Do("release", s, None) \in ToSet(a)
        BY <2>2
      <3> QED BY <1>1, <2>2, <3>1, <3>2, <3>3 DEF Ends
    <2> QED BY <2>1, <2>3
  <1>2. CASE track[s].used /\ track[s].contact \notin input.cancelled /\ track[s].contact \notin ToSet(input.touches)
    <2>1. PICK a : a = Finish(s) /\ todo' = a \o i.rest
      BY <1>2 DEF Retire, Then
    <2>2. /\ a \in Seq(Item) /\ Sorted(a) /\ Distinct(a)
          /\ ToSet(a) = {Do("endPinch", s, r) : r \in ToSet(track[s].owners)}
                          \cup {Do("up", s, r) : r \in ToSet(track[s].owners)}
                          \cup {Do("tap", s, None), Do("release", s, None)}
          /\ ToSet(track[s].owners) \subseteq Recognizers
      BY <2>1, FinishList
    <2>3. Ends(s, a)
      <3>1. \A y \in ToSet(a) :
              /\ y.s = s
              /\ \/ y.op \in {"cancel", "endPinch", "up"} /\ y.r \in Recognizers /\ Owns(y.r, s)
                 \/ y.op \in {"tap", "release"} /\ y.r = None
        BY <2>2, Parts DEF Owns
      <3>2. \A r : Owns(r, s) => Do("endPinch", s, r) \in ToSet(a) /\ Do("up", s, r) \in ToSet(a)
        BY <2>2 DEF Owns
      <3>3. Do("release", s, None) \in ToSet(a)
        BY <2>2
      <3> QED BY <1>2, <2>2, <3>1, <3>2, <3>3 DEF Ends
    <2> QED BY <2>1, <2>3
  <1>3. CASE track[s].used => track[s].contact \notin input.cancelled /\ track[s].contact \in ToSet(input.touches)
    BY <1>3 DEF Retire, Then
  <1> QED BY <1>1, <1>2, <1>3

(* A step of retire leaves the contacts as they are. *)
LEMMA RetireFrame ==
  ASSUME TypeOK, OwnersOK, NEW i, Retire(i), i.s \in Slots
  PROVE  /\ SameContacts /\ SameRecognizers /\ TypeOK' /\ OwnersOK'
         /\ flags' = flags /\ recs' = recs /\ mounted' = mounted
         /\ \A t \in Slots : /\ track'[t].used = track[t].used /\ track'[t].owners = track[t].owners
                             /\ track'[t].contact = track[t].contact /\ track'[t].claimed = track[t].claimed
  <1> DEFINE s == i.s
  <1>1. /\ input' = input /\ recs' = recs /\ mounted' = mounted /\ flags' = flags /\ live' = live
        /\ heard' = heard /\ won' = won /\ pinched' = pinched /\ pinch' = pinch
        /\ track' = [track EXCEPT ![s].present = FALSE]
    BY DEF Retire, world, app, history, pinches
  <1>2. /\ track' \in [Slots -> Tracks]
        /\ \A t \in Slots : /\ track'[t].used = track[t].used /\ track'[t].owners = track[t].owners
                            /\ track'[t].contact = track[t].contact /\ track'[t].claimed = track[t].claimed
    <2>1. track \in [Slots -> Tracks]
      BY DEF TypeOK
    <2>2. PICK v : v = [track[s] EXCEPT !.present = FALSE]
      OBVIOUS
    <2>3. /\ v \in Tracks /\ v.claimed = track[s].claimed /\ v.used = track[s].used
          /\ v.owners = track[s].owners /\ v.contact = track[s].contact
      <3>1. track[s] \in Tracks
        BY <2>1
      <3> QED BY <2>2, <3>1 DEF Tracks
    <2>4. track' = [track EXCEPT ![s] = v]
      BY <1>1, <2>2
    <2> QED BY <2>1, <2>3, <2>4
  <1>3. TypeOK' /\ OwnersOK'
    BY <1>1, <1>2 DEF TypeOK, OwnersOK
  <1>4. SameContacts
    <2>1. SameTracks
      BY <1>1, <1>2 DEF SameTracks, Observes
    <2> QED BY <1>1, <1>2, <2>1 DEF SameContacts, Observes
  <1>5. SameRecognizers
    BY <1>1 DEF SameRecognizers, TypeOK
  <1> QED BY <1>1, <1>2, <1>3, <1>4, <1>5

(* A contact that left the frame, or was cancelled by the system. *)
LEMMA RetireKeeps ==
  ASSUME GInv, NEW i, Fires(i), Retire(i)
  PROVE  GInv'
  <1> DEFINE s == i.s
  <1>1. i.op = "retire" /\ Rank(i.op) = 4
    BY Ranks DEF Retire
  <1>2. s \in Slots /\ i.r = None
    BY <1>1, ItemFacts DEF SlotOps, RecOps, Callbacks
  <1>3. TypeOK /\ OwnersOK /\ Rank(i.op) \in {3, 4, 6} /\ Rank(i.op) # 3
    BY <1>1 DEF GInv
  <1>4. PICK a : /\ todo' = a \o i.rest
                 /\ \/ a = <<>> /\ (track[s].used => track[s].contact \in ToSet(input.touches))
                    \/ Ends(s, a)
    BY <1>2, <1>3, RetireEnds
  <1>5. /\ a \in Seq(Item) /\ Sorted(a) /\ Distinct(a)
        /\ a = <<>> => ToSet(a) = {}
        /\ \A y \in ToSet(a) :
             /\ y.s = s /\ track[s].used
             /\ \/ y.op \in {"cancel", "endPinch", "up"} /\ y.r \in Recognizers /\ Owns(y.r, s)
                \/ y.op \in {"tap", "release"} /\ y.r = None
    <2>1. CASE a = <<>>
      <3>1. <<>> \in Seq(Item) /\ DOMAIN <<>> = {} /\ ToSet(<<>>) = {}
        BY AppItem
      <3> QED BY <2>1, <3>1 DEF Sorted, Distinct
    <2>2. CASE Ends(s, a) /\ a # <<>>
      BY <2>2 DEF Ends
    <2> QED BY <1>4, <2>1, <2>2
  <1>6. Adds(i, a)
    <2>1. \A y \in ToSet(a) : Rank(y.op) \in 0 .. 3 /\ y.op \notin Heads
      BY <1>5, Ranks DEF Heads
    <2>2. \A y \in ToSet(a) : Rank(y.op) <= Rank(i.op) /\ y \notin ToSet(i.rest)
      <3> TAKE y \in ToSet(a)
      <3>1. y \in ToSet(i.rest) => Rank(i.op) <= Rank(y.op)
        BY RestHas
      <3> QED BY <1>1, <2>1, <3>1
    <2>3. HeadsFirst(a)
      BY <1>5, <2>1, NoHeads
    <2>4. \A y \in ToSet(a) : Typed(y) /\ Band(i, y)
      <3> TAKE y \in ToSet(a)
      <3>1. Typed(y)
        BY <1>2, <1>5 DEF Typed, SlotOps, RecOps, Callbacks
      <3>2. Rank(y.op) = 0 \/ Rank(y.op) \in 1 .. 3
        BY <2>1
      <3>3. Rank(i.op) \notin {5, 6} /\ Rank(i.op) \in 1 .. 4
        BY <1>1
      <3> QED BY <1>5, <3>1, <3>2, <3>3 DEF Band
    <2> QED BY <1>1, <1>5, <2>2, <2>3, <2>4 DEF Adds, Fits
  <1>7. /\ SameContacts /\ SameRecognizers /\ TypeOK' /\ OwnersOK'
        /\ flags' = flags /\ recs' = recs /\ mounted' = mounted
        /\ \A t \in Slots : /\ track'[t].used = track[t].used /\ track'[t].owners = track[t].owners
                            /\ track'[t].contact = track[t].contact /\ track'[t].claimed = track[t].claimed
    BY <1>2, <1>3, RetireFrame
  <1>8. /\ input' = input /\ heard' = heard /\ won' = won /\ pinch' = pinch /\ pinched' = pinched
        /\ SameTracks
    BY <1>7 DEF SameContacts, SameTracks
  <1>9. /\ WorkOK' /\ OrderOK' /\ KeptBut(i) /\ Work' = ToSet(a) \cup ToSet(i.rest)
    <2>0. Adds(i, a) /\ todo' = a \o i.rest /\ input' = input
      BY <1>4, <1>6, <1>8
    <2>1. /\ WorkOK' /\ OrderOK' /\ Work' = ToSet(a) \cup ToSet(i.rest)
          /\ \A w \in Work : Due(w) => w = Do(i.op, i.s, i.r) \/ w \in Work'
      BY <2>0, Stepped
    <2> QED BY <2>1 DEF KeptBut
  <1>10. /\ \A t \in Slots : \A q : Owns(q, t)' <=> Owns(q, t)
         /\ \A t, q : Observes(q, t)' <=> Observes(q, t)
    BY <1>7 DEF Owns, Observes
  <1>11. Calm /\ ~Unmounting
    BY <1>1, CalmNow, NoMount
  <1>12. \A y \in ToSet(i.rest) :
           y \in Work /\ y.op \in {"retire", "touch", "pinches", "pinchPass", "recognize", "mount"}
    BY <1>3, EarlyRest DEF Fires
  <1>13. /\ \A t \in Slots : Ending(t)' => t = s /\ Ends(s, a)
         /\ \A t, q : /\ ~Has("onUp", t, q)' /\ ~Has("onDown", t, q)'
                      /\ Has("up", t, q)' => t = s /\ track[s].used
    <2>1. ASSUME NEW t, NEW q, NEW op \in {"release", "onUp", "onDown", "up"}, Has(op, t, q)'
          PROVE  Do(op, t, q) \in ToSet(a) /\ op \in {"release", "up"} /\ t = s /\ track[s].used
      <3>1. Do(op, t, q) \in ToSet(a)
        <4>1. Do(op, t, q) \in Work'
          BY <2>1 DEF Has
        <4> QED BY <1>9, <1>12, <4>1, Parts
      <3> QED BY <1>5, <3>1, Parts
    <2> QED BY <1>4, <1>5, <2>1 DEF Ending
  <1>14. UnmountOK' /\ FlagsOK' /\ LiveOK' /\ OnScreen' /\ (Unmounting' => Unmounting)
    <2>1. mounted <= mounted' /\ \A r \in ToSet(recs') : r \in ToSet(recs) \/ r > mounted
      BY <1>7 DEF SameRecognizers
    <2>2. \A y \in Work' :
            \/ y \in Work
            \/ /\ y.op # "mount" /\ (Unmounting => Rank(y.op) = 0)
               /\ y.op = "cancel" /\ track[y.s].used /\ Observes(y.r, y.s) => Owns(y.r, y.s)
      BY <1>5, <1>9, <1>11, <1>12
    <2>3. ASSUME NEW t \in Slots, track[t].used
          PROVE  \/ Has("retire", t, None)' \/ Has("release", t, None)'
                 \/ track[t].contact \in ToSet(input.touches)
      <3>1. CASE t # s
        <4>1. Has("retire", t, None) => Has("retire", t, None)'
          BY <1>9, <3>1, HasKept, Dues DEF Always
        <4>2. track[t].contact \in ToSet(input.touches) \/ Has("retire", t, None)
          BY <1>3, <2>3, Settled
        <4> QED BY <4>1, <4>2
      <3>2. CASE t = s
        BY <1>4, <1>9, <2>3, <3>2 DEF Ends, Has
      <3> QED BY <3>1, <3>2
    <2> QED BY <1>7, <1>8, <1>9, <2>1, <2>2, <2>3, TracksKept
  <1>15. HeardOK'
    <2> SUFFICES ASSUME NEW q \in Recognizers, NEW t \in Slots PROVE HeardAt(q, t)'
      BY DEF HeardOK
    <2>1. /\ heard[q][t] = "onDown" => track[t].used /\ Owns(q, t) /\ Observes(q, t)
          /\ track[t].used /\ Owns(q, t) /\ Observes(q, t) => heard[q][t] = "onDown"
          /\ track[t].used => heard[q][t] \notin {"onUp", "lateCancel"}
      BY <1>3, Settled
    <2>2. heard' = heard /\ track'[t].used = track[t].used /\ (Owns(q, t)' <=> Owns(q, t))
          /\ (Observes(q, t)' <=> Observes(q, t))
      BY <1>7, <1>8, <1>10
    <2>3. Ending(t)' /\ Owns(q, t) => Has("up", t, q)' \/ Has("cancel", t, q)'
      BY <1>9, <1>13 DEF Ends, Has
    <2> QED BY <1>13, <2>1, <2>2, <2>3 DEF HeardAt
  <1>16. WonOK'
    <2> SUFFICES ASSUME NEW t \in Slots PROVE WonAt(t)'
      BY DEF WonOK
    <2>1. track[t].used /\ won[t] # {} =>
            \A q \in Recognizers : Owns(q, t) /\ Observes(q, t) => track[t].claimed = q
      BY <1>3, Settled
    <2>2. \A b, c \in won[t] : b = c
      BY DEF GInv, WonOK, WonAt
    <2> QED BY <1>7, <1>8, <1>10, <2>1, <2>2 DEF WonAt
  <1>17. ItemsOK'
    <2>1. ASSUME NEW y \in ToSet(a) PROVE ItemOK(y)'
      <3>1. Ending(s)'
        BY <1>4, <1>5, <1>9, <2>1 DEF Ends, Ending, Has
      <3>2. track'[s].used /\ \A q : Owns(q, s)' <=> Owns(q, s)
        BY <1>2, <1>5, <1>7, <1>10, <2>1
      <3> QED BY <1>2, <1>5, <2>1, <3>1, <3>2 DEF ItemOK, Told
    <2>2. ASSUME NEW y \in ToSet(i.rest) PROVE ItemOK(y)'
      BY <1>12 DEF ItemOK, Told
    <2> QED BY <1>9, <2>1, <2>2 DEF ItemsOK
  <1>18. EndsOK'
    <2> SUFFICES ASSUME NEW q \in Recognizers PROVE EndsAt(q)'
      BY DEF EndsOK
    <2>1. EndsAt(q) /\ (q \in pinched => pinch[q] # {})
      BY <1>11 DEF GInv, EndsOK, Calm
    <2>2. pinch[q] # {} /\ Has("endPinch", 0, q) => Has("endPinch", 0, q)'
      BY <1>1, <1>9, HasKept, Dues
    <2>3. \A w \in Work' : w.op = "unregister" /\ w.r = q => w \in Work \/ Has("endPinch", 0, q)'
      BY <1>5, <1>9, <1>12
    <2> QED BY <1>7, <1>8, <1>14, <2>1, <2>2, <2>3, EndsSame
  <1>19. HeldOK'
    <2> SUFFICES ASSUME NEW q \in Recognizers, NEW t \in pinch[q] PROVE Held(q, t)'
      BY <1>8 DEF GInv, HeldOK
    <2>1. t \in Slots
      BY <1>3 DEF TypeOK
    <2>2. track[t].used /\ Owns(q, t) /\ Observes(q, t) /\ track[t].claimed = q
      BY <1>3, <2>1, Settled
    <2>3. ASSUME Ending(t)' PROVE Has("endPinch", t, q)' \/ Has("cancel", t, q)'
      <3>1. t = s /\ Ends(s, a)
        BY <1>13, <2>1, <2>3
      <3>2. Do("cancel", t, q) \in ToSet(a) \/ Do("endPinch", t, q) \in ToSet(a)
        BY <2>2, <3>1 DEF Ends
      <3> QED BY <1>9, <3>2 DEF Has
    <2> QED BY <1>7, <1>10, <2>1, <2>2, <2>3 DEF Held
  <1>20. StartsOK'
    <2>1. \A q : Has("onPinchStart", 0, q) => Has("onPinchStart", 0, q)'
      BY <1>1, <1>9, HasKept, Dues DEF Always
    <2>2. \A w \in Work' : w \in Work \/ w.op \in {"cancel", "endPinch", "up", "tap", "release"}
      BY <1>5, <1>9, <1>12
    <2> QED BY <1>8, <2>1, <2>2, StartsSame DEF GInv
  <1> QED BY <1>7, <1>9, <1>14, <1>15, <1>16, <1>17, <1>18, <1>19, <1>20 DEF GInv

(* A contact that has ended is forgotten, and its slot is free. *)
LEMMA ReleaseFrame ==
  ASSUME GInv, NEW i, Fires(i), Release(i)
  PROVE  /\ i.op = "release" /\ Rank(i.op) = 3 /\ i.s \in Slots /\ track[i.s].used /\ Ending(i.s)
         /\ WorkOK' /\ OrderOK' /\ KeptBut(i) /\ TypeOK' /\ OwnersOK' /\ LiveOK'
         /\ input' = input /\ recs' = recs /\ mounted' = mounted
         /\ heard' = heard /\ won' = won /\ pinched' = pinched /\ pinch' = pinch
         /\ \A y \in Work' : y \in Work /\ y.op \in {"retire", "touch", "pinches", "pinchPass", "recognize", "mount"}
         /\ ~track'[i.s].used /\ \A q : ~Owns(q, i.s)'
         /\ \A t \in Slots : t # i.s => track'[t] = track[t]
         /\ \A q \in Recognizers, t \in Slots :
              /\ flags'[q][t] = {} \/ flags'[q][t] = flags[q][t]
              /\ t # i.s \/ ~Owns(q, i.s) => flags'[q][t] = flags[q][t]
              /\ Owns(q, i.s) => flags'[q][i.s] = {}
  <1> DEFINE s == i.s
  <1>1. i.op = "release" /\ Rank(i.op) = 3
    BY Ranks DEF Release
  <1>2. s \in Slots /\ i.r = None
    BY <1>1, ItemFacts DEF SlotOps, RecOps, Callbacks
  <1>3. track[s].used /\ Ending(s)
    <2>1. Do("release", s, None) \in Work /\ ItemOK(Do("release", s, None))
      BY <1>1, <1>2, ItemFacts DEF Fires
    <2> QED BY <2>1, Parts DEF ItemOK, Ending, Has
  <1>4. /\ input' = input /\ recs' = recs /\ mounted' = mounted /\ live' = live - 1
        /\ heard' = heard /\ won' = won /\ pinched' = pinched /\ pinch' = pinch
        /\ todo' = <<>> \o i.rest
    BY DEF Release, Then, world, app, history, pinches
  <1>5. /\ WorkOK' /\ OrderOK' /\ KeptBut(i)
        /\ \A y \in Work' : y \in Work /\ y.op \in {"retire", "touch", "pinches", "pinchPass", "recognize", "mount"}
    <2>0. <<>> \in Seq(Item) /\ DOMAIN <<>> = {} /\ ToSet(<<>>) = {}
      BY AppItem
    <2>1. PICK a : a = <<>> /\ a \in Seq(Item) /\ DOMAIN a = {} /\ ToSet(a) = {}
      BY <2>0
    <2>2. Adds(i, a)
      BY <2>1 DEF Adds, Fits, Sorted, Distinct, HeadsFirst
    <2>3. todo' = a \o i.rest /\ input' = input
      BY <1>4, <2>1
    <2>4. /\ WorkOK' /\ OrderOK' /\ Work' = ToSet(a) \cup ToSet(i.rest)
          /\ \A w \in Work : Due(w) => w = Do(i.op, i.s, i.r) \/ w \in Work'
      BY <2>2, <2>3, Stepped
    <2>5. Work' = ToSet(i.rest)
      BY <2>1, <2>4
    <2> QED BY <1>1, <2>4, <2>5, EarlyRest DEF KeptBut, Fires
  <1>6. PICK v : v = [Free EXCEPT !.present = track[s].present]
    OBVIOUS
  <1>7. v \in Tracks /\ ~v.used /\ v.owners = <<>> /\ track \in [Slots -> Tracks]
    <2>1. track \in [Slots -> Tracks]
      BY DEF GInv, TypeOK
    <2>2. track[s].present \in BOOLEAN
      BY <1>2, <2>1 DEF Tracks
    <2>3. PICK p \in BOOLEAN : p = track[s].present
      BY <2>2
    <2>4. v = [used |-> FALSE, present |-> p, fresh |-> FALSE, moved |-> FALSE,
               contact |-> None, owners |-> <<>>, claimed |-> None]
      BY <1>6, <2>3 DEF Free
    <2>5. <<>> \in Seq(Recognizers)
      OBVIOUS
    <2> QED BY <2>1, <2>4, <2>5 DEF Tracks
  <1>8. track' = [track EXCEPT ![s] = v]
    BY <1>6 DEF Release
  <1>9. /\ track' \in [Slots -> Tracks] /\ ~track'[s].used /\ track'[s].owners = <<>>
        /\ \A t \in Slots : t # s => track'[t] = track[t]
    BY <1>2, <1>7, <1>8
  <1>10. \A q : ~Owns(q, s)'
    BY <1>9, AppItem DEF Owns
  <1>11. /\ flags' \in [Recognizers -> [Slots -> SUBSET Flags]]
         /\ \A q \in Recognizers, t \in Slots :
              flags'[q][t] = IF Owns(q, s) /\ t = s THEN {} ELSE flags[q][t]
    <2>1. flags \in [Recognizers -> [Slots -> SUBSET Flags]]
      BY DEF GInv, TypeOK
    <2>2. flags' = [r \in Recognizers |-> IF Owns(r, s) THEN [flags[r] EXCEPT ![s] = {}] ELSE flags[r]]
      BY DEF Release, Owns
    <2>3. \A r \in Recognizers : flags[r] \in [Slots -> SUBSET Flags]
      BY <2>1
    <2>4. \A r \in Recognizers : [flags[r] EXCEPT ![s] = {}] \in [Slots -> SUBSET Flags]
      BY <2>3
    <2> QED BY <1>2, <2>2, <2>3, <2>4
  <1>12. TypeOK'
    BY <1>4, <1>9, <1>11 DEF GInv, TypeOK
  <1>13. OwnersOK'
    <2>1. IsInjective(<<>>) /\ ToSet(<<>>) = {}
      BY AppItem DEF IsInjective
    <2>2. mounted' = mounted
      BY <1>4
    <2> QED BY <1>9, <2>1, <2>2 DEF GInv, OwnersOK
  <1>14. LiveOK'
    <2> DEFINE U == {t \in Slots : track[t].used}
               V == {t \in Slots : track'[t].used}
    <2>1. IsFiniteSet(U)
      <3>1. IsFiniteSet(Slots)
        BY GesturesAssumption, FS_Interval DEF Slots
      <3>2. U \subseteq Slots
        OBVIOUS
      <3> QED BY <3>1, <3>2, FS_Subset
    <2>2. V = U \ {s}
      BY <1>9
    <2>3. s \in U
      BY <1>2, <1>3
    <2> HIDE DEF U, V
    <2>4. Cardinality(U \ {s}) = Cardinality(U) - 1
      BY <2>1, <2>3, FS_RemoveElement
    <2>5. live = Cardinality(U) /\ (LiveOK' <=> live' = Cardinality(V))
      BY DEF GInv, LiveOK, U, V
    <2> QED BY <1>4, <2>2, <2>4, <2>5
  <1> QED BY <1>1, <1>2, <1>3, <1>4, <1>5, <1>9, <1>10, <1>11, <1>12, <1>13, <1>14

(* A slot that is released is forgotten by all its owners.                  *)
LEMMA ReleaseKeeps ==
  ASSUME GInv, NEW i, Fires(i), Release(i)
  PROVE  GInv'
  <1> DEFINE s == i.s
  <1>1. /\ i.op = "release" /\ Rank(i.op) = 3 /\ Rank(i.op) \in {3, 4, 6}
        /\ s \in Slots /\ track[s].used /\ Ending(s)
    BY ReleaseFrame
  <1>2. WorkOK' /\ OrderOK' /\ KeptBut(i) /\ TypeOK' /\ OwnersOK' /\ LiveOK'
    BY ReleaseFrame
  <1>3. /\ input' = input /\ recs' = recs /\ mounted' = mounted
        /\ heard' = heard /\ won' = won /\ pinched' = pinched /\ pinch' = pinch
    BY ReleaseFrame
  <1>4. \A y \in Work' : y \in Work /\ y.op \in {"retire", "touch", "pinches", "pinchPass", "recognize", "mount"}
    BY ReleaseFrame
  <1>5. /\ ~track'[s].used /\ \A q : ~Owns(q, s)'
        /\ \A t \in Slots : t # s => track'[t] = track[t]
    BY ReleaseFrame
  <1>6. \A q \in Recognizers, t \in Slots :
          /\ flags'[q][t] = {} \/ flags'[q][t] = flags[q][t]
          /\ t # s \/ ~Owns(q, s) => flags'[q][t] = flags[q][t]
          /\ Owns(q, s) => flags'[q][s] = {}
    BY ReleaseFrame
  <1>7. Calm /\ ~Unmounting /\ ~Unmounting'
    <2>1. Calm /\ ~Unmounting
      BY <1>1, CalmNow, NoMount
    <2> QED BY <1>4, <2>1 DEF Unmounting
  <1>8. \A t \in Slots \ {s} : /\ \A q : Owns(q, t)' <=> Owns(q, t)
                               /\ \A q \in Recognizers : Observes(q, t)' <=> Observes(q, t)
    BY <1>5, <1>6 DEF Owns, Observes
  <1>9. /\ \A t : ~Ending(t)'
        /\ \A t, q : ~Has("onUp", t, q)' /\ ~Has("up", t, q)'
    BY <1>4, Parts DEF Ending, Has
  <1>10. FlagsOK'
    <2>1. ASSUME NEW r \in Recognizers, NEW t \in Slots, r > mounted' PROVE flags'[r][t] = {}
      BY <1>3, <1>6, <2>1 DEF GInv, FlagsOK
    <2>2. ASSUME NEW r \in ToSet(recs'), NEW t \in Slots, flags'[r][t] # {}
          PROVE  track'[t].used /\ Owns(r, t)'
      <3>1. r \in Recognizers /\ r \in ToSet(recs)
        <4>1. recs \in Seq(1 .. mounted) /\ mounted \in 0 .. MaxRecognizers
          BY DEF GInv, TypeOK
        <4>2. r \in 1 .. mounted
          BY <1>3, <4>1 DEF ToSet
        <4> QED BY <1>3, <4>1, <4>2, GesturesAssumption DEF Recognizers
      <3>2. flags'[r][t] = flags[r][t]
        BY <1>6, <2>2, <3>1
      <3>3. track[t].used /\ Owns(r, t)
        BY <2>2, <3>1, <3>2 DEF GInv, FlagsOK, Sane
      <3>4. t # s
        BY <1>6, <2>2, <3>1, <3>3
      <3> QED BY <1>5, <1>8, <3>3, <3>4
    <2> QED BY <1>4, <2>1, <2>2 DEF FlagsOK, Sane
  <1>11. OnScreen'
    <2> SUFFICES ASSUME NEW t \in Slots, track'[t].used
                 PROVE  \/ track'[t].contact \in ToSet(input'.touches)
                        \/ Has("retire", t, None)' \/ Has("release", t, None)'
      BY DEF OnScreen
    <2>1. t # s /\ track[t].used /\ track'[t].contact = track[t].contact
      BY <1>5
    <2>2. track[t].contact \in ToSet(input.touches) \/ Has("retire", t, None)
      BY <1>1, <2>1, Settled
    <2>3. Has("retire", t, None) => Has("retire", t, None)'
      BY <1>1, <1>2, HasKept, Dues DEF Always
    <2> QED BY <1>3, <2>1, <2>2, <2>3
  <1>12. /\ \A q : ~Has("onUp", s, q) /\ ~Has("onCancel", s, q)
         /\ \A q : Has("cancel", s, q) => ~(track[s].used /\ Observes(q, s))
         /\ \A q : Has("up", s, q) => ~(Owns(q, s) /\ Observes(q, s))
         /\ \A q : Has("endPinch", s, q) => pinch[q] = {} \/ s \notin pinch[q] \cup {0}
    BY <1>1, NoneEnding
  <1>13. HeardOK'
    <2>1. ASSUME NEW q \in Recognizers, NEW t \in Slots, t # s PROVE HeardAt(q, t)'
      <3>1. /\ heard[q][t] = "onDown" => track[t].used /\ Owns(q, t) /\ Observes(q, t)
            /\ track[t].used /\ Owns(q, t) /\ Observes(q, t) => heard[q][t] = "onDown"
            /\ track[t].used => heard[q][t] \notin {"onUp", "lateCancel"}
        BY <1>1, <2>1, Settled
      <3> QED BY <1>3, <1>5, <1>8, <1>9, <2>1, <3>1 DEF HeardAt
    <2>2. ASSUME NEW q \in Recognizers PROVE HeardAt(q, s)'
      <3>1. HeardAt(q, s)
        BY <1>1 DEF GInv, HeardOK
      <3>2. heard[q][s] # "onDown"
        BY <1>1, <1>12, <3>1 DEF HeardAt
      <3> QED BY <1>3, <1>5, <1>9, <3>2 DEF HeardAt
    <2> QED BY <2>1, <2>2 DEF HeardOK
  <1>14. WonOK'
    <2> SUFFICES ASSUME NEW t \in Slots PROVE WonAt(t)'
      BY DEF WonOK
    <2>1. \A b, c \in won'[t] : b = c
      BY <1>3 DEF GInv, WonOK, WonAt
    <2>2. CASE t = s
      BY <1>5, <2>1, <2>2 DEF WonAt
    <2>3. CASE t # s
      <3>1. track[t].used /\ won[t] # {} =>
              \A q \in Recognizers : Owns(q, t) /\ Observes(q, t) => track[t].claimed = q
        BY <1>1, <2>3, Settled
      <3> QED BY <1>3, <1>5, <1>8, <2>1, <2>3, <3>1 DEF WonAt
    <2> QED BY <2>2, <2>3
  <1>15. ItemsOK'
    BY <1>4 DEF ItemsOK, ItemOK, Told
  <1>16. EndsOK'
    <2> SUFFICES ASSUME NEW q \in Recognizers PROVE EndsAt(q)'
      BY DEF EndsOK
    <2>1. EndsAt(q) /\ (q \in pinched => pinch[q] # {})
      BY <1>7 DEF GInv, EndsOK, Calm
    <2>2. pinch[q] # {} /\ Has("endPinch", 0, q) => Has("endPinch", 0, q)'
      BY <1>1, <1>2, HasKept, Dues
    <2> QED BY <1>3, <1>4, <1>7, <2>1, <2>2, EndsSame
  <1>17. HeldOK'
    <2> SUFFICES ASSUME NEW q \in Recognizers, NEW t \in pinch[q] PROVE Held(q, t)'
      BY <1>3 DEF GInv, HeldOK
    <2>1. t \in Slots
      BY DEF GInv, TypeOK
    <2>2. t # s
      <3> SUFFICES ASSUME t = s PROVE FALSE
        OBVIOUS
      <3>1. Held(q, s)
        BY <1>7 DEF GInv, HeldOK, Calm
      <3> QED BY <1>1, <1>12, <3>1 DEF Held
    <2>3. track[t].used /\ Owns(q, t) /\ Observes(q, t) /\ track[t].claimed = q
      BY <1>1, <2>1, <2>2, Settled
    <2> QED BY <1>5, <1>8, <1>9, <2>1, <2>2, <2>3 DEF Held
  <1>18. StartsOK'
    <2>1. \A q : Has("onPinchStart", 0, q) => Has("onPinchStart", 0, q)'
      BY <1>1, <1>2, HasKept, Dues DEF Always
    <2> QED BY <1>3, <1>4, <2>1, StartsSame DEF GInv
  <1>19. UnmountOK'
    BY <1>7 DEF UnmountOK
  <1> QED BY <1>2, <1>10, <1>11, <1>13, <1>14, <1>15, <1>16, <1>17, <1>18, <1>19 DEF GInv

(* A reversed list has the members of the list.                             *)
LEMMA ReverseFacts ==
  ASSUME NEW S, NEW q \in Seq(S)
  PROVE  /\ Reverse(q) \in Seq(S) /\ ToSet(Reverse(q)) = ToSet(q)
         /\ IsInjective(q) => IsInjective(Reverse(q))
  <1>1. PICK p : p = Reverse(q)
    OBVIOUS
  <1>2. /\ Len(q) \in Nat /\ DOMAIN q = 1 .. Len(q) /\ p = [n \in 1 .. Len(q) |-> q[(Len(q) - n) + 1]]
        /\ \A n \in 1 .. Len(q) : q[n] \in S
    BY <1>1 DEF Reverse
  <1>3. \A n \in 1 .. Len(q) : (Len(q) - n) + 1 \in 1 .. Len(q) /\ (Len(q) - ((Len(q) - n) + 1)) + 1 = n
    BY <1>2
  <1>4. p \in Seq(S) /\ DOMAIN p = 1 .. Len(q)
    BY <1>2, <1>3
  <1>5. ToSet(p) = ToSet(q)
    BY <1>2, <1>3, <1>4 DEF ToSet
  <1>6. IsInjective(q) => IsInjective(p)
    <2> SUFFICES ASSUME IsInjective(q), NEW m \in 1 .. Len(q), NEW n \in 1 .. Len(q), p[m] = p[n]
                 PROVE  m = n
      BY <1>4 DEF IsInjective
    <2>1. q[(Len(q) - m) + 1] = q[(Len(q) - n) + 1]
      BY <1>2
    <2>2. (Len(q) - m) + 1 = (Len(q) - n) + 1
      BY <1>2, <1>3, <2>1 DEF IsInjective
    <2> QED BY <1>2, <2>2
  <1> QED BY <1>1, <1>4, <1>5, <1>6

(* Who watches a contact that lands: some of the registered. *)
LEMMA WatchersFacts ==
  ASSUME TypeOK, NEW c, NEW o, o = Watchers(c)
  PROVE  /\ o \in Seq(Recognizers) /\ IsInjective(o)
         /\ ToSet(o) \subseteq ToSet(recs) /\ ToSet(o) \subseteq 1 .. mounted
         /\ mounted \in Int /\ 1 .. mounted \subseteq Recognizers
  <1>1. PICK M : M = 1 .. mounted
    OBVIOUS
  <1>2. recs \in Seq(M) /\ IsInjective(recs) /\ mounted \in Int /\ M \subseteq Recognizers
    BY <1>1, GesturesAssumption DEF TypeOK, Recognizers
  <1>3. PICK p : p = Reverse(recs)
    OBVIOUS
  <1>4. p \in Seq(M) /\ ToSet(p) = ToSet(recs) /\ IsInjective(p)
    BY <1>2, <1>3, ReverseFacts
  <1>5. PICK K : o = Omit(p, K)
    BY <1>3 DEF Watchers
  <1>6. o \in Seq(M) /\ ToSet(o) = ToSet(p) \ K /\ IsInjective(o)
    BY <1>4, <1>5, OmitFacts
  <1>7. ToSet(o) \subseteq M
    BY <1>6, MembersFinite
  <1>8. o \in Seq(Recognizers)
    BY <1>2, <1>6
  <1> QED BY <1>1, <1>2, <1>4, <1>6, <1>7, <1>8

(* A new contact, and the work to tell its owners of it. *)
(* What beginTrack leaves: o are the owners, a what they are told.          *)
Begun(i, s, c, o, a) ==
  /\ o \in Seq(Recognizers) /\ IsInjective(o)
  /\ ToSet(o) \subseteq ToSet(recs) /\ ToSet(o) \subseteq 1 .. mounted
  /\ todo' = a \o i.rest /\ Adds(i, a)
  /\ ToSet(a) = {Do("onDown", s, r) : r \in ToSet(o)} /\ ToSet(o) \subseteq Recognizers
  /\ track' \in [Slots -> Tracks] /\ \A t \in Slots : t # s => track'[t] = track[t]
  /\ track'[s].used /\ track'[s].contact = c /\ track'[s].owners = o
  /\ flags' \in [Recognizers -> [Slots -> SUBSET Flags]]
  /\ \A q \in Recognizers, t \in Slots :
       flags'[q][t] = IF q \in ToSet(o) /\ t = s THEN {"observing"} ELSE flags[q][t]
  /\ c \in Contacts /\ c \in ToSet(input.touches)

(* What the begin of a contact changes: its slot, its owners' flags, their  *)
(* onDown to come.                                                          *)
LEMMA BeginFrame ==
  ASSUME GInv, NEW i, Fires(i), i.op = "touch", NEW s \in Slots, ~track[s].used,
         NEW c, c = input.touches[i.s], Begin(i, s, c), UNCHANGED <<world, app, pinches, basis, pinched>>
  PROVE  \E o, a : Begun(i, s, c, o, a)
  <1>1. PICK o : o = Watchers(c)
    OBVIOUS
  <1>2. /\ o \in Seq(Recognizers) /\ IsInjective(o) /\ ToSet(o) \subseteq Recognizers
        /\ ToSet(o) \subseteq ToSet(recs) /\ ToSet(o) \subseteq 1 .. mounted
    <2>1. /\ o \in Seq(Recognizers) /\ IsInjective(o)
          /\ ToSet(o) \subseteq ToSet(recs) /\ ToSet(o) \subseteq 1 .. mounted
      BY <1>1, WatchersFacts DEF GInv
    <2>2. ToSet(o) \subseteq Recognizers
      BY <2>1, MembersFinite
    <2> QED BY <2>1, <2>2
  <1>3. PICK a : a = [n \in DOMAIN o |-> Do("onDown", s, o[n])] /\ todo' = a \o i.rest
    BY <1>1 DEF Begin, Then
  <1>4. /\ a \in Seq(Item) /\ ToSet(a) = {Do("onDown", s, r) : r \in ToSet(o)}
        /\ Sorted(a) /\ Distinct(a)
    <2>1. "onDown" \in Ops
      BY DEF Ops, Callbacks
    <2> QED BY <1>2, <1>3, <2>1, OwnerList
  <1>5. Adds(i, a)
    <2>1. Rank(i.op) = 6 /\ Rank(i.op) \in {3, 4, 6}
      BY Ranks
    <2>2. \A y \in ToSet(a) : y.op = "onDown" /\ y.s = s /\ y.r \in Recognizers /\ Rank(y.op) = 5
      BY <1>2, <1>4, Parts, Ranks
    <2>3. \A y \in ToSet(a) : Rank(y.op) <= Rank(i.op) /\ y \notin ToSet(i.rest)
      BY <2>1, <2>2, EarlyRest
    <2>4. HeadsFirst(a)
      BY <1>4, <2>2, NoHeads DEF Heads
    <2>5. \A y \in ToSet(a) : Typed(y) /\ Band(i, y)
      BY <2>1, <2>2 DEF Typed, SlotOps, RecOps, Callbacks, Band
    <2> QED BY <1>4, <2>3, <2>4, <2>5 DEF Adds, Fits
  <1>6. c \in Contacts /\ c \in ToSet(input.touches)
    <2>1. input.touches \in Seq(Contacts) /\ i.s \in DOMAIN input.touches
      BY ItemFacts DEF GInv, TypeOK
    <2> QED BY <2>1 DEF ToSet
  <1>7. PICK v : v = [Free EXCEPT !.used = TRUE, !.present = TRUE, !.fresh = TRUE, !.contact = c, !.owners = o]
    OBVIOUS
  <1>8. v \in Tracks /\ v.used /\ v.contact = c /\ v.owners = o
    <2>1. v = [used |-> TRUE, present |-> TRUE, fresh |-> TRUE, moved |-> FALSE,
               contact |-> c, owners |-> o, claimed |-> None]
      BY <1>7 DEF Free
    <2> QED BY <1>2, <1>6, <2>1 DEF Tracks
  <1>9. track \in [Slots -> Tracks] /\ track' = [track EXCEPT ![s] = v]
    BY <1>1, <1>7 DEF GInv, TypeOK, Begin
  <1>10. /\ track' \in [Slots -> Tracks] /\ \A t \in Slots : t # s => track'[t] = track[t]
         /\ track'[s].used /\ track'[s].contact = c /\ track'[s].owners = o
    BY <1>8, <1>9
  <1>11. /\ flags' \in [Recognizers -> [Slots -> SUBSET Flags]]
         /\ \A q \in Recognizers, t \in Slots :
              flags'[q][t] = IF q \in ToSet(o) /\ t = s THEN {"observing"} ELSE flags[q][t]
    <2>1. flags \in [Recognizers -> [Slots -> SUBSET Flags]] /\ {"observing"} \in SUBSET Flags
      BY DEF GInv, TypeOK, Flags
    <2>2. flags' = [r \in Recognizers |-> IF r \in ToSet(o) THEN [flags[r] EXCEPT ![s] = {"observing"}] ELSE flags[r]]
      BY <1>1 DEF Begin
    <2>3. \A r \in Recognizers : flags[r] \in [Slots -> SUBSET Flags]
      BY <2>1
    <2>4. \A r \in Recognizers : [flags[r] EXCEPT ![s] = {"observing"}] \in [Slots -> SUBSET Flags]
      BY <2>1, <2>3
    <2> QED BY <2>2, <2>3, <2>4
  <1>12. /\ o \in Seq(Recognizers) /\ IsInjective(o)
         /\ ToSet(o) \subseteq ToSet(recs) /\ ToSet(o) \subseteq 1 .. mounted
         /\ todo' = a \o i.rest /\ Adds(i, a)
         /\ ToSet(a) = {Do("onDown", s, r) : r \in ToSet(o)} /\ ToSet(o) \subseteq Recognizers
         /\ track' \in [Slots -> Tracks] /\ \A t \in Slots : t # s => track'[t] = track[t]
         /\ track'[s].used /\ track'[s].contact = c /\ track'[s].owners = o
         /\ flags' \in [Recognizers -> [Slots -> SUBSET Flags]]
         /\ \A q \in Recognizers, t \in Slots :
              flags'[q][t] = IF q \in ToSet(o) /\ t = s THEN {"observing"} ELSE flags[q][t]
         /\ c \in Contacts /\ c \in ToSet(input.touches)
    BY <1>2, <1>3, <1>4, <1>5, <1>6, <1>10, <1>11
  <1> HIDE DEF Adds
  <1> QED BY <1>12 DEF Begun

(* A contact that begins is heard of by its owners before anything else is  *)
(* done.                                                                    *)
LEMMA BeginKeeps ==
  ASSUME GInv, NEW i, Fires(i), i.op = "touch", NEW s \in Slots, ~track[s].used,
         NEW c, c = input.touches[i.s], Begin(i, s, c), UNCHANGED <<world, app, pinches, basis, pinched>>
  PROVE  GInv'
  <1>0. PICK o, a : Begun(i, s, c, o, a)
    BY BeginFrame
  <1>1. /\ o \in Seq(Recognizers) /\ IsInjective(o)
        /\ ToSet(o) \subseteq ToSet(recs) /\ ToSet(o) \subseteq 1 .. mounted
        /\ todo' = a \o i.rest /\ Adds(i, a)
        /\ ToSet(a) = {Do("onDown", s, r) : r \in ToSet(o)} /\ ToSet(o) \subseteq Recognizers
        /\ track' \in [Slots -> Tracks] /\ \A t \in Slots : t # s => track'[t] = track[t]
        /\ track'[s].used /\ track'[s].contact = c /\ track'[s].owners = o
        /\ flags' \in [Recognizers -> [Slots -> SUBSET Flags]]
        /\ \A q \in Recognizers, t \in Slots :
             flags'[q][t] = IF q \in ToSet(o) /\ t = s THEN {"observing"} ELSE flags[q][t]
        /\ c \in Contacts /\ c \in ToSet(input.touches)
    BY <1>0 DEF Begun
  <1>2. /\ input' = input /\ recs' = recs /\ mounted' = mounted /\ live' = live + 1
        /\ pinched' = pinched /\ pinch' = pinch
        /\ heard' = [r \in Recognizers |-> [heard[r] EXCEPT ![s] = "nothing"]]
        /\ won' = [won EXCEPT ![s] = {}]
    BY DEF Begin, world, app, pinches
  <1>3. Rank(i.op) = 6 /\ Rank(i.op) # 3 /\ Rank(i.op) \in {3, 4, 6}
    BY Ranks
  <1>4. /\ WorkOK' /\ OrderOK' /\ KeptBut(i) /\ Work' = ToSet(a) \cup ToSet(i.rest)
    <2>0. Adds(i, a) /\ todo' = a \o i.rest /\ input' = input
      BY <1>1, <1>2
    <2>1. /\ WorkOK' /\ OrderOK' /\ Work' = ToSet(a) \cup ToSet(i.rest)
          /\ \A w \in Work : Due(w) => w = Do(i.op, i.s, i.r) \/ w \in Work'
      BY <2>0, Stepped
    <2> QED BY <2>1 DEF KeptBut
  <1>5. \A y \in ToSet(a) :
          y.op = "onDown" /\ y.s = s /\ y.r \in Recognizers /\ y.r \in ToSet(o)
    BY <1>1, Parts
  <1>6. \A y \in ToSet(i.rest) :
          y \in Work /\ y.op \in {"retire", "touch", "pinches", "pinchPass", "recognize", "mount"}
    BY <1>3, EarlyRest DEF Fires
  <1>7. \A q \in Recognizers, t \in Slots : heard'[q][t] = IF t = s THEN "nothing" ELSE heard[q][t]
    BY <1>2 DEF GInv, TypeOK
  <1>8. \A t \in Slots : won'[t] = IF t = s THEN {} ELSE won[t]
    BY <1>2 DEF GInv, TypeOK
  <1>9. TypeOK'
    <2>1. heard' \in [Recognizers -> [Slots -> {"nothing", "onDown", "onUp", "onCancel", "lateDown", "lateCancel"}]]
      <3>1. \A r \in Recognizers : heard[r] \in [Slots -> {"nothing", "onDown", "onUp", "onCancel", "lateDown", "lateCancel"}]
        BY DEF GInv, TypeOK
      <3>2. \A r \in Recognizers :
              [heard[r] EXCEPT ![s] = "nothing"] \in [Slots -> {"nothing", "onDown", "onUp", "onCancel", "lateDown", "lateCancel"}]
        BY <3>1
      <3> QED BY <1>2, <3>2
    <2>2. won' \in [Slots -> SUBSET (Callbacks \X Recognizers)]
      <3>1. {} \in SUBSET (Callbacks \X Recognizers)
        OBVIOUS
      <3> HIDE DEF Callbacks
      <3> QED BY <1>2, <3>1 DEF GInv, TypeOK
    <2> QED BY <1>1, <1>2, <2>1, <2>2 DEF GInv, TypeOK
  <1>10. OwnersOK'
    BY <1>1, <1>2 DEF GInv, OwnersOK
  <1>11. Calm /\ ~Unmounting /\ ~Unmounting'
    <2>1. Calm /\ ~Unmounting
      BY <1>3, CalmNow, NoMount
    <2> QED BY <1>4, <1>5, <1>6, <2>1 DEF Unmounting
  <1>12. /\ \A t \in Slots \ {s} : /\ \A q : Owns(q, t)' <=> Owns(q, t)
                                   /\ \A q \in Recognizers : Observes(q, t)' <=> Observes(q, t)
         /\ \A q : Owns(q, s)' <=> q \in ToSet(o)
         /\ \A q \in ToSet(o) : Observes(q, s)'
    BY <1>1 DEF Owns, Observes
  <1>13. /\ \A t : ~Ending(t)'
         /\ \A t, q : ~Has("onUp", t, q)' /\ ~Has("up", t, q)'
    BY <1>4, <1>5, <1>6, Parts DEF Ending, Has
  <1>14. FlagsOK'
    <2>1. ASSUME NEW r \in Recognizers, NEW t \in Slots, r > mounted' PROVE flags'[r][t] = {}
      <3>1. flags[r][t] = {}
        BY <1>2, <2>1 DEF GInv, FlagsOK
      <3>2. r \notin ToSet(o)
        <4>1. r \in Int /\ mounted \in Int
          BY GesturesAssumption DEF GInv, TypeOK, Recognizers
        <4>2. r \notin 1 .. mounted
          BY <1>2, <2>1, <4>1
        <4> QED BY <1>1, <4>2
      <3> QED BY <1>1, <3>1, <3>2
    <2>2. ASSUME NEW r \in ToSet(recs'), NEW t \in Slots, flags'[r][t] # {}
          PROVE  track'[t].used /\ Owns(r, t)'
      <3>1. r \in Recognizers /\ r \in ToSet(recs)
        <4>1. recs \in Seq(1 .. mounted) /\ mounted \in 0 .. MaxRecognizers
          BY DEF GInv, TypeOK
        <4>2. r \in 1 .. mounted
          BY <1>2, <4>1 DEF ToSet
        <4> QED BY <1>2, <4>1, <4>2, GesturesAssumption DEF Recognizers
      <3>2. CASE r \in ToSet(o) /\ t = s
        BY <1>1, <1>12, <3>2
      <3>3. CASE ~(r \in ToSet(o) /\ t = s)
        <4>1. flags'[r][t] = flags[r][t]
          BY <1>1, <3>1, <3>3
        <4>2. track[t].used /\ Owns(r, t)
          BY <2>2, <3>1, <4>1 DEF GInv, FlagsOK, Sane
        <4> QED BY <1>1, <1>12, <4>2
      <3> QED BY <3>2, <3>3
    <2>3. \A x \in Work' : x.op # "cancel"
      BY <1>4, <1>5, <1>6
    <2> QED BY <2>1, <2>2, <2>3 DEF FlagsOK, Sane
  <1>15. LiveOK'
    <2> DEFINE U == {t \in Slots : track[t].used}
               V == {t \in Slots : track'[t].used}
    <2>1. IsFiniteSet(U)
      <3>1. IsFiniteSet(Slots)
        BY GesturesAssumption, FS_Interval DEF Slots
      <3>2. U \subseteq Slots
        OBVIOUS
      <3> QED BY <3>1, <3>2, FS_Subset
    <2>2. V = U \cup {s}
      BY <1>1
    <2>3. s \notin U
      OBVIOUS
    <2> HIDE DEF U, V
    <2>4. Cardinality(U \cup {s}) = Cardinality(U) + 1
      BY <2>1, <2>3, FS_AddElement
    <2>5. live = Cardinality(U) /\ (LiveOK' <=> live' = Cardinality(V))
      BY DEF GInv, LiveOK, U, V
    <2> QED BY <1>2, <2>2, <2>4, <2>5
  <1>16. OnScreen'
    <2> SUFFICES ASSUME NEW t \in Slots, track'[t].used
                 PROVE  \/ track'[t].contact \in ToSet(input'.touches)
                        \/ Has("retire", t, None)' \/ Has("release", t, None)'
      BY DEF OnScreen
    <2>1. CASE t = s
      BY <1>1, <1>2, <2>1
    <2>2. CASE t # s
      <3>1. track[t].used /\ track'[t].contact = track[t].contact
        BY <1>1, <2>2
      <3>2. track[t].contact \in ToSet(input.touches) \/ Has("retire", t, None)
        BY <1>3, <3>1, Settled
      <3>3. Has("retire", t, None) => Has("retire", t, None)'
        BY <1>4, HasKept, Dues DEF Always
      <3> QED BY <1>2, <3>1, <3>2, <3>3
    <2> QED BY <2>1, <2>2
  <1>17. HeardOK'
    <2>1. ASSUME NEW q \in Recognizers, NEW t \in Slots, t # s PROVE HeardAt(q, t)'
      <3>1. /\ heard[q][t] = "onDown" => track[t].used /\ Owns(q, t) /\ Observes(q, t)
            /\ track[t].used /\ Owns(q, t) /\ Observes(q, t) => heard[q][t] = "onDown"
            /\ track[t].used => heard[q][t] \notin {"onUp", "lateCancel"}
        BY <1>3, Settled
      <3> QED BY <1>1, <1>7, <1>12, <1>13, <2>1, <3>1 DEF HeardAt
    <2>2. ASSUME NEW q \in Recognizers PROVE HeardAt(q, s)'
      <3>1. Owns(q, s)' => Has("onDown", s, q)'
        BY <1>1, <1>4, <1>12 DEF Has
      <3> QED BY <1>7, <1>13, <3>1 DEF HeardAt
    <2> QED BY <2>1, <2>2 DEF HeardOK
  <1>18. WonOK'
    <2> SUFFICES ASSUME NEW t \in Slots PROVE WonAt(t)'
      BY DEF WonOK
    <2>1. CASE t = s
      BY <1>8, <2>1 DEF WonAt
    <2>2. CASE t # s
      <3>1. track[t].used /\ won[t] # {} =>
              \A q \in Recognizers : Owns(q, t) /\ Observes(q, t) => track[t].claimed = q
        BY <1>3, Settled
      <3>2. \A b, d \in won'[t] : b = d
        BY <1>8, <2>2 DEF GInv, WonOK, WonAt
      <3> QED BY <1>1, <1>8, <1>12, <2>2, <3>1, <3>2 DEF WonAt
    <2> QED BY <2>1, <2>2
  <1>19. ItemsOK'
    <2>1. ASSUME NEW y \in ToSet(a) PROVE ItemOK(y)'
      <3>1. heard'[y.r][s] = "nothing" /\ Observes(y.r, s)' /\ Owns(y.r, s)' /\ track'[s].used
        BY <1>1, <1>5, <1>7, <1>12, <2>1
      <3> QED BY <1>5, <2>1, <3>1 DEF ItemOK, Told
    <2>2. ASSUME NEW y \in ToSet(i.rest) PROVE ItemOK(y)'
      BY <1>6 DEF ItemOK, Told
    <2> QED BY <1>4, <2>1, <2>2 DEF ItemsOK
  <1>20. EndsOK'
    <2> SUFFICES ASSUME NEW q \in Recognizers PROVE EndsAt(q)'
      BY DEF EndsOK
    <2>1. EndsAt(q) /\ (q \in pinched => pinch[q] # {})
      BY <1>11 DEF GInv, EndsOK, Calm
    <2>2. pinch[q] # {} /\ Has("endPinch", 0, q) => Has("endPinch", 0, q)'
      BY <1>4, HasKept, Dues
    <2>3. \A w \in Work' : w.op = "unregister" /\ w.r = q => w \in Work \/ Has("endPinch", 0, q)'
      BY <1>4, <1>5, <1>6
    <2> QED BY <1>2, <1>11, <2>1, <2>2, <2>3, EndsSame
  <1>21. HeldOK'
    <2> SUFFICES ASSUME NEW q \in Recognizers, NEW t \in pinch[q] PROVE Held(q, t)'
      BY <1>2 DEF GInv, HeldOK
    <2>1. t \in Slots
      BY DEF GInv, TypeOK
    <2>2. track[t].used /\ Owns(q, t) /\ Observes(q, t) /\ track[t].claimed = q
      BY <1>3, <2>1, Settled
    <2>3. t # s
      BY <2>2
    <2> QED BY <1>1, <1>12, <1>13, <2>1, <2>2, <2>3 DEF Held
  <1>22. StartsOK'
    <2>1. \A q : Has("onPinchStart", 0, q) => Has("onPinchStart", 0, q)'
      BY <1>4, HasKept, Dues DEF Always
    <2>2. \A w \in Work' : w \in Work \/ w.op = "onDown"
      BY <1>4, <1>5, <1>6
    <2> QED BY <1>2, <2>1, <2>2, StartsSame DEF GInv
  <1>23. UnmountOK'
    BY <1>11 DEF UnmountOK
  <1> QED BY <1>4, <1>9, <1>10, <1>14, <1>15, <1>16, <1>17, <1>18, <1>19, <1>20, <1>21, <1>22, <1>23 DEF GInv

(* A contact of the frame begins in a free slot or goes on in its own.      *)
LEMMA TouchKeeps ==
  ASSUME GInv, NEW i, Fires(i), Touch(i)
  PROVE  GInv'
  <1>1. i.op = "touch" /\ UNCHANGED <<world, app, pinches, basis, pinched>>
    BY DEF Touch
  <1>2. PICK c : c = input.touches[i.s]
    OBVIOUS
  <1>3. CASE \E s \in Slots : Update(i, s)
    BY <1>1, <1>3, UpdateKeeps
  <1>4. CASE \E s \in Slots : ~track[s].used /\ Begin(i, s, c)
    BY <1>1, <1>2, <1>4, BeginKeeps
  <1> QED BY <1>2, <1>3, <1>4 DEF Touch

(* What a pinch that starts puts in front: the claims of its two contacts,  *)
(* the callback, and the next recognizer's turn.                            *)
PairList(i, r, P, a) ==
  /\ Adds(i, a) /\ todo' = a \o i.rest
  /\ ToSet(a) = {Do("claim", s, r) : s \in P} \cup {Do("onPinchStart", 0, r), Do("pinchPass", i.s - 1, None)}

(* What a pinch that starts has to do: a claim on each contact, then        *)
(* onPinchStart.                                                            *)
LEMMA PinchStartList ==
  ASSUME GInv, NEW i, Fires(i), i.op = "pinchPass", i.s \in DOMAIN recs,
         NEW r, r = recs[i.s], NEW next, next = Do("pinchPass", i.s - 1, None),
         NEW P \in SUBSET Slots,
         todo' = Omit(OnSlots("claim", r), {Do("claim", s, r) : s \in Slots \ P})
                   \o <<Do("onPinchStart", 0, r), next>> \o i.rest
  PROVE  \E a : PairList(i, r, P, a)
  <1> DEFINE x == Do("onPinchStart", 0, r)
  <1>1. i.s - 1 \in Nat /\ r \in Recognizers /\ Rank(i.op) = 13
    <2>1. recs \in Seq(1 .. mounted) /\ mounted \in 0 .. MaxRecognizers
      BY DEF GInv, TypeOK
    <2> QED BY <2>1, GesturesAssumption, Ranks DEF Recognizers
  <1>2. "pinchPass" \in Ops /\ "onPinchStart" \in Ops /\ "claim" \in Ops
    BY DEF Ops, Callbacks
  <1>3. 0 \in Nat /\ r \in Recognizers \cup {None} /\ None \in Recognizers \cup {None}
    BY <1>1
  <1>4. x \in Item /\ next \in Item
    BY <1>1, <1>2, <1>3, Parts, Zenon
  <1>5. /\ x.op = "onPinchStart" /\ x.s = 0 /\ x.r = r
        /\ next.op = "pinchPass" /\ next.s = i.s - 1 /\ next.r = None
    BY Parts
  <1>6. PICK o : o = OnSlots("claim", r)
    OBVIOUS
  <1>7. o \in Seq(Item) /\ ToSet(o) = {Do("claim", s, r) : s \in Slots}
    BY <1>2, <1>3, <1>6, OnSlotsFacts
  <1>8. PICK c : c = Omit(o, {Do("claim", s, r) : s \in Slots \ P})
    OBVIOUS
  <1>9. c \in Seq(Item) /\ ToSet(c) = {Do("claim", s, r) : s \in P}
    <2>1. c \in Seq(Item) /\ ToSet(c) = ToSet(o) \ {Do("claim", s, r) : s \in Slots \ P}
      BY <1>7, <1>8, OmitFacts
    <2>2. \A s, t : Do("claim", s, r) = Do("claim", t, r) => s = t
      BY Parts
    <2>3. \A y \in ToSet(c) : \E s \in P : y = Do("claim", s, r)
      BY <1>7, <2>1
    <2>4. \A s \in P : Do("claim", s, r) \in ToSet(c)
      BY <1>7, <2>1, <2>2
    <2> QED BY <2>1, <2>3, <2>4
  <1>10. \A y \in ToSet(c) : y.op = "claim" /\ y.r = r /\ y.s \in Slots /\ Rank(y.op) = 8
    BY <1>9, Parts, Ranks
  <1>11. Rank(x.op) = 8 /\ Rank(next.op) = 13
    BY <1>5, Ranks
  <1>12. todo' = c \o <<x, next>> \o i.rest
    BY <1>6, <1>8
  <1> HIDE DEF x
  <1>13. PICK d : d = <<x, next>>
    OBVIOUS
  <1>14. d \in Seq(Item) /\ ToSet(d) = {x, next} /\ Sorted(d) /\ Distinct(d)
    <2>1. Rank(x.op) <= Rank(next.op) /\ x # next /\ next.op \notin Heads /\ next.op # "onPanEnd"
      BY <1>5, <1>11 DEF Heads
    <2> QED BY <1>4, <1>13, <2>1, TwoItems
  <1>15. PICK a : a = c \o d
    OBVIOUS
  <1>16. a \in Seq(Item) /\ ToSet(a) = {Do("claim", s, r) : s \in P} \cup {x, next} /\ todo' = a \o i.rest
    <2>1. a \in Seq(Item) /\ ToSet(a) = ToSet(c) \cup ToSet(d)
      BY <1>9, <1>14, <1>15, JoinSets
    <2> QED BY <1>9, <1>12, <1>13, <1>14, <1>15, <2>1
  <1>17. \A y \in ToSet(a) :
           \/ y.op = "claim" /\ y.r = r /\ y.s \in Slots /\ Rank(y.op) = 8
           \/ y = x \/ y = next
    BY <1>9, <1>10, <1>16
  <1>18. Sorted(a)
    <2>1. Sorted(c)
      <3>1. \A n \in DOMAIN c : c[n] \in ToSet(c)
        BY DEF ToSet
      <3>2. \A n \in DOMAIN c : Rank(c[n].op) = 8
        BY <1>10, <3>1
      <3> QED BY <3>2 DEF Sorted
    <2>2. \A y \in ToSet(c), z \in ToSet(d) : Rank(y.op) <= Rank(z.op)
      BY <1>10, <1>11, <1>14
    <2> QED BY <1>9, <1>14, <1>15, <2>1, <2>2, SortedJoin
  <1>19. Distinct(a)
    <2>1. \A y \in ToSet(c) : y.op \notin Once
      BY <1>10 DEF Once
    <2>2. Distinct(c)
      <3>1. \A n \in DOMAIN c : c[n] \in ToSet(c)
        BY DEF ToSet
      <3> QED BY <2>1, <3>1 DEF Distinct
    <2> QED BY <1>9, <1>14, <1>15, <2>1, <2>2, DistinctJoin
  <1>20. HeadsFirst(a)
    <2>1. \A y \in ToSet(a) : y.op \notin Heads
      BY <1>5, <1>17 DEF Heads
    <2> QED BY <1>16, <2>1, NoHeads
  <1>21. \A y \in ToSet(a) : Rank(y.op) <= Rank(i.op) /\ (y.op \in Once => y \notin ToSet(i.rest))
    <2>1. \A y \in ToSet(a) : Rank(y.op) <= Rank(i.op)
      BY <1>1, <1>11, <1>17
    <2>2. next.op \notin Once /\ "claim" \notin Once
      BY <1>5 DEF Once
    <2>3. x \notin ToSet(i.rest)
      <3>1. \A y \in ToSet(i.rest) : Rank(i.op) <= Rank(y.op)
        BY DEF Fires
      <3> QED BY <1>1, <1>11, <3>1
    <2> QED BY <1>17, <2>1, <2>2, <2>3
  <1>22. \A y \in ToSet(a) : Typed(y) /\ Band(i, y)
    <2>1. \A y \in ToSet(a) : Typed(y)
      BY <1>1, <1>5, <1>17 DEF Typed, SlotOps, RecOps, Callbacks
    <2>2. \A y \in ToSet(a) : Rank(y.op) \in 8 .. 14
      BY <1>11, <1>17
    <2>3. Rank(i.op) \in 8 .. 14
      BY <1>1
    <2> QED BY <2>1, <2>2, <2>3 DEF Band
  <1>23. Adds(i, a)
    <2>1. i.op # "onUp"
      OBVIOUS
    <2> QED BY <1>16, <1>18, <1>19, <1>20, <1>21, <1>22, <2>1 DEF Adds, Fits
  <1>24. PairList(i, r, P, a)
    BY <1>16, <1>23 DEF PairList, x
  <1> QED BY <1>24

(* The two contacts of a pinch that starts are nobody's yet.                *)
LEMMA PairFacts ==
  ASSUME GInv, NEW i, Fires(i), Rank(i.op) = 13, NEW r \in ToSet(recs)
  PROVE  /\ r \in Recognizers /\ Pair(r) \subseteq Slots
         /\ \A s \in Pair(r) :
              /\ track[s].used /\ track[s].claimed = None /\ Observes(r, s) /\ Owns(r, s)
              /\ heard[r][s] = "onDown" /\ won[s] = {} /\ \A o \in Recognizers : s \notin pinch[o]
         /\ \A s \in Slots : track[s].used => ~Ending(s)
  <1>1. r \in Recognizers
    <2>1. recs \in Seq(1 .. mounted) /\ mounted \in 0 .. MaxRecognizers
      BY DEF GInv, TypeOK
    <2>2. r \in 1 .. mounted
      BY <2>1, MembersFinite
    <2> QED BY <2>1, <2>2, GesturesAssumption DEF Recognizers
  <1>2. Pair(r) \subseteq Slots
    BY DEF Pair, Candidates
  <1>3. \A s \in Pair(r) : track[s].used /\ track[s].claimed = None /\ Observes(r, s)
    BY DEF Pair, Candidates
  <1>4. \A s \in Pair(r) : Owns(r, s)
    <2>1. \A s \in Pair(r) : flags[r][s] # {}
      BY <1>3 DEF Observes
    <2> QED BY <1>2, <2>1 DEF GInv, FlagsOK, Sane
  <1>5. Rank(i.op) \in 8 .. 14 /\ Rank(i.op) \in 10 .. 14
    OBVIOUS
  <1>6. \A s \in Pair(r) : heard[r][s] = "onDown" /\ won[s] = {} /\ \A o \in Recognizers : s \notin pinch[o]
    BY <1>1, <1>2, <1>3, <1>4, <1>5, HeardDown, Unclaimed
  <1>7. \A s \in Slots : ~Ending(s)
    <2>1. Rank("release") < Rank(i.op) /\ Always("release")
      BY Ranks DEF Always
    <2> QED BY <2>1, Below, Parts DEF Ending, Has
  <1> QED BY <1>1, <1>2, <1>3, <1>4, <1>6, <1>7

(* What a pinch that starts changes.                                        *)
Paired(i, r, P, a) ==
  /\ PairList(i, r, P, a)
  /\ input' = input /\ recs' = recs /\ mounted' = mounted /\ track' = track /\ live' = live
  /\ heard' = heard /\ pinched' = pinched
  /\ P # {} /\ P \in SUBSET Slots /\ pinch[r] = {} /\ TypeOK'
  /\ \A q \in Recognizers : pinch'[q] = IF q = r THEN P ELSE pinch[q]
  /\ \A q \in Recognizers, t \in Slots :
       flags'[q][t] = flags[q][t] \cup (IF q = r /\ t \in P THEN {"tapDead"} ELSE {})
  /\ \A t \in Slots : won'[t] = IF t \in P THEN {<<"onPinchStart", r>>} \cup won[t] ELSE won[t]

(* What the start of a pinch changes.                                       *)
LEMMA PinchStartFrame ==
  ASSUME GInv, NEW i, Fires(i), i.op = "pinchPass", i.s \in DOMAIN recs,
         NEW r, r = recs[i.s], NEW next, next = Do("pinchPass", i.s - 1, None),
         PinchStart(i, r, next), UNCHANGED <<world, app, track, live, heard, pinched>>
  PROVE  \E a : Paired(i, r, Pair(r), a)
  <1>0. Rank(i.op) = 13
    BY Ranks
  <1>1. r \in ToSet(recs)
    BY DEF ToSet
  <1>2. PICK P : P = Pair(r)
    OBVIOUS
  <1>3. r \in Recognizers /\ P \subseteq Slots
    BY <1>0, <1>1, <1>2, PairFacts
  <1>4. /\ input' = input /\ recs' = recs /\ mounted' = mounted /\ track' = track /\ live' = live
        /\ heard' = heard /\ pinched' = pinched
    BY DEF world, app
  <1>5. /\ pinch[r] = {} /\ Cardinality(P) = 2 /\ pinch' = [pinch EXCEPT ![r] = P]
        /\ flags' = [flags EXCEPT ![r] = [s \in Slots |-> flags[r][s] \cup IF s \in P THEN {"tapDead"} ELSE {}]]
        /\ won' = [s \in Slots |-> won[s] \cup IF s \in P THEN {<<"onPinchStart", r>>} ELSE {}]
        /\ todo' = Omit(OnSlots("claim", r), {Do("claim", s, r) : s \in Slots \ P})
                     \o <<Do("onPinchStart", 0, r), next>> \o i.rest
    BY <1>2 DEF PinchStart, Then
  <1>6. P # {}
    <2>1. Cardinality(P) = 2 /\ Cardinality({}) = 0
      BY <1>5, FS_EmptySet
    <2> QED BY <2>1
  <1>7. PICK v : v = [s \in Slots |-> flags[r][s] \cup IF s \in P THEN {"tapDead"} ELSE {}]
    OBVIOUS
  <1>8. v \in [Slots -> SUBSET Flags]
    <2>1. flags[r] \in [Slots -> SUBSET Flags]
      BY <1>3 DEF GInv, TypeOK
    <2>2. \A s \in Slots : (flags[r][s] \cup IF s \in P THEN {"tapDead"} ELSE {}) \in SUBSET Flags
      BY <2>1 DEF Flags
    <2> QED BY <1>7, <2>2
  <1>9. flags \in [Recognizers -> [Slots -> SUBSET Flags]] /\ flags' = [flags EXCEPT ![r] = v]
    BY <1>5, <1>7 DEF GInv, TypeOK
  <1>10. /\ flags' \in [Recognizers -> [Slots -> SUBSET Flags]]
         /\ \A q \in Recognizers, t \in Slots :
              flags'[q][t] = flags[q][t] \cup (IF q = r /\ t \in P THEN {"tapDead"} ELSE {})
    <2>1. flags' \in [Recognizers -> [Slots -> SUBSET Flags]]
      BY <1>8, <1>9
    <2>2. \A q \in Recognizers : flags'[q] = IF q = r THEN v ELSE flags[q]
      BY <1>9
    <2> QED BY <1>7, <2>1, <2>2
  <1>11. /\ pinch' \in [Recognizers -> SUBSET Slots]
         /\ \A q \in Recognizers : pinch'[q] = IF q = r THEN P ELSE pinch[q]
    BY <1>3, <1>5 DEF GInv, TypeOK
  <1>12. /\ won' \in [Slots -> SUBSET (Callbacks \X Recognizers)]
         /\ \A t \in Slots : won'[t] = IF t \in P THEN {<<"onPinchStart", r>>} \cup won[t] ELSE won[t]
    <2>1. <<"onPinchStart", r>> \in Callbacks \X Recognizers
      BY <1>3 DEF Callbacks
    <2>2. won \in [Slots -> SUBSET (Callbacks \X Recognizers)]
      BY DEF GInv, TypeOK
    <2> HIDE DEF Callbacks
    <2> QED BY <1>5, <2>1, <2>2
  <1>13. TypeOK'
    BY <1>4, <1>10, <1>11, <1>12 DEF GInv, TypeOK
  <1>14. PICK a : PairList(i, r, P, a)
    <2>1. P \in SUBSET Slots
      BY <1>3
    <2>2. todo' = Omit(OnSlots("claim", r), {Do("claim", s, r) : s \in Slots \ P})
                    \o <<Do("onPinchStart", 0, r), next>> \o i.rest
      BY <1>5
    <2> QED BY <2>1, <2>2, PinchStartList
  <1>15. P \in SUBSET Slots
    BY <1>3
  <1>16. Paired(i, r, P, a)
    BY <1>4, <1>5, <1>6, <1>10, <1>11, <1>12, <1>13, <1>14, <1>15 DEF Paired
  <1> QED BY <1>2, <1>16

(* Its contacts become its own before it is told, whoever is cancelled for  *)
(* it.                                                                      *)
LEMMA PinchStartKeeps ==
  ASSUME GInv, NEW i, Fires(i), i.op = "pinchPass", i.s \in DOMAIN recs,
         NEW r, r = recs[i.s], NEW next, next = Do("pinchPass", i.s - 1, None),
         PinchStart(i, r, next), UNCHANGED <<world, app, track, live, heard, pinched>>
  PROVE  GInv'
  <1>0. Rank(i.op) = 13 /\ r \in ToSet(recs)
    BY Ranks DEF ToSet
  <1>1. PICK P : P = Pair(r)
    OBVIOUS
  <1>2. PICK a : Paired(i, r, P, a)
    BY <1>1, PinchStartFrame
  <1>3. /\ Adds(i, a) /\ todo' = a \o i.rest
        /\ ToSet(a) = {Do("claim", s, r) : s \in P} \cup {Do("onPinchStart", 0, r), Do("pinchPass", i.s - 1, None)}
        /\ input' = input /\ recs' = recs /\ mounted' = mounted /\ track' = track /\ live' = live
        /\ heard' = heard /\ pinched' = pinched
        /\ P # {} /\ P \in SUBSET Slots /\ pinch[r] = {} /\ TypeOK'
        /\ \A q \in Recognizers : pinch'[q] = IF q = r THEN P ELSE pinch[q]
        /\ \A q \in Recognizers, t \in Slots :
             flags'[q][t] = flags[q][t] \cup (IF q = r /\ t \in P THEN {"tapDead"} ELSE {})
        /\ \A t \in Slots : won'[t] = IF t \in P THEN {<<"onPinchStart", r>>} \cup won[t] ELSE won[t]
    BY <1>2 DEF Paired, PairList
  <1>4. /\ r \in Recognizers
        /\ \A s \in P :
             /\ s \in Slots /\ track[s].used /\ track[s].claimed = None /\ Observes(r, s) /\ Owns(r, s)
             /\ heard[r][s] = "onDown" /\ won[s] = {} /\ \A o \in Recognizers : s \notin pinch[o]
        /\ \A s \in Slots : track[s].used => ~Ending(s)
    BY <1>0, <1>1, <1>3, PairFacts
  <1>5. /\ WorkOK' /\ OrderOK' /\ KeptBut(i) /\ Work' = ToSet(a) \cup ToSet(i.rest)
    <2>0. Adds(i, a) /\ todo' = a \o i.rest /\ input' = input
      BY <1>3
    <2>1. /\ WorkOK' /\ OrderOK' /\ Work' = ToSet(a) \cup ToSet(i.rest)
          /\ \A w \in Work : Due(w) => w = Do(i.op, i.s, i.r) \/ w \in Work'
      BY <2>0, Stepped
    <2> QED BY <2>1 DEF KeptBut
  <1>6. \A y \in ToSet(i.rest) : y \in Work /\ 13 <= Rank(y.op)
    BY <1>0 DEF Fires
  <1>7. \A y \in ToSet(a) : \/ y.op = "claim" /\ y.r = r /\ y.s \in P
                            \/ y.op = "onPinchStart" /\ y.r = r /\ y.s = 0
                            \/ y.op = "pinchPass"
    BY <1>3, Parts
  <1>8. \A s \in P : Has("claim", s, r)'
    BY <1>3, <1>5 DEF Has
  <1>9. Has("onPinchStart", 0, r)'
    BY <1>3, <1>5 DEF Has
  <1>10. \A w \in Work' : w \in Work \/ w.op \in {"claim", "onPinchStart", "pinchPass"}
    BY <1>5, <1>6, <1>7
  <1>11. Calm /\ ~Unmounting
    BY <1>0, CalmNow, NoMount
  <1>12. \A y \in Work : Rank(y.op) < 13 /\ Always(y.op) => FALSE
    BY <1>0, Below
  <1>13. /\ \A s, q : (Owns(q, s)' <=> Owns(q, s))
         /\ \A s \in Slots, q \in Recognizers : (Observes(q, s)' <=> Observes(q, s))
    BY <1>3 DEF Owns, Observes
  <1>14. OwnersOK'
    BY <1>3 DEF GInv, OwnersOK
  <1>15. UnmountOK' /\ FlagsOK' /\ LiveOK' /\ OnScreen' /\ ~Unmounting'
    <2>1. SameTracks
      BY <1>3, <1>4, <1>13 DEF SameTracks
    <2>2. /\ mounted <= mounted'
          /\ \A q \in ToSet(recs') : q \in ToSet(recs) \/ q > mounted
      BY <1>3 DEF GInv, TypeOK
    <2>3. \A y \in Work' :
            \/ y \in Work
            \/ /\ y.op # "mount" /\ (Unmounting => Rank(y.op) = 0)
               /\ y.op = "cancel" /\ track[y.s].used /\ Observes(y.r, y.s) => Owns(y.r, y.s)
      BY <1>10, <1>11
    <2>4. \A s \in Slots :
            track[s].used /\ (Has("retire", s, None) \/ Has("release", s, None)) =>
              \/ Has("retire", s, None)' \/ Has("release", s, None)'
              \/ track[s].contact \in ToSet(input.touches)
      BY <1>5, HasKept, Dues DEF Always
    <2> QED BY <1>3, <1>5, <1>11, <1>14, <2>1, <2>2, <2>3, <2>4, TracksKept
  <1>16. HeardOK'
    <2> SUFFICES ASSUME NEW q \in Recognizers, NEW s \in Slots PROVE HeardAt(q, s)'
      BY DEF HeardOK
    <2>1. HeardAt(q, s) /\ heard'[q][s] = heard[q][s] /\ track'[s].used = track[s].used
      BY <1>3 DEF GInv, HeardOK
    <2>2. \A op : op \in {"release", "up", "onUp"} => (Has(op, s, q)' => Has(op, s, q)) /\ (Has(op, s, None)' => Has(op, s, None))
      BY <1>10, Parts DEF Has
    <2>3. \A op, t : op \in {"onCancel", "onDown", "release", "onUp"} => (Has(op, s, t) => Has(op, s, t)')
      BY <1>5, HasKept, Dues DEF Always
    <2>4. Ending(s)' <=> Ending(s)
      BY <2>2, <2>3 DEF Ending
    <2>5. track[s].used /\ Owns(q, s) /\ Observes(q, s)
              /\ (Has("up", s, q) \/ Has("onUp", s, q) \/ Has("cancel", s, q))
            => Has("up", s, q)' \/ Has("onUp", s, q)' \/ Has("cancel", s, q)'
      BY <1>5, <2>3, HasKept, Dues
    <2>6. /\ Has("up", s, q)' \/ Has("onUp", s, q)' => Has("up", s, q) \/ Has("onUp", s, q)
          /\ Has("onUp", s, q)' => ~Has("up", s, q)'
      BY <2>1, <2>2 DEF HeardAt
    <2>7. /\ Has("onCancel", s, q) => Has("onCancel", s, q)'
          /\ Has("onDown", s, q) => Has("onDown", s, q)'
      BY <2>3
    <2> QED BY <1>13, <2>1, <2>4, <2>5, <2>6, <2>7, HeardSame
  <1>17. WonOK'
    <2> SUFFICES ASSUME NEW s \in Slots PROVE WonAt(s)'
      BY DEF WonOK
    <2>1. CASE s \in P
      <3>1. won'[s] = {<<"onPinchStart", r>>}
        BY <1>3, <1>4, <2>1
      <3>2. \E q \in Recognizers : Has("claim", s, q)'
        BY <1>4, <1>8, <2>1
      <3> QED BY <3>1, <3>2 DEF WonAt
    <2>2. CASE s \notin P
      <3>1. WonAt(s) /\ won'[s] = won[s] /\ track' = track
        BY <1>3, <2>2 DEF GInv, WonOK
      <3>2. \A q \in Recognizers : Has("claim", s, q) => Has("claim", s, q)'
        BY <1>5, HasKept, Dues DEF Always
      <3>3. Ending(s) => Ending(s)'
        BY <1>5, HasKept, Dues DEF Always, Ending
      <3>4. \A w \in Work' : w.op \in {"tap", "onTap"} => w \in Work
        BY <1>10
      <3>5. \A q \in Recognizers :
              track[s].used /\ Owns(q, s) /\ Observes(q, s) /\ Has("cancel", s, q) => Has("cancel", s, q)'
        BY <1>5, HasKept, Dues
      <3> QED BY <1>13, <3>1, <3>2, <3>3, <3>4, <3>5, WonSame
    <2> QED BY <2>1, <2>2
  <1>18. ItemsOK'
    <2>1. ASSUME NEW y \in ToSet(a) PROVE ItemOK(y)'
      <3>1. CASE y.op = "claim" /\ y.r = r /\ y.s \in P
        <4>1. track'[y.s].used /\ Owns(y.r, y.s)'
          BY <1>3, <1>4, <1>13, <3>1
        <4>2. \A o \in Recognizers : y.s \in pinch'[o] => o = y.r
          BY <1>3, <1>4, <3>1
        <4> QED BY <3>1, <4>1, <4>2 DEF ItemOK
      <3>2. CASE y.op \in {"onPinchStart", "pinchPass"}
        BY <3>2 DEF ItemOK, Told
      <3> QED BY <1>7, <2>1, <3>1, <3>2
    <2>2. ASSUME NEW y \in ToSet(i.rest) PROVE ItemOK(y)'
      <3>1. y \in Work /\ 13 <= Rank(y.op) /\ ItemOK(y)
        BY <1>6, <2>2 DEF GInv, ItemsOK
      <3>2. y.op \notin Told \cup {"tap", "release", "longPress", "panStart", "onCancel"}
        BY <3>1, Ranks DEF Told
      <3> QED BY <3>2 DEF ItemOK, Told
    <2> QED BY <1>5, <2>1, <2>2 DEF ItemsOK
  <1>19. EndsOK'
    <2> SUFFICES ASSUME NEW q \in Recognizers PROVE EndsAt(q)'
      BY DEF EndsOK
    <2>1. \A w \in Work' : w.op # "unregister"
      <3>1. \A w \in Work : w.op # "unregister"
        BY <1>12, Ranks DEF Always
      <3> QED BY <1>10, <3>1
    <2>2. CASE q = r
      BY <1>0, <1>3, <1>15, <2>1, <2>2 DEF EndsAt
    <2>3. CASE q # r
      <3>1. EndsAt(q) /\ pinch'[q] = pinch[q] /\ (q \in pinched => pinch[q] # {})
        BY <1>3, <1>11, <2>3 DEF GInv, EndsOK, Calm
      <3>2. pinch[q] # {} /\ Has("endPinch", 0, q) => Has("endPinch", 0, q)'
        BY <1>5, HasKept, Dues
      <3> QED BY <1>3, <1>15, <2>1, <3>1, <3>2, EndsSame
    <2> QED BY <2>2, <2>3
  <1>20. HeldOK'
    <2>1. ASSUME NEW q \in Recognizers, NEW o \in Recognizers, NEW s \in Slots, s \in pinch'[q], s \in pinch'[o]
          PROVE  q = o
      BY <1>3, <1>4, <2>1 DEF GInv, HeldOK
    <2>2. ASSUME NEW q \in Recognizers, NEW s \in pinch'[q] PROVE Held(q, s)'
      <3>1. \A t \in Slots : Ending(t)' => Ending(t)
        BY <1>10, Parts DEF Ending, Has
      <3>2. CASE q = r
        <4>1. s \in P
          BY <1>3, <2>2, <3>2
        <4>2. track'[s].used /\ Owns(q, s)' /\ Observes(q, s)' /\ Has("claim", s, q)' /\ ~Ending(s)'
          BY <1>3, <1>4, <1>8, <1>13, <3>1, <3>2, <4>1
        <4> QED BY <4>2 DEF Held
      <3>3. CASE q # r
        <4>1. s \in pinch[q] /\ s \in Slots
          BY <1>3, <2>2, <3>3 DEF GInv, TypeOK
        <4>2. Held(q, s) /\ track' = track
          BY <1>3, <1>11, <4>1 DEF GInv, HeldOK, Calm
        <4>3. Has("claim", s, q) => Has("claim", s, q)'
          BY <1>5, HasKept, Dues DEF Always
        <4>4. track[s].used /\ Observes(q, s) /\ pinch[q] # {} /\ s \in pinch[q]
          BY <4>1, <4>2 DEF Held
        <4>5. Has("endPinch", s, q) \/ Has("cancel", s, q) => Has("endPinch", s, q)' \/ Has("cancel", s, q)'
          BY <1>5, <4>4, HasKept, Dues
        <4> QED BY <1>13, <3>1, <4>1, <4>2, <4>3, <4>5, HeldSame
      <3> QED BY <3>2, <3>3
    <2> QED BY <2>1, <2>2 DEF HeldOK
  <1>21. StartsOK'
    <2>1. ASSUME NEW q \in Recognizers, pinch'[q] # {}, q \notin pinched' PROVE Has("onPinchStart", 0, q)'
      <3>1. CASE q = r
        BY <1>9, <3>1
      <3>2. CASE q # r
        <4>1. Has("onPinchStart", 0, q)
          BY <1>3, <2>1, <3>2 DEF GInv, StartsOK
        <4> QED BY <1>5, <4>1, HasKept, Dues DEF Always
      <3> QED BY <3>1, <3>2
    <2>2. ASSUME NEW w \in Work', w.op \in {"onPinchEnd", "onPinchMove"} PROVE FALSE
      <3>1. w \in Work
        BY <1>10, <2>2
      <3> QED BY <1>12, <2>2, <3>1, Ranks DEF Always
    <2>3. ASSUME NEW w \in Work', w.op = "onPinchStart" PROVE w.s = 0 /\ w.r \notin pinched'
      <3>1. w \notin Work
        BY <1>12, <2>3, Ranks DEF Always
      <3>2. w.s = 0 /\ w.r = r
        BY <1>5, <1>6, <1>7, <2>3, <3>1
      <3> QED BY <1>3, <1>4, <1>11, <3>2 DEF Calm
    <2> QED BY <2>1, <2>2, <2>3 DEF StartsOK
  <1> QED BY <1>3, <1>5, <1>14, <1>15, <1>16, <1>17, <1>18, <1>19, <1>20, <1>21 DEF GInv

(* A recognizer's turn: its pair is watched, its pinch starts or goes on.   *)
LEMMA PinchTurnKeeps ==
  ASSUME GInv, NEW i, Fires(i), PinchPass(i)
  PROVE  GInv'
  <1>1. /\ i.op = "pinchPass" /\ i.s \in DOMAIN recs
        /\ UNCHANGED <<world, app, track, live, heard, pinched>>
    BY DEF PinchPass
  <1>2. PICK r : r = recs[i.s]
    OBVIOUS
  <1>3. PICK next : next = Do("pinchPass", i.s - 1, None)
    OBVIOUS
  <1>4. CASE r \in Pinches /\ PinchStart(i, r, next)
    BY <1>1, <1>2, <1>3, <1>4, PinchStartKeeps
  <1>5. CASE PinchWatch(i, r, next)
    BY <1>1, <1>2, <1>3, <1>5, PinchPassKeeps
  <1>6. CASE /\ r \notin Pinches \/ pinch[r] # {}
             /\ Then(i, (IF r \in Pinches THEN <<Do("onPinchMove", 0, r)>> ELSE <<>>) \o <<next>>)
             /\ UNCHANGED <<flags, pinches, won, basis>>
    <2>1. todo' = (IF r \in Pinches THEN <<Do("onPinchMove", 0, r)>> ELSE <<>>) \o <<next>> \o i.rest
      BY <1>6 DEF Then
    <2> QED BY <1>1, <1>2, <1>3, <1>6, <2>1, PinchPassKeeps
  <1> QED BY <1>2, <1>3, <1>4, <1>5, <1>6 DEF PinchPass

-----------------------------------------------------------------------------
(* The calls of the application.                                            *)

(* A recognizer that is attached has heard of nothing.                      *)
LEMMA AttachFrame ==
  ASSUME TypeOK, OwnersOK, NEW b, Attach(b), UNCHANGED <<world, flags, pinches, won, basis, pinched, track, live, heard>>
  PROVE  SameContacts /\ SameRecognizers /\ TypeOK' /\ OwnersOK'
  <1>1. /\ mounted < MaxRecognizers /\ mounted' = mounted + 1 /\ recs' = Append(recs, mounted + 1)
        /\ input' = input /\ track' = track /\ flags' = flags
        /\ live' = live /\ pinch' = pinch /\ heard' = heard /\ won' = won /\ pinched' = pinched
    BY DEF Attach, world, pinches
  <1>2. /\ mounted \in 0 .. MaxRecognizers /\ recs \in Seq(1 .. mounted) /\ IsInjective(recs)
        /\ MaxRecognizers \in Nat
    BY GesturesAssumption DEF TypeOK
  <1> DEFINE n == mounted + 1
  <1>3. mounted' \in 0 .. MaxRecognizers /\ recs \in Seq(1 .. n) /\ n \in 1 .. n
    <2>1. \A x \in Seq(1 .. mounted) : x \in Seq(1 .. n)
      BY <1>2
    <2> QED BY <1>1, <1>2, <2>1
  <1>4. recs' \in Seq(1 .. n) /\ ToSet(recs') = ToSet(recs) \cup {n} /\ mounted' = n
    <2>1. recs' = Append(recs, n) /\ mounted' = n
      BY <1>1
    <2>2. PICK t : t = Append(recs, n)
      OBVIOUS
    <2>3. t \in Seq(1 .. n)
      BY <1>3, <2>2
    <2>4. ToSet(t) = ToSet(recs) \cup {n}
      BY <1>3, <2>2, MembersAppend
    <2> QED BY <2>1, <2>2, <2>3, <2>4
  <1>5. IsInjective(recs')
    <2>1. \A m \in DOMAIN recs : recs[m] \in 1 .. mounted
      BY <1>2
    <2>2. DOMAIN recs' = 1 .. (Len(recs) + 1) /\ DOMAIN recs = 1 .. Len(recs) /\ Len(recs) \in Nat
      BY <1>1, <1>2
    <2>3. \A m \in DOMAIN recs' : recs'[m] = IF m = Len(recs) + 1 THEN n ELSE recs[m]
      BY <1>1, <1>2, <2>2
    <2>4. \A m \in DOMAIN recs : recs[m] # n
      BY <1>2, <2>1
    <2> HIDE DEF n
    <2>5. \A m, k \in DOMAIN recs' : recs'[m] = recs'[k] => m = k
      BY <1>2, <2>2, <2>3, <2>4 DEF IsInjective
    <2> QED BY <2>5 DEF IsInjective
  <1>6. TypeOK'
    BY <1>1, <1>3, <1>4, <1>5 DEF TypeOK
  <1>7. OwnersOK'
    <2>1. 1 .. mounted \subseteq 1 .. n
      BY <1>2
    <2> QED BY <1>1, <1>4, <2>1 DEF OwnersOK
  <1>8. SameContacts
    BY <1>1 DEF SameContacts, SameTracks, Observes
  <1>9. SameRecognizers
    BY <1>1, <1>2, <1>4 DEF SameRecognizers
  <1> QED BY <1>6, <1>7, <1>8, <1>9

(* A disposal cancels on every slot, ends the pinch and unregisters.        *)
LEMMA DisposalFacts ==
  ASSUME NEW r \in Recognizers
  PROVE  /\ Disposal(r) \in Seq(Item)
         /\ ToSet(Disposal(r)) = {Do("cancel", s, r) : s \in Slots}
                                   \cup {Do("endPinch", 0, r), Do("unregister", 0, r)}
  <1>1. PICK o : o = OnSlots("cancel", r)
    OBVIOUS
  <1>2. "cancel" \in Ops /\ "endPinch" \in Ops /\ "unregister" \in Ops
    BY DEF Ops
  <1>3. 0 \in Nat /\ r \in Recognizers \cup {None}
    OBVIOUS
  <1>4. o \in Seq(Item) /\ ToSet(o) = {Do("cancel", s, r) : s \in Slots}
    BY <1>1, <1>2, <1>3, OnSlotsFacts
  <1> DEFINE x == Do("endPinch", 0, r)
             y == Do("unregister", 0, r)
  <1>5. x \in Item /\ y \in Item /\ x.op = "endPinch" /\ y.op = "unregister"
    BY <1>2, <1>3, Parts, Zenon
  <1>6. Disposal(r) = o \o <<x, y>>
    BY <1>1 DEF Disposal
  <1> HIDE DEF x, y
  <1>7. Rank(x.op) = 0 /\ Rank(y.op) = 0
    BY <1>5, Ranks
  <1>8. <<x, y>> \in Seq(Item) /\ ToSet(<<x, y>>) = {x, y}
    BY <1>5, <1>7, TwoItems DEF Heads
  <1>9. o \o <<x, y>> \in Seq(Item) /\ ToSet(o \o <<x, y>>) = ToSet(o) \cup ToSet(<<x, y>>)
    BY <1>4, <1>8, JoinSets
  <1> QED BY <1>4, <1>6, <1>8, <1>9 DEF x, y

(* What the calls that do not unmount put in front.                         *)
LEMMA CallList ==
  ASSUME GInv, NEW b, Ready(b),
         \/ Attach(b) \/ PushTouchBlock(b) \/ Unblock(b)
         \/ \E r \in ToSet(recs) : HandleCancel(r, b) \/ Dispose(r, b)
  PROVE  \E a \in Seq(Item) : todo' = a \o b /\ \A y \in ToSet(a) : CallItem(y)
  <1>1. b \in Seq(Item)
    BY DEF Ready
  <1>2. CASE Attach(b) \/ Unblock(b)
    <2>1. todo' = b
      BY <1>2 DEF Attach, Unblock
    <2>2. <<>> \in Seq(Item) /\ ToSet(<<>>) = {} /\ b = <<>> \o b
      BY <1>1, AppItem
    <2> QED BY <2>1, <2>2
  <1>3. CASE PushTouchBlock(b)
    <2> DEFINE x == Do("block", 1, None)
    <2>1. x \in Item
      <3>1. "block" \in Ops
        BY DEF Ops
      <3>2. 1 \in Nat /\ None \in Recognizers \cup {None}
        OBVIOUS
      <3> QED BY <3>1, <3>2, Parts, Zenon
    <2>2. CallItem(x)
      BY Parts DEF CallItem, CallOps, Typed, SlotOps, RecOps, Callbacks
    <2>3. todo' = <<x>> \o b
      BY <1>3 DEF PushTouchBlock
    <2> HIDE DEF x
    <2>4. PICK a : a = <<x>>
      OBVIOUS
    <2>5. a \in Seq(Item) /\ ToSet(a) = {x}
      BY <2>1, <2>4, OneItem
    <2>6. \A y \in ToSet(a) : CallItem(y)
      BY <2>2, <2>5
    <2>7. todo' = a \o b
      BY <2>3, <2>4
    <2> QED BY <2>5, <2>6, <2>7
  <1>4. ASSUME NEW r \in ToSet(recs), HandleCancel(r, b) \/ Dispose(r, b)
        PROVE  \E a \in Seq(Item) : todo' = a \o b /\ \A y \in ToSet(a) : CallItem(y)
    <2>1. r \in Recognizers /\ Sane(r)
      <3>1. recs \in Seq(1 .. mounted) /\ mounted \in 0 .. MaxRecognizers /\ Sane(r)
        BY DEF GInv, TypeOK, FlagsOK
      <3>2. r \in 1 .. mounted
        BY <3>1, MembersFinite
      <3> QED BY <3>1, <3>2, GesturesAssumption DEF Recognizers
    <2>2. \A s \in Slots : CallItem(Do("cancel", s, r))
      <3>1. \A s \in Slots : Observes(r, s) => Owns(r, s)
        BY <2>1 DEF Sane, Observes
      <3> QED BY <2>1, <3>1, Parts DEF CallItem, CallOps, Typed, RecOps
    <2>3. CASE HandleCancel(r, b)
      <3>1. PICK a : a = OnSlots("cancel", r)
        OBVIOUS
      <3>2. "cancel" \in Ops /\ r \in Recognizers \cup {None}
        BY <2>1 DEF Ops
      <3>3. a \in Seq(Item) /\ ToSet(a) = {Do("cancel", s, r) : s \in Slots}
        BY <3>1, <3>2, OnSlotsFacts
      <3>4. \A y \in ToSet(a) : CallItem(y)
        BY <2>2, <3>3
      <3>5. todo' = a \o b
        BY <2>3, <3>1 DEF HandleCancel
      <3> QED BY <3>3, <3>4, <3>5
    <2>4. CASE Dispose(r, b)
      <3>1. PICK a : a = Disposal(r)
        OBVIOUS
      <3>2. /\ a \in Seq(Item)
            /\ ToSet(a) = {Do("cancel", s, r) : s \in Slots} \cup {Do("endPinch", 0, r), Do("unregister", 0, r)}
        BY <2>1, <3>1, DisposalFacts
      <3>3. todo' = a \o b
        BY <2>4, <3>1 DEF Dispose
      <3>4. Has("endPinch", 0, r)'
        <4>1. PICK c : c = todo'
          OBVIOUS
        <4>2. ToSet(c) = ToSet(a) \cup ToSet(b)
          BY <1>1, <3>2, <3>3, <4>1, JoinSets
        <4> QED BY <3>2, <4>1, <4>2 DEF Has, Work
      <3>5. CallItem(Do("endPinch", 0, r)) /\ CallItem(Do("unregister", 0, r))
        BY <2>1, <3>4, Parts DEF CallItem, CallOps, Typed, SlotOps, RecOps
      <3>6. \A y \in ToSet(a) : CallItem(y)
        BY <2>2, <3>2, <3>5
      <3> QED BY <3>2, <3>3, <3>6
    <2> QED BY <1>4, <2>3, <2>4
  <1> QED BY <1>2, <1>3, <1>4

(* The calls that do not unmount keep the invariant, inside a callback and  *)
(* between frames.                                                          *)
LEMMA CallKeeps ==
  ASSUME GInv, Calm, NEW b, Ready(b),
         \A y \in Work : Due(y) /\ y.op \in Lasting => y \in ToSet(b),
         \A y \in ToSet(b) : y \in Work \/ New(y),
         \/ Attach(b) \/ PushTouchBlock(b) \/ Unblock(b)
         \/ \E r \in ToSet(recs) : HandleCancel(r, b) \/ Dispose(r, b),
         UNCHANGED <<world, flags, pinches, won, basis, pinched, track, live, heard>>
  PROVE  GInv'
  <1>1. PICK a \in Seq(Item) : todo' = a \o b /\ \A y \in ToSet(a) : CallItem(y)
    BY CallList
  <1>2. SameContacts /\ SameRecognizers /\ TypeOK' /\ OwnersOK'
    <2>1. CASE Attach(b)
      BY <2>1, AttachFrame DEF GInv
    <2>2. CASE ~Attach(b)
      <3>1. recs' = recs /\ mounted' = mounted
        BY <2>2 DEF PushTouchBlock, Unblock, HandleCancel, Dispose
      <3>2. Unmoved
        BY <3>1 DEF Unmoved, world, pinches
      <3> QED BY <3>2, UnmovedSame DEF GInv
    <2> QED BY <2>1, <2>2
  <1> QED BY <1>1, <1>2, PushKeeps

(* A call inside a callback: the frame's rest waits for it.                 *)
LEMMA InsideKeeps ==
  ASSUME GInv, StaysMounted, NEW i, Fires(i), Inside(i)
  PROVE  GInv'
  <1>1. PICK b : b = <<Do("app", 0, None)>> \o i.rest
    OBVIOUS
  <1>2. i.op = "app" /\ AppCall(b)
    BY <1>1 DEF Inside
  <1>3. Calm
    BY <1>2, CalmNow
  <1>4. /\ <<Do("app", 0, None)>> \in Seq(Item)
        /\ ToSet(<<Do("app", 0, None)>>) = {Do("app", 0, None)}
        /\ CallItem(Do("app", 0, None))
    BY AppItem
  <1>5. Ready(b) /\ ToSet(b) = {Do("app", 0, None)} \cup ToSet(i.rest)
    <2>1. Ready(i.rest)
      <3>1. i.op # "onUp" /\ Rank(i.op) \in (0 .. 14) \ {5}
        BY <1>2, Ranks
      <3> QED BY <3>1, RestReady DEF GInv, OrderOK
    <2>2. PICK a : a = <<Do("app", 0, None)>>
      OBVIOUS
    <2>3. a \in Seq(Item) /\ ToSet(a) = {Do("app", 0, None)}
      BY <1>4, <2>2
    <2>4. \A y \in ToSet(a) : y.op \in CallOps /\ Typed(y)
      BY <1>4, <2>3 DEF CallItem
    <2>5. b = a \o i.rest
      BY <1>1, <2>2
    <2> QED BY <2>1, <2>3, <2>4, <2>5, Pushed0
  <1>6. b # <<>>
    BY <1>5 DEF ToSet
  <1>7. \A y \in Work : Due(y) /\ y.op \in Lasting => y \in ToSet(b)
    BY <1>2, <1>5, Parts DEF Fires, Lasting
  <1>8. \A y \in ToSet(b) : y \in Work \/ New(y)
    <2>1. New(Do("app", 0, None))
      BY <1>4, CallIsNew
    <2> QED BY <1>5, <2>1 DEF Fires
  <1>9. "unmount" \notin Reentrant
    BY DEF StaysMounted
  <1>10. /\ \/ Attach(b) \/ PushTouchBlock(b) \/ Unblock(b)
            \/ \E r \in ToSet(recs) : HandleCancel(r, b) \/ Dispose(r, b)
         /\ UNCHANGED <<world, flags, pinches, won, basis, pinched, track, live, heard>>
    BY <1>2, <1>6, <1>9 DEF AppCall
  <1> QED BY <1>3, <1>5, <1>7, <1>8, <1>10, CallKeeps

(* What an unmount has the pump do.                                         *)
LEMMA UnmountList ==
  ASSUME TypeOK,
         NEW c, c = FlattenSeq([n \in DOMAIN recs |-> Disposal(recs[n])]) \o <<Do("mount", 0, None)>> \o <<>>
  PROVE  /\ c \in Seq(Item) /\ Sorted(c) /\ Distinct(c)
         /\ \A y \in ToSet(c) :
              \/ y = Do("mount", 0, None)
              \/ y.op \in {"cancel", "endPinch", "unregister"} /\ y.r \in Recognizers
                   /\ (y.op = "cancel" => y.s \in Slots)
         /\ \A r \in ToSet(recs) : Do("endPinch", 0, r) \in ToSet(c)
         /\ Do("mount", 0, None) \in ToSet(c)
  <1>1. PICK R : R = recs
    OBVIOUS
  <1>2. R \in Seq(Recognizers) /\ R \in Seq(1 .. mounted)
    <2>1. recs \in Seq(1 .. mounted) /\ mounted \in 0 .. MaxRecognizers
      BY DEF TypeOK
    <2>2. 1 .. mounted \subseteq Recognizers
      BY <2>1, GesturesAssumption DEF Recognizers
    <2> QED BY <1>1, <2>1, <2>2
  <1>3. PICK d : d = [n \in DOMAIN R |-> Disposal(R[n])]
    OBVIOUS
  <1>4. \A n \in DOMAIN R :
          /\ R[n] \in Recognizers /\ d[n] \in Seq(Item)
          /\ ToSet(d[n]) = {Do("cancel", s, R[n]) : s \in Slots}
                             \cup {Do("endPinch", 0, R[n]), Do("unregister", 0, R[n])}
    <2>1. \A n \in DOMAIN R : R[n] \in Recognizers
      BY <1>2
    <2> QED BY <1>3, <2>1, DisposalFacts
  <1>5. d \in Seq(Seq(Item)) /\ DOMAIN d = DOMAIN R
    <2>1. DOMAIN R = 1 .. Len(R) /\ Len(R) \in Nat
      BY <1>2
    <2>2. d = [n \in 1 .. Len(R) |-> Disposal(R[n])] /\ \A n \in 1 .. Len(R) : Disposal(R[n]) \in Seq(Item)
      BY <1>3, <1>4, <2>1
    <2> QED BY <2>1, <2>2
  <1>6. PICK f : f = FlattenSeq(d)
    OBVIOUS
  <1>7. f \in Seq(Item) /\ \A x : x \in ToSet(f) <=> \E n \in DOMAIN d : x \in ToSet(d[n])
    BY <1>5, <1>6, FlatFacts
  <1> DEFINE m == Do("mount", 0, None)
  <1>8. m \in Item /\ m.op = "mount"
    <2>1. "mount" \in Ops /\ 0 \in Nat /\ None \in Recognizers \cup {None}
      BY DEF Ops
    <2> QED BY <2>1, Parts, Zenon
  <1>9. c = f \o <<m>> \o <<>>
    BY <1>1, <1>3, <1>6
  <1>10. \A y \in ToSet(f) : /\ y.op \in {"cancel", "endPinch", "unregister"} /\ y.r \in Recognizers
                             /\ y.op = "cancel" => y.s \in Slots
    <2> SUFFICES ASSUME NEW y \in ToSet(f)
                 PROVE  /\ y.op \in {"cancel", "endPinch", "unregister"} /\ y.r \in Recognizers
                        /\ y.op = "cancel" => y.s \in Slots
      OBVIOUS
    <2>1. PICK n \in DOMAIN R : y \in ToSet(d[n])
      BY <1>5, <1>7
    <2>2. \/ \E s \in Slots : y = Do("cancel", s, R[n])
          \/ y = Do("endPinch", 0, R[n]) \/ y = Do("unregister", 0, R[n])
      BY <1>4, <2>1
    <2> QED BY <1>4, <2>2, Parts
  <1>11. \A r \in ToSet(R) : Do("endPinch", 0, r) \in ToSet(f)
    BY <1>4, <1>5, <1>7 DEF ToSet
  <1> HIDE DEF m
  <1>12. <<m>> \in Seq(Item) /\ ToSet(<<m>>) = {m} /\ Sorted(<<m>>) /\ Distinct(<<m>>)
    BY <1>8, OneItem
  <1>13. c = f \o <<m>> /\ c \in Seq(Item) /\ ToSet(c) = ToSet(f) \cup {m}
    <2>1. PICK e : e = <<m>>
      OBVIOUS
    <2>2. PICK g : g = f \o e
      OBVIOUS
    <2>3. g \in Seq(Item) /\ ToSet(g) = ToSet(f) \cup ToSet(e)
      <3>1. e \in Seq(Item) /\ f \in Seq(Item)
        BY <1>7, <1>12, <2>1
      <3> QED BY <2>2, <3>1, JoinSets
    <2>4. c = g \o <<>>
      BY <1>9, <2>1, <2>2
    <2>5. c = g
      BY <2>3, <2>4
    <2> QED BY <1>12, <2>1, <2>2, <2>3, <2>5
  <1>14. c \in Seq(Item) /\ ToSet(c) = ToSet(f) \cup {m}
    BY <1>13
  <1>15. \A y \in ToSet(f) : Rank(y.op) = 0 /\ y.op \notin Once
    BY <1>10, Ranks DEF Once
  <1>16. \A n \in DOMAIN f : f[n] \in ToSet(f)
    BY DEF ToSet
  <1>17. Sorted(c)
    <2>1. Sorted(f)
      <3>1. \A n \in DOMAIN f : Rank(f[n].op) = 0
        BY <1>15, <1>16
      <3> QED BY <3>1 DEF Sorted
    <2>2. \A x \in ToSet(f), y \in ToSet(<<m>>) : Rank(x.op) <= Rank(y.op)
      BY <1>8, <1>12, <1>15, Ranks
    <2> QED BY <1>7, <1>12, <1>13, <2>1, <2>2, SortedJoin
  <1>18. Distinct(c)
    <2>1. Distinct(f)
      BY <1>15, <1>16 DEF Distinct
    <2> QED BY <1>7, <1>12, <1>13, <1>15, <2>1, DistinctJoin
  <1>19. \A y \in ToSet(c) :
           \/ y = m
           \/ y.op \in {"cancel", "endPinch", "unregister"} /\ y.r \in Recognizers
                /\ (y.op = "cancel" => y.s \in Slots)
    BY <1>10, <1>14
  <1>20. m \in ToSet(c) /\ \A r \in ToSet(recs) : Do("endPinch", 0, r) \in ToSet(c)
    BY <1>1, <1>11, <1>14
  <1> QED BY <1>14, <1>17, <1>18, <1>19, <1>20 DEF m

(* A reset leaves no contact.                                               *)
LEMMA ResetFacts ==
  ASSUME Reset
  PROVE  /\ live' = 0 /\ track' \in [Slots -> Tracks]
         /\ \A s \in Slots : ~track'[s].used /\ track'[s].owners = <<>> /\ \A q : ~Owns(q, s)'
         /\ LiveOK' /\ OnScreen' /\ OwnersOK'
  <1>1. PICK f : f = Free
    OBVIOUS
  <1>2. f \in Tracks /\ ~f.used /\ f.owners = <<>>
    BY <1>1 DEF Free, Tracks
  <1>3. track' = [s \in Slots |-> f] /\ live' = 0
    BY <1>1 DEF Reset
  <1>4. ToSet(<<>>) = {} /\ IsInjective(<<>>)
    BY DEF ToSet, IsInjective
  <1>5. \A s \in Slots : ~track'[s].used /\ track'[s].owners = <<>>
    BY <1>2, <1>3
  <1>6. \A s \in Slots : \A q : ~Owns(q, s)'
    BY <1>4, <1>5 DEF Owns
  <1>7. LiveOK'
    <2>1. {s \in Slots : track'[s].used} = {}
      BY <1>5
    <2> QED BY <1>3, <2>1, FS_EmptySet DEF LiveOK
  <1>8. OnScreen' /\ OwnersOK'
    BY <1>4, <1>5 DEF OnScreen, OwnersOK
  <1> QED BY <1>2, <1>3, <1>5, <1>6, <1>7, <1>8

(* An unmount outside a callback: nothing else is under way.                *)
LEMMA UnmountKeeps ==
  ASSUME GInv, Idle, Unmount(<<>>), UNCHANGED <<world, flags, pinches, won, basis, pinched>>
  PROVE  GInv'
  <1>1. /\ input' = input /\ mounted' = mounted /\ flags' = flags
        /\ pinch' = pinch /\ won' = won /\ pinched' = pinched /\ recs' = <<>> /\ Reset
        /\ heard' = [r \in Recognizers |-> [s \in Slots |->
                       IF heard[r][s] = "onDown" THEN "nothing" ELSE heard[r][s]]]
    BY DEF Unmount, world, pinches
  <1>2. /\ live' = 0 /\ track' \in [Slots -> Tracks]
        /\ \A s \in Slots : ~track'[s].used /\ track'[s].owners = <<>> /\ \A q : ~Owns(q, s)'
        /\ LiveOK' /\ OnScreen' /\ OwnersOK'
    BY <1>1, ResetFacts
  <1>3. PICK c : c = todo'
    OBVIOUS
  <1>4. /\ c \in Seq(Item) /\ Sorted(c) /\ Distinct(c)
        /\ \A y \in ToSet(c) :
             \/ y = Do("mount", 0, None)
             \/ y.op \in {"cancel", "endPinch", "unregister"} /\ y.r \in Recognizers
                  /\ (y.op = "cancel" => y.s \in Slots)
        /\ \A r \in ToSet(recs) : Do("endPinch", 0, r) \in ToSet(c)
        /\ Do("mount", 0, None) \in ToSet(c)
    <2>1. c = FlattenSeq([n \in DOMAIN recs |-> Disposal(recs[n])]) \o <<Do("mount", 0, None)>> \o <<>>
      BY <1>3 DEF Unmount
    <2> QED BY <2>1, UnmountList DEF GInv
  <1>5. /\ Work' = ToSet(c)
        /\ \A y \in Work' : /\ y.op \in {"mount", "cancel", "endPinch", "unregister"}
                            /\ y.op = "mount" => y.r = None
                            /\ y.op # "mount" => y.r \in Recognizers
                            /\ y.op = "cancel" => y.s \in Slots
    <2>1. Work' = ToSet(c)
      BY <1>3 DEF Work
    <2> QED BY <1>4, <2>1, Parts
  <1>6. TypeOK'
    <2>1. heard' \in [Recognizers -> [Slots -> {"nothing", "onDown", "onUp", "onCancel", "lateDown", "lateCancel"}]]
      <3>1. \A r \in Recognizers, s \in Slots : heard[r][s] \in {"nothing", "onDown", "onUp", "onCancel", "lateDown", "lateCancel"}
        BY DEF GInv, TypeOK
      <3> QED BY <1>1, <3>1
    <2>2. recs' \in Seq(1 .. mounted') /\ IsInjective(recs')
      BY <1>1 DEF IsInjective
    <2> QED BY <1>1, <1>2, <2>1, <2>2 DEF GInv, TypeOK
  <1>7. WorkOK'
    <2>1. \A y \in Work' : Typed(y)'
      BY <1>5 DEF Typed, SlotOps, RecOps, Callbacks
    <2> QED BY <1>3, <1>4, <2>1 DEF WorkOK
  <1>8. \A y \in Work' : Rank(y.op) = 0 \/ y.op = "mount"
    BY <1>5, Ranks
  <1>9. OrderOK'
    <2>1. HeadsFirst(c)
      <3>1. \A y \in ToSet(c) : y.op \notin Heads
        BY <1>5 DEF Heads
      <3> QED BY <1>4, <3>1, NoHeads
    <2>2. Apart(Work')
      <3>1. \A y \in Work' : Rank(y.op) \in {0, 14}
        BY <1>8, Ranks
      <3> QED BY <3>1 DEF Apart
    <2> QED BY <1>3, <1>4, <2>1, <2>2 DEF OrderOK
  <1>10. UnmountOK'
    BY <1>2, <1>8 DEF UnmountOK
  <1>11. FlagsOK'
    <2>1. ToSet(recs') = {}
      BY <1>1 DEF ToSet
    <2> QED BY <1>1, <1>2, <1>5, <2>1 DEF GInv, FlagsOK
  <1>12. \A op, s, r : Has(op, s, r)' => op \in {"mount", "cancel", "endPinch", "unregister"}
    BY <1>5, Parts DEF Has
  <1>13. HeardOK'
    <2> SUFFICES ASSUME NEW r \in Recognizers, NEW s \in Slots PROVE HeardAt(r, s)'
      BY DEF HeardOK
    <2>1. heard'[r][s] # "onDown"
      BY <1>1
    <2> QED BY <1>2, <1>12, <2>1 DEF HeardAt
  <1>14. WonOK'
    BY <1>1, <1>2 DEF GInv, WonOK, WonAt
  <1>15. ItemsOK'
    BY <1>5 DEF ItemsOK, ItemOK, Told
  <1>16. Calm /\ \A y \in Work : ~Due(y)
    BY IdleFacts
  <1>17. \A r \in Recognizers : pinch[r] # {} => Has("endPinch", 0, r)'
    <2> SUFFICES ASSUME NEW r \in Recognizers, pinch[r] # {} PROVE Has("endPinch", 0, r)'
      OBVIOUS
    <2>1. ~Has("endPinch", 0, r)
      BY <1>16, Dues DEF Has
    <2>2. r \in ToSet(recs)
      BY <2>1 DEF GInv, EndsOK, EndsAt
    <2> QED BY <1>4, <1>5, <2>2 DEF Has
  <1>18. EndsOK'
    BY <1>1, <1>16, <1>17 DEF EndsOK, EndsAt, Calm
  <1>19. HeldOK'
    <2>1. Do("mount", 0, None) \in Work'
      BY <1>4, <1>5
    <2> QED BY <1>1, <2>1, Parts DEF GInv, HeldOK, Unmounting
  <1>20. StartsOK'
    <2>1. \A r \in Recognizers : pinch[r] # {} => r \in pinched
      <3>1. \A r \in Recognizers : ~Has("onPinchStart", 0, r)
        BY <1>16, Parts DEF Due, Has
      <3> QED BY <3>1 DEF GInv, StartsOK
    <2> QED BY <1>1, <1>5, <2>1 DEF StartsOK
  <1> QED BY <1>2, <1>6, <1>7, <1>9, <1>10, <1>11, <1>13, <1>14, <1>15, <1>18, <1>19, <1>20 DEF GInv

(* The application's calls between frames.                                  *)
LEMMA OutsideKeeps ==
  ASSUME GInv, Outside
  PROVE  GInv'
  <1>1. Idle /\ AppCall(<<>>)
    BY DEF Outside
  <1>2. Calm /\ \A y \in Work : ~Due(y)
    BY <1>1, IdleFacts
  <1>3. CASE Unmount(<<>>)
    BY <1>1, <1>3, UnmountKeeps DEF AppCall
  <1>4. CASE /\ \/ Attach(<<>>) \/ PushTouchBlock(<<>>) \/ Unblock(<<>>)
                \/ \E r \in ToSet(recs) : HandleCancel(r, <<>>) \/ Dispose(r, <<>>)
             /\ UNCHANGED <<track, live, heard>>
    <2>1. Ready(<<>>) /\ ToSet(<<>>) = {}
      <3>1. <<>> \in Seq(Item) /\ ToSet(<<>>) = {} /\ DOMAIN <<>> = {}
        BY AppItem
      <3> QED BY <3>1 DEF Ready, Sorted, Distinct, Apart
    <2>2. PICK b : b = <<>>
      OBVIOUS
    <2>3. /\ \/ Attach(b) \/ PushTouchBlock(b) \/ Unblock(b)
             \/ \E r \in ToSet(recs) : HandleCancel(r, b) \/ Dispose(r, b)
          /\ UNCHANGED <<world, flags, pinches, won, basis, pinched, track, live, heard>>
      BY <1>1, <1>4, <2>2 DEF AppCall
    <2>4. Ready(b) /\ ToSet(b) = {}
      BY <2>1, <2>2
    <2> QED BY <1>2, <2>3, <2>4, CallKeeps
  <1> QED BY <1>1, <1>3, <1>4 DEF AppCall

(* The next application: nothing of the last one is left but its flags.     *)
LEMMA MountKeeps ==
  ASSUME GInv, NEW i, Fires(i), Mount(i)
  PROVE  GInv'
  <1>1. /\ i.op = "mount" /\ todo' = <<>> \o i.rest /\ Reset
        /\ recs' = (IF mounted < MaxRecognizers THEN <<mounted + 1>> ELSE <<>>)
        /\ mounted' = mounted + Len(recs')
        /\ input' = input /\ flags' = flags /\ pinch' = pinch /\ heard' = heard
        /\ won' = won /\ pinched' = pinched
    BY DEF Mount, Then, world, pinches, history
  <1>2. /\ live' = 0 /\ track' \in [Slots -> Tracks]
        /\ \A s \in Slots : ~track'[s].used /\ track'[s].owners = <<>> /\ \A q : ~Owns(q, s)'
        /\ LiveOK' /\ OnScreen' /\ OwnersOK'
    BY <1>1, ResetFacts
  <1>3. Rank(i.op) = 14 /\ i.op # "onUp"
    BY <1>1, Ranks
  <1>4. /\ WorkOK' /\ OrderOK' /\ \A y \in Work' : y \in Work /\ y \in ToSet(i.rest)
    <2>1. <<>> \in Apps
      BY DEF Apps
    <2>2. PICK a : a = <<>> /\ a \in Apps
      BY <2>1
    <2>3. todo' = a \o i.rest /\ input' = input
      BY <1>1, <2>2
    <2> QED BY <2>2, <2>3, Answered
  <1>5. Do(i.op, i.s, i.r) \in Work /\ Do(i.op, i.s, i.r).op = "mount"
    BY <1>1, Parts DEF Fires
  <1>6. Unmounting
    BY <1>5 DEF Unmounting
  <1>7. \A y \in Work' : y.op = "mount"
    <2>1. \A y \in Work' : Rank(i.op) <= Rank(y.op)
      BY <1>4 DEF Fires
    <2>2. \A y \in Work' : y.op = "mount" \/ Rank(y.op) = 0
      BY <1>4, <1>6 DEF GInv, UnmountOK
    <2> QED BY <1>3, <2>1, <2>2
  <1>8. \A op, s, r : Has(op, s, r)' => op = "mount"
    BY <1>7, Parts DEF Has
  <1>9. \A r \in Recognizers : pinch[r] = {} /\ r \notin pinched
    <2> SUFFICES ASSUME NEW r \in Recognizers PROVE pinch[r] = {} /\ r \notin pinched
      OBVIOUS
    <2>1. pinch[r] = {}
      <3>1. pinch[r] # {} => Has("endPinch", 0, r)
        BY <1>6 DEF GInv, EndsOK, EndsAt
      <3>2. Rank(Do("endPinch", 0, r).op) < Rank(i.op)
        BY <1>3, Parts, Ranks
      <3>3. Has("endPinch", 0, r) => ~Due(Do("endPinch", 0, r))
        BY <3>2 DEF Fires, Has
      <3> QED BY <3>1, <3>3, Dues
    <2>2. r \in pinched => pinch[r] # {}
      BY <1>1, AtHead
    <2> QED BY <2>1, <2>2
  <1>10. /\ mounted' \in 0 .. MaxRecognizers /\ recs' \in Seq(1 .. mounted') /\ IsInjective(recs')
         /\ mounted <= mounted' /\ \A r \in ToSet(recs') : r > mounted
    <2>1. mounted \in 0 .. MaxRecognizers /\ MaxRecognizers \in Nat
      BY GesturesAssumption DEF GInv, TypeOK
    <2>2. CASE mounted < MaxRecognizers
      <3> DEFINE n == mounted + 1
      <3>1. recs' = <<n>> /\ n \in 1 .. n /\ n > mounted
        BY <1>1, <2>1, <2>2
      <3>2. Len(recs') = 1
        BY <3>1
      <3>3. mounted' = n
        BY <1>1, <3>2
      <3> HIDE DEF n
      <3>4. recs' \in Seq(1 .. n) /\ DOMAIN recs' = {1} /\ recs'[1] = n
        BY <3>1
      <3>5. IsInjective(recs') /\ ToSet(recs') = {n}
        BY <3>4 DEF IsInjective, ToSet
      <3>6. n \in 0 .. MaxRecognizers /\ mounted <= n
        BY <2>1, <2>2 DEF n
      <3> QED BY <3>1, <3>3, <3>4, <3>5, <3>6
    <2>3. CASE ~(mounted < MaxRecognizers)
      <3>1. recs' = <<>>
        BY <1>1, <2>3
      <3>2. mounted' = mounted
        BY <1>1, <2>1, <3>1
      <3> QED BY <2>1, <3>1, <3>2 DEF IsInjective, ToSet
    <2> QED BY <2>2, <2>3
  <1>11. TypeOK'
    BY <1>1, <1>2, <1>10 DEF GInv, TypeOK
  <1>12. UnmountOK'
    BY <1>2, <1>7 DEF UnmountOK
  <1>13. FlagsOK'
    <2>1. \A r \in Recognizers, s \in Slots : r > mounted => flags'[r][s] = {}
      BY <1>1 DEF GInv, FlagsOK
    <2>2. \A r \in Recognizers : r > mounted' => r > mounted
      BY <1>10 DEF GInv, TypeOK, Recognizers
    <2>3. \A r \in ToSet(recs') : r \in Recognizers
      <3>1. ToSet(recs') \subseteq 1 .. mounted' /\ 1 .. mounted' \subseteq Recognizers
        BY <1>10, GesturesAssumption, MembersFinite DEF Recognizers
      <3> QED BY <3>1
    <2> QED BY <1>7, <1>10, <2>1, <2>2, <2>3 DEF FlagsOK, Sane
  <1>14. HeardOK'
    <2> SUFFICES ASSUME NEW r \in Recognizers, NEW s \in Slots PROVE HeardAt(r, s)'
      BY DEF HeardOK
    <2>1. heard'[r][s] # "onDown"
      BY <1>1, <1>6 DEF GInv, HeardOK, HeardAt, UnmountOK
    <2> QED BY <1>2, <1>8, <2>1 DEF HeardAt
  <1>15. WonOK'
    BY <1>1, <1>2 DEF GInv, WonOK, WonAt
  <1>16. ItemsOK'
    BY <1>7 DEF ItemsOK, ItemOK, Told
  <1>17. EndsOK' /\ HeldOK' /\ StartsOK'
    BY <1>1, <1>7, <1>9 DEF EndsOK, EndsAt, HeldOK, StartsOK
  <1> QED BY <1>2, <1>4, <1>11, <1>12, <1>13, <1>14, <1>15, <1>16, <1>17 DEF GInv

-----------------------------------------------------------------------------
(* Frames begin when nothing is under way.                                  *)

(* Between frames nothing is pending: what each part says without the rest  *)
(* of a frame.                                                              *)
LEMMA Resting ==
  ASSUME GInv, Idle, NEW r \in Recognizers, NEW s \in Slots
  PROVE  /\ heard[r][s] = "onDown" => track[s].used /\ Owns(r, s) /\ Observes(r, s)
         /\ track[s].used /\ Owns(r, s) /\ Observes(r, s) => heard[r][s] = "onDown"
         /\ track[s].used => heard[r][s] \notin {"onUp", "lateCancel"}
         /\ track[s].used => track[s].contact \in ToSet(input.touches)
         /\ track[s].used /\ won[s] # {} /\ Owns(r, s) /\ Observes(r, s) => track[s].claimed = r
         /\ s \in pinch[r] => track[s].used /\ Owns(r, s) /\ Observes(r, s) /\ track[s].claimed = r
         /\ (r \in pinched <=> pinch[r] # {}) /\ (pinch[r] # {} => r \in ToSet(recs))
  <1>1. Calm /\ ~Unmounting /\ \A y \in Work : ~Due(y)
    BY IdleFacts
  <1>2. \A op, t, q : Always(op) => ~Has(op, t, q)
    BY <1>1, Dues DEF Has
  <1>3. ~Has("cancel", s, r) \/ ~track[s].used \/ ~Observes(r, s)
    BY <1>1, Dues DEF Has
  <1>4. ~Has("endPinch", 0, r) \/ pinch[r] = {}
    BY <1>1, Dues DEF Has
  <1>5. /\ Always("onCancel") /\ Always("onDown") /\ Always("release") /\ Always("retire")
        /\ Always("claim") /\ Always("onPinchStart")
    BY DEF Always
  <1>6. ~Has("onCancel", s, r) /\ ~Has("onDown", s, r) /\ ~Ending(s) /\ ~Has("retire", s, None)
    BY <1>2, <1>5 DEF Ending
  <1>7. /\ heard[r][s] = "onDown" => track[s].used /\ Owns(r, s) /\ Observes(r, s)
        /\ track[s].used /\ Owns(r, s) /\ Observes(r, s) => heard[r][s] = "onDown"
        /\ track[s].used => heard[r][s] \notin {"onUp", "lateCancel"}
    BY <1>6 DEF GInv, HeardOK, HeardAt
  <1>8. track[s].used => track[s].contact \in ToSet(input.touches)
    BY <1>6 DEF GInv, OnScreen, Ending
  <1>9. track[s].used /\ won[s] # {} /\ Owns(r, s) /\ Observes(r, s) => track[s].claimed = r
    BY <1>2, <1>3, <1>5, <1>6 DEF GInv, WonOK, WonAt
  <1>10. s \in pinch[r] => track[s].used /\ Owns(r, s) /\ Observes(r, s) /\ track[s].claimed = r
    BY <1>1, <1>2, <1>5 DEF GInv, HeldOK, Held, Calm
  <1>11. (r \in pinched <=> pinch[r] # {}) /\ (pinch[r] # {} => r \in ToSet(recs))
    BY <1>1, <1>2, <1>4, <1>5 DEF GInv, StartsOK, EndsOK, EndsAt, Calm
  <1> QED BY <1>7, <1>8, <1>9, <1>10, <1>11

FrameOps == {"retire", "touch", "pinches", "recognize"}
FrameWork(touches) ==
  OnSlots("retire", None) \o [n \in DOMAIN touches |-> Do("touch", n, None)]
    \o <<Do("pinches", 0, None)>> \o OnSlots("recognize", None)

(* The items of a frame, in order.                                          *)
LEMMA FrameList ==
  ASSUME NEW touches \in Seq(Contacts), NEW c, c = FrameWork(touches)
  PROVE  /\ c \in Seq(Item) /\ Sorted(c)
         /\ \A y \in ToSet(c) : /\ y.op \in FrameOps /\ y.r = None
                                /\ y.op \in {"retire", "recognize"} => y.s \in Slots
                                /\ y.op = "touch" => y.s \in DOMAIN touches
         /\ \A s \in Slots : Do("retire", s, None) \in ToSet(c)
  <1>1. /\ "retire" \in Ops /\ "touch" \in Ops /\ "pinches" \in Ops /\ "recognize" \in Ops
        /\ None \in Recognizers \cup {None} /\ 0 \in Nat
    BY DEF Ops
  <1>2. PICK a : a = OnSlots("retire", None)
    OBVIOUS
  <1>3. a \in Seq(Item) /\ ToSet(a) = {Do("retire", s, None) : s \in Slots} /\ Sorted(a)
    BY <1>1, <1>2, OnSlotsFacts
  <1>4. PICK b : b = [n \in DOMAIN touches |-> Do("touch", n, None)]
    OBVIOUS
  <1>5. Len(touches) \in Nat /\ DOMAIN touches = 1 .. Len(touches)
    OBVIOUS
  <1>6. \A n \in 1 .. Len(touches) : Do("touch", n, None) \in Item
    <2>1. \A n \in 1 .. Len(touches) : n \in Nat
      BY <1>5
    <2> QED BY <1>1, <2>1, Parts, Zenon
  <1>7. b \in Seq(Item) /\ DOMAIN b = DOMAIN touches /\ \A n \in DOMAIN b : b[n] = Do("touch", n, None)
    BY <1>4, <1>5, <1>6
  <1>8. \A y \in ToSet(b) : y.op = "touch" /\ y.r = None /\ y.s \in DOMAIN touches
    BY <1>7, Parts DEF ToSet
  <1>9. Sorted(b)
    <2>1. \A n \in DOMAIN b : b[n].op = "touch"
      BY <1>7, Parts
    <2> QED BY <2>1, Ranks DEF Sorted
  <1> DEFINE m == Do("pinches", 0, None)
  <1>10. m \in Item /\ m.op = "pinches" /\ m.r = None
    <2>1. m \in Item
      BY <1>1, Parts, Zenon
    <2> QED BY <2>1, Parts
  <1>11. PICK d : d = OnSlots("recognize", None)
    OBVIOUS
  <1>12. d \in Seq(Item) /\ ToSet(d) = {Do("recognize", s, None) : s \in Slots} /\ Sorted(d)
    BY <1>1, <1>11, OnSlotsFacts
  <1>13. c = a \o b \o <<m>> \o d
    BY <1>2, <1>4, <1>11 DEF FrameWork
  <1> HIDE DEF m
  <1>14. PICK e : e = <<m>>
    OBVIOUS
  <1>15. e \in Seq(Item) /\ ToSet(e) = {m} /\ Sorted(e)
    BY <1>10, <1>14, OneItem
  <1>16. PICK f : f = a \o b
    OBVIOUS
  <1>17. \A y \in ToSet(a) : y.op = "retire" /\ y.r = None /\ y.s \in Slots
    BY <1>3, Parts
  <1>18. \A y \in ToSet(d) : y.op = "recognize" /\ y.r = None /\ y.s \in Slots
    BY <1>12, Parts
  <1>19. f \in Seq(Item) /\ ToSet(f) = ToSet(a) \cup ToSet(b) /\ Sorted(f)
    <2>1. f \in Seq(Item) /\ ToSet(f) = ToSet(a) \cup ToSet(b)
      BY <1>3, <1>7, <1>16, JoinSets
    <2>2. \A x \in ToSet(a), y \in ToSet(b) : Rank(x.op) <= Rank(y.op)
      BY <1>8, <1>17, Ranks
    <2> QED BY <1>3, <1>7, <1>9, <1>16, <2>1, <2>2, SortedJoin
  <1>20. PICK g : g = f \o e
    OBVIOUS
  <1>21. g \in Seq(Item) /\ ToSet(g) = ToSet(f) \cup ToSet(e) /\ Sorted(g)
    <2>1. g \in Seq(Item) /\ ToSet(g) = ToSet(f) \cup ToSet(e)
      BY <1>15, <1>19, <1>20, JoinSets
    <2>2. \A x \in ToSet(f), y \in ToSet(e) : Rank(x.op) <= Rank(y.op)
      BY <1>8, <1>10, <1>15, <1>17, <1>19, Ranks
    <2> QED BY <1>15, <1>19, <1>20, <2>1, <2>2, SortedJoin
  <1>22. c = g \o d
    BY <1>13, <1>14, <1>16, <1>20
  <1>23. c \in Seq(Item) /\ ToSet(c) = ToSet(g) \cup ToSet(d) /\ Sorted(c)
    <2>1. c \in Seq(Item) /\ ToSet(c) = ToSet(g) \cup ToSet(d)
      BY <1>12, <1>21, <1>22, JoinSets
    <2>2. \A x \in ToSet(g), y \in ToSet(d) : Rank(x.op) <= Rank(y.op)
      BY <1>8, <1>10, <1>15, <1>17, <1>18, <1>19, <1>21, Ranks
    <2> QED BY <1>12, <1>21, <1>22, <2>1, <2>2, SortedJoin
  <1>24. \A y \in ToSet(c) : /\ y.op \in FrameOps /\ y.r = None
                             /\ y.op \in {"retire", "recognize"} => y.s \in Slots
                             /\ y.op = "touch" => y.s \in DOMAIN touches
    BY <1>8, <1>10, <1>15, <1>17, <1>18, <1>19, <1>21, <1>23 DEF FrameOps
  <1>25. \A s \in Slots : Do("retire", s, None) \in ToSet(c)
    BY <1>3, <1>19, <1>21, <1>23
  <1> QED BY <1>23, <1>24, <1>25

(* A frame changes only what is to be done.                                 *)
LEMMA FrameStarts ==
  ASSUME GInv, Frame
  PROVE  /\ input'.touches \in Seq(Contacts)
         /\ UNCHANGED <<app, track, flags, live, pinches, history>> /\ Idle
         /\ WorkOK' /\ OrderOK'
         /\ \A y \in Work' : y.op \in FrameOps
         /\ \A s \in Slots : track[s].used => Has("retire", s, None)'
  <1>1. /\ UNCHANGED <<app, track, flags, live, pinches, history>> /\ Idle
        /\ todo' = IF input'.touches = <<>> /\ live = 0 THEN <<>> ELSE FrameWork(input'.touches)
    BY DEF Frame, FrameWork
  <1>2. input'.touches \in Seq(Contacts)
    <2>1. PICK S \in SUBSET Contacts, C \in SUBSET Down :
            \E touches \in SetToSeqs(S) : input' = [touches |-> touches, cancelled |-> C]
      BY DEF Frame
    <2>2. PICK touches \in SetToSeqs(S) : input' = [touches |-> touches, cancelled |-> C]
      BY <2>1
    <2>3. Cardinality(S) \in Nat
      BY GesturesAssumption, FS_Subset, FS_CardinalityType
    <2>4. touches \in [1 .. Cardinality(S) -> S]
      BY DEF SetToSeqs
    <2>5. touches \in Seq(Contacts)
      BY <2>3, <2>4
    <2> QED BY <2>2, <2>5
  <1>3. PICK touches : touches = input'.touches
    OBVIOUS
  <1>4. PICK c : c = todo'
    OBVIOUS
  <1>5. touches \in Seq(Contacts) /\ c = IF touches = <<>> /\ live = 0 THEN <<>> ELSE FrameWork(touches)
    BY <1>1, <1>2, <1>3, <1>4
  <1>6. /\ c \in Seq(Item) /\ Sorted(c)
        /\ \A y \in ToSet(c) : /\ y.op \in FrameOps /\ y.r = None
                               /\ y.op \in {"retire", "recognize"} => y.s \in Slots
                               /\ y.op = "touch" => y.s \in DOMAIN touches
    <2>1. CASE c = <<>>
      <3>1. <<>> \in Seq(Item) /\ ToSet(<<>>) = {} /\ DOMAIN <<>> = {}
        BY AppItem
      <3> QED BY <2>1, <3>1 DEF Sorted
    <2>2. CASE c = FrameWork(touches)
      BY <1>5, <2>2, FrameList
    <2> QED BY <1>5, <2>1, <2>2
  <1>7. \A s \in Slots : track[s].used => Do("retire", s, None) \in ToSet(c)
    <2>1. CASE c = FrameWork(touches)
      BY <1>5, <2>1, FrameList
    <2>2. CASE live = 0
      <3>1. IsFiniteSet({s \in Slots : track[s].used})
        <4>1. IsFiniteSet(Slots)
          BY GesturesAssumption, FS_Interval DEF Slots
        <4>2. {s \in Slots : track[s].used} \subseteq Slots
          OBVIOUS
        <4> QED BY <4>1, <4>2, FS_Subset
      <3>2. {s \in Slots : track[s].used} = {}
        BY <2>2, <3>1, FS_EmptySet DEF GInv, LiveOK
      <3> QED BY <3>2
    <2> QED BY <1>5, <2>1, <2>2
  <1>8. Work' = ToSet(c)
    BY <1>4 DEF Work
  <1>9. WorkOK'
    <2>1. \A y \in Work' : Typed(y)'
      BY <1>3, <1>6, <1>8 DEF Typed, SlotOps, RecOps, Callbacks, FrameOps
    <2> QED BY <1>4, <1>6, <2>1 DEF WorkOK
  <1>10. OrderOK'
    <2>1. \A n \in DOMAIN c : c[n].op \in FrameOps
      BY <1>6 DEF ToSet
    <2>2. Distinct(c)
      BY <2>1 DEF Distinct, Once, FrameOps
    <2>3. HeadsFirst(c)
      BY <2>1 DEF HeadsFirst, Heads, FrameOps
    <2>4. Apart(Work')
      <3>1. \A y \in Work' : Rank(y.op) \in {4, 6, 13, 14}
        BY <1>6, <1>8, Ranks DEF FrameOps
      <3> QED BY <3>1 DEF Apart
    <2> QED BY <1>4, <1>6, <2>2, <2>3, <2>4 DEF OrderOK
  <1> QED BY <1>1, <1>2, <1>6, <1>7, <1>8, <1>9, <1>10 DEF Has

(* So it keeps the invariant.                                               *)
LEMMA FrameKeeps ==
  ASSUME GInv, Frame
  PROVE  GInv'
  <1>1. /\ input'.touches \in Seq(Contacts)
        /\ UNCHANGED <<app, track, flags, live, pinches, history>> /\ Idle
        /\ WorkOK' /\ OrderOK'
        /\ \A y \in Work' : y.op \in FrameOps
        /\ \A s \in Slots : track[s].used => Has("retire", s, None)'
    BY FrameStarts
  <1>2. /\ recs' = recs /\ mounted' = mounted /\ track' = track /\ flags' = flags /\ live' = live
        /\ pinch' = pinch /\ heard' = heard /\ won' = won /\ pinched' = pinched
    BY <1>1 DEF app, pinches, history
  <1>3. \A op, s, r : Has(op, s, r)' => op \in FrameOps
    BY <1>1, Parts DEF Has
  <1>4. \A r, s : (Owns(r, s)' <=> Owns(r, s)) /\ (Observes(r, s)' <=> Observes(r, s))
    BY <1>2 DEF Owns, Observes
  <1>5. TypeOK'
    BY <1>1, <1>2 DEF GInv, TypeOK
  <1>6. OwnersOK' /\ LiveOK'
    BY <1>2 DEF GInv, OwnersOK, LiveOK
  <1>7. ~Unmounting' /\ UnmountOK'
    BY <1>1 DEF UnmountOK, Unmounting, FrameOps
  <1>8. FlagsOK'
    BY <1>1, <1>2, <1>4 DEF GInv, FlagsOK, Sane, FrameOps
  <1>9. OnScreen'
    BY <1>1, <1>2 DEF OnScreen
  <1>10. \A s : ~Ending(s)'
    BY <1>3 DEF Ending, FrameOps
  <1>11. HeardOK'
    <2> SUFFICES ASSUME NEW r \in Recognizers, NEW s \in Slots PROVE HeardAt(r, s)'
      BY DEF HeardOK
    <2>1. /\ heard[r][s] = "onDown" => track[s].used /\ Owns(r, s) /\ Observes(r, s)
          /\ track[s].used /\ Owns(r, s) /\ Observes(r, s) => heard[r][s] = "onDown"
          /\ track[s].used => heard[r][s] \notin {"onUp", "lateCancel"}
      BY <1>1, Resting
    <2>2. ~Has("up", s, r)' /\ ~Has("onUp", s, r)'
      BY <1>3 DEF FrameOps
    <2> QED BY <1>2, <1>4, <1>10, <2>1, <2>2 DEF HeardAt
  <1>12. WonOK'
    <2> SUFFICES ASSUME NEW s \in Slots PROVE WonAt(s)'
      BY DEF WonOK
    <2>1. \A q \in Recognizers :
            track[s].used /\ won[s] # {} /\ Owns(q, s) /\ Observes(q, s) => track[s].claimed = q
      BY <1>1, Resting
    <2>2. \A a, b \in won[s] : a = b
      BY DEF GInv, WonOK, WonAt
    <2> QED BY <1>2, <1>4, <2>1, <2>2 DEF WonAt
  <1>13. ItemsOK'
    BY <1>1 DEF ItemsOK, ItemOK, Told, FrameOps
  <1>14. EndsOK' /\ StartsOK'
    <2>1. \A r \in Recognizers : (r \in pinched <=> pinch[r] # {}) /\ (pinch[r] # {} => r \in ToSet(recs))
      <3>1. CASE Slots = {}
        <4>1. \A r \in Recognizers : pinch[r] = {}
          BY <3>1 DEF GInv, TypeOK
        <4>2. Calm
          BY <1>1, IdleFacts
        <4> QED BY <4>1, <4>2 DEF Calm
      <3>2. CASE Slots # {}
        BY <1>1, <3>2, Resting
      <3> QED BY <3>1, <3>2
    <2> QED BY <1>1, <1>2, <1>7, <2>1 DEF EndsOK, EndsAt, StartsOK, FrameOps
  <1>15. HeldOK'
    <2>1. \A r \in Recognizers : \A s \in pinch[r] :
            s \in Slots /\ track[s].used /\ Owns(r, s) /\ Observes(r, s) /\ track[s].claimed = r
      BY <1>1, Resting DEF GInv, TypeOK
    <2> QED BY <1>2, <1>4, <1>10, <2>1 DEF GInv, HeldOK, Held
  <1> QED BY <1>1, <1>5, <1>6, <1>7, <1>8, <1>9, <1>11, <1>12, <1>13, <1>14, <1>15 DEF GInv

(* At first nothing is on the screen.                                       *)
LEMMA InitHolds == Init => GInv
  <1> SUFFICES ASSUME Init PROVE GInv
    OBVIOUS
  <1>1. /\ input.touches = <<>> /\ recs = [n \in 1 .. Mounted |-> n] /\ mounted = Mounted
        /\ track = [s \in Slots |-> Free] /\ live = 0
        /\ flags = [r \in Recognizers |-> [s \in Slots |-> {}]]
        /\ pinch = [r \in Recognizers |-> {}]
        /\ heard = [r \in Recognizers |-> [s \in Slots |-> "nothing"]]
        /\ won = [s \in Slots |-> {}] /\ pinched = {} /\ todo = <<>>
    BY DEF Init
  <1>2. PICK f : f = Free
    OBVIOUS
  <1>3. f \in Tracks /\ ~f.used /\ f.owners = <<>>
    BY <1>2 DEF Free, Tracks
  <1>4. track = [s \in Slots |-> f]
    BY <1>1, <1>2
  <1>5. \A s \in Slots : ~track[s].used /\ track[s].owners = <<>>
    BY <1>3, <1>4
  <1>6. ToSet(<<>>) = {} /\ IsInjective(<<>>) /\ <<>> \in Seq(Item) /\ DOMAIN <<>> = {}
    BY AppItem DEF IsInjective
  <1>7. Work = {}
    BY <1>1, <1>6 DEF Work
  <1>8. recs \in Seq(1 .. Mounted) /\ IsInjective(recs) /\ ToSet(recs) \subseteq Recognizers
    <2>1. recs \in Seq(1 .. Mounted) /\ IsInjective(recs)
      BY <1>1, GesturesAssumption DEF IsInjective
    <2>2. ToSet(recs) \subseteq 1 .. Mounted
      BY <2>1, MembersFinite
    <2> QED BY <2>1, <2>2, GesturesAssumption DEF Recognizers
  <1>9. TypeOK
    <2>1. won \in [Slots -> SUBSET (Callbacks \X Recognizers)]
      BY <1>1
    <2>2. input.touches \in Seq(Contacts)
      BY <1>1
    <2>3. track \in [Slots -> Tracks]
      BY <1>3, <1>4
    <2> QED BY <1>1, <1>8, <2>1, <2>2, <2>3, GesturesAssumption DEF TypeOK
  <1>10. OwnersOK
    BY <1>5, <1>6 DEF OwnersOK
  <1>11. WorkOK /\ OrderOK
    BY <1>1, <1>6, <1>7 DEF WorkOK, OrderOK, Sorted, Distinct, HeadsFirst, Apart
  <1>12. UnmountOK /\ FlagsOK
    BY <1>1, <1>7, <1>8 DEF UnmountOK, Unmounting, FlagsOK, Sane
  <1>13. LiveOK
    <2>1. {s \in Slots : track[s].used} = {}
      BY <1>5
    <2> QED BY <1>1, <2>1, FS_EmptySet DEF LiveOK
  <1>14. OnScreen /\ HeardOK /\ WonOK /\ ItemsOK
    BY <1>1, <1>5, <1>7 DEF OnScreen, HeardOK, HeardAt, WonOK, WonAt, ItemsOK, Has
  <1>15. EndsOK /\ HeldOK /\ StartsOK
    BY <1>1, <1>7 DEF EndsOK, EndsAt, HeldOK, StartsOK
  <1> QED BY <1>9, <1>10, <1>11, <1>12, <1>13, <1>14, <1>15 DEF GInv

LEMMA StutterKeeps ==
  ASSUME GInv, UNCHANGED vars
  PROVE  GInv'
  <1>1. /\ input' = input /\ recs' = recs /\ mounted' = mounted /\ track' = track /\ flags' = flags
        /\ live' = live /\ pinch' = pinch /\ heard' = heard /\ won' = won /\ pinched' = pinched
        /\ todo' = todo
    BY DEF vars, world, app, pinches, history
  <1>2. Work' = Work
    BY <1>1 DEF Work
  <1>3. TypeOK' /\ OwnersOK' /\ WorkOK' /\ OrderOK' /\ UnmountOK' /\ LiveOK'
    BY <1>1, <1>2 DEF GInv, TypeOK, OwnersOK, WorkOK, Typed, OrderOK, UnmountOK, Unmounting, LiveOK
  <1>4. \A op, s, r : Has(op, s, r)' <=> Has(op, s, r)
    BY <1>2 DEF Has
  <1>5. \A r, s : (Owns(r, s)' <=> Owns(r, s)) /\ (Observes(r, s)' <=> Observes(r, s))
    BY <1>1 DEF Owns, Observes
  <1>6. FlagsOK' /\ OnScreen'
    BY <1>1, <1>2, <1>4, <1>5 DEF GInv, FlagsOK, Sane, OnScreen
  <1>7. \A s : Ending(s)' <=> Ending(s)
    BY <1>4 DEF Ending
  <1>8. HeardOK'
    BY <1>1, <1>4, <1>5, <1>7 DEF GInv, HeardOK, HeardAt
  <1>9. WonOK'
    BY <1>1, <1>2, <1>4, <1>5, <1>7 DEF GInv, WonOK, WonAt
  <1>10. ItemsOK'
    BY <1>1, <1>2, <1>4, <1>5, <1>7 DEF GInv, ItemsOK, ItemOK
  <1>11. EndsOK'
    BY <1>1, <1>2, <1>4, Zenon DEF GInv, EndsOK, EndsAt, Unmounting
  <1>12. HeldOK'
    <2>1. \A r, s : Held(r, s)' <=> Held(r, s)
      BY <1>1, <1>4, <1>5, <1>7 DEF Held
    <2>2. \A r : Broken(r)' <=> Broken(r)
      BY <1>1 DEF Broken
    <2>3. Unmounting' <=> Unmounting
      BY <1>2 DEF Unmounting
    <2> QED BY <1>1, <2>1, <2>2, <2>3 DEF GInv, HeldOK
  <1>13. StartsOK'
    BY <1>1, <1>2, <1>4 DEF GInv, StartsOK
  <1> QED BY <1>3, <1>6, <1>8, <1>9, <1>10, <1>11, <1>12, <1>13 DEF GInv

(* The turns, action by action.                                             *)
LEMMA PumpKeeps ==
  ASSUME GInv, StaysMounted, NEW i \in Turn, Pump(i)
  PROVE  GInv'
  <1>1. Fires(i)
    BY Fired DEF GInv
  <1>2. CASE Inside(i) \/ Return(i) \/ Callback(i)
    BY <1>1, <1>2, InsideKeeps, ReturnKeeps, CallbackKeeps
  <1>3. CASE Mount(i) \/ Unregister(i) \/ Block(i) \/ Cancel(i) \/ EndPinch(i) \/ Claim(i)
    BY <1>1, <1>3, MountKeeps, UnregisterKeeps, BlockKeeps, CancelKeeps, EndPinchKeeps, ClaimKeeps
  <1>4. CASE Retire(i) \/ Release(i) \/ Touch(i)
    BY <1>1, <1>4, RetireKeeps, ReleaseKeeps, TouchKeeps
  <1>5. CASE RecognizePinches(i) \/ PinchPass(i) \/ PinchBounds(i)
    BY <1>1, <1>5, RecognizePinchesKeeps, PinchTurnKeeps, PinchBoundsKeeps
  <1>6. CASE Recognize(i) \/ Move(i) \/ Slop(i) \/ LongPress(i) \/ PanStart(i) \/ NoWinner(i)
    BY <1>1, <1>6, RecognizeKeeps, MoveKeeps, SlopKeeps, WinKeeps, NoWinnerKeeps
  <1>7. CASE PanMove(i) \/ Up(i) \/ Tap(i)
    BY <1>1, <1>7, MoveKeeps, UpKeeps, TapKeeps
  <1> QED BY <1>2, <1>3, <1>4, <1>5, <1>6, <1>7 DEF Pump

LEMMA StepKeeps ==
  ASSUME GInv, StaysMounted, [Next]_vars
  PROVE  GInv'
  BY FrameKeeps, OutsideKeeps, PumpKeeps, StutterKeeps DEF Next

-----------------------------------------------------------------------------
(* The theorems.                                                            *)

(* What the rest of a frame may hold, and what the slots, the recognizers   *)
(* and the histories say meanwhile, holds in every state.                   *)
THEOREM GesturesInductive == StaysMounted /\ Spec => []GInv
  <1> SUFFICES ASSUME StaysMounted PROVE Spec => []GInv
    OBVIOUS
  <1>1. Init => GInv
    BY InitHolds
  <1>2. GInv /\ [Next]_vars => GInv'
    BY StepKeeps
  <1> QED BY <1>1, <1>2, PTL DEF Spec

(* A recognizer whose last word was onDown still observes the contact, and  *)
(* the contact is down.                                                     *)
THEOREM PressesEnd == StaysMounted /\ Spec => []NoStrandedPress
  <1>1. GInv => NoStrandedPress
    BY Resting DEF NoStrandedPress
  <1> QED BY <1>1, GesturesInductive, PTL

(* Nothing but the announced tap or pan's end follows onUp or onCancel, and *)
(* an onDown that the cancel overtook.                                      *)
THEOREM EndsAreQuiet == StaysMounted /\ Spec => []QuietAfterEnd
  <1>1. GInv => QuietAfterEnd
    <2> SUFFICES ASSUME GInv, NEW i \in Turn
                 PROVE  /\ i.op \in {"onMove", "onPanStart", "onPanMove", "onLongPress", "onUp"}
                             => heard[i.r][i.s] = "onDown"
                        /\ i.op = "onTap" => heard[i.r][i.s] = "onUp"
                        /\ i.op = "onPanEnd" => heard[i.r][i.s] \in {"onUp", "lateCancel"}
                        /\ i.op = "onCancel" =>
                             \/ heard[i.r][i.s] \in {"onDown", "onUp"}
                             \/ heard[i.r][i.s] = "nothing" /\ Do("onDown", i.s, i.r) \in ToSet(i.rest)
      BY DEF QuietAfterEnd
    <2>1. Fires(i)
      BY Fired DEF GInv
    <2>2. ItemOK(Do(i.op, i.s, i.r))
      BY <2>1, ItemFacts
    <2>3. i.op = "onPanEnd" => ~Has("onUp", i.s, i.r)
      BY <2>1, AtHead, Parts DEF Has, Heads
    <2>4. i.op = "onCancel" /\ Has("onDown", i.s, i.r) => Do("onDown", i.s, i.r) \in ToSet(i.rest)
      BY <2>1, Parts DEF Fires, Due, Has
    <2> QED BY <2>2, <2>3, <2>4, Parts DEF ItemOK
  <1> QED BY <1>1, GesturesInductive, PTL

(* A contact becomes one exclusive gesture at most.                         *)
THEOREM OneWinner == StaysMounted /\ Spec => []SingleWinner
  <1>1. GInv => SingleWinner
    <2> SUFFICES ASSUME GInv, NEW s \in Slots PROVE Cardinality(won[s]) <= 1
      BY DEF SingleWinner
    <2>1. \A a, b \in won[s] : a = b
      BY DEF GInv, WonOK, WonAt
    <2>2. CASE won[s] = {}
      BY <2>2, FS_EmptySet
    <2>3. CASE won[s] # {}
      <3>1. PICK a : won[s] = {a}
        BY <2>1, <2>3
      <3>2. Cardinality({a}) = 1
        BY FS_Singleton
      <3> QED BY <3>1, <3>2
    <2> QED BY <2>2, <2>3
  <1> QED BY <1>1, GesturesInductive, PTL

(* A pinch told of its start is told of its end, once, and its contacts are *)
(* its own meanwhile; one that ends before it was told of begins nothing.   *)
THEOREM PinchesEnd == StaysMounted /\ Spec => []PinchesPaired
  <1>1. GInv => PinchesPaired
    <2> SUFFICES ASSUME GInv PROVE PinchesPaired
      OBVIOUS
    <2>1. ASSUME NEW i \in Turn
          PROVE  /\ i.op = "onPinchMove" => i.r \in pinched
                 /\ i.op = "onPinchEnd" => i.r \in pinched \/ Do("onPinchStart", 0, i.r) \in ToSet(i.rest)
      <3>1. Fires(i) /\ Do(i.op, i.s, i.r) \in Work
        BY Fired DEF GInv, Fires
      <3>2. /\ i.op = "onPinchMove" => i.r \in pinched
            /\ i.op = "onPinchEnd" => i.r \in pinched \/ Has("onPinchStart", 0, i.r)
        BY <3>1, Parts DEF GInv, StartsOK
      <3>3. i.op = "onPinchEnd" /\ Has("onPinchStart", 0, i.r) => Do("onPinchStart", 0, i.r) \in ToSet(i.rest)
        BY <3>1, Parts DEF Fires, Due, Has
      <3> QED BY <3>2, <3>3
    <2>2. ASSUME Idle
          PROVE  /\ pinched = {r \in Recognizers : pinch[r] # {}}
                 /\ \A r \in pinched : \A s \in pinch[r] : track[s].used /\ track[s].claimed = r
      <3>1. pinched \subseteq Recognizers /\ \A r \in Recognizers : pinch[r] \subseteq Slots
        BY DEF GInv, TypeOK
      <3>2. \A r \in Recognizers : r \in pinched => pinch[r] # {}
        BY <2>2, IdleFacts DEF Calm
      <3>3. \A r \in Recognizers : \A s \in Slots :
              (r \in pinched <=> pinch[r] # {}) /\ (s \in pinch[r] => track[s].used /\ track[s].claimed = r)
        BY <2>2, Resting
      <3> QED BY <3>1, <3>2, <3>3
    <2> QED BY <2>1, <2>2 DEF PinchesPaired
  <1> QED BY <1>1, GesturesInductive, PTL

-----------------------------------------------------------------------------
(* Touch blocks.  Whoever of the muted still has a contact is about to be   *)
(* cancelled, or stands where a block that is being pushed has yet to come. *)
Bound == ToSet(recs) \ (Exempt \cup missed)
Heeds(r, s) == track[s].used /\ Observes(r, s)
Ahead(r) == \E x \in Work : x.op = "block" /\ \E j \in DOMAIN recs : j >= x.s /\ recs[j] = r
MuteOK ==
  blocks > 0 => \A r \in Bound, s \in Slots : Heeds(r, s) => Has("cancel", s, r) \/ Ahead(r)
MInv == GInv /\ blocks \in Nat /\ MuteOK

LEMMA RecsKnown ==
  ASSUME GInv
  PROVE  recs \in Seq(Recognizers) /\ ToSet(recs) \subseteq Recognizers /\ IsInjective(recs)
  <1>1. recs \in Seq(1 .. mounted) /\ mounted \in 0 .. MaxRecognizers /\ IsInjective(recs)
    BY DEF GInv, TypeOK
  <1>2. 1 .. mounted \subseteq Recognizers
    BY <1>1, GesturesAssumption DEF Recognizers
  <1>3. recs \in Seq(Recognizers)
    BY <1>1, <1>2
  <1> QED BY <1>1, <1>3, MembersFinite

(* Past the calls, all that was to be muted is.                             *)
LEMMA MutedNow ==
  ASSUME MInv, NEW i, Fires(i), Rank(i.op) # 0, blocks > 0, NEW r \in Bound, NEW s \in Slots
  PROVE  ~Heeds(r, s)
  <1>1. ASSUME NEW y \in Work, y.op \in {"cancel", "block"} PROVE ~Due(y)
    <2>1. Rank(y.op) = 0 /\ Rank(i.op) \in 0 .. 14
      BY <1>1, Ranks, RankType
    <2>2. Rank(y.op) < Rank(i.op)
      BY <2>1
    <2> QED BY <2>2 DEF Fires
  <1>2. \A y \in Work : y.op # "block"
    BY <1>1 DEF Due
  <1>3. Has("cancel", s, r) => ~Heeds(r, s)
    <2>1. Do("cancel", s, r).op = "cancel"
      BY Parts
    <2> QED BY <1>1, <2>1, Dues DEF Has, Heeds
  <1> QED BY <1>2, <1>3 DEF MInv, MuteOK, Ahead

(* ... and stays so, unless an owner begins to observe.                     *)
Alike == blocks' = blocks /\ recs' = recs /\ missed' = missed

LEMMA MuteStays ==
  ASSUME MInv, NEW i, Fires(i), Rank(i.op) # 0, Alike,
         \A r \in ToSet(recs) \ Exempt, s \in Slots : blocks > 0 /\ Heeds(r, s)' => Heeds(r, s)
  PROVE  MuteOK' /\ blocks' \in Nat
  <1>1. Bound' = Bound /\ blocks' \in Nat
    BY DEF Alike, Bound, MInv
  <1>2. ASSUME blocks > 0, NEW r \in Bound, NEW s \in Slots, Heeds(r, s)' PROVE FALSE
    BY <1>2, MutedNow DEF Bound
  <1> QED BY <1>1, <1>2 DEF MuteOK, Alike

(* A call's turn that is not a block's keeps the other calls.               *)
LEMMA MuteKept ==
  ASSUME MInv, NEW i, KeptBut(i), i.op # "block", Alike,
         \A r \in ToSet(recs) \ Exempt, s \in Slots :
           Heeds(r, s)' => Heeds(r, s) /\ (i.op # "cancel" \/ i.s # s \/ i.r # r)
  PROVE  MuteOK' /\ blocks' \in Nat
  <1>1. Bound' = Bound /\ blocks' \in Nat /\ recs' = recs
    BY DEF Alike, Bound, MInv
  <1>2. ASSUME NEW x \in Work, x.op = "block" PROVE x \in Work'
    <2>1. Due(x) /\ x # Do(i.op, i.s, i.r)
      BY <1>2, Parts DEF Due
    <2> QED BY <2>1 DEF KeptBut
  <1>3. ASSUME blocks > 0, NEW r \in Bound, NEW s \in Slots, Heeds(r, s)'
        PROVE  Has("cancel", s, r)' \/ Ahead(r)'
    <2>1. Heeds(r, s) /\ (i.op # "cancel" \/ i.s # s \/ i.r # r)
      BY <1>3 DEF Bound
    <2>2. CASE Has("cancel", s, r)
      <3>1. Due(Do("cancel", s, r))
        BY <2>1, Dues DEF Heeds
      <3> QED BY <2>1, <2>2, <3>1, HasKept
    <2>3. CASE Ahead(r)
      BY <1>1, <1>2, <2>3 DEF Ahead
    <2> QED BY <1>3, <2>1, <2>2, <2>3 DEF MInv, MuteOK
  <1> QED BY <1>1, <1>3 DEF MuteOK, Alike

(* What follows a turn is kept.                                             *)
LEMMA RestKept ==
  ASSUME NEW i, Fires(i), NEW a \in Seq(Item), todo' = a \o i.rest
  PROVE  KeptBut(i) /\ ToSet(a) \subseteq Work' /\ ToSet(i.rest) \subseteq Work'
  <1>1. PICK c : c = todo'
    OBVIOUS
  <1>2. PICK b : b = i.rest
    OBVIOUS
  <1>3. b \in Seq(Item)
    BY <1>2 DEF Fires
  <1>4. ToSet(c) = ToSet(a) \cup ToSet(b) /\ Work' = ToSet(c)
    BY <1>1, <1>2, <1>3, JoinSets DEF Work
  <1> QED BY <1>2, <1>4 DEF Fires, KeptBut

(* The actions that change no flags and no use of a slot.                   *)
LEMMA MuteQuiet ==
  ASSUME MInv, NEW i, Fires(i),
         \/ Retire(i) \/ Claim(i) \/ RecognizePinches(i) \/ PinchBounds(i) \/ Recognize(i)
         \/ Move(i) \/ NoWinner(i) \/ PanMove(i) \/ Up(i) \/ Tap(i)
  PROVE  MuteOK' /\ blocks' \in Nat
  <1>1. /\ Rank(i.op) # 0 /\ Alike /\ flags' = flags
        /\ i.op \in {"retire", "claim", "pinches", "pinchPass", "recognize", "move", "longPress",
                     "panStart", "panMove", "up", "tap"}
    BY Ranks DEF Retire, Claim, RecognizePinches, PinchBounds, Recognize, Move, NoWinner, PanMove, Up,
       Tap, app, history, Alike
  <1>2. TypeOK /\ (i.op \in SlotOps => i.s \in Slots)
    BY ItemFacts DEF MInv, GInv
  <1>3. \A s \in Slots : track'[s].used = track[s].used
    <2>1. CASE Retire(i) \/ Claim(i)
      <3>1. i.s \in Slots
        BY <1>2, <2>1 DEF Retire, Claim, SlotOps
      <3>2. track \in [Slots -> Tracks]
        BY <1>2 DEF TypeOK
      <3>3. \A s \in Slots : track[s] \in Tracks
        BY <3>2
      <3>4. CASE Retire(i)
        <4>1. PICK v : v = [track[i.s] EXCEPT !.present = FALSE]
          OBVIOUS
        <4>2. v.used = track[i.s].used
          BY <3>1, <3>3, <4>1 DEF Tracks
        <4>3. track' = [track EXCEPT ![i.s] = v]
          BY <3>1, <3>2, <3>4, <4>1 DEF Retire
        <4> QED BY <3>1, <3>2, <4>2, <4>3
      <3>5. CASE Claim(i)
        <4>1. PICK v : v = [track[i.s] EXCEPT !.claimed = i.r]
          OBVIOUS
        <4>2. v.used = track[i.s].used
          BY <3>1, <3>3, <4>1 DEF Tracks
        <4>3. track' = [track EXCEPT ![i.s] = v]
          BY <3>1, <3>2, <3>5, <4>1 DEF Claim
        <4> QED BY <3>1, <3>2, <4>2, <4>3
      <3> QED BY <2>1, <3>4, <3>5
    <2>2. CASE ~(Retire(i) \/ Claim(i))
      BY <2>2 DEF RecognizePinches, PinchBounds, Recognize, Move, NoWinner, PanMove, Up, Tap
    <2> QED BY <2>1, <2>2
  <1>4. \A r, s : Observes(r, s)' <=> Observes(r, s)
    BY <1>1 DEF Observes
  <1> QED BY <1>1, <1>3, <1>4, MuteStays DEF Heeds

(* The actions that add flags to an observer, or free or fill a slot.       *)
LEMMA MuteFlags ==
  ASSUME MInv, NEW i, Fires(i), Slop(i) \/ LongPress(i) \/ PanStart(i)
  PROVE  MuteOK' /\ blocks' \in Nat
  <1>1. Rank(i.op) # 0 /\ Alike /\ track' = track
    BY Ranks DEF Slop, LongPress, PanStart, app, history, Alike
  <1>3. /\ flags \in [Recognizers -> [Slots -> SUBSET Flags]] /\ track \in [Slots -> Tracks]
        /\ i.s \in Slots /\ (i.op = "slop" => i.r \in Recognizers)
    BY ItemFacts DEF MInv, GInv, TypeOK, Slop, LongPress, PanStart, SlotOps, RecOps
  <1>4. flags' = flags \/ \E r \in Recognizers :
                            flags' = [flags EXCEPT ![r][i.s] = flags[r][i.s] \cup {"tapDead"}]
                              \/ flags' = [flags EXCEPT ![r][i.s] = flags[r][i.s] \cup {"longFired"}]
                              \/ flags' = [flags EXCEPT ![r][i.s] = flags[r][i.s] \cup {"panning", "tapDead"}]
    <2>1. track[i.s].owners \in Seq(Recognizers)
      BY <1>3 DEF Tracks
    <2>2. ToSet(track[i.s].owners) \subseteq Recognizers
      BY <2>1, MembersFinite
    <2> QED BY <1>3, <2>2 DEF Slop, LongPress, PanStart
  <1>5. \A r \in Recognizers, s \in Slots : Observes(r, s)' => Observes(r, s)
    <2>1. CASE flags' = flags
      BY <2>1 DEF Observes
    <2>2. ASSUME NEW q \in Recognizers, NEW X, "observing" \notin X,
                 flags' = [flags EXCEPT ![q][i.s] = flags[q][i.s] \cup X]
          PROVE  \A r \in Recognizers, s \in Slots : Observes(r, s)' => Observes(r, s)
      <3>1. flags[q] \in [Slots -> SUBSET Flags]
        BY <1>3
      <3>2. \A r \in Recognizers, s \in Slots :
              flags'[r][s] = IF r = q /\ s = i.s THEN flags[q][i.s] \cup X ELSE flags[r][s]
        BY <1>3, <2>2, <3>1
      <3> QED BY <2>2, <3>2 DEF Observes
    <2>3. /\ "observing" \notin {"tapDead"} /\ "observing" \notin {"longFired"}
          /\ "observing" \notin {"panning", "tapDead"}
      OBVIOUS
    <2> QED BY <1>4, <2>1, <2>2, <2>3
  <1> QED BY <1>1, <1>5, MuteStays, RecsKnown DEF Heeds, MInv

(* A contact that is released is observed by nobody.                        *)
LEMMA MuteRelease ==
  ASSUME MInv, NEW i, Fires(i), Release(i)
  PROVE  MuteOK' /\ blocks' \in Nat
  <1>1. Rank(i.op) # 0 /\ Alike
    BY Ranks DEF Release, app, history, Alike
  <1>2. /\ ~track'[i.s].used /\ \A t \in Slots : t # i.s => track'[t] = track[t]
        /\ \A q \in Recognizers, t \in Slots : flags'[q][t] = {} \/ flags'[q][t] = flags[q][t]
    BY ReleaseFrame DEF MInv
  <1>3. \A r \in Recognizers, s \in Slots : Heeds(r, s)' => Heeds(r, s)
    BY <1>2 DEF Heeds, Observes
  <1> QED BY <1>1, <1>3, MuteStays, RecsKnown DEF MInv

(* A contact that lands while a block is held is watched by the exempt.     *)
LEMMA MuteTouch ==
  ASSUME MInv, NEW i, Fires(i), Touch(i)
  PROVE  MuteOK' /\ blocks' \in Nat
  <1>1. Rank(i.op) # 0 /\ Alike
    BY Ranks DEF Touch, app, Alike
  <1>2. recs \in Seq(Recognizers) /\ ToSet(recs) \subseteq Recognizers /\ track \in [Slots -> Tracks]
    BY RecsKnown DEF MInv, GInv, TypeOK
  <1>3. PICK c : c = input.touches[i.s]
    OBVIOUS
  <1>4. ASSUME NEW s \in Slots, track[s].used, Update(i, s) PROVE MuteOK' /\ blocks' \in Nat
    <2>1. PICK m \in BOOLEAN :
            track' = [track EXCEPT ![s] = [track[s] EXCEPT !.present = TRUE, !.fresh = FALSE, !.moved = m]]
      BY <1>4 DEF Update
    <2>2. flags' = flags
      BY <1>4 DEF Update
    <2>3. \A t \in Slots : track'[t].used => track[t].used
      BY <1>2, <1>4, <2>1
    <2>4. \A r \in ToSet(recs) \ Exempt, t \in Slots : Heeds(r, t)' => Heeds(r, t)
      BY <2>2, <2>3 DEF Heeds, Observes
    <2> QED BY <1>1, <2>4, MuteStays
  <1>5. ASSUME NEW s \in Slots, ~track[s].used, Begin(i, s, c) PROVE MuteOK' /\ blocks' \in Nat
    <2>1. PICK o : o = Watchers(c)
      OBVIOUS
    <2>2. \A r \in ToSet(o) : blocks > 0 => r \in Exempt
      <3>1. PICK q : q = Reverse(recs)
        OBVIOUS
      <3>2. q \in Seq(Recognizers)
        BY <1>2, <3>1, ReverseFacts
      <3>3. PICK K : K = {r \in Recognizers : r \notin Region[c] \/ (blocks > 0 /\ r \notin Exempt)}
        OBVIOUS
      <3>4. o = Omit(q, K)
        BY <2>1, <3>1, <3>3 DEF Watchers
      <3>5. ToSet(o) = ToSet(q) \ K /\ ToSet(q) \subseteq Recognizers
        BY <3>2, <3>4, OmitFacts, MembersFinite
      <3> QED BY <3>3, <3>5
    <2>3. \A r \in Recognizers, t \in Slots :
            flags'[r][t] = IF r \in ToSet(o) /\ t = s THEN {"observing"} ELSE flags[r][t]
      <3>1. flags' = [r \in Recognizers |-> IF r \in ToSet(o) THEN [flags[r] EXCEPT ![s] = {"observing"}] ELSE flags[r]]
        BY <1>5, <2>1 DEF Begin
      <3>2. \A r \in Recognizers : flags[r] \in [Slots -> SUBSET Flags]
        BY DEF MInv, GInv, TypeOK
      <3> QED BY <3>1, <3>2
    <2>4. \A t \in Slots : t # s => track'[t] = track[t]
      BY <1>2, <1>5 DEF Begin
    <2>5. \A r \in ToSet(recs) : ~Observes(r, s)
      BY <1>5 DEF Observes, MInv, GInv, FlagsOK, Sane
    <2>6. \A r \in ToSet(recs) \ Exempt, t \in Slots : blocks > 0 /\ Heeds(r, t)' => Heeds(r, t)
      BY <1>2, <2>2, <2>3, <2>4, <2>5 DEF Heeds, Observes
    <2> QED BY <1>1, <2>6, MuteStays
  <1> QED BY <1>3, <1>4, <1>5 DEF Touch

(* A pinch marks only contacts that its recognizer observes already.        *)
LEMMA MutePinch ==
  ASSUME MInv, NEW i, Fires(i), PinchPass(i)
  PROVE  MuteOK' /\ blocks' \in Nat
  <1>1. /\ Rank(i.op) # 0 /\ Alike /\ track' = track
        /\ i.op = "pinchPass" /\ i.s \in DOMAIN recs /\ UNCHANGED <<world, app, track, live, heard, pinched>>
    BY Ranks DEF PinchPass, app, Alike
  <1>2. PICK r : r = recs[i.s]
    OBVIOUS
  <1>3. PICK next : next = Do("pinchPass", i.s - 1, None)
    OBVIOUS
  <1>4. CASE PinchStart(i, r, next)
    <2>1. PICK P : P = Pair(r)
      OBVIOUS
    <2>2. PICK a : Paired(i, r, P, a)
      BY <1>1, <1>2, <1>3, <1>4, <2>1, PinchStartFrame DEF MInv
    <2>3. \A q \in Recognizers, t \in Slots :
            flags'[q][t] = flags[q][t] \cup (IF q = r /\ t \in P THEN {"tapDead"} ELSE {})
      BY <2>2 DEF Paired
    <2>4. \A q \in Recognizers, t \in Slots : Heeds(q, t)' => Heeds(q, t)
      BY <1>1, <2>3 DEF Heeds, Observes
    <2> QED BY <1>1, <2>4, MuteStays, RecsKnown DEF MInv
  <1>5. CASE flags' = flags
    <2>1. \A q \in ToSet(recs) \ Exempt, t \in Slots : Heeds(q, t)' => Heeds(q, t)
      BY <1>1, <1>5 DEF Heeds, Observes
    <2> QED BY <1>1, <2>1, MuteStays
  <1> QED BY <1>2, <1>3, <1>4, <1>5 DEF PinchPass, PinchWatch

LEMMA MuteCancel ==
  ASSUME MInv, NEW i, Fires(i), Cancel(i) \/ EndPinch(i)
  PROVE  MuteOK' /\ blocks' \in Nat
  <1>1. i.op \in {"cancel", "endPinch"} /\ Alike
    BY DEF Cancel, EndPinch, app, history, Alike
  <1>2. /\ track \in [Slots -> Tracks] /\ flags \in [Recognizers -> [Slots -> SUBSET Flags]]
        /\ i.r \in Recognizers /\ (i.op = "cancel" => i.s \in Slots) /\ i.s \in Nat
    BY <1>1, ItemFacts DEF MInv, GInv, TypeOK, SlotOps, RecOps
  <1>3. ToSet(recs) \subseteq Recognizers
    BY RecsKnown DEF MInv
  <1>4. "endPinch" \in Ops /\ "onCancel" \in Ops /\ "onPinchEnd" \in Ops /\ i.r \in Recognizers \cup {None}
    BY <1>2 DEF Ops, Callbacks
  <1>5. CASE Cancel(i)
    <2>1. PICK x : x = Do("endPinch", i.s, i.r)
      OBVIOUS
    <2>2. PICK y : y = Do("onCancel", i.s, i.r)
      OBVIOUS
    <2>3. x \in Item /\ y \in Item
      BY <1>2, <1>4, <2>1, <2>2, Parts, Zenon
    <2>4. PICK a : a = <<x, y>>
      OBVIOUS
    <2>5. a \in Seq(Item)
      BY <2>3, <2>4
    <2>6. todo' = a \o i.rest
      BY <1>5, <2>1, <2>2, <2>4 DEF Cancel, Then
    <2>7. i.s \in Slots /\ i.op = "cancel"
      BY <1>2, <1>5 DEF Cancel
    <2>8. \A t \in Slots : track'[t].used = track[t].used
      <3>1. PICK v : v = [track[i.s] EXCEPT !.claimed = IF @ = i.r THEN None ELSE @]
        OBVIOUS
      <3>2. v.used = track[i.s].used
        <4>1. track[i.s] \in Tracks
          BY <1>2, <2>7
        <4> QED BY <3>1, <4>1 DEF Tracks
      <3>3. track' = [track EXCEPT ![i.s] = v]
        BY <1>2, <1>5, <2>7, <3>1 DEF Cancel
      <3> QED BY <1>2, <2>7, <3>2, <3>3
    <2>9. \A r \in Recognizers, t \in Slots :
            flags'[r][t] = IF r = i.r /\ t = i.s THEN {} ELSE flags[r][t]
      <3>1. flags' = [flags EXCEPT ![i.r][i.s] = {}]
        BY <1>5 DEF Cancel
      <3>2. flags[i.r] \in [Slots -> SUBSET Flags]
        BY <1>2
      <3> QED BY <1>2, <2>7, <3>1, <3>2
    <2>10. \A r \in ToSet(recs) \ Exempt, t \in Slots :
             Heeds(r, t)' => Heeds(r, t) /\ (i.op # "cancel" \/ i.s # t \/ i.r # r)
      BY <1>3, <2>8, <2>9 DEF Heeds, Observes
    <2>11. KeptBut(i)
      BY <2>5, <2>6, RestKept
    <2> QED BY <1>1, <2>7, <2>10, <2>11, MuteKept
  <1>6. CASE EndPinch(i)
    <2>1. PICK x : x = Do("onPinchEnd", i.s, i.r)
      OBVIOUS
    <2>2. x \in Item
      BY <1>2, <1>4, <2>1, Parts, Zenon
    <2>3. PICK a : a = <<x>>
      OBVIOUS
    <2>4. a \in Seq(Item)
      BY <2>2, <2>3
    <2>5. todo' = a \o i.rest
      BY <1>6, <2>1, <2>3 DEF EndPinch, Then
    <2>6. flags' = flags /\ track' = track /\ i.op = "endPinch"
      BY <1>6 DEF EndPinch
    <2>7. KeptBut(i)
      BY <2>4, <2>5, RestKept
    <2>8. \A r \in ToSet(recs) \ Exempt, t \in Slots :
            Heeds(r, t)' => Heeds(r, t) /\ (i.op # "cancel" \/ i.s # t \/ i.r # r)
      BY <2>6 DEF Heeds, Observes
    <2> QED BY <1>1, <2>6, <2>7, <2>8, MuteKept
  <1> QED BY <1>5, <1>6

(* A callback, and its return, change nothing but what was told.            *)
LEMMA MuteCallback ==
  ASSUME MInv, NEW i, Fires(i), Callback(i) \/ Return(i)
  PROVE  MuteOK' /\ blocks' \in Nat
  <1>1. Alike /\ track' = track /\ flags' = flags /\ i.op \in Callbacks \cup {"app"}
    BY DEF Callback, Return, app, history, Alike
  <1>2. i.op \notin {"block", "cancel"}
    BY <1>1 DEF Callbacks
  <1>3. PICK a : /\ a = <<Do("app", 0, None)>> \/ a = <<>>
                 /\ todo' = a \o i.rest
    BY DEF Callback, Return, Then
  <1>4. a \in Seq(Item)
    BY <1>3, AppItem
  <1>5. KeptBut(i)
    BY <1>3, <1>4, RestKept
  <1>6. \A r \in ToSet(recs) \ Exempt, t \in Slots :
          Heeds(r, t)' => Heeds(r, t) /\ (i.op # "cancel" \/ i.s # t \/ i.r # r)
    BY <1>1, <1>2 DEF Heeds, Observes
  <1> QED BY <1>1, <1>2, <1>5, <1>6, MuteKept

(* What stays of a list stands where it stood, or one place before.         *)
LEMMA OmitPlace ==
  ASSUME NEW S, NEW s \in Seq(S), IsInjective(s), NEW q, NEW j \in DOMAIN s, s[j] # q
  PROVE  \E k \in DOMAIN Omit(s, {q}) :
           /\ Omit(s, {q})[k] = s[j] /\ k >= j - 1
           /\ (\A m \in 1 .. (j - 1) : s[m] # q) => k >= j
  <1>1. PICK kept : Omit(s, {q}) = kept[Len(s)] /\ Keeps(s, {q}, kept)
    <2>1. Omit(s, {q}) = (CHOOSE h : Keeps(s, {q}, h))[Len(s)]
      BY DEF Omit, Keeps
    <2> QED BY <2>1, KeepsExists
  <1>2. /\ kept[0] = <<>>
        /\ \A i \in 1 .. Len(s) : kept[i] = IF s[i] = q THEN kept[i - 1] ELSE Append(kept[i - 1], s[i])
    <2>1. \A x : x \in {q} <=> x = q
      OBVIOUS
    <2> QED BY <1>1, <2>1, KeepsEquation
  <1> DEFINE Clean(i) == \A m \in 1 .. i : s[m] # q
             Placed(i, n) == \E k \in 1 .. Len(kept[i]) :
                               kept[i][k] = s[n] /\ k >= n - 1 /\ (Clean(n - 1) => k >= n)
             Right(i) == /\ kept[i] \in Seq(S)
                         /\ Len(kept[i]) >= i - 1 /\ (Clean(i) => Len(kept[i]) >= i)
                         /\ \A n \in 1 .. i : s[n] # q => Placed(i, n)
             Wrong == {i \in 0 .. Len(s) : ~Right(i)}
  <1>3. Right(0)
    BY <1>2
  <1>4. ASSUME NEW i \in 1 .. Len(s), Right(i - 1) PROVE Right(i)
    <2>1. PICK t : t = kept[i - 1]
      OBVIOUS
    <2>2. /\ t \in Seq(S) /\ Len(t) >= (i - 1) - 1 /\ (Clean(i - 1) => Len(t) >= i - 1)
          /\ \A n \in 1 .. (i - 1) : s[n] # q =>
               \E k \in 1 .. Len(t) : t[k] = s[n] /\ k >= n - 1 /\ (Clean(n - 1) => k >= n)
      BY <1>4, <2>1
    <2>3. i \in Nat /\ s[i] \in S /\ i - 1 \in Nat /\ Len(t) \in Nat
      BY <2>2
    <2>4. CASE s[i] = q
      <3>1. kept[i] = t
        BY <1>2, <2>1, <2>4
      <3>2. Clean(i - 1)
        BY <2>4 DEF IsInjective
      <3>3. ~Clean(i)
        BY <2>3, <2>4
      <3>4. \A n \in 1 .. i : s[n] # q => n \in 1 .. (i - 1)
        BY <2>3, <2>4
      <3> HIDE DEF Clean
      <3> QED BY <2>2, <3>1, <3>2, <3>3, <3>4
    <2>5. CASE s[i] # q
      <3>1. PICK u : u = Append(t, s[i])
        OBVIOUS
      <3>2. /\ u \in Seq(S) /\ Len(u) = Len(t) + 1 /\ u[Len(u)] = s[i]
            /\ \A k \in 1 .. Len(t) : k \in 1 .. Len(u) /\ u[k] = t[k]
        BY <2>2, <2>3, <3>1
      <3>3. kept[i] = u
        BY <1>2, <2>1, <2>5, <3>1
      <3>4. Clean(i) => Clean(i - 1)
        BY <2>3
      <3>5. Len(u) >= i - 1 /\ (Clean(i - 1) => Len(u) >= i)
        <4> HIDE DEF Clean
        <4> QED BY <2>2, <2>3, <3>2
      <3>6. ASSUME NEW n \in 1 .. i, s[n] # q
            PROVE  \E k \in 1 .. Len(u) : u[k] = s[n] /\ k >= n - 1 /\ (Clean(n - 1) => k >= n)
        <4> HIDE DEF Clean
        <4>1. CASE n = i
          <5>1. Len(u) \in 1 .. Len(u)
            BY <2>3, <3>2
          <5> QED BY <3>2, <3>5, <4>1, <5>1
        <4>2. CASE n # i
          <5>1. n \in 1 .. (i - 1)
            BY <2>3, <4>2
          <5> QED BY <2>2, <3>2, <3>6, <5>1
        <4> QED BY <4>1, <4>2
      <3> HIDE DEF Clean
      <3> QED BY <3>2, <3>3, <3>4, <3>5, <3>6
    <2> QED BY <2>4, <2>5
  <1>5. Right(Len(s))
    <2>1. SUFFICES ASSUME Wrong # {} PROVE FALSE
      <3>1. Len(s) \in 0 .. Len(s)
        OBVIOUS
      <3> HIDE DEF Right
      <3> QED BY <3>1
    <2>2. PICK m \in Wrong : \A i \in Wrong : m <= i
      <3>1. Wrong \in SUBSET Nat
        OBVIOUS
      <3> HIDE DEF Wrong
      <3> QED BY <2>1, <3>1, LeastNumber
    <2> HIDE DEF Right
    <2>3. m \in 1 .. Len(s) /\ m - 1 \in 0 .. Len(s) /\ m - 1 \notin Wrong
      <3>1. m # 0
        BY <1>3, <2>2
      <3>2. m \in 0 .. Len(s)
        OBVIOUS
      <3> HIDE DEF Wrong
      <3> QED BY <2>2, <3>1, <3>2
    <2> QED BY <1>4, <2>2, <2>3
  <1>6. j \in 1 .. Len(s) /\ DOMAIN kept[Len(s)] = 1 .. Len(kept[Len(s)])
    BY <1>5
  <1> QED BY <1>1, <1>5, <1>6

(* A recognizer that goes lets the ones behind it move up by one, and a     *)
(* block misses at most the one that comes to stand where it has been.      *)
LEMMA MuteUnregister ==
  ASSUME MInv, NEW i, Fires(i), Unregister(i)
  PROVE  MuteOK' /\ blocks' \in Nat
  <1>1. /\ i.op = "unregister" /\ blocks' = blocks /\ track' = track /\ flags' = flags
        /\ todo' = <<>> \o i.rest /\ recs' = Omit(recs, {i.r}) /\ missed' = missed \cup Slipped(i.r)
    BY DEF Unregister, Then
  <1>2. <<>> \in Seq(Item)
    BY AppItem
  <1>3. KeptBut(i)
    BY <1>1, <1>2, RestKept
  <1>4. recs \in Seq(Recognizers) /\ IsInjective(recs)
    BY RecsKnown DEF MInv
  <1>5. PICK o : o = Omit(recs, {i.r})
    OBVIOUS
  <1>6. recs' = o /\ ToSet(o) = ToSet(recs) \ {i.r}
    BY <1>1, <1>4, <1>5, OmitFacts
  <1>7. ASSUME blocks > 0, NEW r \in Bound', NEW s \in Slots, Heeds(r, s)
        PROVE  Has("cancel", s, r)' \/ Ahead(r)'
    <2>1. r \in ToSet(recs) /\ r # i.r /\ r \notin Exempt /\ r \notin missed /\ r \notin Slipped(i.r)
      BY <1>1, <1>6, <1>7 DEF Bound
    <2>2. CASE Has("cancel", s, r)
      <3>1. Due(Do("cancel", s, r))
        BY <1>7, Dues DEF Heeds
      <3> QED BY <1>1, <1>3, <2>2, <3>1, HasKept
    <2>3. ASSUME NEW x \in Work, x.op = "block", NEW j \in DOMAIN recs, j >= x.s, recs[j] = r
          PROVE  Ahead(r)'
      <3>1. x \in Work'
        <4>1. Due(x) /\ x # Do(i.op, i.s, i.r)
          BY <1>1, <2>3, Parts DEF Due
        <4> QED BY <1>3, <4>1 DEF KeptBut
      <3>2. x = Do("block", x.s, None) /\ x.s \in Nat
        <4>1. x \in Item
          BY DEF MInv, GInv, WorkOK, Work, ToSet
        <4>2. x.r = None
          BY <2>3 DEF MInv, GInv, WorkOK, Typed, RecOps, Callbacks
        <4> QED BY <2>3, <4>1, <4>2, Parts
      <3>3. PICK k \in DOMAIN o : /\ o[k] = r /\ k >= j - 1
                                  /\ (\A m \in 1 .. (j - 1) : recs[m] # i.r) => k >= j
        BY <1>4, <1>5, <2>1, <2>3, OmitPlace
      <3>4. j \in Nat /\ k \in Nat
        <4>1. o \in Seq(Recognizers)
          BY <1>4, <1>5, OmitFacts
        <4> QED BY <1>4, <4>1
      <3>5. j = x.s => \A m \in 1 .. (j - 1) : recs[m] # i.r
        <4> SUFFICES ASSUME j = x.s, NEW m \in 1 .. (j - 1), recs[m] = i.r PROVE FALSE
          OBVIOUS
        <4>1. PICK u : u = SubSeq(recs, 1, j - 1)
          OBVIOUS
        <4>2. m \in DOMAIN u /\ u[m] = i.r
          BY <1>4, <2>3, <4>1
        <4>3. i.r \in ToSet(u)
          BY <4>2 DEF ToSet
        <4>4. Do("block", j, None) \in ToSet(todo)
          BY <3>2 DEF Work
        <4>5. r \in Slipped(i.r)
          BY <2>3, <4>1, <4>3, <4>4 DEF Slipped
        <4> QED BY <2>1, <4>5
      <3>6. k >= x.s
        BY <2>3, <3>2, <3>3, <3>4, <3>5
      <3> QED BY <1>6, <2>3, <3>1, <3>3, <3>6 DEF Ahead
    <2> QED BY <1>7, <2>1, <2>2, <2>3 DEF MInv, MuteOK, Bound, Ahead
  <1>8. \A r, s : Heeds(r, s)' <=> Heeds(r, s)
    BY <1>1 DEF Heeds, Observes
  <1> QED BY <1>1, <1>7, <1>8 DEF MuteOK, MInv

(* A block cancels a recognizer and goes on to the next.                    *)
LEMMA MuteBlock ==
  ASSUME MInv, NEW i, Fires(i), Block(i)
  PROVE  MuteOK' /\ blocks' \in Nat
  <1>1. /\ i.op = "block" /\ Alike /\ track' = track /\ flags' = flags
        /\ todo' = (IF i.s > Len(recs) THEN <<>>
                    ELSE (IF recs[i.s] \in Exempt THEN <<>> ELSE OnSlots("cancel", recs[i.s]))
                           \o <<Do("block", i.s + 1, None)>>) \o i.rest
    BY DEF Block, Then, app, history, Alike
  <1>2. i.s \in Nat /\ i.s # 0 /\ recs \in Seq(Recognizers)
    BY <1>1, ItemFacts, RecsKnown DEF MInv
  <1>3. PICK a \in Seq(Item) :
          /\ todo' = a \o i.rest
          /\ i.s \in DOMAIN recs => /\ Do("block", i.s + 1, None) \in ToSet(a)
                                    /\ recs[i.s] \in Exempt \/ \A s \in Slots : Do("cancel", s, recs[i.s]) \in ToSet(a)
    <2>1. CASE i.s > Len(recs)
      <3>1. todo' = <<>> \o i.rest
        BY <1>1, <2>1
      <3>2. i.s \notin DOMAIN recs
        BY <1>2, <2>1
      <3>3. <<>> \in Seq(Item)
        BY AppItem
      <3> QED BY <3>1, <3>2, <3>3
    <2>2. CASE ~(i.s > Len(recs))
      <3>1. PICK q : q = recs[i.s]
        OBVIOUS
      <3>2. q \in Recognizers
        BY <1>2, <2>2, <3>1
      <3>3. PICK d : d = IF q \in Exempt THEN <<>> ELSE OnSlots("cancel", q)
        OBVIOUS
      <3>4. d \in Seq(Item) /\ (q \in Exempt \/ \A s \in Slots : Do("cancel", s, q) \in ToSet(d))
        <4>1. "cancel" \in Ops /\ q \in Recognizers \cup {None}
          BY <3>2 DEF Ops
        <4>2. OnSlots("cancel", q) \in Seq(Item) /\ ToSet(OnSlots("cancel", q)) = {Do("cancel", s, q) : s \in Slots}
          BY <4>1, OnSlotsFacts
        <4> QED BY <3>3, <4>2, AppItem
      <3>5. PICK x : x = Do("block", i.s + 1, None)
        OBVIOUS
      <3>6. x \in Item
        <4>1. "block" \in Ops /\ None \in Recognizers \cup {None}
          BY DEF Ops
        <4>2. i.s + 1 \in Nat
          BY <1>2
        <4> QED BY <3>5, <4>1, <4>2, Parts, Zenon
      <3>7. PICK e : e = <<x>>
        OBVIOUS
      <3>8. e \in Seq(Item) /\ ToSet(e) = {x}
        BY <3>6, <3>7, OneItem
      <3>9. PICK f : f = d \o e
        OBVIOUS
      <3>10. f \in Seq(Item) /\ ToSet(f) = ToSet(d) \cup ToSet(e)
        BY <3>4, <3>8, <3>9, JoinSets
      <3>11. todo' = f \o i.rest
        BY <1>1, <2>2, <3>1, <3>3, <3>5, <3>7, <3>9
      <3>12. x \in ToSet(f) /\ (q \in Exempt \/ \A s \in Slots : Do("cancel", s, q) \in ToSet(f))
        BY <3>4, <3>8, <3>10
      <3> QED BY <3>1, <3>5, <3>10, <3>11, <3>12
    <2> QED BY <2>1, <2>2
  <1>4. KeptBut(i) /\ ToSet(a) \subseteq Work'
    BY <1>3, RestKept
  <1>5. ASSUME blocks > 0, NEW r \in Bound, NEW s \in Slots, Heeds(r, s)
        PROVE  Has("cancel", s, r)' \/ Ahead(r)'
    <2>1. CASE Has("cancel", s, r)
      <3>1. Due(Do("cancel", s, r))
        BY <1>5, Dues DEF Heeds
      <3> QED BY <1>1, <1>4, <2>1, <3>1, HasKept
    <2>2. ASSUME NEW x \in Work, x.op = "block", NEW j \in DOMAIN recs, j >= x.s, recs[j] = r
          PROVE  Has("cancel", s, r)' \/ Ahead(r)'
      <3>1. CASE x # Do(i.op, i.s, i.r)
        <4>1. x \in Work'
          BY <1>4, <2>2, <3>1 DEF KeptBut, Due
        <4> QED BY <1>1, <2>2, <4>1 DEF Ahead, Alike
      <3>2. CASE x = Do(i.op, i.s, i.r)
        <4>1. x.s = i.s /\ j \in Nat /\ j \in 1 .. Len(recs) /\ i.s \in DOMAIN recs
          BY <1>2, <2>2, <3>2, Parts
        <4>2. CASE j = i.s
          <5>1. recs[i.s] \notin Exempt
            BY <1>5, <2>2, <4>2 DEF Bound
          <5> QED BY <1>3, <1>4, <2>2, <4>1, <4>2, <5>1 DEF Has
        <4>3. CASE j # i.s
          <5>1. PICK y : y = Do("block", i.s + 1, None)
            OBVIOUS
          <5>2. y \in Work' /\ y.op = "block" /\ y.s = i.s + 1
            BY <1>3, <1>4, <4>1, <5>1, Parts
          <5>3. j >= y.s
            BY <1>2, <2>2, <4>1, <4>3, <5>2
          <5> QED BY <1>1, <2>2, <5>2, <5>3 DEF Ahead, Alike
        <4> QED BY <4>2, <4>3
      <3> QED BY <3>1, <3>2
    <2> QED BY <1>5, <2>1, <2>2 DEF MInv, MuteOK, Ahead
  <1>6. /\ \A r, s : Heeds(r, s)' <=> Heeds(r, s)
        /\ Bound' = Bound
    BY <1>1 DEF Heeds, Observes, Bound, Alike
  <1> QED BY <1>1, <1>5, <1>6 DEF MuteOK, MInv, Alike

(* The calls that do not unmount.  A block that is pushed still has every   *)
(* recognizer to cancel, a new one has heard of nothing.                    *)
LEMMA MuteFronts ==
  ASSUME GInv, NEW b \in Seq(Item),
         \/ Attach(b) \/ Unblock(b) \/ \E r \in ToSet(recs) : HandleCancel(r, b) \/ Dispose(r, b)
  PROVE  ToSet(b) \subseteq Work'
  <1>1. CASE Attach(b) \/ Unblock(b)
    BY <1>1 DEF Attach, Unblock, Work
  <1>2. ASSUME NEW r \in ToSet(recs), HandleCancel(r, b) \/ Dispose(r, b)
        PROVE  ToSet(b) \subseteq Work'
    <2>1. r \in Recognizers
      BY RecsKnown
    <2>2. "cancel" \in Ops /\ r \in Recognizers \cup {None}
      BY <2>1 DEF Ops
    <2>3. PICK a \in Seq(Item) : todo' = a \o b
      BY <1>2, <2>1, <2>2, OnSlotsFacts, DisposalFacts DEF HandleCancel, Dispose
    <2>4. PICK c : c = a \o b
      OBVIOUS
    <2>5. ToSet(c) = ToSet(a) \cup ToSet(b)
      BY <2>4, JoinSets
    <2> QED BY <2>3, <2>4, <2>5 DEF Work
  <1> QED BY <1>1, <1>2

LEMMA MuteCall ==
  ASSUME MInv, NEW b \in Seq(Item),
         \A y \in Work : Due(y) /\ y.op \in {"cancel", "block"} => y \in ToSet(b),
         \/ Attach(b) \/ PushTouchBlock(b) \/ Unblock(b)
         \/ \E r \in ToSet(recs) : HandleCancel(r, b) \/ Dispose(r, b),
         track' = track, flags' = flags
  PROVE  MuteOK' /\ blocks' \in Nat
  <1>1. blocks \in Nat /\ recs \in Seq(Recognizers)
    BY RecsKnown DEF MInv
  <1>2. \A r, s : Heeds(r, s)' <=> Heeds(r, s)
    BY DEF Heeds, Observes
  <1>3. CASE PushTouchBlock(b)
    <2>1. PICK x : x = Do("block", 1, None)
      OBVIOUS
    <2>2. x \in Item /\ x.op = "block" /\ x.s = 1
      <3>1. "block" \in Ops /\ None \in Recognizers \cup {None} /\ 1 \in Nat
        BY DEF Ops
      <3>2. x \in Item
        BY <2>1, <3>1, Parts, Zenon
      <3> QED BY <2>1, <3>2, Parts
    <2>3. PICK e : e = <<x>>
      OBVIOUS
    <2>4. e \in Seq(Item) /\ ToSet(e) = {x}
      BY <2>2, <2>3, OneItem
    <2>5. PICK c : c = e \o b
      OBVIOUS
    <2>6. todo' = c /\ blocks' = blocks + 1 /\ recs' = recs
      BY <1>3, <2>1, <2>3, <2>5 DEF PushTouchBlock
    <2>7. x \in Work'
      <3>1. ToSet(c) = ToSet(e) \cup ToSet(b)
        BY <2>4, <2>5, JoinSets
      <3> QED BY <2>4, <2>6, <3>1 DEF Work
    <2>8. \A r \in ToSet(recs) : Ahead(r)'
      <3> SUFFICES ASSUME NEW r \in ToSet(recs) PROVE Ahead(r)'
        OBVIOUS
      <3>1. PICK j \in DOMAIN recs : recs[j] = r
        BY DEF ToSet
      <3>2. j >= 1
        BY <1>1
      <3> QED BY <2>2, <2>6, <2>7, <3>1, <3>2 DEF Ahead
    <2> QED BY <1>1, <2>6, <2>8 DEF MuteOK, Bound
  <1>4. CASE \/ Attach(b) \/ Unblock(b)
             \/ \E r \in ToSet(recs) : HandleCancel(r, b) \/ Dispose(r, b)
    <2>1. ToSet(b) \subseteq Work'
      BY <1>4, MuteFronts DEF MInv
    <2>2. blocks' \in Nat /\ (blocks' > 0 => blocks > 0) /\ missed' = missed
      BY <1>1, <1>4 DEF Attach, Unblock, HandleCancel, Dispose
    <2>3. /\ \A r \in ToSet(recs'), s \in Slots : Observes(r, s) => r \in ToSet(recs)
          /\ \A j \in DOMAIN recs : j \in DOMAIN recs' /\ recs'[j] = recs[j]
      <3>1. CASE Attach(b)
        <4> DEFINE n == mounted + 1
        <4>1. recs' = Append(recs, n) /\ n \in Recognizers /\ n > mounted
          <5>1. mounted \in 0 .. MaxRecognizers
            BY DEF MInv, GInv, TypeOK
          <5> QED BY <3>1, <5>1, GesturesAssumption DEF Attach, Recognizers
        <4> HIDE DEF n
        <4>2. PICK t : t = Append(recs, n)
          OBVIOUS
        <4>3. ToSet(t) = ToSet(recs) \cup {n}
          BY <1>1, <4>1, <4>2, MembersAppend
        <4>4. \A j \in DOMAIN recs : j \in DOMAIN t /\ t[j] = recs[j]
          BY <1>1, <4>1, <4>2
        <4>5. \A s \in Slots : ~Observes(n, s)
          BY <4>1 DEF MInv, GInv, FlagsOK, Observes
        <4>6. recs' = t
          BY <4>1, <4>2
        <4> QED BY <4>3, <4>4, <4>5, <4>6
      <3>2. CASE ~Attach(b)
        BY <1>4, <3>2 DEF Unblock, HandleCancel, Dispose
      <3> QED BY <3>1, <3>2
    <2>4. ASSUME blocks' > 0, NEW r \in Bound', NEW s \in Slots, Heeds(r, s)
          PROVE  Has("cancel", s, r)' \/ Ahead(r)'
      <3>1. r \in Bound /\ blocks > 0
        BY <2>2, <2>3, <2>4 DEF Bound, Heeds
      <3>2. CASE Has("cancel", s, r)
        <4>1. Due(Do("cancel", s, r)) /\ Do("cancel", s, r).op = "cancel"
          BY <2>4, Dues, Parts DEF Heeds
        <4> QED BY <2>1, <3>2, <4>1 DEF Has
      <3>3. ASSUME NEW x \in Work, x.op = "block", NEW j \in DOMAIN recs, j >= x.s, recs[j] = r
            PROVE  Ahead(r)'
        <4>1. x \in Work'
          BY <2>1, <3>3 DEF Due
        <4> QED BY <2>3, <3>3, <4>1 DEF Ahead
      <3> QED BY <2>4, <3>1, <3>2, <3>3 DEF MInv, MuteOK, Ahead
    <2> QED BY <1>2, <2>2, <2>4 DEF MuteOK
  <1> QED BY <1>3, <1>4

(* The calls inside a callback and between frames.                          *)
LEMMA MuteInside ==
  ASSUME MInv, StaysMounted, NEW i, Fires(i), Inside(i)
  PROVE  MuteOK' /\ blocks' \in Nat
  <1>1. PICK d : d = i.rest
    OBVIOUS
  <1>2. PICK a : a = <<Do("app", 0, None)>>
    OBVIOUS
  <1>3. PICK b : b = a \o d
    OBVIOUS
  <1>4. i.op = "app" /\ AppCall(b) /\ d \in Seq(Item)
    BY <1>1, <1>2, <1>3 DEF Inside, Fires
  <1>5. a \in Seq(Item) /\ ToSet(a) = {Do("app", 0, None)}
    BY <1>2, AppItem
  <1>6. b \in Seq(Item) /\ ToSet(b) = ToSet(a) \cup ToSet(d)
    BY <1>3, <1>4, <1>5, JoinSets
  <1>7. \A y \in Work : Due(y) /\ y.op \in {"cancel", "block"} => y \in ToSet(b)
    BY <1>1, <1>4, <1>6, Parts DEF Fires
  <1>8. b # <<>>
    BY <1>5, <1>6 DEF ToSet
  <1>9. /\ \/ Attach(b) \/ PushTouchBlock(b) \/ Unblock(b)
           \/ \E r \in ToSet(recs) : HandleCancel(r, b) \/ Dispose(r, b)
        /\ track' = track /\ flags' = flags
    BY <1>4, <1>8 DEF AppCall, StaysMounted
  <1> QED BY <1>6, <1>7, <1>9, MuteCall

LEMMA MuteOutside ==
  ASSUME MInv, Outside
  PROVE  MuteOK' /\ blocks' \in Nat
  <1>1. Idle /\ AppCall(<<>>)
    BY DEF Outside
  <1>2. \A y \in Work : ~Due(y)
    BY <1>1, IdleFacts DEF MInv
  <1>3. CASE Unmount(<<>>)
    BY <1>3 DEF Unmount, Reset, MuteOK
  <1>4. CASE /\ \/ Attach(<<>>) \/ PushTouchBlock(<<>>) \/ Unblock(<<>>)
                \/ \E r \in ToSet(recs) : HandleCancel(r, <<>>) \/ Dispose(r, <<>>)
             /\ UNCHANGED <<track, live, heard>>
    <2>1. PICK b : b = <<>>
      OBVIOUS
    <2>2. b \in Seq(Item)
      BY <2>1, AppItem
    <2>3. /\ \/ Attach(b) \/ PushTouchBlock(b) \/ Unblock(b)
             \/ \E r \in ToSet(recs) : HandleCancel(r, b) \/ Dispose(r, b)
          /\ track' = track /\ flags' = flags
      BY <1>1, <1>4, <2>1 DEF AppCall
    <2> QED BY <1>2, <2>2, <2>3, MuteCall
  <1> QED BY <1>1, <1>3, <1>4 DEF AppCall

(* A frame finds everything muted.                                          *)
LEMMA MuteIdle ==
  ASSUME MInv, Idle, blocks > 0, NEW r \in Bound, NEW s \in Slots
  PROVE  ~Heeds(r, s)
  <1>1. \A y \in Work : ~Due(y)
    BY IdleFacts DEF MInv
  <1>2. ~Ahead(r)
    BY <1>1 DEF Ahead, Due
  <1>3. Has("cancel", s, r) => ~Heeds(r, s)
    BY <1>1, Dues DEF Has, Heeds
  <1> QED BY <1>2, <1>3 DEF MInv, MuteOK

LEMMA MuteFrame ==
  ASSUME MInv, Frame
  PROVE  MuteOK' /\ blocks' \in Nat
  <1>1. Idle /\ blocks' = blocks /\ recs' = recs /\ track' = track /\ flags' = flags /\ missed' = missed
    BY DEF Frame, app, history
  <1>2. \A r \in Bound, s \in Slots : blocks > 0 => ~Heeds(r, s)
    BY <1>1, MuteIdle
  <1>3. Bound' = Bound /\ \A r, s : Heeds(r, s)' <=> Heeds(r, s)
    BY <1>1 DEF Bound, Heeds, Observes
  <1> QED BY <1>1, <1>2, <1>3 DEF MuteOK, MInv

(* The turns, action by action.                                             *)
LEMMA MutePump ==
  ASSUME MInv, StaysMounted, NEW i, Fires(i), Pump(i)
  PROVE  MuteOK' /\ blocks' \in Nat
  <1>1. CASE Inside(i) \/ Return(i) \/ Callback(i)
    BY <1>1, MuteInside, MuteCallback
  <1>2. CASE Mount(i)
    BY <1>2 DEF Mount, Reset, MuteOK
  <1>3. CASE Unregister(i) \/ Block(i) \/ Cancel(i) \/ EndPinch(i) \/ Claim(i)
    BY <1>3, MuteUnregister, MuteBlock, MuteCancel, MuteQuiet
  <1>4. CASE Retire(i) \/ Release(i) \/ Touch(i)
    BY <1>4, MuteQuiet, MuteRelease, MuteTouch
  <1>5. CASE RecognizePinches(i) \/ PinchPass(i) \/ PinchBounds(i)
    BY <1>5, MuteQuiet, MutePinch
  <1>6. CASE Recognize(i) \/ Move(i) \/ Slop(i) \/ LongPress(i) \/ PanStart(i) \/ NoWinner(i)
    BY <1>6, MuteQuiet, MuteFlags
  <1>7. CASE PanMove(i) \/ Up(i) \/ Tap(i)
    BY <1>7, MuteQuiet
  <1> QED BY <1>1, <1>2, <1>3, <1>4, <1>5, <1>6, <1>7 DEF Pump

LEMMA MuteStep ==
  ASSUME MInv, StaysMounted, [Next]_vars
  PROVE  MInv'
  <1>1. GInv'
    BY StepKeeps DEF MInv
  <1>2. MuteOK' /\ blocks' \in Nat
    <2>1. CASE Frame
      BY <2>1, MuteFrame
    <2>2. CASE Outside
      BY <2>2, MuteOutside
    <2>3. ASSUME NEW i \in Turn, Pump(i) PROVE MuteOK' /\ blocks' \in Nat
      <3>1. Fires(i)
        BY Fired DEF MInv, GInv
      <3> QED BY <2>3, <3>1, MutePump
    <2>4. CASE UNCHANGED vars
      <3>1. Alike /\ track' = track /\ flags' = flags /\ todo' = todo
        BY <2>4 DEF vars, app, history, Alike
      <3> QED BY <3>1 DEF MInv, MuteOK, Bound, Ahead, Heeds, Observes, Has, Work, Alike
    <2> QED BY <2>1, <2>2, <2>3, <2>4 DEF Next
  <1> QED BY <1>1, <1>2 DEF MInv

-----------------------------------------------------------------------------
(* While blocks are held, whoever still has a contact is about to be        *)
(* cancelled, but for whom the last block passed over.                      *)
THEOREM MutedInductive == StaysMounted /\ Spec => []MInv
  <1> SUFFICES ASSUME StaysMounted PROVE Spec => []MInv
    OBVIOUS
  <1>1. Init => MInv
    <2> SUFFICES ASSUME Init PROVE MInv
      OBVIOUS
    <2>1. GInv
      BY InitHolds
    <2>2. blocks \in Nat /\ track = [s \in Slots |-> Free]
      BY GesturesAssumption DEF Init
    <2>3. PICK f : f = Free
      OBVIOUS
    <2>4. \A s \in Slots : ~track[s].used
      <3>1. ~f.used /\ track = [s \in Slots |-> f]
        BY <2>2, <2>3 DEF Free
      <3> QED BY <3>1
    <2> QED BY <2>1, <2>2, <2>4 DEF MInv, MuteOK, Heeds
  <1>2. MInv /\ [Next]_vars => MInv'
    BY MuteStep
  <1> QED BY <1>1, <1>2, PTL DEF Spec

(* While a touch block is held, no recognizer without allowWhenBlocked has  *)
(* a contact, but for whom a dispose made the last block pass over; where   *)
(* it passed over nobody, none has.                                         *)
MutesAllButMissed ==
  Idle /\ blocks > 0 =>
    \A r \in ToSet(recs) \ (Exempt \cup missed), s \in Slots : track[s].used => ~Observes(r, s)

THEOREM BlocksMute ==
  StaysMounted /\ Spec => []MutesAllButMissed /\ [](missed = {} => ModalMutes)
  <1>1. MInv => MutesAllButMissed
    BY MuteIdle DEF MutesAllButMissed, Bound, Heeds
  <1>2. MutesAllButMissed => (missed = {} => ModalMutes)
    BY DEF MutesAllButMissed, ModalMutes
  <1> QED BY <1>1, <1>2, MutedInductive, PTL
=============================================================================
