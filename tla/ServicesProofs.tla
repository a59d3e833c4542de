--------------------------- MODULE ServicesProofs ---------------------------
(* AnsweredOnce and BusyIsAsked hold of Services for all its limits: they   *)
(* follow from IInv, which every step keeps.                                *)
EXTENDS ServicesProperties, FiniteSetTheorems, WellFoundedInduction, TLAPS

(* A set of numbers that is not empty has its least element in it. *)
LEMMA MinIn ==
  ASSUME NEW S \in SUBSET Nat, S # {}
  PROVE  Min(S) \in S /\ \A y \in S : Min(S) <= y
  <1>1. PICK x \in S : \A y \in S : ~(<<y, x>> \in OpToRel(<, Nat))
    BY WFMin, NatLessThanWellFounded, Zenon
  <1>2. \A y \in S : ~(y < x)
    BY <1>1 DEF OpToRel
  <1>3. \A y \in S : x <= y
    BY <1>2
  <1> QED BY <1>3 DEF Min

(* Dropping keys keeps the entries of the others. *)
LEMMA DropFacts ==
  ASSUME NEW f, NEW S
  PROVE  /\ DOMAIN Drop(f, S) = DOMAIN f \ S
         /\ \A x \in DOMAIN f \ S : Drop(f, S)[x] = f[x]
         /\ \A T : f \in [DOMAIN f -> T] => Drop(f, S) \in [DOMAIN f \ S -> T]
  BY DEF Drop, Restrict

(* Putting an entry keeps the others. *)
LEMMA PutFacts ==
  ASSUME NEW f, NEW x, NEW v
  PROVE  /\ DOMAIN Put(f, x, v) = DOMAIN f \cup {x}
         /\ Put(f, x, v)[x] = v
         /\ \A y \in DOMAIN f : y # x => Put(f, x, v)[y] = f[y]
         /\ \A T : f \in [DOMAIN f -> T] /\ v \in T => Put(f, x, v) \in [DOMAIN f \cup {x} -> T]
  BY DEF Put

(* The created clients satisfy the invariant. *)
LEMMA InitInv == Init => IInv
  <1> SUFFICES ASSUME Init PROVE IInv
    OBVIOUS
  <1> USE LimitsAssumption
  <1>1. DOMAIN pending = {} /\ DOMAIN works = {}
    BY DEF Init
  <1>2. pending \in [DOMAIN pending -> Asked] /\ works \in [DOMAIN works -> Work]
    BY <1>1 DEF Init
  <1>3. PendingOK /\ WorksOK
    BY <1>1, <1>2 DEF Init, PendingOK, WorksOK
  <1>4. PumpOK
    BY DEF Init, PumpOK, Idle
  <1>5. HistoryOK
    BY DEF Init, HistoryOK, Histories
  <1>6. RequestsOnce
    BY <1>1 DEF Init, RequestsOnce, RequestOnce, Ids
  <1>7. WorksOnce /\ AskersOnce
    BY <1>1 DEF Init, WorksOnce, AskersOnce
  <1> QED BY <1>3, <1>4, <1>5, <1>6, <1>7 DEF IInv, TypeOK

(* A request issued for a work, or for the application (0). *)
LEMMA IssueRequests ==
  ASSUME PendingOK, HistoryOK, RequestsOnce, NEW w \in Nat, Issue(w),
         history'.called = history.called, history'.withdrawn = history.withdrawn,
         history'.accepted = history.accepted
  PROVE  PendingOK' /\ RequestsOnce'
  <1> USE LimitsAssumption
  <1>1. nextId \in Nat /\ nextId \in Ids /\ nextId \notin DOMAIN pending /\ nextId' = nextId + 1
    BY DEF Issue, PendingOK, Issued
  <1>2. PICK r : /\ r \in Asked /\ r.sent = FALSE /\ r.work = w
                 /\ pending' = Put(pending, nextId, r)
    <2>1. [work |-> w, sent |-> FALSE, session |-> 0, left |-> TimeoutFrames] \in Asked
      BY DEF Asked
    <2> QED BY <2>1 DEF Issue
  <1>3. DOMAIN pending' = DOMAIN pending \cup {nextId} /\ pending'[nextId] = r
        /\ \A y \in DOMAIN pending : pending'[y] = pending[y]
    BY <1>1, <1>2 DEF Put
  <1>4. pending' \in [DOMAIN pending' -> Asked]
    BY <1>2 DEF Put, PendingOK
  <1>5. PendingOK'
    BY <1>1, <1>3, <1>4 DEF PendingOK, Issued, Ids
  <1>6. RequestsOnce'
    <2> SUFFICES ASSUME NEW i \in Ids PROVE RequestOnce(i)'
      BY DEF RequestsOnce
    <2>1. RequestOnce(i) /\ history.called[i] \in Nat /\ history.accepted[i] \in Nat
          /\ i \in Nat
      BY DEF RequestsOnce, HistoryOK, Histories, Ids
    <2>2. CASE i = nextId
      <3>1. history.called[i] = 0 /\ history.accepted[i] = 0 /\ i \notin history.withdrawn
        BY <2>1, <2>2, <1>1 DEF RequestOnce
      <3>2. i < nextId' /\ i \in DOMAIN pending' /\ pending'[i].sent = FALSE
        BY <2>1, <2>2, <1>1, <1>2, <1>3
      <3> QED BY <3>1, <3>2 DEF RequestOnce
    <2>3. CASE i # nextId
      <3>1. (i < nextId' <=> i < nextId) /\ (i \in DOMAIN pending' <=> i \in DOMAIN pending)
            /\ (i \in DOMAIN pending => pending'[i] = pending[i])
        BY <2>1, <2>3, <1>1, <1>3
      <3> QED BY <3>1, <2>1 DEF RequestOnce
    <2> QED BY <2>2, <2>3
  <1> QED BY <1>5, <1>6

(* Requests of S end, by their callback or withdrawn; the others stay. *)
LEMMA EndRequests ==
  ASSUME PendingOK, HistoryOK, RequestsOnce, HistoryOK', nextId' = nextId,
         NEW S \in SUBSET DOMAIN pending, DOMAIN pending' = DOMAIN pending \ S,
         pending' \in [DOMAIN pending' -> Asked],
         \A i \in DOMAIN pending' : pending'[i].sent = pending[i].sent,
         history'.accepted = history.accepted,
         \A i \in Ids :
           \/ i \notin S /\ history'.called[i] = history.called[i]
              /\ (i \in history'.withdrawn <=> i \in history.withdrawn)
           \/ i \in S /\ history'.called[i] = history.called[i] + 1
              /\ (i \in history'.withdrawn <=> i \in history.withdrawn)
           \/ i \in S /\ history'.called[i] = history.called[i] /\ i \in history'.withdrawn
  PROVE  PendingOK' /\ RequestsOnce'
  <1>1. PendingOK'
    BY DEF PendingOK, Issued
  <1>2. SUFFICES ASSUME NEW i \in Ids PROVE RequestOnce(i)'
    BY <1>1 DEF RequestsOnce
  <1>3. RequestOnce(i) /\ history.called[i] \in Nat /\ history'.called[i] \in Nat
    BY DEF RequestsOnce, HistoryOK, Histories
  <1>4. CASE i \notin S
    BY <1>3, <1>4 DEF RequestOnce
  <1>5. CASE i \in S
    <2>1. i < nextId /\ history.called[i] = 0 /\ i \notin history.withdrawn /\ i \notin DOMAIN pending'
      BY <1>3, <1>5 DEF RequestOnce
    <2> QED BY <1>3, <1>5, <2>1 DEF RequestOnce
  <1> QED BY <1>4, <1>5

(* Works of W are answered; the others stay. *)
LEMMA EndWorks ==
  ASSUME WorksOK, HistoryOK, WorksOnce, HistoryOK', nextWork' = nextWork,
         NEW W \in SUBSET DOMAIN works, DOMAIN works' = DOMAIN works \ W,
         works' \in [DOMAIN works' -> Work],
         \A w \in 1..MaxWorks :
           history'.answered[w] = history.answered[w] + (IF w \in W THEN 1 ELSE 0)
  PROVE  WorksOK' /\ WorksOnce'
  <1>1. WorksOK'
    BY DEF WorksOK
  <1>2. SUFFICES ASSUME NEW w \in 1..MaxWorks
                 PROVE  history'.answered[w] = IF w < nextWork' /\ w \notin DOMAIN works' THEN 1 ELSE 0
    BY <1>1 DEF WorksOnce
  <1>3. history.answered[w] = IF w < nextWork /\ w \notin DOMAIN works THEN 1 ELSE 0
    BY DEF WorksOnce
  <1>4. CASE w \in W
    <2>1. w < nextWork
      BY <1>4, LimitsAssumption DEF WorksOK
    <2> QED BY <2>1, <1>3, <1>4
  <1>5. CASE w \notin W
    <2>1. history.answered[w] \in Nat
      BY DEF HistoryOK, Histories
    <2> QED BY <2>1, <1>3, <1>5
  <1> QED BY <1>4, <1>5

(* Works leave, or no work does, and those who ask stay. *)
LEMMA SameAskers ==
  ASSUME AskersOnce, nextWork' = nextWork, disposed' = disposed,
         DOMAIN pending' = DOMAIN pending,
         \A i \in DOMAIN pending : pending'[i].work = pending[i].work,
         DOMAIN works' \subseteq DOMAIN works,
         \A w \in DOMAIN works' : works'[w].busy = works[w].busy
  PROVE  AskersOnce'
  <1>1. \A w : Askers(w)' = Askers(w)
    BY DEF Askers
  <1> QED BY <1>1 DEF AskersOnce, WhoAsks

(* Nothing but the place in the frame moves. *)
LEMMA QuietInv ==
  ASSUME IInv, PumpOK',
         UNCHANGED <<pending, nextId, disposed, works, nextWork, history>>
  PROVE  IInv'
  BY DEF IInv, TypeOK, PendingOK, WorksOK, HistoryOK, Issued, RequestsOnce, RequestOnce,
         WorksOnce, AskersOnce, WhoAsks, Askers

(* Each kind of note in the history leaves the others alone. *)
Called(i) == [history EXCEPT !.called[i] = @ + 1]

LEMMA CalledFacts ==
  ASSUME HistoryOK, NEW i \in Ids
  PROVE  /\ Called(i) \in Histories
         /\ Called(i).called[i] = history.called[i] + 1
         /\ \A j \in Ids : j # i => Called(i).called[j] = history.called[j]
         /\ Called(i).withdrawn = history.withdrawn /\ Called(i).accepted = history.accepted
         /\ Called(i).answered = history.answered
  <1>1. Called(i) = [history EXCEPT !.called = [history.called EXCEPT ![i] = history.called[i] + 1]]
    BY DEF HistoryOK, Histories, Called
  <1>2. [history.called EXCEPT ![i] = history.called[i] + 1] \in [Ids -> Nat]
    BY DEF HistoryOK, Histories
  <1> QED BY <1>1, <1>2 DEF HistoryOK, Histories

LEMMA AnsweredFacts ==
  ASSUME NEW h \in Histories, NEW a \in [1..MaxWorks -> Nat], NEW g, g = [h EXCEPT !.answered = a]
  PROVE  /\ g \in Histories /\ g.answered = a
         /\ g.called = h.called /\ g.withdrawn = h.withdrawn /\ g.accepted = h.accepted
  BY DEF Histories

(* A work that is pending is answered once more. *)
LEMMA AnswerFacts ==
  ASSUME HistoryOK, NEW w \in 1..MaxWorks
  PROVE  /\ Answer(w) \in [1..MaxWorks -> Nat]
         /\ \A v \in 1..MaxWorks :
              Answer(w)[v] = history.answered[v] + (IF v = w THEN 1 ELSE 0)
  <1>1. history.answered \in [1..MaxWorks -> Nat]
    BY DEF HistoryOK, Histories
  <1>2. \A v \in 1..MaxWorks : history.answered[v] \in Nat
    BY <1>1
  <1>3. Answer(w) = [v \in 1..MaxWorks |-> IF v = w THEN history.answered[v] + 1 ELSE history.answered[v]]
    BY <1>1 DEF Answer
  <1>4. \A v \in 1..MaxWorks : Answer(w)[v] = history.answered[v] + (IF v = w THEN 1 ELSE 0)
    BY <1>2, <1>3
  <1>5. Answer(w) \in [1..MaxWorks -> Nat]
    BY <1>2, <1>3
  <1> QED BY <1>4, <1>5

(* The clients' part of the invariant. *)
Clients == PendingOK /\ WorksOK /\ HistoryOK /\ RequestsOnce /\ WorksOnce /\ AskersOnce

(* A request completes: one callback, and at most its work is answered. *)
LEMMA CompleteInv ==
  ASSUME IInv, NEW i \in DOMAIN pending, NEW ok \in BOOLEAN,
         NEW aged \in [DOMAIN pending -> Asked],
         \A j \in DOMAIN pending : aged[j].sent = pending[j].sent /\ aged[j].work = pending[j].work,
         Complete(i, ok, aged), UNCHANGED <<nextId, disposed, nextWork>>
  PROVE  Clients'
  <1> USE DEF IInv, TypeOK
  <1> PICK w : w = pending[i].work
    OBVIOUS
  <1>1. i \in Ids /\ w \in Nat /\ DOMAIN works \subseteq Nat /\ 0 \notin DOMAIN works
        /\ DOMAIN works \subseteq 1..MaxWorks
    BY LimitsAssumption DEF PendingOK, WorksOK, Issued, Asked
  <1>2. DOMAIN pending' = DOMAIN pending \ {i} /\ pending' \in [DOMAIN pending' -> Asked]
        /\ \A j \in DOMAIN pending' : pending'[j] = aged[j]
    BY DEF Complete, Drop, Restrict
  <1>3. /\ Called(i) \in Histories /\ Called(i).called[i] = history.called[i] + 1
        /\ \A j \in Ids : j # i => Called(i).called[j] = history.called[j]
        /\ Called(i).withdrawn = history.withdrawn /\ Called(i).accepted = history.accepted
        /\ Called(i).answered = history.answered
    BY <1>1, CalledFacts
  <1>4. \/ /\ history' = Called(i) /\ works' = works /\ w \notin DOMAIN works
        \/ /\ history' = Called(i) /\ w \in DOMAIN works
           /\ works' = [works EXCEPT ![w].busy = FALSE, ![w].job = TRUE]
        \/ /\ history' = [Called(i) EXCEPT !.answered = Answer(w)] /\ w \in DOMAIN works
           /\ works' = Drop(works, {w})
    BY <1>1 DEF Complete, Called
  <1>5. HistoryOK' /\ history'.called = Called(i).called /\ history'.withdrawn = history.withdrawn
        /\ history'.accepted = history.accepted
    BY <1>1, <1>3, <1>4, AnswerFacts, AnsweredFacts DEF HistoryOK
  <1>6. PendingOK' /\ RequestsOnce'
    <2>1. \A j \in Ids :
            \/ j \notin {i} /\ history'.called[j] = history.called[j]
            \/ j \in {i} /\ history'.called[j] = history.called[j] + 1
      BY <1>3, <1>5
    <2> QED BY <1>2, <1>5, <2>1, EndRequests
  <1>7. CASE history' = Called(i) /\ works' = works /\ w \notin DOMAIN works
    <2>1. WorksOK' /\ WorksOnce'
      BY <1>3, <1>7 DEF WorksOK, WorksOnce
    <2>2. \A v \in DOMAIN works : Askers(v)' = Askers(v)
      BY <1>2, <1>7 DEF Askers
    <2>3. AskersOnce'
      BY <1>2, <1>7, <2>2 DEF AskersOnce, WhoAsks
    <2> QED BY <1>5, <1>6, <2>1, <2>3 DEF Clients
  <1>8. CASE history' = Called(i) /\ w \in DOMAIN works
             /\ works' = [works EXCEPT ![w].busy = FALSE, ![w].job = TRUE]
    <2>1. DOMAIN works' = DOMAIN works /\ works' \in [DOMAIN works -> Work]
          /\ works'[w].busy = FALSE /\ \A v \in DOMAIN works : v # w => works'[v] = works[v]
      BY ZenonT(60), <1>8 DEF WorksOK, Work
    <2>2. WorksOK' /\ WorksOnce'
      BY <1>3, <1>8, <2>1 DEF WorksOK, WorksOnce
    <2>3. \A v \in DOMAIN works : v # w => Askers(v)' = Askers(v)
      BY <1>2 DEF Askers
    <2>4. disposed \/ Askers(w)' = {}
      <3>1. i \in Askers(w)
        BY DEF Askers
      <3>2. disposed \/ Askers(w) = {i}
        BY <1>8, <3>1 DEF AskersOnce, WhoAsks
      <3>3. \A j \in DOMAIN pending' : pending'[j].work = pending[j].work /\ j # i
        BY <1>2
      <3> QED BY <1>2, <3>2, <3>3 DEF Askers
    <2>5. AskersOnce'
      <3>1. \A j \in DOMAIN pending' : pending'[j].work < nextWork'
        BY <1>2 DEF AskersOnce
      <3>2. \A v \in DOMAIN works : disposed \/ WhoAsks(v)'
        BY <2>1, <2>3, <2>4 DEF AskersOnce, WhoAsks
      <3> QED BY <2>1, <3>1, <3>2 DEF AskersOnce
    <2> QED BY <1>5, <1>6, <2>2, <2>5 DEF Clients
  <1>9. CASE history' = [Called(i) EXCEPT !.answered = Answer(w)] /\ w \in DOMAIN works
             /\ works' = Drop(works, {w})
    <2>1. DOMAIN works' = DOMAIN works \ {w} /\ works' \in [DOMAIN works' -> Work]
          /\ \A v \in DOMAIN works' : works'[v] = works[v]
      BY <1>9 DEF WorksOK, Drop, Restrict
    <2>2. \A v \in 1..MaxWorks :
            history'.answered[v] = history.answered[v] + (IF v \in {w} THEN 1 ELSE 0)
      BY <1>1, <1>3, <1>9, AnswerFacts, AnsweredFacts
    <2>3. WorksOK' /\ WorksOnce'
      BY ZenonT(60), <1>5, <1>9, <2>1, <2>2, EndWorks
    <2>4. \A v \in DOMAIN works' : Askers(v)' = Askers(v)
      BY <1>2, <2>1 DEF Askers
    <2>5. AskersOnce'
      BY <1>2, <2>1, <2>4 DEF AskersOnce, WhoAsks
    <2> QED BY <1>5, <1>6, <2>3, <2>5 DEF Clients
  <1> QED BY <1>4, <1>7, <1>8, <1>9

(* A request nobody waits for but the application. *)
LEMMA RequestInv == ASSUME IInv, Request PROVE IInv'
  <1> USE LimitsAssumption DEF IInv, TypeOK
  <1>1. PendingOK' /\ RequestsOnce'
    BY IssueRequests DEF Request
  <1>2. PumpOK' /\ HistoryOK' /\ WorksOK' /\ WorksOnce'
    BY DEF Request, PumpOK, HistoryOK, WorksOK, WorksOnce, link
  <1>3. nextId \notin DOMAIN pending /\ DOMAIN pending' = DOMAIN pending \cup {nextId}
        /\ pending'[nextId].work = 0
        /\ \A j \in DOMAIN pending : pending'[j] = pending[j]
    BY DEF Request, Issue, Put, PendingOK, Issued
  <1>4. \A w \in DOMAIN works : w # 0
    BY DEF WorksOK
  <1>5. \A w \in DOMAIN works : Askers(w)' = Askers(w)
    BY <1>3, <1>4 DEF Askers
  <1>6. \A j \in DOMAIN pending' : pending'[j].work < nextWork
    BY <1>3 DEF AskersOnce, WorksOK
  <1>7. AskersOnce'
    BY <1>5, <1>6 DEF AskersOnce, WhoAsks, Request
  <1> QED BY <1>1, <1>2, <1>7

LEMMA CancelInv == ASSUME IInv, NEW i \in Ids, Cancel(i) PROVE IInv'
  <1> USE DEF IInv, TypeOK
  <1>1. HistoryOK' /\ history'.called = history.called /\ history'.accepted = history.accepted
        /\ history'.withdrawn = history.withdrawn \cup {i} /\ history'.answered = history.answered
    BY DEF Cancel, HistoryOK, Histories
  <1>2. DOMAIN pending' = DOMAIN pending \ {i} /\ pending' \in [DOMAIN pending' -> Asked]
        /\ \A j \in DOMAIN pending' : pending'[j] = pending[j]
    BY DEF Cancel, Drop, Restrict, PendingOK
  <1>3. PendingOK' /\ RequestsOnce'
    <2>1. \A j \in Ids :
            \/ j \notin {i} /\ history'.called[j] = history.called[j]
               /\ (j \in history'.withdrawn <=> j \in history.withdrawn)
            \/ j \in {i} /\ history'.called[j] = history.called[j] /\ j \in history'.withdrawn
      BY <1>1
    <2>2. nextId' = nextId /\ {i} \in SUBSET DOMAIN pending
      BY DEF Cancel
    <2> QED BY <1>1, <1>2, <2>1, <2>2, EndRequests
  <1>4. PumpOK' /\ WorksOK' /\ WorksOnce'
    BY <1>1 DEF Cancel, PumpOK, WorksOK, WorksOnce, link
  <1>5. \A w \in DOMAIN works : Askers(w)' = Askers(w)
    <2>1. pending[i].work = 0 /\ \A w \in DOMAIN works : w # 0
      BY LimitsAssumption DEF Cancel, WorksOK
    <2> QED BY <1>2, <2>1 DEF Askers
  <1>6. AskersOnce'
    BY <1>2, <1>5 DEF AskersOnce, WhoAsks, Cancel
  <1> QED BY <1>1, <1>3, <1>4, <1>6

LEMMA SendInv == ASSUME IInv, Send PROVE IInv'
  <1> USE LimitsAssumption DEF IInv, TypeOK
  <1> DEFINE r == [job |-> FALSE, busy |-> TRUE, left |-> WorkFrames]
  <1>1. nextWork \in Nat /\ nextWork \in 1..MaxWorks /\ nextWork \notin DOMAIN works
        /\ nextWork' = nextWork + 1
    BY DEF Send, WorksOK
  <1>2. PendingOK' /\ RequestsOnce'
    BY <1>1, IssueRequests DEF Send
  <1>3. DOMAIN works' = DOMAIN works \cup {nextWork} /\ works'[nextWork] = r
        /\ \A w \in DOMAIN works : works'[w] = works[w]
    BY <1>1 DEF Send, Put
  <1>4. WorksOK'
    <2>1. r \in Work
      BY DEF Work
    <2>2. works' = [w \in DOMAIN works \cup {nextWork} |-> IF w = nextWork THEN r ELSE works[w]]
      BY DEF Send, Put
    <2>3. works' \in [DOMAIN works' -> Work]
      BY <2>1, <2>2 DEF WorksOK
    <2> QED BY <1>1, <1>3, <2>3 DEF WorksOK
  <1>5. WorksOnce'
    BY <1>1, <1>3 DEF Send, WorksOnce, WorksOK
  <1>6. PumpOK' /\ HistoryOK'
    BY DEF Send, PumpOK, HistoryOK, link
  <1>7. nextId \in Ids /\ nextId \notin DOMAIN pending /\ DOMAIN pending' = DOMAIN pending \cup {nextId}
        /\ pending'[nextId].work = nextWork
        /\ \A j \in DOMAIN pending : pending'[j] = pending[j]
    BY DEF Send, Issue, Put, PendingOK, Issued
  <1>8. \A j \in DOMAIN pending : pending[j].work \in Nat /\ pending[j].work < nextWork
    BY DEF AskersOnce, PendingOK, Asked
  <1>9. \A j \in DOMAIN pending' : pending'[j].work < nextWork'
    BY <1>1, <1>7, <1>8
  <1>10. \A w \in DOMAIN works : Askers(w)' = Askers(w)
    BY <1>1, <1>7 DEF Askers
  <1>11. \E i \in Ids : {j \in DOMAIN pending' : pending'[j].work = nextWork} = {i}
    BY <1>1, <1>7, <1>8
  <1>12. \A w \in DOMAIN works' : disposed \/ WhoAsks(w)'
    <2> SUFFICES ASSUME NEW w \in DOMAIN works', ~disposed PROVE WhoAsks(w)'
      OBVIOUS
    <2>1. CASE w = nextWork
      BY <1>3, <1>11, <2>1 DEF WhoAsks, Askers
    <2>2. CASE w # nextWork
      BY <1>3, <1>10, <2>2 DEF WhoAsks, AskersOnce
    <2> QED BY <2>1, <2>2
  <1>13. AskersOnce'
    BY <1>9, <1>12 DEF AskersOnce, Send
  <1> QED BY <1>2, <1>4, <1>5, <1>6, <1>13

(* close answers every work there is. *)
LEMMA CloseInv == ASSUME IInv, Close PROVE IInv'
  <1> USE LimitsAssumption DEF IInv, TypeOK
  <1>1. history.answered \in [1..MaxWorks -> Nat]
    BY DEF HistoryOK, Histories
  <1>2. PICK a \in [1..MaxWorks -> Nat] :
          /\ history' = [history EXCEPT !.answered = a]
          /\ \A w \in 1..MaxWorks : a[w] = history.answered[w] + (IF w \in DOMAIN works THEN 1 ELSE 0)
    <2>1. history' = [history EXCEPT !.answered = [w \in 1..MaxWorks |->
                        history.answered[w] + (IF w \in DOMAIN works THEN 1 ELSE 0)]]
      BY <1>1 DEF Close, HistoryOK, Histories
    <2>2. [w \in 1..MaxWorks |-> history.answered[w] + (IF w \in DOMAIN works THEN 1 ELSE 0)]
            \in [1..MaxWorks -> Nat]
      BY <1>1
    <2> QED BY <2>1, <2>2
  <1>4. HistoryOK' /\ history'.answered = a /\ history'.called = history.called
        /\ history'.withdrawn = history.withdrawn /\ history'.accepted = history.accepted
    BY <1>2, AnsweredFacts DEF HistoryOK
  <1>5. DOMAIN works' = {} /\ works' \in [DOMAIN works' -> Work]
    BY DEF Close
  <1>6. WorksOK' /\ WorksOnce'
    <2>1. \A w \in 1..MaxWorks : history'.answered[w]
            = history.answered[w] + (IF w \in DOMAIN works THEN 1 ELSE 0)
      BY <1>2, <1>4
    <2>2. nextWork' = nextWork /\ DOMAIN works' = DOMAIN works \ DOMAIN works
      BY <1>5 DEF Close
    <2> QED BY <1>4, <1>5, <2>1, <2>2, EndWorks
  <1>7. PendingOK' /\ RequestsOnce' /\ PumpOK'
    BY <1>4 DEF Close, PendingOK, Issued, RequestsOnce, RequestOnce, PumpOK, link
  <1>8. AskersOnce'
    BY <1>5 DEF AskersOnce, Close
  <1> QED BY <1>4, <1>6, <1>7, <1>8

(* dispose withdraws every request there is. *)
LEMMA DisposeInv == ASSUME IInv, Dispose PROVE IInv'
  <1> USE DEF IInv, TypeOK
  <1>1. HistoryOK' /\ history'.called = history.called /\ history'.accepted = history.accepted
        /\ history'.withdrawn = history.withdrawn \cup DOMAIN pending
        /\ history'.answered = history.answered
    <2>1. DOMAIN pending \subseteq Ids
      BY DEF PendingOK, Issued
    <2> QED BY <2>1 DEF Dispose, HistoryOK, Histories
  <1>2. DOMAIN pending' = {} /\ pending' \in [DOMAIN pending' -> Asked]
    BY DEF Dispose
  <1>3. PendingOK' /\ RequestsOnce'
    <2>1. \A j \in Ids :
            \/ j \notin DOMAIN pending /\ history'.called[j] = history.called[j]
               /\ (j \in history'.withdrawn <=> j \in history.withdrawn)
            \/ j \in DOMAIN pending /\ history'.called[j] = history.called[j] /\ j \in history'.withdrawn
      BY <1>1
    <2>2. nextId' = nextId /\ DOMAIN pending' = DOMAIN pending \ DOMAIN pending
      BY <1>2 DEF Dispose
    <2> QED BY <1>1, <1>2, <2>1, <2>2, EndRequests
  <1>4. PumpOK' /\ WorksOK' /\ WorksOnce'
    BY <1>1 DEF Dispose, PumpOK, WorksOK, WorksOnce, link
  <1>5. AskersOnce'
    BY <1>2 DEF AskersOnce, Dispose
  <1> QED BY <1>1, <1>3, <1>4, <1>5

(* A work that is over is answered, if it is pending still. *)
LEMMA FinishInv ==
  ASSUME IInv, PumpOK', NEW w, Finish(w), UNCHANGED <<pending, nextId, disposed, nextWork>>
  PROVE  IInv'
  <1> USE DEF IInv, TypeOK
  <1>1. CASE w \notin DOMAIN works
    <2>1. history' = history /\ DOMAIN works' = DOMAIN works \ {}
          /\ works' \in [DOMAIN works' -> Work] /\ \A v \in DOMAIN works' : works'[v] = works[v]
      BY <1>1 DEF Finish, Drop, Restrict, WorksOK
    <2>2. HistoryOK' /\ PendingOK' /\ RequestsOnce' /\ WorksOK' /\ WorksOnce'
      BY <2>1 DEF HistoryOK, PendingOK, Issued, RequestsOnce, RequestOnce, WorksOK, WorksOnce
    <2>3. AskersOnce'
      BY <2>1, SameAskers
    <2> QED BY <2>2, <2>3
  <1>2. CASE w \in DOMAIN works
    <2>1. w \in 1..MaxWorks
      BY <1>2, LimitsAssumption DEF WorksOK
    <2>2. history' = [history EXCEPT !.answered = Answer(w)]
      BY <1>2 DEF Finish
    <2>3. HistoryOK' /\ history'.answered = Answer(w) /\ history'.called = history.called
          /\ history'.withdrawn = history.withdrawn /\ history'.accepted = history.accepted
      BY <2>1, <2>2, AnswerFacts, AnsweredFacts DEF HistoryOK
    <2>4. DOMAIN works' = DOMAIN works \ {w} /\ works' \in [DOMAIN works' -> Work]
          /\ \A v \in DOMAIN works' : works'[v] = works[v]
      BY DEF Finish, Drop, Restrict, WorksOK
    <2>5. \A v \in 1..MaxWorks :
            history'.answered[v] = history.answered[v] + (IF v \in {w} THEN 1 ELSE 0)
      BY <2>1, <2>3, AnswerFacts
    <2>6. WorksOK' /\ WorksOnce'
      BY <1>2, <2>3, <2>4, <2>5, EndWorks
    <2>7. PendingOK' /\ RequestsOnce'
      BY <2>3 DEF PendingOK, Issued, RequestsOnce, RequestOnce
    <2>8. AskersOnce'
      BY <2>4, SameAskers
    <2> QED BY <2>3, <2>6, <2>7, <2>8
  <1> QED BY <1>1, <1>2

(* The service pump ages its works. *)
LEMMA ServiceInv == ASSUME IInv, Service PROVE IInv'
  <1> USE DEF IInv, TypeOK
  <1>1. DOMAIN works' = DOMAIN works
        /\ \A w \in DOMAIN works : works'[w].busy = works[w].busy
        /\ works' \in [DOMAIN works' -> Work]
    <2>1. \A w \in DOMAIN works : [works[w] EXCEPT !.left = Older(@)] \in Work
            /\ [works[w] EXCEPT !.left = Older(@)].busy = works[w].busy
      BY DEF WorksOK, Work, Older
    <2> QED BY <2>1 DEF Service
  <1>2. WorksOK' /\ WorksOnce' /\ HistoryOK' /\ PendingOK' /\ RequestsOnce'
    BY <1>1 DEF Service, WorksOK, WorksOnce, HistoryOK, PendingOK, Issued, RequestsOnce, RequestOnce
  <1>3. PumpOK'
    BY DEF Service, PumpOK, Idle, Now, link
  <1>4. AskersOnce'
    BY <1>1, SameAskers DEF Service
  <1> QED BY <1>2, <1>3, <1>4

(* The poll is for a work that nobody asks for. *)
LEMMA PolledInv == ASSUME IInv, Polled PROVE IInv'
  <1> USE DEF IInv, TypeOK
  <1>1. PumpOK' /\ HistoryOK'
    BY DEF Polled, PumpOK, HistoryOK, link
  <1>2. CASE UNCHANGED <<pending, nextId, works>>
    BY <1>1, <1>2, QuietInv DEF Polled
  <1>3. CASE Asking # {} /\ Admits /\ Poll
    <2>1. PICK w : w = Min(Asking)
      OBVIOUS
    <2>2. w \in DOMAIN works /\ ~works[w].busy /\ w \in Nat /\ DOMAIN works \subseteq Nat
      <3>1. Asking \in SUBSET Nat
        BY DEF Asking, WorksOK
      <3> QED BY <1>3, <2>1, <3>1, MinIn DEF Asking, WorksOK
    <2>3. Issue(w) /\ works' = [works EXCEPT ![w].busy = TRUE] /\ ~disposed
      BY <1>3, <2>1 DEF Poll, Admits
    <2>4. PendingOK' /\ RequestsOnce'
      BY <2>2, <2>3, IssueRequests DEF Polled
    <2>5. DOMAIN works' = DOMAIN works /\ works' \in [DOMAIN works' -> Work]
          /\ works'[w].busy = TRUE /\ \A v \in DOMAIN works : v # w => works'[v] = works[v]
      BY <2>2, <2>3 DEF WorksOK, Work
    <2>6. WorksOK' /\ WorksOnce'
      BY <2>5 DEF Polled, WorksOK, WorksOnce
    <2>7. nextId \in Ids /\ nextId \notin DOMAIN pending
          /\ DOMAIN pending' = DOMAIN pending \cup {nextId}
          /\ pending'[nextId].work = w /\ \A j \in DOMAIN pending : pending'[j] = pending[j]
      BY <2>3 DEF Issue, Put, PendingOK, Issued
    <2>8. Askers(w) = {}
      BY <2>2, <2>3 DEF AskersOnce, WhoAsks
    <2>9. Askers(w)' = {nextId}
      BY <2>7, <2>8 DEF Askers
    <2>10. \A v \in DOMAIN works : v # w => Askers(v)' = Askers(v)
      BY <2>7 DEF Askers
    <2>11. \A j \in DOMAIN pending' : pending'[j].work < nextWork
      BY <2>2, <2>7, LimitsAssumption DEF AskersOnce, WorksOK
    <2>12. \A v \in DOMAIN works : WhoAsks(v)'
      <3> SUFFICES ASSUME NEW v \in DOMAIN works PROVE WhoAsks(v)'
        OBVIOUS
      <3>1. CASE v = w
        BY <2>5, <2>7, <2>9, <3>1 DEF WhoAsks
      <3>2. CASE v # w
        BY <2>3, <2>5, <2>10, <3>2 DEF WhoAsks, AskersOnce
      <3> QED BY <3>1, <3>2
    <2>13. AskersOnce'
      BY <2>5, <2>11, <2>12 DEF AskersOnce, Polled
    <2> QED BY <1>1, <2>4, <2>6, <2>13
  <1> QED BY <1>2, <1>3 DEF Polled, Poll

(* A reply completes its request; the other requests age. *)
LEMMA TakeInv == ASSUME IInv, Take PROVE IInv'
  <1> DEFINE aged == [i \in DOMAIN pending |-> [pending[i] EXCEPT !.left = Older(@)]]
  <1> USE DEF IInv, TypeOK
  <1>1. /\ aged \in [DOMAIN pending -> Asked]
        /\ \A i \in DOMAIN pending : aged[i].sent = pending[i].sent /\ aged[i].work = pending[i].work
    <2>1. \A i \in DOMAIN pending :
            /\ [pending[i] EXCEPT !.left = Older(@)] \in Asked
            /\ [pending[i] EXCEPT !.left = Older(@)].sent = pending[i].sent
            /\ [pending[i] EXCEPT !.left = Older(@)].work = pending[i].work
      BY DEF PendingOK, Asked, Older
    <2> QED BY <2>1
  <1>2. PumpOK'
    BY DEF Take, PumpOK, Idle, link
  <1>3. CASE pending' = aged /\ UNCHANGED <<works, history>>
    <2>1. DOMAIN pending' = DOMAIN pending /\ pending' \in [DOMAIN pending' -> Asked]
      BY <1>1, <1>3
    <2>2. WorksOK' /\ WorksOnce' /\ HistoryOK'
      BY <1>3 DEF Take, WorksOK, WorksOnce, HistoryOK
    <2>3. PendingOK' /\ RequestsOnce'
      BY <1>1, <1>3, <2>1 DEF Take, PendingOK, Issued, RequestsOnce, RequestOnce
    <2>4. AskersOnce'
      BY <1>1, <1>3, <2>1, SameAskers DEF Take
    <2> QED BY <1>2, <2>2, <2>3, <2>4
  <1>4. CASE \E i \in DOMAIN pending : Complete(i, TRUE, aged)
    <2>1. PICK i \in DOMAIN pending : Complete(i, TRUE, aged)
      BY <1>4
    <2>2. UNCHANGED <<nextId, disposed, nextWork>>
      BY DEF Take
    <2>3. Clients'
      BY <1>1, <2>1, <2>2, CompleteInv
    <2> QED BY <1>2, <2>3 DEF Clients
  <1> QED BY <1>3, <1>4 DEF Take, Accepts

(* The link accepts a record that was never sent. *)
LEMMA SubmitInv ==
  ASSUME IInv, NEW i \in DOMAIN pending, Submit(i), UNCHANGED <<nextId, disposed, nextWork, link>>
  PROVE  IInv'
  <1> USE DEF IInv, TypeOK
  <1>1. i \in Ids /\ i \in Nat
    BY LimitsAssumption DEF PendingOK, Issued, Ids
  <1>2. PumpOK'
    BY <1>1 DEF Submit, PumpOK, link
  <1>3. DOMAIN pending' = DOMAIN pending /\ pending' \in [DOMAIN pending' -> Asked]
        /\ pending'[i].sent /\ pending'[i].work = pending[i].work
        /\ \A j \in DOMAIN pending : j # i => pending'[j] = pending[j]
    <2>1. pump.session \in Nat
      BY DEF PumpOK
    <2>2. PICK r : r = [pending[i] EXCEPT !.sent = TRUE, !.session = pump.session]
      OBVIOUS
    <2>3. r \in Asked /\ r.sent /\ r.work = pending[i].work
      BY <2>1, <2>2 DEF PendingOK, Asked
    <2>4. pending' = [pending EXCEPT ![i] = r]
      BY <2>2 DEF Submit
    <2> QED BY <2>3, <2>4 DEF PendingOK
  <1>4. /\ HistoryOK' /\ history'.called = history.called /\ history'.withdrawn = history.withdrawn
        /\ history'.answered = history.answered
        /\ history'.accepted[i] = history.accepted[i] + 1
        /\ \A j \in Ids : j # i => history'.accepted[j] = history.accepted[j]
    <2>1. history' = [history EXCEPT !.accepted = [history.accepted EXCEPT ![i] = history.accepted[i] + 1]]
      BY DEF Submit, HistoryOK, Histories
    <2>2. [history.accepted EXCEPT ![i] = history.accepted[i] + 1] \in [Ids -> Nat]
      BY <1>1 DEF HistoryOK, Histories
    <2> QED BY <1>1, <2>1, <2>2 DEF HistoryOK, Histories
  <1>5. PendingOK' /\ WorksOK' /\ WorksOnce'
    BY <1>3, <1>4 DEF Submit, PendingOK, Issued, WorksOK, WorksOnce
  <1>6. RequestsOnce'
    <2> SUFFICES ASSUME NEW j \in Ids PROVE RequestOnce(j)'
      BY DEF RequestsOnce
    <2>1. RequestOnce(j)
      BY DEF RequestsOnce
    <2>2. CASE j = i
      <3>1. history.accepted[i] = 0 /\ i < nextId
        BY <1>1, <2>1, <2>2 DEF Submit, RequestOnce
      <3> QED BY <1>3, <1>4, <2>1, <2>2, <3>1 DEF RequestOnce
    <2>3. CASE j # i
      BY <1>3, <1>4, <2>1, <2>3 DEF RequestOnce
    <2> QED BY <2>2, <2>3
  <1>7. AskersOnce'
    BY <1>3, SameAskers DEF Submit
  <1> QED BY <1>2, <1>4, <1>5, <1>6, <1>7

(* The scan meets the requests that are pending, in their order. *)
LEMMA ScanInv == ASSUME IInv, Scan PROVE IInv'
  <1> USE DEF IInv, TypeOK
  <1>1. PICK i : i = Min(Ahead)
    OBVIOUS
  <1>2. i \in DOMAIN pending /\ i \in Nat
    <2>1. Ahead \in SUBSET Nat
      BY LimitsAssumption DEF Ahead, PendingOK, Issued, Ids
    <2> QED BY <1>1, <2>1, MinIn DEF Scan, Ahead
  <1>3. UNCHANGED <<nextId, disposed, nextWork, link>>
    BY DEF Scan
  <1>4. CASE Fail(i)
    <2>1. PumpOK'
      BY <1>2, <1>3, <1>4 DEF Fail, PumpOK, link
    <2>2. Clients'
      BY <1>2, <1>3, <1>4, CompleteInv DEF Fail, PendingOK
    <2> QED BY <2>1, <2>2 DEF Clients
  <1>5. CASE Submit(i)
    BY <1>2, <1>3, <1>5, SubmitInv
  <1>6. CASE Pass(i)
    <2>1. PumpOK'
      BY <1>2, <1>3, <1>6 DEF Pass, PumpOK, link
    <2> QED BY <1>3, <1>6, <2>1, QuietInv DEF Pass
  <1> QED BY <1>1, <1>4, <1>5, <1>6 DEF Scan

(* Every step keeps the invariant. *)
LEMMA NextInv == IInv /\ [Next]_vars => IInv'
  <1> SUFFICES ASSUME IInv, [Next]_vars PROVE IInv'
    OBVIOUS
  <1>1. PumpOK
    BY DEF IInv, TypeOK
  <1>2. CASE Request \/ (\E i \in Ids : Cancel(i)) \/ Send \/ Close \/ Dispose
    BY <1>2, RequestInv, CancelInv, SendInv, CloseInv, DisposeInv
  <1>3. CASE Return
    BY <1>1, <1>3, QuietInv DEF Return, PumpOK, clients, link
  <1>4. CASE Frame
    BY <1>1, <1>4, QuietInv DEF Frame, Goto, Idle, PumpOK, clients, link
  <1>5. CASE Gone("offload") \/ Gone("service")
    BY <1>1, <1>5, QuietInv DEF Gone, Goto, Idle, PumpOK, clients, link
  <1>6. CASE Scanned
    BY <1>1, <1>6, QuietInv DEF Scanned, Goto, Idle, PumpOK, clients, link
  <1>7. CASE Take
    BY <1>7, TakeInv
  <1>8. CASE Scan
    BY <1>8, ScanInv
  <1>9. CASE Service
    BY <1>9, ServiceInv
  <1>10. CASE Lose
    <2>1. PumpOK'
      BY <1>1, <1>10 DEF Lose, PumpOK, link
    <2>2. CASE Head(pump.lost) = 0
      BY <1>10, <2>1, <2>2, QuietInv DEF Lose
    <2>3. CASE Head(pump.lost) # 0
      BY <1>10, <2>1, <2>3, FinishInv DEF Lose
    <2> QED BY <2>2, <2>3
  <1>11. CASE Polled
    BY <1>11, PolledInv
  <1>12. CASE TimeOut
    <2>1. PumpOK'
      BY <1>1, <1>12 DEF TimeOut, Goto, Idle, PumpOK, link
    <2>2. CASE Overdue = {}
      BY <1>12, <2>1, <2>2, QuietInv DEF TimeOut
    <2>3. CASE Overdue # {}
      BY <1>12, <2>1, <2>3, FinishInv DEF TimeOut
    <2> QED BY <2>2, <2>3
  <1>13. CASE Connect \/ Disconnect
    BY <1>1, <1>13, QuietInv DEF Connect, Disconnect, PumpOK, clients
  <1>14. CASE UNCHANGED vars
    BY <1>1, <1>14, QuietInv DEF vars, PumpOK, clients, link
  <1> QED BY <1>2, <1>3, <1>4, <1>5, <1>6, <1>7, <1>8, <1>9, <1>10, <1>11, <1>12, <1>13, <1>14
          DEF Next, Application, Run, OffloadPump, ServicePump

THEOREM Inductive == Spec => []IInv
  BY InitInv, NextInv, PTL DEF Spec

(* Every request is called back once or withdrawn, every work is answered  *)
(* once, and the provider accepts a record once, whatever the link does.   *)
THEOREM OnceAndOnce == Spec => []AnsweredOnce
  <1>1. IInv => AnsweredOnce
    <2> SUFFICES ASSUME IInv PROVE AnsweredOnce
      OBVIOUS
    <2> USE DEF IInv, TypeOK
    <2>1. ASSUME NEW i \in Issued
          PROVE  /\ (i \in DOMAIN pending) = (history.called[i] = 0 /\ i \notin history.withdrawn)
                 /\ history.called[i] + (IF i \in history.withdrawn THEN 1 ELSE 0) <= 1
                 /\ history.accepted[i] <= 1
      BY DEF RequestsOnce, RequestOnce, Issued
    <2>2. ASSUME NEW w \in 1..(nextWork - 1)
          PROVE  history.answered[w] = IF w \in DOMAIN works THEN 0 ELSE 1
      BY LimitsAssumption DEF WorksOnce, WorksOK
    <2> QED BY <2>1, <2>2 DEF AnsweredOnce
  <1> QED BY <1>1, Inductive, PTL

(* While the offload client lives, a work is busy exactly while one        *)
(* request is pending for it.                                              *)
THEOREM OneAsks == Spec => []BusyIsAsked
  <1>1. IInv => BusyIsAsked
    <2> SUFFICES ASSUME IInv, ~disposed, NEW w \in DOMAIN works
                 PROVE  Cardinality(Askers(w)) = IF works[w].busy THEN 1 ELSE 0
      BY DEF BusyIsAsked, Askers
    <2>1. WhoAsks(w)
      BY DEF IInv, AskersOnce
    <2> QED BY <2>1, FS_EmptySet, FS_Singleton DEF WhoAsks
  <1> QED BY <1>1, Inductive, PTL
=============================================================================
