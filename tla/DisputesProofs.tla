--------------------------- MODULE DisputesProofs ---------------------------
(***************************************************************************)
(* The safety properties of Disputes for any number of buyers, requests,    *)
(* handlers, disputes and faults.  ExecutedOnce is an argument by counting: *)
(* the handlers that have not come to a credit yet (Unpaid) and the credits *)
(* that were made are together no more than the times a message was handed  *)
(* to a handler (Runs).                                                     *)
(***************************************************************************)
EXTENDS Disputes, FiniteSetTheorems, TLAPS

Rows == [status : {"none", "PENDING", "PENDING_MANUAL", "RESOLVED"}, by : Buyers \cup {NoOne},
         judged : {"none", "AI", "hand"}, verdict : {"none", "creator", "participant", "shared"}]
Judges == [at : {"idle", "ask", "refund", "penalty", "write"}, about : Disputed \cup {NoOne},
           verdict : {"none", "creator", "participant", "shared"}, sure : BOOLEAN]

TypeInv ==
  /\ row \in [Disputed -> Rows]
  /\ task \in [Disputed -> {"none", "queued", "gone"} \cup Handlers]
  /\ seen \subseteq Disputed
  /\ again \in [Disputed -> Nat]
  /\ credit \in [Disputed -> [applicant : Nat, creator : Nat]]
  /\ web \in [Sessions -> [at : {"idle", "insert", "publish", "manual"},
                           by : Buyers \cup {NoOne}, about : Disputed \cup {NoOne}]]
  /\ judge \in [Handlers -> Judges]

NoCredit == [applicant |-> 0, creator |-> 0]

\* A message that was not published yet has had no effect, and is published once.
Unpublished ==
  /\ \A i \in Disputed : row[i].status = "none" => task[i] = "none"
  /\ \A i \in Disputed : task[i] = "none" =>
       /\ again[i] = 0 /\ i \notin seen /\ credit[i] = NoCredit
       /\ \A c \in Handlers : judge[c].about # i
  /\ \A s \in Sessions : web[s].at \in {"publish", "manual"} =>
       web[s].about \in Disputed /\ row[web[s].about].status # "none"
  /\ \A s \in Sessions : web[s].at = "publish" => task[web[s].about] = "none"
  /\ \A r, s \in Sessions : web[r].at = "publish" /\ web[s].at = "publish" /\
                            web[r].about = web[s].about => r = s

\* The verdict's shares have been paid.
Paid(v, cr) ==
  /\ v \in {"creator", "shared"} => cr.applicant >= 1
  /\ v \in {"participant", "shared"} => cr.creator >= 1

\* What a handler has done where it is.  It holds its message unless that has come
\* back, and then alone.
ProgressOf(c) ==
  LET q == judge[c]
  IN  /\ q.at = "idle" => q = Idle
      /\ q.at # "idle" => q.about \in Disputed
      /\ q.at # "idle" /\ again[q.about] = 0 => task[q.about] = c
      /\ q.at \in {"refund", "penalty"} => q.sure
      /\ q.at = "refund" => q.verdict \in {"creator", "shared"}
      /\ q.at = "penalty" => q.verdict \in {"participant", "shared"}
      /\ q.at = "penalty" /\ q.verdict = "shared" => credit[q.about].applicant >= 1
      /\ q.at = "write" /\ q.sure => Paid(q.verdict, credit[q.about])
      /\ q.at = "write" /\ ~q.sure /\ again[q.about] = 0 => credit[q.about] = NoCredit

Progress == \A c \in Handlers : ProgressOf(c)

\* The handlers that may still credit the applicant, or the creator.
UnpaidA(i) == {c \in Handlers : judge[c].about = i /\ judge[c].at \in {"ask", "refund"}}
UnpaidC(i) == {c \in Handlers : judge[c].about = i /\ judge[c].at \in {"ask", "refund", "penalty"}}

\* How often the message was handed to a handler, at most.
Runs(i) == IF backed THEN IF i \in seen THEN 1 ELSE 0
           ELSE again[i] + IF task[i] \in {"none", "queued"} THEN 0 ELSE 1

CountOf(i) ==
  /\ IsFiniteSet(UnpaidA(i)) /\ credit[i].applicant + Cardinality(UnpaidA(i)) <= Runs(i)
  /\ IsFiniteSet(UnpaidC(i)) /\ credit[i].creator + Cardinality(UnpaidC(i)) <= Runs(i)

Count == \A i \in Disputed : CountOf(i)

\* What an administrator has been left with is nobody else's and unpaid.
Left ==
  \A i \in Disputed : row[i].status = "PENDING_MANUAL" /\ again[i] = 0 =>
    credit[i] = NoCredit /\ \A c \in Handlers : judge[c].about # i

IInv == TypeInv /\ Unpublished /\ Progress /\ Count /\ Left /\ ResolvedIsPaid

-----------------------------------------------------------------------------
(* What the steps do to the functions *)

\* A row that is rewritten is a row.
LEMMA Rewritten ==
  ASSUME TypeInv, NEW k \in Disputed,
         NEW st \in {"none", "PENDING", "PENDING_MANUAL", "RESOLVED"},
         NEW jd \in {"none", "AI", "hand"},
         NEW v \in {"none", "creator", "participant", "shared"},
         row' = [row EXCEPT ![k].status = st, ![k].judged = jd, ![k].verdict = v]
  PROVE  row' \in [Disputed -> Rows]
<1> DEFINE r == [row[k] EXCEPT !.status = st, !.judged = jd, !.verdict = v]
<1>1. row \in [Disputed -> Rows]
  BY DEF TypeInv
<1>2. r \in Rows
  BY <1>1 DEF Rows
<1>3. row' = [row EXCEPT ![k] = r]
  BY <1>1 DEF Rows
<1>4. [row EXCEPT ![k] = r] \in [Disputed -> Rows]
  <2> HIDE DEF r
  <2> QED
    BY <1>1, <1>2
<1> QED
  BY <1>3, <1>4

\* A handler that goes on keeps what it holds.
LEMMA Moved ==
  ASSUME TypeInv, NEW c \in Handlers, NEW at \in {"idle", "ask", "refund", "penalty", "write"},
         judge' = [judge EXCEPT ![c].at = at]
  PROVE  /\ judge' \in [Handlers -> Judges]
         /\ judge'[c].at = at /\ judge'[c].about = judge[c].about
         /\ judge'[c].verdict = judge[c].verdict /\ judge'[c].sure = judge[c].sure
         /\ \A d \in Handlers \ {c} : judge'[d] = judge[d]
BY DEF TypeInv, Judges

\* A handler at work has a dispute.
LEMMA Busy ==
  ASSUME Progress, NEW c \in Handlers, judge[c].at # "idle"
  PROVE  judge[c].about \in Disputed
BY DEF Progress, ProgressOf

\* A delivered message is taken by its handler, or settled.
LEMMA DeliverEffect ==
  ASSUME TypeInv, NEW c \in Handlers, NEW i \in Disputed, Deliver(c, i)
  PROVE  /\ task' \in [Disputed -> {"none", "queued", "gone"} \cup Handlers]
         /\ judge' \in [Handlers -> Judges]
         /\ \A k \in Disputed \ {i} : task'[k] = task[k]
         /\ \A d \in Handlers \ {c} : judge'[d] = judge[d]
         /\ \/ /\ i \notin seen /\ row[i].status = "PENDING"
               /\ task'[i] = c
               /\ judge'[c] = [at |-> "ask", about |-> i, verdict |-> "none", sure |-> FALSE]
            \/ /\ ~(i \notin seen /\ row[i].status = "PENDING")
               /\ task'[i] = "gone" /\ judge'[c] = judge[c]
<1>1. /\ task \in [Disputed -> {"none", "queued", "gone"} \cup Handlers]
      /\ judge \in [Handlers -> Judges]
  BY DEF TypeInv
<1>2. [at |-> "ask", about |-> i, verdict |-> "none", sure |-> FALSE] \in Judges
  BY DEF Judges
<1>3. CASE i \notin seen /\ Judgeable(i)
  <2>1. /\ task' = [task EXCEPT ![i] = c]
        /\ judge' = [judge EXCEPT ![c] = [at |-> "ask", about |-> i,
                                         verdict |-> "none", sure |-> FALSE]]
    BY <1>3 DEF Deliver, Holder
  <2> QED
    BY <1>1, <1>2, <1>3, <2>1 DEF Judgeable
<1>4. CASE ~(i \notin seen /\ Judgeable(i))
  <2>1. task' = [task EXCEPT ![i] = "gone"] /\ judge' = judge
    BY <1>4 DEF Deliver
  <2> QED
    BY <1>1, <1>4, <2>1 DEF Judgeable
<1> QED
  BY <1>3, <1>4

\* A lost consumer's message comes back, once; the handler may have gone with it.
LEMMA BreakOffEffect ==
  ASSUME TypeInv, NEW c \in Handlers, BreakOff(c)
  PROVE  /\ judge' \in [Handlers -> Judges]
         /\ \A d \in Handlers \ {c} : judge'[d] = judge[d]
         /\ judge'[c] \in {judge[c], Idle}
         /\ \/ /\ task[judge[c].about] = c
               /\ task' = [task EXCEPT ![judge[c].about] = "queued"]
               /\ again' = [again EXCEPT ![judge[c].about] = @ + 1]
            \/ task[judge[c].about] # c /\ task' = task /\ again' = again
<1>1. judge \in [Handlers -> Judges] /\ Idle \in Judges
  BY DEF TypeInv, Judges, Idle
<1>2. judge' = judge \/ judge' = [judge EXCEPT ![c] = Idle]
  BY DEF BreakOff, Finish
<1>3. CASE task[judge[c].about] = c
  BY <1>1, <1>2, <1>3 DEF BreakOff
<1>4. CASE task[judge[c].about] # c
  BY <1>1, <1>2, <1>4 DEF BreakOff
<1> QED
  BY <1>3, <1>4

-----------------------------------------------------------------------------
(* Types *)

\* Every action keeps the types, given what its session or handler has done.
LEMMA TypeStep == TypeInv /\ Unpublished /\ Progress /\ [Next]_vars => TypeInv'
<1> SUFFICES ASSUME TypeInv, Unpublished, Progress, [Next]_vars PROVE TypeInv'
  OBVIOUS
<1> USE DisputesAssumption DEF TypeInv, Rows, Judges, Idle, IdleWeb, Goto, Finish, Fault
<1>1. ASSUME NEW s \in Sessions, NEW u \in Buyers, Initiate(s, u) PROVE TypeInv'
  BY <1>1 DEF Initiate
<1>2. ASSUME NEW s \in Sessions, Insert(s) PROVE TypeInv'
  BY <1>2 DEF Insert, Unused, Filed
<1>3. ASSUME NEW s \in Sessions, Publish(s) PROVE TypeInv'
  BY <1>3 DEF Publish, Unpublished, Unused
<1>4. ASSUME NEW s \in Sessions, NEW i \in Disputed, BeginManual(s, i) PROVE TypeInv'
  BY <1>4 DEF BeginManual
<1>5. ASSUME NEW s \in Sessions, WriteManual(s) PROVE TypeInv'
  <2>1. PICK v \in Verdicts :
          row' = [row EXCEPT ![web[s].about].status = "RESOLVED",
                             ![web[s].about].judged = "hand",
                             ![web[s].about].verdict = v]
    BY <1>5 DEF WriteManual
  <2>2. web[s].about \in Disputed /\ v \in {"none", "creator", "participant", "shared"}
    BY <1>5, <2>1 DEF WriteManual, Verdicts, Unpublished
  <2>3. row' \in [Disputed -> Rows]
    BY <2>1, <2>2, Rewritten
  <2> QED
    BY <1>5, <2>3 DEF WriteManual
<1>6. ASSUME NEW s \in Sessions, Crash(s) PROVE TypeInv'
  BY <1>6 DEF Crash, Unpublished, Unused
<1>7. ASSUME NEW c \in Handlers, NEW i \in Disputed, Deliver(c, i) PROVE TypeInv'
  <2>1. task' \in [Disputed -> {"none", "queued", "gone"} \cup Handlers]
    BY <1>7, DeliverEffect
  <2>2. judge' \in [Handlers -> Judges]
    BY <1>7, DeliverEffect
  <2>3. seen' \subseteq Disputed
    BY <1>7 DEF Deliver, SeenFrom
  <2> QED
    BY <1>7, <2>1, <2>2, <2>3 DEF Deliver
<1>8. ASSUME NEW c \in Handlers, Ask(c) PROVE TypeInv'
  <2>1. ProgressOf(c) /\ judge[c].at # "idle" => judge[c].about \in Disputed
    BY DEF Progress, ProgressOf
  <2>2. PICK v \in Verdicts, sure \in BOOLEAN :
          judge' = [judge EXCEPT ![c] = [@ EXCEPT !.at = AfterAnswer(v, sure),
                                                  !.verdict = v, !.sure = sure]]
    BY <1>8 DEF Ask
  <2>3. v \in {"none", "creator", "participant", "shared"}
        /\ AfterAnswer(v, sure) \in {"refund", "penalty", "write"}
    BY DEF Verdicts, AfterAnswer, FirstOf
  <2>4. judge' \in [Handlers -> Judges]
    BY <2>2, <2>3
  <2> QED
    BY <1>8, <2>4 DEF Ask
<1>9. ASSUME NEW c \in Handlers, Refund(c) PROVE TypeInv'
  <2>1. ProgressOf(c) /\ judge[c].at # "idle" => judge[c].about \in Disputed
    BY DEF Progress, ProgressOf
  <2>2. judge' \in [Handlers -> Judges]
    BY <1>9, Moved DEF Refund
  <2>3. credit' \in [Disputed -> [applicant : Nat, creator : Nat]]
    <3>1. judge[c].about \in Disputed
      BY <1>9, Busy DEF Refund
    <3> QED
      BY <1>9, <3>1 DEF Refund
  <2> QED
    BY <1>9, <2>2, <2>3 DEF Refund
<1>10. ASSUME NEW c \in Handlers, Penalty(c) PROVE TypeInv'
  <2>1. ProgressOf(c) /\ judge[c].at # "idle" => judge[c].about \in Disputed
    BY DEF Progress, ProgressOf
  <2>2. judge' \in [Handlers -> Judges]
    BY <1>10, Moved DEF Penalty
  <2>3. credit' \in [Disputed -> [applicant : Nat, creator : Nat]]
    <3>1. judge[c].about \in Disputed
      BY <1>10, Busy DEF Penalty
    <3> QED
      <4>1. credit' = [credit EXCEPT ![judge[c].about].creator = @ + 1]
        BY <1>10 DEF Penalty
      <4>2. /\ credit \in [Disputed -> [applicant : Nat, creator : Nat]]
            /\ credit[judge[c].about].creator \in Nat
        BY <3>1
      <4> QED
        BY <3>1, <4>1, <4>2
  <2> QED
    BY <1>10, <2>2, <2>3 DEF Penalty
<1>11. ASSUME NEW c \in Handlers, Write(c) PROVE TypeInv'
  <2>1. ProgressOf(c) /\ judge[c].at # "idle" => judge[c].about \in Disputed
    BY DEF Progress, ProgressOf
  <2>2. judge[c].about \in Disputed
    BY <1>11, Busy DEF Write
  <2>3. row' \in [Disputed -> Rows]
    <3>1. PICK st \in {"RESOLVED", "PENDING_MANUAL"} :
            row' = [row EXCEPT ![judge[c].about].status = st,
                               ![judge[c].about].judged = "AI",
                               ![judge[c].about].verdict = judge[c].verdict]
      <4>1. CASE judge[c].sure
        BY <1>11, <4>1 DEF Write
      <4>2. CASE ~judge[c].sure
        BY <1>11, <4>2 DEF Write
      <4> QED
        BY <4>1, <4>2
    <3> QED
      BY <2>2, <3>1, Rewritten
  <2>4. task' \in [Disputed -> {"none", "queued", "gone"} \cup Handlers]
    BY <1>11, <2>2 DEF Write
  <2>5. judge' \in [Handlers -> Judges]
    BY <1>11 DEF Write
  <2> QED
    BY <1>11, <2>3, <2>4, <2>5 DEF Write
<1>12. ASSUME NEW c \in Handlers, Fail(c) PROVE TypeInv'
  <2>1. ProgressOf(c) /\ judge[c].at # "idle" => judge[c].about \in Disputed
    BY DEF Progress, ProgressOf
  <2> QED
    BY <1>12, <2>1 DEF Fail, ProgressOf
<1>13. ASSUME NEW c \in Handlers, BreakOff(c) PROVE TypeInv'
  <2>1. ProgressOf(c) /\ judge[c].at # "idle" => judge[c].about \in Disputed
    BY DEF Progress, ProgressOf
  <2>2. task' \in [Disputed -> {"none", "queued", "gone"} \cup Handlers]
    BY <1>13, BreakOffEffect
  <2>3. again' \in [Disputed -> Nat]
    <3>1. judge[c].about \in Disputed
      BY <1>13, Busy DEF BreakOff
    <3>2. \/ again' = [again EXCEPT ![judge[c].about] = @ + 1]
          \/ again' = again
      BY <1>13, BreakOffEffect
    <3> QED
      BY <3>1, <3>2
  <2>4. judge' \in [Handlers -> Judges]
    BY <1>13, BreakOffEffect
  <2> QED
    BY <1>13, <2>2, <2>3, <2>4 DEF BreakOff
<1>14. ASSUME NEW i \in Disputed, Expire(i) PROVE TypeInv'
  BY <1>14 DEF Expire
<1>15. CASE UNCHANGED vars
  BY <1>15 DEF vars
<1> QED
  BY <1>1, <1>2, <1>3, <1>4, <1>5, <1>6, <1>7, <1>8, <1>9, <1>10, <1>11, <1>12, <1>13,
       <1>14, <1>15 DEF Next, JudgeStep

-----------------------------------------------------------------------------
(* Messages before they are published *)

LEMMA UnpublishedStep == IInv /\ TypeInv' /\ [Next]_vars => Unpublished'
<1> SUFFICES ASSUME IInv, TypeInv', [Next]_vars PROVE Unpublished'
  OBVIOUS
<1> USE DisputesAssumption DEF IInv, TypeInv, Rows, Judges, Unpublished, Idle, IdleWeb,
     Goto, Finish, Fault
<1>1. ASSUME NEW s \in Sessions, NEW u \in Buyers, Initiate(s, u) PROVE Unpublished'
  BY <1>1 DEF Initiate
<1>2. ASSUME NEW s \in Sessions, Insert(s) PROVE Unpublished'
  BY <1>2 DEF Insert, Unused, Filed
<1>3. ASSUME NEW s \in Sessions, Publish(s) PROVE Unpublished'
  BY <1>3 DEF Publish
<1>4. ASSUME NEW s \in Sessions, NEW i \in Disputed, BeginManual(s, i) PROVE Unpublished'
  BY <1>4 DEF BeginManual
<1>5. ASSUME NEW s \in Sessions, WriteManual(s) PROVE Unpublished'
  BY <1>5 DEF WriteManual, Verdicts
<1>6. ASSUME NEW s \in Sessions, Crash(s) PROVE Unpublished'
  BY <1>6 DEF Crash
<1>7. ASSUME NEW c \in Handlers, NEW i \in Disputed, Deliver(c, i) PROVE Unpublished'
  <2>1. /\ task[i] = "queued" /\ task'[i] # "none"
        /\ \A k \in Disputed \ {i} : task'[k] = task[k]
    BY <1>7 DEF Deliver, Holder
  <2>2. \A d \in Handlers : judge'[d].about # i => judge'[d].about \in {judge[d].about, NoOne}
    <3>1. /\ \A d \in Handlers \ {c} : judge'[d] = judge[d]
          /\ \/ judge'[c] = [at |-> "ask", about |-> i, verdict |-> "none", sure |-> FALSE]
             \/ judge'[c] = judge[c]
      BY <1>7, DeliverEffect
    <3>2. judge'[c].about \in {judge[c].about, i}
      BY <3>1
    <3> QED
      BY <3>1, <3>2
  <2>3. seen' \subseteq seen \cup {i}
    BY <1>7 DEF Deliver, SeenFrom
  <2>4. row' = row /\ again' = again /\ credit' = credit /\ web' = web
    BY <1>7 DEF Deliver
  <2> QED
    BY <2>1, <2>2, <2>3, <2>4
<1>8. ASSUME NEW c \in Handlers, Ask(c) PROVE Unpublished'
  <2>1. ProgressOf(c)
    BY DEF Progress
  <2> QED
    BY <1>8, <2>1 DEF Ask, Verdicts, AfterAnswer, FirstOf, ProgressOf
<1>9. ASSUME NEW c \in Handlers, Refund(c) PROVE Unpublished'
  <2>1. ProgressOf(c)
    BY DEF Progress
  <2> QED
    BY <1>9, <2>1 DEF Refund, ProgressOf
<1>10. ASSUME NEW c \in Handlers, Penalty(c) PROVE Unpublished'
  <2>1. ProgressOf(c)
    BY DEF Progress
  <2> QED
    BY <1>10, <2>1 DEF Penalty, ProgressOf
<1>11. ASSUME NEW c \in Handlers, Write(c) PROVE Unpublished'
  <2>1. ProgressOf(c)
    BY DEF Progress
  <2>2. judge[c].about \in Disputed /\ row[judge[c].about].status # "none"
        /\ task[judge[c].about] # "none"
    BY <1>11, <2>1 DEF Write, ProgressOf
  <2>3. \A k \in Disputed : /\ task'[k] = "none" <=> task[k] = "none"
                            /\ row'[k].status = "none" <=> row[k].status = "none"
    BY <1>11, <2>2 DEF Write
  <2>4. \A d \in Handlers : judge'[d].about \in {judge[d].about, NoOne}
    BY <1>11 DEF Write
  <2>5. seen' = seen /\ again' = again /\ credit' = credit /\ web' = web
    BY <1>11 DEF Write
  <2> QED
    BY <2>3, <2>4, <2>5
<1>12. ASSUME NEW c \in Handlers, Fail(c) PROVE Unpublished'
  <2>1. ProgressOf(c)
    BY DEF Progress
  <2> QED
    BY <1>12, <2>1 DEF Fail, ProgressOf
<1>13. ASSUME NEW c \in Handlers, BreakOff(c) PROVE Unpublished'
  <2>1. ProgressOf(c)
    BY DEF Progress
  <2>2. judge[c].about \in Disputed /\ task[judge[c].about] # "none"
    BY <1>13, <2>1 DEF BreakOff, ProgressOf
  <2>3. \A k \in Disputed : /\ task'[k] = "none" <=> task[k] = "none"
                            /\ task[k] = "none" => again'[k] = again[k]
    BY <1>13, <2>2 DEF BreakOff
  <2>4. \A d \in Handlers : judge'[d].about \in {judge[d].about, NoOne}
    <3>1. /\ \A d \in Handlers \ {c} : judge'[d] = judge[d]
          /\ judge'[c] = judge[c] \/ judge'[c] = Idle
      BY <1>13, BreakOffEffect
    <3>2. judge'[c].about \in {judge[c].about, NoOne}
      BY <3>1
    <3> QED
      BY <3>1, <3>2
  <2>5. row' = row /\ seen' = seen /\ credit' = credit /\ web' = web
    BY <1>13 DEF BreakOff
  <2> QED
    BY <2>2, <2>3, <2>4, <2>5
<1>14. ASSUME NEW i \in Disputed, Expire(i) PROVE Unpublished'
  BY <1>14 DEF Expire
<1>15. CASE UNCHANGED vars
  BY <1>15 DEF vars
<1> QED
  BY <1>1, <1>2, <1>3, <1>4, <1>5, <1>6, <1>7, <1>8, <1>9, <1>10, <1>11, <1>12, <1>13,
       <1>14, <1>15 DEF Next, JudgeStep

-----------------------------------------------------------------------------
(* The handlers *)

\* Credits and returned messages only become more.
Grows ==
  \A i \in Disputed : /\ again'[i] >= again[i]
                      /\ credit'[i].applicant >= credit[i].applicant
                      /\ credit'[i].creator >= credit[i].creator

LEMMA Growth == IInv /\ TypeInv' /\ [Next]_vars => Grows
<1> SUFFICES ASSUME IInv, TypeInv', [Next]_vars PROVE Grows
  OBVIOUS
<1> USE DEF IInv, TypeInv, Rows, Judges, Grows
<1>1. ASSUME NEW s \in Sessions, NEW u \in Buyers, Initiate(s, u) PROVE Grows
  BY <1>1 DEF Initiate
<1>2. ASSUME NEW s \in Sessions, Insert(s) PROVE Grows
  BY <1>2 DEF Insert
<1>3. ASSUME NEW s \in Sessions, Publish(s) PROVE Grows
  BY <1>3 DEF Publish
<1>4. ASSUME NEW s \in Sessions, NEW i \in Disputed, BeginManual(s, i) PROVE Grows
  BY <1>4 DEF BeginManual
<1>5. ASSUME NEW s \in Sessions, WriteManual(s) PROVE Grows
  BY <1>5 DEF WriteManual
<1>6. ASSUME NEW s \in Sessions, Crash(s) PROVE Grows
  BY <1>6 DEF Crash
<1>7. ASSUME NEW c \in Handlers, NEW i \in Disputed, Deliver(c, i) PROVE Grows
  BY <1>7 DEF Deliver
<1>8. ASSUME NEW c \in Handlers, Ask(c) PROVE Grows
  BY <1>8 DEF Ask
<1>9. ASSUME NEW c \in Handlers, Refund(c) PROVE Grows
  BY <1>9 DEF Refund
<1>10. ASSUME NEW c \in Handlers, Penalty(c) PROVE Grows
  BY <1>10 DEF Penalty
<1>11. ASSUME NEW c \in Handlers, Write(c) PROVE Grows
  BY <1>11 DEF Write
<1>12. ASSUME NEW c \in Handlers, Fail(c) PROVE Grows
  BY <1>12 DEF Fail
<1>13. ASSUME NEW c \in Handlers, BreakOff(c) PROVE Grows
  BY <1>13 DEF BreakOff
<1>14. ASSUME NEW i \in Disputed, Expire(i) PROVE Grows
  BY <1>14 DEF Expire
<1>15. CASE UNCHANGED vars
  BY <1>15 DEF vars
<1> QED
  BY <1>1, <1>2, <1>3, <1>4, <1>5, <1>6, <1>7, <1>8, <1>9, <1>10, <1>11, <1>12, <1>13,
       <1>14, <1>15 DEF Next, JudgeStep

\* A handler keeps what it has done, unless the others disturb what it holds alone.
LEMMA ProgressKept ==
  ASSUME IInv, TypeInv', Grows, NEW c \in Handlers, judge'[c] = judge[c],
         judge[c].at # "idle" /\ again'[judge[c].about] = 0 =>
           /\ task'[judge[c].about] = task[judge[c].about]
           /\ credit'[judge[c].about] = credit[judge[c].about]
  PROVE  ProgressOf(c)'
<1>1. ProgressOf(c)
  BY DEF IInv, Progress
<1>2. judge[c].at # "idle" => /\ judge[c].about \in Disputed
                              /\ again[judge[c].about] \in Nat
                              /\ again'[judge[c].about] >= again[judge[c].about]
                              /\ again'[judge[c].about] \in Nat
  BY <1>1 DEF ProgressOf, IInv, TypeInv, Rows, Judges, Grows
<1>3. judge[c].at # "idle" =>
        /\ credit[judge[c].about].applicant \in Nat /\ credit[judge[c].about].creator \in Nat
        /\ credit'[judge[c].about].applicant \in Nat /\ credit'[judge[c].about].creator \in Nat
        /\ credit'[judge[c].about].applicant >= credit[judge[c].about].applicant
        /\ credit'[judge[c].about].creator >= credit[judge[c].about].creator
  BY <1>2 DEF IInv, TypeInv, Rows, Judges, Grows
<1> QED
  BY <1>1, <1>2, <1>3 DEF ProgressOf, Paid

\* A handler that has just asked for the AI's verdict on a message that never came back
\* has had no forerunner.
LEMMA FreshRun ==
  ASSUME IInv, NEW c \in Handlers, judge[c].at = "ask", again[judge[c].about] = 0
  PROVE  credit[judge[c].about] = NoCredit
<1> DEFINE i == judge[c].about
<1>1. i \in Disputed /\ c \in UnpaidA(i) /\ c \in UnpaidC(i)
  BY DEF IInv, Progress, ProgressOf, UnpaidA, UnpaidC
<1>2. CountOf(i) /\ credit[i] \in [applicant : Nat, creator : Nat] /\ Runs(i) <= 1
  BY <1>1 DEF IInv, TypeInv, Rows, Judges, Count, Runs
<1> HIDE DEF i
<1>3. Cardinality(UnpaidA(i)) >= 1 /\ Cardinality(UnpaidC(i)) >= 1
  <2>1. ASSUME NEW S, IsFiniteSet(S), c \in S PROVE Cardinality(S) >= 1
    <3>1. Cardinality(S) \in Nat /\ (Cardinality(S) = 0 <=> S = {})
      BY <2>1, FS_CardinalityType, FS_EmptySet
    <3> QED
      BY <2>1, <3>1
  <2> QED
    BY <1>1, <1>2, <2>1 DEF CountOf
<1>4. Cardinality(UnpaidA(i)) \in Nat /\ Cardinality(UnpaidC(i)) \in Nat /\ Runs(i) \in Int
  BY <1>1, <1>2, FS_CardinalityType DEF CountOf, Runs, IInv, TypeInv, Rows, Judges
<1>5. credit[i].applicant = 0 /\ credit[i].creator = 0
  BY <1>2, <1>3, <1>4 DEF CountOf
<1> QED
  BY <1>2, <1>5 DEF NoCredit, i

\* Every step of a handler finds what it needs and leaves what the next one needs.
LEMMA ProgressStep == IInv /\ TypeInv' /\ [Next]_vars => Progress'
<1> SUFFICES ASSUME IInv, TypeInv', [Next]_vars PROVE Progress'
  OBVIOUS
<1>0. Grows
  BY Growth
<1> USE DisputesAssumption DEF Goto, Finish, Fault
<1>1. ASSUME NEW s \in Sessions, NEW u \in Buyers, Initiate(s, u) PROVE Progress'
  <2> SUFFICES ASSUME NEW d \in Handlers PROVE ProgressOf(d)'
    BY DEF Progress
  <2>1. ProgressOf(d) /\ judge' = judge /\ credit' = credit
    BY <1>1 DEF Initiate, IInv, Progress
  <2>2. judge[d].at # "idle" /\ again'[judge[d].about] = 0 =>
          task'[judge[d].about] = task[judge[d].about]
    BY <1>1, <1>0, <2>1 DEF Initiate, Grows, IInv, TypeInv, Rows, Judges, Unpublished,
         ProgressOf
  <2> QED
    BY <1>0, <2>1, <2>2, ProgressKept
<1>2. ASSUME NEW s \in Sessions, Insert(s) PROVE Progress'
  <2> SUFFICES ASSUME NEW d \in Handlers PROVE ProgressOf(d)'
    BY DEF Progress
  <2>1. ProgressOf(d) /\ judge' = judge /\ credit' = credit
    BY <1>2 DEF Insert, IInv, Progress
  <2>2. judge[d].at # "idle" /\ again'[judge[d].about] = 0 =>
          task'[judge[d].about] = task[judge[d].about]
    BY <1>2, <1>0, <2>1 DEF Insert, Grows, IInv, TypeInv, Rows, Judges, Unpublished,
         ProgressOf
  <2> QED
    BY <1>0, <2>1, <2>2, ProgressKept
<1>3. ASSUME NEW s \in Sessions, Publish(s) PROVE Progress'
  <2> SUFFICES ASSUME NEW d \in Handlers PROVE ProgressOf(d)'
    BY DEF Progress
  <2>1. ProgressOf(d) /\ judge' = judge /\ credit' = credit
    BY <1>3 DEF Publish, IInv, Progress
  <2>2. judge[d].at # "idle" /\ again'[judge[d].about] = 0 =>
          task'[judge[d].about] = task[judge[d].about]
    BY <1>3, <1>0, <2>1 DEF Publish, Grows, IInv, TypeInv, Rows, Judges, Unpublished,
         ProgressOf
  <2> QED
    BY <1>0, <2>1, <2>2, ProgressKept
<1>4. ASSUME NEW s \in Sessions, NEW i \in Disputed, BeginManual(s, i) PROVE Progress'
  <2> SUFFICES ASSUME NEW d \in Handlers PROVE ProgressOf(d)'
    BY DEF Progress
  <2>1. ProgressOf(d) /\ judge' = judge /\ credit' = credit
    BY <1>4 DEF BeginManual, IInv, Progress
  <2>2. judge[d].at # "idle" /\ again'[judge[d].about] = 0 =>
          task'[judge[d].about] = task[judge[d].about]
    BY <1>4, <1>0, <2>1 DEF BeginManual, Grows, IInv, TypeInv, Rows, Judges, Unpublished,
         ProgressOf
  <2> QED
    BY <1>0, <2>1, <2>2, ProgressKept
<1>5. ASSUME NEW s \in Sessions, WriteManual(s) PROVE Progress'
  <2> SUFFICES ASSUME NEW d \in Handlers PROVE ProgressOf(d)'
    BY DEF Progress
  <2>1. ProgressOf(d) /\ judge' = judge /\ credit' = credit
    BY <1>5 DEF WriteManual, IInv, Progress
  <2>2. judge[d].at # "idle" /\ again'[judge[d].about] = 0 =>
          task'[judge[d].about] = task[judge[d].about]
    BY <1>5, <1>0, <2>1 DEF WriteManual, Grows, IInv, TypeInv, Rows, Judges, Unpublished,
         ProgressOf
  <2> QED
    BY <1>0, <2>1, <2>2, ProgressKept
<1>6. ASSUME NEW s \in Sessions, Crash(s) PROVE Progress'
  <2> SUFFICES ASSUME NEW d \in Handlers PROVE ProgressOf(d)'
    BY DEF Progress
  <2>1. ProgressOf(d) /\ judge' = judge /\ credit' = credit
    BY <1>6 DEF Crash, IInv, Progress
  <2>2. judge[d].at # "idle" /\ again'[judge[d].about] = 0 =>
          task'[judge[d].about] = task[judge[d].about]
    BY <1>6, <1>0, <2>1 DEF Crash, Grows, IInv, TypeInv, Rows, Judges, Unpublished, ProgressOf
  <2> QED
    BY <1>0, <2>1, <2>2, ProgressKept
<1>7. ASSUME NEW c \in Handlers, NEW i \in Disputed, Deliver(c, i) PROVE Progress'
  <2>1. ProgressOf(c)
    BY DEF IInv, Progress
  <2>2. ProgressOf(c)'
    <3>1. CASE i \notin seen /\ Judgeable(i)
      <4>1. /\ judge'[c] = [at |-> "ask", about |-> i, verdict |-> "none", sure |-> FALSE]
            /\ task'[i] = c
        BY <1>7, <3>1, DeliverEffect DEF Judgeable, IInv, TypeInv, Rows, Judges
      <4> QED
        BY <4>1 DEF ProgressOf, Idle
    <3>2. CASE ~(i \notin seen /\ Judgeable(i))
      <4>1. judge'[c] = Idle
        BY <1>7, <3>2 DEF Deliver
      <4> QED
        BY <4>1 DEF ProgressOf, Idle
    <3> QED
      BY <3>1, <3>2
  <2>3. ASSUME NEW d \in Handlers \ {c} PROVE ProgressOf(d)'
    <3>1. ProgressOf(d) /\ judge'[d] = judge[d]
      BY <1>7 DEF Deliver, IInv, TypeInv, Rows, Judges, Progress
    <3>2. judge[d].at # "idle" /\ again'[judge[d].about] = 0 =>
            /\ task'[judge[d].about] = task[judge[d].about]
            /\ credit'[judge[d].about] = credit[judge[d].about]
      BY <1>7, <1>0, <2>1, <3>1 DEF Deliver, Grows, IInv, TypeInv, Rows, Judges, ProgressOf
    <3> QED
      BY <1>0, <3>1, <3>2, ProgressKept
  <2> QED
    BY <2>2, <2>3 DEF Progress
<1>8. ASSUME NEW c \in Handlers, Ask(c) PROVE Progress'
  <2>1. ProgressOf(c)
    BY DEF IInv, Progress
  <2>2. ProgressOf(c)'
    BY <1>8, <1>0, <2>1, FreshRun DEF Ask, Verdicts, AfterAnswer, FirstOf, IInv,
         TypeInv, Rows, Judges, ProgressOf, Paid, Idle, Grows
  <2>3. ASSUME NEW d \in Handlers \ {c} PROVE ProgressOf(d)'
    <3>1. ProgressOf(d) /\ judge'[d] = judge[d]
      BY <1>8 DEF Ask, IInv, TypeInv, Rows, Judges, Progress
    <3>2. judge[d].at # "idle" /\ again'[judge[d].about] = 0 =>
            /\ task'[judge[d].about] = task[judge[d].about]
            /\ credit'[judge[d].about] = credit[judge[d].about]
      BY <1>8, <1>0, <2>1, <3>1 DEF Ask, Grows, IInv, TypeInv, Rows, Judges, ProgressOf
    <3> QED
      BY <1>0, <3>1, <3>2, ProgressKept
  <2> QED
    BY <2>2, <2>3 DEF Progress
<1>9. ASSUME NEW c \in Handlers, Refund(c) PROVE Progress'
  <2>1. ProgressOf(c)
    BY DEF IInv, Progress
  <2>2. ProgressOf(c)'
    <3> DEFINE k == judge[c].about
    <3>1. k \in Disputed /\ judge[c].at # "idle"
      BY <1>9, <2>1 DEF Refund, ProgressOf
    <3>3. /\ credit'[k].applicant = credit[k].applicant + 1
          /\ credit'[k].creator = credit[k].creator
      BY <1>9, <3>1 DEF Refund, IInv, TypeInv, Rows, Judges
    <3>4. /\ credit[k].applicant \in Nat /\ credit[k].creator \in Nat
          /\ task' = task /\ again' = again
      BY <1>9, <3>1 DEF Refund, IInv, TypeInv, Rows, Judges
    <3>5. judge[c].at = "refund" /\ judge[c] \in Judges
      BY <1>9 DEF Refund, IInv, TypeInv, Rows, Judges
    <3>6. /\ judge'[c].at = IF judge[c].verdict = "shared" THEN "penalty" ELSE "write"
          /\ judge'[c].about = k /\ judge'[c].verdict = judge[c].verdict
          /\ judge'[c].sure = judge[c].sure
      BY <1>9, Moved DEF Refund, IInv
    <3> QED
      BY <2>1, <3>1, <3>3, <3>4, <3>5, <3>6 DEF ProgressOf, Paid, Judges
  <2>3. ASSUME NEW d \in Handlers \ {c} PROVE ProgressOf(d)'
    <3>1. ProgressOf(d) /\ judge'[d] = judge[d]
      BY <1>9 DEF Refund, IInv, TypeInv, Rows, Judges, Progress
    <3>2. judge[d].at # "idle" /\ again'[judge[d].about] = 0 =>
            /\ task'[judge[d].about] = task[judge[d].about]
            /\ credit'[judge[d].about] = credit[judge[d].about]
      BY <1>9, <1>0, <2>1, <3>1 DEF Refund, Grows, IInv, TypeInv, Rows, Judges, ProgressOf
    <3> QED
      BY <1>0, <3>1, <3>2, ProgressKept
  <2> QED
    BY <2>2, <2>3 DEF Progress
<1>10. ASSUME NEW c \in Handlers, Penalty(c) PROVE Progress'
  <2>1. ProgressOf(c)
    BY DEF IInv, Progress
  <2>2. ProgressOf(c)'
    <3> DEFINE k == judge[c].about
    <3>1. k \in Disputed /\ judge[c].at # "idle"
      BY <1>10, <2>1 DEF Penalty, ProgressOf
    <3>3. /\ credit'[k].creator = credit[k].creator + 1
          /\ credit'[k].applicant = credit[k].applicant
      BY <1>10, <3>1 DEF Penalty, IInv, TypeInv, Rows, Judges
    <3>4. /\ credit[k].applicant \in Nat /\ credit[k].creator \in Nat
          /\ task' = task /\ again' = again
      BY <1>10, <3>1 DEF Penalty, IInv, TypeInv, Rows, Judges
    <3>5. judge[c].at = "penalty" /\ judge[c] \in Judges
      BY <1>10 DEF Penalty, IInv, TypeInv, Rows, Judges
    <3>6. /\ judge'[c].at = "write"
          /\ judge'[c].about = k /\ judge'[c].verdict = judge[c].verdict
          /\ judge'[c].sure = judge[c].sure
      BY <1>10, Moved DEF Penalty, IInv
    <3> QED
      BY <2>1, <3>1, <3>3, <3>4, <3>5, <3>6 DEF ProgressOf, Paid, Judges
  <2>3. ASSUME NEW d \in Handlers \ {c} PROVE ProgressOf(d)'
    <3>1. ProgressOf(d) /\ judge'[d] = judge[d]
      BY <1>10 DEF Penalty, IInv, TypeInv, Rows, Judges, Progress
    <3>2. judge[d].at # "idle" /\ again'[judge[d].about] = 0 =>
            /\ task'[judge[d].about] = task[judge[d].about]
            /\ credit'[judge[d].about] = credit[judge[d].about]
      BY <1>10, <1>0, <2>1, <3>1 DEF Penalty, Grows, IInv, TypeInv, Rows, Judges, ProgressOf
    <3> QED
      BY <1>0, <3>1, <3>2, ProgressKept
  <2> QED
    BY <2>2, <2>3 DEF Progress
<1>11. ASSUME NEW c \in Handlers, Write(c) PROVE Progress'
  <2>1. ProgressOf(c)
    BY DEF IInv, Progress
  <2>2. ProgressOf(c)'
    BY <1>11, <1>0, <2>1 DEF Write, IInv, TypeInv, Rows, Judges, ProgressOf, Paid, Idle, Grows
  <2>3. ASSUME NEW d \in Handlers \ {c} PROVE ProgressOf(d)'
    <3>1. ProgressOf(d) /\ judge'[d] = judge[d]
      BY <1>11 DEF Write, IInv, TypeInv, Rows, Judges, Progress
    <3>2. judge[d].at # "idle" /\ again'[judge[d].about] = 0 =>
            /\ task'[judge[d].about] = task[judge[d].about]
            /\ credit'[judge[d].about] = credit[judge[d].about]
      BY <1>11, <1>0, <2>1, <3>1 DEF Write, Grows, IInv, TypeInv, Rows, Judges, ProgressOf
    <3> QED
      BY <1>0, <3>1, <3>2, ProgressKept
  <2> QED
    BY <2>2, <2>3 DEF Progress
<1>12. ASSUME NEW c \in Handlers, Fail(c) PROVE Progress'
  <2>1. ProgressOf(c)
    BY DEF IInv, Progress
  <2>2. ProgressOf(c)'
    BY <1>12, <1>0, <2>1 DEF Fail, IInv, TypeInv, Rows, Judges, ProgressOf, Paid, Idle, Grows
  <2>3. ASSUME NEW d \in Handlers \ {c} PROVE ProgressOf(d)'
    <3>1. ProgressOf(d) /\ judge'[d] = judge[d]
      BY <1>12 DEF Fail, IInv, TypeInv, Rows, Judges, Progress
    <3>2. judge[d].at # "idle" /\ again'[judge[d].about] = 0 =>
            /\ task'[judge[d].about] = task[judge[d].about]
            /\ credit'[judge[d].about] = credit[judge[d].about]
      BY <1>12, <1>0, <2>1, <3>1 DEF Fail, Grows, IInv, TypeInv, Rows, Judges, ProgressOf
    <3> QED
      BY <1>0, <3>1, <3>2, ProgressKept
  <2> QED
    BY <2>2, <2>3 DEF Progress
<1>13. ASSUME NEW c \in Handlers, BreakOff(c) PROVE Progress'
  <2>1. ProgressOf(c)
    BY DEF IInv, Progress
  <2>2. ProgressOf(c)'
    BY <1>13, <1>0, <2>1 DEF BreakOff, IInv, TypeInv, Rows, Judges, ProgressOf, Paid,
         Idle, Grows
  <2>3. ASSUME NEW d \in Handlers \ {c} PROVE ProgressOf(d)'
    <3>1. ProgressOf(d) /\ judge'[d] = judge[d]
      BY <1>13 DEF BreakOff, IInv, TypeInv, Rows, Judges, Progress
    <3>2. judge[d].at # "idle" /\ again'[judge[d].about] = 0 =>
            /\ task'[judge[d].about] = task[judge[d].about]
            /\ credit'[judge[d].about] = credit[judge[d].about]
      BY <1>13, <1>0, <2>1, <3>1 DEF BreakOff, Grows, IInv, TypeInv, Rows, Judges, ProgressOf
    <3> QED
      BY <1>0, <3>1, <3>2, ProgressKept
  <2> QED
    BY <2>2, <2>3 DEF Progress
<1>14. ASSUME NEW i \in Disputed, Expire(i) PROVE Progress'
  <2> SUFFICES ASSUME NEW d \in Handlers PROVE ProgressOf(d)'
    BY DEF Progress
  <2>1. ProgressOf(d) /\ judge' = judge /\ credit' = credit
    BY <1>14 DEF Expire, IInv, Progress
  <2>2. judge[d].at # "idle" /\ again'[judge[d].about] = 0 =>
          task'[judge[d].about] = task[judge[d].about]
    BY <1>14, <1>0, <2>1 DEF Expire, Grows, IInv, TypeInv, Rows, Judges, Unpublished,
         ProgressOf
  <2> QED
    BY <1>0, <2>1, <2>2, ProgressKept
<1>15. CASE UNCHANGED vars
  <2> SUFFICES ASSUME NEW d \in Handlers PROVE ProgressOf(d)'
    BY DEF Progress
  <2>1. ProgressOf(d) /\ judge' = judge /\ credit' = credit
    BY <1>15 DEF vars, IInv, Progress
  <2>2. judge[d].at # "idle" /\ again'[judge[d].about] = 0 =>
          task'[judge[d].about] = task[judge[d].about]
    BY <1>15, <1>0, <2>1 DEF vars, Grows, IInv, TypeInv, Rows, Judges, Unpublished, ProgressOf
  <2> QED
    BY <1>0, <2>1, <2>2, ProgressKept
<1> QED
  BY <1>1, <1>2, <1>3, <1>4, <1>5, <1>6, <1>7, <1>8, <1>9, <1>10, <1>11, <1>12, <1>13,
       <1>14, <1>15 DEF Next, JudgeStep

-----------------------------------------------------------------------------
(* Counting *)

LEMMA Counted ==
  ASSUME IInv, NEW i \in Disputed
  PROVE  /\ IsFiniteSet(UnpaidA(i)) /\ IsFiniteSet(UnpaidC(i))
         /\ Cardinality(UnpaidA(i)) \in Nat /\ Cardinality(UnpaidC(i)) \in Nat
         /\ credit[i].applicant \in Nat /\ credit[i].creator \in Nat
         /\ Runs(i) \in Nat
         /\ credit[i].applicant + Cardinality(UnpaidA(i)) <= Runs(i)
         /\ credit[i].creator + Cardinality(UnpaidC(i)) <= Runs(i)
<1>1. CountOf(i) /\ credit[i] \in [applicant : Nat, creator : Nat] /\ Runs(i) \in Nat
  BY DEF IInv, TypeInv, Rows, Judges, Count, Runs
<1> QED
  BY <1>1, FS_CardinalityType DEF CountOf

\* No new handler and no new credit.
LEMMA CountKept ==
  ASSUME IInv, TypeInv', NEW i \in Disputed, credit'[i] = credit[i],
         UnpaidA(i)' \subseteq UnpaidA(i), UnpaidC(i)' \subseteq UnpaidC(i),
         Runs(i)' >= Runs(i)
  PROVE  CountOf(i)'
<1>1. /\ IsFiniteSet(UnpaidA(i)') /\ Cardinality(UnpaidA(i)') <= Cardinality(UnpaidA(i))
      /\ IsFiniteSet(UnpaidC(i)') /\ Cardinality(UnpaidC(i)') <= Cardinality(UnpaidC(i))
  BY Counted, FS_Subset
<1>2. /\ Cardinality(UnpaidA(i)') \in Nat /\ Cardinality(UnpaidC(i)') \in Nat
      /\ Runs(i)' \in Nat
  BY <1>1, FS_CardinalityType DEF TypeInv, Rows, Judges, Runs
<1> QED
  BY <1>1, <1>2, Counted DEF CountOf

\* Another delivery: one handler more that may credit, and one run more.
LEMMA CountRun ==
  ASSUME IInv, TypeInv', NEW i \in Disputed, NEW c \in Handlers, credit'[i] = credit[i],
         c \notin UnpaidA(i), c \notin UnpaidC(i),
         UnpaidA(i)' = UnpaidA(i) \cup {c}, UnpaidC(i)' = UnpaidC(i) \cup {c},
         Runs(i)' = Runs(i) + 1
  PROVE  CountOf(i)'
<1>1. /\ IsFiniteSet(UnpaidA(i)') /\ Cardinality(UnpaidA(i)') = Cardinality(UnpaidA(i)) + 1
      /\ IsFiniteSet(UnpaidC(i)') /\ Cardinality(UnpaidC(i)') = Cardinality(UnpaidC(i)) + 1
  BY Counted, FS_AddElement
<1> QED
  BY <1>1, Counted DEF CountOf

LEMMA OneLess ==
  ASSUME NEW S, IsFiniteSet(S), NEW c \in S
  PROVE  IsFiniteSet(S \ {c}) /\ Cardinality(S \ {c}) = Cardinality(S) - 1
BY FS_RemoveElement

\* The number of runs covers handlers and credits, because a handler takes part in one
\* credit of each kind at most.
LEMMA CountStep == IInv /\ TypeInv' /\ [Next]_vars => Count'
<1> SUFFICES ASSUME IInv, TypeInv', [Next]_vars, NEW j \in Disputed PROVE CountOf(j)'
  BY DEF Count
<1> USE DisputesAssumption DEF Goto, Finish, Fault
<1>1. ASSUME NEW s \in Sessions, NEW u \in Buyers, Initiate(s, u) PROVE CountOf(j)'
  <2>1. credit'[j] = credit[j] /\ UnpaidA(j)' = UnpaidA(j) /\ UnpaidC(j)' = UnpaidC(j)
    BY <1>1 DEF Initiate, UnpaidA, UnpaidC
  <2>2. Runs(j)' >= Runs(j)
    BY <1>1, Counted DEF Initiate, Runs, IInv, TypeInv, Rows, Judges, Unpublished
  <2> QED
    BY <2>1, <2>2, CountKept
<1>2. ASSUME NEW s \in Sessions, Insert(s) PROVE CountOf(j)'
  <2>1. credit'[j] = credit[j] /\ UnpaidA(j)' = UnpaidA(j) /\ UnpaidC(j)' = UnpaidC(j)
    BY <1>2 DEF Insert, UnpaidA, UnpaidC
  <2>2. Runs(j)' >= Runs(j)
    BY <1>2, Counted DEF Insert, Runs, IInv, TypeInv, Rows, Judges, Unpublished
  <2> QED
    BY <2>1, <2>2, CountKept
<1>3. ASSUME NEW s \in Sessions, Publish(s) PROVE CountOf(j)'
  <2>1. credit'[j] = credit[j] /\ UnpaidA(j)' = UnpaidA(j) /\ UnpaidC(j)' = UnpaidC(j)
    BY <1>3 DEF Publish, UnpaidA, UnpaidC
  <2>2. Runs(j)' >= Runs(j)
    BY <1>3, Counted DEF Publish, Runs, IInv, TypeInv, Rows, Judges, Unpublished
  <2> QED
    BY <2>1, <2>2, CountKept
<1>4. ASSUME NEW s \in Sessions, NEW i \in Disputed, BeginManual(s, i) PROVE CountOf(j)'
  <2>1. credit'[j] = credit[j] /\ UnpaidA(j)' = UnpaidA(j) /\ UnpaidC(j)' = UnpaidC(j)
    BY <1>4 DEF BeginManual, UnpaidA, UnpaidC
  <2>2. Runs(j)' >= Runs(j)
    BY <1>4, Counted DEF BeginManual, Runs, IInv, TypeInv, Rows, Judges, Unpublished
  <2> QED
    BY <2>1, <2>2, CountKept
<1>5. ASSUME NEW s \in Sessions, WriteManual(s) PROVE CountOf(j)'
  <2>1. credit'[j] = credit[j] /\ UnpaidA(j)' = UnpaidA(j) /\ UnpaidC(j)' = UnpaidC(j)
    BY <1>5 DEF WriteManual, UnpaidA, UnpaidC
  <2>2. Runs(j)' >= Runs(j)
    BY <1>5, Counted DEF WriteManual, Runs, IInv, TypeInv, Rows, Judges, Unpublished
  <2> QED
    BY <2>1, <2>2, CountKept
<1>6. ASSUME NEW s \in Sessions, Crash(s) PROVE CountOf(j)'
  <2>1. credit'[j] = credit[j] /\ UnpaidA(j)' = UnpaidA(j) /\ UnpaidC(j)' = UnpaidC(j)
    BY <1>6 DEF Crash, UnpaidA, UnpaidC
  <2>2. Runs(j)' >= Runs(j)
    BY <1>6, Counted DEF Crash, Runs, IInv, TypeInv, Rows, Judges, Unpublished
  <2> QED
    BY <2>1, <2>2, CountKept
<1>7. ASSUME NEW c \in Handlers, NEW i \in Disputed, Deliver(c, i) PROVE CountOf(j)'
  <2>1. ProgressOf(c) /\ judge[c].about \in Disputed \cup {NoOne}
    BY DEF IInv, TypeInv, Rows, Judges, Progress
  <2>2. CASE j = i /\ i \notin seen /\ Judgeable(i)
    <3>1. /\ credit'[j] = credit[j] /\ c \notin UnpaidA(j) /\ c \notin UnpaidC(j)
          /\ UnpaidA(j)' = UnpaidA(j) \cup {c} /\ UnpaidC(j)' = UnpaidC(j) \cup {c}
      <4>1. /\ judge[c].about # i /\ judge'[c].about = i /\ judge'[c].at = "ask"
            /\ \A d \in Handlers \ {c} : judge'[d] = judge[d]
        BY <1>7, <2>2, DeliverEffect DEF Deliver, Judgeable, Idle, IInv, TypeInv, Judges
      <4>2. credit' = credit
        BY <1>7 DEF Deliver
      <4> QED
        BY <2>2, <4>1, <4>2 DEF UnpaidA, UnpaidC
    <3>2. Runs(j)' = Runs(j) + 1
      BY <1>7, <2>2 DEF Deliver, SeenFrom, Holder, Runs, IInv, TypeInv, Rows, Judges
    <3> QED
      BY <3>1, <3>2, CountRun
  <2>3. CASE ~(j = i /\ i \notin seen /\ Judgeable(i))
    <3>1. /\ credit'[j] = credit[j]
          /\ UnpaidA(j)' = UnpaidA(j) /\ UnpaidC(j)' = UnpaidC(j)
      <4>1. /\ judge[c].about # j /\ judge'[c].about # j
            /\ \A d \in Handlers \ {c} : judge'[d] = judge[d]
        BY <1>7, <2>3, DeliverEffect DEF Deliver, Judgeable, Idle, IInv, TypeInv, Judges
      <4>2. credit' = credit
        BY <1>7 DEF Deliver
      <4> QED
        BY <4>1, <4>2 DEF UnpaidA, UnpaidC
    <3>2. Runs(j)' >= Runs(j)
      BY <1>7, <2>3, Counted DEF Deliver, SeenFrom, Holder, Runs, IInv, TypeInv, Rows, Judges
    <3> QED
      BY <3>1, <3>2, CountKept
  <2> QED
    BY <2>2, <2>3
<1>8. ASSUME NEW c \in Handlers, Ask(c) PROVE CountOf(j)'
  <2>1. ProgressOf(c) /\ judge[c].about \in Disputed \cup {NoOne}
    BY DEF IInv, TypeInv, Rows, Judges, Progress
  <2>2. /\ credit'[j] = credit[j]
        /\ UnpaidA(j)' \subseteq UnpaidA(j) /\ UnpaidC(j)' \subseteq UnpaidC(j)
    BY <1>8, <2>1 DEF Ask, Verdicts, AfterAnswer, FirstOf, Idle, UnpaidA, UnpaidC,
         IInv, TypeInv, Rows, Judges
  <2>3. Runs(j)' >= Runs(j)
    BY <1>8, <2>1, Counted DEF Ask, Runs, IInv, TypeInv, Rows, Judges, ProgressOf
  <2> QED
    BY <2>2, <2>3, CountKept
<1>9. ASSUME NEW c \in Handlers, Refund(c) PROVE CountOf(j)'
  <2>1. ProgressOf(c) /\ judge[c].about \in Disputed \cup {NoOne}
    BY DEF IInv, TypeInv, Rows, Judges, Progress
  <2>2. CASE judge[c].about = j
    <3>1. /\ credit'[j].applicant = credit[j].applicant + 1 /\ credit'[j].creator = credit[j].creator
          /\ c \in UnpaidA(j) /\ UnpaidA(j)' = UnpaidA(j) \ {c}
          /\ UnpaidC(j)' \subseteq UnpaidC(j) /\ Runs(j)' = Runs(j)
      BY <1>9, <2>1, <2>2 DEF Refund, UnpaidA, UnpaidC, Runs, IInv, TypeInv, Rows, Judges
    <3>2. IsFiniteSet(UnpaidA(j)') /\ Cardinality(UnpaidA(j)') = Cardinality(UnpaidA(j)) - 1
      BY <3>1, Counted, OneLess
    <3>3. IsFiniteSet(UnpaidC(j)') /\ Cardinality(UnpaidC(j)') <= Cardinality(UnpaidC(j))
      BY <3>1, Counted, FS_Subset
    <3>4. Cardinality(UnpaidA(j)') \in Nat /\ Cardinality(UnpaidC(j)') \in Nat
      BY <3>2, <3>3, FS_CardinalityType
    <3> QED
      BY <3>1, <3>2, <3>3, <3>4, Counted DEF CountOf
  <2>3. CASE judge[c].about # j
    <3>1. /\ credit'[j] = credit[j] /\ Runs(j)' = Runs(j)
          /\ UnpaidA(j)' \subseteq UnpaidA(j) /\ UnpaidC(j)' \subseteq UnpaidC(j)
      BY <1>9, <2>1, <2>3 DEF Refund, UnpaidA, UnpaidC, Runs, IInv, TypeInv, Rows, Judges
    <3> QED
      BY <3>1, Counted, CountKept
  <2> QED
    BY <2>2, <2>3
<1>10. ASSUME NEW c \in Handlers, Penalty(c) PROVE CountOf(j)'
  <2>1. ProgressOf(c) /\ judge[c].about \in Disputed \cup {NoOne}
    BY DEF IInv, TypeInv, Rows, Judges, Progress
  <2>2. CASE judge[c].about = j
    <3>1. /\ credit'[j].creator = credit[j].creator + 1 /\ credit'[j].applicant = credit[j].applicant
          /\ c \in UnpaidC(j) /\ UnpaidC(j)' = UnpaidC(j) \ {c}
          /\ UnpaidA(j)' \subseteq UnpaidA(j) /\ Runs(j)' = Runs(j)
      BY <1>10, <2>1, <2>2 DEF Penalty, UnpaidA, UnpaidC, Runs, IInv, TypeInv, Rows, Judges
    <3>2. IsFiniteSet(UnpaidC(j)') /\ Cardinality(UnpaidC(j)') = Cardinality(UnpaidC(j)) - 1
      BY <3>1, Counted, OneLess
    <3>3. IsFiniteSet(UnpaidA(j)') /\ Cardinality(UnpaidA(j)') <= Cardinality(UnpaidA(j))
      BY <3>1, Counted, FS_Subset
    <3>4. Cardinality(UnpaidA(j)') \in Nat /\ Cardinality(UnpaidC(j)') \in Nat
      BY <3>2, <3>3, FS_CardinalityType
    <3> QED
      BY <3>1, <3>2, <3>3, <3>4, Counted DEF CountOf
  <2>3. CASE judge[c].about # j
    <3>1. /\ credit'[j] = credit[j] /\ Runs(j)' = Runs(j)
          /\ UnpaidA(j)' \subseteq UnpaidA(j) /\ UnpaidC(j)' \subseteq UnpaidC(j)
      BY <1>10, <2>1, <2>3 DEF Penalty, UnpaidA, UnpaidC, Runs, IInv, TypeInv, Rows, Judges
    <3> QED
      BY <3>1, Counted, CountKept
  <2> QED
    BY <2>2, <2>3
<1>11. ASSUME NEW c \in Handlers, Write(c) PROVE CountOf(j)'
  <2>1. ProgressOf(c) /\ judge[c].about \in Disputed \cup {NoOne}
    BY DEF IInv, TypeInv, Rows, Judges, Progress
  <2>2. /\ credit'[j] = credit[j]
        /\ UnpaidA(j)' \subseteq UnpaidA(j) /\ UnpaidC(j)' \subseteq UnpaidC(j)
    BY <1>11, <2>1 DEF Write, Idle, UnpaidA, UnpaidC, IInv, TypeInv, Rows, Judges
  <2>3. Runs(j)' >= Runs(j)
    BY <1>11, <2>1, Counted DEF Write, Runs, IInv, TypeInv, Rows, Judges, ProgressOf
  <2> QED
    BY <2>2, <2>3, CountKept
<1>12. ASSUME NEW c \in Handlers, Fail(c) PROVE CountOf(j)'
  <2>1. ProgressOf(c) /\ judge[c].about \in Disputed \cup {NoOne}
    BY DEF IInv, TypeInv, Rows, Judges, Progress
  <2>2. /\ credit'[j] = credit[j]
        /\ UnpaidA(j)' \subseteq UnpaidA(j) /\ UnpaidC(j)' \subseteq UnpaidC(j)
    BY <1>12, <2>1 DEF Fail, Idle, UnpaidA, UnpaidC, IInv, TypeInv, Rows, Judges
  <2>3. Runs(j)' >= Runs(j)
    BY <1>12, <2>1, Counted DEF Fail, Runs, IInv, TypeInv, Rows, Judges, ProgressOf
  <2> QED
    BY <2>2, <2>3, CountKept
<1>13. ASSUME NEW c \in Handlers, BreakOff(c) PROVE CountOf(j)'
  <2>1. ProgressOf(c) /\ judge[c].about \in Disputed \cup {NoOne}
    BY DEF IInv, TypeInv, Rows, Judges, Progress
  <2>2. /\ credit'[j] = credit[j]
        /\ UnpaidA(j)' \subseteq UnpaidA(j) /\ UnpaidC(j)' \subseteq UnpaidC(j)
    <3>1. \A d \in Handlers : judge'[d] = judge[d] \/ judge'[d] = Idle
      BY <1>13 DEF BreakOff, IInv, TypeInv, Rows, Judges
    <3>2. credit' = credit
      BY <1>13 DEF BreakOff
    <3> QED
      BY <3>1, <3>2 DEF UnpaidA, UnpaidC, Idle
  <2>3. Runs(j)' >= Runs(j)
    <3>1. /\ \/ /\ task[judge[c].about] = c
                /\ task' = [task EXCEPT ![judge[c].about] = "queued"]
                /\ again' = [again EXCEPT ![judge[c].about] = @ + 1]
             \/ task' = task /\ again' = again
          /\ seen' = seen /\ backed' = backed
      BY <1>13, BreakOffEffect DEF IInv, BreakOff
    <3>2. /\ task \in [Disputed -> {"none", "queued", "gone"} \cup Handlers]
          /\ again \in [Disputed -> Nat]
      BY DEF IInv, TypeInv
    <3>3. CASE judge[c].about = j /\ task[j] = c
      BY <3>1, <3>2, <3>3 DEF Runs
    <3>4. CASE ~(judge[c].about = j /\ task[j] = c)
      <4>1. task'[j] = task[j] /\ again'[j] = again[j]
        BY <3>1, <3>2, <3>4
      <4> QED
        BY <3>1, <3>2, <4>1 DEF Runs
    <3> QED
      BY <3>3, <3>4
  <2> QED
    BY <2>2, <2>3, CountKept
<1>14. ASSUME NEW i \in Disputed, Expire(i) PROVE CountOf(j)'
  <2>1. credit'[j] = credit[j] /\ UnpaidA(j)' = UnpaidA(j) /\ UnpaidC(j)' = UnpaidC(j)
    BY <1>14 DEF Expire, UnpaidA, UnpaidC
  <2>2. Runs(j)' >= Runs(j)
    BY <1>14, Counted DEF Expire, Runs, IInv, TypeInv, Rows, Judges, Unpublished
  <2> QED
    BY <2>1, <2>2, CountKept
<1>15. CASE UNCHANGED vars
  <2>1. credit'[j] = credit[j] /\ UnpaidA(j)' = UnpaidA(j) /\ UnpaidC(j)' = UnpaidC(j)
    BY <1>15 DEF vars, UnpaidA, UnpaidC
  <2>2. Runs(j)' >= Runs(j)
    BY <1>15, Counted DEF vars, Runs, IInv, TypeInv, Rows, Judges, Unpublished
  <2> QED
    BY <2>1, <2>2, CountKept
<1> QED
  BY <1>1, <1>2, <1>3, <1>4, <1>5, <1>6, <1>7, <1>8, <1>9, <1>10, <1>11, <1>12, <1>13,
       <1>14, <1>15 DEF Next, JudgeStep

-----------------------------------------------------------------------------
(* Rows *)

\* A row is left to an administrator only when nobody has been paid or will be, and
\* resolved by the AI only when its verdict has been paid.
LEMMA RowStep == IInv /\ TypeInv' /\ [Next]_vars => Left' /\ ResolvedIsPaid'
<1> SUFFICES ASSUME IInv, TypeInv', [Next]_vars PROVE Left' /\ ResolvedIsPaid'
  OBVIOUS
<1>0. Grows
  BY Growth
<1> USE DisputesAssumption DEF IInv, TypeInv, Rows, Judges, Left, ResolvedIsPaid, Grows,
     Goto, Finish, Fault, Idle
<1>1. ASSUME NEW s \in Sessions, NEW u \in Buyers, Initiate(s, u)
     PROVE Left' /\ ResolvedIsPaid'
  BY <1>1, <1>0 DEF Initiate
<1>2. ASSUME NEW s \in Sessions, Insert(s) PROVE Left' /\ ResolvedIsPaid'
  BY <1>2, <1>0 DEF Insert, Unused, Filed, Unpublished
<1>3. ASSUME NEW s \in Sessions, Publish(s) PROVE Left' /\ ResolvedIsPaid'
  BY <1>3, <1>0 DEF Publish, Unpublished
<1>4. ASSUME NEW s \in Sessions, NEW i \in Disputed, BeginManual(s, i)
     PROVE Left' /\ ResolvedIsPaid'
  BY <1>4, <1>0 DEF BeginManual
<1>5. ASSUME NEW s \in Sessions, WriteManual(s) PROVE Left' /\ ResolvedIsPaid'
  BY <1>5, <1>0 DEF WriteManual, Verdicts
<1>6. ASSUME NEW s \in Sessions, Crash(s) PROVE Left' /\ ResolvedIsPaid'
  BY <1>6, <1>0 DEF Crash
<1>7. ASSUME NEW c \in Handlers, NEW i \in Disputed, Deliver(c, i)
     PROVE Left' /\ ResolvedIsPaid'
  <2>1. ProgressOf(c)
    BY DEF Progress
  <2>2. \A d \in Handlers : ProgressOf(d)
    BY DEF Progress
  <2>3. Left'
    <3>1. row' = row /\ again' = again /\ credit' = credit
      BY <1>7 DEF Deliver
    <3>2. \A d \in Handlers : \/ judge'[d] = judge[d]
                              \/ judge'[d].about = NoOne
                              \/ judge'[d].about = i /\ row[i].status = "PENDING"
      <4>1. /\ \A d \in Handlers \ {c} : judge'[d] = judge[d]
            /\ \/ /\ row[i].status = "PENDING"
                  /\ judge'[c] = [at |-> "ask", about |-> i, verdict |-> "none", sure |-> FALSE]
               \/ judge'[c] = judge[c]
        BY <1>7, DeliverEffect
      <4>2. judge'[c] = judge[c] \/ (judge'[c].about = i /\ row[i].status = "PENDING")
        <5>1. CASE judge'[c] = judge[c]
          BY <5>1
        <5>2. CASE /\ row[i].status = "PENDING"
                   /\ judge'[c] = [at |-> "ask", about |-> i, verdict |-> "none", sure |-> FALSE]
          BY <5>2
        <5> QED
          BY <4>1, <5>1, <5>2
      <4>3. ASSUME NEW d \in Handlers
            PROVE  \/ judge'[d] = judge[d]
                   \/ judge'[d].about = NoOne
                   \/ judge'[d].about = i /\ row[i].status = "PENDING"
        <5>1. CASE d = c
          BY <4>2, <5>1
        <5>2. CASE d # c
          BY <4>1, <5>2
        <5> QED
          BY <5>1, <5>2
      <4> QED
        BY <4>3
    <3>3. ASSUME NEW k \in Disputed, row'[k].status = "PENDING_MANUAL", again'[k] = 0
          PROVE  credit'[k] = NoCredit /\ \A d \in Handlers : judge'[d].about # k
      <4>1. /\ row[k].status = "PENDING_MANUAL" /\ k # NoOne
            /\ credit[k] = NoCredit /\ \A d \in Handlers : judge[d].about # k
        BY <3>1, <3>3 DEF NoCredit
      <4> QED
        BY <3>1, <3>2, <4>1
    <3> QED
      BY <3>3 DEF NoCredit
  <2>4. ResolvedIsPaid'
    BY <1>7, <1>0, <2>1 DEF Deliver, ProgressOf, Paid
  <2> QED
    BY <2>3, <2>4
<1>8. ASSUME NEW c \in Handlers, Ask(c) PROVE Left' /\ ResolvedIsPaid'
  <2>1. ProgressOf(c)
    BY DEF Progress
  <2>2. \A d \in Handlers : ProgressOf(d)
    BY DEF Progress
  <2>3. Left'
    BY <1>8, <1>0, <2>1, <2>2 DEF Ask, Verdicts, AfterAnswer, FirstOf, ProgressOf
  <2>4. ResolvedIsPaid'
    BY <1>8, <1>0, <2>1 DEF Ask, ProgressOf, Paid
  <2> QED
    BY <2>3, <2>4
<1>9. ASSUME NEW c \in Handlers, Refund(c) PROVE Left' /\ ResolvedIsPaid'
  <2>1. ProgressOf(c)
    BY DEF Progress
  <2>2. \A d \in Handlers : ProgressOf(d)
    BY DEF Progress
  <2>3. Left'
    BY <1>9, <1>0, <2>1, <2>2 DEF Refund, ProgressOf
  <2>4. ResolvedIsPaid'
    BY <1>9, <1>0, <2>1 DEF Refund, ProgressOf, Paid
  <2> QED
    BY <2>3, <2>4
<1>10. ASSUME NEW c \in Handlers, Penalty(c) PROVE Left' /\ ResolvedIsPaid'
  <2>1. ProgressOf(c)
    BY DEF Progress
  <2>2. \A d \in Handlers : ProgressOf(d)
    BY DEF Progress
  <2>3. Left'
    BY <1>10, <1>0, <2>1, <2>2 DEF Penalty, ProgressOf
  <2>4. ResolvedIsPaid'
    BY <1>10, <1>0, <2>1 DEF Penalty, ProgressOf, Paid
  <2> QED
    BY <2>3, <2>4
<1>11. ASSUME NEW c \in Handlers, Write(c) PROVE Left' /\ ResolvedIsPaid'
  <2>1. ProgressOf(c)
    BY DEF Progress
  <2>2. \A d \in Handlers : ProgressOf(d)
    BY DEF Progress
  <2>3. Left'
    BY <1>11, <1>0, <2>1, <2>2 DEF Write, ProgressOf
  <2>4. ResolvedIsPaid'
    BY <1>11, <1>0, <2>1 DEF Write, ProgressOf, Paid
  <2> QED
    BY <2>3, <2>4
<1>12. ASSUME NEW c \in Handlers, Fail(c) PROVE Left' /\ ResolvedIsPaid'
  <2>1. ProgressOf(c)
    BY DEF Progress
  <2>2. \A d \in Handlers : ProgressOf(d)
    BY DEF Progress
  <2>3. Left'
    BY <1>12, <1>0, <2>1, <2>2 DEF Fail, ProgressOf
  <2>4. ResolvedIsPaid'
    BY <1>12, <1>0, <2>1 DEF Fail, ProgressOf, Paid
  <2> QED
    BY <2>3, <2>4
<1>13. ASSUME NEW c \in Handlers, BreakOff(c) PROVE Left' /\ ResolvedIsPaid'
  <2>1. ProgressOf(c)
    BY DEF Progress
  <2>2. \A d \in Handlers : ProgressOf(d)
    BY DEF Progress
  <2>3. Left'
    BY <1>13, <1>0, <2>1, <2>2 DEF BreakOff, ProgressOf
  <2>4. ResolvedIsPaid'
    BY <1>13, <1>0, <2>1 DEF BreakOff, ProgressOf, Paid
  <2> QED
    BY <2>3, <2>4
<1>14. ASSUME NEW i \in Disputed, Expire(i) PROVE Left' /\ ResolvedIsPaid'
  BY <1>14, <1>0 DEF Expire
<1>15. CASE UNCHANGED vars
  BY <1>15, <1>0 DEF vars
<1> QED
  BY <1>1, <1>2, <1>3, <1>4, <1>5, <1>6, <1>7, <1>8, <1>9, <1>10, <1>11, <1>12, <1>13,
       <1>14, <1>15 DEF Next, JudgeStep

-----------------------------------------------------------------------------
(* The theorems *)

LEMMA Initially == Init => IInv
<1> SUFFICES ASSUME Init PROVE IInv
  OBVIOUS
<1> USE DisputesAssumption DEF Init, Idle, IdleWeb, NoRow
<1>1. TypeInv /\ Progress /\ Unpublished /\ Left /\ ResolvedIsPaid
  BY DEF TypeInv, Rows, Judges, Progress, ProgressOf, Unpublished, NoCredit, Left,
     ResolvedIsPaid
<1>2. ASSUME NEW i \in Disputed PROVE CountOf(i)
  <2>1. UnpaidA(i) = {} /\ UnpaidC(i) = {}
    BY DEF UnpaidA, UnpaidC
  <2>2. IsFiniteSet({}) /\ Cardinality({}) = 0
    BY FS_EmptySet
  <2>3. credit[i].applicant = 0 /\ credit[i].creator = 0 /\ Runs(i) = 0
    BY DEF Runs
  <2> QED
    BY <2>1, <2>2, <2>3 DEF CountOf
<1> QED
  BY <1>1, <1>2 DEF IInv, Count

\* Everything the properties rest on holds in every state.
THEOREM Invariant == Spec => []IInv
<1>1. IInv /\ [Next]_vars => IInv'
  <2> SUFFICES ASSUME IInv, [Next]_vars PROVE IInv'
    OBVIOUS
  <2>1. TypeInv'
    BY TypeStep DEF IInv
  <2> QED
    BY <2>1, UnpublishedStep, ProgressStep, CountStep, RowStep DEF IInv
<1> QED
  BY <1>1, Initially, PTL DEF Spec

\* A verdict is executed once, and once more for each time its message came back from a
\* lost consumer that had no Redis (execute_ai_judge, _on_message).
THEOREM NoVerdictTwice == Spec => []ExecutedOnce
<1>1. IInv => ExecutedOnce
  <2> SUFFICES ASSUME IInv, NEW i \in Disputed
               PROVE  /\ credit[i].applicant <= 1 + (IF backed THEN 0 ELSE again[i])
                      /\ credit[i].creator   <= 1 + (IF backed THEN 0 ELSE again[i])
    BY DEF ExecutedOnce
  <2>1. again[i] \in Nat /\ Runs(i) <= 1 + (IF backed THEN 0 ELSE again[i])
    BY DEF IInv, TypeInv, Rows, Judges, Runs
  <2> QED
    BY <2>1, Counted
<1> QED
  BY <1>1, Invariant, PTL

\* A dispute resolved by the AI has been paid in every share of its verdict
\* (execute_ai_judge, _execute_settlement).
THEOREM ResolvedArePaid == Spec => []ResolvedIsPaid
<1>1. IInv => ResolvedIsPaid
  BY DEF IInv
<1> QED
  BY <1>1, Invariant, PTL

\* A dispute that waits for an administrator has not been paid, unless its message came
\* back (execute_ai_judge, initiate_dispute).
THEOREM NothingPaidInAdvance == Spec => []UndecidedIsUnpaid
<1>1. IInv => UndecidedIsUnpaid
  BY DEF IInv, Left, NoCredit, UndecidedIsUnpaid
<1> QED
  BY <1>1, Invariant, PTL
=============================================================================
