------------------------- MODULE WithdrawalsProofs -------------------------
(***************************************************************************)
(* Theorems about Withdrawals: its type invariant, that the wallet is never *)
(* overdrawn, that a rejected application has been paid back, and that the  *)
(* wallet and the applications agree with the payment log.  The rejections  *)
(* are inductive together with their counterpart for the sessions that are  *)
(* about to record one; the log needs what sums over finite sets are, which *)
(* OrderEscrowProofs needs as well and proves the same way.                 *)
(***************************************************************************)
EXTENDS Withdrawals, FiniteSetTheorems, TLAPS

\* The records of the two functions.
AppRows  == [status : Statuses, amount : Nat, today : BOOLEAN]
Requests == [at : {"idle", "lock", "debit", "record", "approve", "return", "reject"},
             amount : Nat, app : Nat]

\* What TypeOK says of the tables and the counters.
TablesOK ==
  /\ wallet \in Int
  /\ app \in [Apps -> AppRows]
  /\ freezes \in Nat
  /\ returned \subseteq Apps
  /\ others \in [sum : Int, count : Nat]
  /\ faults \in Nat
  /\ returned \cap Unused = {}

\* What it says of a session that is in the state r.
RequestOK(r) ==
  /\ r \in Requests
  /\ r.at \in {"approve", "return", "reject"} => r.app \in Apps \ Unused
  /\ r.at \in {"lock", "debit", "record"} => r.amount \in Amounts

SessionsOK ==
  /\ req \in [Sessions -> Requests]
  /\ \A s \in Sessions : RequestOK(req[s])

\* A row that is in use stays in use.
RowsStay == Unused' \subseteq Unused

\* A session on its way to recording a rejection has paid the amount back.
RejectingIsReturned ==
  \A s \in Sessions : req[s].at = "reject" => req[s].app \in returned

\* The invariant the theorems rest on.
WithdrawInv == TypeOK /\ NoOverdraft /\ RejectedIsReturned /\ RejectingIsReturned

-----------------------------------------------------------------------------
(* An amount applied for is a positive number of cents. *)
LEMMA AmountsArePositive == \A a \in Amounts : a \in Nat /\ a > 0
<1>1. MinAmount \in Nat /\ MinAmount > 0 /\ MaxSingle \in Nat
  BY DEF MinAmount, MaxSingle
<1> QED
  BY <1>1, WithdrawalsAssumption DEF WithdrawalsAssumption

LEMMA TypeParts == TypeOK <=> TablesOK /\ SessionsOK
BY DEF TypeOK, TablesOK, SessionsOK, RequestOK, AppRows, Requests

(* What TypeOK says of one session. *)
LEMMA RequestTypes ==
  ASSUME TypeOK, NEW s \in Sessions
  PROVE  /\ req[s] \in Requests
         /\ req[s].at \in {"debit", "record"} =>
              req[s].amount \in Nat /\ req[s].amount > 0
         /\ req[s].at \in {"approve", "return", "reject"} =>
              /\ req[s].app \in Apps
              /\ app[req[s].app] \in AppRows
              /\ app[req[s].app].status # "none"
BY AmountsArePositive, TypeParts DEF TablesOK, SessionsOK, RequestOK, Unused

(* The initial states satisfy the invariant. *)
LEMMA InitWithdrawInv == Init => WithdrawInv
<1> SUFFICES ASSUME Init PROVE WithdrawInv
  OBVIOUS
<1>1. TypeOK
  <2>1. TablesOK
    BY WithdrawalsAssumption
    DEF Init, TablesOK, NoApp, AppRows, Statuses, WithdrawalsAssumption
  <2>2. SessionsOK
    BY DEF Init, SessionsOK, RequestOK, Idle, Requests
  <2> QED
    BY <2>1, <2>2, TypeParts
<1>2. NoOverdraft
  BY WithdrawalsAssumption DEF Init, NoOverdraft, WithdrawalsAssumption
<1>3. RejectedIsReturned
  BY DEF Init, RejectedIsReturned, NoApp
<1>4. RejectingIsReturned
  BY DEF Init, RejectingIsReturned, Idle
<1> QED
  BY <1>1, <1>2, <1>3, <1>4 DEF WithdrawInv

(* The state of a session may change to any that RequestOK allows. *)
LEMMA MoveType ==
  ASSUME SessionsOK, RowsStay, NEW s \in Sessions, NEW r, RequestOK(r),
         req' = [req EXCEPT ![s] = r]
  PROVE  SessionsOK'
BY DEF SessionsOK, RequestOK, RowsStay

LEMMA FinishType ==
  ASSUME SessionsOK, RowsStay, NEW s \in Sessions, Finish(s)
  PROVE  SessionsOK'
<1>1. RequestOK(Idle)
  BY DEF RequestOK, Requests, Idle
<1> QED
  BY <1>1, MoveType DEF Finish

LEMMA GotoType ==
  ASSUME SessionsOK, RowsStay, NEW s \in Sessions, NEW at, Goto(s, at),
         \/ req[s].at \in {"lock", "debit"} /\ at \in {"debit", "record"}
         \/ req[s].at = "return" /\ at = "reject"
  PROVE  SessionsOK'
<1> DEFINE r == [req[s] EXCEPT !.at = at]
<1>1. req[s] \in Requests /\ RequestOK(req[s])
  BY DEF SessionsOK
<1>2. r \in Requests /\ r.at = at /\ r.amount = req[s].amount /\ r.app = req[s].app
  BY <1>1 DEF Requests
<1>3. req' = [req EXCEPT ![s] = r]
  BY DEF Goto, SessionsOK
<1> HIDE DEF r
<1>4. RequestOK(r)
  BY <1>1, <1>2 DEF RequestOK
<1> QED
  BY <1>3, <1>4, MoveType

(* A row whose status is set stays a row. *)
LEMMA StatusType ==
  ASSUME TablesOK, NEW i \in Apps, app[i].status # "none",
         NEW status \in Statuses \ {"none"},
         app' = [app EXCEPT ![i].status = status]
  PROVE  app' \in [Apps -> AppRows] /\ Unused' = Unused
<1> DEFINE row == [app[i] EXCEPT !.status = status]
<1>1. app \in [Apps -> AppRows] /\ app[i] \in AppRows
  BY DEF TablesOK
<1>2. row \in AppRows /\ row.status = status
  BY <1>1 DEF AppRows
<1>3. app' = [app EXCEPT ![i] = row]
  BY <1>1
<1> HIDE DEF row
<1> QED
  BY <1>1, <1>2, <1>3 DEF Unused

(* Every step preserves the type invariant. *)
LEMMA StepTypes ==
  ASSUME TypeOK, [Next]_vars PROVE TypeOK'
<1> USE AmountsArePositive, RequestTypes
<1>0. TablesOK /\ SessionsOK
  BY TypeParts
<1> SUFFICES TablesOK' /\ SessionsOK'
  BY TypeParts, PTL
<1>1. CASE UNCHANGED vars
  BY <1>0, <1>1 DEF vars, TablesOK, SessionsOK, RequestOK, Unused
<1>2. ASSUME NEW s \in Sessions, NEW a \in Amounts, BeginApply(s, a)
      PROVE TablesOK' /\ SessionsOK'
  <2> DEFINE r == [Idle EXCEPT !.at = "lock", !.amount = a]
  <2>1. RequestOK(r)
    BY DEF RequestOK, Requests, Idle
  <2>2. req' = [req EXCEPT ![s] = r] /\ UNCHANGED <<wallet, app, freezes, returned, others, faults>>
    BY <1>2 DEF BeginApply
  <2> HIDE DEF r
  <2> QED
    BY <1>0, <2>1, <2>2, MoveType DEF TablesOK, RowsStay, Unused
<1>3. ASSUME NEW s \in Sessions, Lock(s) PROVE TablesOK' /\ SessionsOK'
  BY <1>0, <1>3, GotoType, FinishType DEF Lock, TablesOK, RowsStay, Unused
<1>4. ASSUME NEW s \in Sessions, Debit(s) PROVE TablesOK' /\ SessionsOK'
  <2>1. TablesOK' /\ RowsStay
    BY <1>0, <1>4 DEF Debit, Debited, Posting, Fault, TablesOK, RowsStay, Unused
  <2>2. SessionsOK'
    BY <1>0, <1>4, <2>1, GotoType, FinishType DEF Debit
  <2> QED
    BY <2>1, <2>2
<1>5. ASSUME NEW s \in Sessions, Record(s) PROVE TablesOK' /\ SessionsOK'
  <2> DEFINE row == [status |-> "PENDING", amount |-> req[s].amount, today |-> TRUE]
  <2>1. row \in AppRows /\ row.status = "PENDING"
    BY <1>5 DEF Record, AppRows, Statuses
  <2>2. PICK i : app' = [app EXCEPT ![i] = row]
    BY <1>5 DEF Record
  <2>3. UNCHANGED <<wallet, freezes, returned, others, faults>> /\ Finish(s)
    BY <1>5 DEF Record
  <2> HIDE DEF row
  <2>4. app' \in [Apps -> AppRows] /\ RowsStay
    BY <1>0, <2>1, <2>2 DEF TablesOK, RowsStay, Unused
  <2> QED
    BY <1>0, <2>3, <2>4, FinishType DEF TablesOK, RowsStay
<1>6. ASSUME NEW s \in Sessions, NEW i \in Apps, NEW approved \in BOOLEAN,
             BeginAudit(s, i, approved)
      PROVE TablesOK' /\ SessionsOK'
  <2> DEFINE r == [Idle EXCEPT !.at = AfterCheck(approved), !.app = i]
  <2>1. i \in Nat /\ i \in Apps \ Unused
    BY <1>6 DEF BeginAudit, Auditable, Unused, Apps
  <2>2. RequestOK(r)
    BY <2>1 DEF RequestOK, Requests, Idle, AfterCheck
  <2>3. req' = [req EXCEPT ![s] = r] /\ UNCHANGED <<wallet, app, freezes, returned, others, faults>>
    BY <1>6 DEF BeginAudit
  <2> HIDE DEF r
  <2> QED
    BY <1>0, <2>2, <2>3, MoveType DEF TablesOK, RowsStay, Unused
<1>7. ASSUME NEW s \in Sessions, Approve(s) \/ Reject(s) PROVE TablesOK' /\ SessionsOK'
  <2>1. app' \in [Apps -> AppRows] /\ Unused' = Unused
    BY <1>0, <1>7, StatusType DEF Approve, Reject, Statuses
  <2> QED
    BY <1>0, <1>7, <2>1, FinishType DEF Approve, Reject, TablesOK, RowsStay
<1>8. ASSUME NEW s \in Sessions, Return(s) PROVE TablesOK' /\ SessionsOK'
  <2>1. TablesOK' /\ RowsStay
    BY <1>0, <1>8 DEF Return, Fault, TablesOK, RowsStay, Unused, AppRows
  <2>2. SessionsOK'
    BY <1>0, <1>8, <2>1, GotoType, FinishType DEF Return
  <2> QED
    BY <2>1, <2>2
<1>9. ASSUME NEW s \in Sessions, Crash(s) PROVE TablesOK' /\ SessionsOK'
  BY <1>0, <1>9, FinishType DEF Crash, Fault, TablesOK, RowsStay, Unused
<1>10. ASSUME NEW x \in Int, OtherPayment(x) PROVE TablesOK' /\ SessionsOK'
  BY <1>0, <1>10 DEF OtherPayment, TablesOK, SessionsOK, RequestOK, Unused
<1>11. CASE NewDay
  <2>1. \A i \in Apps : app'[i] \in AppRows /\ app'[i].status = app[i].status
    BY <1>0, <1>11 DEF NewDay, TablesOK, AppRows
  <2>2. app' \in [Apps -> AppRows] /\ Unused' = Unused
    BY <1>11, <2>1 DEF NewDay, Unused
  <2> QED
    BY <1>0, <1>11, <2>2 DEF NewDay, TablesOK, SessionsOK, RequestOK
<1> QED
  BY <1>1, <1>2, <1>3, <1>4, <1>5, <1>6, <1>7, <1>8, <1>9, <1>10, <1>11 DEF Next

(* Only a debit and another operation's payment lower the wallet. *)
LEMMA StepNoOverdraft ==
  ASSUME WithdrawInv, [Next]_vars PROVE NoOverdraft'
<1> USE DEF NoOverdraft
<1>1. wallet \in Int /\ wallet >= 0
  BY DEF WithdrawInv, TypeOK
<1>2. ASSUME NEW s \in Sessions, Debit(s) PROVE NoOverdraft'
  BY <1>1, <1>2, RequestTypes DEF Debit, Debited, WithdrawInv
<1>3. ASSUME NEW s \in Sessions, Return(s) PROVE NoOverdraft'
  BY <1>1, <1>3, RequestTypes DEF Return, WithdrawInv, AppRows
<1>4. ASSUME NEW x \in Int, OtherPayment(x) PROVE NoOverdraft'
  BY <1>4 DEF OtherPayment
<1>5. CASE wallet' = wallet
  BY <1>1, <1>5
<1>6. ASSUME NEW a \in Amounts, OtherPayment(a) \/ OtherPayment(-a) PROVE NoOverdraft'
  BY <1>4, <1>6, AmountsArePositive
<1>7. ASSUME NEW s \in Sessions,
             \/ \E a \in Amounts : BeginApply(s, a)
             \/ Lock(s) \/ Record(s)
             \/ \E i \in Apps, approved \in BOOLEAN : BeginAudit(s, i, approved)
             \/ Approve(s) \/ Reject(s) \/ Crash(s)
      PROVE NoOverdraft'
  BY <1>5, <1>7 DEF BeginApply, Lock, Record, BeginAudit, Approve, Reject, Crash
<1>8. CASE NewDay \/ UNCHANGED vars
  BY <1>5, <1>8 DEF NewDay, vars
<1> QED
  BY <1>2, <1>3, <1>6, <1>7, <1>8 DEF Next

(* A rejection is recorded by a session that has paid the amount back, and no *)
(* posting is taken back.                                                     *)
LEMMA StepReturned ==
  ASSUME WithdrawInv, [Next]_vars
  PROVE  RejectedIsReturned' /\ RejectingIsReturned'
<1> USE DEF RejectedIsReturned, RejectingIsReturned, WithdrawInv
<1>1. CASE UNCHANGED vars
  BY <1>1 DEF vars
<1>2. ASSUME NEW s \in Sessions, NEW a \in Amounts, BeginApply(s, a)
      PROVE RejectedIsReturned' /\ RejectingIsReturned'
  BY <1>2 DEF BeginApply, Idle, TypeOK
<1>3. ASSUME NEW s \in Sessions, Lock(s) \/ Debit(s) \/ Crash(s)
      PROVE RejectedIsReturned' /\ RejectingIsReturned'
  BY <1>3 DEF Lock, Debit, Crash, Goto, Finish, Idle, TypeOK
<1>4. ASSUME NEW s \in Sessions, Record(s)
      PROVE RejectedIsReturned' /\ RejectingIsReturned'
  BY <1>4 DEF Record, Finish, Idle, TypeOK
<1>5. ASSUME NEW s \in Sessions, NEW i \in Apps, NEW approved \in BOOLEAN,
             BeginAudit(s, i, approved)
      PROVE RejectedIsReturned' /\ RejectingIsReturned'
  BY <1>5 DEF BeginAudit, AfterCheck, Idle, TypeOK
<1>6. ASSUME NEW s \in Sessions, Approve(s)
      PROVE RejectedIsReturned' /\ RejectingIsReturned'
  BY <1>6 DEF Approve, Finish, Idle, TypeOK
<1>7. ASSUME NEW s \in Sessions, Return(s)
      PROVE RejectedIsReturned' /\ RejectingIsReturned'
  BY <1>7 DEF Return, Goto, Finish, Idle, TypeOK
<1>8. ASSUME NEW s \in Sessions, Reject(s)
      PROVE RejectedIsReturned' /\ RejectingIsReturned'
  BY <1>8 DEF Reject, Finish, Idle, TypeOK
<1>9. ASSUME NEW x \in Int, OtherPayment(x)
      PROVE RejectedIsReturned' /\ RejectingIsReturned'
  BY <1>9 DEF OtherPayment
<1>10. CASE NewDay
  BY <1>10 DEF NewDay, TypeOK
<1> QED
  BY <1>1, <1>2, <1>3, <1>4, <1>5, <1>6, <1>7, <1>8, <1>9, <1>10, AmountsArePositive
  DEF Next

(* Every reachable state satisfies the invariant. *)
LEMMA Invariant == Spec => []WithdrawInv
<1>1. WithdrawInv /\ [Next]_vars => WithdrawInv'
  BY StepTypes, StepNoOverdraft, StepReturned DEF WithdrawInv
<1> QED
  BY <1>1, InitWithdrawInv, PTL DEF Spec

-----------------------------------------------------------------------------
(* Sums of integers over finite sets *)

\* What SumFunctionOnSet computes along the way to the sum of f over S.
Iterates(f, S, g) ==
  g = [s \in SUBSET S |->
         IF s = {} THEN 0
         ELSE LET x == CHOOSE x \in s : TRUE IN f[x] + g[s \ {x}]]

\* What holds of the empty set, and of a set if it holds of the set less any of
\* its elements, holds of every subset of a finite set.
LEMMA SubsetInduction ==
  ASSUME NEW S, IsFiniteSet(S), NEW Good,
         \A T \in SUBSET S : (\A x \in T : T \ {x} \in Good) => T \in Good
  PROVE  SUBSET S \subseteq Good
<1> DEFINE Bad == (SUBSET S) \ Good
<1> SUFFICES ASSUME Bad # {} PROVE FALSE
  OBVIOUS
<1>1. IsWellFoundedOn(StrictSubsetOrdering(S), SUBSET S)
  <2>1. IsWellFoundedOn(StrictSubsetOrdering(S), FiniteSubsetsOf(S))
    BY FS_StrictSubsetOrderingWellFounded
  <2>2. FiniteSubsetsOf(S) = SUBSET S
    BY FS_FiniteSubsetsOfFinite
  <2> QED
    BY <2>1, <2>2
<1>2. PICK T \in Bad : \A U \in Bad : ~(<<U, T>> \in StrictSubsetOrdering(S))
  BY <1>1, WFMin
<1>3. \A x \in T : T \ {x} \in Good
  <2> SUFFICES ASSUME NEW x \in T, T \ {x} \notin Good PROVE FALSE
    OBVIOUS
  <2>1. T \ {x} \in Bad /\ T \ {x} \subseteq T /\ T \ {x} # T
    BY <1>2
  <2>2. <<T \ {x}, T>> \in StrictSubsetOrdering(S)
    BY <1>2, <2>1 DEF StrictSubsetOrdering
  <2> QED
    BY <1>2, <2>1, <2>2
<1> QED
  BY <1>2, <1>3

LEMMA IteratesValue ==
  ASSUME NEW f, NEW S, NEW g, Iterates(f, S, g), NEW s \in SUBSET S, s # {}
  PROVE  \E x \in s : x = (CHOOSE y \in s : TRUE) /\ g[s] = f[x] + g[s \ {x}]
<1> DEFINE x == CHOOSE y \in s : TRUE
<1>1. x \in s
  OBVIOUS
<1>2. g[s] = f[x] + g[s \ {x}]
  BY DEF Iterates
<1> QED
  BY <1>1, <1>2

\* The value at a set does not depend on the set one started from.
LEMMA IteratesUnique ==
  ASSUME NEW f, NEW S, NEW T, NEW g, NEW h, Iterates(f, S, g), Iterates(f, T, h),
         NEW s, s \subseteq S, s \subseteq T, IsFiniteSet(s)
  PROVE  g[s] = h[s]
<1> DEFINE Good == {t \in SUBSET s : g[t] = h[t]}
<1>1. ASSUME NEW t \in SUBSET s, \A x \in t : t \ {x} \in Good
      PROVE  t \in Good
  <2>1. CASE t = {}
    BY <2>1 DEF Iterates
  <2>2. CASE t # {}
    <3>1. PICK x \in t : x = (CHOOSE y \in t : TRUE) /\ g[t] = f[x] + g[t \ {x}]
      BY <2>2, IteratesValue
    <3>2. PICK z \in t : z = (CHOOSE y \in t : TRUE) /\ h[t] = f[z] + h[t \ {z}]
      BY <2>2, IteratesValue
    <3> QED
      BY <1>1, <3>1, <3>2
  <2> QED
    BY <2>1, <2>2
<1> HIDE DEF Good
<1>2. SUBSET s \subseteq Good
  BY <1>1, SubsetInduction
<1> QED
  BY <1>2 DEF Good

LEMMA IteratesExists ==
  ASSUME NEW f, NEW S, IsFiniteSet(S)
  PROVE  \E g : Iterates(f, S, g)
<1> DEFINE Good == {T \in SUBSET S : \E g : Iterates(f, T, g)}
<1>1. ASSUME NEW T \in SUBSET S, \A x \in T : T \ {x} \in Good
      PROVE  T \in Good
  <2> DEFINE of(x)  == CHOOSE g : Iterates(f, T \ {x}, g)
             least  == CHOOSE x \in T : TRUE
             out(s) == CHOOSE x \in T : x \notin s
             g == [s \in SUBSET T |->
                     IF s = T THEN IF s = {} THEN 0 ELSE f[least] + of(least)[T \ {least}]
                     ELSE of(out(s))[s]]
  <2>1. \A x \in T : Iterates(f, T \ {x}, of(x))
    BY <1>1
  <2>2. IsFiniteSet(T)
    BY FS_Subset
  <2>3. \A s \in SUBSET T : s # T => out(s) \in T /\ out(s) \notin s
    OBVIOUS
  <2>4. ASSUME NEW s \in SUBSET T, s # {}, NEW x, x = CHOOSE y \in s : TRUE
        PROVE  g[s] = f[x] + g[s \ {x}]
    <3>1. x \in s /\ s \ {x} # T /\ s \ {x} \in SUBSET T /\ IsFiniteSet(s \ {x})
      BY <2>2, <2>4, FS_Subset
    <3>2. g[s \ {x}] = of(out(s \ {x}))[s \ {x}]
      BY <3>1
    <3>3. out(s \ {x}) \in T /\ out(s \ {x}) \notin s \ {x}
      BY <2>3, <3>1
    <3>4. CASE s = T
      <4>1. g[s] = f[x] + of(x)[s \ {x}]
        BY <2>4, <3>4
      <4> HIDE DEF of, out, g
      <4>2. of(x)[s \ {x}] = of(out(s \ {x}))[s \ {x}]
        BY <2>1, <3>1, <3>3, <3>4, IteratesUnique
      <4> QED
        BY <3>2, <4>1, <4>2
    <3>5. CASE s # T
      <4>1. g[s] = of(out(s))[s]
        BY <3>5
      <4>2. out(s) \in T /\ out(s) \notin s
        BY <2>3, <3>5
      <4> HIDE DEF of, out, g
      <4>3. Iterates(f, T \ {out(s)}, of(out(s))) /\ s \in SUBSET (T \ {out(s)})
        BY <2>1, <4>2
      <4>4. PICK z \in s : /\ z = (CHOOSE y \in s : TRUE)
                           /\ of(out(s))[s] = f[z] + of(out(s))[s \ {z}]
        BY <2>4, <4>3, IteratesValue
      <4>5. z = x
        BY <2>4, <4>4
      <4>6. /\ s \ {x} \subseteq T \ {out(s)} /\ s \ {x} \subseteq T \ {out(s \ {x})}
            /\ Iterates(f, T \ {out(s \ {x})}, of(out(s \ {x})))
        BY <2>1, <3>1, <3>3, <4>3
      <4>7. of(out(s))[s \ {x}] = of(out(s \ {x}))[s \ {x}]
        <5> DEFINE T1 == T \ {out(s)}
                   T2 == T \ {out(s \ {x})}
                   g1 == of(out(s))
                   g2 == of(out(s \ {x}))
                   t  == s \ {x}
        <5>1. Iterates(f, T1, g1) /\ Iterates(f, T2, g2)
          BY <4>3, <4>6
        <5>2. t \subseteq T1 /\ t \subseteq T2 /\ IsFiniteSet(t)
          BY <3>1, <4>6
        <5> HIDE DEF T1, T2, g1, g2, t
        <5>3. g1[t] = g2[t]
          BY <5>1, <5>2, IteratesUnique
        <5> QED
          BY <5>3 DEF g1, g2, t
      <4> QED
        BY <3>2, <4>1, <4>4, <4>5, <4>7
    <3> QED
      BY <3>4, <3>5
  <2>5. g[{}] = 0
    <3>1. CASE T = {}
      BY <3>1
    <3>2. CASE T # {}
      <4>1. g[{}] = of(out({}))[{}] /\ out({}) \in T
        BY <2>3, <3>2
      <4> HIDE DEF of, out, g
      <4> QED
        BY <2>1, <4>1 DEF Iterates
    <3> QED
      BY <3>1, <3>2
  <2>6. DOMAIN g = SUBSET T /\ g = [s \in SUBSET T |-> g[s]]
    OBVIOUS
  <2> HIDE DEF g
  <2>7. Iterates(f, T, g)
    BY <2>4, <2>5, <2>6 DEF Iterates
  <2> QED
    BY <2>7
<1> HIDE DEF Good
<1>2. S \in Good
  BY <1>1, SubsetInduction
<1> QED
  BY <1>2 DEF Good

LEMMA SumIterates ==
  ASSUME NEW f, NEW S, IsFiniteSet(S)
  PROVE  \E g : Iterates(f, S, g) /\ SumFunctionOnSet(f, S) = g[S]
<1> DEFINE g == CHOOSE g : Iterates(f, S, g)
<1>1. Iterates(f, S, g)
  BY IteratesExists
<1>2. SumFunctionOnSet(f, S) = g[S]
  BY DEF SumFunctionOnSet, FoldFunctionOnSet, MapThenFoldSet, Iterates
<1> QED
  BY <1>1, <1>2

LEMMA SumType ==
  ASSUME NEW f, NEW S, IsFiniteSet(S), \A x \in S : f[x] \in Int
  PROVE  SumFunctionOnSet(f, S) \in Int
<1>1. PICK g : Iterates(f, S, g) /\ SumFunctionOnSet(f, S) = g[S]
  BY SumIterates
<1> DEFINE Good == {T \in SUBSET S : g[T] \in Int}
<1>2. ASSUME NEW T \in SUBSET S, \A x \in T : T \ {x} \in Good
      PROVE  T \in Good
  <2>1. CASE T = {}
    BY <1>1, <2>1 DEF Iterates
  <2>2. CASE T # {}
    <3>1. PICK x \in T : g[T] = f[x] + g[T \ {x}]
      BY <1>1, <2>2, IteratesValue
    <3> QED
      BY <1>2, <3>1
  <2> QED
    BY <2>1, <2>2
<1> HIDE DEF Good
<1>3. S \in Good
  BY <1>2, SubsetInduction
<1> QED
  BY <1>1, <1>3 DEF Good

\* Nothing adds up to nothing.
LEMMA SumZero ==
  ASSUME NEW f, NEW S, IsFiniteSet(S), \A x \in S : f[x] = 0
  PROVE  SumFunctionOnSet(f, S) = 0
<1>1. PICK g : Iterates(f, S, g) /\ SumFunctionOnSet(f, S) = g[S]
  BY SumIterates
<1> DEFINE Good == {T \in SUBSET S : g[T] = 0}
<1>2. ASSUME NEW T \in SUBSET S, \A x \in T : T \ {x} \in Good
      PROVE  T \in Good
  <2>1. CASE T = {}
    BY <1>1, <2>1 DEF Iterates
  <2>2. CASE T # {}
    <3>1. PICK x \in T : g[T] = f[x] + g[T \ {x}]
      BY <1>1, <2>2, IteratesValue
    <3> QED
      BY <1>2, <3>1
  <2> QED
    BY <2>1, <2>2
<1> HIDE DEF Good
<1>3. S \in Good
  BY <1>2, SubsetInduction
<1> QED
  BY <1>1, <1>3 DEF Good

\* What one value changes by, the sum changes by.
LEMMA SumChange ==
  ASSUME NEW f, NEW g, NEW S, IsFiniteSet(S), NEW y \in S,
         \A x \in S : f[x] \in Int /\ g[x] \in Int,
         \A x \in S \ {y} : g[x] = f[x]
  PROVE  SumFunctionOnSet(g, S) = SumFunctionOnSet(f, S) - f[y] + g[y]
<1>1. PICK h : Iterates(f, S, h) /\ SumFunctionOnSet(f, S) = h[S]
  BY SumIterates
<1>2. PICK k : Iterates(g, S, k) /\ SumFunctionOnSet(g, S) = k[S]
  BY SumIterates
<1> DEFINE Good == {T \in SUBSET S :
                      /\ h[T] \in Int /\ k[T] \in Int
                      /\ k[T] = IF y \in T THEN h[T] - f[y] + g[y] ELSE h[T]}
<1>3. ASSUME NEW T \in SUBSET S, \A x \in T : T \ {x} \in Good
      PROVE  T \in Good
  <2>1. CASE T = {}
    BY <1>1, <1>2, <2>1 DEF Iterates
  <2>2. CASE T # {}
    <3>1. PICK x \in T : x = (CHOOSE z \in T : TRUE) /\ h[T] = f[x] + h[T \ {x}]
      BY <1>1, <2>2, IteratesValue
    <3>2. k[T] = g[x] + k[T \ {x}]
      <4>1. PICK z \in T : z = (CHOOSE w \in T : TRUE) /\ k[T] = g[z] + k[T \ {z}]
        BY <1>2, <2>2, IteratesValue
      <4> QED
        BY <3>1, <4>1
    <3>3. /\ h[T \ {x}] \in Int /\ k[T \ {x}] \in Int
          /\ k[T \ {x}] = IF y \in T \ {x} THEN h[T \ {x}] - f[y] + g[y] ELSE h[T \ {x}]
      BY <1>3
    <3>4. f[x] \in Int /\ g[x] \in Int /\ f[y] \in Int /\ g[y] \in Int
      OBVIOUS
    <3>5. h[T] \in Int /\ k[T] \in Int
      BY <3>1, <3>2, <3>3, <3>4
    <3>6. CASE x = y
      <4>1. k[T \ {x}] = h[T \ {x}]
        BY <3>3, <3>6
      <4>2. h[T] = f[y] + h[T \ {x}] /\ k[T] = g[y] + h[T \ {x}]
        BY <3>1, <3>2, <3>6, <4>1
      <4>3. k[T] = h[T] - f[y] + g[y]
        BY <3>3, <3>4, <4>2
      <4> QED
        BY <3>5, <3>6, <4>3
    <3>7. CASE x # y
      <4>1. g[x] = f[x] /\ (y \in T <=> y \in T \ {x})
        BY <3>7
      <4>2. k[T] = IF y \in T THEN h[T] - f[y] + g[y] ELSE h[T]
        BY <3>1, <3>2, <3>3, <3>4, <4>1
      <4> QED
        BY <3>5, <4>2
    <3> QED
      BY <3>6, <3>7
  <2> QED
    BY <2>1, <2>2
<1> HIDE DEF Good
<1>4. S \in Good
  BY <1>3, SubsetInduction
<1> QED
  BY <1>1, <1>2, <1>4 DEF Good

\* A sum over a finite domain, and what it changes by with one value.
LEMMA SumFunctionType ==
  ASSUME NEW S, IsFiniteSet(S), NEW f \in [S -> Int]
  PROVE  SumFunction(f) \in Int
BY SumType DEF SumFunction

LEMMA TotalChange ==
  ASSUME NEW S, IsFiniteSet(S), NEW f \in [S -> Int], NEW g \in [S -> Int], NEW y \in S,
         \A x \in S \ {y} : g[x] = f[x]
  PROVE  SumFunction(g) = SumFunction(f) - f[y] + g[y]
<1>1. DOMAIN f = S /\ DOMAIN g = S /\ \A x \in S : f[x] \in Int /\ g[x] \in Int
  OBVIOUS
<1> QED
  BY <1>1, SumChange DEF SumFunction

LEMMA TotalZero ==
  ASSUME NEW S, IsFiniteSet(S), NEW f \in [S -> Int], \A x \in S : f[x] = 0
  PROVE  SumFunction(f) = 0
BY SumZero DEF SumFunction

-----------------------------------------------------------------------------
(* The postings: what has been applied for and paid back, summed up *)

LEMMA MinOf ==
  ASSUME NEW S, S \subseteq Nat, S # {}
  PROVE  Min(S) \in S
<1>1. PICK x \in S : \A y \in S : ~(<<y, x>> \in OpToRel(<, Nat))
  BY NatLessThanWellFounded, WFMin
<1>2. OpToRel(<, Nat) = {ss \in Nat \X Nat : ss[1] < ss[2]}
  BY DEF OpToRel
<1>3. \A y \in S : x <= y
  <2> SUFFICES ASSUME NEW y \in S, y < x PROVE FALSE
    OBVIOUS
  <2>1. <<y, x>> \in {ss \in Nat \X Nat : ss[1] < ss[2]}
    OBVIOUS
  <2> QED
    BY <1>1, <1>2, <2>1
<1> QED
  BY <1>3 DEF Min

LEMMA SumTypes ==
  ASSUME TypeOK
  PROVE  /\ IsFiniteSet(Apps) /\ IsFiniteSet(Sessions)
         /\ AppliedOf \in [Apps -> Int] /\ ReturnedOf \in [Apps -> Int]
         /\ RecordingOf \in [Sessions -> Int]
         /\ SumFunction(AppliedOf) \in Int /\ SumFunction(ReturnedOf) \in Int
         /\ SumFunction(RecordingOf) \in Int
<1>1. IsFiniteSet(Apps) /\ IsFiniteSet(Sessions)
  BY FS_Interval, WithdrawalsAssumption DEF Apps
<1>2. AppliedOf \in [Apps -> Int] /\ ReturnedOf \in [Apps -> Int]
  BY DEF TypeOK, AppliedOf, ReturnedOf
<1>3. RecordingOf \in [Sessions -> Int]
  BY DEF TypeOK, RecordingOf
<1> QED
  BY <1>1, <1>2, <1>3, SumFunctionType

\* What a session that moves on does to the sum of what is to be recorded.
LEMMA RecordingChange ==
  ASSUME TypeOK, TypeOK', NEW s \in Sessions, \A t \in Sessions \ {s} : req'[t] = req[t]
  PROVE  SumFunction(RecordingOf)' = SumFunction(RecordingOf)
           - (IF req[s].at = "record" THEN req[s].amount ELSE 0)
           + (IF req'[s].at = "record" THEN req'[s].amount ELSE 0)
<1>1. \A t \in Sessions \ {s} : RecordingOf'[t] = RecordingOf[t]
  BY DEF RecordingOf
<1>2. /\ RecordingOf[s] = IF req[s].at = "record" THEN req[s].amount ELSE 0
      /\ RecordingOf'[s] = IF req'[s].at = "record" THEN req'[s].amount ELSE 0
  BY DEF RecordingOf
<1>3. /\ IsFiniteSet(Sessions)
      /\ RecordingOf \in [Sessions -> Int] /\ RecordingOf' \in [Sessions -> Int]
  BY SumTypes DEF TypeOK, RecordingOf
<1>4. SumFunction(RecordingOf)' = SumFunction(RecordingOf) - RecordingOf[s] + RecordingOf'[s]
  BY <1>1, <1>3, TotalChange
<1> QED
  BY <1>2, <1>4

LEMMA FinishEffect ==
  ASSUME TypeOK, NEW s \in Sessions, Finish(s)
  PROVE  req'[s].at = "idle" /\ \A t \in Sessions \ {s} : req'[t] = req[t]
BY DEF TypeOK, Finish, Idle

LEMMA GotoEffect ==
  ASSUME TypeOK, NEW s \in Sessions, NEW at, Goto(s, at)
  PROVE  /\ req'[s].at = at /\ req'[s].amount = req[s].amount
         /\ \A t \in Sessions \ {s} : req'[t] = req[t]
BY DEF TypeOK, Goto

\* The two balances of the log.
Posted == ApplicationsArePosted /\ WalletNotBelowLog

\* A step that changes no sum and no amount of the log.
LEMMA PostedSame ==
  ASSUME Posted, UNCHANGED <<AppliedOf, ReturnedOf, wallet, freezes, others>>,
         SumFunction(RecordingOf)' = SumFunction(RecordingOf)
  PROVE  Posted'
BY DEF Posted, ApplicationsArePosted, WalletNotBelowLog

LEMMA StepPosted ==
  ASSUME WithdrawInv, TypeOK', Posted, [Next]_vars PROVE Posted'
<1>0. /\ TypeOK /\ wallet \in Int /\ freezes \in Nat /\ Funds \in Nat /\ others.sum \in Int
      /\ SumFunction(AppliedOf) \in Int /\ SumFunction(ReturnedOf) \in Int
      /\ SumFunction(RecordingOf) \in Int
  BY SumTypes, WithdrawalsAssumption DEF WithdrawInv, TypeOK
<1>a. /\ SumFunction(AppliedOf) + SumFunction(RecordingOf) <= freezes
      /\ wallet >= Funds + others.sum - freezes + SumFunction(ReturnedOf)
  BY DEF Posted, ApplicationsArePosted, WalletNotBelowLog
<1>1. CASE UNCHANGED vars
  <2>1. UNCHANGED <<AppliedOf, ReturnedOf, RecordingOf, wallet, freezes, others>>
    BY <1>1 DEF vars, AppliedOf, ReturnedOf, RecordingOf
  <2> QED
    BY <2>1, PostedSame
\* A step of a session that is not to record before or after it.
<1>b. ASSUME NEW s \in Sessions, \A t \in Sessions \ {s} : req'[t] = req[t],
             req'[s].at # "record"
      PROVE  /\ SumFunction(RecordingOf)' \in Int
             /\ SumFunction(RecordingOf)' <= SumFunction(RecordingOf)
             /\ req[s].at # "record" =>
                  SumFunction(RecordingOf)' = SumFunction(RecordingOf)
             /\ req[s].at = "record" =>
                  SumFunction(RecordingOf)' = SumFunction(RecordingOf) - req[s].amount
  <2>1. req[s].amount \in Nat
    BY <1>0 DEF TypeOK
  <2>2. SumFunction(RecordingOf)' = SumFunction(RecordingOf)
           - (IF req[s].at = "record" THEN req[s].amount ELSE 0) + 0
    BY <1>0, <1>b, RecordingChange
  <2>3. CASE req[s].at = "record"
    BY <1>0, <2>1, <2>2, <2>3
  <2>4. CASE req[s].at # "record"
    BY <1>0, <2>2, <2>4
  <2> QED
    BY <2>3, <2>4
<1>2. ASSUME NEW s \in Sessions, NEW a \in Amounts, BeginApply(s, a) PROVE Posted'
  <2>1. /\ UNCHANGED <<AppliedOf, ReturnedOf, wallet, freezes, others>>
        /\ req[s].at # "record" /\ req'[s].at # "record"
        /\ \A t \in Sessions \ {s} : req'[t] = req[t]
    BY <1>0, <1>2 DEF BeginApply, AppliedOf, ReturnedOf, Idle, TypeOK
  <2> QED
    BY <1>b, <2>1, PostedSame
<1>3. ASSUME NEW s \in Sessions, Lock(s) PROVE Posted'
  <2>1. /\ UNCHANGED <<AppliedOf, ReturnedOf, wallet, freezes, others>>
        /\ req[s].at # "record" /\ req'[s].at # "record"
        /\ \A t \in Sessions \ {s} : req'[t] = req[t]
    BY <1>0, <1>3, FinishEffect, GotoEffect DEF Lock, AppliedOf, ReturnedOf
  <2> QED
    BY <1>b, <2>1, PostedSame
<1>4. ASSUME NEW s \in Sessions, Debit(s) PROVE Posted'
  <2>0. UNCHANGED <<AppliedOf, ReturnedOf, others>> /\ req[s].at = "debit"
    BY <1>4 DEF Debit, AppliedOf, ReturnedOf
  <2>1. CASE /\ wallet' = Debited(req[s].amount) /\ freezes' = freezes + req[s].amount
             /\ Goto(s, "record")
    <3>1. /\ req'[s].at = "record" /\ req'[s].amount = req[s].amount
          /\ \A t \in Sessions \ {s} : req'[t] = req[t]
      BY <1>0, <2>1, GotoEffect
    <3>2. req[s].amount \in Nat
      BY <1>0 DEF TypeOK
    <3>3. SumFunction(RecordingOf)' = SumFunction(RecordingOf) + req[s].amount
      <4>1. SumFunction(RecordingOf)' = SumFunction(RecordingOf) - 0 + req[s].amount
        BY <1>0, <2>0, <3>1, RecordingChange
      <4> QED
        BY <1>0, <3>2, <4>1
    <3>4. wallet' \in Int /\ wallet' >= wallet - req[s].amount
      BY <1>0, <2>1, <3>2 DEF Debited
    <3>5. ApplicationsArePosted'
      <4>1. SumFunction(AppliedOf)' = SumFunction(AppliedOf)
        BY <2>0
      <4>2. SumFunction(AppliedOf)' + SumFunction(RecordingOf)' <= freezes'
        BY <1>0, <1>a, <2>1, <3>2, <3>3, <4>1
      <4> QED
        BY <4>2 DEF ApplicationsArePosted
    <3>6. WalletNotBelowLog'
      <4>1. SumFunction(ReturnedOf)' = SumFunction(ReturnedOf) /\ others' = others
        BY <2>0
      <4>2. wallet' >= Funds + others'.sum - freezes' + SumFunction(ReturnedOf)'
        BY <1>0, <1>a, <2>1, <3>2, <3>4, <4>1
      <4> QED
        BY <4>2 DEF WalletNotBelowLog
    <3> QED
      BY <3>5, <3>6 DEF Posted
  <2>2. CASE Finish(s) /\ UNCHANGED <<wallet, freezes>>
    <3>1. req'[s].at # "record" /\ \A t \in Sessions \ {s} : req'[t] = req[t]
      BY <1>0, <2>2, FinishEffect
    <3> QED
      BY <1>b, <2>0, <2>2, <3>1, PostedSame
  <2> QED
    BY <1>4, <2>1, <2>2 DEF Debit, Posting
<1>5. ASSUME NEW s \in Sessions, Record(s) PROVE Posted'
  <2> DEFINE i == Min(Unused)
  <2>1. i \in Unused /\ i \in Apps
    BY <1>5, MinOf DEF Record, Unused, Apps
  <2> HIDE DEF i
  <2>2. /\ app' = [app EXCEPT ![i] = [status |-> "PENDING", amount |-> req[s].amount,
                                     today |-> TRUE]]
        /\ req[s].at = "record" /\ UNCHANGED <<wallet, freezes, returned, others>>
    BY <1>5 DEF Record, i
  <2>3. req'[s].at # "record" /\ \A t \in Sessions \ {s} : req'[t] = req[t]
    BY <1>0, <1>5, FinishEffect DEF Record
  <2>4. req[s].amount \in Nat /\ app[i].amount \in Nat /\ i \notin returned
    BY <1>0, <2>1 DEF TypeOK
  <2>5. /\ AppliedOf[i] = app[i].amount /\ AppliedOf'[i] = req[s].amount
        /\ \A j \in Apps \ {i} : AppliedOf'[j] = AppliedOf[j]
    BY <1>0, <2>1, <2>2 DEF TypeOK, AppliedOf
  <2>6. AppliedOf' \in [Apps -> Int]
    BY DEF TypeOK, AppliedOf
  <2>7. SumFunction(AppliedOf)' = SumFunction(AppliedOf) - app[i].amount + req[s].amount
    <3>1. SumFunction(AppliedOf)' = SumFunction(AppliedOf) - AppliedOf[i] + AppliedOf'[i]
      BY <1>0, <2>1, <2>5, <2>6, SumTypes, TotalChange
    <3> QED
      BY <2>5, <3>1
  <2>8. SumFunction(RecordingOf)' = SumFunction(RecordingOf) - req[s].amount
    BY <1>b, <2>2, <2>3
  <2>9. SumFunction(AppliedOf)' + SumFunction(RecordingOf)' <= freezes'
    BY <1>0, <1>a, <2>2, <2>4, <2>7, <2>8
  <2>10. UNCHANGED ReturnedOf
    BY <1>0, <2>1, <2>2, <2>4 DEF TypeOK, ReturnedOf
  <2> QED
    BY <1>a, <2>2, <2>9, <2>10 DEF Posted, ApplicationsArePosted, WalletNotBelowLog
<1>6. ASSUME NEW s \in Sessions, NEW i \in Apps, NEW approved \in BOOLEAN,
             BeginAudit(s, i, approved)
      PROVE  Posted'
  <2>1. /\ UNCHANGED <<AppliedOf, ReturnedOf, wallet, freezes, others>>
        /\ req[s].at # "record" /\ req'[s].at # "record"
        /\ \A t \in Sessions \ {s} : req'[t] = req[t]
    BY <1>0, <1>6 DEF BeginAudit, AfterCheck, AppliedOf, ReturnedOf, Idle, TypeOK
  <2> QED
    BY <1>b, <2>1, PostedSame
<1>7. ASSUME NEW s \in Sessions, Approve(s) \/ Reject(s) PROVE Posted'
  <2>1. \A i \in Apps : app'[i].amount = app[i].amount
    BY <1>0, <1>7 DEF Approve, Reject, TypeOK
  <2>2. UNCHANGED <<AppliedOf, ReturnedOf, wallet, freezes, others>>
    BY <1>7, <2>1 DEF Approve, Reject, AppliedOf, ReturnedOf
  <2>3. /\ req[s].at # "record" /\ req'[s].at # "record"
        /\ \A t \in Sessions \ {s} : req'[t] = req[t]
    BY <1>0, <1>7, FinishEffect DEF Approve, Reject
  <2> QED
    BY <1>b, <2>2, <2>3, PostedSame
<1>8. ASSUME NEW s \in Sessions, Return(s) PROVE Posted'
  <2>0. /\ UNCHANGED <<AppliedOf, freezes, others>>
        /\ req[s].at # "record" /\ req'[s].at # "record"
        /\ \A t \in Sessions \ {s} : req'[t] = req[t]
    BY <1>0, <1>8, FinishEffect, GotoEffect DEF Return, AppliedOf
  <2>1. CASE UNCHANGED <<wallet, returned>>
    <3>1. UNCHANGED ReturnedOf
      BY <1>8, <2>1 DEF Return, ReturnedOf
    <3> QED
      BY <1>b, <2>0, <2>1, <3>1, PostedSame
  <2>2. ASSUME NEW i \in Apps, i = req[s].app, i \notin returned,
               wallet' = wallet + app[i].amount, returned' = returned \cup {i}
        PROVE  Posted'
    <3>1. app' = app /\ app[i].amount \in Nat
      BY <1>0, <1>8 DEF Return, TypeOK
    <3>2. /\ ReturnedOf[i] = 0 /\ ReturnedOf'[i] = app[i].amount
          /\ \A j \in Apps \ {i} : ReturnedOf'[j] = ReturnedOf[j]
      BY <2>2, <3>1 DEF ReturnedOf
    <3>3. ReturnedOf' \in [Apps -> Int]
      BY DEF TypeOK, ReturnedOf
    <3>4. SumFunction(ReturnedOf)' = SumFunction(ReturnedOf) - ReturnedOf[i] + ReturnedOf'[i]
      BY <1>0, <3>2, <3>3, SumTypes, TotalChange
    <3>5. SumFunction(ReturnedOf)' = SumFunction(ReturnedOf) + app[i].amount
      BY <1>0, <3>1, <3>2, <3>4
    <3>6. wallet' >= Funds + others'.sum - freezes' + SumFunction(ReturnedOf)'
      BY <1>0, <1>a, <2>0, <2>2, <3>1, <3>5
    <3>7. SumFunction(AppliedOf)' + SumFunction(RecordingOf)' <= freezes'
      BY <1>a, <1>b, <2>0
    <3> QED
      BY <3>6, <3>7 DEF Posted, ApplicationsArePosted, WalletNotBelowLog
  <2>3. req[s].app \in Apps
    BY <1>0, <1>8 DEF Return, TypeOK
  <2> QED
    BY <1>8, <2>1, <2>2, <2>3 DEF Return
<1>9. ASSUME NEW s \in Sessions, Crash(s) PROVE Posted'
  <2>1. /\ UNCHANGED <<AppliedOf, ReturnedOf, wallet, freezes, others>>
        /\ req'[s].at # "record" /\ \A t \in Sessions \ {s} : req'[t] = req[t]
    BY <1>0, <1>9, FinishEffect DEF Crash, AppliedOf, ReturnedOf
  <2>2. SumFunction(AppliedOf)' + SumFunction(RecordingOf)' <= freezes'
    <3>1. /\ SumFunction(RecordingOf)' \in Int
          /\ SumFunction(RecordingOf)' <= SumFunction(RecordingOf)
          /\ SumFunction(AppliedOf)' = SumFunction(AppliedOf) /\ freezes' = freezes
      BY <1>b, <2>1
    <3> QED
      BY <1>0, <1>a, <3>1
  <2> QED
    BY <1>a, <2>1, <2>2 DEF Posted, ApplicationsArePosted, WalletNotBelowLog
<1>10. ASSUME NEW x \in Int, OtherPayment(x) PROVE Posted'
  <2>1. UNCHANGED <<AppliedOf, ReturnedOf, RecordingOf, freezes>>
    BY <1>10 DEF OtherPayment, AppliedOf, ReturnedOf, RecordingOf
  <2>2. wallet' = wallet + x /\ others'.sum = others.sum + x
    BY <1>0, <1>10 DEF OtherPayment
  <2>3. wallet' >= Funds + others'.sum - freezes' + SumFunction(ReturnedOf)'
    BY <1>0, <1>a, <2>1, <2>2
  <2> QED
    BY <1>a, <2>1, <2>3 DEF Posted, ApplicationsArePosted, WalletNotBelowLog
<1>11. CASE NewDay
  <2>1. \A i \in Apps : app'[i].amount = app[i].amount
    BY <1>0, <1>11 DEF NewDay, TypeOK
  <2>2. UNCHANGED <<AppliedOf, ReturnedOf, RecordingOf, wallet, freezes, others>>
    BY <1>11, <2>1 DEF NewDay, AppliedOf, ReturnedOf, RecordingOf
  <2> QED
    BY <2>2, PostedSame
<1> QED
  BY <1>1, <1>2, <1>3, <1>4, <1>5, <1>6, <1>7, <1>8, <1>9, <1>10, <1>11, AmountsArePositive
     DEF Next

LEMMA PostedInvariant == Spec => []Posted
<1>1. Init => Posted
  <2> SUFFICES ASSUME Init PROVE Posted
    OBVIOUS
  <2>1. TypeOK
    BY InitWithdrawInv DEF WithdrawInv
  <2>2. /\ \A i \in Apps : AppliedOf[i] = 0 /\ ReturnedOf[i] = 0
        /\ \A s \in Sessions : RecordingOf[s] = 0
    BY DEF Init, NoApp, Idle, AppliedOf, ReturnedOf, RecordingOf
  <2>3. /\ SumFunction(AppliedOf) = 0 /\ SumFunction(ReturnedOf) = 0
        /\ SumFunction(RecordingOf) = 0
    BY <2>1, <2>2, SumTypes, TotalZero
  <2>4. wallet = Funds /\ freezes = 0 /\ others.sum = 0 /\ Funds \in Nat
    BY WithdrawalsAssumption DEF Init
  <2> QED
    BY <2>3, <2>4 DEF Posted, ApplicationsArePosted, WalletNotBelowLog
<1>2. WithdrawInv /\ WithdrawInv' /\ Posted /\ [Next]_vars => Posted'
  BY StepPosted DEF WithdrawInv
<1> QED
  BY <1>1, <1>2, Invariant, PTL DEF Spec

-----------------------------------------------------------------------------
(* The variables of apply_withdraw and audit_withdraw keep their types, and a  *)
(* session that audits has a row of t_withdraw_applications.                  *)
THEOREM TypeCorrect == Spec => []TypeOK
<1>1. WithdrawInv => TypeOK
  BY DEF WithdrawInv
<1> QED
  BY <1>1, Invariant, PTL

(* The wallet is not overdrawn, whatever is applied for at once and whatever   *)
(* the checks before the lock read: the guarded UPDATE decides.               *)
THEOREM WalletNotOverdrawn == Spec => []NoOverdraft
<1>1. WithdrawInv => NoOverdraft
  BY DEF WithdrawInv
<1> QED
  BY <1>1, Invariant, PTL

(* A rejected application has been paid back, for any number of operators that *)
(* audit it at the same time and wherever one of them fails: audit_withdraw    *)
(* commits the refund before it sets the status.                              *)
THEOREM RejectionPaysBack == Spec => []RejectedIsReturned
<1>1. WithdrawInv => RejectedIsReturned
  BY DEF WithdrawInv
<1> QED
  BY <1>1, Invariant, PTL

(* What is applied for has been posted, whatever requests race and wherever    *)
(* one of them dies: the debit and its posting are one commit, which comes     *)
(* before the application's.                                                   *)
THEOREM NothingUnposted == Spec => []ApplicationsArePosted
<1>1. Posted => ApplicationsArePosted
  BY DEF Posted
<1> QED
  BY <1>1, PostedInvariant, PTL

(* The wallet is not below what the payment log says: the UPDATE takes no more *)
(* than is posted, and an amount is returned in one commit with the posting    *)
(* that keeps it from being returned again.                                    *)
THEOREM LogIsCovered == Spec => []WalletNotBelowLog
<1>1. Posted => WalletNotBelowLog
  BY DEF Posted
<1> QED
  BY <1>1, PostedInvariant, PTL
=============================================================================
