------------------------- MODULE OrderEscrowProofs -------------------------
(***************************************************************************)
(* Theorems about OrderEscrow - types, seats, postings and money - for     *)
(* every set of buyers and sessions, every price and every bound on the    *)
(* faults, and the refinement of SeatPromise, which rests on the same      *)
(* invariants.                                                             *)
(***************************************************************************)
EXTENDS OrderEscrow, FiniteSetTheorems, TLAPS

-----------------------------------------------------------------------------
(* What the rounding of Money guarantees for every amount *)

\* A share of an amount is an amount, and not more than the whole.
LEMMA ShareBounds ==
  ASSUME NEW a \in Nat, NEW p \in 0 .. 100
  PROVE  Share(a, p) \in 0 .. a
<1> DEFINE q == (a * p) \div 100
           m == (a * p) % 100
<1>1. a * p \in Nat /\ a * p <= a * 100
  OBVIOUS
<1>2. q \in Nat /\ m \in 0 .. 99 /\ a * p = 100 * q + m
  BY <1>1
<1>3. Share(a, p) \in {q, q + 1}
  BY <1>2 DEF Share
<1>4. CASE q < a
  BY <1>2, <1>3, <1>4
<1>5. CASE q >= a
  <2>1. q = a /\ m = 0
    BY <1>1, <1>2, <1>5
  <2> QED
    BY <2>1, <1>2 DEF Share
<1> QED
  BY <1>2, <1>4, <1>5

\* The refund and the penalty of a refund while PURCHASING add up to the payment:
\* no cent is lost or made by rounding the two separately.
THEOREM SplitConserves ==
  ASSUME NEW a \in Nat
  PROVE  Share(a, RefundPercent) + Share(a, PenaltyPercent) = a
<1> DEFINE k == a \div 5
           j == a % 5
<1>1. k \in Nat /\ j \in 0 .. 4 /\ a = 5 * k + j
  OBVIOUS
<1>2. (a * 80) \div 100 = 4 * k + (4 * j) \div 5 /\ (a * 80) % 100 = 20 * ((4 * j) % 5)
  BY <1>1
<1>3. (a * 20) \div 100 = k /\ (a * 20) % 100 = 20 * j
  BY <1>1
<1> QED
  BY <1>1, <1>2, <1>3 DEF Share, RefundPercent, PenaltyPercent

-----------------------------------------------------------------------------
(* The amounts that are moved *)

LEMMA PricePositive == Price \in Nat /\ Price > 0
BY EscrowAssumption DEF WithdrawMin

\* A refund is never empty, so its posting can be told from none.
LEMMA SharesOfPrice ==
  /\ Share(Price, RefundPercent) \in Nat  /\ Share(Price, RefundPercent) > 0
  /\ Share(Price, PenaltyPercent) \in Nat /\ Share(Price, PenaltyPercent) > 0
<1>1. Share(Price, RefundPercent) \in Nat /\ Share(Price, PenaltyPercent) \in Nat
  BY PricePositive, ShareBounds DEF RefundPercent, PenaltyPercent
<1>2. (Price * 80) \div 100 > 0 /\ (Price * 20) \div 100 > 0
  BY EscrowAssumption DEF WithdrawMin
<1> QED
  BY <1>1, <1>2, PricePositive DEF Share, RefundPercent, PenaltyPercent

LEMMA RefundType ==
  ASSUME NEW r
  PROVE  /\ Refund(r) \in Nat /\ Refund(r) > 0
         /\ Penalty(r) \in Nat /\ (Penalised(r) => Penalty(r) > 0)
BY PricePositive, SharesOfPrice DEF Refund, Penalty

\* The settlement splits the total into two amounts.
LEMMA TotalType == Total \in Nat /\ Fee(Total) \in Nat /\ Income(Total) \in Nat
<1>1. TotalPeople - 1 \in Nat
  BY EscrowAssumption
<1>2. Total \in Nat
  BY <1>1, PricePositive DEF Total
<1>3. Share(Total, FeePercent) \in 0 .. Total
  BY <1>2, ShareBounds DEF FeePercent
<1> QED
  BY <1>2, <1>3 DEF Fee, Income

-----------------------------------------------------------------------------
(* Type correctness *)

\* TypeOK in two parts: the tables, and the sessions.
RowsOK ==
  /\ order \in [kind : {"normal", "spot"}, status : Statuses, people : Nat \ {0},
                deleted : BOOLEAN, expired : BOOLEAN]
  /\ seat \in [Buyers -> {"none", "paid", "refunded"}]
  /\ code \in {"absent", "unused", "used"}
  /\ spent \in [busy : Nat, broken : Nat, crashes : Nat]

MoneyOK ==
  /\ wallet \in [Users -> Int]
  /\ frozen \in Int
  /\ paylog \in [Buyers -> [Keys -> Int]]
  /\ settled \in [income : Int, fee : Int]

SessionsOK ==
  /\ req \in [Sessions -> SessionState]
  /\ \A r \in Requests :
       req[r] = Idle \/ <<req[r].op, req[r].at>> \in RequestSteps
  /\ req[Scheduler] = Idle \/ <<req[Scheduler].op, req[Scheduler].at>> \in TaskSteps
  /\ \A r \in Requests :
       req[r].op \in {"join", "quit", "refund"} => req[r].user \in Buyers
  /\ At(Scheduler, "auto", "credit") => req[Scheduler].user \in Buyers

LEMMA TypeParts == TypeOK <=> RowsOK /\ MoneyOK /\ SessionsOK
BY DEF TypeOK, RowsOK, MoneyOK, SessionsOK

LEMMA IdleType ==
  /\ Idle \in SessionState
  /\ Idle.op = "idle" /\ Idle.at = "idle" /\ Idle.paid = {} /\ Idle.frozen = 0
  /\ \A b \in Buyers : Idle.wallet[b] = 0
BY DEF Idle, SessionState, Users

LEMMA InitType == Init => TypeOK
<1> SUFFICES ASSUME Init PROVE TypeOK
  OBVIOUS
<1>1. RowsOK
  <2>1. order \in [kind : {"normal", "spot"}, status : Statuses, people : Nat \ {0},
                   deleted : BOOLEAN, expired : BOOLEAN]
    <3>1. CASE NewNormal
      BY <3>1 DEF NewNormal, Statuses
    <3>2. CASE NewSpot
      BY <3>2 DEF NewSpot, Statuses
    <3> QED
      BY <3>1, <3>2 DEF Init
  <2>2. code \in {"absent", "unused", "used"}
    BY DEF Init, NewNormal, NewSpot
  <2> QED
    BY <2>1, <2>2 DEF Init, RowsOK
<1>2. MoneyOK
  BY EscrowAssumption DEF Init, MoneyOK
<1>3. SessionsOK
  BY IdleType DEF Init, SessionsOK, Sessions, At
<1> QED
  BY <1>1, <1>2, <1>3, TypeParts

\* What the operators on sessions do to the type of req.
LEMMA FinishType ==
  ASSUME SessionsOK, NEW r \in Sessions, Finish(r)
  PROVE  SessionsOK'
BY IdleType DEF SessionsOK, Finish, Sessions, At

LEMMA GotoType ==
  ASSUME SessionsOK, NEW r \in Requests, NEW at, Goto(r, at),
         <<req[r].op, at>> \in RequestSteps
  PROVE  SessionsOK'
<1>1. at \in {"debit", "freeze", "compensate", "enrol", "purchase", "unfreeze",
             "credit", "restore", "penalty", "leave", "pay", "finish", "read", "write"}
  BY DEF RequestSteps
<1>2. r # Scheduler /\ r \in Sessions /\ Scheduler \in Sessions
  BY EscrowAssumption DEF Sessions
<1>3. req[r] \in SessionState
  BY <1>2 DEF SessionsOK
<1>4. [req[r] EXCEPT !.at = at] \in SessionState
  BY <1>1, <1>3 DEF SessionState
<1>5. req' = [req EXCEPT ![r] = [req[r] EXCEPT !.at = at]]
  BY DEF Goto
<1> QED
  BY <1>2, <1>3, <1>4, <1>5 DEF SessionsOK, Sessions, SessionState, At

LEMMA GotoExpiredType ==
  ASSUME SessionsOK, NEW r \in Requests, NEW at, GotoExpired(r, at),
         <<req[r].op, at>> \in RequestSteps
  PROVE  SessionsOK'
<1>1. at \in {"debit", "freeze", "compensate", "enrol", "purchase", "unfreeze",
             "credit", "restore", "penalty", "leave", "pay", "finish", "read", "write"}
  BY DEF RequestSteps
<1>2. r # Scheduler /\ r \in Sessions /\ Scheduler \in Sessions
  BY EscrowAssumption DEF Sessions
<1>3. req[r] \in SessionState
  BY <1>2 DEF SessionsOK
<1>4. [req[r] EXCEPT !.at = at, !.expired = TRUE] \in SessionState
  BY <1>1, <1>3 DEF SessionState
<1>5. req' = [req EXCEPT ![r] = [req[r] EXCEPT !.at = at, !.expired = TRUE]]
  BY <1>2 DEF GotoExpired, SessionsOK
<1> QED
  BY <1>2, <1>3, <1>4, <1>5 DEF SessionsOK, Sessions, SessionState, At

LEMMA StartType ==
  ASSUME SessionsOK, RowsOK, NEW r \in Requests, NEW op, NEW at, NEW b \in Users,
         Start(r, op, at, b), <<op, at>> \in RequestSteps,
         op \in {"join", "quit", "refund"} => b \in Buyers
  PROVE  SessionsOK'
<1>1. /\ op \in {"join", "quit", "refund", "settle", "close"}
      /\ at \in {"debit", "freeze", "compensate", "enrol", "purchase", "unfreeze",
               "credit", "restore", "penalty", "leave", "pay", "finish", "read", "write"}
  BY DEF RequestSteps
<1>2. r # Scheduler /\ r \in Sessions /\ Scheduler \in Sessions
  BY EscrowAssumption DEF Sessions
<1> DEFINE new == [Idle EXCEPT !.op = op, !.at = at, !.user = b,
                             !.people = order.people, !.status = order.status]
<1>3. order.people \in Nat /\ order.status \in Statuses
  BY DEF RowsOK
<1>4. new \in SessionState /\ new.op = op /\ new.at = at /\ new.user = b
  BY <1>1, <1>3, IdleType DEF SessionState, Idle
<1>5. req' = [req EXCEPT ![r] = new]
  BY DEF Start
<1> HIDE DEF new
<1> QED
  BY <1>2, <1>4, <1>5 DEF SessionsOK, Sessions, At

LEMMA TaskType ==
  ASSUME SessionsOK, NEW new \in SessionState,
         \/ new.op = "auto" /\ new.at \in {"unfreeze", "credit"}
         \/ new.op = "expiry" /\ new.at = "write",
         new.op = "auto" /\ new.at = "credit" => new.user \in Buyers,
         req' = [req EXCEPT ![Scheduler] = new]
  PROVE  SessionsOK'
BY EscrowAssumption DEF SessionsOK, Sessions, TaskSteps, At

LEMMA NextParticipantType ==
  ASSUME SessionsOK, req[Scheduler].op = "auto", NEW b, NextParticipant(b)
  PROVE  SessionsOK'
<1> DEFINE new == [req[Scheduler] EXCEPT !.at = "unfreeze", !.paid = @ \ {b}]
<1>1. req[Scheduler] \in SessionState
  BY DEF SessionsOK, Sessions
<1>2. new \in SessionState /\ new.op = "auto" /\ new.at = "unfreeze"
  BY <1>1 DEF SessionState
<1>3. req' = [req EXCEPT ![Scheduler] = new]
  BY DEF NextParticipant, SessionsOK, Sessions
<1> HIDE DEF new
<1> QED
  BY <1>2, <1>3, TaskType

\* A posting, and what it adds to a wallet, have their types.
LEMMA PostType ==
  ASSUME MoneyOK, NEW b \in Buyers, NEW key \in Keys, NEW amount \in Int,
         Post(b, key, amount)
  PROVE  paylog' \in [Buyers -> [Keys -> Int]]
<1>1. paylog' = [paylog EXCEPT ![b] = [paylog[b] EXCEPT ![key] = amount]]
  BY DEF Post
<1>2. paylog[b] \in [Keys -> Int] /\ paylog \in [Buyers -> [Keys -> Int]]
  BY DEF MoneyOK
<1>3. [paylog[b] EXCEPT ![key] = amount] \in [Keys -> Int]
  BY <1>2
<1> QED
  BY <1>1, <1>2, <1>3

LEMMA AddToWalletType ==
  ASSUME MoneyOK, NEW u \in Users, NEW amount \in Int, AddToWallet(u, amount)
  PROVE  wallet' \in [Users -> Int]
BY DEF MoneyOK, AddToWallet

\* The keys of the operations are keys.
LEMMA KeysOf ==
  /\ <<"join", "wallet">> \in Keys /\ <<"join", "freeze">> \in Keys
  /\ <<"join", "compensate">> \in Keys
  /\ \A op \in {"quit", "refund"} : /\ <<op, "freeze_decr">> \in Keys
                                   /\ <<op, "wallet">> \in Keys
                                   /\ <<op, "compensate">> \in Keys
  /\ <<"refund", "penalty">> \in Keys
  /\ <<"disband", "freeze_decr">> \in Keys /\ <<"disband", "wallet">> \in Keys
  /\ <<"withdraw", "wallet">> \in Keys
BY DEF Keys

LEMMA RowsStep == TypeOK /\ [Next]_vars => RowsOK'
<1> SUFFICES ASSUME TypeOK, [Next]_vars PROVE RowsOK'
  OBVIOUS
<1>0. RowsOK /\ SessionsOK
  BY TypeParts
<1> USE <1>0 DEF RowsOK, Statuses, rows, Busy, Broken
<1>1. CASE UNCHANGED vars
  BY <1>1 DEF vars
<1>2. CASE DeadlinePasses
  BY <1>2 DEF DeadlinePasses
<1>3. ASSUME NEW b \in Buyers, Withdraw(b) PROVE RowsOK'
  BY <1>3 DEF Withdraw
<1>4. ASSUME NEW r \in Requests, NEW b \in Buyers, BeginJoin(r, b) PROVE RowsOK'
  BY <1>4 DEF BeginJoin
<1>5. ASSUME NEW r \in Requests, NEW b \in Buyers, BeginQuit(r, b) PROVE RowsOK'
  BY <1>5 DEF BeginQuit
<1>6. ASSUME NEW r \in Requests, NEW b \in Buyers, BeginRefund(r, b) PROVE RowsOK'
  BY <1>6 DEF BeginRefund
<1>7. ASSUME NEW r \in Requests, BeginSettle(r) PROVE RowsOK'
  BY <1>7 DEF BeginSettle
<1>8. ASSUME NEW r \in Requests, MarkDisbanded(r) PROVE RowsOK'
  BY <1>8 DEF MarkDisbanded
<1>9. ASSUME NEW r \in Requests, MarkDeleted(r) PROVE RowsOK'
  BY <1>9 DEF MarkDeleted
<1>10. ASSUME NEW r \in Requests, JoinDebit(r) PROVE RowsOK'
  BY <1>10 DEF JoinDebit
<1>11. ASSUME NEW r \in Requests, JoinFreeze(r) PROVE RowsOK'
  BY <1>11 DEF JoinFreeze
<1>12. ASSUME NEW r \in Requests, JoinCompensate(r) PROVE RowsOK'
  BY <1>12 DEF JoinCompensate
<1>13. ASSUME NEW r \in Requests, JoinEnrol(r) PROVE RowsOK'
  <2>1. req[r].people \in Nat
    BY <1>13 DEF SessionsOK, SessionState, Sessions
  <2>2. order' \in [kind : {"normal", "spot"}, status : Statuses, people : Nat \ {0},
                    deleted : BOOLEAN, expired : BOOLEAN]
    BY <2>1, <1>13 DEF JoinEnrol
  <2> QED
    BY <2>2, <1>13 DEF JoinEnrol
<1>14. ASSUME NEW r \in Requests, JoinPurchase(r) PROVE RowsOK'
  BY <1>14 DEF JoinPurchase
<1>15. ASSUME NEW r \in Requests, Unfreeze(r) PROVE RowsOK'
  BY <1>15 DEF Unfreeze
<1>16. ASSUME NEW r \in Requests, CreditBuyer(r) PROVE RowsOK'
  BY <1>16 DEF CreditBuyer
<1>17. ASSUME NEW r \in Requests, Restore(r) PROVE RowsOK'
  BY <1>17 DEF Restore
<1>18. ASSUME NEW r \in Requests, PayPenalty(r) PROVE RowsOK'
  BY <1>18 DEF PayPenalty
<1>19. ASSUME NEW r \in Requests, Leave(r) PROVE RowsOK'
  <2>1. OneFewer(req[r].people) \in Nat \ {0}
    <3>1. req[r].people \in Nat
      BY <1>19 DEF SessionsOK, SessionState, Sessions
    <3> QED
      BY <3>1 DEF OneFewer
  <2>2. order' \in [kind : {"normal", "spot"}, status : Statuses, people : Nat \ {0},
                    deleted : BOOLEAN, expired : BOOLEAN]
    BY <2>1, <1>19 DEF Leave
  <2> QED
    BY <2>2, <1>19 DEF Leave
<1>20. ASSUME NEW r \in Requests, SettlePay(r) PROVE RowsOK'
  BY <1>20 DEF SettlePay
<1>21. ASSUME NEW r \in Requests, SettleFinish(r) PROVE RowsOK'
  BY <1>21 DEF SettleFinish
<1>22. ASSUME NEW r \in Requests, CloseRead(r) PROVE RowsOK'
  BY <1>22 DEF CloseRead
<1>23. ASSUME NEW r \in Requests, CloseWrite(r) PROVE RowsOK'
  BY <1>23 DEF CloseWrite
<1>24. CASE MarkPurchased
  BY <1>24 DEF MarkPurchased
<1>25. CASE SoftDelete
  BY <1>25 DEF SoftDelete
<1>26. CASE AutoBegin
  BY <1>26 DEF AutoBegin
<1>27. CASE ExpiryBegin
  BY <1>27 DEF ExpiryBegin
<1>28. ASSUME NEW b \in Buyers, AutoUnfreeze(b) PROVE RowsOK'
  BY <1>28 DEF AutoUnfreeze
<1>29. CASE AutoCredit
  BY <1>29 DEF AutoCredit
<1>30. CASE AutoFinish
  BY <1>30 DEF AutoFinish
<1>31. CASE ExpiryWrite
  BY <1>31 DEF ExpiryWrite
<1>32. ASSUME NEW r \in Sessions, Crash(r) PROVE RowsOK'
  BY <1>32 DEF Crash
<1> QED
  BY <1>1, <1>2, <1>3, <1>4, <1>5, <1>6, <1>7, <1>8, <1>9, <1>10, <1>11,
     <1>12, <1>13, <1>14, <1>15, <1>16, <1>17, <1>18, <1>19, <1>20, <1>21,
     <1>22, <1>23, <1>24, <1>25, <1>26, <1>27, <1>28, <1>29, <1>30, <1>31,
     <1>32
     DEF Next, Begin, Continue, ContinueTask

LEMMA MoneyStep == TypeOK /\ [Next]_vars => MoneyOK'
<1> SUFFICES ASSUME TypeOK, [Next]_vars PROVE MoneyOK'
  OBVIOUS
<1>0. MoneyOK /\ RowsOK /\ SessionsOK
  BY TypeParts
<1>1. CASE UNCHANGED vars
  BY <1>0, <1>1 DEF vars, MoneyOK
<1>2. CASE DeadlinePasses
  BY <1>0, <1>2 DEF DeadlinePasses, MoneyOK, money
<1>3. ASSUME NEW b \in Buyers, Withdraw(b) PROVE MoneyOK'
  BY <1>0, <1>3, PostType, AddToWalletType, KeysOf, PricePositive, RefundType, TotalType
     DEF Withdraw, MoneyOK, SessionsOK, Users, At
<1>4. ASSUME NEW r \in Requests, NEW b \in Buyers, BeginJoin(r, b) PROVE MoneyOK'
  BY <1>0, <1>4 DEF BeginJoin, MoneyOK, money
<1>5. ASSUME NEW r \in Requests, NEW b \in Buyers, BeginQuit(r, b) PROVE MoneyOK'
  BY <1>0, <1>5 DEF BeginQuit, MoneyOK, money
<1>6. ASSUME NEW r \in Requests, NEW b \in Buyers, BeginRefund(r, b) PROVE MoneyOK'
  BY <1>0, <1>6 DEF BeginRefund, MoneyOK, money
<1>7. ASSUME NEW r \in Requests, BeginSettle(r) PROVE MoneyOK'
  BY <1>0, <1>7 DEF BeginSettle, MoneyOK, money
<1>8. ASSUME NEW r \in Requests, MarkDisbanded(r) PROVE MoneyOK'
  BY <1>0, <1>8 DEF MarkDisbanded, MoneyOK, money
<1>9. ASSUME NEW r \in Requests, MarkDeleted(r) PROVE MoneyOK'
  BY <1>0, <1>9 DEF MarkDeleted, MoneyOK, money
<1>10. ASSUME NEW r \in Requests, JoinDebit(r) PROVE MoneyOK'
  BY <1>0, <1>10, PostType, AddToWalletType, KeysOf, PricePositive, RefundType, TotalType
     DEF JoinDebit, MoneyOK, SessionsOK, Users, At
<1>11. ASSUME NEW r \in Requests, JoinFreeze(r) PROVE MoneyOK'
  BY <1>0, <1>11, PostType, AddToWalletType, KeysOf, PricePositive, RefundType, TotalType
     DEF JoinFreeze, MoneyOK, SessionsOK, Users, At
<1>12. ASSUME NEW r \in Requests, JoinCompensate(r) PROVE MoneyOK'
  BY <1>0, <1>12, PostType, AddToWalletType, KeysOf, PricePositive, RefundType, TotalType
     DEF JoinCompensate, MoneyOK, SessionsOK, Users, At
<1>13. ASSUME NEW r \in Requests, JoinEnrol(r) PROVE MoneyOK'
  BY <1>0, <1>13 DEF JoinEnrol, MoneyOK, money
<1>14. ASSUME NEW r \in Requests, JoinPurchase(r) PROVE MoneyOK'
  BY <1>0, <1>14 DEF JoinPurchase, MoneyOK, money
<1>15. ASSUME NEW r \in Requests, Unfreeze(r) PROVE MoneyOK'
  <2>1. /\ req[r].user \in Buyers
        /\ <<req[r].op, "freeze_decr">> \in Keys /\ <<req[r].op, "compensate">> \in Keys
    BY <1>0, <1>15, KeysOf DEF Unfreeze, SessionsOK
  <2>2. paylog' \in [Buyers -> [Keys -> Int]]
    BY <1>0, <1>15, <2>1, PostType, PricePositive DEF Unfreeze, MoneyOK
  <2> QED
    BY <1>0, <1>15, <2>2, PricePositive DEF Unfreeze, MoneyOK
<1>16. ASSUME NEW r \in Requests, CreditBuyer(r) PROVE MoneyOK'
  <2>1. /\ req[r].user \in Buyers /\ req[r].user \in Users
        /\ <<req[r].op, "wallet">> \in Keys /\ Refund(r) \in Int
    BY <1>0, <1>16, KeysOf, RefundType DEF CreditBuyer, SessionsOK, Users
  <2>2. paylog' \in [Buyers -> [Keys -> Int]]
    BY <1>0, <1>16, <2>1, PostType DEF CreditBuyer, MoneyOK
  <2>3. wallet' \in [Users -> Int]
    BY <1>0, <1>16, <2>1, AddToWalletType DEF CreditBuyer, MoneyOK
  <2> QED
    BY <1>0, <1>16, <2>2, <2>3 DEF CreditBuyer, MoneyOK
<1>17. ASSUME NEW r \in Requests, Restore(r) PROVE MoneyOK'
  <2>1. /\ req[r].user \in Buyers
        /\ <<req[r].op, "freeze_decr">> \in Keys /\ <<req[r].op, "compensate">> \in Keys
    BY <1>0, <1>17, KeysOf DEF Restore, SessionsOK
  <2>2. paylog' \in [Buyers -> [Keys -> Int]]
    BY <1>0, <1>17, <2>1, PostType, PricePositive DEF Restore, MoneyOK
  <2> QED
    BY <1>0, <1>17, <2>2, PricePositive DEF Restore, MoneyOK
<1>18. ASSUME NEW r \in Requests, PayPenalty(r) PROVE MoneyOK'
  <2>1. req[r].user \in Buyers /\ Creator \in Users /\ Penalty(r) \in Int
    BY <1>0, <1>18, RefundType DEF PayPenalty, At, SessionsOK, Users
  <2>2. paylog' \in [Buyers -> [Keys -> Int]]
    BY <1>0, <1>18, <2>1, PostType, KeysOf DEF PayPenalty, MoneyOK
  <2>3. wallet' \in [Users -> Int]
    BY <1>0, <1>18, <2>1, AddToWalletType DEF PayPenalty, MoneyOK
  <2> QED
    BY <1>0, <1>18, <2>2, <2>3 DEF PayPenalty, MoneyOK
<1>19. ASSUME NEW r \in Requests, Leave(r) PROVE MoneyOK'
  BY <1>0, <1>19 DEF Leave, MoneyOK, money
<1>20. ASSUME NEW r \in Requests, SettlePay(r) PROVE MoneyOK'
  <2>0. Creator \in Users /\ Income(Total) \in Int
    BY TotalType DEF Users
  <2>1. wallet' \in [Users -> Int]
    BY <1>0, <1>20, <2>0, AddToWalletType DEF SettlePay, MoneyOK
  <2>2. frozen' \in Int /\ settled' \in [income : Int, fee : Int]
    BY <1>0, <1>20, TotalType DEF SettlePay, MoneyOK
  <2> QED
    BY <1>0, <1>20, <2>1, <2>2 DEF SettlePay, MoneyOK
<1>21. ASSUME NEW r \in Requests, SettleFinish(r) PROVE MoneyOK'
  BY <1>0, <1>21 DEF SettleFinish, MoneyOK, money
<1>22. ASSUME NEW r \in Requests, CloseRead(r) PROVE MoneyOK'
  BY <1>0, <1>22 DEF CloseRead, MoneyOK, money
<1>23. ASSUME NEW r \in Requests, CloseWrite(r) PROVE MoneyOK'
  <2>1. /\ req[r].frozen \in Int /\ req[r].wallet \in [Buyers -> Int]
        /\ req[r].paid \subseteq Buyers
    BY <1>0 DEF SessionsOK, SessionState, Sessions
  <2>2. PICK refunded \in SUBSET req[r].paid :
          /\ frozen' = IF refunded = {} THEN frozen
                       ELSE req[r].frozen - Cardinality(refunded) * Price
          /\ wallet' = [u \in Users |-> IF u \in refunded THEN req[r].wallet[u] + Price
                                                         ELSE wallet[u]]
    BY <1>23 DEF CloseWrite, Refundable
  <2>3. Cardinality(refunded) * Price \in Int
    <3>1. Cardinality(refunded) \in Nat
      BY <2>1, EscrowAssumption, FS_Subset, FS_CardinalityType
    <3> QED
      BY <3>1, PricePositive
  <2>4. wallet' \in [Users -> Int] /\ frozen' \in Int
    BY <1>0, <2>1, <2>2, <2>3, PricePositive DEF MoneyOK
  <2> QED
    BY <1>0, <1>23, <2>4 DEF CloseWrite, MoneyOK
<1>24. CASE MarkPurchased
  BY <1>0, <1>24 DEF MarkPurchased, MoneyOK, money
<1>25. CASE SoftDelete
  BY <1>0, <1>25 DEF SoftDelete, MoneyOK, money
<1>26. CASE AutoBegin
  BY <1>0, <1>26 DEF AutoBegin, MoneyOK, money
<1>27. CASE ExpiryBegin
  BY <1>0, <1>27 DEF ExpiryBegin, MoneyOK, money
<1>28. ASSUME NEW b \in Buyers, AutoUnfreeze(b) PROVE MoneyOK'
  <2>1. <<"disband", "freeze_decr">> \in Keys /\ -Price \in Int
    BY KeysOf, PricePositive
  <2>2. paylog' \in [Buyers -> [Keys -> Int]]
    BY <1>0, <1>28, <2>1, PostType DEF AutoUnfreeze, MoneyOK
  <2> QED
    BY <1>0, <1>28, <2>2, PricePositive DEF AutoUnfreeze, MoneyOK
<1>29. CASE AutoCredit
  <2>1. req[Scheduler].user \in Buyers
    BY <1>0, <1>29 DEF AutoCredit, SessionsOK
  <2>2. paylog' \in [Buyers -> [Keys -> Int]]
    BY <1>0, <1>29, <2>1, PostType, KeysOf, PricePositive DEF AutoCredit, MoneyOK
  <2>3. wallet' \in [Users -> Int]
    BY <1>0, <1>29, <2>1, AddToWalletType, PricePositive DEF AutoCredit, MoneyOK, Users
  <2> QED
    BY <1>0, <1>29, <2>2, <2>3 DEF AutoCredit, MoneyOK
<1>30. CASE AutoFinish
  BY <1>0, <1>30 DEF AutoFinish, MoneyOK, money
<1>31. CASE ExpiryWrite
  BY <1>0, <1>31 DEF ExpiryWrite, MoneyOK, money
<1>32. ASSUME NEW r \in Sessions, Crash(r) PROVE MoneyOK'
  BY <1>0, <1>32 DEF Crash, MoneyOK, money
<1> QED
  BY <1>1, <1>2, <1>3, <1>4, <1>5, <1>6, <1>7, <1>8, <1>9, <1>10, <1>11,
     <1>12, <1>13, <1>14, <1>15, <1>16, <1>17, <1>18, <1>19, <1>20, <1>21,
     <1>22, <1>23, <1>24, <1>25, <1>26, <1>27, <1>28, <1>29, <1>30, <1>31,
     <1>32
     DEF Next, Begin, Continue, ContinueTask

LEMMA SessionsStep == TypeOK /\ [Next]_vars => SessionsOK'
<1> SUFFICES ASSUME TypeOK, [Next]_vars PROVE SessionsOK'
  OBVIOUS
<1>0. RowsOK /\ MoneyOK /\ SessionsOK
  BY TypeParts
<1>1. CASE UNCHANGED vars
  BY <1>0, <1>1 DEF vars, SessionsOK, At
<1>2. CASE DeadlinePasses
  BY <1>0, <1>2 DEF DeadlinePasses, SessionsOK, At
<1>3. ASSUME NEW b \in Buyers, Withdraw(b) PROVE SessionsOK'
  BY <1>0, <1>3 DEF Withdraw, SessionsOK, At
<1>4. ASSUME NEW r \in Requests, NEW b \in Buyers, BeginJoin(r, b) PROVE SessionsOK'
  BY <1>0, <1>4, StartType, GotoType, GotoExpiredType, FinishType
     DEF BeginJoin, At, RequestSteps, Sessions, Users
<1>5. ASSUME NEW r \in Requests, NEW b \in Buyers, BeginQuit(r, b) PROVE SessionsOK'
  BY <1>0, <1>5, StartType, GotoType, GotoExpiredType, FinishType
     DEF BeginQuit, At, RequestSteps, Sessions, Users
<1>6. ASSUME NEW r \in Requests, NEW b \in Buyers, BeginRefund(r, b) PROVE SessionsOK'
  BY <1>0, <1>6, StartType, GotoType, GotoExpiredType, FinishType
     DEF BeginRefund, At, RequestSteps, Sessions, Users
<1>7. ASSUME NEW r \in Requests, BeginSettle(r) PROVE SessionsOK'
  BY <1>0, <1>7, StartType, GotoType, GotoExpiredType, FinishType
     DEF BeginSettle, At, RequestSteps, Sessions, Users
<1>8. ASSUME NEW r \in Requests, MarkDisbanded(r) PROVE SessionsOK'
  BY <1>0, <1>8, StartType, GotoType, GotoExpiredType, FinishType
     DEF MarkDisbanded, At, RequestSteps, Sessions, Users
<1>9. ASSUME NEW r \in Requests, MarkDeleted(r) PROVE SessionsOK'
  BY <1>0, <1>9, StartType, GotoType, GotoExpiredType, FinishType
     DEF MarkDeleted, At, RequestSteps, Sessions, Users
<1>10. ASSUME NEW r \in Requests, JoinDebit(r) PROVE SessionsOK'
  BY <1>0, <1>10, StartType, GotoType, GotoExpiredType, FinishType
     DEF JoinDebit, At, RequestSteps, Sessions, Users
<1>11. ASSUME NEW r \in Requests, JoinFreeze(r) PROVE SessionsOK'
  BY <1>0, <1>11, StartType, GotoType, GotoExpiredType, FinishType
     DEF JoinFreeze, At, RequestSteps, Sessions, Users
<1>12. ASSUME NEW r \in Requests, JoinCompensate(r) PROVE SessionsOK'
  BY <1>0, <1>12, StartType, GotoType, GotoExpiredType, FinishType
     DEF JoinCompensate, At, RequestSteps, Sessions, Users
<1>13. ASSUME NEW r \in Requests, JoinEnrol(r) PROVE SessionsOK'
  BY <1>0, <1>13, StartType, GotoType, GotoExpiredType, FinishType
     DEF JoinEnrol, At, RequestSteps, Sessions, Users
<1>14. ASSUME NEW r \in Requests, JoinPurchase(r) PROVE SessionsOK'
  BY <1>0, <1>14, StartType, GotoType, GotoExpiredType, FinishType
     DEF JoinPurchase, At, RequestSteps, Sessions, Users
<1>15. ASSUME NEW r \in Requests, Unfreeze(r) PROVE SessionsOK'
  BY <1>0, <1>15, StartType, GotoType, GotoExpiredType, FinishType
     DEF Unfreeze, At, RequestSteps, Sessions, Users
<1>16. ASSUME NEW r \in Requests, CreditBuyer(r) PROVE SessionsOK'
  <2>1. \A at \in {"penalty", "leave", "restore"} :
          at # "penalty" \/ req[r].op = "refund" => <<req[r].op, at>> \in RequestSteps
    BY <1>16 DEF CreditBuyer, RequestSteps
  <2>2. Penalised(r) => req[r].op = "refund"
    BY DEF Penalised
  <2>3. \/ Finish(r) \/ Goto(r, "leave") \/ Goto(r, "restore")
        \/ Goto(r, "penalty") /\ Penalised(r)
    BY <1>16 DEF CreditBuyer
  <2> QED
    BY <1>0, <2>1, <2>2, <2>3, GotoType, FinishType DEF Sessions
<1>17. ASSUME NEW r \in Requests, Restore(r) PROVE SessionsOK'
  BY <1>0, <1>17, StartType, GotoType, GotoExpiredType, FinishType
     DEF Restore, At, RequestSteps, Sessions, Users
<1>18. ASSUME NEW r \in Requests, PayPenalty(r) PROVE SessionsOK'
  BY <1>0, <1>18, StartType, GotoType, GotoExpiredType, FinishType
     DEF PayPenalty, At, RequestSteps, Sessions, Users
<1>19. ASSUME NEW r \in Requests, Leave(r) PROVE SessionsOK'
  BY <1>0, <1>19, StartType, GotoType, GotoExpiredType, FinishType
     DEF Leave, At, RequestSteps, Sessions, Users
<1>20. ASSUME NEW r \in Requests, SettlePay(r) PROVE SessionsOK'
  BY <1>0, <1>20, StartType, GotoType, GotoExpiredType, FinishType
     DEF SettlePay, At, RequestSteps, Sessions, Users
<1>21. ASSUME NEW r \in Requests, SettleFinish(r) PROVE SessionsOK'
  BY <1>0, <1>21, StartType, GotoType, GotoExpiredType, FinishType
     DEF SettleFinish, At, RequestSteps, Sessions, Users
<1>22. ASSUME NEW r \in Requests, CloseRead(r) PROVE SessionsOK'
  <2>1. CASE Paid = {}
    BY <1>0, <1>22, <2>1, FinishType DEF CloseRead, Sessions
  <2>2. CASE Paid # {}
    <3> DEFINE new == [req[r] EXCEPT !.at = "write", !.paid = Paid, !.frozen = frozen,
                                     !.wallet = [b \in Buyers |-> wallet[b]]]
    <3>1. r \in Sessions /\ r # Scheduler /\ Scheduler \in Sessions
      BY EscrowAssumption DEF Sessions
    <3>2. req' = [req EXCEPT ![r] = new]
      BY <1>0, <1>22, <2>2, <3>1 DEF CloseRead, SessionsOK
    <3>3. req[r] \in SessionState /\ req[r].op = "close"
      BY <1>0, <1>22, <3>1 DEF CloseRead, At, SessionsOK
    <3>4. [b \in Buyers |-> wallet[b]] \in [Buyers -> Int] /\ Paid \in SUBSET Buyers
          /\ frozen \in Int
      BY <1>0 DEF MoneyOK, Users, Paid
    <3>5. new \in SessionState /\ new.op = "close" /\ new.at = "write"
      BY <3>3, <3>4 DEF SessionState
    <3> HIDE DEF new
    <3> QED
      BY <1>0, <3>1, <3>2, <3>5 DEF SessionsOK, Sessions, At, RequestSteps
  <2> QED
    BY <2>1, <2>2
<1>23. ASSUME NEW r \in Requests, CloseWrite(r) PROVE SessionsOK'
  BY <1>0, <1>23, StartType, GotoType, GotoExpiredType, FinishType
     DEF CloseWrite, At, RequestSteps, Sessions, Users
<1>24. CASE MarkPurchased
  BY <1>0, <1>24 DEF MarkPurchased, SessionsOK, At
<1>25. CASE SoftDelete
  BY <1>0, <1>25 DEF SoftDelete, SessionsOK, At
<1>26. CASE AutoBegin
  <2> DEFINE new == [Idle EXCEPT !.op = "auto", !.at = "unfreeze", !.paid = Paid]
  <2>1. new \in SessionState /\ new.op = "auto" /\ new.at = "unfreeze"
    BY IdleType DEF SessionState, Paid, Idle
  <2>2. req' = [req EXCEPT ![Scheduler] = new]
    BY <1>26 DEF AutoBegin
  <2> HIDE DEF new
  <2> QED
    BY <1>0, <2>1, <2>2, TaskType
<1>27. CASE ExpiryBegin
  <2> DEFINE new == [Idle EXCEPT !.op = "expiry", !.at = "write", !.user = Creator,
                                 !.people = order.people, !.status = order.status]
  <2>1. order.people \in Nat /\ order.status \in Statuses /\ Creator \in Users
    BY <1>0 DEF RowsOK, Users
  <2>2. new \in SessionState /\ new.op = "expiry" /\ new.at = "write"
    BY <2>1, IdleType DEF SessionState, Idle
  <2>3. req' = [req EXCEPT ![Scheduler] = new]
    BY <1>27 DEF ExpiryBegin, Start
  <2> HIDE DEF new
  <2> QED
    BY <1>0, <2>2, <2>3, TaskType
<1>28. ASSUME NEW b \in Buyers, AutoUnfreeze(b) PROVE SessionsOK'
  <2>1. CASE req' = [req EXCEPT ![Scheduler].at = "credit", ![Scheduler].user = b]
    <3> DEFINE new == [req[Scheduler] EXCEPT !.at = "credit", !.user = b]
    <3>1. req[Scheduler] \in SessionState /\ req[Scheduler].op = "auto"
      BY <1>0, <1>28 DEF AutoUnfreeze, At, SessionsOK, Sessions
    <3>2. new \in SessionState /\ new.op = "auto" /\ new.at = "credit" /\ new.user = b
      BY <3>1 DEF SessionState, Users
    <3>3. req' = [req EXCEPT ![Scheduler] = new]
      BY <1>0, <2>1 DEF SessionsOK, Sessions
    <3> HIDE DEF new
    <3> QED
      BY <1>0, <3>2, <3>3, TaskType
  <2>2. CASE NextParticipant(b)
    BY <1>0, <1>28, <2>2, NextParticipantType DEF AutoUnfreeze, At
  <2>3. CASE Finish(Scheduler)
    BY <1>0, <2>3, FinishType DEF Sessions
  <2> QED
    BY <1>28, <2>1, <2>2, <2>3 DEF AutoUnfreeze
<1>29. CASE AutoCredit
  BY <1>0, <1>29, NextParticipantType, FinishType DEF AutoCredit, At, Sessions
<1>30. CASE AutoFinish
  BY <1>0, <1>30, StartType, GotoType, GotoExpiredType, FinishType
     DEF AutoFinish, At, RequestSteps, Sessions, Users
<1>31. CASE ExpiryWrite
  BY <1>0, <1>31, StartType, GotoType, GotoExpiredType, FinishType
     DEF ExpiryWrite, At, RequestSteps, Sessions, Users
<1>32. ASSUME NEW r \in Sessions, Crash(r) PROVE SessionsOK'
  BY <1>0, <1>32, StartType, GotoType, GotoExpiredType, FinishType
     DEF Crash, At, RequestSteps, Sessions, Users
<1> QED
  BY <1>1, <1>2, <1>3, <1>4, <1>5, <1>6, <1>7, <1>8, <1>9, <1>10, <1>11,
     <1>12, <1>13, <1>14, <1>15, <1>16, <1>17, <1>18, <1>19, <1>20, <1>21,
     <1>22, <1>23, <1>24, <1>25, <1>26, <1>27, <1>28, <1>29, <1>30, <1>31,
     <1>32
     DEF Next, Begin, Continue, ContinueTask

LEMMA TypeStep == TypeOK /\ [Next]_vars => TypeOK'
<1> SUFFICES ASSUME TypeOK, [Next]_vars PROVE TypeOK'
  OBVIOUS
<1>1. RowsOK' /\ MoneyOK' /\ SessionsOK'
  BY RowsStep, MoneyStep, SessionsStep
<1> QED
  BY <1>1 DEF TypeOK, RowsOK, MoneyOK, SessionsOK

\* Every state of every behaviour is of its type: TypeOK is inductive by itself.
THEOREM TypeCorrect == Spec => []TypeOK
BY InitType, TypeStep, PTL DEF Spec

-----------------------------------------------------------------------------
(* What the operators on sessions and postings do, value by value *)

LEMMA FinishEffect ==
  ASSUME TypeOK, NEW r \in Sessions, Finish(r)
  PROVE  req'[r] = Idle /\ \A s \in Sessions \ {r} : req'[s] = req[s]
BY DEF TypeOK, Finish

LEMMA GotoEffect ==
  ASSUME TypeOK, NEW r \in Sessions, NEW at, Goto(r, at)
  PROVE  /\ req'[r].at = at /\ req'[r].op = req[r].op /\ req'[r].user = req[r].user
         /\ req'[r].paid = req[r].paid /\ req'[r].frozen = req[r].frozen
         /\ req'[r].wallet = req[r].wallet /\ req'[r].people = req[r].people
         /\ \A s \in Sessions \ {r} : req'[s] = req[s]
BY DEF TypeOK, Goto, SessionState

LEMMA GotoExpiredEffect ==
  ASSUME TypeOK, NEW r \in Sessions, NEW at, GotoExpired(r, at)
  PROVE  /\ req'[r].at = at /\ req'[r].op = req[r].op /\ req'[r].user = req[r].user
         /\ req'[r].paid = req[r].paid /\ req'[r].frozen = req[r].frozen
         /\ req'[r].wallet = req[r].wallet /\ req'[r].people = req[r].people
         /\ \A s \in Sessions \ {r} : req'[s] = req[s]
BY DEF TypeOK, GotoExpired, SessionState

LEMMA StartEffect ==
  ASSUME TypeOK, NEW r \in Sessions, NEW op, NEW at, NEW b, Start(r, op, at, b)
  PROVE  /\ req'[r].op = op /\ req'[r].at = at /\ req'[r].user = b
         /\ req'[r].paid = {} /\ req'[r].frozen = 0
         /\ req'[r].wallet = [c \in Buyers |-> 0] /\ req'[r].people = order.people
         /\ \A s \in Sessions \ {r} : req'[s] = req[s]
BY DEF TypeOK, Start, Idle

LEMMA CloseReadEffect ==
  ASSUME TypeOK, NEW r \in Requests, CloseRead(r)
  PROVE  /\ \A s \in Sessions \ {r} : req'[s] = req[s]
         /\ \/ req'[r] = Idle
            \/ /\ req'[r].op = "close" /\ req'[r].at = "write"
               /\ req'[r].paid = Paid /\ req'[r].frozen = frozen
               /\ req'[r].wallet = [b \in Buyers |-> wallet[b]]
<1>1. r \in Sessions
  BY DEF Sessions
<1>2. CASE Finish(r)
  BY <1>1, <1>2, FinishEffect
<1>3. CASE Paid # {}
  <2> DEFINE new == [req[r] EXCEPT !.at = "write", !.paid = Paid, !.frozen = frozen,
                                   !.wallet = [b \in Buyers |-> wallet[b]]]
  <2>1. req[r] \in SessionState /\ req[r].op = "close"
    BY <1>1 DEF CloseRead, At, TypeOK
  <2>2. req' = [req EXCEPT ![r] = new]
    BY <1>1, <1>3 DEF CloseRead, TypeOK
  <2>3. /\ new.op = "close" /\ new.at = "write" /\ new.paid = Paid
        /\ new.frozen = frozen /\ new.wallet = [b \in Buyers |-> wallet[b]]
    BY <2>1 DEF SessionState
  <2> HIDE DEF new
  <2> QED
    BY <1>1, <2>2, <2>3 DEF TypeOK
<1> QED
  BY <1>2, <1>3 DEF CloseRead

LEMMA CloseReadStep ==
  ASSUME TypeOK, NEW r \in Requests, CloseRead(r)
  PROVE  /\ \A s \in Sessions \ {r} : req'[s] = req[s]
         /\ req'[r].op \in {"idle", "close"}
<1>1. Idle.op = "idle"
  BY IdleType
<1> QED
  BY <1>1, CloseReadEffect

\* The session of the tasks is of no concern to the requests.
LEMMA TaskEffect ==
  ASSUME TypeOK, AutoBegin \/ ExpiryBegin \/ AutoCredit \/ AutoFinish \/ ExpiryWrite
                 \/ \E b \in Buyers : AutoUnfreeze(b)
  PROVE  \A r \in Requests : req'[r] = req[r]
<1>1. Scheduler \notin Requests /\ Scheduler \in Sessions /\ Requests \subseteq Sessions
  BY EscrowAssumption DEF Sessions
<1> QED
  BY <1>1 DEF AutoBegin, ExpiryBegin, AutoUnfreeze, AutoCredit, AutoFinish, ExpiryWrite,
              NextParticipant, Finish, Start, TypeOK

LEMMA PostEffect ==
  ASSUME TypeOK, NEW b \in Buyers, NEW key \in Keys, NEW amount \in Int,
         Post(b, key, amount)
  PROVE  /\ paylog'[b][key] = amount
         /\ \A c \in Buyers, k \in Keys :
              c # b \/ k # key => paylog'[c][k] = paylog[c][k]
BY DEF TypeOK, Post

-----------------------------------------------------------------------------
(* Locks *)

\* Of each kind of locked request at most one is between its lock and unlock.
LocksHeld ==
  \A r, s \in Requests :
    /\ req[r].op = req[s].op
    /\ req[r].op \in {"join", "quit", "refund", "settle"}
    => r = s

LEMMA LocksStep == TypeOK /\ LocksHeld /\ [Next]_vars => LocksHeld'
<1> SUFFICES ASSUME TypeOK, LocksHeld, [Next]_vars PROVE LocksHeld'
  OBVIOUS
<1> USE DEF LocksHeld
<1>0. Requests \subseteq Sessions /\ Scheduler \in Sessions /\ Scheduler \notin Requests
      /\ Idle.op = "idle"
  BY EscrowAssumption, IdleType DEF Sessions
<1>1. CASE UNCHANGED vars
  BY <1>1 DEF vars
<1>2. CASE DeadlinePasses
  BY <1>2 DEF DeadlinePasses
<1>3. ASSUME NEW b \in Buyers, Withdraw(b) PROVE LocksHeld'
  BY <1>3 DEF Withdraw
<1>4. ASSUME NEW r \in Requests, NEW b \in Buyers, BeginJoin(r, b) PROVE LocksHeld'
  BY <1>0, <1>4, StartEffect DEF BeginJoin, LockFree
<1>5. ASSUME NEW r \in Requests, NEW b \in Buyers, BeginQuit(r, b) PROVE LocksHeld'
  BY <1>0, <1>5, StartEffect DEF BeginQuit, LockFree
<1>6. ASSUME NEW r \in Requests, NEW b \in Buyers, BeginRefund(r, b) PROVE LocksHeld'
  BY <1>0, <1>6, StartEffect DEF BeginRefund, LockFree
<1>7. ASSUME NEW r \in Requests, BeginSettle(r) PROVE LocksHeld'
  BY <1>0, <1>7, StartEffect DEF BeginSettle, LockFree
<1>8. ASSUME NEW r \in Requests, MarkDisbanded(r) PROVE LocksHeld'
  BY <1>0, <1>8, StartEffect DEF MarkDisbanded, LockFree
<1>9. ASSUME NEW r \in Requests, MarkDeleted(r) PROVE LocksHeld'
  BY <1>0, <1>9, StartEffect DEF MarkDeleted, LockFree
<1>10. ASSUME NEW r \in Requests, JoinDebit(r) PROVE LocksHeld'
  BY <1>0, <1>10, FinishEffect, GotoEffect, GotoExpiredEffect DEF JoinDebit
<1>11. ASSUME NEW r \in Requests, JoinFreeze(r) PROVE LocksHeld'
  BY <1>0, <1>11, FinishEffect, GotoEffect, GotoExpiredEffect DEF JoinFreeze
<1>12. ASSUME NEW r \in Requests, JoinCompensate(r) PROVE LocksHeld'
  BY <1>0, <1>12, FinishEffect, GotoEffect, GotoExpiredEffect DEF JoinCompensate
<1>13. ASSUME NEW r \in Requests, JoinEnrol(r) PROVE LocksHeld'
  BY <1>0, <1>13, FinishEffect, GotoEffect, GotoExpiredEffect DEF JoinEnrol
<1>14. ASSUME NEW r \in Requests, JoinPurchase(r) PROVE LocksHeld'
  BY <1>0, <1>14, FinishEffect, GotoEffect, GotoExpiredEffect DEF JoinPurchase
<1>15. ASSUME NEW r \in Requests, Unfreeze(r) PROVE LocksHeld'
  BY <1>0, <1>15, FinishEffect, GotoEffect, GotoExpiredEffect DEF Unfreeze
<1>16. ASSUME NEW r \in Requests, CreditBuyer(r) PROVE LocksHeld'
  BY <1>0, <1>16, FinishEffect, GotoEffect, GotoExpiredEffect DEF CreditBuyer
<1>17. ASSUME NEW r \in Requests, Restore(r) PROVE LocksHeld'
  BY <1>0, <1>17, FinishEffect, GotoEffect, GotoExpiredEffect DEF Restore
<1>18. ASSUME NEW r \in Requests, PayPenalty(r) PROVE LocksHeld'
  BY <1>0, <1>18, FinishEffect, GotoEffect, GotoExpiredEffect DEF PayPenalty
<1>19. ASSUME NEW r \in Requests, Leave(r) PROVE LocksHeld'
  BY <1>0, <1>19, FinishEffect, GotoEffect, GotoExpiredEffect DEF Leave
<1>20. ASSUME NEW r \in Requests, SettlePay(r) PROVE LocksHeld'
  BY <1>0, <1>20, FinishEffect, GotoEffect, GotoExpiredEffect DEF SettlePay
<1>21. ASSUME NEW r \in Requests, SettleFinish(r) PROVE LocksHeld'
  BY <1>0, <1>21, FinishEffect, GotoEffect, GotoExpiredEffect DEF SettleFinish
<1>22. ASSUME NEW r \in Requests, CloseRead(r) PROVE LocksHeld'
  BY <1>0, <1>22, CloseReadStep
<1>23. ASSUME NEW r \in Requests, CloseWrite(r) PROVE LocksHeld'
  BY <1>0, <1>23, FinishEffect DEF CloseWrite
<1>24. CASE MarkPurchased
  BY <1>24 DEF MarkPurchased
<1>25. CASE SoftDelete
  BY <1>25 DEF SoftDelete
<1>26. CASE AutoBegin
  BY <1>26, TaskEffect
<1>27. CASE ExpiryBegin
  BY <1>27, TaskEffect
<1>28. ASSUME NEW b \in Buyers, AutoUnfreeze(b) PROVE LocksHeld'
  BY <1>28, TaskEffect
<1>29. CASE AutoCredit
  BY <1>29, TaskEffect
<1>30. CASE AutoFinish
  BY <1>30, TaskEffect
<1>31. CASE ExpiryWrite
  BY <1>31, TaskEffect
<1>32. ASSUME NEW r \in Sessions, Crash(r) PROVE LocksHeld'
  BY <1>0, <1>32, FinishEffect, GotoEffect, GotoExpiredEffect DEF Crash
<1> QED
  BY <1>1, <1>2, <1>3, <1>4, <1>5, <1>6, <1>7, <1>8, <1>9, <1>10, <1>11,
     <1>12, <1>13, <1>14, <1>15, <1>16, <1>17, <1>18, <1>19, <1>20, <1>21,
     <1>22, <1>23, <1>24, <1>25, <1>26, <1>27, <1>28, <1>29, <1>30, <1>31,
     <1>32
     DEF Next, Begin, Continue, ContinueTask

-----------------------------------------------------------------------------
(* Nothing is undone *)

\* A posting stays, and so does a participant row.
NothingUndone ==
  /\ \A b \in Buyers : seat[b] # "none" => seat'[b] # "none"
  /\ \A b \in Buyers, k \in Keys : paylog[b][k] # 0 => paylog'[b][k] # 0

LEMMA NothingUndoneStep == TypeOK /\ [Next]_vars => NothingUndone
<1> SUFFICES ASSUME TypeOK, [Next]_vars PROVE NothingUndone
  OBVIOUS
<1>0. /\ Requests \subseteq Sessions
      /\ \A r \in Requests : req[r].op \in {"join", "quit", "refund"} => req[r].user \in Buyers
      /\ At(Scheduler, "auto", "credit") => req[Scheduler].user \in Buyers
      /\ seat \in [Buyers -> {"none", "paid", "refunded"}]
  BY DEF Sessions, TypeOK
<1> USE DEF NothingUndone
<1>1. CASE UNCHANGED vars
  BY <1>1 DEF vars
<1>2. CASE DeadlinePasses
  BY <1>2 DEF DeadlinePasses, rows, money
<1>3. ASSUME NEW b \in Buyers, Withdraw(b) PROVE NothingUndone
  BY <1>0, <1>3, PostEffect, KeysOf, PricePositive, RefundType DEF Withdraw, At, rows, Posted
<1>4. ASSUME NEW r \in Requests, NEW b \in Buyers, BeginJoin(r, b) PROVE NothingUndone
  BY <1>4 DEF BeginJoin, rows, money
<1>5. ASSUME NEW r \in Requests, NEW b \in Buyers, BeginQuit(r, b) PROVE NothingUndone
  BY <1>5 DEF BeginQuit, rows, money
<1>6. ASSUME NEW r \in Requests, NEW b \in Buyers, BeginRefund(r, b) PROVE NothingUndone
  BY <1>6 DEF BeginRefund, rows, money
<1>7. ASSUME NEW r \in Requests, BeginSettle(r) PROVE NothingUndone
  BY <1>7 DEF BeginSettle, rows, money
<1>8. ASSUME NEW r \in Requests, MarkDisbanded(r) PROVE NothingUndone
  BY <1>8 DEF MarkDisbanded, rows, money
<1>9. ASSUME NEW r \in Requests, MarkDeleted(r) PROVE NothingUndone
  BY <1>9 DEF MarkDeleted, rows, money
<1>10. ASSUME NEW r \in Requests, JoinDebit(r) PROVE NothingUndone
  BY <1>0, <1>10, PostEffect, KeysOf, PricePositive, RefundType DEF JoinDebit, At, rows, Posted
<1>11. ASSUME NEW r \in Requests, JoinFreeze(r) PROVE NothingUndone
  BY <1>0, <1>11, PostEffect, KeysOf, PricePositive, RefundType DEF JoinFreeze, At, rows, Posted
<1>12. ASSUME NEW r \in Requests, JoinCompensate(r) PROVE NothingUndone
  BY <1>0, <1>12, PostEffect, KeysOf, PricePositive, RefundType DEF JoinCompensate, At, rows, Posted
<1>13. ASSUME NEW r \in Requests, JoinEnrol(r) PROVE NothingUndone
  BY <1>0, <1>13 DEF JoinEnrol, money
<1>14. ASSUME NEW r \in Requests, JoinPurchase(r) PROVE NothingUndone
  BY <1>14 DEF JoinPurchase, rows, money
<1>15. ASSUME NEW r \in Requests, Unfreeze(r) PROVE NothingUndone
  <2>1. /\ req[r].user \in Buyers
        /\ <<req[r].op, "freeze_decr">> \in Keys /\ <<req[r].op, "wallet">> \in Keys
        /\ <<req[r].op, "compensate">> \in Keys
    BY <1>0, <1>15, KeysOf DEF Unfreeze
  <2> QED
    BY <1>0, <1>15, <2>1, PostEffect, KeysOf, PricePositive, RefundType DEF Unfreeze, rows, Posted
<1>16. ASSUME NEW r \in Requests, CreditBuyer(r) PROVE NothingUndone
  <2>1. /\ req[r].user \in Buyers
        /\ <<req[r].op, "freeze_decr">> \in Keys /\ <<req[r].op, "wallet">> \in Keys
        /\ <<req[r].op, "compensate">> \in Keys
    BY <1>0, <1>16, KeysOf DEF CreditBuyer
  <2> QED
    BY <1>0, <1>16, <2>1, PostEffect, KeysOf, PricePositive, RefundType DEF CreditBuyer, rows, Posted
<1>17. ASSUME NEW r \in Requests, Restore(r) PROVE NothingUndone
  <2>1. /\ req[r].user \in Buyers
        /\ <<req[r].op, "freeze_decr">> \in Keys /\ <<req[r].op, "wallet">> \in Keys
        /\ <<req[r].op, "compensate">> \in Keys
    BY <1>0, <1>17, KeysOf DEF Restore
  <2> QED
    BY <1>0, <1>17, <2>1, PostEffect, KeysOf, PricePositive, RefundType DEF Restore, rows, Posted
<1>18. ASSUME NEW r \in Requests, PayPenalty(r) PROVE NothingUndone
  BY <1>0, <1>18, PostEffect, KeysOf, PricePositive, RefundType DEF PayPenalty, At, rows, Posted
<1>19. ASSUME NEW r \in Requests, Leave(r) PROVE NothingUndone
  BY <1>0, <1>19 DEF Leave, money
<1>20. ASSUME NEW r \in Requests, SettlePay(r) PROVE NothingUndone
  BY <1>20 DEF SettlePay, rows, money
<1>21. ASSUME NEW r \in Requests, SettleFinish(r) PROVE NothingUndone
  BY <1>21 DEF SettleFinish, rows, money
<1>22. ASSUME NEW r \in Requests, CloseRead(r) PROVE NothingUndone
  BY <1>22 DEF CloseRead, rows, money
<1>23. ASSUME NEW r \in Requests, CloseWrite(r) PROVE NothingUndone
  BY <1>0, <1>23 DEF CloseWrite
<1>24. CASE MarkPurchased
  BY <1>24 DEF MarkPurchased, rows, money
<1>25. CASE SoftDelete
  BY <1>25 DEF SoftDelete, rows, money
<1>26. CASE AutoBegin
  BY <1>26 DEF AutoBegin, rows, money
<1>27. CASE ExpiryBegin
  BY <1>27 DEF ExpiryBegin, rows, money
<1>28. ASSUME NEW b \in Buyers, AutoUnfreeze(b) PROVE NothingUndone
  BY <1>0, <1>28, PostEffect, KeysOf, PricePositive, RefundType DEF AutoUnfreeze, At, rows, Posted
<1>29. CASE AutoCredit
  BY <1>0, <1>29, PostEffect, KeysOf, PricePositive, RefundType DEF AutoCredit, At, rows, Posted
<1>30. CASE AutoFinish
  BY <1>30 DEF AutoFinish, rows, money
<1>31. CASE ExpiryWrite
  BY <1>31 DEF ExpiryWrite, rows, money
<1>32. ASSUME NEW r \in Sessions, Crash(r) PROVE NothingUndone
  BY <1>32 DEF Crash, rows, money
<1> QED
  BY <1>1, <1>2, <1>3, <1>4, <1>5, <1>6, <1>7, <1>8, <1>9, <1>10, <1>11,
     <1>12, <1>13, <1>14, <1>15, <1>16, <1>17, <1>18, <1>19, <1>20, <1>21,
     <1>22, <1>23, <1>24, <1>25, <1>26, <1>27, <1>28, <1>29, <1>30, <1>31,
     <1>32
     DEF Next, Begin, Continue, ContinueTask

-----------------------------------------------------------------------------
(* Seats and postings *)

\* What a request that gives a seat up has already done for its buyer.
LeaveFacts(r) ==
  req[r].op \in {"quit", "refund"} =>
    /\ seat[req[r].user] # "none"
    /\ req[r].at # "unfreeze" => paylog[req[r].user][<<req[r].op, "freeze_decr">>] # 0
    /\ req[r].at = "penalty" => paylog[req[r].user][<<req[r].op, "wallet">>] # 0

\* The same of auto_disband_task, and of the participants a session has read.
TaskFacts ==
  At(Scheduler, "auto", "credit") =>
    /\ seat[req[Scheduler].user] # "none"
    /\ paylog[req[Scheduler].user][<<"disband", "freeze_decr">>] # 0

ReadFacts == \A s \in Sessions : \A b \in req[s].paid : seat[b] # "none"

ExitFacts ==
  \A b \in Buyers :
    /\ \A op \in {"quit", "refund"} :
         paylog[b][<<op, "wallet">>] # 0 \/ paylog[b][<<op, "compensate">>] # 0
           => paylog[b][<<op, "freeze_decr">>] # 0
    /\ paylog[b][<<"refund", "penalty">>] # 0 => paylog[b][<<"refund", "wallet">>] # 0
    /\ paylog[b][<<"disband", "wallet">>] # 0 => paylog[b][<<"disband", "freeze_decr">>] # 0
    /\ \A op \in {"quit", "refund", "disband"} :
         paylog[b][<<op, "freeze_decr">>] # 0 => seat[b] # "none"

LeavingInv == (\A r \in Requests : LeaveFacts(r)) /\ TaskFacts /\ ReadFacts /\ ExitFacts

LEMMA LeaveFactsStep ==
  TypeOK /\ LeavingInv /\ [Next]_vars => \A r \in Requests : LeaveFacts(r)'
<1> SUFFICES ASSUME TypeOK, LeavingInv, [Next]_vars, NEW q \in Requests
             PROVE  LeaveFacts(q)'
  BY DEF LeavingInv
<1>0. /\ Requests \subseteq Sessions /\ Scheduler \notin Requests
      /\ \A r \in Requests : req[r].op \in {"join", "quit", "refund"} => req[r].user \in Buyers
      /\ Idle.op = "idle" /\ LeaveFacts(q) /\ NothingUndone
      /\ \A op \in {"quit", "refund"} : /\ <<op, "freeze_decr">> \in Keys
                                       /\ <<op, "wallet">> \in Keys
  BY NothingUndoneStep, EscrowAssumption, IdleType, KeysOf DEF Sessions, TypeOK, LeavingInv
<1> USE DEF LeaveFacts, NothingUndone
<1>1. CASE UNCHANGED vars
  BY <1>0, <1>1 DEF vars
<1>2. CASE DeadlinePasses
  BY <1>0, <1>2 DEF DeadlinePasses
<1>3. ASSUME NEW b \in Buyers, Withdraw(b) PROVE LeaveFacts(q)'
  BY <1>0, <1>3 DEF Withdraw
<1>4. ASSUME NEW r \in Requests, NEW b \in Buyers, BeginJoin(r, b) PROVE LeaveFacts(q)'
  BY <1>0, <1>4, StartEffect DEF BeginJoin
<1>5. ASSUME NEW r \in Requests, NEW b \in Buyers, BeginQuit(r, b) PROVE LeaveFacts(q)'
  BY <1>0, <1>5, StartEffect DEF BeginQuit
<1>6. ASSUME NEW r \in Requests, NEW b \in Buyers, BeginRefund(r, b) PROVE LeaveFacts(q)'
  BY <1>0, <1>6, StartEffect DEF BeginRefund
<1>7. ASSUME NEW r \in Requests, BeginSettle(r) PROVE LeaveFacts(q)'
  BY <1>0, <1>7, StartEffect DEF BeginSettle
<1>8. ASSUME NEW r \in Requests, MarkDisbanded(r) PROVE LeaveFacts(q)'
  BY <1>0, <1>8, StartEffect DEF MarkDisbanded
<1>9. ASSUME NEW r \in Requests, MarkDeleted(r) PROVE LeaveFacts(q)'
  BY <1>0, <1>9, StartEffect DEF MarkDeleted
<1>10. ASSUME NEW r \in Requests, JoinDebit(r) PROVE LeaveFacts(q)'
  BY <1>0, <1>10, FinishEffect, GotoEffect, GotoExpiredEffect DEF JoinDebit, At
<1>11. ASSUME NEW r \in Requests, JoinFreeze(r) PROVE LeaveFacts(q)'
  BY <1>0, <1>11, FinishEffect, GotoEffect, GotoExpiredEffect DEF JoinFreeze, At
<1>12. ASSUME NEW r \in Requests, JoinCompensate(r) PROVE LeaveFacts(q)'
  BY <1>0, <1>12, FinishEffect, GotoEffect, GotoExpiredEffect DEF JoinCompensate, At
<1>13. ASSUME NEW r \in Requests, JoinEnrol(r) PROVE LeaveFacts(q)'
  BY <1>0, <1>13, FinishEffect, GotoEffect, GotoExpiredEffect DEF JoinEnrol, At
<1>14. ASSUME NEW r \in Requests, JoinPurchase(r) PROVE LeaveFacts(q)'
  BY <1>0, <1>14, FinishEffect, GotoEffect, GotoExpiredEffect DEF JoinPurchase, At
<1>15. ASSUME NEW r \in Requests, Unfreeze(r) PROVE LeaveFacts(q)'
  BY <1>0, <1>15, FinishEffect, GotoEffect, GotoExpiredEffect, PostEffect, PricePositive DEF Unfreeze, Posted
<1>16. ASSUME NEW r \in Requests, CreditBuyer(r) PROVE LeaveFacts(q)'
  BY <1>0, <1>16, FinishEffect, GotoEffect, GotoExpiredEffect, PostEffect, RefundType DEF CreditBuyer, Penalised
<1>17. ASSUME NEW r \in Requests, Restore(r) PROVE LeaveFacts(q)'
  BY <1>0, <1>17, FinishEffect DEF Restore
<1>18. ASSUME NEW r \in Requests, PayPenalty(r) PROVE LeaveFacts(q)'
  BY <1>0, <1>18, FinishEffect, GotoEffect, GotoExpiredEffect DEF PayPenalty, At
<1>19. ASSUME NEW r \in Requests, Leave(r) PROVE LeaveFacts(q)'
  BY <1>0, <1>19, FinishEffect DEF Leave
<1>20. ASSUME NEW r \in Requests, SettlePay(r) PROVE LeaveFacts(q)'
  BY <1>0, <1>20, FinishEffect, GotoEffect, GotoExpiredEffect DEF SettlePay, At
<1>21. ASSUME NEW r \in Requests, SettleFinish(r) PROVE LeaveFacts(q)'
  BY <1>0, <1>21, FinishEffect, GotoEffect, GotoExpiredEffect DEF SettleFinish, At
<1>22. ASSUME NEW r \in Requests, CloseRead(r) PROVE LeaveFacts(q)'
  <2>1. seat' = seat /\ paylog' = paylog
    BY <1>22 DEF CloseRead, rows, money
  <2> QED
    BY <1>0, <1>22, <2>1, CloseReadStep
<1>23. ASSUME NEW r \in Requests, CloseWrite(r) PROVE LeaveFacts(q)'
  BY <1>0, <1>23, FinishEffect, GotoEffect, GotoExpiredEffect DEF CloseWrite, At
<1>24. CASE MarkPurchased
  BY <1>0, <1>24 DEF MarkPurchased
<1>25. CASE SoftDelete
  BY <1>0, <1>25 DEF SoftDelete
<1>26. CASE AutoBegin
  BY <1>0, <1>26, TaskEffect
<1>27. CASE ExpiryBegin
  BY <1>0, <1>27, TaskEffect
<1>28. ASSUME NEW b \in Buyers, AutoUnfreeze(b) PROVE LeaveFacts(q)'
  BY <1>0, <1>28, TaskEffect
<1>29. CASE AutoCredit
  BY <1>0, <1>29, TaskEffect
<1>30. CASE AutoFinish
  BY <1>0, <1>30, TaskEffect
<1>31. CASE ExpiryWrite
  BY <1>0, <1>31, TaskEffect
<1>32. ASSUME NEW r \in Sessions, Crash(r) PROVE LeaveFacts(q)'
  BY <1>0, <1>32, FinishEffect DEF Crash
<1> QED
  BY <1>1, <1>2, <1>3, <1>4, <1>5, <1>6, <1>7, <1>8, <1>9, <1>10, <1>11,
     <1>12, <1>13, <1>14, <1>15, <1>16, <1>17, <1>18, <1>19, <1>20, <1>21,
     <1>22, <1>23, <1>24, <1>25, <1>26, <1>27, <1>28, <1>29, <1>30, <1>31,
     <1>32
     DEF Next, Begin, Continue, ContinueTask

\* And the requests are of no concern to the session of the tasks.
LEMMA RequestEffect ==
  ASSUME TypeOK, NEW r \in Requests, Begin(r) \/ Continue(r)
  PROVE  req'[Scheduler] = req[Scheduler]
<1>1. Scheduler \notin Requests /\ Scheduler \in Sessions /\ Requests \subseteq Sessions
  BY EscrowAssumption DEF Sessions
<1>2. \A op, at, b : Start(r, op, at, b) => req'[Scheduler] = req[Scheduler]
  BY <1>1, StartEffect
<1>3. \A at : Goto(r, at) \/ GotoExpired(r, at) => req'[Scheduler] = req[Scheduler]
  BY <1>1, GotoEffect, GotoExpiredEffect
<1>4. Finish(r) => req'[Scheduler] = req[Scheduler]
  BY <1>1, FinishEffect
<1>5. CASE Begin(r)
  BY <1>2, <1>5 DEF Begin, BeginJoin, BeginQuit, BeginRefund, BeginSettle, MarkDisbanded,
                    MarkDeleted
<1>6. CASE JoinDebit(r) \/ JoinFreeze(r) \/ JoinCompensate(r) \/ JoinEnrol(r) \/ JoinPurchase(r)
  BY <1>3, <1>4, <1>6 DEF JoinDebit, JoinFreeze, JoinCompensate, JoinEnrol, JoinPurchase
<1>7. CASE Unfreeze(r) \/ CreditBuyer(r) \/ Restore(r) \/ PayPenalty(r) \/ Leave(r)
  BY <1>3, <1>4, <1>7 DEF Unfreeze, CreditBuyer, Restore, PayPenalty, Leave
<1>8. CASE SettlePay(r) \/ SettleFinish(r) \/ CloseWrite(r)
  BY <1>3, <1>4, <1>8 DEF SettlePay, SettleFinish, CloseWrite
<1>9. CASE CloseRead(r)
  BY <1>1, <1>9, CloseReadEffect
<1> QED
  BY <1>5, <1>6, <1>7, <1>8, <1>9 DEF Continue

LEMMA TaskFactsStep == TypeOK /\ LeavingInv /\ [Next]_vars => TaskFacts'
<1> SUFFICES ASSUME TypeOK, LeavingInv, [Next]_vars PROVE TaskFacts'
  OBVIOUS
<1>0. /\ Scheduler \in Sessions /\ Scheduler \notin Requests
      /\ Idle.op = "idle" /\ TaskFacts /\ ReadFacts /\ NothingUndone
      /\ At(Scheduler, "auto", "credit") => req[Scheduler].user \in Buyers
      /\ <<"disband", "freeze_decr">> \in Keys
  BY NothingUndoneStep, EscrowAssumption, IdleType, KeysOf DEF Sessions, TypeOK, LeavingInv
<1>1. CASE req'[Scheduler] = req[Scheduler]
  BY <1>0, <1>1 DEF TaskFacts, At, NothingUndone
<1>2. CASE Finish(Scheduler)
  BY <1>0, <1>2, FinishEffect DEF TaskFacts, At
<1>3. CASE AutoBegin
  <2>1. req'[Scheduler].at = "unfreeze"
    BY <1>0, <1>3 DEF AutoBegin, TypeOK, Idle
  <2> QED
    BY <2>1 DEF TaskFacts, At
<1>4. CASE ExpiryBegin
  BY <1>0, <1>4, StartEffect DEF ExpiryBegin, TaskFacts, At
<1>5. ASSUME NEW b \in Buyers, NextParticipant(b) PROVE TaskFacts'
  <2>1. req'[Scheduler].at = "unfreeze"
    BY <1>0, <1>5 DEF NextParticipant, TypeOK, SessionState
  <2> QED
    BY <2>1 DEF TaskFacts, At
<1>6. ASSUME NEW b \in Buyers, AutoUnfreeze(b) PROVE TaskFacts'
  <2>1. CASE /\ Post(b, <<"disband", "freeze_decr">>, -Price)
             /\ req' = [req EXCEPT ![Scheduler].at = "credit", ![Scheduler].user = b]
    <3>1. req'[Scheduler].user = b
      BY <1>0, <2>1 DEF TypeOK, SessionState
    <3>2. paylog'[b][<<"disband", "freeze_decr">>] # 0
      BY <1>0, <2>1, PostEffect, PricePositive
    <3>3. seat'[b] # "none"
      BY <1>0, <1>6 DEF AutoUnfreeze, ReadFacts, rows
    <3> QED
      BY <3>1, <3>2, <3>3 DEF TaskFacts
  <2> QED
    BY <1>2, <1>5, <1>6, <2>1 DEF AutoUnfreeze
<1>7. CASE AutoCredit
  BY <1>0, <1>2, <1>5, <1>7 DEF AutoCredit
<1>8. CASE AutoFinish \/ ExpiryWrite
  BY <1>2, <1>8 DEF AutoFinish, ExpiryWrite
<1>9. ASSUME NEW r \in Sessions, Crash(r) PROVE TaskFacts'
  BY <1>0, <1>1, <1>2, <1>9, FinishEffect DEF Crash
<1>10. ASSUME NEW r \in Requests, Begin(r) \/ Continue(r) PROVE TaskFacts'
  BY <1>1, <1>10, RequestEffect
<1>11. CASE UNCHANGED req
  BY <1>1, <1>11
<1> QED
  BY <1>3, <1>4, <1>6, <1>7, <1>8, <1>9, <1>10, <1>11
     DEF Next, ContinueTask, vars, DeadlinePasses, Withdraw, MarkPurchased, SoftDelete

\* Whom a session means to refund, it knows already or reads in this step.
LEMMA PaidStep ==
  ASSUME TypeOK, [Next]_vars, NEW q \in Sessions
  PROVE  req'[q].paid \subseteq req[q].paid \cup Paid
<1> DEFINE P == req'[q].paid \subseteq req[q].paid \cup Paid
<1> SUFFICES P
  OBVIOUS
<1>0. /\ Requests \subseteq Sessions /\ Scheduler \in Sessions /\ Scheduler \notin Requests
      /\ Idle.paid = {}
  BY EscrowAssumption, IdleType DEF Sessions, Idle
<1>1. ASSUME NEW r \in Sessions, NEW op, NEW at, NEW b, Start(r, op, at, b) PROVE P
  BY <1>1, StartEffect
<1>2. ASSUME NEW r \in Sessions, NEW at, Goto(r, at) PROVE P
  BY <1>2, GotoEffect
<1>3. ASSUME NEW r \in Sessions, NEW at, GotoExpired(r, at) PROVE P
  BY <1>3, GotoExpiredEffect
<1>4. ASSUME NEW r \in Sessions, Finish(r) PROVE P
  BY <1>0, <1>4, FinishEffect
<1>5. ASSUME NEW b \in Buyers, NextParticipant(b) PROVE P
  BY <1>0, <1>5 DEF NextParticipant, TypeOK, SessionState
<1>6. CASE UNCHANGED req
  BY <1>6
<1> HIDE DEF P
<1>7. ASSUME NEW r \in Requests, Begin(r) PROVE P
  BY <1>0, <1>1, <1>7 DEF Begin, BeginJoin, BeginQuit, BeginRefund, BeginSettle,
                          MarkDisbanded, MarkDeleted
<1>8. ASSUME NEW r \in Requests, Continue(r) PROVE P
  <2>1. CASE JoinDebit(r) \/ JoinFreeze(r) \/ JoinCompensate(r) \/ JoinEnrol(r) \/ JoinPurchase(r)
    BY <1>0, <1>2, <1>3, <1>4, <2>1
       DEF JoinDebit, JoinFreeze, JoinCompensate, JoinEnrol, JoinPurchase
  <2>2. CASE Unfreeze(r) \/ CreditBuyer(r) \/ Restore(r) \/ PayPenalty(r) \/ Leave(r)
    BY <1>0, <1>2, <1>3, <1>4, <2>2 DEF Unfreeze, CreditBuyer, Restore, PayPenalty, Leave
  <2>3. CASE SettlePay(r) \/ SettleFinish(r) \/ CloseWrite(r)
    BY <1>0, <1>2, <1>3, <1>4, <2>3 DEF SettlePay, SettleFinish, CloseWrite
  <2>4. CASE CloseRead(r)
    <3>1. req'[r].paid = {} \/ req'[r].paid = Paid
      BY <1>0, <2>4, CloseReadEffect
    <3> QED
      BY <2>4, <3>1, CloseReadEffect DEF P
  <2> QED
    BY <1>8, <2>1, <2>2, <2>3, <2>4 DEF Continue
<1>9. CASE AutoBegin
  <2>1. req'[Scheduler].paid = Paid
    BY <1>0, <1>9 DEF AutoBegin, TypeOK, Idle
  <2>2. q # Scheduler => req'[q] = req[q]
    BY <1>0, <1>9 DEF AutoBegin, TypeOK
  <2> QED
    BY <2>1, <2>2 DEF P
<1>10. ASSUME NEW b \in Buyers, AutoUnfreeze(b) PROVE P
  <2>1. CASE req' = [req EXCEPT ![Scheduler].at = "credit", ![Scheduler].user = b]
    BY <1>0, <2>1 DEF TypeOK, SessionState, P
  <2> QED
    BY <1>0, <1>4, <1>5, <1>10, <2>1 DEF AutoUnfreeze
<1>11. CASE AutoCredit
  <2>1. CASE Finish(Scheduler)
    BY <1>0, <1>4, <2>1
  <2>2. CASE /\ At(Scheduler, "auto", "credit")
             /\ NextParticipant(req[Scheduler].user)
    <3>1. req[Scheduler].user \in Buyers
      BY <2>2 DEF TypeOK
    <3> QED
      BY <1>5, <2>2, <3>1
  <2> QED
    BY <1>11, <2>1, <2>2 DEF AutoCredit
<1>12. CASE AutoFinish \/ ExpiryBegin \/ ExpiryWrite
  <2>1. CASE Finish(Scheduler)
    BY <1>0, <1>4, <2>1
  <2>2. CASE Start(Scheduler, "expiry", "write", Creator)
    BY <1>0, <1>1, <2>2
  <2> QED
    BY <1>12, <2>1, <2>2 DEF AutoFinish, ExpiryBegin, ExpiryWrite
<1>13. ASSUME NEW r \in Sessions, Crash(r) PROVE P
  BY <1>4, <1>13 DEF Crash
<1> QED
  BY <1>6, <1>7, <1>8, <1>9, <1>10, <1>11, <1>12, <1>13
     DEF Next, ContinueTask, vars, DeadlinePasses, Withdraw, MarkPurchased, SoftDelete

LEMMA ReadFactsStep == TypeOK /\ LeavingInv /\ [Next]_vars => ReadFacts'
<1> SUFFICES ASSUME TypeOK, LeavingInv, [Next]_vars,
                    NEW s \in Sessions, NEW b \in req'[s].paid
             PROVE  seat'[b] # "none"
  BY DEF ReadFacts
<1>1. /\ b \in Buyers
      /\ seat[b] # "none"
  BY PaidStep DEF TypeOK, SessionState, Paid, LeavingInv, ReadFacts
<1> QED
  BY <1>1, NothingUndoneStep DEF NothingUndone

-----------------------------------------------------------------------------
(* Joining *)

\* What a request that joins has done for its buyer, at each of its steps.
JoinFacts(r) ==
  req[r].op = "join" =>
    /\ req[r].at # "purchase" => seat[req[r].user] = "none"
    /\ req[r].at # "debit" => paylog[req[r].user][<<"join", "wallet">>] # 0
    /\ req[r].at \in {"freeze", "enrol"} =>
         paylog[req[r].user][<<"join", "compensate">>] = 0
    /\ req[r].at = "enrol" => paylog[req[r].user][<<"join", "freeze">>] # 0

EntryFacts ==
  \A b \in Buyers :
    paylog[b][<<"join", "freeze">>] # 0 \/ paylog[b][<<"join", "compensate">>] # 0
      => paylog[b][<<"join", "wallet">>] # 0

JoinInv == (\A r \in Requests : JoinFacts(r)) /\ EntryFacts /\ SeatIsPaidFor

\* The steps that join.
JoinStep(r) ==
  \/ \E b \in Buyers : BeginJoin(r, b)
  \/ JoinDebit(r) \/ JoinFreeze(r) \/ JoinCompensate(r) \/ JoinEnrol(r) \/ JoinPurchase(r)

\* Nothing that concerns a buyer's joining changes.
JoinFrame ==
  /\ \A b \in Buyers : seat'[b] = "none" <=> seat[b] = "none"
  /\ \A b \in Buyers : \A k \in {"wallet", "freeze", "compensate"} :
       paylog'[b][<<"join", k>>] = paylog[b][<<"join", k>>]
  /\ \A r \in Requests : req'[r].op = "join" =>
       /\ req[r].op = "join"
       /\ req'[r].at = req[r].at /\ req'[r].user = req[r].user

LEMMA OtherSteps ==
  TypeOK /\ LeavingInv /\ [Next]_vars => JoinFrame \/ \E r \in Requests : JoinStep(r)
<1> SUFFICES ASSUME TypeOK, LeavingInv, [Next]_vars, \A r \in Requests : ~JoinStep(r)
             PROVE  JoinFrame
  OBVIOUS
<1> USE DEF JoinFrame
<1>0. /\ Requests \subseteq Sessions /\ Scheduler \notin Requests
      /\ \A r \in Requests : req[r].op \in {"join", "quit", "refund"} => req[r].user \in Buyers
      /\ At(Scheduler, "auto", "credit") => req[Scheduler].user \in Buyers
      /\ seat \in [Buyers -> {"none", "paid", "refunded"}]
      /\ Idle.op = "idle" /\ LeavingInv
      /\ \A op \in {"quit", "refund"} : /\ <<op, "freeze_decr">> \in Keys
                                       /\ <<op, "wallet">> \in Keys
                                       /\ <<op, "compensate">> \in Keys
      /\ \A op \in {"wallet", "freeze", "compensate"} : <<"join", op>> \in Keys
      /\ {<<"refund", "penalty">>, <<"disband", "freeze_decr">>, <<"disband", "wallet">>,
          <<"withdraw", "wallet">>} \subseteq Keys
  BY EscrowAssumption, IdleType DEF Sessions, TypeOK, Keys
<1>1. CASE UNCHANGED vars
  BY <1>1 DEF vars
<1>2. CASE DeadlinePasses
  BY <1>0, <1>2, StartEffect, FinishEffect, GotoEffect, GotoExpiredEffect DEF DeadlinePasses, At, rows, money
<1>3. ASSUME NEW b \in Buyers, Withdraw(b) PROVE JoinFrame
  BY <1>0, <1>3, PostEffect, PricePositive DEF Withdraw, rows
<1>4. ASSUME NEW r \in Requests, NEW b \in Buyers, BeginQuit(r, b) PROVE JoinFrame
  BY <1>0, <1>4, StartEffect, FinishEffect, GotoEffect, GotoExpiredEffect DEF BeginQuit, At, rows, money
<1>5. ASSUME NEW r \in Requests, NEW b \in Buyers, BeginRefund(r, b) PROVE JoinFrame
  BY <1>0, <1>5, StartEffect, FinishEffect, GotoEffect, GotoExpiredEffect DEF BeginRefund, At, rows, money
<1>6. ASSUME NEW r \in Requests, BeginSettle(r) PROVE JoinFrame
  BY <1>0, <1>6, StartEffect, FinishEffect, GotoEffect, GotoExpiredEffect DEF BeginSettle, At, rows, money
<1>7. ASSUME NEW r \in Requests, MarkDisbanded(r) PROVE JoinFrame
  BY <1>0, <1>7, StartEffect, FinishEffect, GotoEffect, GotoExpiredEffect DEF MarkDisbanded, At, rows, money
<1>8. ASSUME NEW r \in Requests, MarkDeleted(r) PROVE JoinFrame
  BY <1>0, <1>8, StartEffect, FinishEffect, GotoEffect, GotoExpiredEffect DEF MarkDeleted, At, rows, money
<1>9. ASSUME NEW r \in Requests, Unfreeze(r) PROVE JoinFrame
  <2>1. /\ req[r].user \in Buyers
        /\ <<req[r].op, "freeze_decr">> \in Keys /\ <<req[r].op, "wallet">> \in Keys
        /\ <<req[r].op, "compensate">> \in Keys /\ req[r].op # "join"
    BY <1>0, <1>9 DEF Unfreeze
  <2> QED
    BY <1>0, <1>9, <2>1, PostEffect, FinishEffect, GotoEffect, GotoExpiredEffect, PricePositive,
       RefundType DEF Unfreeze, rows
<1>10. ASSUME NEW r \in Requests, CreditBuyer(r) PROVE JoinFrame
  <2>1. /\ req[r].user \in Buyers
        /\ <<req[r].op, "freeze_decr">> \in Keys /\ <<req[r].op, "wallet">> \in Keys
        /\ <<req[r].op, "compensate">> \in Keys /\ req[r].op # "join"
    BY <1>0, <1>10 DEF CreditBuyer
  <2> QED
    BY <1>0, <1>10, <2>1, PostEffect, FinishEffect, GotoEffect, GotoExpiredEffect, PricePositive,
       RefundType DEF CreditBuyer, rows
<1>11. ASSUME NEW r \in Requests, Restore(r) PROVE JoinFrame
  <2>1. /\ req[r].user \in Buyers
        /\ <<req[r].op, "freeze_decr">> \in Keys /\ <<req[r].op, "wallet">> \in Keys
        /\ <<req[r].op, "compensate">> \in Keys /\ req[r].op # "join"
    BY <1>0, <1>11 DEF Restore
  <2> QED
    BY <1>0, <1>11, <2>1, PostEffect, FinishEffect, GotoEffect, GotoExpiredEffect, PricePositive,
       RefundType DEF Restore, rows
<1>12. ASSUME NEW r \in Requests, PayPenalty(r) PROVE JoinFrame
  BY <1>0, <1>12, PostEffect, FinishEffect, GotoEffect, GotoExpiredEffect, PricePositive,
     RefundType DEF PayPenalty, At, rows
<1>13. ASSUME NEW r \in Requests, Leave(r) PROVE JoinFrame
  <2>1. seat[req[r].user] # "none" /\ req[r].user \in Buyers
    BY <1>0, <1>13 DEF Leave, LeavingInv, LeaveFacts
  <2> QED
    BY <1>0, <1>13, <2>1, FinishEffect DEF Leave, money
<1>14. ASSUME NEW r \in Requests, SettlePay(r) PROVE JoinFrame
  BY <1>0, <1>14, StartEffect, FinishEffect, GotoEffect, GotoExpiredEffect DEF SettlePay, At, rows, money
<1>15. ASSUME NEW r \in Requests, SettleFinish(r) PROVE JoinFrame
  BY <1>0, <1>15, StartEffect, FinishEffect, GotoEffect, GotoExpiredEffect DEF SettleFinish, At, rows, money
<1>16. ASSUME NEW r \in Requests, CloseRead(r) PROVE JoinFrame
  <2>1. UNCHANGED <<seat, paylog>>
    BY <1>16 DEF CloseRead, rows, money
  <2> QED
    BY <1>0, <1>16, <2>1, CloseReadStep
<1>17. ASSUME NEW r \in Requests, CloseWrite(r) PROVE JoinFrame
  <2>1. \A b \in req[r].paid : seat[b] # "none"
    BY <1>0 DEF LeavingInv, ReadFacts
  <2> QED
    BY <1>0, <1>17, <2>1, FinishEffect DEF CloseWrite
<1>18. CASE MarkPurchased
  BY <1>0, <1>18, StartEffect, FinishEffect, GotoEffect, GotoExpiredEffect DEF MarkPurchased, At, rows, money
<1>19. CASE SoftDelete
  BY <1>0, <1>19, StartEffect, FinishEffect, GotoEffect, GotoExpiredEffect DEF SoftDelete, At, rows, money
<1>20. CASE AutoBegin
  BY <1>0, <1>20, TaskEffect, PostEffect, PricePositive DEF AutoBegin, At, rows, money
<1>21. CASE ExpiryBegin
  BY <1>0, <1>21, TaskEffect, PostEffect, PricePositive DEF ExpiryBegin, At, rows, money
<1>22. ASSUME NEW b \in Buyers, AutoUnfreeze(b) PROVE JoinFrame
  BY <1>0, <1>22, TaskEffect, PostEffect, PricePositive DEF AutoUnfreeze, At, rows, money
<1>23. CASE AutoCredit
  BY <1>0, <1>23, TaskEffect, PostEffect, PricePositive DEF AutoCredit, At, rows, money
<1>24. CASE AutoFinish
  BY <1>0, <1>24, TaskEffect, PostEffect, PricePositive DEF AutoFinish, At, rows, money
<1>25. CASE ExpiryWrite
  BY <1>0, <1>25, TaskEffect, PostEffect, PricePositive DEF ExpiryWrite, At, rows, money
<1>26. ASSUME NEW r \in Sessions, Crash(r) PROVE JoinFrame
  BY <1>0, <1>26, StartEffect, FinishEffect, GotoEffect, GotoExpiredEffect DEF Crash, At, rows, money
<1> QED
  BY <1>1, <1>2, <1>3, <1>4, <1>5, <1>6, <1>7, <1>8, <1>9, <1>10, <1>11, <1>12,
     <1>13, <1>14, <1>15, <1>16, <1>17, <1>18, <1>19, <1>20, <1>21, <1>22,
     <1>23, <1>24, <1>25, <1>26
     DEF Next, Begin, Continue, ContinueTask, JoinStep

LEMMA JoinInvStep == TypeOK /\ LocksHeld /\ LeavingInv /\ JoinInv /\ [Next]_vars => JoinInv'
<1> SUFFICES ASSUME TypeOK, LocksHeld, LeavingInv, JoinInv, [Next]_vars PROVE JoinInv'
  OBVIOUS
<1>0. /\ Requests \subseteq Sessions /\ Scheduler \notin Requests
      /\ \A r \in Requests : req[r].op \in {"join", "quit", "refund"} => req[r].user \in Buyers
      /\ seat \in [Buyers -> {"none", "paid", "refunded"}]
      /\ Idle.op = "idle" /\ NothingUndone
      /\ \A k \in {"wallet", "freeze", "compensate"} : <<"join", k>> \in Keys
  BY NothingUndoneStep, EscrowAssumption, IdleType, KeysOf DEF Sessions, TypeOK
<1>a. /\ \A r \in Requests : JoinFacts(r)
      /\ EntryFacts /\ SeatIsPaidFor
  BY DEF JoinInv
\* two requests that join are one
<1>b. \A r, s \in Requests : req[r].op = "join" /\ req[s].op = "join" => r = s
  BY DEF LocksHeld
<1> USE DEF JoinFacts, EntryFacts, SeatIsPaidFor, Posted
<1>1. CASE JoinFrame
  <2>1. ASSUME NEW q \in Requests PROVE JoinFacts(q)'
    BY <1>0, <1>1, <1>a, <2>1 DEF JoinFrame
  <2>2. EntryFacts' /\ SeatIsPaidFor'
    BY <1>1, <1>a DEF JoinFrame
  <2> QED
    BY <2>1, <2>2 DEF JoinInv
<1>2. ASSUME NEW r \in Requests, NEW b \in Buyers, BeginJoin(r, b) PROVE JoinInv'
  <2>1. UNCHANGED <<seat, paylog>> /\ seat[b] = "none"
    BY <1>2 DEF BeginJoin, rows, money
  <2>2. req'[r].at = "debit" /\ req'[r].user = b /\ \A s \in Requests \ {r} : req'[s] = req[s]
    BY <1>0, <1>2, StartEffect DEF BeginJoin
  <2>3. ASSUME NEW q \in Requests PROVE JoinFacts(q)'
    BY <1>a, <2>1, <2>2, <2>3
  <2> QED
    BY <1>a, <2>1, <2>3 DEF JoinInv
<1>3. ASSUME NEW r \in Requests, JoinDebit(r) PROVE JoinInv'
  <2>1. /\ req[r].op = "join" /\ req[r].at = "debit" /\ req[r].user \in Buyers
        /\ seat' = seat /\ \A s \in Requests \ {r} : req[s].op # "join" /\ req'[s] = req[s]
    BY <1>0, <1>3, <1>b, FinishEffect, GotoEffect, GotoExpiredEffect DEF JoinDebit, At, rows
  <2>2. CASE /\ paylog[req[r].user][<<"join", "wallet">>] = 0
             /\ Post(req[r].user, <<"join", "wallet">>, -Price)
             /\ Goto(r, "freeze")
    <3>1. /\ paylog'[req[r].user][<<"join", "wallet">>] # 0
          /\ \A c \in Buyers : \A k \in {"freeze", "compensate"} :
               paylog'[c][<<"join", k>>] = paylog[c][<<"join", k>>]
      BY <1>0, <2>1, <2>2, PostEffect, PricePositive
    <3>2. req'[r].at = "freeze" /\ req'[r].user = req[r].user
      BY <1>0, <2>2, GotoEffect
    <3>3. paylog[req[r].user][<<"join", "compensate">>] = 0
      BY <1>a, <2>1, <2>2
    <3>4. ASSUME NEW q \in Requests PROVE JoinFacts(q)'
      BY <1>a, <2>1, <3>1, <3>2, <3>3
    <3>5. EntryFacts' /\ SeatIsPaidFor'
      BY <1>0, <1>a, <2>1, <3>1 DEF NothingUndone
    <3> QED
      BY <3>4, <3>5 DEF JoinInv
  <2>3. CASE /\ paylog[req[r].user][<<"join", "wallet">>] # 0
             /\ GotoExpired(r, "compensate") /\ paylog' = paylog
    <3>1. req'[r].at = "compensate" /\ req'[r].user = req[r].user
      BY <1>0, <2>3, GotoExpiredEffect
    <3>2. ASSUME NEW q \in Requests PROVE JoinFacts(q)'
      BY <1>a, <2>1, <2>3, <3>1
    <3> QED
      BY <1>a, <2>1, <2>3, <3>2 DEF JoinInv
  <2>4. CASE Finish(r) /\ paylog' = paylog
    <3>1. ASSUME NEW q \in Requests PROVE JoinFacts(q)'
      BY <1>0, <1>a, <2>1, <2>4, FinishEffect
    <3> QED
      BY <1>a, <2>1, <2>4, <3>1 DEF JoinInv
  <2> QED
    BY <1>3, <2>2, <2>3, <2>4 DEF JoinDebit
<1>4. ASSUME NEW r \in Requests, JoinFreeze(r) PROVE JoinInv'
  <2>1. /\ req[r].op = "join" /\ req[r].at = "freeze" /\ req[r].user \in Buyers
        /\ seat' = seat /\ \A s \in Requests \ {r} : req[s].op # "join" /\ req'[s] = req[s]
    BY <1>0, <1>4, <1>b, GotoEffect DEF JoinFreeze, At, rows
  <2>2. CASE Post(req[r].user, <<"join", "freeze">>, Price) /\ Goto(r, "enrol")
    <3>1. /\ paylog'[req[r].user][<<"join", "freeze">>] # 0
          /\ \A c \in Buyers : \A k \in {"wallet", "compensate"} :
               paylog'[c][<<"join", k>>] = paylog[c][<<"join", k>>]
          /\ \A c \in Buyers \ {req[r].user} :
               paylog'[c][<<"join", "freeze">>] = paylog[c][<<"join", "freeze">>]
      BY <1>0, <2>1, <2>2, PostEffect, PricePositive
    <3>2. req'[r].at = "enrol" /\ req'[r].user = req[r].user
      BY <1>0, <2>2, GotoEffect
    <3>3. ASSUME NEW q \in Requests PROVE JoinFacts(q)'
      BY <1>a, <2>1, <3>1, <3>2
    <3>4. EntryFacts' /\ SeatIsPaidFor'
      BY <1>0, <1>a, <2>1, <3>1
    <3> QED
      BY <3>3, <3>4 DEF JoinInv
  <2>3. CASE Goto(r, "compensate") /\ paylog' = paylog
    <3>1. req'[r].at = "compensate" /\ req'[r].user = req[r].user
      BY <1>0, <2>3, GotoEffect
    <3>2. ASSUME NEW q \in Requests PROVE JoinFacts(q)'
      BY <1>a, <2>1, <2>3, <3>1
    <3> QED
      BY <1>a, <2>1, <2>3, <3>2 DEF JoinInv
  <2> QED
    BY <1>4, <2>2, <2>3 DEF JoinFreeze
<1>5. ASSUME NEW r \in Requests, JoinCompensate(r) PROVE JoinInv'
  <2>1. /\ req[r].op = "join" /\ req[r].at = "compensate" /\ req[r].user \in Buyers
        /\ seat' = seat /\ req'[r].op = "idle"
        /\ \A s \in Requests \ {r} : req[s].op # "join" /\ req'[s] = req[s]
    BY <1>0, <1>5, <1>b, FinishEffect DEF JoinCompensate, At, rows
  <2>2. ASSUME NEW q \in Requests PROVE JoinFacts(q)'
    BY <2>1
  <2>3. CASE Post(req[r].user, <<"join", "compensate">>, Price)
    <3>1. /\ \A c \in Buyers : \A k \in {"wallet", "freeze"} :
               paylog'[c][<<"join", k>>] = paylog[c][<<"join", k>>]
          /\ \A c \in Buyers \ {req[r].user} :
               paylog'[c][<<"join", "compensate">>] = paylog[c][<<"join", "compensate">>]
      BY <1>0, <2>1, <2>3, PostEffect, PricePositive
    <3>2. /\ paylog[req[r].user][<<"join", "wallet">>] # 0
          /\ seat[req[r].user] = "none"
      BY <1>a, <2>1
    <3>3. EntryFacts' /\ SeatIsPaidFor'
      BY <1>0, <1>a, <2>1, <3>1, <3>2
    <3> QED
      BY <2>2, <3>3 DEF JoinInv
  <2>4. CASE paylog' = paylog
    BY <1>a, <2>1, <2>2, <2>4 DEF JoinInv
  <2> QED
    BY <1>5, <2>3, <2>4 DEF JoinCompensate
<1>6. ASSUME NEW r \in Requests, JoinEnrol(r) PROVE JoinInv'
  <2>1. /\ req[r].op = "join" /\ req[r].at = "enrol" /\ req[r].user \in Buyers
        /\ paylog' = paylog /\ (req'[r].op = "idle" \/ req'[r].at = "purchase")
        /\ req'[r].op = "idle" \/ req'[r].user = req[r].user
        /\ \A s \in Requests \ {r} : req[s].op # "join" /\ req'[s] = req[s]
    BY <1>0, <1>6, <1>b, FinishEffect, GotoEffect DEF JoinEnrol, At, money
  <2>2. \A b \in Buyers \ {req[r].user} : seat'[b] = seat[b]
    BY <1>0, <1>6, <2>1 DEF JoinEnrol
  <2>3. ASSUME NEW q \in Requests PROVE JoinFacts(q)'
    BY <1>a, <2>1
  <2>4. EntryFacts' /\ SeatIsPaidFor'
    BY <1>a, <2>1, <2>2
  <2> QED
    BY <2>3, <2>4 DEF JoinInv
<1>7. ASSUME NEW r \in Requests, JoinPurchase(r) PROVE JoinInv'
  <2>1. /\ UNCHANGED <<seat, paylog>> /\ req'[r].op = "idle"
        /\ \A s \in Requests \ {r} : req'[s] = req[s]
    BY <1>0, <1>7, FinishEffect DEF JoinPurchase, money
  <2>2. ASSUME NEW q \in Requests PROVE JoinFacts(q)'
    BY <1>a, <2>1
  <2> QED
    BY <1>a, <2>1, <2>2 DEF JoinInv
<1> QED
  BY OtherSteps, <1>1, <1>2, <1>3, <1>4, <1>5, <1>6, <1>7 DEF JoinStep

-----------------------------------------------------------------------------
(* The order of the postings *)

LEMMA ExitFactsStep == TypeOK /\ LeavingInv /\ [Next]_vars => ExitFacts'
<1> SUFFICES ASSUME TypeOK, LeavingInv, [Next]_vars PROVE ExitFacts'
  OBVIOUS
<1>0. /\ Requests \subseteq Sessions /\ Scheduler \in Sessions
      /\ \A r \in Requests : req[r].op \in {"join", "quit", "refund"} => req[r].user \in Buyers
      /\ At(Scheduler, "auto", "credit") => req[Scheduler].user \in Buyers
      /\ LeavingInv /\ ExitFacts /\ NothingUndone
      /\ \A op \in {"quit", "refund"} : /\ <<op, "freeze_decr">> \in Keys
                                       /\ <<op, "wallet">> \in Keys
                                       /\ <<op, "compensate">> \in Keys
      /\ \A op \in {"wallet", "freeze", "compensate"} : <<"join", op>> \in Keys
      /\ {<<"refund", "penalty">>, <<"disband", "freeze_decr">>, <<"disband", "wallet">>,
          <<"withdraw", "wallet">>} \subseteq Keys
  BY NothingUndoneStep DEF Sessions, TypeOK, LeavingInv, Keys
<1> USE DEF ExitFacts, NothingUndone
<1>1. CASE UNCHANGED vars
  BY <1>0, <1>1 DEF vars
<1>2. CASE DeadlinePasses
  BY <1>0, <1>2 DEF DeadlinePasses, rows, money
<1>3. ASSUME NEW b \in Buyers, Withdraw(b) PROVE ExitFacts'
  BY <1>0, <1>3, PostEffect, PricePositive DEF Withdraw, At, rows
<1>4. ASSUME NEW r \in Requests, NEW b \in Buyers, BeginJoin(r, b) PROVE ExitFacts'
  BY <1>0, <1>4 DEF BeginJoin, rows, money
<1>5. ASSUME NEW r \in Requests, NEW b \in Buyers, BeginQuit(r, b) PROVE ExitFacts'
  BY <1>0, <1>5 DEF BeginQuit, rows, money
<1>6. ASSUME NEW r \in Requests, NEW b \in Buyers, BeginRefund(r, b) PROVE ExitFacts'
  BY <1>0, <1>6 DEF BeginRefund, rows, money
<1>7. ASSUME NEW r \in Requests, BeginSettle(r) PROVE ExitFacts'
  BY <1>0, <1>7 DEF BeginSettle, rows, money
<1>8. ASSUME NEW r \in Requests, MarkDisbanded(r) PROVE ExitFacts'
  BY <1>0, <1>8 DEF MarkDisbanded, rows, money
<1>9. ASSUME NEW r \in Requests, MarkDeleted(r) PROVE ExitFacts'
  BY <1>0, <1>9 DEF MarkDeleted, rows, money
<1>10. ASSUME NEW r \in Requests, JoinDebit(r) PROVE ExitFacts'
  BY <1>0, <1>10, PostEffect, PricePositive DEF JoinDebit, At, rows
<1>11. ASSUME NEW r \in Requests, JoinFreeze(r) PROVE ExitFacts'
  BY <1>0, <1>11, PostEffect, PricePositive DEF JoinFreeze, At, rows
<1>12. ASSUME NEW r \in Requests, JoinCompensate(r) PROVE ExitFacts'
  BY <1>0, <1>12, PostEffect, PricePositive DEF JoinCompensate, At, rows
<1>13. ASSUME NEW r \in Requests, JoinEnrol(r) PROVE ExitFacts'
  BY <1>0, <1>13 DEF JoinEnrol, rows, money
<1>14. ASSUME NEW r \in Requests, JoinPurchase(r) PROVE ExitFacts'
  BY <1>0, <1>14 DEF JoinPurchase, rows, money
<1>15. ASSUME NEW r \in Requests, Unfreeze(r) PROVE ExitFacts'
  <2>1. /\ req[r].op \in {"quit", "refund"} /\ req[r].user \in Buyers
    BY <1>0, <1>15 DEF Unfreeze, At
  <2>2. LeaveFacts(r)
    BY <1>0 DEF LeavingInv
  <2> QED
    BY <1>0, <1>15, <2>1, <2>2, PostEffect, PricePositive, RefundType DEF Unfreeze, At, rows, LeaveFacts, ExitFacts
<1>16. ASSUME NEW r \in Requests, CreditBuyer(r) PROVE ExitFacts'
  <2>1. /\ req[r].op \in {"quit", "refund"} /\ req[r].user \in Buyers
    BY <1>0, <1>16 DEF CreditBuyer, At
  <2>2. LeaveFacts(r)
    BY <1>0 DEF LeavingInv
  <2> QED
    BY <1>0, <1>16, <2>1, <2>2, PostEffect, PricePositive, RefundType DEF CreditBuyer, At, rows, LeaveFacts, ExitFacts
<1>17. ASSUME NEW r \in Requests, Restore(r) PROVE ExitFacts'
  <2>1. /\ req[r].op \in {"quit", "refund"} /\ req[r].user \in Buyers
    BY <1>0, <1>17 DEF Restore, At
  <2>2. LeaveFacts(r)
    BY <1>0 DEF LeavingInv
  <2> QED
    BY <1>0, <1>17, <2>1, <2>2, PostEffect, PricePositive, RefundType DEF Restore, At, rows, LeaveFacts, ExitFacts
<1>18. ASSUME NEW r \in Requests, PayPenalty(r) PROVE ExitFacts'
  <2>1. /\ req[r].user \in Buyers /\ paylog[req[r].user][<<"refund", "wallet">>] # 0
        /\ req[r].op = "refund"
    BY <1>0, <1>18 DEF PayPenalty, At, LeavingInv, LeaveFacts
  <2> QED
    BY <1>0, <1>18, <2>1, PostEffect, RefundType DEF PayPenalty, rows
<1>19. ASSUME NEW r \in Requests, Leave(r) PROVE ExitFacts'
  BY <1>0, <1>19 DEF Leave, rows, money
<1>20. ASSUME NEW r \in Requests, SettlePay(r) PROVE ExitFacts'
  BY <1>0, <1>20 DEF SettlePay, rows, money
<1>21. ASSUME NEW r \in Requests, SettleFinish(r) PROVE ExitFacts'
  BY <1>0, <1>21 DEF SettleFinish, rows, money
<1>22. ASSUME NEW r \in Requests, CloseRead(r) PROVE ExitFacts'
  BY <1>0, <1>22 DEF CloseRead, rows, money
<1>23. ASSUME NEW r \in Requests, CloseWrite(r) PROVE ExitFacts'
  BY <1>0, <1>23 DEF CloseWrite, rows, money
<1>24. CASE MarkPurchased
  BY <1>0, <1>24 DEF MarkPurchased, rows, money
<1>25. CASE SoftDelete
  BY <1>0, <1>25 DEF SoftDelete, rows, money
<1>26. CASE AutoBegin
  BY <1>0, <1>26 DEF AutoBegin, rows, money
<1>27. CASE ExpiryBegin
  BY <1>0, <1>27 DEF ExpiryBegin, rows, money
<1>28. ASSUME NEW b \in Buyers, AutoUnfreeze(b) PROVE ExitFacts'
  <2>1. seat[b] # "none"
    BY <1>0, <1>28 DEF AutoUnfreeze, LeavingInv, ReadFacts
  <2> QED
    BY <1>0, <1>28, <2>1, PostEffect, PricePositive DEF AutoUnfreeze, rows
<1>29. CASE AutoCredit
  <2>1. /\ req[Scheduler].user \in Buyers
        /\ paylog[req[Scheduler].user][<<"disband", "freeze_decr">>] # 0
    BY <1>0, <1>29 DEF AutoCredit, LeavingInv, TaskFacts
  <2> QED
    BY <1>0, <1>29, <2>1, PostEffect, PricePositive DEF AutoCredit, rows
<1>30. CASE AutoFinish
  BY <1>0, <1>30 DEF AutoFinish, rows, money
<1>31. CASE ExpiryWrite
  BY <1>0, <1>31 DEF ExpiryWrite, rows, money
<1>32. ASSUME NEW r \in Sessions, Crash(r) PROVE ExitFacts'
  BY <1>0, <1>32 DEF Crash, rows, money
<1> QED
  BY <1>1, <1>2, <1>3, <1>4, <1>5, <1>6, <1>7, <1>8, <1>9, <1>10, <1>11,
     <1>12, <1>13, <1>14, <1>15, <1>16, <1>17, <1>18, <1>19, <1>20, <1>21,
     <1>22, <1>23, <1>24, <1>25, <1>26, <1>27, <1>28, <1>29, <1>30, <1>31,
     <1>32
     DEF Next, Begin, Continue, ContinueTask

-----------------------------------------------------------------------------
(* Theorems *)

SeatInv == TypeOK /\ LocksHeld /\ LeavingInv /\ JoinInv

LEMMA SeatInvInit == Init => SeatInv
<1> SUFFICES ASSUME Init PROVE SeatInv
  OBVIOUS
<1>1. TypeOK
  BY InitType
<1>2. /\ \A r \in Sessions : req[r].op = "idle" /\ req[r].paid = {}
      /\ \A b \in Buyers : seat[b] = "none"
      /\ \A b \in Buyers, k \in Keys : paylog[b][k] = 0
      /\ Requests \subseteq Sessions /\ Scheduler \in Sessions
  BY IdleType DEF Init, Idle, Sessions
<1>3. LocksHeld
  BY <1>2 DEF LocksHeld
<1>4. LeavingInv
  BY <1>2, KeysOf DEF LeavingInv, LeaveFacts, TaskFacts, ReadFacts, ExitFacts, At
<1>5. JoinInv
  BY <1>2, KeysOf DEF JoinInv, JoinFacts, EntryFacts, SeatIsPaidFor
<1> QED
  BY <1>1, <1>3, <1>4, <1>5 DEF SeatInv

LEMMA SeatInvStep == SeatInv /\ [Next]_vars => SeatInv'
<1> SUFFICES ASSUME SeatInv, [Next]_vars PROVE SeatInv'
  OBVIOUS
<1>1. TypeOK /\ LocksHeld /\ LeavingInv /\ JoinInv
  BY DEF SeatInv
<1>2. TypeOK'
  BY <1>1, TypeStep
<1>3. LocksHeld'
  BY <1>1, LocksStep
<1>4. LeavingInv'
  BY <1>1, LeaveFactsStep, TaskFactsStep, ReadFactsStep, ExitFactsStep DEF LeavingInv
<1>5. JoinInv'
  BY <1>1, JoinInvStep
<1> QED
  BY <1>2, <1>3, <1>4, <1>5 DEF SeatInv

\* A participant row exists only for a buyer whose payment went all the way,
\* whatever is interleaved, fails or dies in join_order.
THEOREM SeatsArePaidFor == Spec => []SeatIsPaidFor
<1>1. SeatInv => SeatIsPaidFor
  BY DEF SeatInv, JoinInv
<1> QED
  BY <1>1, SeatInvInit, SeatInvStep, PTL DEF Spec

\* Nothing is posted that gives money away before the posting that takes it out
\* of the escrow, in quit_order, refund_order, join_order and auto_disband_task.
THEOREM EscrowGoesFirst == Spec => []EscrowLeavesFirst
<1>1. SeatInv => EscrowLeavesFirst
  BY DEF SeatInv, JoinInv, LeavingInv, EntryFacts, ExitFacts, EscrowLeavesFirst, Posted
<1> QED
  BY <1>1, SeatInvInit, SeatInvStep, PTL DEF Spec

\* RedisLock keeps requests of one kind apart through every step of theirs.
THEOREM LocksKeepApart == Spec => []LocksHeld
<1>1. SeatInv => LocksHeld
  BY DEF SeatInv
<1> QED
  BY <1>1, SeatInvInit, SeatInvStep, PTL DEF Spec

\* No step of any request, task, fault or crash takes back a posting to
\* t_payment_logs or makes a participant row disappear.
THEOREM NothingIsUndone == Spec => [][NothingUndone]_vars
<1>1. SeatInv /\ [Next]_vars => [NothingUndone]_vars
  BY NothingUndoneStep DEF SeatInv
<1> QED
  BY <1>1, SeatInvInit, SeatInvStep, PTL DEF Spec

-----------------------------------------------------------------------------
(* OrderEscrow implements SeatPromise as long as nobody disbands or deletes  *)
(* the order by hand: the refund loop of those two operations marks rows     *)
(* "refunded" whose escrow it has not released.                              *)

\* No session runs that loop.
NoClosing == \A r \in Requests : req[r].op # "close"

LEMMA NoClosingStep ==
  ASSUME "disband" \notin Ops, "delete" \notin Ops
  PROVE  TypeOK /\ NoClosing /\ [Next]_vars => NoClosing'
<1> SUFFICES ASSUME TypeOK, NoClosing, [Next]_vars PROVE NoClosing'
  OBVIOUS
<1> USE DEF NoClosing
<1>0. /\ "disband" \notin Ops /\ "delete" \notin Ops
      /\ Requests \subseteq Sessions /\ Idle.op = "idle"
  BY IdleType DEF Sessions
<1>1. CASE UNCHANGED vars
  BY <1>1 DEF vars
<1>2. CASE DeadlinePasses
  BY <1>0, <1>2, StartEffect, FinishEffect, GotoEffect, GotoExpiredEffect
     DEF DeadlinePasses, At
<1>3. ASSUME NEW b \in Buyers, Withdraw(b) PROVE NoClosing'
  BY <1>0, <1>3, StartEffect, FinishEffect, GotoEffect, GotoExpiredEffect
     DEF Withdraw, At
<1>4. ASSUME NEW r \in Requests, NEW b \in Buyers, BeginJoin(r, b) PROVE NoClosing'
  BY <1>0, <1>4, StartEffect, FinishEffect, GotoEffect, GotoExpiredEffect
     DEF BeginJoin, At
<1>5. ASSUME NEW r \in Requests, NEW b \in Buyers, BeginQuit(r, b) PROVE NoClosing'
  BY <1>0, <1>5, StartEffect, FinishEffect, GotoEffect, GotoExpiredEffect
     DEF BeginQuit, At
<1>6. ASSUME NEW r \in Requests, NEW b \in Buyers, BeginRefund(r, b) PROVE NoClosing'
  BY <1>0, <1>6, StartEffect, FinishEffect, GotoEffect, GotoExpiredEffect
     DEF BeginRefund, At
<1>7. ASSUME NEW r \in Requests, BeginSettle(r) PROVE NoClosing'
  BY <1>0, <1>7, StartEffect, FinishEffect, GotoEffect, GotoExpiredEffect
     DEF BeginSettle, At
<1>8. ASSUME NEW r \in Requests, MarkDisbanded(r) PROVE NoClosing'
  BY <1>0, <1>8 DEF MarkDisbanded
<1>9. ASSUME NEW r \in Requests, MarkDeleted(r) PROVE NoClosing'
  BY <1>0, <1>9 DEF MarkDeleted
<1>10. ASSUME NEW r \in Requests, JoinDebit(r) PROVE NoClosing'
  BY <1>0, <1>10, StartEffect, FinishEffect, GotoEffect, GotoExpiredEffect
     DEF JoinDebit, At
<1>11. ASSUME NEW r \in Requests, JoinFreeze(r) PROVE NoClosing'
  BY <1>0, <1>11, StartEffect, FinishEffect, GotoEffect, GotoExpiredEffect
     DEF JoinFreeze, At
<1>12. ASSUME NEW r \in Requests, JoinCompensate(r) PROVE NoClosing'
  BY <1>0, <1>12, StartEffect, FinishEffect, GotoEffect, GotoExpiredEffect
     DEF JoinCompensate, At
<1>13. ASSUME NEW r \in Requests, JoinEnrol(r) PROVE NoClosing'
  BY <1>0, <1>13, StartEffect, FinishEffect, GotoEffect, GotoExpiredEffect
     DEF JoinEnrol, At
<1>14. ASSUME NEW r \in Requests, JoinPurchase(r) PROVE NoClosing'
  BY <1>0, <1>14, StartEffect, FinishEffect, GotoEffect, GotoExpiredEffect
     DEF JoinPurchase, At
<1>15. ASSUME NEW r \in Requests, Unfreeze(r) PROVE NoClosing'
  BY <1>0, <1>15, StartEffect, FinishEffect, GotoEffect, GotoExpiredEffect
     DEF Unfreeze, At
<1>16. ASSUME NEW r \in Requests, CreditBuyer(r) PROVE NoClosing'
  BY <1>0, <1>16, StartEffect, FinishEffect, GotoEffect, GotoExpiredEffect
     DEF CreditBuyer, At
<1>17. ASSUME NEW r \in Requests, Restore(r) PROVE NoClosing'
  BY <1>0, <1>17, StartEffect, FinishEffect, GotoEffect, GotoExpiredEffect
     DEF Restore, At
<1>18. ASSUME NEW r \in Requests, PayPenalty(r) PROVE NoClosing'
  BY <1>0, <1>18, StartEffect, FinishEffect, GotoEffect, GotoExpiredEffect
     DEF PayPenalty, At
<1>19. ASSUME NEW r \in Requests, Leave(r) PROVE NoClosing'
  BY <1>0, <1>19, StartEffect, FinishEffect, GotoEffect, GotoExpiredEffect
     DEF Leave, At
<1>20. ASSUME NEW r \in Requests, SettlePay(r) PROVE NoClosing'
  BY <1>0, <1>20, StartEffect, FinishEffect, GotoEffect, GotoExpiredEffect
     DEF SettlePay, At
<1>21. ASSUME NEW r \in Requests, SettleFinish(r) PROVE NoClosing'
  BY <1>0, <1>21, StartEffect, FinishEffect, GotoEffect, GotoExpiredEffect
     DEF SettleFinish, At
<1>22. ASSUME NEW r \in Requests, CloseRead(r) PROVE NoClosing'
  BY <1>0, <1>22 DEF CloseRead, At
<1>23. ASSUME NEW r \in Requests, CloseWrite(r) PROVE NoClosing'
  BY <1>0, <1>23 DEF CloseWrite, At
<1>24. CASE MarkPurchased
  BY <1>0, <1>24, StartEffect, FinishEffect, GotoEffect, GotoExpiredEffect
     DEF MarkPurchased, At
<1>25. CASE SoftDelete
  BY <1>0, <1>25, StartEffect, FinishEffect, GotoEffect, GotoExpiredEffect
     DEF SoftDelete, At
<1>26. CASE AutoBegin
  BY <1>0, <1>26, TaskEffect DEF AutoBegin
<1>27. CASE ExpiryBegin
  BY <1>0, <1>27, TaskEffect DEF ExpiryBegin
<1>28. ASSUME NEW b \in Buyers, AutoUnfreeze(b) PROVE NoClosing'
  BY <1>0, <1>28, TaskEffect DEF AutoUnfreeze
<1>29. CASE AutoCredit
  BY <1>0, <1>29, TaskEffect DEF AutoCredit
<1>30. CASE AutoFinish
  BY <1>0, <1>30, TaskEffect DEF AutoFinish
<1>31. CASE ExpiryWrite
  BY <1>0, <1>31, TaskEffect DEF ExpiryWrite
<1>32. ASSUME NEW r \in Sessions, Crash(r) PROVE NoClosing'
  BY <1>0, <1>32, StartEffect, FinishEffect, GotoEffect, GotoExpiredEffect
     DEF Crash, At
<1> QED
  BY <1>1, <1>2, <1>3, <1>4, <1>5, <1>6, <1>7, <1>8, <1>9, <1>10, <1>11,
     <1>12, <1>13, <1>14, <1>15, <1>16, <1>17, <1>18, <1>19, <1>20, <1>21,
     <1>22, <1>23, <1>24, <1>25, <1>26, <1>27, <1>28, <1>29, <1>30, <1>31,
     <1>32
     DEF Next, Begin, Continue, ContinueTask

-----------------------------------------------------------------------------
(* The phases of the buyers *)

\* The postings that a buyer's phase is read off.
PromiseKeys ==
  {<<"join", "wallet">>, <<"join", "freeze">>, <<"join", "compensate">>,
   <<"quit", "freeze_decr">>, <<"refund", "freeze_decr">>, <<"disband", "freeze_decr">>}

Same(c) == seat'[c] = seat[c] /\ \A k \in PromiseKeys : paylog'[c][k] = paylog[c][k]

\* One buyer at most changes, and by a move of the promise.
Moved ==
  \/ \A c \in Buyers : Same(c)
  \/ \E b \in Buyers :
       /\ \A c \in Buyers \ {b} : Same(c)
       /\ Phase(b)' = Phase(b) \/ <<Phase(b), Phase(b)'>> \in Promise!Moves

LEMMA SamePhase ==
  ASSUME NEW c \in Buyers, Same(c)
  PROVE  Phase(c)' = Phase(c)
BY DEF Same, PromiseKeys, Phase, Posted

LEMMA MovedStep == SeatInv /\ NoClosing /\ [Next]_vars => Moved
<1> SUFFICES ASSUME SeatInv, NoClosing, [Next]_vars PROVE Moved
  OBVIOUS
<1>0. /\ TypeOK /\ LeavingInv /\ JoinInv /\ NoClosing
      /\ PromiseKeys \subseteq Keys
      /\ seat \in [Buyers -> {"none", "paid", "refunded"}]
      /\ Requests \subseteq Sessions /\ Scheduler \in Sessions
      /\ \A r \in Requests : req[r].op \in {"join", "quit", "refund"} => req[r].user \in Buyers
      /\ At(Scheduler, "auto", "credit") => req[Scheduler].user \in Buyers
      /\ \A b \in req[Scheduler].paid : b \in Buyers
      /\ \A op \in {"quit", "refund"} : /\ <<op, "freeze_decr">> \in Keys
                                       /\ <<op, "wallet">> \in Keys
                                       /\ <<op, "compensate">> \in Keys
      /\ \A k \in {"wallet", "freeze", "compensate"} : <<"join", k>> \in Keys
      /\ <<"disband", "freeze_decr">> \in Keys
      /\ <<"withdraw", "wallet">> \in Keys \ PromiseKeys
      /\ <<"refund", "penalty">> \in Keys \ PromiseKeys
      /\ <<"disband", "wallet">> \in Keys \ PromiseKeys
  BY DEF SeatInv, TypeOK, Sessions, SessionState, PromiseKeys, Keys
<1> USE DEF Moved, Same
<1>1. CASE UNCHANGED vars
  BY <1>1 DEF vars
<1>2. CASE DeadlinePasses
  BY <1>0, <1>2 DEF DeadlinePasses, rows, money
<1>3. ASSUME NEW b \in Buyers, Withdraw(b) PROVE Moved
  <2>1. \A c \in Buyers, k \in PromiseKeys : paylog'[c][k] = paylog[c][k]
    BY <1>0, <1>3, PostEffect, PricePositive DEF Withdraw
  <2> QED
    BY <1>3, <2>1 DEF Withdraw, rows
<1>4. ASSUME NEW r \in Requests, NEW b \in Buyers, BeginJoin(r, b) PROVE Moved
  BY <1>0, <1>4 DEF BeginJoin, rows, money
<1>5. ASSUME NEW r \in Requests, NEW b \in Buyers, BeginQuit(r, b) PROVE Moved
  BY <1>0, <1>5 DEF BeginQuit, rows, money
<1>6. ASSUME NEW r \in Requests, NEW b \in Buyers, BeginRefund(r, b) PROVE Moved
  BY <1>0, <1>6 DEF BeginRefund, rows, money
<1>7. ASSUME NEW r \in Requests, BeginSettle(r) PROVE Moved
  BY <1>0, <1>7 DEF BeginSettle, rows, money
<1>8. ASSUME NEW r \in Requests, MarkDisbanded(r) PROVE Moved
  BY <1>0, <1>8 DEF MarkDisbanded, rows, money
<1>9. ASSUME NEW r \in Requests, MarkDeleted(r) PROVE Moved
  BY <1>0, <1>9 DEF MarkDeleted, rows, money
<1>10. ASSUME NEW r \in Requests, JoinDebit(r) PROVE Moved
  <2> PICK b \in Buyers : b = req[r].user
    BY <1>0, <1>10 DEF JoinDebit, At
  <2>1. CASE ~Posted(b, <<"join", "wallet">>)
             /\ Post(b, <<"join", "wallet">>, -Price)
    <3>1. /\ seat' = seat /\ seat[b] = "none"
          /\ paylog[b][<<"join", "wallet">>] = 0 /\ paylog[b][<<"join", "freeze">>] = 0
          /\ paylog[b][<<"join", "compensate">>] = 0
      BY <1>0, <1>10, <2>1 DEF JoinDebit, At, JoinInv, JoinFacts, EntryFacts, rows, Posted
    <3>2. \A c \in Buyers, k \in PromiseKeys :
            c # b \/ k # <<"join", "wallet">> => paylog'[c][k] = paylog[c][k]
      BY <1>0, <2>1, <3>1, PostEffect, PricePositive
    <3>3. paylog'[b][<<"join", "wallet">>] # 0
      BY <1>0, <2>1, <3>1, PostEffect, PricePositive
    <3>4. Phase(b) = "out" /\ Phase(b)' = "charged"
      BY <3>1, <3>2, <3>3 DEF Phase, Posted, PromiseKeys
    <3> QED
      BY <3>1, <3>2, <3>4 DEF Promise!Moves
  <2>2. CASE paylog' = paylog
    BY <1>0, <1>10, <2>2 DEF JoinDebit, rows
  <2> QED
    BY <1>10, <2>1, <2>2 DEF JoinDebit
<1>11. ASSUME NEW r \in Requests, JoinFreeze(r) PROVE Moved
  <2> PICK b \in Buyers : b = req[r].user
    BY <1>0, <1>11 DEF JoinFreeze, At
  <2>1. CASE ~Posted(b, <<"join", "freeze">>)
             /\ Post(b, <<"join", "freeze">>, Price)
    <3>1. /\ seat' = seat /\ seat[b] = "none"
          /\ paylog[b][<<"join", "wallet">>] # 0 /\ paylog[b][<<"join", "freeze">>] = 0
          /\ paylog[b][<<"join", "compensate">>] = 0
      BY <1>0, <1>11, <2>1 DEF JoinFreeze, At, JoinInv, JoinFacts, EntryFacts, rows, Posted
    <3>2. \A c \in Buyers, k \in PromiseKeys :
            c # b \/ k # <<"join", "freeze">> => paylog'[c][k] = paylog[c][k]
      BY <1>0, <2>1, <3>1, PostEffect, PricePositive
    <3>3. paylog'[b][<<"join", "freeze">>] # 0
      BY <1>0, <2>1, <3>1, PostEffect, PricePositive
    <3>4. Phase(b) = "charged" /\ Phase(b)' = "held"
      BY <3>1, <3>2, <3>3 DEF Phase, Posted, PromiseKeys
    <3> QED
      BY <3>1, <3>2, <3>4 DEF Promise!Moves
  <2>2. CASE paylog' = paylog
    BY <1>0, <1>11, <2>2 DEF JoinFreeze, rows
  <2> QED
    BY <1>11, <2>1, <2>2 DEF JoinFreeze
<1>12. ASSUME NEW r \in Requests, JoinCompensate(r) PROVE Moved
  <2> PICK b \in Buyers : b = req[r].user
    BY <1>0, <1>12 DEF JoinCompensate, At
  <2>1. CASE ~Posted(b, <<"join", "compensate">>)
             /\ Post(b, <<"join", "compensate">>, Price)
    <3>1. /\ seat' = seat /\ seat[b] = "none"
          /\ paylog[b][<<"join", "wallet">>] # 0 /\ paylog[b][<<"join", "compensate">>] = 0
      BY <1>0, <1>12, <2>1 DEF JoinCompensate, At, JoinInv, JoinFacts, EntryFacts, rows, Posted
    <3>2. \A c \in Buyers, k \in PromiseKeys :
            c # b \/ k # <<"join", "compensate">> => paylog'[c][k] = paylog[c][k]
      BY <1>0, <2>1, <3>1, PostEffect, PricePositive
    <3>3. paylog'[b][<<"join", "compensate">>] # 0
      BY <1>0, <2>1, <3>1, PostEffect, PricePositive
    <3>4. Phase(b) \in {"charged", "held"} /\ Phase(b)' = "returned"
      BY <3>1, <3>2, <3>3 DEF Phase, Posted, PromiseKeys
    <3> QED
      BY <3>1, <3>2, <3>4 DEF Promise!Moves
  <2>2. CASE paylog' = paylog
    BY <1>0, <1>12, <2>2 DEF JoinCompensate, rows
  <2> QED
    BY <1>12, <2>1, <2>2 DEF JoinCompensate
<1>13. ASSUME NEW r \in Requests, JoinEnrol(r) PROVE Moved
  <2> PICK b \in Buyers : b = req[r].user
    BY <1>0, <1>13 DEF JoinEnrol, At
  <2>1. /\ paylog' = paylog /\ seat[b] = "none"
        /\ seat' = [seat EXCEPT ![b] = "paid"]
        /\ paylog[b][<<"join", "freeze">>] # 0
        /\ paylog[b][<<"join", "compensate">>] = 0
    BY <1>0, <1>13 DEF JoinEnrol, At, JoinInv, JoinFacts, money
  <2>2. \A op \in {"quit", "refund", "disband"} :
          ~Posted(b, <<op, "freeze_decr">>)
    BY <1>0, <2>1 DEF LeavingInv, ExitFacts, Posted
  <2>3. /\ seat'[b] = "paid"
        /\ \A c \in Buyers \ {b} : seat'[c] = seat[c]
    BY <1>0, <2>1
  <2>4. Phase(b) = "held" /\ Phase(b)' = "seated"
    BY <2>1, <2>2, <2>3 DEF Phase, Posted
  <2> QED
    BY <2>1, <2>3, <2>4 DEF Promise!Moves
<1>14. ASSUME NEW r \in Requests, JoinPurchase(r) PROVE Moved
  BY <1>0, <1>14 DEF JoinPurchase, rows, money
<1>15. ASSUME NEW r \in Requests, Unfreeze(r) PROVE Moved
  <2> PICK b \in Buyers : b = req[r].user
    BY <1>0, <1>15 DEF Unfreeze, At
  <2>1. CASE Post(b, <<req[r].op, "freeze_decr">>, -Price)
    <3>1. /\ seat' = seat /\ seat[b] # "none"
          /\ seat[b] \in {"none", "paid", "refunded"}
          /\ <<req[r].op, "freeze_decr">> \in Keys
          /\ req[r].op \in {"quit", "refund", "disband"}
      BY <1>0, <1>15, <2>1 DEF Unfreeze, At, LeavingInv, LeaveFacts, ReadFacts, rows
    <3>2. \A c \in Buyers, k \in PromiseKeys :
            c # b \/ k # <<req[r].op, "freeze_decr">> => paylog'[c][k] = paylog[c][k]
      BY <1>0, <2>1, <3>1, PostEffect, PricePositive
    <3>3. paylog'[b][<<req[r].op, "freeze_decr">>] # 0
      BY <1>0, <2>1, <3>1, PostEffect, PricePositive
    <3>4. CASE seat[b] = "refunded"
      <4>1. Phase(b) = "gone" /\ Phase(b)' = "gone"
        BY <3>1, <3>4 DEF Phase
      <4> QED
        BY <3>1, <3>2, <4>1
    <3>5. CASE seat[b] = "paid"
      <4>1. Phase(b) \in {"seated", "leaving"} /\ Phase(b)' = "leaving"
        BY <3>1, <3>3, <3>5 DEF Phase, Posted
      <4> QED
        BY <3>1, <3>2, <4>1 DEF Promise!Moves
    <3> QED
      BY <3>1, <3>4, <3>5
  <2>2. CASE paylog' = paylog
    BY <1>0, <1>15, <2>2 DEF Unfreeze, rows
  <2> QED
    BY <1>15, <2>1, <2>2 DEF Unfreeze
<1>16. ASSUME NEW r \in Requests, CreditBuyer(r) PROVE Moved
  <2>1. req[r].user \in Buyers /\ <<req[r].op, "wallet">> \in Keys
        /\ <<req[r].op, "wallet">> \notin PromiseKeys
    BY <1>0, <1>16 DEF CreditBuyer, PromiseKeys
  <2> QED
    BY <1>0, <1>16, <2>1, PostEffect, RefundType, PricePositive DEF CreditBuyer, rows
<1>17. ASSUME NEW r \in Requests, Restore(r) PROVE Moved
  <2>1. req[r].user \in Buyers /\ <<req[r].op, "compensate">> \in Keys
        /\ <<req[r].op, "compensate">> \notin PromiseKeys
    BY <1>0, <1>17 DEF Restore, PromiseKeys
  <2> QED
    BY <1>0, <1>17, <2>1, PostEffect, RefundType, PricePositive DEF Restore, rows
<1>18. ASSUME NEW r \in Requests, PayPenalty(r) PROVE Moved
  BY <1>0, <1>18, PostEffect, RefundType, PricePositive DEF PayPenalty, At, rows
<1>19. ASSUME NEW r \in Requests, Leave(r) PROVE Moved
  <2> PICK b \in Buyers : b = req[r].user
    BY <1>0, <1>19 DEF Leave, At
  <2>1. /\ paylog' = paylog /\ req[r].op \in {"quit", "refund"}
        /\ seat' = [seat EXCEPT ![b] = "refunded"]
        /\ seat[b] \in {"paid", "refunded"}
        /\ paylog[b][<<req[r].op, "freeze_decr">>] # 0
    BY <1>0, <1>19 DEF Leave, LeavingInv, LeaveFacts, money
  <2>2. /\ seat'[b] = "refunded"
        /\ \A c \in Buyers \ {b} : seat'[c] = seat[c]
    BY <1>0, <2>1
  <2>3. Phase(b) \in {"leaving", "gone"} /\ Phase(b)' = "gone"
    BY <2>1, <2>2 DEF Phase, Posted
  <2> QED
    BY <2>1, <2>2, <2>3 DEF Promise!Moves
<1>20. ASSUME NEW r \in Requests, SettlePay(r) PROVE Moved
  BY <1>0, <1>20 DEF SettlePay, rows, money
<1>21. ASSUME NEW r \in Requests, SettleFinish(r) PROVE Moved
  BY <1>0, <1>21 DEF SettleFinish, rows, money
<1>22. ASSUME NEW r \in Requests, CloseRead(r) PROVE Moved
  BY <1>0, <1>22 DEF CloseRead, rows, money
<1>23. ASSUME NEW r \in Requests, CloseWrite(r) PROVE Moved
  BY <1>0, <1>23 DEF CloseWrite, At, NoClosing
<1>24. CASE MarkPurchased
  BY <1>0, <1>24 DEF MarkPurchased, rows, money
<1>25. CASE SoftDelete
  BY <1>0, <1>25 DEF SoftDelete, rows, money
<1>26. CASE AutoBegin
  BY <1>0, <1>26 DEF AutoBegin, rows, money
<1>27. CASE ExpiryBegin
  BY <1>0, <1>27 DEF ExpiryBegin, rows, money
<1>28. ASSUME NEW b \in Buyers, AutoUnfreeze(b) PROVE Moved
  <2>1. CASE Post(b, <<"disband", "freeze_decr">>, -Price)
    <3>1. /\ seat' = seat /\ seat[b] # "none"
          /\ seat[b] \in {"none", "paid", "refunded"}
          /\ <<"disband", "freeze_decr">> \in Keys
      BY <1>0, <1>28, <2>1 DEF AutoUnfreeze, LeavingInv, ReadFacts, rows
    <3>2. \A c \in Buyers, k \in PromiseKeys :
            c # b \/ k # <<"disband", "freeze_decr">> => paylog'[c][k] = paylog[c][k]
      BY <1>0, <2>1, <3>1, PostEffect, PricePositive
    <3>3. paylog'[b][<<"disband", "freeze_decr">>] # 0
      BY <1>0, <2>1, <3>1, PostEffect, PricePositive
    <3>4. CASE seat[b] = "refunded"
      <4>1. Phase(b) = "gone" /\ Phase(b)' = "gone"
        BY <3>1, <3>4 DEF Phase
      <4> QED
        BY <3>1, <3>2, <4>1
    <3>5. CASE seat[b] = "paid"
      <4>1. Phase(b) \in {"seated", "leaving"} /\ Phase(b)' = "leaving"
        BY <3>1, <3>3, <3>5 DEF Phase, Posted
      <4> QED
        BY <3>1, <3>2, <4>1 DEF Promise!Moves
    <3> QED
      BY <3>1, <3>4, <3>5
  <2>2. CASE paylog' = paylog
    BY <1>0, <1>28, <2>2 DEF AutoUnfreeze, rows
  <2> QED
    BY <1>28, <2>1, <2>2 DEF AutoUnfreeze
<1>29. CASE AutoCredit
  BY <1>0, <1>29, PostEffect, RefundType, PricePositive DEF AutoCredit, At, rows
<1>30. CASE AutoFinish
  BY <1>0, <1>30 DEF AutoFinish, rows, money
<1>31. CASE ExpiryWrite
  BY <1>0, <1>31 DEF ExpiryWrite, rows, money
<1>32. ASSUME NEW r \in Sessions, Crash(r) PROVE Moved
  BY <1>0, <1>32 DEF Crash, rows, money
<1> QED
  BY <1>1, <1>2, <1>3, <1>4, <1>5, <1>6, <1>7, <1>8, <1>9, <1>10, <1>11,
     <1>12, <1>13, <1>14, <1>15, <1>16, <1>17, <1>18, <1>19, <1>20, <1>21,
     <1>22, <1>23, <1>24, <1>25, <1>26, <1>27, <1>28, <1>29, <1>30, <1>31,
     <1>32
     DEF Next, Begin, Continue, ContinueTask

-----------------------------------------------------------------------------
(* The refinement *)

\* As long as the order is not disbanded or deleted by hand, every step of every
\* request, task, fault and crash is a move of SeatPromise or changes no phase.
THEOREM PromiseIsKept ==
  ASSUME "disband" \notin Ops, "delete" \notin Ops
  PROVE  Spec => PromiseKept
<1> DEFINE phase == [b \in Buyers |-> Phase(b)]
<1>1. Init => Promise!Init
  <2> SUFFICES ASSUME Init PROVE Promise!Init
    OBVIOUS
  <2>1. \A b \in Buyers : seat[b] = "none" /\ \A k \in Keys : paylog[b][k] = 0
    BY DEF Init
  <2>2. \A b \in Buyers : Phase(b) = "out"
    BY <2>1, KeysOf DEF Phase, Posted
  <2> QED
    BY <2>2 DEF Promise!Init
<1>2. Moved => [Promise!Next]_phase
  <2> SUFFICES ASSUME Moved PROVE Promise!Next \/ phase' = phase
    OBVIOUS
  <2>1. CASE \A c \in Buyers : Phase(c)' = Phase(c)
    BY <2>1
  <2>2. ASSUME NEW b \in Buyers,
               \A c \in Buyers \ {b} : Phase(c)' = Phase(c),
               <<Phase(b), Phase(b)'>> \in Promise!Moves
        PROVE  Promise!Next
    <3>1. Phase(b)' \in Promise!Phases
      BY <2>2 DEF Promise!Moves, Promise!Phases
    <3>2. phase' = [phase EXCEPT ![b] = Phase(b)']
      BY <2>2
    <3>3. <<phase[b], Phase(b)'>> \in Promise!Moves
      BY <2>2
    <3> QED
      BY <3>1, <3>2, <3>3 DEF Promise!Next, Promise!Move
  <2> QED
    BY <2>1, <2>2, SamePhase DEF Moved
<1>3. Init => NoClosing
  BY IdleType DEF Init, NoClosing, Sessions
<1>4. SeatInv /\ NoClosing /\ [Next]_vars => NoClosing'
  BY NoClosingStep DEF SeatInv
<1>5. SeatInv /\ NoClosing /\ [Next]_vars => [Promise!Next]_phase
  BY <1>2, MovedStep
<1> QED
  BY <1>1, <1>3, <1>4, <1>5, SeatInvInit, SeatInvStep, PTL DEF Spec, PromiseKept, Promise!Spec

-----------------------------------------------------------------------------
(* The verification code *)

\* A settlement that is about to pay has an unused code in front of it, one that
\* is about to finish the order has used it up.
SettleFacts(r) ==
  req[r].op = "settle" =>
    /\ req[r].at = "pay" => code = "unused"
    /\ req[r].at = "finish" => code = "used"

CodeInv == (\A r \in Requests : SettleFacts(r)) /\ CodePaysOnce

\* The steps that change what CodeInv is about.
SettleStep(r) == BeginSettle(r) \/ SettlePay(r) \/ SettleFinish(r)

CodeFrame ==
  /\ code' = code /\ settled' = settled /\ Total' = Total
  /\ order'.status = "FINISHED" => order.status = "FINISHED"
  /\ \A r \in Requests : req'[r].op = "settle" =>
       req[r].op = "settle" /\ req'[r].at = req[r].at

LEMMA TotalStep ==
  ASSUME order \in [kind : {"normal", "spot"}, status : Statuses, people : Nat \ {0},
                    deleted : BOOLEAN, expired : BOOLEAN],
         order'.kind = order.kind
  PROVE  Total' = Total
BY DEF Total

LEMMA OtherThanSettling ==
  TypeOK /\ [Next]_vars => \/ CodeFrame
                           \/ MarkPurchased
                           \/ \E r \in Requests : SettleStep(r)
<1> SUFFICES ASSUME TypeOK, [Next]_vars, ~MarkPurchased, \A r \in Requests : ~SettleStep(r)
             PROVE  CodeFrame
  OBVIOUS
<1> DEFINE Frame ==
      /\ code' = code /\ settled' = settled /\ order'.kind = order.kind
      /\ order'.status = "FINISHED" => order.status = "FINISHED"
      /\ \A r \in Requests : req'[r].op = "settle" =>
           req[r].op = "settle" /\ req'[r].at = req[r].at
<1> SUFFICES Frame
  BY TotalStep DEF TypeOK, CodeFrame
<1>0. /\ Requests \subseteq Sessions /\ Scheduler \notin Requests
      /\ order \in [kind : {"normal", "spot"}, status : Statuses, people : Nat \ {0},
                    deleted : BOOLEAN, expired : BOOLEAN]
      /\ Idle.op = "idle"
  BY EscrowAssumption, IdleType DEF Sessions, TypeOK
<1>1. CASE UNCHANGED vars
  BY <1>1 DEF vars
<1>2. CASE DeadlinePasses
  BY <1>0, <1>2, StartEffect, FinishEffect, GotoEffect, GotoExpiredEffect DEF DeadlinePasses, At, rows, money
<1>3. ASSUME NEW b \in Buyers, Withdraw(b) PROVE Frame
  BY <1>0, <1>3, StartEffect, FinishEffect, GotoEffect, GotoExpiredEffect DEF Withdraw, At, rows, money
<1>4. ASSUME NEW r \in Requests, NEW b \in Buyers, BeginJoin(r, b) PROVE Frame
  BY <1>0, <1>4, StartEffect, FinishEffect, GotoEffect, GotoExpiredEffect DEF BeginJoin, At, rows, money
<1>5. ASSUME NEW r \in Requests, NEW b \in Buyers, BeginQuit(r, b) PROVE Frame
  BY <1>0, <1>5, StartEffect, FinishEffect, GotoEffect, GotoExpiredEffect DEF BeginQuit, At, rows, money
<1>6. ASSUME NEW r \in Requests, NEW b \in Buyers, BeginRefund(r, b) PROVE Frame
  BY <1>0, <1>6, StartEffect, FinishEffect, GotoEffect, GotoExpiredEffect DEF BeginRefund, At, rows, money
<1>7. ASSUME NEW r \in Requests, MarkDisbanded(r) PROVE Frame
  BY <1>0, <1>7, StartEffect, FinishEffect, GotoEffect, GotoExpiredEffect DEF MarkDisbanded, At, rows, money
<1>8. ASSUME NEW r \in Requests, MarkDeleted(r) PROVE Frame
  BY <1>0, <1>8, StartEffect, FinishEffect, GotoEffect, GotoExpiredEffect DEF MarkDeleted, At, rows, money
<1>9. ASSUME NEW r \in Requests, JoinDebit(r) PROVE Frame
  BY <1>0, <1>9, StartEffect, FinishEffect, GotoEffect, GotoExpiredEffect DEF JoinDebit, At, rows, money
<1>10. ASSUME NEW r \in Requests, JoinFreeze(r) PROVE Frame
  BY <1>0, <1>10, StartEffect, FinishEffect, GotoEffect, GotoExpiredEffect DEF JoinFreeze, At, rows, money
<1>11. ASSUME NEW r \in Requests, JoinCompensate(r) PROVE Frame
  BY <1>0, <1>11, StartEffect, FinishEffect, GotoEffect, GotoExpiredEffect DEF JoinCompensate, At, rows, money
<1>12. ASSUME NEW r \in Requests, JoinEnrol(r) PROVE Frame
  BY <1>0, <1>12, StartEffect, FinishEffect, GotoEffect, GotoExpiredEffect DEF JoinEnrol, At, rows, money
<1>13. ASSUME NEW r \in Requests, JoinPurchase(r) PROVE Frame
  BY <1>0, <1>13, StartEffect, FinishEffect, GotoEffect, GotoExpiredEffect DEF JoinPurchase, At, rows, money
<1>14. ASSUME NEW r \in Requests, Unfreeze(r) PROVE Frame
  BY <1>0, <1>14, StartEffect, FinishEffect, GotoEffect, GotoExpiredEffect DEF Unfreeze, At, rows, money
<1>15. ASSUME NEW r \in Requests, CreditBuyer(r) PROVE Frame
  BY <1>0, <1>15, StartEffect, FinishEffect, GotoEffect, GotoExpiredEffect DEF CreditBuyer, At, rows, money
<1>16. ASSUME NEW r \in Requests, Restore(r) PROVE Frame
  BY <1>0, <1>16, StartEffect, FinishEffect, GotoEffect, GotoExpiredEffect DEF Restore, At, rows, money
<1>17. ASSUME NEW r \in Requests, PayPenalty(r) PROVE Frame
  BY <1>0, <1>17, StartEffect, FinishEffect, GotoEffect, GotoExpiredEffect DEF PayPenalty, At, rows, money
<1>18. ASSUME NEW r \in Requests, Leave(r) PROVE Frame
  BY <1>0, <1>18, StartEffect, FinishEffect, GotoEffect, GotoExpiredEffect DEF Leave, At, rows, money
<1>19. ASSUME NEW r \in Requests, CloseRead(r) PROVE Frame
  <2>1. UNCHANGED <<order, code, settled>>
    BY <1>19 DEF CloseRead, rows, money
  <2> QED
    BY <1>0, <1>19, <2>1, CloseReadStep
<1>20. ASSUME NEW r \in Requests, CloseWrite(r) PROVE Frame
  BY <1>0, <1>20, StartEffect, FinishEffect, GotoEffect, GotoExpiredEffect DEF CloseWrite, At, rows, money
<1>21. CASE SoftDelete
  BY <1>0, <1>21, StartEffect, FinishEffect, GotoEffect, GotoExpiredEffect DEF SoftDelete, At, rows, money
<1>22. CASE AutoBegin
  BY <1>0, <1>22, TaskEffect DEF AutoBegin, rows, money
<1>23. CASE ExpiryBegin
  BY <1>0, <1>23, TaskEffect DEF ExpiryBegin, rows, money
<1>24. ASSUME NEW b \in Buyers, AutoUnfreeze(b) PROVE Frame
  BY <1>0, <1>24, TaskEffect DEF AutoUnfreeze, rows, money
<1>25. CASE AutoCredit
  BY <1>0, <1>25, TaskEffect DEF AutoCredit, rows, money
<1>26. CASE AutoFinish
  BY <1>0, <1>26, TaskEffect DEF AutoFinish, rows, money
<1>27. CASE ExpiryWrite
  BY <1>0, <1>27, TaskEffect DEF ExpiryWrite, rows, money
<1>28. ASSUME NEW r \in Sessions, Crash(r) PROVE Frame
  BY <1>0, <1>28, StartEffect, FinishEffect, GotoEffect, GotoExpiredEffect DEF Crash, At, rows, money
<1> QED
  BY <1>1, <1>2, <1>3, <1>4, <1>5, <1>6, <1>7, <1>8, <1>9, <1>10, <1>11, <1>12,
     <1>13, <1>14, <1>15, <1>16, <1>17, <1>18, <1>19, <1>20, <1>21, <1>22,
     <1>23, <1>24, <1>25, <1>26, <1>27, <1>28
     DEF Next, Begin, Continue, ContinueTask, SettleStep

LEMMA CodeInvStep == TypeOK /\ LocksHeld /\ CodeInv /\ [Next]_vars => CodeInv'
<1> SUFFICES ASSUME TypeOK, LocksHeld, CodeInv, [Next]_vars PROVE CodeInv'
  OBVIOUS
<1>0. /\ Requests \subseteq Sessions /\ Idle.op = "idle"
      /\ \A r \in Requests : SettleFacts(r)
      /\ CodePaysOnce
  BY IdleType DEF Sessions, CodeInv
<1>a. \A r, s \in Requests : req[r].op = "settle" /\ req[s].op = "settle" => r = s
  BY DEF LocksHeld
<1> USE DEF SettleFacts
<1>1. CASE CodeFrame
  <2>1. ASSUME NEW q \in Requests PROVE SettleFacts(q)'
    BY <1>0, <1>1, <2>1 DEF CodeFrame
  <2>2. CodePaysOnce'
    BY <1>0, <1>1 DEF CodeFrame, CodePaysOnce, Income, Fee
  <2> QED
    BY <2>1, <2>2 DEF CodeInv
<1>2. CASE MarkPurchased
  <2>1. /\ req' = req /\ settled' = settled
        /\ code' = IF code = "absent" THEN "unused" ELSE code
    BY <1>2 DEF MarkPurchased, money
  <2>2. Total' = Total /\ order'.status = "DELIVERING"
    BY <1>2, TotalStep DEF MarkPurchased, TypeOK
  <2>3. ASSUME NEW q \in Requests PROVE SettleFacts(q)'
    BY <1>0, <2>1
  <2>4. CodePaysOnce'
    BY <1>0, <2>1, <2>2 DEF CodePaysOnce, Income, Fee
  <2> QED
    BY <2>3, <2>4 DEF CodeInv
<1>3. ASSUME NEW r \in Requests, BeginSettle(r) PROVE CodeInv'
  <2>1. UNCHANGED <<order, code, settled>> /\ code = "unused" /\ Total' = Total
    BY <1>3 DEF BeginSettle, rows, money, Total
  <2>2. req'[r].at = "pay" /\ \A s \in Requests \ {r} : req'[s] = req[s]
    BY <1>0, <1>3, StartEffect DEF BeginSettle
  <2>3. ASSUME NEW q \in Requests PROVE SettleFacts(q)'
    BY <1>0, <2>1, <2>2
  <2>4. CodePaysOnce'
    BY <1>0, <2>1 DEF CodePaysOnce, Income, Fee
  <2> QED
    BY <2>3, <2>4 DEF CodeInv
<1>4. ASSUME NEW r \in Requests, SettlePay(r) PROVE CodeInv'
  <2>1. /\ req[r].op = "settle" /\ req[r].at = "pay" /\ code = "unused"
        /\ order' = order /\ Total' = Total
        /\ \A s \in Requests \ {r} : req[s].op # "settle" /\ req'[s] = req[s]
    BY <1>0, <1>4, <1>a, FinishEffect, GotoEffect DEF SettlePay, At, Total
  <2>2. CASE /\ settled' = [income |-> Income(Total), fee |-> Fee(Total)]
             /\ code' = "used" /\ Goto(r, "finish")
    <3>1. req'[r].at = "finish"
      BY <1>0, <2>2, GotoEffect
    <3>2. ASSUME NEW q \in Requests PROVE SettleFacts(q)'
      BY <1>0, <2>1, <2>2, <3>1
    <3>3. CodePaysOnce'
      BY <1>0, <2>1, <2>2 DEF CodePaysOnce, Income, Fee
    <3> QED
      BY <3>2, <3>3 DEF CodeInv
  <2>3. CASE Finish(r) /\ UNCHANGED <<settled, code>>
    <3>1. ASSUME NEW q \in Requests PROVE SettleFacts(q)'
      BY <1>0, <2>1, <2>3, FinishEffect
    <3>2. CodePaysOnce'
      BY <1>0, <2>1, <2>3 DEF CodePaysOnce, Income, Fee
    <3> QED
      BY <3>1, <3>2 DEF CodeInv
  <2> QED
    BY <1>4, <2>2, <2>3 DEF SettlePay
<1>5. ASSUME NEW r \in Requests, SettleFinish(r) PROVE CodeInv'
  <2>1. /\ code = "used" /\ UNCHANGED <<code, settled>> /\ Total' = Total
        /\ req'[r].op = "idle" /\ \A s \in Requests \ {r} : req'[s] = req[s]
    BY <1>0, <1>5, TotalStep, FinishEffect DEF SettleFinish, At, money, TypeOK
  <2>2. ASSUME NEW q \in Requests PROVE SettleFacts(q)'
    BY <1>0, <2>1
  <2>3. CodePaysOnce'
    BY <1>0, <2>1 DEF CodePaysOnce, Income, Fee
  <2> QED
    BY <2>2, <2>3 DEF CodeInv
<1> QED
  BY OtherThanSettling, <1>1, <1>2, <1>3, <1>4, <1>5 DEF SettleStep

LEMMA CodeInvInit == Init => CodeInv
<1> SUFFICES ASSUME Init PROVE CodeInv
  OBVIOUS
<1>1. \A r \in Requests : req[r].op = "idle"
  BY IdleType DEF Init, Sessions
<1>2. CodePaysOnce
  BY DEF Init, NewNormal, NewSpot, CodePaysOnce
<1> QED
  BY <1>1, <1>2 DEF CodeInv, SettleFacts

\* The code is used exactly when the settlement has been posted, it pays out the
\* total once, and a FINISHED order has been settled, whatever dies or races.
THEOREM OneSettlement == Spec => []CodePaysOnce
<1>1. SeatInv /\ CodeInv /\ [Next]_vars => CodeInv'
  BY CodeInvStep DEF SeatInv
<1>2. CodeInv => CodePaysOnce
  BY DEF CodeInv
<1> QED
  BY <1>1, <1>2, CodeInvInit, SeatInvInit, SeatInvStep, PTL DEF Spec

-----------------------------------------------------------------------------
(* The balances *)

\* No session remembers a negative balance.
SnapshotsCovered ==
  \A s \in Sessions : req[s].frozen >= 0 /\ \A b \in Buyers : req[s].wallet[b] >= 0

\* What a session remembers it knows already or reads in this step.
LEMMA SnapshotsStep ==
  TypeOK /\ NoOverdraft /\ SnapshotsCovered /\ [Next]_vars => SnapshotsCovered'
<1> SUFFICES ASSUME TypeOK, NoOverdraft, SnapshotsCovered, [Next]_vars, NEW q \in Sessions
             PROVE  req'[q].frozen >= 0 /\ \A b \in Buyers : req'[q].wallet[b] >= 0
  BY DEF SnapshotsCovered
<1> DEFINE P == req'[q].frozen >= 0 /\ \A b \in Buyers : req'[q].wallet[b] >= 0
<1> SUFFICES P
  OBVIOUS
<1>0. /\ Requests \subseteq Sessions /\ Scheduler \in Sessions /\ Scheduler \notin Requests
      /\ Idle.frozen = 0 /\ Idle.wallet = [b \in Buyers |-> 0]
      /\ req[q].frozen >= 0 /\ \A b \in Buyers : req[q].wallet[b] >= 0
  BY EscrowAssumption, IdleType DEF Sessions, Idle, SnapshotsCovered
<1>1. ASSUME NEW r \in Sessions, NEW op, NEW at, NEW b, Start(r, op, at, b) PROVE P
  <2>1. CASE q = r
    BY <1>1, <2>1, StartEffect
  <2>2. CASE q # r
    BY <1>0, <1>1, <2>2, StartEffect
  <2> QED
    BY <2>1, <2>2
<1>2. ASSUME NEW r \in Sessions, NEW at, Goto(r, at) PROVE P
  BY <1>0, <1>2, GotoEffect
<1>3. ASSUME NEW r \in Sessions, NEW at, GotoExpired(r, at) PROVE P
  BY <1>0, <1>3, GotoExpiredEffect
<1>4. ASSUME NEW r \in Sessions, Finish(r) PROVE P
  <2>1. CASE q = r
    BY <1>0, <1>4, <2>1, FinishEffect
  <2>2. CASE q # r
    BY <1>0, <1>4, <2>2, FinishEffect
  <2> QED
    BY <2>1, <2>2
<1>5. ASSUME NEW b \in Buyers, NextParticipant(b) PROVE P
  BY <1>0, <1>5 DEF NextParticipant, TypeOK, SessionState
<1>6. CASE UNCHANGED req
  BY <1>0, <1>6
<1>7. ASSUME NEW r \in Requests, CloseRead(r) PROVE P
  <2>1. CASE q # r
    BY <1>0, <1>7, <2>1, CloseReadEffect
  <2>2. CASE q = r /\ req'[r] = Idle
    BY <1>0, <2>2
  <2>3. CASE q = r /\ req'[r].frozen = frozen /\ req'[r].wallet = [b \in Buyers |-> wallet[b]]
    BY <2>3 DEF NoOverdraft, Users
  <2> QED
    BY <1>7, <2>1, <2>2, <2>3, CloseReadEffect
<1>8. CASE AutoBegin
  <2>1. CASE q = Scheduler
    <3>1. req'[Scheduler].frozen = 0 /\ req'[Scheduler].wallet = [b \in Buyers |-> 0]
      BY <1>0, <1>8 DEF AutoBegin, TypeOK, Idle
    <3> QED
      BY <2>1, <3>1
  <2>2. CASE q # Scheduler
    BY <1>0, <1>8, <2>2 DEF AutoBegin, TypeOK
  <2> QED
    BY <2>1, <2>2
<1>9. ASSUME NEW b \in Buyers,
             req' = [req EXCEPT ![Scheduler].at = "credit", ![Scheduler].user = b]
      PROVE  P
  BY <1>0, <1>9 DEF TypeOK, SessionState
<1> HIDE DEF P
<1>10. ASSUME NEW r \in Requests, Begin(r) PROVE P
  BY <1>0, <1>1, <1>10 DEF Begin, BeginJoin, BeginQuit, BeginRefund, BeginSettle,
                           MarkDisbanded, MarkDeleted
<1>11. ASSUME NEW r \in Requests, Continue(r) PROVE P
  <2>1. CASE JoinDebit(r) \/ JoinFreeze(r) \/ JoinCompensate(r) \/ JoinEnrol(r) \/ JoinPurchase(r)
    BY <1>0, <1>2, <1>3, <1>4, <2>1
       DEF JoinDebit, JoinFreeze, JoinCompensate, JoinEnrol, JoinPurchase
  <2>2. CASE Unfreeze(r) \/ CreditBuyer(r) \/ Restore(r) \/ PayPenalty(r) \/ Leave(r)
    BY <1>0, <1>2, <1>3, <1>4, <2>2 DEF Unfreeze, CreditBuyer, Restore, PayPenalty, Leave
  <2>3. CASE SettlePay(r) \/ SettleFinish(r) \/ CloseWrite(r)
    BY <1>0, <1>2, <1>3, <1>4, <2>3 DEF SettlePay, SettleFinish, CloseWrite
  <2> QED
    BY <1>7, <1>11, <2>1, <2>2, <2>3 DEF Continue
<1>12. ASSUME NEW b \in Buyers, AutoUnfreeze(b) PROVE P
  BY <1>0, <1>4, <1>5, <1>9, <1>12 DEF AutoUnfreeze
<1>13. CASE AutoCredit
  <2>1. At(Scheduler, "auto", "credit") => req[Scheduler].user \in Buyers
    BY DEF TypeOK
  <2> QED
    BY <1>0, <1>4, <1>5, <1>13, <2>1 DEF AutoCredit
<1>14. CASE AutoFinish \/ ExpiryBegin \/ ExpiryWrite
  BY <1>0, <1>1, <1>4, <1>14 DEF AutoFinish, ExpiryBegin, ExpiryWrite
<1>15. ASSUME NEW r \in Sessions, Crash(r) PROVE P
  BY <1>4, <1>15 DEF Crash
<1> QED
  BY <1>6, <1>8, <1>10, <1>11, <1>12, <1>13, <1>14, <1>15
     DEF Next, ContinueTask, vars, DeadlinePasses, Withdraw, MarkPurchased, SoftDelete

LEMMA NoOverdraftStep ==
  TypeOK /\ NoOverdraft /\ SnapshotsCovered /\ [Next]_vars => NoOverdraft'
<1> SUFFICES ASSUME TypeOK, NoOverdraft, SnapshotsCovered, [Next]_vars PROVE NoOverdraft'
  OBVIOUS
<1>0. /\ Requests \subseteq Sessions /\ Creator \in Users /\ Buyers \subseteq Users
      /\ \A r \in Requests : req[r].op \in {"join", "quit", "refund"} => req[r].user \in Buyers
      /\ At(Scheduler, "auto", "credit") => req[Scheduler].user \in Buyers
      /\ wallet \in [Users -> Int] /\ frozen \in Int
      /\ NoOverdraft
  BY DEF Sessions, Users, TypeOK
<1>1. CASE UNCHANGED vars
  BY <1>0, <1>1 DEF vars, NoOverdraft
<1>2. CASE DeadlinePasses
  BY <1>0, <1>2 DEF DeadlinePasses, rows, money, NoOverdraft
<1>3. ASSUME NEW b \in Buyers, Withdraw(b) PROVE NoOverdraft'
  BY <1>0, <1>3, RefundType, PricePositive DEF Withdraw, At, rows, NoOverdraft, AddToWallet, EscrowCovers
<1>4. ASSUME NEW r \in Requests, NEW b \in Buyers, BeginJoin(r, b) PROVE NoOverdraft'
  BY <1>0, <1>4 DEF BeginJoin, rows, money, NoOverdraft
<1>5. ASSUME NEW r \in Requests, NEW b \in Buyers, BeginQuit(r, b) PROVE NoOverdraft'
  BY <1>0, <1>5 DEF BeginQuit, rows, money, NoOverdraft
<1>6. ASSUME NEW r \in Requests, NEW b \in Buyers, BeginRefund(r, b) PROVE NoOverdraft'
  BY <1>0, <1>6 DEF BeginRefund, rows, money, NoOverdraft
<1>7. ASSUME NEW r \in Requests, BeginSettle(r) PROVE NoOverdraft'
  BY <1>0, <1>7 DEF BeginSettle, rows, money, NoOverdraft
<1>8. ASSUME NEW r \in Requests, MarkDisbanded(r) PROVE NoOverdraft'
  BY <1>0, <1>8 DEF MarkDisbanded, rows, money, NoOverdraft
<1>9. ASSUME NEW r \in Requests, MarkDeleted(r) PROVE NoOverdraft'
  BY <1>0, <1>9 DEF MarkDeleted, rows, money, NoOverdraft
<1>10. ASSUME NEW r \in Requests, JoinDebit(r) PROVE NoOverdraft'
  BY <1>0, <1>10, RefundType, PricePositive DEF JoinDebit, At, rows, NoOverdraft, AddToWallet, EscrowCovers
<1>11. ASSUME NEW r \in Requests, JoinFreeze(r) PROVE NoOverdraft'
  BY <1>0, <1>11, RefundType, PricePositive DEF JoinFreeze, At, rows, NoOverdraft, AddToWallet, EscrowCovers
<1>12. ASSUME NEW r \in Requests, JoinCompensate(r) PROVE NoOverdraft'
  BY <1>0, <1>12, RefundType, PricePositive DEF JoinCompensate, At, rows, NoOverdraft, AddToWallet, EscrowCovers
<1>13. ASSUME NEW r \in Requests, JoinEnrol(r) PROVE NoOverdraft'
  BY <1>0, <1>13 DEF JoinEnrol, rows, money, NoOverdraft
<1>14. ASSUME NEW r \in Requests, JoinPurchase(r) PROVE NoOverdraft'
  BY <1>0, <1>14 DEF JoinPurchase, rows, money, NoOverdraft
<1>15. ASSUME NEW r \in Requests, Unfreeze(r) PROVE NoOverdraft'
  BY <1>0, <1>15, RefundType, PricePositive DEF Unfreeze, At, rows, NoOverdraft, AddToWallet, EscrowCovers
<1>16. ASSUME NEW r \in Requests, CreditBuyer(r) PROVE NoOverdraft'
  BY <1>0, <1>16, RefundType, PricePositive DEF CreditBuyer, At, rows, NoOverdraft, AddToWallet, EscrowCovers
<1>17. ASSUME NEW r \in Requests, Restore(r) PROVE NoOverdraft'
  BY <1>0, <1>17, RefundType, PricePositive DEF Restore, At, rows, NoOverdraft, AddToWallet, EscrowCovers
<1>18. ASSUME NEW r \in Requests, PayPenalty(r) PROVE NoOverdraft'
  BY <1>0, <1>18, RefundType, PricePositive DEF PayPenalty, At, rows, NoOverdraft, AddToWallet, EscrowCovers
<1>19. ASSUME NEW r \in Requests, Leave(r) PROVE NoOverdraft'
  BY <1>0, <1>19 DEF Leave, rows, money, NoOverdraft
<1>20. ASSUME NEW r \in Requests, SettlePay(r) PROVE NoOverdraft'
  BY <1>0, <1>20, TotalType DEF SettlePay, NoOverdraft, AddToWallet, EscrowCovers
<1>21. ASSUME NEW r \in Requests, SettleFinish(r) PROVE NoOverdraft'
  BY <1>0, <1>21 DEF SettleFinish, rows, money, NoOverdraft
<1>22. ASSUME NEW r \in Requests, CloseRead(r) PROVE NoOverdraft'
  BY <1>0, <1>22 DEF CloseRead, rows, money, NoOverdraft
<1>23. ASSUME NEW r \in Requests, CloseWrite(r) PROVE NoOverdraft'
  <2>1. /\ req[r].paid \in SUBSET Buyers /\ req[r].frozen \in Int
        /\ req[r].wallet \in [Buyers -> Int] /\ IsFiniteSet(Buyers)
        /\ \A b \in Buyers : req[r].wallet[b] >= 0
    BY <1>0, EscrowAssumption DEF TypeOK, SessionState, SnapshotsCovered
  <2>2. PICK refunded \in SUBSET req[r].paid :
          /\ Cardinality(refunded) * Price <= req[r].frozen
          /\ frozen' = IF refunded = {} THEN frozen
                       ELSE req[r].frozen - Cardinality(refunded) * Price
          /\ wallet' = [u \in Users |-> IF u \in refunded
                                          THEN req[r].wallet[u] + Price ELSE wallet[u]]
    BY <1>23 DEF CloseWrite, Refundable
  <2>3. Cardinality(refunded) \in Nat
    BY <2>1, FS_Subset, FS_CardinalityType
  <2>4. frozen' >= 0
    <3>1. Cardinality(refunded) * Price \in Int
      BY <2>3, PricePositive
    <3> QED
      BY <1>0, <2>1, <2>2, <3>1 DEF NoOverdraft
  <2>5. \A u \in Users : wallet'[u] >= 0
    BY <1>0, <2>1, <2>2, PricePositive DEF NoOverdraft
  <2> QED
    BY <2>4, <2>5 DEF NoOverdraft
<1>24. CASE MarkPurchased
  BY <1>0, <1>24 DEF MarkPurchased, rows, money, NoOverdraft
<1>25. CASE SoftDelete
  BY <1>0, <1>25 DEF SoftDelete, rows, money, NoOverdraft
<1>26. CASE AutoBegin
  BY <1>0, <1>26 DEF AutoBegin, rows, money, NoOverdraft
<1>27. CASE ExpiryBegin
  BY <1>0, <1>27 DEF ExpiryBegin, rows, money, NoOverdraft
<1>28. ASSUME NEW b \in Buyers, AutoUnfreeze(b) PROVE NoOverdraft'
  BY <1>0, <1>28, RefundType, PricePositive DEF AutoUnfreeze, At, rows, NoOverdraft, AddToWallet, EscrowCovers
<1>29. CASE AutoCredit
  BY <1>0, <1>29, RefundType, PricePositive DEF AutoCredit, At, rows, NoOverdraft, AddToWallet, EscrowCovers
<1>30. CASE AutoFinish
  BY <1>0, <1>30 DEF AutoFinish, rows, money, NoOverdraft
<1>31. CASE ExpiryWrite
  BY <1>0, <1>31 DEF ExpiryWrite, rows, money, NoOverdraft
<1>32. ASSUME NEW r \in Sessions, Crash(r) PROVE NoOverdraft'
  BY <1>0, <1>32 DEF Crash, rows, money, NoOverdraft
<1> QED
  BY <1>1, <1>2, <1>3, <1>4, <1>5, <1>6, <1>7, <1>8, <1>9, <1>10, <1>11,
     <1>12, <1>13, <1>14, <1>15, <1>16, <1>17, <1>18, <1>19, <1>20, <1>21,
     <1>22, <1>23, <1>24, <1>25, <1>26, <1>27, <1>28, <1>29, <1>30, <1>31,
     <1>32
     DEF Next, Begin, Continue, ContinueTask

\* No interleaving of requests, tasks, faults and crashes overdraws a buyer's or
\* the creator's balance, the unlocked refund loop of disband_order included.
THEOREM NobodyOverdrawn == Spec => []NoOverdraft
<1>1. Init => NoOverdraft /\ SnapshotsCovered
  <2> SUFFICES ASSUME Init PROVE NoOverdraft /\ SnapshotsCovered
    OBVIOUS
  <2>1. NoOverdraft
    BY EscrowAssumption DEF Init, NoOverdraft
  <2>2. \A s \in Sessions : req[s].frozen = 0 /\ req[s].wallet = [b \in Buyers |-> 0]
    BY DEF Init, Idle
  <2> QED
    BY <2>1, <2>2 DEF SnapshotsCovered
<1>2. TypeOK /\ NoOverdraft /\ SnapshotsCovered /\ [Next]_vars
        => NoOverdraft' /\ SnapshotsCovered'
  BY NoOverdraftStep, SnapshotsStep
<1> QED
  BY <1>1, <1>2, TypeCorrect, PTL DEF Spec

-----------------------------------------------------------------------------
(* The wallets and t_payment_logs *)

\* The postings to a buyer's wallet.
WalletKeys ==
  {<<"join", "wallet">>, <<"join", "compensate">>, <<"quit", "wallet">>,
   <<"refund", "wallet">>, <<"disband", "wallet">>, <<"withdraw", "wallet">>}

\* How a step treats the buyers' wallets: not at all, by one credit with its
\* posting, or by join_order's debit.
WalletMoves ==
  \/ \A b \in Buyers : /\ wallet'[b] = wallet[b]
                       /\ \A k \in WalletKeys : paylog'[b][k] = paylog[b][k]
  \/ \E b \in Buyers, k \in WalletKeys : \E amount \in Int :
       /\ amount > 0
       /\ ~Posted(b, k) /\ AddToWallet(b, amount) /\ Post(b, k, amount)
  \/ \E r \in Requests : JoinDebit(r)

LEMMA WalletMovesStep ==
  ASSUME "withdraw" \notin Ops
  PROVE  TypeOK /\ NoClosing /\ [Next]_vars => WalletMoves
<1> SUFFICES ASSUME TypeOK, NoClosing, [Next]_vars PROVE WalletMoves
  OBVIOUS
<1>0. /\ "withdraw" \notin Ops /\ NoClosing
      /\ TypeOK /\ wallet \in [Users -> Int]
      /\ Creator \notin Buyers /\ Creator \in Users /\ Buyers \subseteq Users
      /\ \A r \in Requests : req[r].op \in {"join", "quit", "refund"} => req[r].user \in Buyers
      /\ At(Scheduler, "auto", "credit") => req[Scheduler].user \in Buyers
      /\ WalletKeys \subseteq Keys
      /\ \A op \in {"quit", "refund"} : /\ <<op, "freeze_decr">> \in Keys
                                       /\ <<op, "compensate">> \in Keys
      /\ {<<"join", "freeze">>, <<"refund", "penalty">>, <<"disband", "freeze_decr">>}
           \subseteq Keys
  BY EscrowAssumption DEF TypeOK, Users, WalletKeys, Keys
<1>1. CASE UNCHANGED vars
  BY <1>1 DEF vars, WalletMoves
<1>2. CASE DeadlinePasses
  BY <1>2 DEF DeadlinePasses, rows, money, WalletMoves
<1>3. ASSUME NEW b \in Buyers, Withdraw(b) PROVE WalletMoves
  BY <1>0, <1>3 DEF Withdraw
<1>4. ASSUME NEW r \in Requests, NEW b \in Buyers, BeginJoin(r, b) PROVE WalletMoves
  BY <1>4 DEF BeginJoin, rows, money, WalletMoves
<1>5. ASSUME NEW r \in Requests, NEW b \in Buyers, BeginQuit(r, b) PROVE WalletMoves
  BY <1>5 DEF BeginQuit, rows, money, WalletMoves
<1>6. ASSUME NEW r \in Requests, NEW b \in Buyers, BeginRefund(r, b) PROVE WalletMoves
  BY <1>6 DEF BeginRefund, rows, money, WalletMoves
<1>7. ASSUME NEW r \in Requests, BeginSettle(r) PROVE WalletMoves
  BY <1>7 DEF BeginSettle, rows, money, WalletMoves
<1>8. ASSUME NEW r \in Requests, MarkDisbanded(r) PROVE WalletMoves
  BY <1>8 DEF MarkDisbanded, rows, money, WalletMoves
<1>9. ASSUME NEW r \in Requests, MarkDeleted(r) PROVE WalletMoves
  BY <1>9 DEF MarkDeleted, rows, money, WalletMoves
<1>10. ASSUME NEW r \in Requests, JoinDebit(r) PROVE WalletMoves
  BY <1>10 DEF WalletMoves
<1>11. ASSUME NEW r \in Requests, JoinFreeze(r) PROVE WalletMoves
  <2>1. req[r].user \in Buyers /\ <<"join", "freeze">> \in Keys \ WalletKeys
    BY <1>0, <1>11 DEF JoinFreeze, At, WalletKeys
  <2>2. \A b \in Buyers, k \in WalletKeys : paylog'[b][k] = paylog[b][k]
    BY <1>0, <1>11, <2>1, PostEffect, PricePositive DEF JoinFreeze
  <2> QED
    BY <1>0, <1>11, <2>2 DEF JoinFreeze, WalletMoves
<1>12. ASSUME NEW r \in Requests, JoinCompensate(r) PROVE WalletMoves
  <2> DEFINE key == <<"join", "compensate">>
             amount == Price
  <2>1. req[r].user \in Buyers /\ key \in WalletKeys /\ amount \in Int /\ amount > 0
    BY <1>0, <1>12, PricePositive, RefundType DEF JoinCompensate, At, WalletKeys
  <2> HIDE DEF amount
  <2>2. CASE ~Posted(req[r].user, key) /\ AddToWallet(req[r].user, amount) /\ Post(req[r].user, key, amount)
    BY <2>1, <2>2 DEF WalletMoves
  <2>3. CASE UNCHANGED <<wallet, paylog>>
    BY <2>3 DEF WalletMoves
  <2> QED
    BY <1>12, <2>2, <2>3 DEF JoinCompensate, amount
<1>13. ASSUME NEW r \in Requests, JoinEnrol(r) PROVE WalletMoves
  BY <1>13 DEF JoinEnrol, rows, money, WalletMoves
<1>14. ASSUME NEW r \in Requests, JoinPurchase(r) PROVE WalletMoves
  BY <1>14 DEF JoinPurchase, rows, money, WalletMoves
<1>15. ASSUME NEW r \in Requests, Unfreeze(r) PROVE WalletMoves
  <2>1. req[r].user \in Buyers /\ <<req[r].op, "freeze_decr">> \in Keys \ WalletKeys
    BY <1>0, <1>15 DEF Unfreeze, WalletKeys
  <2>2. \A b \in Buyers, k \in WalletKeys : paylog'[b][k] = paylog[b][k]
    BY <1>0, <1>15, <2>1, PostEffect, PricePositive DEF Unfreeze
  <2> QED
    BY <1>0, <1>15, <2>2 DEF Unfreeze, WalletMoves
<1>16. ASSUME NEW r \in Requests, CreditBuyer(r) PROVE WalletMoves
  <2> DEFINE key == <<req[r].op, "wallet">>
             amount == Refund(r)
  <2>1. req[r].user \in Buyers /\ key \in WalletKeys /\ amount \in Int /\ amount > 0
    BY <1>0, <1>16, PricePositive, RefundType DEF CreditBuyer, At, WalletKeys
  <2> HIDE DEF amount
  <2>2. CASE ~Posted(req[r].user, key) /\ AddToWallet(req[r].user, amount) /\ Post(req[r].user, key, amount)
    BY <2>1, <2>2 DEF WalletMoves
  <2>3. CASE UNCHANGED <<wallet, paylog>>
    BY <2>3 DEF WalletMoves
  <2> QED
    BY <1>16, <2>2, <2>3 DEF CreditBuyer, amount
<1>17. ASSUME NEW r \in Requests, Restore(r) PROVE WalletMoves
  <2>1. req[r].user \in Buyers /\ <<req[r].op, "compensate">> \in Keys \ WalletKeys
    BY <1>0, <1>17 DEF Restore, WalletKeys
  <2>2. \A b \in Buyers, k \in WalletKeys : paylog'[b][k] = paylog[b][k]
    BY <1>0, <1>17, <2>1, PostEffect, PricePositive DEF Restore
  <2> QED
    BY <1>0, <1>17, <2>2 DEF Restore, WalletMoves
<1>18. ASSUME NEW r \in Requests, PayPenalty(r) PROVE WalletMoves
  <2>1. \A b \in Buyers : wallet'[b] = wallet[b]
    BY <1>0, <1>18 DEF PayPenalty, AddToWallet
  <2>2. req[r].user \in Buyers /\ <<"refund", "penalty">> \in Keys \ WalletKeys
    BY <1>0, <1>18 DEF PayPenalty, At, WalletKeys
  <2>3. \A b \in Buyers, k \in WalletKeys : paylog'[b][k] = paylog[b][k]
    BY <1>0, <1>18, <2>2, PostEffect, RefundType DEF PayPenalty
  <2> QED
    BY <2>1, <2>3 DEF WalletMoves
<1>19. ASSUME NEW r \in Requests, Leave(r) PROVE WalletMoves
  BY <1>19 DEF Leave, rows, money, WalletMoves
<1>20. ASSUME NEW r \in Requests, SettlePay(r) PROVE WalletMoves
  <2>1. \A b \in Buyers : wallet'[b] = wallet[b]
    BY <1>0, <1>20 DEF SettlePay, AddToWallet
  <2> QED
    BY <1>20, <2>1 DEF SettlePay, WalletMoves
<1>21. ASSUME NEW r \in Requests, SettleFinish(r) PROVE WalletMoves
  BY <1>21 DEF SettleFinish, rows, money, WalletMoves
<1>22. ASSUME NEW r \in Requests, CloseRead(r) PROVE WalletMoves
  BY <1>22 DEF CloseRead, rows, money, WalletMoves
<1>23. ASSUME NEW r \in Requests, CloseWrite(r) PROVE WalletMoves
  BY <1>0, <1>23 DEF CloseWrite, At, NoClosing
<1>24. CASE MarkPurchased
  BY <1>24 DEF MarkPurchased, rows, money, WalletMoves
<1>25. CASE SoftDelete
  BY <1>25 DEF SoftDelete, rows, money, WalletMoves
<1>26. CASE AutoBegin
  BY <1>26 DEF AutoBegin, rows, money, WalletMoves
<1>27. CASE ExpiryBegin
  BY <1>27 DEF ExpiryBegin, rows, money, WalletMoves
<1>28. ASSUME NEW b \in Buyers, AutoUnfreeze(b) PROVE WalletMoves
  <2>1. b \in Buyers /\ <<"disband", "freeze_decr">> \in Keys \ WalletKeys
    BY <1>0, <1>28 DEF AutoUnfreeze, WalletKeys
  <2>2. \A c \in Buyers, k \in WalletKeys : paylog'[c][k] = paylog[c][k]
    BY <1>0, <1>28, <2>1, PostEffect, PricePositive DEF AutoUnfreeze
  <2> QED
    BY <1>0, <1>28, <2>2 DEF AutoUnfreeze, WalletMoves
<1>29. CASE AutoCredit
  <2> DEFINE key == <<"disband", "wallet">>
             amount == Price
  <2>1. req[Scheduler].user \in Buyers /\ key \in WalletKeys /\ amount \in Int /\ amount > 0
    BY <1>0, <1>29, PricePositive, RefundType DEF AutoCredit, At, WalletKeys
  <2> HIDE DEF amount
  <2>2. CASE ~Posted(req[Scheduler].user, key) /\ AddToWallet(req[Scheduler].user, amount) /\ Post(req[Scheduler].user, key, amount)
    BY <2>1, <2>2 DEF WalletMoves
  <2>3. CASE UNCHANGED <<wallet, paylog>>
    BY <2>3 DEF WalletMoves
  <2> QED
    BY <1>29, <2>2, <2>3 DEF AutoCredit, amount
<1>30. CASE AutoFinish
  BY <1>30 DEF AutoFinish, rows, money, WalletMoves
<1>31. CASE ExpiryWrite
  BY <1>31 DEF ExpiryWrite, rows, money, WalletMoves
<1>32. ASSUME NEW r \in Sessions, Crash(r) PROVE WalletMoves
  BY <1>32 DEF Crash, rows, money, WalletMoves
<1> QED
  BY <1>1, <1>2, <1>3, <1>4, <1>5, <1>6, <1>7, <1>8, <1>9, <1>10, <1>11,
     <1>12, <1>13, <1>14, <1>15, <1>16, <1>17, <1>18, <1>19, <1>20, <1>21,
     <1>22, <1>23, <1>24, <1>25, <1>26, <1>27, <1>28, <1>29, <1>30, <1>31,
     <1>32
     DEF Next, Begin, Continue, ContinueTask

\* A posting to a wallet together with the change it records.
LEMMA PostedChange ==
  ASSUME TypeOK, WalletsMatchLog, NEW b \in Buyers, NEW k \in WalletKeys, NEW amount \in Int,
         ~Posted(b, k), AddToWallet(b, amount), Post(b, k, amount)
  PROVE  WalletsMatchLog'
<1>1. /\ \A c \in Buyers : wallet'[c] = IF c = b THEN wallet[c] + amount ELSE wallet[c]
      /\ wallet[b] \in Int
  BY DEF TypeOK, Users, AddToWallet
<1>2. /\ paylog'[b][k] = amount /\ paylog[b][k] = 0
      /\ \A c \in Buyers, key \in WalletKeys :
           c # b \/ key # k => paylog'[c][key] = paylog[c][key]
  BY PostEffect DEF WalletKeys, Keys, Posted
<1>3. \A c \in Buyers, key \in WalletKeys : paylog[c][key] \in Int
  <2>1. WalletKeys \subseteq Keys
    BY DEF WalletKeys, Keys
  <2> QED
    BY <2>1 DEF TypeOK
<1>4. ASSUME NEW c \in Buyers \ {b}
      PROVE  /\ wallet'[c] = wallet[c]
             /\ \A key \in WalletKeys : paylog'[c][key] = paylog[c][key]
  BY <1>1, <1>2
<1>5. BuyerFunds \in Int
  BY EscrowAssumption
<1>6. CASE k = <<"join", "wallet">>
  BY <1>1, <1>2, <1>3, <1>4, <1>5, <1>6 DEF WalletKeys, WalletsMatchLog
<1>7. CASE k = <<"join", "compensate">>
  BY <1>1, <1>2, <1>3, <1>4, <1>5, <1>7 DEF WalletKeys, WalletsMatchLog
<1>8. CASE k = <<"quit", "wallet">>
  BY <1>1, <1>2, <1>3, <1>4, <1>5, <1>8 DEF WalletKeys, WalletsMatchLog
<1>9. CASE k = <<"refund", "wallet">>
  BY <1>1, <1>2, <1>3, <1>4, <1>5, <1>9 DEF WalletKeys, WalletsMatchLog
<1>10. CASE k = <<"disband", "wallet">>
  BY <1>1, <1>2, <1>3, <1>4, <1>5, <1>10 DEF WalletKeys, WalletsMatchLog
<1>11. CASE k = <<"withdraw", "wallet">>
  BY <1>1, <1>2, <1>3, <1>4, <1>5, <1>11 DEF WalletKeys, WalletsMatchLog
<1> QED
  BY <1>6, <1>7, <1>8, <1>9, <1>10, <1>11 DEF WalletKeys

\* The debit of a request that joins is covered, however long ago it looked.
DebitCovered ==
  \A r \in Requests : At(r, "join", "debit") => wallet[req[r].user] >= Price

WalletInv == WalletsMatchLog /\ DebitCovered

LEMMA WalletInvStep ==
  ASSUME "withdraw" \notin Ops
  PROVE  SeatInv /\ NoClosing /\ WalletInv /\ [Next]_vars => WalletInv'
<1> SUFFICES ASSUME SeatInv, NoClosing, WalletInv, [Next]_vars PROVE WalletInv'
  OBVIOUS
<1>0. /\ TypeOK /\ LocksHeld /\ WalletsMatchLog /\ DebitCovered /\ WalletMoves
      /\ Requests \subseteq Sessions /\ Idle.op = "idle" /\ Price \in Int
      /\ \A r \in Requests : req[r].op \in {"join", "quit", "refund"} => req[r].user \in Buyers
      /\ \A b \in Buyers : wallet[b] \in Int
      /\ \A b \in Buyers : \A k \in WalletKeys : paylog[b][k] \in Int
  BY WalletMovesStep, IdleType, PricePositive
     DEF SeatInv, WalletInv, TypeOK, Users, Sessions, WalletKeys, Keys
<1>a. \A r, s \in Requests : req[r].op = "join" /\ req[s].op = "join" => r = s
  BY <1>0 DEF LocksHeld
<1>1. ASSUME NEW r \in Requests, JoinDebit(r) PROVE WalletInv'
  <2> PICK b \in Buyers : b = req[r].user
    BY <1>0, <1>1 DEF JoinDebit, At
  <2>1. wallet[b] >= Price /\ req[r].op = "join"
    BY <1>0, <1>1 DEF JoinDebit, DebitCovered, At
  <2>2. DebitCovered'
    <3>1. req'[r].op = "idle" \/ req'[r].at # "debit"
      BY <1>0, <1>1, FinishEffect, GotoEffect, GotoExpiredEffect DEF JoinDebit
    <3>2. \A s \in Requests \ {r} : req'[s].op # "join"
      BY <1>0, <1>1, <1>a, <2>1, FinishEffect, GotoEffect, GotoExpiredEffect DEF JoinDebit
    <3> QED
      BY <3>1, <3>2 DEF DebitCovered, At
  <2>3. CASE /\ ~Posted(b, <<"join", "wallet">>)
             /\ AddToWallet(b, -Price) /\ Post(b, <<"join", "wallet">>, -Price)
    <3>1. <<"join", "wallet">> \in WalletKeys /\ -Price \in Int
      BY <1>0 DEF WalletKeys
    <3>2. WalletsMatchLog'
      BY <1>0, <2>3, <3>1, PostedChange
    <3> QED
      BY <2>2, <3>2 DEF WalletInv
  <2>4. CASE UNCHANGED <<wallet, paylog>>
    BY <1>0, <2>2, <2>4 DEF WalletInv, WalletsMatchLog
  <2> QED
    BY <1>1, <2>1, <2>3, <2>4 DEF JoinDebit
<1>2. ASSUME \A r \in Requests : ~JoinDebit(r) PROVE WalletInv'
  <2>1. WalletsMatchLog'
    <3>1. CASE \A b \in Buyers : /\ wallet'[b] = wallet[b]
                                 /\ \A k \in WalletKeys : paylog'[b][k] = paylog[b][k]
      BY <1>0, <3>1 DEF WalletsMatchLog, WalletKeys
    <3> QED
      BY <1>0, <1>2, <3>1, PostedChange DEF WalletMoves
  <2>2. \A b \in Buyers : wallet'[b] >= wallet[b]
    BY <1>0, <1>2 DEF WalletMoves, AddToWallet, TypeOK, Users
  <2>3. \A r \in Requests : At(r, "join", "debit")' =>
          \/ At(r, "join", "debit") /\ req'[r].user = req[r].user
          \/ req'[r].user \in Buyers /\ wallet[req'[r].user] >= Price
    <3>1. CASE JoinFrame
      BY <3>1 DEF JoinFrame, At
    <3>2. ASSUME NEW r \in Requests, JoinStep(r)
          PROVE  \A q \in Requests : At(q, "join", "debit")' =>
                   \/ At(q, "join", "debit") /\ req'[q].user = req[q].user
                   \/ req'[q].user \in Buyers /\ wallet[req'[q].user] >= Price
      <4>1. \A s \in Requests \ {r} : req'[s] = req[s]
        BY <1>0, <1>2, <3>2, StartEffect, FinishEffect, GotoEffect
           DEF JoinStep, BeginJoin, JoinFreeze, JoinCompensate, JoinEnrol, JoinPurchase
      <4>2. \/ req'[r].op = "idle" \/ req'[r].at # "debit"
            \/ req'[r].user \in Buyers /\ wallet[req'[r].user] >= Price
        BY <1>0, <1>2, <3>2, StartEffect, FinishEffect, GotoEffect
           DEF JoinStep, BeginJoin, JoinFreeze, JoinCompensate, JoinEnrol, JoinPurchase
      <4> QED
        BY <4>1, <4>2 DEF At
    <3> QED
      BY <3>1, <3>2, OtherSteps DEF SeatInv
  <2>4. DebitCovered'
    <3> SUFFICES ASSUME NEW r \in Requests, At(r, "join", "debit")'
                 PROVE  wallet'[req'[r].user] >= Price
      BY DEF DebitCovered
    <3>1. req'[r].user \in Buyers /\ wallet[req'[r].user] >= Price
      BY <1>0, <2>3 DEF DebitCovered, At
    <3> QED
      BY <1>0, <2>2, <3>1, TypeStep DEF TypeOK, Users
  <2> QED
    BY <2>1, <2>4 DEF WalletInv
<1> QED
  BY <1>1, <1>2

\* Without apply_withdraw, disband_order and delete_order, every buyer's wallet is
\* what he had plus the postings to it.
THEOREM WalletsAreLogged ==
  ASSUME "withdraw" \notin Ops, "disband" \notin Ops, "delete" \notin Ops
  PROVE  Spec => []WalletsMatchLog
<1>1. Init => WalletInv /\ NoClosing
  <2> SUFFICES ASSUME Init PROVE WalletInv /\ NoClosing
    OBVIOUS
  <2>1. \A r \in Requests : req[r].op = "idle"
    BY IdleType DEF Init, Sessions
  <2>2. WalletsMatchLog
    <3>1. \A b \in Buyers : wallet[b] = BuyerFunds /\ \A k \in WalletKeys : paylog[b][k] = 0
      BY EscrowAssumption DEF Init, Users, WalletKeys, Keys
    <3> QED
      BY <3>1, EscrowAssumption DEF WalletsMatchLog, WalletKeys
  <2> QED
    BY <2>1, <2>2 DEF WalletInv, DebitCovered, NoClosing, At
<1>2. SeatInv /\ NoClosing /\ WalletInv /\ [Next]_vars => WalletInv' /\ NoClosing'
  BY WalletInvStep, NoClosingStep DEF SeatInv
<1>3. WalletInv => WalletsMatchLog
  BY DEF WalletInv
<1> QED
  BY <1>1, <1>2, <1>3, SeatInvInit, SeatInvStep, PTL DEF Spec

-----------------------------------------------------------------------------
(* The seats of a normal order.  Until a buyer has given up his seat,        *)
(* current_people counts the seats that are taken, however stale the copies  *)
(* are that it is written back from, and whoever is about to leave.          *)

\* A request that joins counts from the number the row still has, and the seat
\* it is to take is free; one that fills the order has taken the last seat.
FillFacts(r) ==
  req[r].op = "join" =>
    /\ req[r].at # "purchase" => req[r].people = order.people /\ order.people < TotalPeople
    /\ req[r].at = "purchase" => order.people = TotalPeople

Filled ==
  /\ order.people <= TotalPeople
  /\ Cardinality(Paid) <= order.people - 1
  /\ \A r \in Requests : FillFacts(r)

FillInv == order.kind = "normal" /\ (NobodyLeft => Filled)

\* Nobody joins, and nobody gets a seat.
FillFrame ==
  /\ order'.kind = order.kind /\ order'.people = order.people
  /\ \A b \in Buyers : seat'[b] = "paid" => seat[b] = "paid"
  /\ \A r \in Requests : req'[r].op = "join" =>
       /\ req[r].op = "join"
       /\ req'[r].at = req[r].at /\ req'[r].people = req[r].people

\* A seat that was given up stays so.
LEMMA LeftStays == SeatInv /\ [Next]_vars /\ NobodyLeft' => NobodyLeft
<1> SUFFICES ASSUME SeatInv, [Next]_vars, NEW b \in Buyers, seat[b] = "refunded"
             PROVE  seat'[b] = "refunded"
  BY DEF NobodyLeft
<1>0. /\ Requests \subseteq Sessions /\ seat \in [Buyers -> {"none", "paid", "refunded"}]
      /\ \A r \in Requests : req[r].op \in {"join", "quit", "refund"} => req[r].user \in Buyers
  BY DEF Sessions, SeatInv, TypeOK
<1>1. ASSUME UNCHANGED seat PROVE seat'[b] = "refunded"
  BY <1>1
<1>2. ASSUME NEW r \in Requests, Begin(r) PROVE UNCHANGED seat
  BY <1>2 DEF Begin, BeginJoin, BeginQuit, BeginRefund, BeginSettle, MarkDisbanded, MarkDeleted,
              rows
<1>3. ASSUME NEW r \in Requests,
             \/ JoinDebit(r) \/ JoinFreeze(r) \/ JoinCompensate(r) \/ JoinPurchase(r)
             \/ Unfreeze(r) \/ CreditBuyer(r) \/ Restore(r) \/ PayPenalty(r)
             \/ SettlePay(r) \/ SettleFinish(r) \/ CloseRead(r)
      PROVE  UNCHANGED seat
  BY <1>3 DEF JoinDebit, JoinFreeze, JoinCompensate, JoinPurchase, Unfreeze, CreditBuyer, Restore,
              PayPenalty, SettlePay, SettleFinish, CloseRead, rows
<1>4. ASSUME NEW r \in Requests, JoinEnrol(r) PROVE seat'[b] = "refunded"
  <2>1. At(r, "join", "enrol") /\ seat' = [seat EXCEPT ![req[r].user] = "paid"]
    BY <1>4 DEF JoinEnrol
  <2>2. seat[req[r].user] = "none"
    BY <1>0, <2>1 DEF SeatInv, JoinInv, JoinFacts, At
  <2> QED
    BY <1>0, <2>1, <2>2
<1>5. ASSUME NEW r \in Requests, Leave(r) PROVE seat'[b] = "refunded"
  BY <1>0, <1>5 DEF Leave
<1>6. ASSUME NEW r \in Requests, CloseWrite(r) PROVE seat'[b] = "refunded"
  BY <1>0, <1>6 DEF CloseWrite
<1>7. CASE AutoBegin \/ ExpiryBegin \/ ContinueTask
  BY <1>1, <1>7 DEF AutoBegin, ExpiryBegin, ContinueTask, AutoUnfreeze, AutoCredit, AutoFinish,
                    ExpiryWrite, rows
<1>8. CASE \/ DeadlinePasses \/ MarkPurchased \/ SoftDelete \/ UNCHANGED vars
          \/ \E u \in Buyers : Withdraw(u)
          \/ \E r \in Sessions : Crash(r)
  BY <1>1, <1>8 DEF DeadlinePasses, MarkPurchased, SoftDelete, Withdraw, Crash, rows, vars
<1> QED
  BY <1>1, <1>2, <1>3, <1>4, <1>5, <1>6, <1>7, <1>8 DEF Next, Continue

LEMMA FillFrameStep ==
  TypeOK /\ NobodyLeft' /\ [Next]_vars => FillFrame \/ \E r \in Requests : JoinStep(r)
<1> SUFFICES ASSUME TypeOK, NobodyLeft', [Next]_vars, \A r \in Requests : ~JoinStep(r)
             PROVE  FillFrame
  OBVIOUS
<1> USE DEF FillFrame
<1>0. /\ Requests \subseteq Sessions /\ Scheduler \notin Requests
      /\ order \in [kind : {"normal", "spot"}, status : Statuses, people : Nat \ {0},
                    deleted : BOOLEAN, expired : BOOLEAN]
      /\ Idle.op = "idle"
  BY EscrowAssumption, IdleType DEF Sessions, TypeOK
<1>1. CASE UNCHANGED vars
  BY <1>0, <1>1 DEF vars
<1>2. CASE DeadlinePasses
  BY <1>0, <1>2, StartEffect, FinishEffect, GotoEffect, GotoExpiredEffect
     DEF DeadlinePasses, At, rows, money
<1>3. ASSUME NEW b \in Buyers, Withdraw(b) PROVE FillFrame
  BY <1>0, <1>3, StartEffect, FinishEffect, GotoEffect, GotoExpiredEffect
     DEF Withdraw, At, rows, money
<1>4. ASSUME NEW r \in Requests, NEW b \in Buyers, BeginQuit(r, b) PROVE FillFrame
  BY <1>0, <1>4, StartEffect, FinishEffect, GotoEffect, GotoExpiredEffect
     DEF BeginQuit, At, rows, money
<1>5. ASSUME NEW r \in Requests, NEW b \in Buyers, BeginRefund(r, b) PROVE FillFrame
  BY <1>0, <1>5, StartEffect, FinishEffect, GotoEffect, GotoExpiredEffect
     DEF BeginRefund, At, rows, money
<1>6. ASSUME NEW r \in Requests, BeginSettle(r) PROVE FillFrame
  BY <1>0, <1>6, StartEffect, FinishEffect, GotoEffect, GotoExpiredEffect
     DEF BeginSettle, At, rows, money
<1>7. ASSUME NEW r \in Requests, MarkDisbanded(r) PROVE FillFrame
  BY <1>0, <1>7, StartEffect, FinishEffect, GotoEffect, GotoExpiredEffect
     DEF MarkDisbanded, At, rows, money
<1>8. ASSUME NEW r \in Requests, MarkDeleted(r) PROVE FillFrame
  BY <1>0, <1>8, StartEffect, FinishEffect, GotoEffect, GotoExpiredEffect
     DEF MarkDeleted, At, rows, money
<1>9. ASSUME NEW r \in Requests, Unfreeze(r) PROVE FillFrame
  BY <1>0, <1>9, StartEffect, FinishEffect, GotoEffect, GotoExpiredEffect
     DEF Unfreeze, At, rows, money
<1>10. ASSUME NEW r \in Requests, CreditBuyer(r) PROVE FillFrame
  BY <1>0, <1>10, StartEffect, FinishEffect, GotoEffect, GotoExpiredEffect
     DEF CreditBuyer, At, rows, money
<1>11. ASSUME NEW r \in Requests, Restore(r) PROVE FillFrame
  BY <1>0, <1>11, StartEffect, FinishEffect, GotoEffect, GotoExpiredEffect
     DEF Restore, At, rows, money
<1>12. ASSUME NEW r \in Requests, Leave(r) PROVE FillFrame
  <2>1. req[r].user \in Buyers /\ seat'[req[r].user] = "refunded"
    BY <1>0, <1>12 DEF Leave, TypeOK
  <2> QED
    BY <2>1 DEF NobodyLeft
<1>13. ASSUME NEW r \in Requests, PayPenalty(r) PROVE FillFrame
  BY <1>0, <1>13, StartEffect, FinishEffect, GotoEffect, GotoExpiredEffect
     DEF PayPenalty, At, rows, money
<1>14. ASSUME NEW r \in Requests, SettlePay(r) PROVE FillFrame
  BY <1>0, <1>14, StartEffect, FinishEffect, GotoEffect, GotoExpiredEffect
     DEF SettlePay, At, rows, money
<1>15. ASSUME NEW r \in Requests, SettleFinish(r) PROVE FillFrame
  BY <1>0, <1>15, StartEffect, FinishEffect, GotoEffect, GotoExpiredEffect
     DEF SettleFinish, At, rows, money
<1>16. ASSUME NEW r \in Requests, CloseRead(r) PROVE FillFrame
  <2>1. UNCHANGED <<order, seat>>
    BY <1>16 DEF CloseRead, rows, money
  <2> QED
    BY <1>0, <1>16, <2>1, CloseReadStep
<1>17. ASSUME NEW r \in Requests, CloseWrite(r) PROVE FillFrame
  BY <1>0, <1>17, StartEffect, FinishEffect, GotoEffect, GotoExpiredEffect
     DEF CloseWrite, At, rows, money
<1>18. CASE MarkPurchased
  BY <1>0, <1>18, StartEffect, FinishEffect, GotoEffect, GotoExpiredEffect
     DEF MarkPurchased, At, rows, money
<1>19. CASE SoftDelete
  BY <1>0, <1>19, StartEffect, FinishEffect, GotoEffect, GotoExpiredEffect
     DEF SoftDelete, At, rows, money
<1>20. CASE AutoBegin
  BY <1>0, <1>20, TaskEffect
     DEF AutoBegin, At, rows, money
<1>21. CASE ExpiryBegin
  BY <1>0, <1>21, TaskEffect
     DEF ExpiryBegin, At, rows, money
<1>22. ASSUME NEW b \in Buyers, AutoUnfreeze(b) PROVE FillFrame
  BY <1>0, <1>22, TaskEffect
     DEF AutoUnfreeze, At, rows, money
<1>23. CASE AutoCredit
  BY <1>0, <1>23, TaskEffect
     DEF AutoCredit, At, rows, money
<1>24. CASE AutoFinish
  BY <1>0, <1>24, TaskEffect
     DEF AutoFinish, At, rows, money
<1>25. CASE ExpiryWrite
  BY <1>0, <1>25, TaskEffect
     DEF ExpiryWrite, At, rows, money
<1>26. ASSUME NEW r \in Sessions, Crash(r) PROVE FillFrame
  BY <1>0, <1>26, StartEffect, FinishEffect, GotoEffect, GotoExpiredEffect
     DEF Crash, At, rows, money
<1> QED
  BY <1>1, <1>2, <1>3, <1>4, <1>5, <1>6, <1>7, <1>8, <1>9, <1>10, <1>11,
     <1>12, <1>13, <1>14, <1>15, <1>16, <1>17, <1>18, <1>19, <1>20, <1>21,
     <1>22, <1>23, <1>24, <1>25, <1>26
     DEF Next, Begin, Continue, ContinueTask, JoinStep

LEMMA PaidSize ==
  ASSUME TypeOK
  PROVE  IsFiniteSet(Paid) /\ Cardinality(Paid) \in Nat
<1>1. IsFiniteSet(Paid)
  BY EscrowAssumption, FS_Subset, Paid \subseteq Buyers DEF Paid
<1> QED
  BY <1>1, FS_CardinalityType

\* One more buyer has a paid seat.
LEMMA PaidGrows ==
  ASSUME TypeOK, NEW b \in Buyers, seat[b] = "none",
         seat' = [seat EXCEPT ![b] = "paid"]
  PROVE  Cardinality(Paid') = Cardinality(Paid) + 1
<1>1. Paid' = Paid \cup {b} /\ b \notin Paid
  BY DEF Paid, TypeOK
<1> QED
  BY <1>1, PaidSize, FS_AddElement

\* The steps of a request that joins which leave the rows as they are.
LEMMA JoiningEffect ==
  ASSUME TypeOK, NEW r \in Requests, JoinDebit(r) \/ JoinFreeze(r) \/ JoinCompensate(r)
  PROVE  /\ UNCHANGED rows
         /\ req[r].op = "join" /\ req[r].at # "purchase"
         /\ \A s \in Sessions \ {r} : req'[s] = req[s]
         /\ \/ req'[r].op = "idle"
            \/ /\ req'[r].op = "join" /\ req'[r].people = req[r].people
               /\ req'[r].at # "purchase"
<1>1. r \in Sessions /\ Idle.op = "idle"
  BY IdleType DEF Sessions
<1>2. CASE JoinDebit(r)
  BY <1>1, <1>2, FinishEffect, GotoEffect, GotoExpiredEffect DEF JoinDebit, At
<1>3. CASE JoinFreeze(r)
  BY <1>1, <1>3, FinishEffect, GotoEffect DEF JoinFreeze, At
<1>4. CASE JoinCompensate(r)
  BY <1>1, <1>4, FinishEffect DEF JoinCompensate, At
<1> QED
  BY <1>2, <1>3, <1>4

LEMMA JoinEnrolEffect ==
  ASSUME SeatInv, Filled, NEW r \in Requests, JoinEnrol(r)
  PROVE  /\ order' = [order EXCEPT !.people = order.people + 1]
         /\ order.people < TotalPeople
         /\ Cardinality(Paid') = Cardinality(Paid) + 1
         /\ \A s \in Requests \ {r} : req[s].op # "join" /\ req'[s] = req[s]
         /\ \/ req'[r].op = "idle"
            \/ req'[r].op = "join" /\ req'[r].at = "purchase" /\ order.people + 1 >= TotalPeople
<1>1. /\ r \in Sessions /\ Requests \subseteq Sessions /\ Idle.op = "idle" /\ TypeOK
      /\ req[r].op = "join" /\ req[r].at = "enrol" /\ req[r].user \in Buyers
  BY IdleType DEF Sessions, SeatInv, TypeOK, JoinEnrol, At
<1>2. seat[req[r].user] = "none"
  BY <1>1 DEF SeatInv, JoinInv, JoinFacts
<1>3. req[r].people = order.people /\ order.people < TotalPeople
  BY <1>1 DEF Filled, FillFacts
<1>4. Cardinality(Paid') = Cardinality(Paid) + 1
  BY <1>1, <1>2, PaidGrows DEF JoinEnrol
<1>5. \A s \in Requests \ {r} : req[s].op # "join"
  BY <1>1 DEF SeatInv, LocksHeld
<1>6. \A s \in Sessions \ {r} : req'[s] = req[s]
  BY <1>1, FinishEffect, GotoEffect DEF JoinEnrol
<1>7. \/ req'[r].op = "idle"
      \/ req'[r].op = "join" /\ req'[r].at = "purchase" /\ order.people + 1 >= TotalPeople
  BY <1>1, <1>3, FinishEffect, GotoEffect DEF JoinEnrol
<1> QED
  BY <1>1, <1>3, <1>4, <1>5, <1>6, <1>7 DEF JoinEnrol

LEMMA FilledStep ==
  SeatInv /\ order.kind = "normal" /\ Filled /\ [Next]_vars /\ NobodyLeft' => Filled'
<1> SUFFICES ASSUME SeatInv, order.kind = "normal", Filled, [Next]_vars, NobodyLeft'
             PROVE  Filled'
  OBVIOUS
<1>0. /\ TypeOK /\ Requests \subseteq Sessions /\ Idle.op = "idle"
      /\ order.kind = "normal" /\ order.people <= TotalPeople
      /\ Cardinality(Paid) <= order.people - 1
      /\ order.people \in Nat /\ TotalPeople \in Nat
      /\ \A r \in Requests : FillFacts(r)
  BY IdleType, EscrowAssumption DEF Sessions, SeatInv, Filled, TypeOK
<1>1. CASE FillFrame
  <2>1. Paid' \subseteq Paid
    BY <1>1 DEF FillFrame, Paid
  <2>2. Cardinality(Paid') <= Cardinality(Paid) /\ Cardinality(Paid') \in Nat
    BY <1>0, <2>1, PaidSize, FS_Subset, FS_CardinalityType
  <2>3. Cardinality(Paid)  \in Nat
    BY <1>0, PaidSize
  <2>4. Cardinality(Paid') <= order'.people - 1
    BY <1>0, <1>1, <2>2, <2>3 DEF FillFrame
  <2>5. ASSUME NEW r \in Requests PROVE FillFacts(r)'
    BY <1>0, <1>1 DEF FillFrame, FillFacts
  <2> QED
    BY <1>0, <1>1, <2>4, <2>5 DEF FillFrame, Filled
<1>2. ASSUME NEW r \in Requests, NEW b \in Buyers, BeginJoin(r, b) PROVE Filled'
  <2>1. /\ order' = order /\ Paid' = Paid /\ order.people < TotalPeople
    BY <1>0, <1>2 DEF BeginJoin, NormalJoinable, SpotJoinable, rows, Paid
  <2>2. /\ req'[r].op = "join" /\ req'[r].at = "debit" /\ req'[r].people = order.people
        /\ \A s \in Sessions \ {r} : req'[s] = req[s]
    BY <1>0, <1>2, StartEffect DEF BeginJoin
  <2>3. ASSUME NEW s \in Requests PROVE FillFacts(s)'
    BY <1>0, <2>1, <2>2 DEF FillFacts
  <2> QED
    BY <1>0, <2>1, <2>3 DEF Filled
<1>3. ASSUME NEW r \in Requests, JoinDebit(r) \/ JoinFreeze(r) \/ JoinCompensate(r)
      PROVE  Filled'
  <2>1. order' = order /\ Paid' = Paid
    BY <1>0, <1>3, JoiningEffect DEF rows, Paid
  <2>2. ASSUME NEW s \in Requests PROVE FillFacts(s)'
    BY <1>0, <1>3, <2>1, JoiningEffect DEF FillFacts
  <2> QED
    BY <1>0, <2>1, <2>2 DEF Filled
<1>4. ASSUME NEW r \in Requests, JoinEnrol(r) PROVE Filled'
  <2>1. order'.kind = order.kind /\ order'.people = order.people + 1
    BY <1>0, <1>4, JoinEnrolEffect DEF TypeOK
  <2>2. Cardinality(Paid') <= order'.people - 1 /\ order'.people <= TotalPeople
    BY <1>0, <1>4, <2>1, JoinEnrolEffect, PaidSize
  <2>3. ASSUME NEW s \in Requests PROVE FillFacts(s)'
    BY <1>0, <1>4, <2>1, JoinEnrolEffect DEF FillFacts
  <2> QED
    BY <1>0, <2>1, <2>2, <2>3 DEF Filled
<1>5. ASSUME NEW r \in Requests, JoinPurchase(r) PROVE Filled'
  <2>1. order'.kind = order.kind /\ order'.people = order.people /\ Paid' = Paid
    BY <1>0, <1>5 DEF JoinPurchase, TypeOK, Paid
  <2>2. req'[r].op = "idle" /\ \A s \in Sessions \ {r} : req'[s] = req[s]
    BY <1>0, <1>5, FinishEffect DEF JoinPurchase
  <2>3. ASSUME NEW s \in Requests PROVE FillFacts(s)'
    BY <1>0, <2>1, <2>2 DEF FillFacts
  <2> QED
    BY <1>0, <2>1, <2>3 DEF Filled
<1> QED
  BY <1>0, FillFrameStep, <1>1, <1>2, <1>3, <1>4, <1>5 DEF JoinStep

\* The kind of an order does not change.
LEMMA KindStays == TypeOK /\ [Next]_vars => order'.kind = order.kind
<1> SUFFICES ASSUME TypeOK, [Next]_vars PROVE order'.kind = order.kind
  OBVIOUS
<1>0. order \in [kind : {"normal", "spot"}, status : Statuses, people : Nat \ {0},
                 deleted : BOOLEAN, expired : BOOLEAN]
  BY DEF TypeOK
<1>1. ASSUME NEW r \in Requests, Begin(r) PROVE order'.kind = order.kind
  BY <1>0, <1>1 DEF Begin, BeginJoin, BeginQuit, BeginRefund, BeginSettle, MarkDisbanded,
                    MarkDeleted, rows
<1>2. ASSUME NEW r \in Requests, Continue(r) PROVE order'.kind = order.kind
  BY <1>0, <1>2 DEF Continue, JoinDebit, JoinFreeze, JoinCompensate, JoinEnrol, JoinPurchase,
                    Unfreeze, CreditBuyer, Restore, PayPenalty, Leave, SettlePay, SettleFinish,
                    CloseRead, CloseWrite, rows
<1>3. ASSUME AutoBegin \/ ExpiryBegin \/ ContinueTask PROVE order'.kind = order.kind
  BY <1>0, <1>3 DEF AutoBegin, ExpiryBegin, ContinueTask, AutoUnfreeze, AutoCredit, AutoFinish,
                    ExpiryWrite, rows
<1>4. ASSUME \/ DeadlinePasses \/ MarkPurchased \/ SoftDelete \/ UNCHANGED vars
             \/ \E u \in Buyers : Withdraw(u)
             \/ \E r \in Sessions : Crash(r)
      PROVE  order'.kind = order.kind
  BY <1>0, <1>4 DEF DeadlinePasses, MarkPurchased, SoftDelete, Withdraw, Crash, rows, vars
<1> QED
  BY <1>1, <1>2, <1>3, <1>4 DEF Next

LEMMA FillInvStep == SeatInv /\ FillInv /\ [Next]_vars => FillInv'
BY LeftStays, KindStays, FilledStep DEF FillInv, SeatInv

LEMMA FillInvInit ==
  ASSUME "spot" \notin Kinds
  PROVE  Init => FillInv
<1> SUFFICES ASSUME Init PROVE FillInv
  OBVIOUS
<1>1. NewNormal
  BY DEF Init
<1>2. Paid = {}
  BY DEF Init, Paid
<1>3. Cardinality(Paid) = 0
  BY <1>2, FS_EmptySet
<1>4. \A r \in Requests : req[r].op = "idle"
  BY IdleType DEF Init, Sessions
<1> QED
  BY <1>1, <1>3, <1>4, EscrowAssumption DEF NewNormal, FillInv, Filled, FillFacts

\* No two buyers are sold the last seat of a normal order, whatever requests race,
\* fail or die, while the order is disbanded, and while buyers are on their way out:
\* the lock of join_order and the number counted under it see to it until the first
\* has left.
THEOREM NobodyOversold ==
  ASSUME "spot" \notin Kinds
  PROVE  Spec => []NoOversell
<1>1. Init => FillInv
  BY FillInvInit
<1>2. SeatInv /\ FillInv /\ [Next]_vars => FillInv'
  BY FillInvStep
<1>3. SeatInv /\ FillInv => NoOversell
  <2> SUFFICES ASSUME SeatInv, FillInv, NobodyLeft
               PROVE  Cardinality(Paid) <= TotalPeople - 1
    BY DEF NoOversell
  <2>1. Cardinality(Paid) \in Nat /\ order.people \in Nat /\ TotalPeople \in Nat
    BY PaidSize, EscrowAssumption DEF SeatInv, TypeOK
  <2> QED
    BY <2>1 DEF FillInv, Filled
<1> QED
  BY <1>1, <1>2, <1>3, SeatInvInit, SeatInvStep, PTL DEF Spec

-----------------------------------------------------------------------------
(* The escrow of a normal order covers its paid seats, until a buyer is paid *)
(* back.                                                                     *)

\* A release that has been posted stays so.
LEMMA ReleaseStays == TypeOK /\ [Next]_vars /\ NothingReleased' => NothingReleased
<1> SUFFICES ASSUME TypeOK, [Next]_vars, NothingReleased',
                    NEW b \in Buyers, NEW op \in {"quit", "refund", "disband"}
             PROVE  paylog[b][<<op, "freeze_decr">>] = 0
  BY DEF NothingReleased, Posted
<1>1. <<op, "freeze_decr">> \in Keys
  BY KeysOf
<1>2. paylog'[b][<<op, "freeze_decr">>] = 0
  BY DEF NothingReleased, Posted
<1> QED
  BY <1>1, <1>2, NothingUndoneStep DEF NothingUndone

\* Every counted buyer has a paid seat; the code is made for a full order; until
\* it is used the escrow covers the paid seats, and the one that is being taken.
Covered ==
  /\ order.people - 1 <= Cardinality(Paid)
  /\ order.status = "PURCHASING" \/ code # "absent" => order.people = TotalPeople
  /\ frozen >= OtherEscrow
  /\ code # "used" => /\ frozen >= OtherEscrow + Price * Cardinality(Paid)
                      /\ \A r \in Requests : At(r, "join", "enrol") =>
                           frozen >= OtherEscrow + Price * (Cardinality(Paid) + 1)

CoverInv == NobodyLeft /\ NothingReleased => Covered

\* No money leaves the escrow, no seat is paid for and no code made.
CoverFrame ==
  /\ \A b \in Buyers : seat'[b] = "paid" <=> seat[b] = "paid"
  /\ order'.status = "PURCHASING" => order.status = "PURCHASING"
  /\ code' = code /\ frozen' >= frozen /\ frozen' \in Int

LEMMA CoverFrameStep ==
  TypeOK /\ NoClosing /\ NobodyLeft' /\ NothingReleased' /\ [Next]_vars =>
    \/ CoverFrame
    \/ MarkPurchased
    \/ \E r \in Requests : JoinStep(r) \/ SettlePay(r)
<1> SUFFICES ASSUME TypeOK, NoClosing, NobodyLeft', NothingReleased', [Next]_vars,
                    ~MarkPurchased, \A r \in Requests : ~JoinStep(r) /\ ~SettlePay(r)
             PROVE  CoverFrame
  OBVIOUS
<1> USE DEF CoverFrame
<1>0. /\ order \in [kind : {"normal", "spot"}, status : Statuses, people : Nat \ {0},
                    deleted : BOOLEAN, expired : BOOLEAN]
      /\ \A r \in Requests : req[r].op # "close"
      /\ frozen \in Int /\ Price \in Nat /\ Price > 0
      /\ \A r \in Requests : req[r].op \in {"join", "quit", "refund"} => req[r].user \in Buyers
  BY PricePositive DEF TypeOK, NoClosing
\* a release would have been posted
<1>a. \A b \in Buyers : \A op \in {"quit", "refund", "disband"} : ~Post(b, <<op, "freeze_decr">>, -Price)
  <2> SUFFICES ASSUME NEW b \in Buyers, NEW op \in {"quit", "refund", "disband"},
                      Post(b, <<op, "freeze_decr">>, -Price)
               PROVE  FALSE
    OBVIOUS
  <2>1. <<op, "freeze_decr">> \in Keys /\ -Price \in Int /\ -Price # 0
    BY <1>0, KeysOf
  <2>2. paylog'[b][<<op, "freeze_decr">>] = -Price
    BY <2>1 DEF TypeOK, Post
  <2>3. paylog'[b][<<op, "freeze_decr">>] = 0
    BY DEF NothingReleased, Posted
  <2> QED
    BY <2>1, <2>2, <2>3
<1>1. CASE UNCHANGED vars
  BY <1>0, <1>1 DEF vars
<1>2. CASE DeadlinePasses
  BY <1>0, <1>2 DEF DeadlinePasses, At, rows, money
<1>3. ASSUME NEW b \in Buyers, Withdraw(b) PROVE CoverFrame
  BY <1>0, <1>3 DEF Withdraw, At, rows, money
<1>4. ASSUME NEW r \in Requests, NEW b \in Buyers, BeginQuit(r, b) PROVE CoverFrame
  BY <1>0, <1>4 DEF BeginQuit, At, rows, money
<1>5. ASSUME NEW r \in Requests, NEW b \in Buyers, BeginRefund(r, b) PROVE CoverFrame
  BY <1>0, <1>5 DEF BeginRefund, At, rows, money
<1>6. ASSUME NEW r \in Requests, BeginSettle(r) PROVE CoverFrame
  BY <1>0, <1>6 DEF BeginSettle, At, rows, money
<1>7. ASSUME NEW r \in Requests, MarkDisbanded(r) PROVE CoverFrame
  BY <1>0, <1>7 DEF MarkDisbanded, At, rows, money
<1>8. ASSUME NEW r \in Requests, MarkDeleted(r) PROVE CoverFrame
  BY <1>0, <1>8 DEF MarkDeleted, At, rows, money
<1>9. ASSUME NEW r \in Requests, Unfreeze(r) PROVE CoverFrame
  BY <1>0, <1>a, <1>9 DEF Unfreeze, rows
<1>10. ASSUME NEW r \in Requests, CreditBuyer(r) PROVE CoverFrame
  BY <1>0, <1>10 DEF CreditBuyer, At, rows, money
<1>11. ASSUME NEW r \in Requests, Restore(r) PROVE CoverFrame
  BY <1>0, <1>11 DEF Restore, At, rows, money
<1>12. ASSUME NEW r \in Requests, PayPenalty(r) PROVE CoverFrame
  BY <1>0, <1>12 DEF PayPenalty, At, rows, money
<1>13. ASSUME NEW r \in Requests, Leave(r) PROVE CoverFrame
  <2>1. req[r].user \in Buyers /\ seat'[req[r].user] = "refunded"
    BY <1>0, <1>13 DEF Leave, TypeOK
  <2> QED
    BY <2>1 DEF NobodyLeft
<1>14. ASSUME NEW r \in Requests, SettleFinish(r) PROVE CoverFrame
  BY <1>0, <1>14 DEF SettleFinish, At, rows, money
<1>15. ASSUME NEW r \in Requests, CloseRead(r) PROVE CoverFrame
  BY <1>0, <1>15 DEF CloseRead, At, rows, money
<1>16. ASSUME NEW r \in Requests, CloseWrite(r) PROVE CoverFrame
  BY <1>0, <1>16 DEF CloseWrite, At, rows, money
<1>17. CASE SoftDelete
  BY <1>0, <1>17 DEF SoftDelete, At, rows, money
<1>18. CASE AutoBegin
  BY <1>0, <1>18 DEF AutoBegin, At, rows, money
<1>19. CASE ExpiryBegin
  BY <1>0, <1>19 DEF ExpiryBegin, At, rows, money
<1>20. ASSUME NEW b \in Buyers, AutoUnfreeze(b) PROVE CoverFrame
  BY <1>0, <1>a, <1>20 DEF AutoUnfreeze, rows
<1>21. CASE AutoCredit
  BY <1>0, <1>21 DEF AutoCredit, At, rows, money
<1>22. CASE AutoFinish
  BY <1>0, <1>22 DEF AutoFinish, At, rows, money
<1>23. CASE ExpiryWrite
  BY <1>0, <1>23 DEF ExpiryWrite, At, rows, money
<1>24. ASSUME NEW r \in Sessions, Crash(r) PROVE CoverFrame
  BY <1>0, <1>24 DEF Crash, At, rows, money
<1> QED
  BY <1>1, <1>2, <1>3, <1>4, <1>5, <1>6, <1>7, <1>8, <1>9, <1>10, <1>11,
     <1>12, <1>13, <1>14, <1>15, <1>16, <1>17, <1>18, <1>19, <1>20, <1>21,
     <1>22, <1>23, <1>24
     DEF Next, Begin, Continue, ContinueTask, JoinStep

\* What a sum of prices is, for the prover.
LEMMA PriceTimes ==
  ASSUME NEW n \in Nat
  PROVE  /\ Price * n \in Nat /\ Price * (n + 1) = Price * n + Price
         /\ Price * (n + 1) \in Nat
BY PricePositive

\* A full order has a buyer in each of its seats.
LEMMA FullOrder ==
  ASSUME TypeOK, order.kind = "normal", Filled, Covered, code # "absent"
  PROVE  Total = Price * Cardinality(Paid)
<1>1. Cardinality(Paid) \in Nat /\ order.people \in Nat /\ TotalPeople \in Nat
  BY PaidSize, EscrowAssumption DEF TypeOK
<1>2. Cardinality(Paid) = TotalPeople - 1 /\ order.kind = "normal"
  BY <1>1 DEF Filled, Covered
<1> QED
  BY <1>2 DEF Total

LEMMA CoveredStep ==
  SeatInv /\ CodeInv /\ NoClosing /\ order.kind = "normal" /\ Filled /\ Covered
    /\ [Next]_vars /\ NobodyLeft' /\ NothingReleased' => Covered'
<1> SUFFICES ASSUME SeatInv, CodeInv, NoClosing, order.kind = "normal", Filled, Covered,
                    [Next]_vars, NobodyLeft', NothingReleased'
             PROVE  Covered'
  OBVIOUS
<1>0. /\ TypeOK /\ Requests \subseteq Sessions /\ Idle.op = "idle"
      /\ order \in [kind : {"normal", "spot"}, status : Statuses, people : Nat \ {0},
                    deleted : BOOLEAN, expired : BOOLEAN]
      /\ frozen \in Int /\ OtherEscrow \in Nat /\ Price \in Nat /\ TotalPeople \in Nat
      /\ Cardinality(Paid) \in Nat
  BY IdleType, EscrowAssumption, PricePositive, PaidSize DEF Sessions, SeatInv, TypeOK
<1>a. /\ order.people - 1 <= Cardinality(Paid)
      /\ order.status = "PURCHASING" \/ code # "absent" => order.people = TotalPeople
      /\ frozen >= OtherEscrow
      /\ code # "used" => /\ frozen >= OtherEscrow + Price * Cardinality(Paid)
                          /\ \A r \in Requests : At(r, "join", "enrol") =>
                               frozen >= OtherEscrow + Price * (Cardinality(Paid) + 1)
  BY DEF Covered
<1>b. \A r \in Requests : FillFacts(r)
  BY DEF Filled
<1>1. CASE CoverFrame /\ FillFrame
  <2>1. Paid' = Paid
    BY <1>1 DEF CoverFrame, Paid
  <2>2. \A r \in Requests : At(r, "join", "enrol")' => At(r, "join", "enrol")
    BY <1>1 DEF FillFrame, At
  <2> QED
    BY <1>0, <1>a, <1>1, <2>1, <2>2, PriceTimes DEF CoverFrame, FillFrame, Covered
<1>2. CASE MarkPurchased
  <2>1. /\ order.people = TotalPeople /\ order'.people = order.people
        /\ Paid' = Paid /\ frozen' = frozen /\ req' = req
        /\ code' = IF code = "absent" THEN "unused" ELSE code
    BY <1>0, <1>a, <1>2 DEF MarkPurchased, money, Paid
  <2> QED
    BY <1>a, <2>1 DEF Covered, At
<1>3. ASSUME NEW r \in Requests, NEW b \in Buyers, BeginJoin(r, b) PROVE Covered'
  <2>1. order' = order /\ Paid' = Paid /\ frozen' = frozen /\ code' = code
    BY <1>3 DEF BeginJoin, rows, money, Paid
  <2>2. req'[r].at = "debit" /\ \A s \in Sessions \ {r} : req'[s] = req[s]
    BY <1>0, <1>3, StartEffect DEF BeginJoin
  <2>3. \A s \in Requests : At(s, "join", "enrol")' => At(s, "join", "enrol")
    BY <1>0, <2>2 DEF At
  <2> QED
    BY <1>a, <2>1, <2>3 DEF Covered
<1>4. ASSUME NEW r \in Requests, JoinDebit(r) \/ JoinCompensate(r) PROVE Covered'
  <2>1. order' = order /\ Paid' = Paid /\ frozen' = frozen /\ code' = code
    BY <1>4 DEF JoinDebit, JoinCompensate, rows, Paid
  <2>2. req'[r].at # "enrol" /\ \A s \in Sessions \ {r} : req'[s] = req[s]
    <3>1. Idle.at = "idle"
      BY DEF Idle
    <3>2. CASE JoinDebit(r)
      BY <1>0, <3>1, <3>2, FinishEffect, GotoEffect, GotoExpiredEffect DEF JoinDebit
    <3>3. CASE JoinCompensate(r)
      BY <1>0, <3>1, <3>3, FinishEffect DEF JoinCompensate
    <3> QED
      BY <1>4, <3>2, <3>3
  <2>3. \A s \in Requests : At(s, "join", "enrol")' => At(s, "join", "enrol")
    BY <1>0, <2>2 DEF At
  <2> QED
    BY <1>a, <2>1, <2>3 DEF Covered
<1>5. ASSUME NEW r \in Requests, JoinFreeze(r) PROVE Covered'
  <2>1. order' = order /\ Paid' = Paid /\ code' = code
    BY <1>5 DEF JoinFreeze, rows, Paid
  <2>2. \A s \in Sessions \ {r} : req'[s] = req[s]
    BY <1>0, <1>5, FinishEffect, GotoEffect DEF JoinFreeze
  <2>3. CASE frozen' = frozen + Price
    <3>1. code # "used" => frozen' >= OtherEscrow + Price * (Cardinality(Paid) + 1)
      BY <1>0, <1>a, <2>3, PriceTimes
    <3>2. code # "used" => frozen' >= OtherEscrow + Price * Cardinality(Paid)
      BY <1>0, <1>a, <2>3, PriceTimes
    <3>3. frozen' >= OtherEscrow
      BY <1>0, <1>a, <2>3
    <3> QED
      BY <1>a, <2>1, <3>1, <3>2, <3>3 DEF Covered
  <2>4. CASE Goto(r, "compensate") /\ frozen' = frozen
    <3>1. \A s \in Requests : At(s, "join", "enrol")' => At(s, "join", "enrol")
      BY <1>0, <2>2, <2>4, GotoEffect DEF At
    <3> QED
      BY <1>a, <2>1, <2>4, <3>1 DEF Covered
  <2> QED
    BY <1>5, <2>3, <2>4 DEF JoinFreeze
<1>6. ASSUME NEW r \in Requests, JoinEnrol(r) PROVE Covered'
  <2>1. /\ order'.people = order.people + 1 /\ order'.status = order.status
        /\ order.people < TotalPeople
        /\ Cardinality(Paid') = Cardinality(Paid) + 1
        /\ \A s \in Requests \ {r} : req[s].op # "join" /\ req'[s] = req[s]
        /\ req'[r].op = "idle" \/ req'[r].at = "purchase"
    BY <1>0, <1>6, JoinEnrolEffect
  <2>2. At(r, "join", "enrol") /\ frozen' = frozen /\ code' = code
    BY <1>6 DEF JoinEnrol, money
  <2>3. code = "absent" /\ order.status # "PURCHASING"
    BY <1>0, <1>a, <2>1
  <2>4. frozen' >= OtherEscrow + Price * Cardinality(Paid')
    BY <1>a, <2>1, <2>2, <2>3
  <2>5. \A s \in Requests : ~At(s, "join", "enrol")'
    BY <2>1 DEF At
  <2>6. order'.people - 1 <= Cardinality(Paid')
    BY <1>0, <1>a, <2>1
  <2> QED
    BY <1>a, <2>1, <2>2, <2>3, <2>4, <2>5, <2>6 DEF Covered
<1>7. ASSUME NEW r \in Requests, JoinPurchase(r) PROVE Covered'
  <2>1. order.people = TotalPeople
    BY <1>b, <1>7 DEF JoinPurchase, At, FillFacts
  <2>2. order'.people = order.people /\ Paid' = Paid /\ frozen' = frozen /\ code' = code
    BY <1>0, <1>7 DEF JoinPurchase, money, Paid
  <2>3. \A s \in Requests : At(s, "join", "enrol")' => At(s, "join", "enrol")
    BY <1>0, <1>7, FinishEffect DEF JoinPurchase, At
  <2> QED
    BY <1>a, <2>1, <2>2, <2>3 DEF Covered
<1>8. ASSUME NEW r \in Requests, SettlePay(r) PROVE Covered'
  <2>1. order' = order /\ Paid' = Paid
    BY <1>8 DEF SettlePay, Paid
  <2>2. \A s \in Requests : At(s, "join", "enrol")' => At(s, "join", "enrol")
    BY <1>0, <1>8, FinishEffect, GotoEffect DEF SettlePay, At
  <2>3. CASE frozen' = frozen - Total /\ code' = "used"
    <3>1. code = "unused"
      BY <1>8 DEF CodeInv, SettleFacts, SettlePay, At
    <3>2. Total = Price * Cardinality(Paid)
      BY <1>0, <3>1, FullOrder
    <3>3. frozen' >= OtherEscrow
      BY <1>0, <1>a, <2>3, <3>1, <3>2, PriceTimes
    <3> QED
      BY <1>a, <2>1, <2>3, <3>1, <3>3 DEF Covered
  <2>4. CASE frozen' = frozen /\ code' = code
    BY <1>a, <2>1, <2>2, <2>4 DEF Covered
  <2> QED
    BY <1>8, <2>3, <2>4 DEF SettlePay
<1> QED
  BY <1>0, CoverFrameStep, FillFrameStep, <1>1, <1>2, <1>3, <1>4, <1>5, <1>6, <1>7, <1>8
     DEF JoinStep

LEMMA CoverInvStep ==
  SeatInv /\ FillInv /\ CodeInv /\ NoClosing /\ CoverInv /\ [Next]_vars => CoverInv'
<1> SUFFICES ASSUME SeatInv, FillInv, CodeInv, NoClosing, CoverInv, [Next]_vars,
                    NobodyLeft', NothingReleased'
             PROVE  Covered'
  BY DEF CoverInv
<1>1. NobodyLeft /\ NothingReleased
  BY LeftStays, ReleaseStays DEF SeatInv
<1>2. order.kind = "normal" /\ Filled /\ Covered
  BY <1>1 DEF FillInv, CoverInv
<1> QED
  BY <1>2, CoveredStep

\* Until a buyer is paid back, the escrow holds the price of every paid seat until
\* the settlement has paid it out, which never draws on the escrow of the creator's
\* other orders - whatever requests race, fail or die.
THEOREM EscrowIsEnough ==
  ASSUME "spot" \notin Kinds, "disband" \notin Ops, "delete" \notin Ops
  PROVE  Spec => []EscrowCoversSeats
<1>1. Init => FillInv /\ NoClosing /\ CoverInv
  <2> SUFFICES ASSUME Init PROVE FillInv /\ NoClosing /\ CoverInv
    OBVIOUS
  <2>1. FillInv
    BY FillInvInit
  <2>2. Paid = {} /\ NewNormal /\ frozen = OtherEscrow
    BY DEF Init, Paid
  <2>3. Cardinality(Paid) = 0
    BY <2>2, FS_EmptySet
  <2>4. \A s \in Sessions : req[s].op = "idle"
    BY IdleType DEF Init
  <2>5. NoClosing
    BY <2>4 DEF NoClosing, Sessions
  <2>6. Covered
    BY <2>2, <2>3, <2>4, EscrowAssumption, PricePositive DEF Covered, NewNormal, At, Sessions
  <2> QED
    BY <2>1, <2>5, <2>6 DEF CoverInv
<1>2. SeatInv /\ FillInv /\ [Next]_vars => FillInv'
  BY FillInvStep
<1>3. SeatInv /\ NoClosing /\ [Next]_vars => NoClosing'
  BY NoClosingStep DEF SeatInv
<1>4. Init => CodeInv
  BY CodeInvInit
<1>5. SeatInv /\ CodeInv /\ [Next]_vars => CodeInv'
  BY CodeInvStep DEF SeatInv
<1>6. SeatInv /\ FillInv /\ CodeInv /\ NoClosing /\ CoverInv /\ [Next]_vars => CoverInv'
  BY CoverInvStep
<1>7. CoverInv => EscrowCoversSeats
  BY EscrowAssumption DEF CoverInv, Covered, EscrowCoversSeats
<1> QED
  BY <1>1, <1>2, <1>3, <1>4, <1>5, <1>6, <1>7, SeatInvInit, SeatInvStep, PTL DEF Spec

-----------------------------------------------------------------------------
(* Sums of integers over finite sets *)

\* What SumFunctionOnSet computes along the way to the sum of f over S.
Iterates(f, S, g) ==
  g = [s \in SUBSET S |->
         IF s = {} THEN 0
         ELSE LET x == CHOOSE x \in s : TRUE IN f[x] + g[s \ {x}]]

\* What holds of the empty set, and of a set if it holds of the set less any of
\* its elements, holds of every subset of a finite set.
LEMMA SubsetInduction ==
  ASSUME NEW S, IsFiniteSet(S), NEW Good,
         \A T \in SUBSET S : (\A x \in T : T \ {x} \in Good) => T \in Good
  PROVE  SUBSET S \subseteq Good
<1> DEFINE Bad == (SUBSET S) \ Good
<1> SUFFICES ASSUME Bad # {} PROVE FALSE
  OBVIOUS
<1>1. IsWellFoundedOn(StrictSubsetOrdering(S), SUBSET S)
  <2>1. IsWellFoundedOn(StrictSubsetOrdering(S), FiniteSubsetsOf(S))
    BY FS_StrictSubsetOrderingWellFounded
  <2>2. FiniteSubsetsOf(S) = SUBSET S
    BY FS_FiniteSubsetsOfFinite
  <2> QED
    BY <2>1, <2>2
<1>2. PICK T \in Bad : \A U \in Bad : ~(<<U, T>> \in StrictSubsetOrdering(S))
  BY <1>1, WFMin
<1>3. \A x \in T : T \ {x} \in Good
  <2> SUFFICES ASSUME NEW x \in T, T \ {x} \notin Good PROVE FALSE
    OBVIOUS
  <2>1. T \ {x} \in Bad /\ T \ {x} \subseteq T /\ T \ {x} # T
    BY <1>2
  <2>2. <<T \ {x}, T>> \in StrictSubsetOrdering(S)
    BY <1>2, <2>1 DEF StrictSubsetOrdering
  <2> QED
    BY <1>2, <2>1, <2>2
<1> QED
  BY <1>2, <1>3

LEMMA IteratesValue ==
  ASSUME NEW f, NEW S, NEW g, Iterates(f, S, g), NEW s \in SUBSET S, s # {}
  PROVE  \E x \in s : x = (CHOOSE y \in s : TRUE) /\ g[s] = f[x] + g[s \ {x}]
<1> DEFINE x == CHOOSE y \in s : TRUE
<1>1. x \in s
  OBVIOUS
<1>2. g[s] = f[x] + g[s \ {x}]
  BY DEF Iterates
<1> QED
  BY <1>1, <1>2

\* The value at a set does not depend on the set one started from.
LEMMA IteratesUnique ==
  ASSUME NEW f, NEW S, NEW T, NEW g, NEW h, Iterates(f, S, g), Iterates(f, T, h),
         NEW s, s \subseteq S, s \subseteq T, IsFiniteSet(s)
  PROVE  g[s] = h[s]
<1> DEFINE Good == {t \in SUBSET s : g[t] = h[t]}
<1>1. ASSUME NEW t \in SUBSET s, \A x \in t : t \ {x} \in Good
      PROVE  t \in Good
  <2>1. CASE t = {}
    BY <2>1 DEF Iterates
  <2>2. CASE t # {}
    <3>1. PICK x \in t : x = (CHOOSE y \in t : TRUE) /\ g[t] = f[x] + g[t \ {x}]
      BY <2>2, IteratesValue
    <3>2. PICK z \in t : z = (CHOOSE y \in t : TRUE) /\ h[t] = f[z] + h[t \ {z}]
      BY <2>2, IteratesValue
    <3> QED
      BY <1>1, <3>1, <3>2
  <2> QED
    BY <2>1, <2>2
<1> HIDE DEF Good
<1>2. SUBSET s \subseteq Good
  BY <1>1, SubsetInduction
<1> QED
  BY <1>2 DEF Good

LEMMA IteratesExists ==
  ASSUME NEW f, NEW S, IsFiniteSet(S)
  PROVE  \E g : Iterates(f, S, g)
<1> DEFINE Good == {T \in SUBSET S : \E g : Iterates(f, T, g)}
<1>1. ASSUME NEW T \in SUBSET S, \A x \in T : T \ {x} \in Good
      PROVE  T \in Good
  <2> DEFINE of(x)  == CHOOSE g : Iterates(f, T \ {x}, g)
             least  == CHOOSE x \in T : TRUE
             out(s) == CHOOSE x \in T : x \notin s
             g == [s \in SUBSET T |->
                     IF s = T THEN IF s = {} THEN 0 ELSE f[least] + of(least)[T \ {least}]
                     ELSE of(out(s))[s]]
  <2>1. \A x \in T : Iterates(f, T \ {x}, of(x))
    BY <1>1
  <2>2. IsFiniteSet(T)
    BY FS_Subset
  <2>3. \A s \in SUBSET T : s # T => out(s) \in T /\ out(s) \notin s
    OBVIOUS
  <2>4. ASSUME NEW s \in SUBSET T, s # {}, NEW x, x = CHOOSE y \in s : TRUE
        PROVE  g[s] = f[x] + g[s \ {x}]
    <3>1. x \in s /\ s \ {x} # T /\ s \ {x} \in SUBSET T /\ IsFiniteSet(s \ {x})
      BY <2>2, <2>4, FS_Subset
    <3>2. g[s \ {x}] = of(out(s \ {x}))[s \ {x}]
      BY <3>1
    <3>3. out(s \ {x}) \in T /\ out(s \ {x}) \notin s \ {x}
      BY <2>3, <3>1
    <3>4. CASE s = T
      <4>1. g[s] = f[x] + of(x)[s \ {x}]
        BY <2>4, <3>4
      <4> HIDE DEF of, out, g
      <4>2. of(x)[s \ {x}] = of(out(s \ {x}))[s \ {x}]
        BY <2>1, <3>1, <3>3, <3>4, IteratesUnique
      <4> QED
        BY <3>2, <4>1, <4>2
    <3>5. CASE s # T
      <4>1. g[s] = of(out(s))[s]
        BY <3>5
      <4>2. out(s) \in T /\ out(s) \notin s
        BY <2>3, <3>5
      <4> HIDE DEF of, out, g
      <4>3. Iterates(f, T \ {out(s)}, of(out(s))) /\ s \in SUBSET (T \ {out(s)})
        BY <2>1, <4>2
      <4>4. PICK z \in s : /\ z = (CHOOSE y \in s : TRUE)
                           /\ of(out(s))[s] = f[z] + of(out(s))[s \ {z}]
        BY <2>4, <4>3, IteratesValue
      <4>5. z = x
        BY <2>4, <4>4
      <4>6. /\ s \ {x} \subseteq T \ {out(s)} /\ s \ {x} \subseteq T \ {out(s \ {x})}
            /\ Iterates(f, T \ {out(s \ {x})}, of(out(s \ {x})))
        BY <2>1, <3>1, <3>3, <4>3
      <4>7. of(out(s))[s \ {x}] = of(out(s \ {x}))[s \ {x}]
        <5> DEFINE T1 == T \ {out(s)}
                   T2 == T \ {out(s \ {x})}
                   g1 == of(out(s))
                   g2 == of(out(s \ {x}))
                   t  == s \ {x}
        <5>1. Iterates(f, T1, g1) /\ Iterates(f, T2, g2)
          BY <4>3, <4>6
        <5>2. t \subseteq T1 /\ t \subseteq T2 /\ IsFiniteSet(t)
          BY <3>1, <4>6
        <5> HIDE DEF T1, T2, g1, g2, t
        <5>3. g1[t] = g2[t]
          BY <5>1, <5>2, IteratesUnique
        <5> QED
          BY <5>3 DEF g1, g2, t
      <4> QED
        BY <3>2, <4>1, <4>4, <4>5, <4>7
    <3> QED
      BY <3>4, <3>5
  <2>5. g[{}] = 0
    <3>1. CASE T = {}
      BY <3>1
    <3>2. CASE T # {}
      <4>1. g[{}] = of(out({}))[{}] /\ out({}) \in T
        BY <2>3, <3>2
      <4> HIDE DEF of, out, g
      <4> QED
        BY <2>1, <4>1 DEF Iterates
    <3> QED
      BY <3>1, <3>2
  <2>6. DOMAIN g = SUBSET T /\ g = [s \in SUBSET T |-> g[s]]
    OBVIOUS
  <2> HIDE DEF g
  <2>7. Iterates(f, T, g)
    BY <2>4, <2>5, <2>6 DEF Iterates
  <2> QED
    BY <2>7
<1> HIDE DEF Good
<1>2. S \in Good
  BY <1>1, SubsetInduction
<1> QED
  BY <1>2 DEF Good

LEMMA SumIterates ==
  ASSUME NEW f, NEW S, IsFiniteSet(S)
  PROVE  \E g : Iterates(f, S, g) /\ SumFunctionOnSet(f, S) = g[S]
<1> DEFINE g == CHOOSE g : Iterates(f, S, g)
<1>1. Iterates(f, S, g)
  BY IteratesExists
<1>2. SumFunctionOnSet(f, S) = g[S]
  BY DEF SumFunctionOnSet, FoldFunctionOnSet, MapThenFoldSet, Iterates
<1> QED
  BY <1>1, <1>2

LEMMA SumType ==
  ASSUME NEW f, NEW S, IsFiniteSet(S), \A x \in S : f[x] \in Int
  PROVE  SumFunctionOnSet(f, S) \in Int
<1>1. PICK g : Iterates(f, S, g) /\ SumFunctionOnSet(f, S) = g[S]
  BY SumIterates
<1> DEFINE Good == {T \in SUBSET S : g[T] \in Int}
<1>2. ASSUME NEW T \in SUBSET S, \A x \in T : T \ {x} \in Good
      PROVE  T \in Good
  <2>1. CASE T = {}
    BY <1>1, <2>1 DEF Iterates
  <2>2. CASE T # {}
    <3>1. PICK x \in T : g[T] = f[x] + g[T \ {x}]
      BY <1>1, <2>2, IteratesValue
    <3> QED
      BY <1>2, <3>1
  <2> QED
    BY <2>1, <2>2
<1> HIDE DEF Good
<1>3. S \in Good
  BY <1>2, SubsetInduction
<1> QED
  BY <1>1, <1>3 DEF Good

\* Nothing adds up to nothing.
LEMMA SumZero ==
  ASSUME NEW f, NEW S, IsFiniteSet(S), \A x \in S : f[x] = 0
  PROVE  SumFunctionOnSet(f, S) = 0
<1>1. PICK g : Iterates(f, S, g) /\ SumFunctionOnSet(f, S) = g[S]
  BY SumIterates
<1> DEFINE Good == {T \in SUBSET S : g[T] = 0}
<1>2. ASSUME NEW T \in SUBSET S, \A x \in T : T \ {x} \in Good
      PROVE  T \in Good
  <2>1. CASE T = {}
    BY <1>1, <2>1 DEF Iterates
  <2>2. CASE T # {}
    <3>1. PICK x \in T : g[T] = f[x] + g[T \ {x}]
      BY <1>1, <2>2, IteratesValue
    <3> QED
      BY <1>2, <3>1
  <2> QED
    BY <2>1, <2>2
<1> HIDE DEF Good
<1>3. S \in Good
  BY <1>2, SubsetInduction
<1> QED
  BY <1>1, <1>3 DEF Good

\* What one value changes by, the sum changes by.
LEMMA SumChange ==
  ASSUME NEW f, NEW g, NEW S, IsFiniteSet(S), NEW y \in S,
         \A x \in S : f[x] \in Int /\ g[x] \in Int,
         \A x \in S \ {y} : g[x] = f[x]
  PROVE  SumFunctionOnSet(g, S) = SumFunctionOnSet(f, S) - f[y] + g[y]
<1>1. PICK h : Iterates(f, S, h) /\ SumFunctionOnSet(f, S) = h[S]
  BY SumIterates
<1>2. PICK k : Iterates(g, S, k) /\ SumFunctionOnSet(g, S) = k[S]
  BY SumIterates
<1> DEFINE Good == {T \in SUBSET S :
                      /\ h[T] \in Int /\ k[T] \in Int
                      /\ k[T] = IF y \in T THEN h[T] - f[y] + g[y] ELSE h[T]}
<1>3. ASSUME NEW T \in SUBSET S, \A x \in T : T \ {x} \in Good
      PROVE  T \in Good
  <2>1. CASE T = {}
    BY <1>1, <1>2, <2>1 DEF Iterates
  <2>2. CASE T # {}
    <3>1. PICK x \in T : x = (CHOOSE z \in T : TRUE) /\ h[T] = f[x] + h[T \ {x}]
      BY <1>1, <2>2, IteratesValue
    <3>2. k[T] = g[x] + k[T \ {x}]
      <4>1. PICK z \in T : z = (CHOOSE w \in T : TRUE) /\ k[T] = g[z] + k[T \ {z}]
        BY <1>2, <2>2, IteratesValue
      <4> QED
        BY <3>1, <4>1
    <3>3. /\ h[T \ {x}] \in Int /\ k[T \ {x}] \in Int
          /\ k[T \ {x}] = IF y \in T \ {x} THEN h[T \ {x}] - f[y] + g[y] ELSE h[T \ {x}]
      BY <1>3
    <3>4. f[x] \in Int /\ g[x] \in Int /\ f[y] \in Int /\ g[y] \in Int
      OBVIOUS
    <3>5. h[T] \in Int /\ k[T] \in Int
      BY <3>1, <3>2, <3>3, <3>4
    <3>6. CASE x = y
      <4>1. k[T \ {x}] = h[T \ {x}]
        BY <3>3, <3>6
      <4>2. h[T] = f[y] + h[T \ {x}] /\ k[T] = g[y] + h[T \ {x}]
        BY <3>1, <3>2, <3>6, <4>1
      <4>3. k[T] = h[T] - f[y] + g[y]
        BY <3>3, <3>4, <4>2
      <4> QED
        BY <3>5, <3>6, <4>3
    <3>7. CASE x # y
      <4>1. g[x] = f[x] /\ (y \in T <=> y \in T \ {x})
        BY <3>7
      <4>2. k[T] = IF y \in T THEN h[T] - f[y] + g[y] ELSE h[T]
        BY <3>1, <3>2, <3>3, <3>4, <4>1
      <4> QED
        BY <3>5, <4>2
    <3> QED
      BY <3>6, <3>7
  <2> QED
    BY <2>1, <2>2
<1> HIDE DEF Good
<1>4. S \in Good
  BY <1>3, SubsetInduction
<1> QED
  BY <1>1, <1>2, <1>4 DEF Good

\* A sum over a finite domain, and what it changes by with one value.
LEMMA SumFunctionType ==
  ASSUME NEW S, IsFiniteSet(S), NEW f \in [S -> Int]
  PROVE  SumFunction(f) \in Int
BY SumType DEF SumFunction

LEMMA TotalChange ==
  ASSUME NEW S, IsFiniteSet(S), NEW f \in [S -> Int], NEW g \in [S -> Int], NEW y \in S,
         \A x \in S \ {y} : g[x] = f[x]
  PROVE  SumFunction(g) = SumFunction(f) - f[y] + g[y]
<1>1. DOMAIN f = S /\ DOMAIN g = S /\ \A x \in S : f[x] \in Int /\ g[x] \in Int
  OBVIOUS
<1> QED
  BY <1>1, SumChange DEF SumFunction

LEMMA TotalZero ==
  ASSUME NEW S, IsFiniteSet(S), NEW f \in [S -> Int], \A x \in S : f[x] = 0
  PROVE  SumFunction(f) = 0
BY SumZero DEF SumFunction

-----------------------------------------------------------------------------
(* The creator's balances are the sums of the postings to them. *)

EscrowKeys ==
  {<<"join", "freeze">>, <<"quit", "freeze_decr">>, <<"quit", "compensate">>,
   <<"refund", "freeze_decr">>, <<"refund", "compensate">>, <<"disband", "freeze_decr">>}

PenaltyKey  == <<"refund", "penalty">>
CreatorKeys == EscrowKeys \cup {PenaltyKey}

\* What a step can do to the creator's balances: nothing, a posting that has not
\* been made before together with its change, or the settlement.
CreatorMoves ==
  \/ /\ wallet'[Creator] = wallet[Creator] /\ UNCHANGED <<frozen, settled>>
     /\ \A b \in Buyers, k \in CreatorKeys : paylog'[b][k] = paylog[b][k]
  \/ \E b \in Buyers, k \in EscrowKeys, amount \in Int :
       /\ ~Posted(b, k) /\ frozen' = frozen + amount
       /\ Post(b, k, amount) /\ UNCHANGED <<wallet, settled>>
  \/ \E b \in Buyers, amount \in Int :
       /\ ~Posted(b, PenaltyKey) /\ AddToWallet(Creator, amount)
       /\ Post(b, PenaltyKey, amount) /\ UNCHANGED <<frozen, settled>>
  \/ /\ settled.income = 0 /\ settled.fee = 0
     /\ frozen' = frozen - Total /\ AddToWallet(Creator, Income(Total))
     /\ settled' = [income |-> Income(Total), fee |-> Fee(Total)]
     /\ UNCHANGED paylog

LEMMA CreatorMovesStep == TypeOK /\ NoClosing /\ [Next]_vars => CreatorMoves
<1> SUFFICES ASSUME TypeOK, NoClosing, [Next]_vars PROVE CreatorMoves
  OBVIOUS
<1>0. /\ Creator \notin Buyers /\ Creator \in Users /\ Buyers \subseteq Users
      /\ wallet \in [Users -> Int] /\ frozen \in Int
      /\ \A r \in Requests : req[r].op \in {"join", "quit", "refund"} => req[r].user \in Buyers
      /\ At(Scheduler, "auto", "credit") => req[Scheduler].user \in Buyers
      /\ CreatorKeys \subseteq Keys
      /\ {<<"join", "wallet">>, <<"join", "compensate">>, <<"quit", "wallet">>,
          <<"refund", "wallet">>, <<"disband", "wallet">>, <<"withdraw", "wallet">>}
           \subseteq Keys \ CreatorKeys
  BY EscrowAssumption DEF TypeOK, Users, CreatorKeys, EscrowKeys, PenaltyKey, Keys
<1>1. CASE UNCHANGED vars
  BY <1>1 DEF vars, CreatorMoves
<1>2. CASE DeadlinePasses
  BY <1>2 DEF DeadlinePasses, rows, money, CreatorMoves
<1>3. ASSUME NEW b \in Buyers, Withdraw(b) PROVE CreatorMoves
  <2>1. b \in Buyers /\ <<"withdraw", "wallet">> \in Keys \ CreatorKeys
    BY <1>0, <1>3 DEF Withdraw, At, CreatorKeys, EscrowKeys
  <2>2. wallet'[Creator] = wallet[Creator]
    BY <1>0, <1>3, <2>1 DEF Withdraw, AddToWallet
  <2>3. \A c \in Buyers, k \in CreatorKeys : paylog'[c][k] = paylog[c][k]
    BY <1>0, <1>3, <2>1, PostEffect, PricePositive, RefundType DEF Withdraw
  <2> QED
    BY <1>3, <2>2, <2>3 DEF Withdraw, CreatorMoves
<1>4. ASSUME NEW r \in Requests, NEW b \in Buyers, BeginJoin(r, b) PROVE CreatorMoves
  BY <1>4 DEF BeginJoin, rows, money, CreatorMoves
<1>5. ASSUME NEW r \in Requests, NEW b \in Buyers, BeginQuit(r, b) PROVE CreatorMoves
  BY <1>5 DEF BeginQuit, rows, money, CreatorMoves
<1>6. ASSUME NEW r \in Requests, NEW b \in Buyers, BeginRefund(r, b) PROVE CreatorMoves
  BY <1>6 DEF BeginRefund, rows, money, CreatorMoves
<1>7. ASSUME NEW r \in Requests, BeginSettle(r) PROVE CreatorMoves
  BY <1>7 DEF BeginSettle, rows, money, CreatorMoves
<1>8. ASSUME NEW r \in Requests, MarkDisbanded(r) PROVE CreatorMoves
  BY <1>8 DEF MarkDisbanded, rows, money, CreatorMoves
<1>9. ASSUME NEW r \in Requests, MarkDeleted(r) PROVE CreatorMoves
  BY <1>9 DEF MarkDeleted, rows, money, CreatorMoves
<1>10. ASSUME NEW r \in Requests, JoinDebit(r) PROVE CreatorMoves
  <2>1. req[r].user \in Buyers /\ <<"join", "wallet">> \in Keys \ CreatorKeys
    BY <1>0, <1>10 DEF JoinDebit, At, CreatorKeys, EscrowKeys
  <2>2. wallet'[Creator] = wallet[Creator]
    BY <1>0, <1>10, <2>1 DEF JoinDebit, AddToWallet
  <2>3. \A c \in Buyers, k \in CreatorKeys : paylog'[c][k] = paylog[c][k]
    BY <1>0, <1>10, <2>1, PostEffect, PricePositive, RefundType DEF JoinDebit
  <2> QED
    BY <1>10, <2>2, <2>3 DEF JoinDebit, CreatorMoves
<1>11. ASSUME NEW r \in Requests, JoinFreeze(r) PROVE CreatorMoves
  <2> DEFINE key == <<"join", "freeze">>
             amount == Price
  <2>1. req[r].user \in Buyers /\ key \in EscrowKeys /\ amount \in Int
    BY <1>0, <1>11, PricePositive DEF JoinFreeze, At, EscrowKeys
  <2>2. frozen + amount = frozen + Price
    BY <1>0, PricePositive
  <2> HIDE DEF amount
  <2>3. CASE /\ ~Posted(req[r].user, key) /\ frozen' = frozen + amount
             /\ Post(req[r].user, key, amount) /\ UNCHANGED <<wallet, settled>>
    BY <2>1, <2>3 DEF CreatorMoves
  <2>4. CASE UNCHANGED <<wallet, frozen, settled, paylog>>
    BY <2>4 DEF CreatorMoves
  <2> QED
    BY <1>11, <2>2, <2>3, <2>4 DEF JoinFreeze, amount
<1>12. ASSUME NEW r \in Requests, JoinCompensate(r) PROVE CreatorMoves
  <2>1. req[r].user \in Buyers /\ <<"join", "compensate">> \in Keys \ CreatorKeys
    BY <1>0, <1>12 DEF JoinCompensate, At, CreatorKeys, EscrowKeys
  <2>2. wallet'[Creator] = wallet[Creator]
    BY <1>0, <1>12, <2>1 DEF JoinCompensate, AddToWallet
  <2>3. \A c \in Buyers, k \in CreatorKeys : paylog'[c][k] = paylog[c][k]
    BY <1>0, <1>12, <2>1, PostEffect, PricePositive, RefundType DEF JoinCompensate
  <2> QED
    BY <1>12, <2>2, <2>3 DEF JoinCompensate, CreatorMoves
<1>13. ASSUME NEW r \in Requests, JoinEnrol(r) PROVE CreatorMoves
  BY <1>13 DEF JoinEnrol, rows, money, CreatorMoves
<1>14. ASSUME NEW r \in Requests, JoinPurchase(r) PROVE CreatorMoves
  BY <1>14 DEF JoinPurchase, rows, money, CreatorMoves
<1>15. ASSUME NEW r \in Requests, Unfreeze(r) PROVE CreatorMoves
  <2> DEFINE key == <<req[r].op, "freeze_decr">>
             amount == -Price
  <2>1. req[r].user \in Buyers /\ key \in EscrowKeys /\ amount \in Int
    BY <1>0, <1>15, PricePositive DEF Unfreeze, At, EscrowKeys
  <2>2. frozen + amount = frozen - Price
    BY <1>0, PricePositive
  <2> HIDE DEF amount
  <2>3. CASE /\ ~Posted(req[r].user, key) /\ frozen' = frozen + amount
             /\ Post(req[r].user, key, amount) /\ UNCHANGED <<wallet, settled>>
    BY <2>1, <2>3 DEF CreatorMoves
  <2>4. CASE UNCHANGED <<wallet, frozen, settled, paylog>>
    BY <2>4 DEF CreatorMoves
  <2> QED
    BY <1>15, <2>2, <2>3, <2>4 DEF Unfreeze, amount
<1>16. ASSUME NEW r \in Requests, CreditBuyer(r) PROVE CreatorMoves
  <2>1. req[r].user \in Buyers /\ <<req[r].op, "wallet">> \in Keys \ CreatorKeys
    BY <1>0, <1>16 DEF CreditBuyer, At, CreatorKeys, EscrowKeys
  <2>2. wallet'[Creator] = wallet[Creator]
    BY <1>0, <1>16, <2>1 DEF CreditBuyer, AddToWallet
  <2>3. \A c \in Buyers, k \in CreatorKeys : paylog'[c][k] = paylog[c][k]
    BY <1>0, <1>16, <2>1, PostEffect, PricePositive, RefundType DEF CreditBuyer
  <2> QED
    BY <1>16, <2>2, <2>3 DEF CreditBuyer, CreatorMoves
<1>17. ASSUME NEW r \in Requests, Restore(r) PROVE CreatorMoves
  <2> DEFINE key == <<req[r].op, "compensate">>
             amount == Price
  <2>1. req[r].user \in Buyers /\ key \in EscrowKeys /\ amount \in Int
    BY <1>0, <1>17, PricePositive DEF Restore, At, EscrowKeys
  <2>2. frozen + amount = frozen + Price
    BY <1>0, PricePositive
  <2> HIDE DEF amount
  <2>3. CASE /\ ~Posted(req[r].user, key) /\ frozen' = frozen + amount
             /\ Post(req[r].user, key, amount) /\ UNCHANGED <<wallet, settled>>
    BY <2>1, <2>3 DEF CreatorMoves
  <2>4. CASE UNCHANGED <<wallet, frozen, settled, paylog>>
    BY <2>4 DEF CreatorMoves
  <2> QED
    BY <1>17, <2>2, <2>3, <2>4 DEF Restore, amount
<1>18. ASSUME NEW r \in Requests, PayPenalty(r) PROVE CreatorMoves
  <2> DEFINE amount == Penalty(r)
  <2>1. req[r].user \in Buyers /\ amount \in Int
    BY <1>0, <1>18, RefundType DEF PayPenalty, At
  <2> HIDE DEF amount
  <2>2. CASE /\ ~Posted(req[r].user, PenaltyKey) /\ AddToWallet(Creator, amount)
             /\ Post(req[r].user, PenaltyKey, amount) /\ UNCHANGED <<frozen, settled>>
    BY <2>1, <2>2 DEF CreatorMoves
  <2>3. CASE UNCHANGED <<wallet, frozen, settled, paylog>>
    BY <2>3 DEF CreatorMoves
  <2> QED
    BY <1>18, <2>2, <2>3 DEF PayPenalty, PenaltyKey, amount
<1>19. ASSUME NEW r \in Requests, Leave(r) PROVE CreatorMoves
  BY <1>19 DEF Leave, rows, money, CreatorMoves
<1>20. ASSUME NEW r \in Requests, SettlePay(r) PROVE CreatorMoves
  BY <1>20 DEF SettlePay, CreatorMoves
<1>21. ASSUME NEW r \in Requests, SettleFinish(r) PROVE CreatorMoves
  BY <1>21 DEF SettleFinish, rows, money, CreatorMoves
<1>22. ASSUME NEW r \in Requests, CloseRead(r) PROVE CreatorMoves
  BY <1>22 DEF CloseRead, rows, money, CreatorMoves
<1>23. ASSUME NEW r \in Requests, CloseWrite(r) PROVE CreatorMoves
  BY <1>0, <1>23 DEF CloseWrite, At, NoClosing
<1>24. CASE MarkPurchased
  BY <1>24 DEF MarkPurchased, rows, money, CreatorMoves
<1>25. CASE SoftDelete
  BY <1>25 DEF SoftDelete, rows, money, CreatorMoves
<1>26. CASE AutoBegin
  BY <1>26 DEF AutoBegin, rows, money, CreatorMoves
<1>27. CASE ExpiryBegin
  BY <1>27 DEF ExpiryBegin, rows, money, CreatorMoves
<1>28. ASSUME NEW b \in Buyers, AutoUnfreeze(b) PROVE CreatorMoves
  <2> DEFINE key == <<"disband", "freeze_decr">>
             amount == -Price
  <2>1. b \in Buyers /\ key \in EscrowKeys /\ amount \in Int
    BY <1>0, <1>28, PricePositive DEF AutoUnfreeze, At, EscrowKeys
  <2>2. frozen + amount = frozen - Price
    BY <1>0, PricePositive
  <2> HIDE DEF amount
  <2>3. CASE /\ ~Posted(b, key) /\ frozen' = frozen + amount
             /\ Post(b, key, amount) /\ UNCHANGED <<wallet, settled>>
    BY <2>1, <2>3 DEF CreatorMoves
  <2>4. CASE UNCHANGED <<wallet, frozen, settled, paylog>>
    BY <2>4 DEF CreatorMoves
  <2> QED
    BY <1>28, <2>2, <2>3, <2>4 DEF AutoUnfreeze, amount
<1>29. CASE AutoCredit
  <2>1. req[Scheduler].user \in Buyers /\ <<"disband", "wallet">> \in Keys \ CreatorKeys
    BY <1>0, <1>29 DEF AutoCredit, At, CreatorKeys, EscrowKeys
  <2>2. wallet'[Creator] = wallet[Creator]
    BY <1>0, <1>29, <2>1 DEF AutoCredit, AddToWallet
  <2>3. \A c \in Buyers, k \in CreatorKeys : paylog'[c][k] = paylog[c][k]
    BY <1>0, <1>29, <2>1, PostEffect, PricePositive, RefundType DEF AutoCredit
  <2> QED
    BY <1>29, <2>2, <2>3 DEF AutoCredit, CreatorMoves
<1>30. CASE AutoFinish
  BY <1>30 DEF AutoFinish, rows, money, CreatorMoves
<1>31. CASE ExpiryWrite
  BY <1>31 DEF ExpiryWrite, rows, money, CreatorMoves
<1>32. ASSUME NEW r \in Sessions, Crash(r) PROVE CreatorMoves
  BY <1>32 DEF Crash, rows, money, CreatorMoves
<1> QED
  BY <1>1, <1>2, <1>3, <1>4, <1>5, <1>6, <1>7, <1>8, <1>9, <1>10, <1>11,
     <1>12, <1>13, <1>14, <1>15, <1>16, <1>17, <1>18, <1>19, <1>20, <1>21,
     <1>22, <1>23, <1>24, <1>25, <1>26, <1>27, <1>28, <1>29, <1>30, <1>31,
     <1>32
     DEF Next, Begin, Continue, ContinueTask

LEMMA CreatorSums ==
  ASSUME TypeOK
  PROVE  /\ IsFiniteSet(Buyers)
         /\ EscrowOf \in [Buyers -> Int] /\ PenaltyOf \in [Buyers -> Int]
         /\ SumFunction(EscrowOf) \in Int /\ SumFunction(PenaltyOf) \in Int
<1>1. IsFiniteSet(Buyers)
  BY EscrowAssumption
<1>2. \A b \in Buyers, k \in CreatorKeys : paylog[b][k] \in Int
  <2>1. CreatorKeys \subseteq Keys
    BY DEF CreatorKeys, EscrowKeys, PenaltyKey, Keys
  <2> QED
    BY <2>1 DEF TypeOK
<1>3. EscrowOf \in [Buyers -> Int] /\ PenaltyOf \in [Buyers -> Int]
  BY <1>2 DEF EscrowOf, PenaltyOf, CreatorKeys, EscrowKeys, PenaltyKey
<1> QED
  BY <1>1, <1>3, SumFunctionType

LEMMA EscrowChange ==
  ASSUME TypeOK, TypeOK', NEW b \in Buyers, NEW k \in EscrowKeys, NEW amount \in Int,
         ~Posted(b, k), Post(b, k, amount)
  PROVE  /\ SumFunction(EscrowOf)' = SumFunction(EscrowOf) + amount
         /\ PenaltyOf' = PenaltyOf
<1>1. /\ paylog'[b][k] = amount /\ paylog[b][k] = 0
      /\ \A c \in Buyers, key \in CreatorKeys :
           c # b \/ key # k => paylog'[c][key] = paylog[c][key]
  BY PostEffect DEF CreatorKeys, EscrowKeys, PenaltyKey, Keys, Posted
<1>2. /\ \A c \in Buyers, key \in EscrowKeys : paylog[c][key] \in Int
      /\ EscrowKeys \subseteq CreatorKeys /\ EscrowKeys \subseteq Keys
  <2>1. EscrowKeys \subseteq CreatorKeys /\ EscrowKeys \subseteq Keys
    BY DEF CreatorKeys, EscrowKeys, Keys
  <2> QED
    BY <2>1 DEF TypeOK
<1>3. \A c \in Buyers \ {b} : EscrowOf'[c] = EscrowOf[c]
  BY <1>1, <1>2 DEF EscrowOf, EscrowKeys
<1>4. EscrowOf'[b] = EscrowOf[b] + amount
  <2> USE <1>1, <1>2 DEF EscrowOf, EscrowKeys
  <2>1. CASE k = <<"join", "freeze">>
    BY <2>1
  <2>2. CASE k = <<"quit", "freeze_decr">>
    BY <2>2
  <2>3. CASE k = <<"quit", "compensate">>
    BY <2>3
  <2>4. CASE k = <<"refund", "freeze_decr">>
    BY <2>4
  <2>5. CASE k = <<"refund", "compensate">>
    BY <2>5
  <2>6. CASE k = <<"disband", "freeze_decr">>
    BY <2>6
  <2> QED
    BY <2>1, <2>2, <2>3, <2>4, <2>5, <2>6
<1>5. EscrowOf' \in [Buyers -> Int] /\ EscrowOf[b] \in Int /\ EscrowOf'[b] \in Int
  <2>1. \A c \in Buyers, key \in EscrowKeys : paylog'[c][key] \in Int
    BY <1>2 DEF TypeOK
  <2> QED
    BY <1>2, <2>1 DEF EscrowOf, EscrowKeys
<1>6. SumFunction(EscrowOf)' = SumFunction(EscrowOf) - EscrowOf[b] + EscrowOf'[b]
  BY <1>3, <1>5, CreatorSums, TotalChange
<1>7. SumFunction(EscrowOf) \in Int
  BY CreatorSums
<1>8. PenaltyKey \in CreatorKeys /\ PenaltyKey # k
  BY DEF CreatorKeys, EscrowKeys, PenaltyKey
<1>9. PenaltyOf' = PenaltyOf
  BY <1>1, <1>8 DEF PenaltyOf, PenaltyKey
<1> QED
  BY <1>4, <1>5, <1>6, <1>7, <1>9

LEMMA PenaltyChange ==
  ASSUME TypeOK, TypeOK', NEW b \in Buyers, NEW amount \in Int,
         ~Posted(b, PenaltyKey), Post(b, PenaltyKey, amount)
  PROVE  /\ SumFunction(PenaltyOf)' = SumFunction(PenaltyOf) + amount
         /\ EscrowOf' = EscrowOf
<1>1. /\ paylog'[b][PenaltyKey] = amount /\ paylog[b][PenaltyKey] = 0
      /\ \A c \in Buyers, key \in CreatorKeys :
           c # b \/ key # PenaltyKey => paylog'[c][key] = paylog[c][key]
  BY PostEffect DEF CreatorKeys, EscrowKeys, PenaltyKey, Keys, Posted
<1>2. PenaltyKey \notin EscrowKeys /\ PenaltyKey \in CreatorKeys /\ EscrowKeys \subseteq CreatorKeys
  BY DEF CreatorKeys, EscrowKeys, PenaltyKey
<1>3. \A c \in Buyers, key \in EscrowKeys : paylog'[c][key] = paylog[c][key]
  BY <1>1, <1>2
<1>4. EscrowOf' = EscrowOf
  BY <1>3 DEF EscrowOf, EscrowKeys
<1>5. /\ \A c \in Buyers \ {b} : PenaltyOf'[c] = PenaltyOf[c]
      /\ PenaltyOf[b] = 0 /\ PenaltyOf'[b] = amount
  BY <1>1, <1>2 DEF PenaltyOf, PenaltyKey
<1>6. PenaltyOf' \in [Buyers -> Int]
  BY DEF TypeOK, PenaltyOf, Keys
<1>7. SumFunction(PenaltyOf)' = SumFunction(PenaltyOf) - PenaltyOf[b] + PenaltyOf'[b]
  BY <1>5, <1>6, CreatorSums, TotalChange
<1> QED
  BY <1>4, <1>5, <1>7, CreatorSums

LEMMA CreatorStep ==
  ASSUME TypeOK, TypeOK', CreatorMatchesLog, CreatorMoves PROVE CreatorMatchesLog'
<1>0. /\ frozen \in Int /\ OtherEscrow \in Int /\ settled.income \in Int /\ settled.fee \in Int
      /\ Creator \in Users /\ wallet \in [Users -> Int] /\ wallet[Creator] \in Int
      /\ SumFunction(EscrowOf) \in Int /\ SumFunction(PenaltyOf) \in Int
      /\ frozen = OtherEscrow + SumFunction(EscrowOf) - settled.income - settled.fee
      /\ wallet[Creator] = settled.income + SumFunction(PenaltyOf)
  BY CreatorSums, EscrowAssumption DEF TypeOK, Users, CreatorMatchesLog
<1>1. CASE /\ wallet'[Creator] = wallet[Creator] /\ UNCHANGED <<frozen, settled>>
           /\ \A b \in Buyers, k \in CreatorKeys : paylog'[b][k] = paylog[b][k]
  <2>1. EscrowOf' = EscrowOf /\ PenaltyOf' = PenaltyOf
    BY <1>1 DEF EscrowOf, PenaltyOf, CreatorKeys, EscrowKeys, PenaltyKey
  <2> QED
    BY <1>0, <1>1, <2>1 DEF CreatorMatchesLog
<1>2. ASSUME NEW b \in Buyers, NEW k \in EscrowKeys, NEW amount \in Int,
             ~Posted(b, k), frozen' = frozen + amount, Post(b, k, amount),
             UNCHANGED <<wallet, settled>>
      PROVE  CreatorMatchesLog'
  <2>1. SumFunction(EscrowOf)' = SumFunction(EscrowOf) + amount /\ PenaltyOf' = PenaltyOf
    BY <1>2, EscrowChange
  <2>2. frozen' = OtherEscrow + SumFunction(EscrowOf)' - settled'.income - settled'.fee
    BY <1>0, <1>2, <2>1
  <2> QED
    BY <1>0, <1>2, <2>1, <2>2 DEF CreatorMatchesLog
<1>3. ASSUME NEW b \in Buyers, NEW amount \in Int,
             ~Posted(b, PenaltyKey), AddToWallet(Creator, amount),
             Post(b, PenaltyKey, amount), UNCHANGED <<frozen, settled>>
      PROVE  CreatorMatchesLog'
  <2>1. SumFunction(PenaltyOf)' = SumFunction(PenaltyOf) + amount /\ EscrowOf' = EscrowOf
    BY <1>3, PenaltyChange
  <2>2. wallet'[Creator] = wallet[Creator] + amount
    BY <1>0, <1>3 DEF AddToWallet
  <2>3. wallet'[Creator] = settled'.income + SumFunction(PenaltyOf)'
    BY <1>0, <1>3, <2>1, <2>2
  <2> QED
    BY <1>0, <1>3, <2>1, <2>3 DEF CreatorMatchesLog
<1>4. CASE /\ settled.income = 0 /\ settled.fee = 0
           /\ frozen' = frozen - Total /\ AddToWallet(Creator, Income(Total))
           /\ settled' = [income |-> Income(Total), fee |-> Fee(Total)]
           /\ UNCHANGED paylog
  <2>1. EscrowOf' = EscrowOf /\ PenaltyOf' = PenaltyOf
    BY <1>4 DEF EscrowOf, PenaltyOf
  <2>2. Total \in Nat /\ Fee(Total) \in Nat /\ Income(Total) = Total - Fee(Total)
    BY TotalType DEF Income, TypeOK
  <2>3. settled'.income = Income(Total) /\ settled'.fee = Fee(Total)
    BY <1>4
  <2>4. wallet'[Creator] = wallet[Creator] + Income(Total)
    BY <1>0, <1>4 DEF AddToWallet
  <2>5. frozen' = OtherEscrow + SumFunction(EscrowOf)' - settled'.income - settled'.fee
    BY <1>0, <1>4, <2>1, <2>2, <2>3
  <2>6. wallet'[Creator] = settled'.income + SumFunction(PenaltyOf)'
    BY <1>0, <1>4, <2>1, <2>2, <2>3, <2>4
  <2> QED
    BY <2>5, <2>6 DEF CreatorMatchesLog
<1> QED
  BY <1>1, <1>2, <1>3, <1>4 DEF CreatorMoves

\* The creator's frozen balance and wallet are what the payment log adds up to, as
\* long as nobody disbands or deletes the order by hand: the refund loop of those
\* two writes the frozen balance without a posting.
THEOREM CreatorIsLogged ==
  ASSUME "disband" \notin Ops, "delete" \notin Ops
  PROVE  Spec => []CreatorMatchesLog
<1>1. Init => NoClosing /\ CreatorMatchesLog
  <2> SUFFICES ASSUME Init PROVE NoClosing /\ CreatorMatchesLog
    OBVIOUS
  <2>1. NoClosing
    BY IdleType DEF Init, NoClosing, Sessions
  <2>2. TypeOK
    BY InitType
  <2>3. \A b \in Buyers : EscrowOf[b] = 0 /\ PenaltyOf[b] = 0
    BY DEF Init, EscrowOf, PenaltyOf, Keys
  <2>4. SumFunction(EscrowOf) = 0 /\ SumFunction(PenaltyOf) = 0
    BY <2>2, <2>3, CreatorSums, TotalZero
  <2>5. frozen = OtherEscrow /\ wallet[Creator] = 0 /\ settled.income = 0 /\ settled.fee = 0
    BY EscrowAssumption DEF Init, Users
  <2> QED
    BY <2>1, <2>4, <2>5, EscrowAssumption DEF CreatorMatchesLog
<1>2. TypeOK /\ NoClosing /\ [Next]_vars => NoClosing'
  BY NoClosingStep
<1>3. TypeOK /\ TypeOK' /\ NoClosing /\ CreatorMatchesLog /\ [Next]_vars => CreatorMatchesLog'
  BY CreatorMovesStep, CreatorStep
<1> QED
  BY <1>1, <1>2, <1>3, TypeCorrect, PTL DEF Spec

=============================================================================
