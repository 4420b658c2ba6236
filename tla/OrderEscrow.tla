---------------------------- MODULE OrderEscrow ----------------------------
(***************************************************************************)
(* One order of HalfCart, the money it moves and the HTTP requests and     *)
(* scheduler tasks that work on it concurrently: participation_service,    *)
(* order_service, verification_service, balance_service and                *)
(* tasks/scheduler.                                                        *)
(*                                                                         *)
(* A request runs in a database session of its own.  It reads the order    *)
(* once, and balance_service commits after every posting, so a request is  *)
(* a chain of steps that other requests interleave with: Begin... takes    *)
(* the Redis lock of its kind of request and reads, the later steps commit *)
(* one transaction each.  What a request read at Begin stays in its        *)
(* session (expire_on_commit=False), so it is kept in req and written back *)
(* later however stale it is.                                              *)
(***************************************************************************)
EXTENDS Money, FiniteSets, Functions

CONSTANTS
  Creator,      \* the order's creator (团长)
  Buyers,       \* the users who may join it (拼友)
  Requests,     \* sessions that serve HTTP requests
  Scheduler,    \* the session of the scheduler's tasks
  Kinds,        \* "normal" and "spot": the kinds of order looked at
  Ops,          \* the operations that are invoked
  Price,        \* price_per_person, in cents
  TotalPeople,  \* total_people of a normal order, its creator included
  BuyerFunds,   \* a buyer's wallet before the order
  OtherEscrow,  \* what the creator's frozen balance holds for other orders
  TasksHaveRedis, \* whether the scheduler's process has called init_redis
  MaxBusy,      \* bound: balance calls that find their Redis lock taken
  MaxBroken,    \* bound: commits that the database refuses
  MaxCrashes    \* bound: processes that die in the middle of a request

ASSUME EscrowAssumption ==
  /\ Creator \notin Buyers
  /\ Scheduler \notin Requests
  /\ TasksHaveRedis \in BOOLEAN
  /\ IsFiniteSet(Buyers)
  /\ TotalPeople \in Nat /\ TotalPeople >= 2
  /\ BuyerFunds \in Nat /\ OtherEscrow \in Nat
  \* a cheaper order can be created, but wallet_balance_decrease refuses
  \* every payment for it
  /\ Price \in Nat /\ Price >= WithdrawMin
  /\ MaxBusy \in Nat /\ MaxBroken \in Nat /\ MaxCrashes \in Nat

VARIABLES
  order,    \* the t_orders row
  seat,     \* pay_status of a buyer's t_order_participants row, or "none"
  code,     \* the order's verification code
  wallet,   \* wallet_balance of each user
  frozen,   \* frozen_balance of the creator
  paylog,   \* t_payment_logs: the amount posted under each idempotency key
  settled,  \* the two postings of the settlement
  req,      \* the state of every session
  spent     \* how much of the fault bounds is used up

rows  == <<order, seat, code>>
money == <<wallet, frozen, paylog, settled>>
vars  == <<order, seat, code, wallet, frozen, paylog, settled, req, spent>>

-----------------------------------------------------------------------------
(* Data *)

Users    == Buyers \cup {Creator}
Sessions == Requests \cup {Scheduler}

Statuses == {"GATHERING", "PURCHASING", "DELIVERING", "FINISHED", "DISBANDED"}

\* The idempotency keys of one buyer in this order: scene and step.
Keys == {<<"join", "wallet">>, <<"join", "freeze">>, <<"join", "compensate">>,
         <<"quit", "freeze_decr">>, <<"quit", "wallet">>, <<"quit", "compensate">>,
         <<"refund", "freeze_decr">>, <<"refund", "wallet">>,
         <<"refund", "compensate">>, <<"refund", "penalty">>,
         <<"disband", "freeze_decr">>, <<"disband", "wallet">>,
         <<"withdraw", "wallet">>}

\* Mutant of Total: the creator pays for a seat as well.
TotalWithCreator == IF order.kind = "spot" THEN Price ELSE Price * TotalPeople

\* total_amount of the order row
Total == IF order.kind = "spot" THEN Price ELSE Price * (TotalPeople - 1)

Idle == [op |-> "idle", at |-> "idle", user |-> Creator,
         people |-> 0, status |-> "NONE", expired |-> FALSE,
         paid |-> {}, frozen |-> 0, wallet |-> [b \in Buyers |-> 0]]

Paid == {b \in Buyers : seat[b] = "paid"}

\* Mutant of Post: a compensation leaves no t_payment_logs row.
PostUnlessCompensation(b, key, amount) ==
  paylog' = [paylog EXCEPT ![b][key] = IF key[2] = "compensate" THEN @ ELSE amount]

Posted(b, key)       == paylog[b][key] # 0
Post(b, key, amount) == paylog' = [paylog EXCEPT ![b][key] = amount]
AddToWallet(u, amount) == wallet' = [wallet EXCEPT ![u] = @ + amount]

\* Mutant of EscrowCovers: the balance is not checked.
EscrowUnchecked(amount) == amount > 0

\* The check of balance_service under the creator's row lock, on the real balance.
EscrowCovers(amount) == frozen >= amount

-----------------------------------------------------------------------------
(* Sessions *)

\* Mutant of LockFree: the distributed lock is always granted.
LockGranted(op) == op \in Ops

\* RedisLock: no other request of the same kind is between lock and unlock.
\* join_order and join_spot_order share "order:join:<id>".
LockFree(op) == \A r \in Requests : req[r].op # op

\* A request takes a session and reads the order (a stale copy from now on).
Start(r, op, at, b) ==
  req' = [req EXCEPT ![r] = [Idle EXCEPT !.op = op, !.at = at, !.user = b,
                             !.people = order.people, !.status = order.status]]

Goto(r, at) == req' = [req EXCEPT ![r].at = at]

\* A rollback expires every object of the session.
GotoExpired(r, at) == req' = [req EXCEPT ![r].at = at, ![r].expired = TRUE]

\* The request returns or raises; its locks are released either way.
Finish(r) == req' = [req EXCEPT ![r] = Idle]

At(r, op, at) == req[r].op = op /\ req[r].at = at

\* A balance call that fails before its first statement, its Redis lock taken.
Busy == spent.busy < MaxBusy /\ spent' = [spent EXCEPT !.busy = @ + 1]

\* A balance call whose commit fails and is rolled back.
Broken == spent.broken < MaxBroken /\ spent' = [spent EXCEPT !.broken = @ + 1]

-----------------------------------------------------------------------------
(* Time and the buyer's other payments *)

\* The clock passes the order's deadline (its spot_valid_until).
DeadlinePasses ==
  /\ "deadline" \in Ops
  /\ ~order.expired
  /\ order' = [order EXCEPT !.expired = TRUE]
  /\ UNCHANGED <<seat, code, money, req, spent>>

\* The buyer withdraws the price of a seat from his wallet: apply_withdraw and
\* its wallet_balance_decrease, in one step.
Withdraw(b) ==
  /\ "withdraw" \in Ops
  /\ ~Posted(b, <<"withdraw", "wallet">>)
  /\ wallet[b] >= Price
  /\ AddToWallet(b, -Price)
  /\ Post(b, <<"withdraw", "wallet">>, -Price)
  /\ UNCHANGED <<rows, frozen, settled, req, spent>>

-----------------------------------------------------------------------------
(* join_order and join_spot_order *)

\* What each of the two asks of the order; there is no limit on who buys a spot.
NormalJoinable ==
  order.kind = "normal" /\ order.status = "GATHERING" /\ order.people < TotalPeople
SpotJoinable == order.kind = "spot" /\ order.status = "DELIVERING"

\* The checks of both up to the wallet check, under the lock "order:join".
\* Somebody who has a participant row, refunded or not, gets "already joined".
BeginJoin(r, b) ==
  /\ "join" \in Ops
  /\ req[r] = Idle /\ LockFree("join")
  /\ NormalJoinable \/ SpotJoinable
  /\ ~order.expired
  /\ seat[b] = "none"
  /\ wallet[b] >= Price
  /\ Start(r, "join", "debit", b)
  /\ UNCHANGED <<rows, money, spent>>

\* wallet_balance_decrease.  The session still holds the user row the request
\* read at its start, so the check under the row lock repeats BeginJoin's; the
\* UPDATE is guarded by the real balance, and its row count is not looked at.
JoinDebit(r) ==
  LET b == req[r].user
      key == <<"join", "wallet">>
  IN  /\ At(r, "join", "debit")
      /\ \/ /\ ~Posted(b, key)
            /\ AddToWallet(b, IF wallet[b] >= Price THEN -Price ELSE 0)
            /\ Post(b, key, -Price)
            /\ Goto(r, "freeze")
            /\ UNCHANGED spent
         \* Duplicate key: rolled back.  Reading order.creator_id for the next
         \* call raises inside the try, which leads to the compensation.
         \/ /\ Posted(b, key)
            /\ GotoExpired(r, "compensate")
            /\ UNCHANGED <<wallet, paylog, spent>>
         \/ /\ Busy \/ Broken
            /\ Finish(r)
            /\ UNCHANGED <<wallet, paylog>>
      /\ UNCHANGED <<rows, frozen, settled>>

\* freeze_balance_increase on the creator; any exception leads to compensation.
JoinFreeze(r) ==
  LET b == req[r].user
  IN  /\ At(r, "join", "freeze")
      /\ \/ /\ ~Posted(b, <<"join", "freeze">>)
            /\ frozen' = frozen + Price
            /\ Post(b, <<"join", "freeze">>, Price)
            /\ Goto(r, "enrol")
            /\ UNCHANGED spent
         \/ /\ Busy \/ Broken
            /\ Goto(r, "compensate")
            /\ UNCHANGED <<frozen, paylog>>
      /\ UNCHANGED <<rows, wallet, settled>>

\* The except branch: give the wallet its money back, then re-raise.
JoinCompensate(r) ==
  LET b == req[r].user
      key == <<"join", "compensate">>
  IN  /\ At(r, "join", "compensate")
      /\ \/ /\ ~Posted(b, key)
            /\ AddToWallet(b, Price)
            /\ Post(b, key, Price)
            /\ UNCHANGED spent
         \/ Posted(b, key) /\ UNCHANGED <<wallet, paylog, spent>>
         \/ (Busy \/ Broken) /\ UNCHANGED <<wallet, paylog>>
      /\ Finish(r)
      /\ UNCHANGED <<rows, frozen, settled>>

\* The participant row and current_people, counted from the stale copy.
JoinEnrol(r) ==
  LET people == req[r].people + 1
  IN  /\ At(r, "join", "enrol")
      /\ seat' = [seat EXCEPT ![req[r].user] = "paid"]
      /\ order' = [order EXCEPT !.people = people]
      /\ IF order.kind = "normal" /\ people >= TotalPeople
           THEN Goto(r, "purchase")
           ELSE Finish(r)
      /\ UNCHANGED <<code, money, spent>>

\* transition_to_purchasing: its check of the status and of the people looks at
\* the copy in the session and always passes.
JoinPurchase(r) ==
  /\ At(r, "join", "purchase")
  /\ order' = [order EXCEPT !.status = "PURCHASING"]
  /\ Finish(r)
  /\ UNCHANGED <<seat, code, money, spent>>

-----------------------------------------------------------------------------
(* quit_order and refund_order: op is "quit" or "refund" *)

\* Mutant of BeginQuit: the wallet is credited before the escrow is released.
BeginQuitWithCredit(r, b) ==
  /\ req[r] = Idle /\ LockFree("quit")
  /\ order.status = "GATHERING" /\ seat[b] = "paid"
  /\ Start(r, "quit", "credit", b)
  /\ UNCHANGED <<rows, money, spent>>

BeginQuit(r, b) ==
  /\ "quit" \in Ops
  /\ req[r] = Idle /\ LockFree("quit")
  /\ order.status = "GATHERING"
  /\ seat[b] = "paid"
  /\ Start(r, "quit", "unfreeze", b)
  /\ UNCHANGED <<rows, money, spent>>

BeginRefund(r, b) ==
  /\ "refund" \in Ops
  /\ req[r] = Idle /\ LockFree("refund")
  /\ order.kind = "normal"
  /\ order.status \in {"GATHERING", "PURCHASING"}
  /\ seat[b] = "paid"
  /\ Start(r, "refund", "unfreeze", b)
  /\ UNCHANGED <<rows, money, spent>>

\* What the request gives back to the buyer, and to the creator as a penalty.
Penalised(r) == req[r].op = "refund" /\ req[r].status = "PURCHASING"
Refund(r)    == IF Penalised(r) THEN Share(Price, RefundPercent) ELSE Price
Penalty(r)   == IF Penalised(r) THEN Share(Price, PenaltyPercent) ELSE 0

\* freeze_balance_decrease: its check under the row lock reads the real balance.
Unfreeze(r) ==
  LET b == req[r].user
      key == <<req[r].op, "freeze_decr">>
  IN  /\ req[r].op \in {"quit", "refund"} /\ req[r].at = "unfreeze"
      /\ \/ /\ EscrowCovers(Price) /\ ~Posted(b, key)
            /\ frozen' = frozen - Price
            /\ Post(b, key, -Price)
            /\ Goto(r, "credit")
            /\ UNCHANGED spent
         \/ /\ EscrowCovers(Price) /\ Posted(b, key)
            /\ GotoExpired(r, "credit")
            /\ UNCHANGED <<frozen, paylog, spent>>
         \/ /\ ~EscrowCovers(Price)
            /\ Finish(r)
            /\ UNCHANGED <<frozen, paylog, spent>>
         \/ /\ Busy \/ Broken
            /\ Finish(r)
            /\ UNCHANGED <<frozen, paylog>>
      /\ UNCHANGED <<rows, wallet, settled>>

\* wallet_balance_increase for the buyer.  With an expired session the request
\* raises right after it, at the next attribute of the order it reads, and a
\* failure is compensated only if order.creator_id can still be read.
CreditBuyer(r) ==
  LET b == req[r].user
      key == <<req[r].op, "wallet">>
  IN  /\ req[r].op \in {"quit", "refund"} /\ req[r].at = "credit"
      /\ \/ /\ ~Posted(b, key)
            /\ AddToWallet(b, Refund(r))
            /\ Post(b, key, Refund(r))
            /\ IF req[r].expired THEN Finish(r)
               ELSE Goto(r, IF Penalised(r) THEN "penalty" ELSE "leave")
            /\ UNCHANGED spent
         \/ /\ Posted(b, key)
            /\ Finish(r)
            /\ UNCHANGED <<wallet, paylog, spent>>
         \/ /\ Busy
            /\ IF req[r].expired THEN Finish(r) ELSE Goto(r, "restore")
            /\ UNCHANGED <<wallet, paylog>>
         \/ /\ Broken
            /\ Finish(r)
            /\ UNCHANGED <<wallet, paylog>>
      /\ UNCHANGED <<rows, frozen, settled>>

\* The except branch: freeze_balance_increase again, then re-raise.
Restore(r) ==
  LET b == req[r].user
      key == <<req[r].op, "compensate">>
  IN  /\ req[r].op \in {"quit", "refund"} /\ req[r].at = "restore"
      /\ \/ /\ ~Posted(b, key)
            /\ frozen' = frozen + Price
            /\ Post(b, key, Price)
            /\ UNCHANGED spent
         \/ (Busy \/ Broken) /\ UNCHANGED <<frozen, paylog>>
      /\ Finish(r)
      /\ UNCHANGED <<rows, wallet, settled>>

\* refund_order only: the penalty goes to the creator's wallet.
PayPenalty(r) ==
  LET b == req[r].user
      key == <<"refund", "penalty">>
  IN  /\ At(r, "refund", "penalty")
      /\ \/ /\ ~Posted(b, key)
            /\ AddToWallet(Creator, Penalty(r))
            /\ Post(b, key, Penalty(r))
            /\ Goto(r, "leave")
            /\ UNCHANGED spent
         \/ /\ Busy \/ Broken
            /\ Finish(r)
            /\ UNCHANGED <<wallet, paylog>>
      /\ UNCHANGED <<rows, frozen, settled>>

\* Mutant of OneFewer: without the max.
OneFewerUnbounded(people) == people - 1

\* max(1, order.current_people - 1)
OneFewer(people) == IF people > 1 THEN people - 1 ELSE 1

\* The last commit: the seat is given up, people and (after a penalty) status
\* are written back from the stale copy, a column only if its value changed.
Leave(r) ==
  LET seen == req[r].people
      left == OneFewer(seen)
  IN  /\ req[r].op \in {"quit", "refund"} /\ req[r].at = "leave"
      /\ seat' = [seat EXCEPT ![req[r].user] = "refunded"]
      /\ order' = [order EXCEPT
                     !.people = IF left = seen THEN @ ELSE left,
                     !.status = IF Penalised(r) /\ left < TotalPeople
                                  THEN "GATHERING" ELSE @]
      /\ Finish(r)
      /\ UNCHANGED <<code, money, spent>>

-----------------------------------------------------------------------------
(* transition_to_delivering and settle_order *)

\* Mutant of MarkPurchased: every delivery makes a new code.
MarkPurchasedNewCode ==
  /\ order.status = "PURCHASING"
  /\ order' = [order EXCEPT !.status = "DELIVERING"]
  /\ code' = "unused"
  /\ UNCHANGED <<seat, money, req, spent>>

\* Row-locked, fresh and in one transaction; the code is created only once.
MarkPurchased ==
  /\ "mark" \in Ops
  /\ order.status = "PURCHASING"
  /\ order' = [order EXCEPT !.status = "DELIVERING"]
  /\ code' = IF code = "absent" THEN "unused" ELSE code
  /\ UNCHANGED <<seat, money, req, spent>>

\* The creator types the right code of a DELIVERING order.
BeginSettle(r) ==
  /\ "settle" \in Ops
  /\ req[r] = Idle /\ LockFree("settle")
  /\ order.status = "DELIVERING"
  /\ code = "unused"
  /\ Start(r, "settle", "pay", Creator)
  /\ UNCHANGED <<rows, money, spent>>

\* frozen_to_wallet_settlement: the used code, the two balances and the two
\* postings are one commit.  settled is empty as long as the code is unused, so
\* the branch for a duplicate "settle:<id>" key is never taken.
SettlePay(r) ==
  /\ At(r, "settle", "pay")
  /\ \/ /\ EscrowCovers(Total)
        /\ settled.income = 0 /\ settled.fee = 0
        /\ frozen' = frozen - Total
        /\ AddToWallet(Creator, Income(Total))
        /\ settled' = [income |-> Income(Total), fee |-> Fee(Total)]
        /\ code' = "used"
        /\ Goto(r, "finish")
        /\ UNCHANGED spent
     \/ /\ ~EscrowCovers(Total)
        /\ Finish(r)
        /\ UNCHANGED <<frozen, wallet, settled, code, spent>>
     \/ /\ Busy \/ Broken
        /\ Finish(r)
        /\ UNCHANGED <<frozen, wallet, settled, code>>
  /\ UNCHANGED <<order, seat, paylog>>

\* transition_to_finished: the status it checks is the stale copy's.
SettleFinish(r) ==
  /\ At(r, "settle", "finish")
  /\ order' = [order EXCEPT !.status = "FINISHED"]
  /\ Finish(r)
  /\ UNCHANGED <<seat, code, money, spent>>

-----------------------------------------------------------------------------
(* disband_order and delete_order: no Redis lock *)

\* The row-locked status change of disband_order.
MarkDisbanded(r) ==
  /\ "disband" \in Ops
  /\ req[r] = Idle
  /\ \/ order.status = "GATHERING"
     \/ order.status = "DELIVERING" /\ order.kind = "spot" /\ order.people <= 1
  /\ order' = [order EXCEPT !.status = "DISBANDED"]
  /\ Start(r, "close", "read", Creator)
  /\ UNCHANGED <<seat, code, money, spent>>

\* The row-locked status change of delete_order.
MarkDeleted(r) ==
  /\ "delete" \in Ops
  /\ req[r] = Idle
  /\ order.status \in {"GATHERING", "PURCHASING"}
  /\ order' = [order EXCEPT !.status = "DISBANDED"]
  /\ Start(r, "close", "read", Creator)
  /\ UNCHANGED <<seat, code, money, spent>>

\* delete_order of an order that is over hides it.
SoftDelete ==
  /\ "delete" \in Ops
  /\ order.status \in {"FINISHED", "DISBANDED"} /\ ~order.deleted
  /\ order' = [order EXCEPT !.deleted = TRUE]
  /\ UNCHANGED <<seat, code, money, req, spent>>

\* The transaction after that commit reads the paid participants, the creator
\* and the buyers from one snapshot; with nobody to refund it is all.
CloseRead(r) ==
  /\ At(r, "close", "read")
  /\ IF Paid = {} THEN Finish(r)
     ELSE req' = [req EXCEPT ![r].at = "write", ![r].paid = Paid,
                             ![r].frozen = frozen,
                             ![r].wallet = [b \in Buyers |-> wallet[b]]]
  /\ UNCHANGED <<rows, money, spent>>

\* Whom the loop refunds, in whatever order: as many as the snapshot's frozen
\* balance lasts for.
Refundable(seen) ==
  {refunded \in SUBSET seen.paid :
     /\ Cardinality(refunded) * Price <= seen.frozen
     /\ \/ refunded = seen.paid
        \/ (Cardinality(refunded) + 1) * Price > seen.frozen}

\* Its one commit.  The balances of whom it refunds are written as computed from
\* the snapshot; then building the PaymentLog raises (no PaymentLogType.REFUND,
\* an argument short for the key), so there is no posting and the row stays
\* "paid".  The others are marked "refunded" without any money.
CloseWrite(r) ==
  LET seen == req[r]
  IN  /\ At(r, "close", "write")
      /\ \E refunded \in Refundable(seen) :
           /\ frozen' = IF refunded = {} THEN frozen
                        ELSE seen.frozen - Cardinality(refunded) * Price
           /\ wallet' = [u \in Users |-> IF u \in refunded
                                           THEN seen.wallet[u] + Price
                                           ELSE wallet[u]]
           /\ seat' = [b \in Buyers |-> IF b \in seen.paid \ refunded
                                          THEN "refunded" ELSE seat[b]]
      /\ Finish(r)
      /\ UNCHANGED <<order, code, paylog, settled, spent>>

-----------------------------------------------------------------------------
(* auto_disband_task and spot_expiry_task.  app.tasks.main, the process that runs *)
(* them, never calls init_redis; TasksHaveRedis is FALSE for the code as it is,   *)
(* and TRUE for the lifespan of main.py that tasks/__init__.py says starts them.  *)

\* Mutant of AutoBegin: an order nobody has paid for is left alone.
AutoBeginIfPaid ==
  /\ req[Scheduler] = Idle /\ Paid # {}
  /\ order.status = "GATHERING" /\ order.expired
  /\ req' = [req EXCEPT ![Scheduler] =
               [Idle EXCEPT !.op = "auto", !.at = "unfreeze", !.paid = Paid]]
  /\ UNCHANGED <<rows, money, spent>>

AutoBegin ==
  /\ "auto" \in Ops
  /\ req[Scheduler] = Idle
  /\ order.status = "GATHERING" /\ order.expired
  /\ req' = [req EXCEPT ![Scheduler] =
               [Idle EXCEPT !.op = "auto", !.at = "unfreeze", !.paid = Paid]]
  /\ UNCHANGED <<rows, money, spent>>

\* The next participant of the list is done with, or given up on.
NextParticipant(b) ==
  req' = [req EXCEPT ![Scheduler].at = "unfreeze", ![Scheduler].paid = @ \ {b}]

\* freeze_balance_decrease for one participant.  Any exception is logged and the
\* loop goes on - get_redis raises one in a process that has no Redis - but after
\* a rollback p.id cannot be read any more and the whole task ends.
AutoUnfreeze(b) ==
  LET key == <<"disband", "freeze_decr">>
  IN  /\ At(Scheduler, "auto", "unfreeze")
      /\ b \in req[Scheduler].paid
      /\ \/ /\ TasksHaveRedis /\ EscrowCovers(Price) /\ ~Posted(b, key)
            /\ frozen' = frozen - Price
            /\ Post(b, key, -Price)
            /\ req' = [req EXCEPT ![Scheduler].at = "credit", ![Scheduler].user = b]
            /\ UNCHANGED spent
         \/ /\ ~TasksHaveRedis \/ ~EscrowCovers(Price)
            /\ NextParticipant(b)
            /\ UNCHANGED <<frozen, paylog, spent>>
         \/ /\ TasksHaveRedis /\ Busy
            /\ NextParticipant(b)
            /\ UNCHANGED <<frozen, paylog>>
         \/ /\ TasksHaveRedis /\ EscrowCovers(Price) /\ Posted(b, key)
            /\ Finish(Scheduler)
            /\ UNCHANGED <<frozen, paylog, spent>>
         \/ /\ TasksHaveRedis /\ Broken
            /\ Finish(Scheduler)
            /\ UNCHANGED <<frozen, paylog>>
      /\ UNCHANGED <<rows, wallet, settled>>

\* wallet_balance_increase for the same participant; pay_status is not written.
AutoCredit ==
  LET b == req[Scheduler].user
      key == <<"disband", "wallet">>
  IN  /\ At(Scheduler, "auto", "credit")
      /\ \/ /\ ~Posted(b, key)
            /\ AddToWallet(b, Price)
            /\ Post(b, key, Price)
            /\ NextParticipant(b)
            /\ UNCHANGED spent
         \/ /\ Busy
            /\ NextParticipant(b)
            /\ UNCHANGED <<wallet, paylog>>
         \/ /\ Broken
            /\ Finish(Scheduler)
            /\ UNCHANGED <<wallet, paylog>>
      /\ UNCHANGED <<rows, frozen, settled>>

\* The status, written whatever it is by now.
AutoFinish ==
  /\ At(Scheduler, "auto", "unfreeze")
  /\ req[Scheduler].paid = {}
  /\ order' = [order EXCEPT !.status = "DISBANDED"]
  /\ Finish(Scheduler)
  /\ UNCHANGED <<seat, code, money, spent>>

\* spot_expiry_task selects the order, then writes its status.
ExpiryBegin ==
  /\ "expiry" \in Ops
  /\ req[Scheduler] = Idle
  /\ order.kind = "spot" /\ order.status = "DELIVERING" /\ order.expired
  /\ Start(Scheduler, "expiry", "write", Creator)
  /\ UNCHANGED <<rows, money, spent>>

ExpiryWrite ==
  /\ At(Scheduler, "expiry", "write")
  /\ order' = [order EXCEPT !.status = "DISBANDED"]
  /\ Finish(Scheduler)
  /\ UNCHANGED <<seat, code, money, spent>>

-----------------------------------------------------------------------------
\* The process of a session dies; MySQL rolls its transaction back and its Redis
\* lock runs out.
Crash(r) ==
  /\ spent.crashes < MaxCrashes
  /\ req[r] # Idle
  /\ spent' = [spent EXCEPT !.crashes = @ + 1]
  /\ Finish(r)
  /\ UNCHANGED <<rows, money>>

\* create_normal_order
NewNormal ==
  /\ order = [kind |-> "normal", status |-> "GATHERING", people |-> 1,
              deleted |-> FALSE, expired |-> FALSE]
  /\ code = "absent"

\* create_spot_order: DELIVERING from the start, its code made in the same
\* transaction.
NewSpot ==
  /\ order = [kind |-> "spot", status |-> "DELIVERING", people |-> 1,
              deleted |-> FALSE, expired |-> FALSE]
  /\ code = "unused"

\* The order has just been created.
Init ==
  /\ \/ "normal" \in Kinds /\ NewNormal
     \/ "spot" \in Kinds /\ NewSpot
  /\ seat = [b \in Buyers |-> "none"]
  /\ wallet = [u \in Users |-> IF u \in Buyers THEN BuyerFunds ELSE 0]
  /\ frozen = OtherEscrow
  /\ paylog = [b \in Buyers |-> [k \in Keys |-> 0]]
  /\ settled = [income |-> 0, fee |-> 0]
  /\ req = [r \in Sessions |-> Idle]
  /\ spent = [busy |-> 0, broken |-> 0, crashes |-> 0]

\* The steps that carry on a request, and the task, that has begun.
Continue(r) ==
  \/ JoinDebit(r) \/ JoinFreeze(r) \/ JoinCompensate(r) \/ JoinEnrol(r) \/ JoinPurchase(r)
  \/ Unfreeze(r) \/ CreditBuyer(r) \/ Restore(r) \/ PayPenalty(r) \/ Leave(r)
  \/ SettlePay(r) \/ SettleFinish(r)
  \/ CloseRead(r) \/ CloseWrite(r)

ContinueTask ==
  \/ \E b \in Buyers : AutoUnfreeze(b)
  \/ AutoCredit \/ AutoFinish
  \/ ExpiryWrite

Begin(r) ==
  \/ \E b \in Buyers : BeginJoin(r, b) \/ BeginQuit(r, b) \/ BeginRefund(r, b)
  \/ BeginSettle(r) \/ MarkDisbanded(r) \/ MarkDeleted(r)

Next ==
  \/ DeadlinePasses
  \/ \E b \in Buyers : Withdraw(b)
  \/ \E r \in Requests : Begin(r) \/ Continue(r)
  \/ MarkPurchased \/ SoftDelete
  \/ AutoBegin \/ ExpiryBegin \/ ContinueTask
  \/ \E r \in Sessions : Crash(r)

Spec == Init /\ [][Next]_vars

\* A request that has begun runs on, and the tasks run every minute
\* (start_scheduler): neither is ever stopped but by a crash.
FairSpec ==
  /\ Spec
  /\ \A r \in Requests : WF_vars(Continue(r))
  /\ WF_vars(AutoBegin) /\ WF_vars(ExpiryBegin) /\ WF_vars(ContinueTask)

-----------------------------------------------------------------------------
(* Properties *)

\* The steps a request, and a task, can be at.
RequestSteps ==
  {<<"join", "debit">>, <<"join", "freeze">>, <<"join", "compensate">>,
   <<"join", "enrol">>, <<"join", "purchase">>,
   <<"quit", "unfreeze">>, <<"quit", "credit">>, <<"quit", "restore">>, <<"quit", "leave">>,
   <<"refund", "unfreeze">>, <<"refund", "credit">>, <<"refund", "restore">>,
   <<"refund", "penalty">>, <<"refund", "leave">>,
   <<"settle", "pay">>, <<"settle", "finish">>, <<"close", "read">>, <<"close", "write">>}

TaskSteps == {<<"auto", "unfreeze">>, <<"auto", "credit">>, <<"expiry", "write">>}

SessionState ==
  [op : {"idle", "join", "quit", "refund", "settle", "close", "auto", "expiry"},
   at : {"idle", "debit", "freeze", "compensate", "enrol", "purchase", "unfreeze",
         "credit", "restore", "penalty", "leave", "pay", "finish", "read", "write"},
   user : Users, people : Nat, status : Statuses \cup {"NONE"}, expired : BOOLEAN,
   paid : SUBSET Buyers, frozen : Int, wallet : [Buyers -> Int]]

\* Every variable has its type, and a session is at a step of its operation, on
\* behalf of a buyer where it moves his money.
\* Balances are any integers here: that they stay non-negative is NoOverdraft.
TypeOK ==
  /\ order \in [kind : {"normal", "spot"}, status : Statuses, people : Nat \ {0},
                deleted : BOOLEAN, expired : BOOLEAN]
  /\ seat \in [Buyers -> {"none", "paid", "refunded"}]
  /\ code \in {"absent", "unused", "used"}
  /\ wallet \in [Users -> Int]
  /\ frozen \in Int
  /\ paylog \in [Buyers -> [Keys -> Int]]
  /\ settled \in [income : Int, fee : Int]
  /\ req \in [Sessions -> SessionState]
  /\ spent \in [busy : Nat, broken : Nat, crashes : Nat]
  /\ \A r \in Requests :
       req[r] = Idle \/ <<req[r].op, req[r].at>> \in RequestSteps
  /\ req[Scheduler] = Idle \/ <<req[Scheduler].op, req[Scheduler].at>> \in TaskSteps
  /\ \A r \in Requests :
       req[r].op \in {"join", "quit", "refund"} => req[r].user \in Buyers
  /\ At(Scheduler, "auto", "credit") => req[Scheduler].user \in Buyers

\* No interleaving of requests, faults and crashes takes a wallet or the
\* creator's frozen balance below zero (balance_service's checks under the row
\* lock, and the refund loop of disband_order, which writes without one).
NoOverdraft ==
  /\ frozen >= 0
  /\ \A u \in Users : wallet[u] >= 0

\* A participant row exists only for a buyer whose payment went all the way:
\* his wallet debited, the creator's balance frozen, nothing paid back by the
\* compensation - whatever failed, died or was retried (join_order's order of
\* debit, freeze, compensation and participant row).
SeatIsPaidFor ==
  \A b \in Buyers : seat[b] # "none" =>
    /\ Posted(b, <<"join", "wallet">>)
    /\ Posted(b, <<"join", "freeze">>)
    /\ ~Posted(b, <<"join", "compensate">>)

\* Money is taken out of the creator's escrow before it is given to anybody:
\* no refund, penalty or compensation is posted without the posting it follows.
EscrowLeavesFirst ==
  \A b \in Buyers :
    /\ Posted(b, <<"join", "freeze">>) \/ Posted(b, <<"join", "compensate">>)
         => Posted(b, <<"join", "wallet">>)
    /\ \A op \in {"quit", "refund"} :
         Posted(b, <<op, "wallet">>) \/ Posted(b, <<op, "compensate">>)
           => Posted(b, <<op, "freeze_decr">>)
    /\ Posted(b, <<"refund", "penalty">>) => Posted(b, <<"refund", "wallet">>)
    /\ Posted(b, <<"disband", "wallet">>) => Posted(b, <<"disband", "freeze_decr">>)
    /\ \A op \in {"quit", "refund", "disband"} :
         Posted(b, <<op, "freeze_decr">>) => seat[b] # "none"

\* The code is used exactly when the settlement has been posted, the settlement
\* pays out the whole amount once, and a FINISHED order has been settled - also
\* when settle_order dies between its two commits or races with other requests.
CodePaysOnce ==
  /\ settled = IF code = "used" THEN [income |-> Income(Total), fee |-> Fee(Total)]
                               ELSE [income |-> 0, fee |-> 0]
  /\ order.status = "FINISHED" => code = "used"

\* Every buyer's wallet is what he had plus the postings to it (balance_service:
\* a change and its t_payment_logs row are one transaction).
WalletsMatchLog ==
  \A b \in Buyers :
    wallet[b] = BuyerFunds
       + paylog[b][<<"join", "wallet">>] + paylog[b][<<"join", "compensate">>]
       + paylog[b][<<"quit", "wallet">>] + paylog[b][<<"refund", "wallet">>]
       + paylog[b][<<"disband", "wallet">>] + paylog[b][<<"withdraw", "wallet">>]

\* What each buyer's postings have added to the creator's frozen balance, and
\* as a penalty to the creator's wallet.
EscrowOf ==
  [b \in Buyers |->
     paylog[b][<<"join", "freeze">>]
       + paylog[b][<<"quit", "freeze_decr">>] + paylog[b][<<"quit", "compensate">>]
       + paylog[b][<<"refund", "freeze_decr">>] + paylog[b][<<"refund", "compensate">>]
       + paylog[b][<<"disband", "freeze_decr">>]]

PenaltyOf == [b \in Buyers |-> paylog[b][<<"refund", "penalty">>]]

\* The creator's balances are the sums of the postings to them: the frozen balance
\* of what joined and left, the wallet of the penalties and the settlement.
CreatorMatchesLog ==
  /\ frozen = OtherEscrow + SumFunction(EscrowOf) - settled.income - settled.fee
  /\ wallet[Creator] = settled.income + SumFunction(PenaltyOf)

\* No buyer has given up his seat; nobody's escrow has been released.
NobodyLeft == \A b \in Buyers : seat[b] # "refunded"
NothingReleased ==
  \A b \in Buyers : \A op \in {"quit", "refund", "disband"} : ~Posted(b, <<op, "freeze_decr">>)

\* As long as nobody gets his money back, the escrow holds the price of every paid
\* seat until the settlement has paid it out, and never draws on what it holds for
\* the creator's other orders (freeze_balance_increase before the participant row,
\* settle_order's total_amount against the seats that were sold).
EscrowCoversSeats ==
  NobodyLeft /\ NothingReleased =>
    frozen >= OtherEscrow + IF code = "used" THEN 0 ELSE Price * Cardinality(Paid)

\* join_order's lock "against overselling under concurrency": until a buyer has left,
\* no more of them hold a paid seat than the order has seats beside its creator's,
\* also while one is leaving and the number of people is written from stale copies.
NoOversell == NobodyLeft => Cardinality(Paid) <= TotalPeople - 1

\* "A participant record is refunded only once" (idempotent.py), whichever of
\* quit, refund and disbanding asked for it.
RefundedOnce ==
  \A b \in Buyers : \A op1, op2 \in {"quit", "refund", "disband"} :
    Posted(b, <<op1, "wallet">>) /\ Posted(b, <<op2, "wallet">>) => op1 = op2

\* An order past its deadline that is still gathering is disbanded (or has moved
\* on): auto_disband_task gets there whatever the requests are doing, as long as
\* no commit fails and nothing dies.
ExpiredOrderCloses ==
  (order.status = "GATHERING" /\ order.expired) ~> (order.status # "GATHERING")

-----------------------------------------------------------------------------
(* The promise to the buyers *)

\* How far a buyer has come, read off his seat and his postings.
Phase(b) ==
  LET released == \E op \in {"quit", "refund", "disband"} :
                    Posted(b, <<op, "freeze_decr">>)
  IN  CASE seat[b] = "refunded" -> "gone"
        [] seat[b] = "paid" -> IF released THEN "leaving" ELSE "seated"
        [] seat[b] = "none" ->
             IF Posted(b, <<"join", "compensate">>) THEN "returned"
             ELSE IF Posted(b, <<"join", "freeze">>) THEN "held"
             ELSE IF Posted(b, <<"join", "wallet">>) THEN "charged" ELSE "out"

Promise == INSTANCE SeatPromise WITH phase <- [b \in Buyers |-> Phase(b)]

\* The order implements the promise of SeatPromise to each of its buyers: every
\* step of every request, fault or crash is one of its moves or changes nothing.
PromiseKept == Promise!Spec
=============================================================================
