--------------------------- MODULE AlipayPayments ---------------------------
(***************************************************************************)
(* Payments through Alipay (services/alipay_service.py): the trades that    *)
(* one participant opens for one seat, the provider that takes and returns  *)
(* the money and repeats its notification until it reads "success", and the *)
(* handlers that serve create, notify and refund concurrently.              *)
(*                                                                         *)
(* join_order makes participants that are paid already, so that the one who *)
(* pays here has been refunded before.  The calls of balance_service are    *)
(* one step each, as OrderEscrow shows they commit; their keys hold the     *)
(* trade's number.                                                          *)
(***************************************************************************)
EXTENDS Money, FiniteSets

CONSTANTS
  Handlers,   \* requests and notifications served at the same time
  Trades,     \* bound: the out_trade_no that may be generated
  NoTrade,    \* a handler that serves none
  Price,      \* price_per_person, in cents
  Total,      \* total_people of the order
  Others,     \* current_people at the start: the creator and other buyers
  MaxFaults   \* bound: failed calls, lost answers and processes that die

ASSUME AlipayAssumption ==
  /\ NoTrade \notin Trades
  /\ Price \in Nat \ {0}
  /\ Total \in Nat /\ Others \in Nat /\ 1 <= Others /\ Others < Total
  /\ MaxFaults \in Nat

VARIABLES
  order,     \* status and current_people of the order
  seat,      \* pay_status of the participant: 1 paid, 2 refunded
  slot,      \* whether the slot key of (order, user) exists in Redis
  rec,       \* trade_status of the t_alipay_records rows
  bank,      \* the provider's side of a trade
  escrow,    \* what the trades have put into the creator's frozen_balance
  frozen,    \* the trades with a PAYMENT_FREEZE posting
  unfrozen,  \* the trades with a REFUND_UNFREEZE posting
  h,         \* the state of every handler
  dropped,   \* the trades whose automatic refund was lost
  faults     \* how much of MaxFaults is used up

vars == <<order, seat, slot, rec, bank, escrow, frozen, unfrozen, h, dropped, faults>>

Idle     == [at |-> "idle", trade |-> NoTrade, status |-> "GATHERING", people |-> 0]
Unused   == {t \in Trades : rec[t] = "none"}
Fault    == faults < MaxFaults /\ faults' = faults + 1
Goto(s, at) == h' = [h EXCEPT ![s].at = at]
Finish(s)   == h' = [h EXCEPT ![s] = Idle]

\* The places of handle_notify, under the lock of the trade, and of apply_refund.
NotifyAt == {"close", "return", "freeze", "record", "release"}
RefundAt == {"write"}
Busy(t, places) == \E s \in Handlers : h[s].trade = t /\ h[s].at \in places

-----------------------------------------------------------------------------
(* create_payment *)

\* What is read in the database: the order gathers and is not full, and the participant
\* has not paid.
CheckOrder(s) ==
  /\ h[s] = Idle
  /\ order.status = "GATHERING" /\ order.people < Total
  /\ seat # 1
  /\ Unused # {}
  /\ Goto(s, "slot")
  /\ UNCHANGED <<order, seat, slot, rec, bank, escrow, frozen, unfrozen, dropped, faults>>

\* SETNX of the slot key, which lives for five minutes.
TakeSlot(s) ==
  /\ h[s].at = "slot"
  /\ slot' = TRUE
  /\ IF slot THEN Finish(s) ELSE Goto(s, "insert")
  /\ UNCHANGED <<order, seat, rec, bank, escrow, frozen, unfrozen, dropped, faults>>

\* The PENDING row is committed; the payment link is made without a call.
Insert(s) ==
  /\ h[s].at = "insert"
  /\ \E t \in Unused : rec' = [rec EXCEPT ![t] = "PENDING"]
  /\ Finish(s)
  /\ UNCHANGED <<order, seat, slot, bank, escrow, frozen, unfrozen, dropped, faults>>

\* Mutant of Mortal: SET without EX.
Immortal == FALSE

\* The slot key has a time to live from the start.
Mortal == slot

\* The slot key outlives its five minutes.
SlotExpires ==
  /\ Mortal
  /\ slot' = FALSE
  /\ UNCHANGED <<order, seat, rec, bank, escrow, frozen, unfrozen, h, dropped, faults>>

-----------------------------------------------------------------------------
(* The provider *)

\* The user pays by the link, which has no time limit of its own.
Pay(t) ==
  /\ rec[t] # "none" /\ ~bank[t].paid
  /\ bank' = [bank EXCEPT ![t].paid = TRUE]
  /\ UNCHANGED <<order, seat, slot, rec, escrow, frozen, unfrozen, h, dropped, faults>>

\* A refund is refused when it would return more than was paid.
Returnable(t, amount) == bank[t].paid /\ bank[t].returned + amount <= Price
Return(t, amount) ==
  bank' = [bank EXCEPT ![t].returned = @ + amount]

Acknowledge(t) == bank' = [bank EXCEPT ![t].acked = TRUE]

-----------------------------------------------------------------------------
(* handle_notify *)

Payable(t) == rec[t] = "PENDING"

\* Mutant of AfterSlot: the record is written before the money is frozen.
AfterSlotRecord == IF slot THEN "record" ELSE "close"

\* Without its slot the payment is late and is returned.
AfterSlot == IF slot THEN "freeze" ELSE "close"

\* A notification that the payment succeeded, under the lock of the trade; its
\* amount is the record's.  The row stays as it is until the lock is released,
\* so that the look at the slot key belongs to the same step.
Notified(s, t) ==
  /\ h[s] = Idle
  /\ bank[t].paid /\ ~bank[t].acked
  /\ ~Busy(t, NotifyAt)
  /\ Payable(t)
  /\ h' = [h EXCEPT ![s] = [Idle EXCEPT !.at = AfterSlot, !.trade = t]]
  /\ UNCHANGED <<order, seat, slot, rec, bank, escrow, frozen, unfrozen, dropped, faults>>

\* A notification repeated after its answer was lost: "success" again.  For a
\* record neither PENDING nor SUCCESS the answer is "fail", and nothing changes.
NotifiedAgain(t) ==
  /\ bank[t].paid /\ ~bank[t].acked
  /\ ~Busy(t, NotifyAt)
  /\ rec[t] = "SUCCESS"
  /\ Acknowledge(t)
  /\ UNCHANGED <<order, seat, slot, rec, escrow, frozen, unfrozen, h, dropped, faults>>

\* Mutant of Close: the provider is answered before its refund is asked for.
CloseAndAnswer(s) ==
  /\ h[s].at = "close"
  /\ rec' = [rec EXCEPT ![h[s].trade] = "CLOSED"]
  /\ Acknowledge(h[s].trade)
  /\ Goto(s, "return")
  /\ UNCHANGED <<order, seat, slot, escrow, frozen, unfrozen, dropped, faults>>

\* Too late: CLOSED is committed first.
Close(s) ==
  /\ h[s].at = "close"
  /\ rec' = [rec EXCEPT ![h[s].trade] = "CLOSED"]
  /\ Goto(s, "return")
  /\ UNCHANGED <<order, seat, slot, bank, escrow, frozen, unfrozen, dropped, faults>>

\* _auto_refund_timeout: a failure is logged, and the answer is "success" anyway.
AutoRefund(s) ==
  LET t == h[s].trade IN
    /\ h[s].at = "return"
    /\ \/ /\ Returnable(t, Price)
          /\ bank' = [bank EXCEPT ![t].returned = Price, ![t].acked = TRUE]
          /\ UNCHANGED <<dropped, faults>>
       \/ /\ Fault
          /\ Acknowledge(t)
          /\ dropped' = dropped \cup {t}
    /\ Finish(s)
    /\ UNCHANGED <<order, seat, slot, rec, escrow, frozen, unfrozen>>

\* Mutant of IsNew: the unique index on the key is missing.
IsNewAlways(t, log) == TRUE

\* Whether a posting with the trade's key can be inserted.
IsNew(t, log) == t \notin log

\* freeze_balance_increase on the creator, committed at once.  A duplicate is
\* rolled back and returned, but the rollback expires the record, and reading it
\* raises; a busy lock raises as well: "fail", and the provider tries again.
Freeze(s) ==
  LET t == h[s].trade IN
    /\ h[s].at = "freeze"
    /\ \/ /\ IsNew(t, frozen)
          /\ escrow' = escrow + Price
          /\ frozen' = frozen \cup {t}
          /\ Goto(s, "record")
          /\ UNCHANGED faults
       \/ /\ ~IsNew(t, frozen)
          /\ Finish(s)
          /\ UNCHANGED <<escrow, frozen, faults>>
       \/ /\ Fault
          /\ Finish(s)
          /\ UNCHANGED <<escrow, frozen>>
    /\ UNCHANGED <<order, seat, slot, rec, bank, unfrozen, dropped>>

\* SUCCESS and the paid seat in one commit; neither the order's status nor
\* current_people is looked at.
RecordPaid(s) ==
  /\ h[s].at = "record"
  /\ rec' = [rec EXCEPT ![h[s].trade] = "SUCCESS"]
  /\ seat' = 1
  /\ Goto(s, "release")
  /\ UNCHANGED <<order, slot, bank, escrow, frozen, unfrozen, dropped, faults>>

\* The slot key is deleted, whichever trade it was taken for.
ReleaseSlot(s) ==
  /\ h[s].at = "release"
  /\ slot' = FALSE
  /\ Acknowledge(h[s].trade)
  /\ Finish(s)
  /\ UNCHANGED <<order, seat, rec, escrow, frozen, unfrozen, dropped, faults>>

-----------------------------------------------------------------------------
(* apply_refund *)

\* The records the refund may be about; with two of them scalar_one_or_none raises.
Refundable == {t \in Trades : rec[t] = "SUCCESS"}

\* 100% while gathering, 80% while purchasing; refused in any other status.
RefundOf(status) == Share(Price, IF status = "GATHERING" THEN 100 ELSE RefundPercent)

\* Mutant of AfterChecks: the creator's balance is reduced before the provider pays.
AfterChecksLocal == "unfreeze"

AfterChecks == "provider"

\* The checks; the order stays in the session as it was read here.
BeginRefund(s) ==
  /\ h[s] = Idle
  /\ seat = 1
  /\ Cardinality(Refundable) = 1
  /\ order.status \in {"GATHERING", "PURCHASING"}
  /\ \E t \in Refundable :
       h' = [h EXCEPT ![s] = [at |-> AfterChecks, trade |-> t,
                              status |-> order.status, people |-> order.people]]
  /\ UNCHANGED <<order, seat, slot, rec, bank, escrow, frozen, unfrozen, dropped, faults>>

\* The provider is asked under a new out_request_no and before any lock is taken.
\* It may have paid although the call fails.
RefundAtProvider(s) ==
  LET t      == h[s].trade
      amount == RefundOf(h[s].status)
  IN  /\ h[s].at = "provider"
      /\ \/ /\ Returnable(t, amount)
            /\ Return(t, amount)
            /\ Goto(s, "unfreeze")
            /\ UNCHANGED faults
         \/ /\ ~Returnable(t, amount)
            /\ Finish(s)
            /\ UNCHANGED <<bank, faults>>
         \/ /\ Fault
            /\ Finish(s)
            /\ UNCHANGED bank \/ (Returnable(t, amount) /\ Return(t, amount))
      /\ UNCHANGED <<order, seat, slot, rec, escrow, frozen, unfrozen, dropped>>

\* The lock of the refund, and freeze_balance_decrease by the whole price.  A
\* duplicate is rolled back and the order, expired by that, cannot be read.
Unfreeze(s) ==
  LET t == h[s].trade
  IN  /\ h[s].at = "unfreeze"
      /\ \/ /\ ~Busy(t, RefundAt) /\ IsNew(t, unfrozen)
            /\ escrow' = escrow - Price
            /\ unfrozen' = unfrozen \cup {t}
            /\ Goto(s, "write")
            /\ UNCHANGED faults
         \/ /\ Busy(t, RefundAt) \/ ~IsNew(t, unfrozen)
            /\ Finish(s)
            /\ UNCHANGED <<escrow, unfrozen, faults>>
         \/ /\ Fault
            /\ Finish(s)
            /\ UNCHANGED <<escrow, unfrozen>>
      /\ UNCHANGED <<order, seat, slot, rec, bank, frozen, dropped>>

\* max(1, current_people - 1)
OneFewer(n) == IF n > 1 THEN n - 1 ELSE 1

\* Gathering: record, seat and current_people, from the copy, in one commit.
\* Purchasing: wallet_balance_increase is called without its log_type and raises.
WriteRefund(s) ==
  /\ h[s].at = "write"
  /\ IF h[s].status = "GATHERING"
       THEN /\ rec' = [rec EXCEPT ![h[s].trade] = "FULL_REFUND"]
            /\ seat' = 2
            /\ order' = [order EXCEPT !.people = OneFewer(h[s].people)]
       ELSE UNCHANGED <<rec, seat, order>>
  /\ Finish(s)
  /\ UNCHANGED <<slot, bank, escrow, frozen, unfrozen, dropped, faults>>

-----------------------------------------------------------------------------
(* The rest of the world *)

\* Another buyer joins, and the order may be full with him.
OtherJoins ==
  /\ order.status = "GATHERING" /\ order.people < Total
  /\ order' = [status |-> IF order.people + 1 = Total THEN "PURCHASING" ELSE "GATHERING",
               people |-> order.people + 1]
  /\ UNCHANGED <<seat, slot, rec, bank, escrow, frozen, unfrozen, h, dropped, faults>>

\* The creator goes on to deliver, or gives up while this seat is not paid for.
OrderMoves ==
  /\ \/ order.status = "PURCHASING" /\ order' = [order EXCEPT !.status = "DELIVERING"]
     \/ order.status = "GATHERING" /\ seat # 1
        /\ order' = [order EXCEPT !.status = "DISBANDED"]
  /\ UNCHANGED <<seat, slot, rec, bank, escrow, frozen, unfrozen, h, dropped, faults>>

\* The process of a handler dies, or a commit of its own fails.
Crash(s) ==
  /\ h[s] # Idle
  /\ Fault
  /\ dropped' = IF h[s].at = "return" THEN dropped \cup {h[s].trade} ELSE dropped
  /\ Finish(s)
  /\ UNCHANGED <<order, seat, slot, rec, bank, escrow, frozen, unfrozen>>

Init ==
  /\ order = [status |-> "GATHERING", people |-> Others]
  /\ seat = 2 /\ slot = FALSE
  /\ rec = [t \in Trades |-> "none"]
  /\ bank = [t \in Trades |-> [paid |-> FALSE, returned |-> 0, acked |-> FALSE]]
  /\ escrow = 0 /\ frozen = {} /\ unfrozen = {}
  /\ h = [s \in Handlers |-> Idle]
  /\ dropped = {} /\ faults = 0

NotifyStep(s) == Close(s) \/ AutoRefund(s) \/ Freeze(s) \/ RecordPaid(s) \/ ReleaseSlot(s)
RefundStep(s) == RefundAtProvider(s) \/ Unfreeze(s) \/ WriteRefund(s)

Next ==
  \/ \E s \in Handlers :
       \/ CheckOrder(s) \/ TakeSlot(s) \/ Insert(s)
       \/ \E t \in Trades : Notified(s, t)
       \/ NotifyStep(s)
       \/ BeginRefund(s) \/ RefundStep(s)
       \/ Crash(s)
  \/ \E t \in Trades : Pay(t) \/ NotifiedAgain(t)
  \/ SlotExpires \/ OtherJoins \/ OrderMoves

Spec == Init /\ [][Next]_vars

\* Requests run on, keys expire, and the provider repeats a notification until it
\* is served by a handler that is free.
FairSpec ==
  /\ Spec
  /\ WF_vars(SlotExpires)
  /\ \A s \in Handlers : WF_vars(TakeSlot(s) \/ Insert(s) \/ NotifyStep(s) \/ RefundStep(s))
  /\ \A t \in Trades : SF_vars(\E s \in Handlers : Notified(s, t))

-----------------------------------------------------------------------------
(* Properties *)

\* The creator's frozen balance holds the price of every trade that was frozen and
\* not released, once, however often a notification or a refund was repeated and
\* wherever a handler died between the posting and the record.
EscrowMatchesPostings ==
  /\ unfrozen \subseteq frozen
  /\ escrow = Price * Cardinality(frozen \ unfrozen)

\* A record says what has happened: SUCCESS that the money was paid and posted,
\* FULL_REFUND that the provider returned all of it and the escrow was released.
RecordIsTrue ==
  \A t \in Trades :
    /\ rec[t] \in {"SUCCESS", "FULL_REFUND"} => bank[t].paid /\ t \in frozen
    /\ rec[t] = "FULL_REFUND" => bank[t].returned = Price /\ t \in unfrozen
    /\ rec[t] \in {"none", "PENDING"} => bank[t].returned = 0

\* Escrow is released only for a payment the provider has returned at least in the
\* part that the order's status allows, also when two refunds run together.
ReleasedIsReturned == \A t \in unfrozen : bank[t].returned >= RefundOf("PURCHASING")

\* When the provider has read "success", the payment is recorded or is returned,
\* unless the automatic refund was lost.
AnsweredIsSettled ==
  \A t \in Trades \ dropped :
    bank[t].acked => rec[t] \in {"SUCCESS", "FULL_REFUND"} \/ bank[t].returned = Price

\* Money that the provider has taken does not stay PENDING: it is credited or the
\* record is closed, also after a handler died between the posting and the record
\* and every repetition meets the posting's key.
PaidIsDecided == \A t \in Trades : bank[t].paid ~> rec[t] # "PENDING"
=============================================================================
