----------------------- MODULE AlipayPaymentsProofs -----------------------
(***************************************************************************)
(* The safety properties of AlipayPayments for any number of handlers and   *)
(* trades, any price and any number of faults.  What a handler may rely on   *)
(* at each of its places (Progress) survives the other handlers because the  *)
(* history of a trade only grows (Grows) and because notifications of one    *)
(* trade exclude each other (Apart).                                         *)
(***************************************************************************)
EXTENDS AlipayPayments, FiniteSetTheorems, TLAPS

Statuses == {"GATHERING", "PURCHASING", "DELIVERING", "DISBANDED"}
Records  == {"none", "PENDING", "SUCCESS", "CLOSED", "FULL_REFUND"}
Refunding == {"provider", "unfreeze", "write"}
Places   == {"idle", "slot", "insert"} \cup NotifyAt \cup Refunding

TypeInv ==
  /\ order \in [status : Statuses, people : Nat]
  /\ rec \in [Trades -> Records]
  /\ bank \in [Trades -> [paid : BOOLEAN, returned : 0 .. Price, acked : BOOLEAN]]
  /\ escrow \in Int
  /\ frozen \subseteq Trades /\ unfrozen \subseteq Trades
  /\ h \in [Handlers -> [at : Places, trade : Trades \cup {NoTrade},
                         status : Statuses, people : Nat]]

\* The trade has been credited.
Credited(t) == rec[t] \in {"SUCCESS", "FULL_REFUND"}

\* What a handler may rely on where it is.
ProgressOf(q) ==
  /\ q.at \in NotifyAt => q.trade \in Trades /\ bank[q.trade].paid
  /\ q.at \in {"close", "freeze", "record"} => rec[q.trade] = "PENDING"
  /\ q.at = "return" => rec[q.trade] = "CLOSED"
  /\ q.at = "record" => q.trade \in frozen
  /\ q.at = "release" => Credited(q.trade)
  /\ q.at \in Refunding => /\ q.trade \in Trades /\ Credited(q.trade)
                           /\ q.status \in {"GATHERING", "PURCHASING"}
  /\ q.at \in {"unfreeze", "write"} => bank[q.trade].returned >= RefundOf(q.status)
  /\ q.at = "write" => q.trade \in unfrozen

Progress == \A s \in Handlers : ProgressOf(h[s])

\* The lock of a trade.
Apart ==
  \A r, s \in Handlers :
    h[r].at \in NotifyAt /\ h[s].at \in NotifyAt /\ h[r].trade = h[s].trade => r = s

IInv ==
  /\ TypeInv
  /\ IsFiniteSet(frozen)
  /\ Progress
  /\ Apart
  /\ EscrowMatchesPostings
  /\ RecordIsTrue
  /\ ReleasedIsReturned
  /\ AnsweredIsSettled

\* What has happened to a trade is not undone.
Grows ==
  /\ \A t \in Trades : /\ bank[t].paid => bank'[t].paid
                       /\ bank'[t].returned >= bank[t].returned
                       /\ Credited(t) => Credited(t)'
  /\ frozen \subseteq frozen' /\ unfrozen \subseteq unfrozen' /\ dropped \subseteq dropped'

-----------------------------------------------------------------------------
\* The whole price, and no more than the price.
LEMMA RefundAmounts == RefundOf("GATHERING") = Price /\ RefundOf("PURCHASING") \in 0 .. Price
<1> DEFINE q == (Price * 80) \div 100
           m == (Price * 80) % 100
<1>0. Price \in Nat
  BY AlipayAssumption
<1>1. (Price * 100) \div 100 = Price /\ (Price * 100) % 100 = 0
  BY <1>0
<1>2. q \in Nat /\ m \in 0 .. 99 /\ Price * 80 = 100 * q + m
  BY <1>0
<1>3. RefundOf("PURCHASING") \in {q, q + 1}
  BY <1>2 DEF RefundOf, Share, RefundPercent
<1>4. q + 1 <= Price \/ (q = Price /\ m = 0)
  BY <1>0, <1>2
<1>5. m = 0 => RefundOf("PURCHASING") = q
  BY <1>2 DEF RefundOf, Share, RefundPercent
<1> QED
  BY <1>0, <1>1, <1>2, <1>3, <1>4, <1>5 DEF RefundOf, Share

-----------------------------------------------------------------------------
(* Types *)

\* Every action keeps the types, given what its handler relies on.
LEMMA TypeStep == TypeInv /\ Progress /\ [Next]_vars => TypeInv'
<1> SUFFICES ASSUME TypeInv, Progress, [Next]_vars PROVE TypeInv'
  OBVIOUS
<1> USE AlipayAssumption DEF TypeInv, Idle, Goto, Finish, Fault, Places, NotifyAt, Refunding, Statuses, Records
<1>1. ASSUME NEW s \in Handlers, CheckOrder(s) \/ TakeSlot(s) PROVE TypeInv'
  BY <1>1 DEF CheckOrder, TakeSlot, Unused
<1>2. ASSUME NEW s \in Handlers, Insert(s) PROVE TypeInv'
  BY <1>2 DEF Insert, Unused
<1>3. CASE SlotExpires
  BY <1>3 DEF SlotExpires, Mortal
<1>4. ASSUME NEW t \in Trades, Pay(t) PROVE TypeInv'
  BY <1>4 DEF Pay
<1>5. ASSUME NEW s \in Handlers, NEW t \in Trades, Notified(s, t) PROVE TypeInv'
  BY <1>5 DEF Notified, AfterSlot, Payable
<1>6. ASSUME NEW t \in Trades, NotifiedAgain(t) PROVE TypeInv'
  BY <1>6 DEF NotifiedAgain, Acknowledge
<1>7. ASSUME NEW s \in Handlers, Close(s) PROVE TypeInv'
  <2>1. ProgressOf(h[s]) /\ h[s] \in [at : Places, trade : Trades \cup {NoTrade},
                                          status : Statuses, people : Nat]
    BY DEF Progress
  <2> QED
    BY <1>7, <2>1, RefundAmounts DEF Close, ProgressOf
<1>8. ASSUME NEW s \in Handlers, AutoRefund(s) PROVE TypeInv'
  <2>1. ProgressOf(h[s]) /\ h[s] \in [at : Places, trade : Trades \cup {NoTrade},
                                          status : Statuses, people : Nat]
    BY DEF Progress
  <2>2. h[s].trade \in Trades
    BY <1>8, <2>1 DEF AutoRefund, ProgressOf
  <2>3. bank' \in [Trades -> [paid : BOOLEAN, returned : 0 .. Price, acked : BOOLEAN]]
    <3>1. \/ bank' = [bank EXCEPT ![h[s].trade].returned = Price, ![h[s].trade].acked = TRUE]
          \/ bank' = [bank EXCEPT ![h[s].trade].acked = TRUE]
      BY <1>8 DEF AutoRefund, Acknowledge
    <3>2. CASE bank' = [bank EXCEPT ![h[s].trade].returned = Price,
                                    ![h[s].trade].acked = TRUE]
      <4> DEFINE B == [paid : BOOLEAN, returned : 0 .. Price, acked : BOOLEAN]
                 b == [bank EXCEPT ![h[s].trade].returned = Price]
      <4>1. b \in [Trades -> B]
        BY <2>2
      <4>2. bank' = [b EXCEPT ![h[s].trade].acked = TRUE]
        BY <3>2
      <4> HIDE DEF b
      <4> QED
        BY <2>2, <4>1, <4>2
    <3>3. CASE bank' = [bank EXCEPT ![h[s].trade].acked = TRUE]
      BY <2>2, <3>3
    <3> QED
      BY <3>1, <3>2, <3>3
  <2> QED
    BY <1>8, <2>3 DEF AutoRefund
<1>9. ASSUME NEW s \in Handlers, Freeze(s) PROVE TypeInv'
  <2>1. ProgressOf(h[s]) /\ h[s] \in [at : Places, trade : Trades \cup {NoTrade},
                                          status : Statuses, people : Nat]
    BY DEF Progress
  <2> QED
    BY <1>9, <2>1, RefundAmounts DEF Freeze, IsNew, ProgressOf
<1>10. ASSUME NEW s \in Handlers, RecordPaid(s) PROVE TypeInv'
  <2>1. ProgressOf(h[s]) /\ h[s] \in [at : Places, trade : Trades \cup {NoTrade},
                                          status : Statuses, people : Nat]
    BY DEF Progress
  <2> QED
    BY <1>10, <2>1, RefundAmounts DEF RecordPaid, ProgressOf
<1>11. ASSUME NEW s \in Handlers, ReleaseSlot(s) PROVE TypeInv'
  <2>1. ProgressOf(h[s]) /\ h[s] \in [at : Places, trade : Trades \cup {NoTrade},
                                          status : Statuses, people : Nat]
    BY DEF Progress
  <2> QED
    BY <1>11, <2>1, RefundAmounts DEF ReleaseSlot, Acknowledge, ProgressOf
<1>12. ASSUME NEW s \in Handlers, BeginRefund(s) PROVE TypeInv'
  BY <1>12 DEF BeginRefund, Refundable, AfterChecks
<1>13. ASSUME NEW s \in Handlers, RefundAtProvider(s) PROVE TypeInv'
  <2>1. ProgressOf(h[s]) /\ h[s] \in [at : Places, trade : Trades \cup {NoTrade},
                                          status : Statuses, people : Nat]
    BY DEF Progress
  <2> DEFINE t == h[s].trade
             n == RefundOf(h[s].status)
  <2>2. t \in Trades /\ n \in 0 .. Price
    BY <1>13, <2>1, RefundAmounts DEF RefundAtProvider, ProgressOf
  <2>3. bank' \in [Trades -> [paid : BOOLEAN, returned : 0 .. Price, acked : BOOLEAN]]
    <3>1. \/ bank' = bank
          \/ /\ bank[t].returned + n <= Price
             /\ bank' = [bank EXCEPT ![t].returned = @ + n]
      BY <1>13 DEF RefundAtProvider, Returnable, Return
    <3> HIDE DEF t, n
    <3> QED
      BY <2>2, <3>1
  <2> QED
    BY <1>13, <2>1, <2>3 DEF RefundAtProvider
<1>14. ASSUME NEW s \in Handlers, Unfreeze(s) PROVE TypeInv'
  <2>1. ProgressOf(h[s]) /\ h[s] \in [at : Places, trade : Trades \cup {NoTrade},
                                          status : Statuses, people : Nat]
    BY DEF Progress
  <2> QED
    BY <1>14, <2>1, RefundAmounts DEF Unfreeze, IsNew, ProgressOf
<1>15. ASSUME NEW s \in Handlers, WriteRefund(s) PROVE TypeInv'
  <2>1. ProgressOf(h[s]) /\ h[s] \in [at : Places, trade : Trades \cup {NoTrade},
                                          status : Statuses, people : Nat]
    BY DEF Progress
  <2> QED
    BY <1>15, <2>1, RefundAmounts DEF WriteRefund, OneFewer, ProgressOf
<1>16. CASE OtherJoins
  BY <1>16 DEF OtherJoins
<1>17. CASE OrderMoves
  BY <1>17 DEF OrderMoves
<1>18. ASSUME NEW s \in Handlers, Crash(s) PROVE TypeInv'
  BY <1>18 DEF Crash
<1>19. CASE UNCHANGED vars
  BY <1>19 DEF vars
<1> QED
  BY <1>1, <1>2, <1>3, <1>4, <1>5, <1>6, <1>7, <1>8, <1>9, <1>10, <1>11, <1>12, <1>13,
     <1>14, <1>15, <1>16, <1>17, <1>18, <1>19 DEF Next, NotifyStep, RefundStep

-----------------------------------------------------------------------------
(* The history of a trade *)

LEMMA Growth == IInv /\ [Next]_vars => Grows
<1> SUFFICES ASSUME IInv, [Next]_vars PROVE Grows
  OBVIOUS
<1> USE AlipayAssumption DEF IInv, TypeInv, Grows, Credited, Goto, Finish, Fault
<1>1. ASSUME NEW s \in Handlers, CheckOrder(s) \/ TakeSlot(s) PROVE Grows
  BY <1>1 DEF CheckOrder, TakeSlot, Unused
<1>2. ASSUME NEW s \in Handlers, Insert(s) PROVE Grows
  BY <1>2 DEF Insert, Unused
<1>3. CASE SlotExpires
  BY <1>3 DEF SlotExpires, Mortal
<1>4. ASSUME NEW t \in Trades, Pay(t) PROVE Grows
  BY <1>4 DEF Pay
<1>5. ASSUME NEW s \in Handlers, NEW t \in Trades, Notified(s, t) PROVE Grows
  BY <1>5 DEF Notified, AfterSlot, Payable
<1>6. ASSUME NEW t \in Trades, NotifiedAgain(t) PROVE Grows
  BY <1>6 DEF NotifiedAgain, Acknowledge
<1>7. ASSUME NEW s \in Handlers, Close(s) PROVE Grows
  <2>1. ProgressOf(h[s])
    BY DEF Progress
  <2> QED
    BY <1>7, <2>1, RefundAmounts DEF Close, ProgressOf, NotifyAt, Refunding
<1>8. ASSUME NEW s \in Handlers, AutoRefund(s) PROVE Grows
  <2>1. ProgressOf(h[s])
    BY DEF Progress
  <2> QED
    BY <1>8, <2>1, RefundAmounts DEF AutoRefund, Returnable, Acknowledge, ProgressOf,
         NotifyAt, Refunding
<1>9. ASSUME NEW s \in Handlers, Freeze(s) PROVE Grows
  BY <1>9 DEF Freeze, IsNew
<1>10. ASSUME NEW s \in Handlers, RecordPaid(s) PROVE Grows
  <2>1. ProgressOf(h[s])
    BY DEF Progress
  <2> QED
    BY <1>10, <2>1, RefundAmounts DEF RecordPaid, ProgressOf, NotifyAt, Refunding
<1>11. ASSUME NEW s \in Handlers, ReleaseSlot(s) PROVE Grows
  BY <1>11 DEF ReleaseSlot, Acknowledge
<1>12. ASSUME NEW s \in Handlers, BeginRefund(s) PROVE Grows
  BY <1>12 DEF BeginRefund, Refundable, AfterChecks
<1>13. ASSUME NEW s \in Handlers, RefundAtProvider(s) PROVE Grows
  <2>1. ProgressOf(h[s])
    BY DEF Progress
  <2> QED
    BY <1>13, <2>1, RefundAmounts DEF RefundAtProvider, Returnable, Return,
         ProgressOf, NotifyAt, Refunding
<1>14. ASSUME NEW s \in Handlers, Unfreeze(s) PROVE Grows
  BY <1>14 DEF Unfreeze, IsNew
<1>15. ASSUME NEW s \in Handlers, WriteRefund(s) PROVE Grows
  <2>1. ProgressOf(h[s])
    BY DEF Progress
  <2> QED
    BY <1>15, <2>1, RefundAmounts DEF WriteRefund, OneFewer, ProgressOf, NotifyAt,
         Refunding
<1>16. CASE OtherJoins
  BY <1>16 DEF OtherJoins
<1>17. CASE OrderMoves
  BY <1>17 DEF OrderMoves
<1>18. ASSUME NEW s \in Handlers, Crash(s) PROVE Grows
  BY <1>18 DEF Crash
<1>19. CASE UNCHANGED vars
  BY <1>19 DEF vars
<1> QED
  BY <1>1, <1>2, <1>3, <1>4, <1>5, <1>6, <1>7, <1>8, <1>9, <1>10, <1>11, <1>12, <1>13,
     <1>14, <1>15, <1>16, <1>17, <1>18, <1>19 DEF Next, NotifyStep, RefundStep

-----------------------------------------------------------------------------
(* The handlers *)

LEMMA HandlerType ==
  ASSUME TypeInv, NEW s \in Handlers
  PROVE  h[s] \in [at : Places, trade : Trades \cup {NoTrade}, status : Statuses, people : Nat]
BY DEF TypeInv

\* A handler that does nothing loses nothing, unless its trade's record is written.
LEMMA ProgressKept ==
  ASSUME IInv, TypeInv', Grows, NEW s \in Handlers, h'[s] = h[s],
         h[s].at \in NotifyAt /\ ~Credited(h[s].trade) => rec'[h[s].trade] = rec[h[s].trade]
  PROVE  ProgressOf(h[s])'
<1>1. ProgressOf(h[s])
  BY DEF IInv, Progress
<1>2. h[s].trade \in Trades =>
        /\ bank[h[s].trade].returned \in 0 .. Price
        /\ bank'[h[s].trade].returned \in 0 .. Price
  BY DEF IInv, TypeInv
<1>3. h[s].status \in {"GATHERING", "PURCHASING"} => RefundOf(h[s].status) \in 0 .. Price
  BY RefundAmounts, AlipayAssumption
<1> QED
  BY <1>1, <1>2, <1>3 DEF ProgressOf, Grows, Credited, NotifyAt, Refunding

LEMMA ProgressIdle ==
  ASSUME NEW s \in Handlers, h'[s].at \in {"idle", "slot", "insert"}
  PROVE  ProgressOf(h[s])'
BY DEF ProgressOf, NotifyAt, Refunding

\* While a notification is handled nobody else writes its record.
LEMMA OneHandler ==
  ASSUME IInv, TypeInv', Grows, NEW s \in Handlers, \A r \in Handlers \ {s} : h'[r] = h[r],
         ProgressOf(h[s])',
         \A r \in Handlers \ {s} : h[r].at \in NotifyAt /\ ~Credited(h[r].trade) =>
           rec'[h[r].trade] = rec[h[r].trade]
  PROVE  Progress'
<1> SUFFICES ASSUME NEW r \in Handlers PROVE ProgressOf(h[r])'
  BY DEF Progress
<1> QED
  BY ProgressKept

\* Every step of a handler finds what it relies on and leaves what the next one does.
LEMMA ProgressStep == IInv /\ TypeInv' /\ [Next]_vars => Progress'
<1> SUFFICES ASSUME IInv, TypeInv', [Next]_vars PROVE Progress'
  OBVIOUS
<1>0. Grows
  BY Growth
<1> USE AlipayAssumption DEF Goto, Finish, Fault
<1>1. ASSUME NEW s \in Handlers, CheckOrder(s) \/ TakeSlot(s) PROVE Progress'
  <2>1. ProgressOf(h[s])
    BY DEF IInv, Progress
  <2>2. ProgressOf(h[s])'
    BY <1>1, <1>0, <2>1, RefundAmounts DEF CheckOrder, TakeSlot, Unused, IInv, TypeInv,
         ProgressOf, Grows, Credited, NotifyAt, Refunding, Idle
  <2>3. \A r \in Handlers \ {s} : h'[r] = h[r]
    BY <1>1 DEF CheckOrder, TakeSlot, IInv, TypeInv
  <2>4. ASSUME NEW r \in Handlers \ {s}, h[r].at \in NotifyAt, ~Credited(h[r].trade)
        PROVE  rec'[h[r].trade] = rec[h[r].trade]
    BY <1>1 DEF CheckOrder, TakeSlot
  <2> QED
    BY <1>0, <2>2, <2>3, <2>4, OneHandler
<1>2. ASSUME NEW s \in Handlers, Insert(s) PROVE Progress'
  <2>1. ProgressOf(h[s])
    BY DEF IInv, Progress
  <2>2. ProgressOf(h[s])'
    BY <1>2, <1>0, <2>1, RefundAmounts DEF Insert, Unused, IInv, TypeInv, ProgressOf,
         Grows, Credited, NotifyAt, Refunding, Idle
  <2>3. \A r \in Handlers \ {s} : h'[r] = h[r]
    BY <1>2 DEF Insert, IInv, TypeInv
  <2>4. ASSUME NEW r \in Handlers \ {s}, h[r].at \in NotifyAt, ~Credited(h[r].trade)
        PROVE  rec'[h[r].trade] = rec[h[r].trade]
    <3>1. ProgressOf(h[r]) /\ (h[s].at \in NotifyAt => h[r].trade # h[s].trade)
      BY <2>4 DEF IInv, Progress, Apart
    <3> QED
      BY <1>2, <2>1, <2>4, <3>1 DEF Insert, Unused, IInv, TypeInv, ProgressOf,
           Credited, NotifyAt, Refunding
  <2> QED
    BY <1>0, <2>2, <2>3, <2>4, OneHandler
<1>3. CASE SlotExpires
  <2> SUFFICES ASSUME NEW r \in Handlers PROVE ProgressOf(h[r])'
    BY DEF Progress
  <2>1. h'[r] = h[r] /\ rec' = rec
    BY <1>3 DEF SlotExpires, Mortal
  <2> QED
    BY <1>0, <2>1, ProgressKept
<1>4. ASSUME NEW t \in Trades, Pay(t) PROVE Progress'
  <2> SUFFICES ASSUME NEW r \in Handlers PROVE ProgressOf(h[r])'
    BY DEF Progress
  <2>1. h'[r] = h[r] /\ rec' = rec
    BY <1>4 DEF Pay
  <2> QED
    BY <1>0, <2>1, ProgressKept
<1>5. ASSUME NEW s \in Handlers, NEW t \in Trades, Notified(s, t) PROVE Progress'
  <2>1. ProgressOf(h[s])
    BY DEF IInv, Progress
  <2>2. ProgressOf(h[s])'
    BY <1>5, <1>0, <2>1, RefundAmounts DEF Notified, AfterSlot, Payable, IInv,
         TypeInv, ProgressOf, Grows, Credited, NotifyAt, Refunding, Idle
  <2>3. \A r \in Handlers \ {s} : h'[r] = h[r]
    BY <1>5 DEF Notified, IInv, TypeInv
  <2>4. ASSUME NEW r \in Handlers \ {s}, h[r].at \in NotifyAt, ~Credited(h[r].trade)
        PROVE  rec'[h[r].trade] = rec[h[r].trade]
    BY <1>5 DEF Notified
  <2> QED
    BY <1>0, <2>2, <2>3, <2>4, OneHandler
<1>6. ASSUME NEW t \in Trades, NotifiedAgain(t) PROVE Progress'
  <2> SUFFICES ASSUME NEW r \in Handlers PROVE ProgressOf(h[r])'
    BY DEF Progress
  <2>1. h'[r] = h[r] /\ rec' = rec
    BY <1>6 DEF NotifiedAgain, Acknowledge
  <2> QED
    BY <1>0, <2>1, ProgressKept
<1>7. ASSUME NEW s \in Handlers, Close(s) PROVE Progress'
  <2>1. ProgressOf(h[s])
    BY DEF IInv, Progress
  <2>2. ProgressOf(h[s])'
    BY <1>7, <1>0, <2>1, RefundAmounts DEF Close, IInv, TypeInv, ProgressOf, Grows,
         Credited, NotifyAt, Refunding, Idle
  <2>3. \A r \in Handlers \ {s} : h'[r] = h[r]
    BY <1>7 DEF Close, IInv, TypeInv
  <2>4. ASSUME NEW r \in Handlers \ {s}, h[r].at \in NotifyAt, ~Credited(h[r].trade)
        PROVE  rec'[h[r].trade] = rec[h[r].trade]
    <3>1. ProgressOf(h[r]) /\ (h[s].at \in NotifyAt => h[r].trade # h[s].trade)
      BY <2>4 DEF IInv, Progress, Apart
    <3> QED
      BY <1>7, <2>1, <2>4, <3>1 DEF Close, IInv, TypeInv, ProgressOf, Credited,
           NotifyAt, Refunding
  <2> QED
    BY <1>0, <2>2, <2>3, <2>4, OneHandler
<1>8. ASSUME NEW s \in Handlers, AutoRefund(s) PROVE Progress'
  <2>1. ProgressOf(h[s])
    BY DEF IInv, Progress
  <2>2. ProgressOf(h[s])'
    BY <1>8, <1>0, <2>1, RefundAmounts DEF AutoRefund, Returnable, Acknowledge, IInv,
         TypeInv, ProgressOf, Grows, Credited, NotifyAt, Refunding, Idle
  <2>3. \A r \in Handlers \ {s} : h'[r] = h[r]
    BY <1>8 DEF AutoRefund, IInv, TypeInv
  <2>4. ASSUME NEW r \in Handlers \ {s}, h[r].at \in NotifyAt, ~Credited(h[r].trade)
        PROVE  rec'[h[r].trade] = rec[h[r].trade]
    BY <1>8 DEF AutoRefund
  <2> QED
    BY <1>0, <2>2, <2>3, <2>4, OneHandler
<1>9. ASSUME NEW s \in Handlers, Freeze(s) PROVE Progress'
  <2>1. ProgressOf(h[s])
    BY DEF IInv, Progress
  <2>2. ProgressOf(h[s])'
    BY <1>9, <1>0, <2>1, RefundAmounts DEF Freeze, IsNew, IInv, TypeInv, ProgressOf,
         Grows, Credited, NotifyAt, Refunding, Idle
  <2>3. \A r \in Handlers \ {s} : h'[r] = h[r]
    BY <1>9 DEF Freeze, IInv, TypeInv
  <2>4. ASSUME NEW r \in Handlers \ {s}, h[r].at \in NotifyAt, ~Credited(h[r].trade)
        PROVE  rec'[h[r].trade] = rec[h[r].trade]
    BY <1>9 DEF Freeze
  <2> QED
    BY <1>0, <2>2, <2>3, <2>4, OneHandler
<1>10. ASSUME NEW s \in Handlers, RecordPaid(s) PROVE Progress'
  <2>1. ProgressOf(h[s])
    BY DEF IInv, Progress
  <2>2. ProgressOf(h[s])'
    BY <1>10, <1>0, <2>1, RefundAmounts DEF RecordPaid, IInv, TypeInv, ProgressOf,
         Grows, Credited, NotifyAt, Refunding, Idle
  <2>3. \A r \in Handlers \ {s} : h'[r] = h[r]
    BY <1>10 DEF RecordPaid, IInv, TypeInv
  <2>4. ASSUME NEW r \in Handlers \ {s}, h[r].at \in NotifyAt, ~Credited(h[r].trade)
        PROVE  rec'[h[r].trade] = rec[h[r].trade]
    <3>1. ProgressOf(h[r]) /\ (h[s].at \in NotifyAt => h[r].trade # h[s].trade)
      BY <2>4 DEF IInv, Progress, Apart
    <3> QED
      BY <1>10, <2>1, <2>4, <3>1 DEF RecordPaid, IInv, TypeInv, ProgressOf, Credited,
           NotifyAt, Refunding
  <2> QED
    BY <1>0, <2>2, <2>3, <2>4, OneHandler
<1>11. ASSUME NEW s \in Handlers, ReleaseSlot(s) PROVE Progress'
  <2>1. ProgressOf(h[s])
    BY DEF IInv, Progress
  <2>2. ProgressOf(h[s])'
    BY <1>11, <1>0, <2>1, RefundAmounts DEF ReleaseSlot, Acknowledge, IInv, TypeInv,
         ProgressOf, Grows, Credited, NotifyAt, Refunding, Idle
  <2>3. \A r \in Handlers \ {s} : h'[r] = h[r]
    BY <1>11 DEF ReleaseSlot, IInv, TypeInv
  <2>4. ASSUME NEW r \in Handlers \ {s}, h[r].at \in NotifyAt, ~Credited(h[r].trade)
        PROVE  rec'[h[r].trade] = rec[h[r].trade]
    BY <1>11 DEF ReleaseSlot
  <2> QED
    BY <1>0, <2>2, <2>3, <2>4, OneHandler
<1>12. ASSUME NEW s \in Handlers, BeginRefund(s) PROVE Progress'
  <2>1. ProgressOf(h[s])
    BY DEF IInv, Progress
  <2>2. ProgressOf(h[s])'
    BY <1>12, <1>0, <2>1, RefundAmounts DEF BeginRefund, Refundable, AfterChecks,
         IInv, TypeInv, ProgressOf, Grows, Credited, NotifyAt, Refunding, Idle
  <2>3. \A r \in Handlers \ {s} : h'[r] = h[r]
    BY <1>12 DEF BeginRefund, IInv, TypeInv
  <2>4. ASSUME NEW r \in Handlers \ {s}, h[r].at \in NotifyAt, ~Credited(h[r].trade)
        PROVE  rec'[h[r].trade] = rec[h[r].trade]
    BY <1>12 DEF BeginRefund
  <2> QED
    BY <1>0, <2>2, <2>3, <2>4, OneHandler
<1>13. ASSUME NEW s \in Handlers, RefundAtProvider(s) PROVE Progress'
  <2>1. ProgressOf(h[s])
    BY DEF IInv, Progress
  <2>2. ProgressOf(h[s])'
    BY <1>13, <1>0, <2>1, RefundAmounts DEF RefundAtProvider, Returnable, Return,
         IInv, TypeInv, ProgressOf, Grows, Credited, NotifyAt, Refunding, Idle
  <2>3. \A r \in Handlers \ {s} : h'[r] = h[r]
    BY <1>13 DEF RefundAtProvider, IInv, TypeInv
  <2>4. ASSUME NEW r \in Handlers \ {s}, h[r].at \in NotifyAt, ~Credited(h[r].trade)
        PROVE  rec'[h[r].trade] = rec[h[r].trade]
    BY <1>13 DEF RefundAtProvider
  <2> QED
    BY <1>0, <2>2, <2>3, <2>4, OneHandler
<1>14. ASSUME NEW s \in Handlers, Unfreeze(s) PROVE Progress'
  <2>1. ProgressOf(h[s])
    BY DEF IInv, Progress
  <2>2. ProgressOf(h[s])'
    BY <1>14, <1>0, <2>1, RefundAmounts DEF Unfreeze, IsNew, IInv, TypeInv,
         ProgressOf, Grows, Credited, NotifyAt, Refunding, Idle
  <2>3. \A r \in Handlers \ {s} : h'[r] = h[r]
    BY <1>14 DEF Unfreeze, IInv, TypeInv
  <2>4. ASSUME NEW r \in Handlers \ {s}, h[r].at \in NotifyAt, ~Credited(h[r].trade)
        PROVE  rec'[h[r].trade] = rec[h[r].trade]
    BY <1>14 DEF Unfreeze
  <2> QED
    BY <1>0, <2>2, <2>3, <2>4, OneHandler
<1>15. ASSUME NEW s \in Handlers, WriteRefund(s) PROVE Progress'
  <2>1. ProgressOf(h[s])
    BY DEF IInv, Progress
  <2>2. ProgressOf(h[s])'
    BY <1>15, <1>0, <2>1, RefundAmounts DEF WriteRefund, OneFewer, IInv, TypeInv,
         ProgressOf, Grows, Credited, NotifyAt, Refunding, Idle
  <2>3. \A r \in Handlers \ {s} : h'[r] = h[r]
    BY <1>15 DEF WriteRefund, IInv, TypeInv
  <2>4. ASSUME NEW r \in Handlers \ {s}, h[r].at \in NotifyAt, ~Credited(h[r].trade)
        PROVE  rec'[h[r].trade] = rec[h[r].trade]
    <3>1. ProgressOf(h[r]) /\ (h[s].at \in NotifyAt => h[r].trade # h[s].trade)
      BY <2>4 DEF IInv, Progress, Apart
    <3> QED
      BY <1>15, <2>1, <2>4, <3>1 DEF WriteRefund, OneFewer, IInv, TypeInv, ProgressOf,
           Credited, NotifyAt, Refunding
  <2> QED
    BY <1>0, <2>2, <2>3, <2>4, OneHandler
<1>16. CASE OtherJoins
  <2> SUFFICES ASSUME NEW r \in Handlers PROVE ProgressOf(h[r])'
    BY DEF Progress
  <2>1. h'[r] = h[r] /\ rec' = rec
    BY <1>16 DEF OtherJoins
  <2> QED
    BY <1>0, <2>1, ProgressKept
<1>17. CASE OrderMoves
  <2> SUFFICES ASSUME NEW r \in Handlers PROVE ProgressOf(h[r])'
    BY DEF Progress
  <2>1. h'[r] = h[r] /\ rec' = rec
    BY <1>17 DEF OrderMoves
  <2> QED
    BY <1>0, <2>1, ProgressKept
<1>18. ASSUME NEW s \in Handlers, Crash(s) PROVE Progress'
  <2>1. ProgressOf(h[s])
    BY DEF IInv, Progress
  <2>2. ProgressOf(h[s])'
    BY <1>18, <1>0, <2>1, RefundAmounts DEF Crash, IInv, TypeInv, ProgressOf, Grows,
         Credited, NotifyAt, Refunding, Idle
  <2>3. \A r \in Handlers \ {s} : h'[r] = h[r]
    BY <1>18 DEF Crash, IInv, TypeInv
  <2>4. ASSUME NEW r \in Handlers \ {s}, h[r].at \in NotifyAt, ~Credited(h[r].trade)
        PROVE  rec'[h[r].trade] = rec[h[r].trade]
    BY <1>18 DEF Crash
  <2> QED
    BY <1>0, <2>2, <2>3, <2>4, OneHandler
<1>19. CASE UNCHANGED vars
  <2> SUFFICES ASSUME NEW r \in Handlers PROVE ProgressOf(h[r])'
    BY DEF Progress
  <2>1. h'[r] = h[r] /\ rec' = rec
    BY <1>19 DEF vars
  <2> QED
    BY <1>0, <2>1, ProgressKept
<1> QED
  BY <1>1, <1>2, <1>3, <1>4, <1>5, <1>6, <1>7, <1>8, <1>9, <1>10, <1>11, <1>12, <1>13,
     <1>14, <1>15, <1>16, <1>17, <1>18, <1>19 DEF Next, NotifyStep, RefundStep

\* No second notification of a trade is let in.
LEMMA ApartStep == IInv /\ [Next]_vars => Apart'
<1> SUFFICES ASSUME IInv, [Next]_vars PROVE Apart'
  OBVIOUS
<1> USE AlipayAssumption DEF IInv, TypeInv, Apart, NotifyAt, Goto, Finish, Fault
<1>1. ASSUME NEW s \in Handlers, CheckOrder(s) \/ TakeSlot(s) PROVE Apart'
  BY <1>1 DEF CheckOrder, TakeSlot, Unused, Idle
<1>2. ASSUME NEW s \in Handlers, Insert(s) PROVE Apart'
  BY <1>2 DEF Insert, Unused, Idle
<1>3. CASE SlotExpires
  BY <1>3 DEF SlotExpires, Mortal, Idle
<1>4. ASSUME NEW t \in Trades, Pay(t) PROVE Apart'
  BY <1>4 DEF Pay, Idle
<1>5. ASSUME NEW s \in Handlers, NEW t \in Trades, Notified(s, t) PROVE Apart'
  BY <1>5 DEF Notified, AfterSlot, Payable, Idle, Busy
<1>6. ASSUME NEW t \in Trades, NotifiedAgain(t) PROVE Apart'
  BY <1>6 DEF NotifiedAgain, Acknowledge, Idle
<1>7. ASSUME NEW s \in Handlers, Close(s) PROVE Apart'
  BY <1>7 DEF Close, Idle
<1>8. ASSUME NEW s \in Handlers, AutoRefund(s) PROVE Apart'
  BY <1>8 DEF AutoRefund, Returnable, Acknowledge, Idle
<1>9. ASSUME NEW s \in Handlers, Freeze(s) PROVE Apart'
  BY <1>9 DEF Freeze, IsNew, Idle
<1>10. ASSUME NEW s \in Handlers, RecordPaid(s) PROVE Apart'
  BY <1>10 DEF RecordPaid, Idle
<1>11. ASSUME NEW s \in Handlers, ReleaseSlot(s) PROVE Apart'
  BY <1>11 DEF ReleaseSlot, Acknowledge, Idle
<1>12. ASSUME NEW s \in Handlers, BeginRefund(s) PROVE Apart'
  BY <1>12 DEF BeginRefund, Refundable, AfterChecks, Idle
<1>13. ASSUME NEW s \in Handlers, RefundAtProvider(s) PROVE Apart'
  BY <1>13 DEF RefundAtProvider, Returnable, Return, Idle
<1>14. ASSUME NEW s \in Handlers, Unfreeze(s) PROVE Apart'
  BY <1>14 DEF Unfreeze, IsNew, Idle
<1>15. ASSUME NEW s \in Handlers, WriteRefund(s) PROVE Apart'
  BY <1>15 DEF WriteRefund, OneFewer, Idle
<1>16. CASE OtherJoins
  BY <1>16 DEF OtherJoins, Idle
<1>17. CASE OrderMoves
  BY <1>17 DEF OrderMoves, Idle
<1>18. ASSUME NEW s \in Handlers, Crash(s) PROVE Apart'
  BY <1>18 DEF Crash, Idle
<1>19. CASE UNCHANGED vars
  BY <1>19 DEF vars, Idle
<1> QED
  BY <1>1, <1>2, <1>3, <1>4, <1>5, <1>6, <1>7, <1>8, <1>9, <1>10, <1>11, <1>12, <1>13,
     <1>14, <1>15, <1>16, <1>17, <1>18, <1>19 DEF Next, NotifyStep, RefundStep

-----------------------------------------------------------------------------
(* Postings and records *)

LEMMA PostingsStep ==
  IInv /\ TypeInv' /\ [Next]_vars => IsFiniteSet(frozen)' /\ EscrowMatchesPostings'
<1> SUFFICES ASSUME IInv, TypeInv', [Next]_vars
             PROVE  IsFiniteSet(frozen)' /\ EscrowMatchesPostings'
  OBVIOUS
<1> USE DEF EscrowMatchesPostings
<1>0. /\ IsFiniteSet(frozen) /\ IsFiniteSet(frozen \ unfrozen)
      /\ Cardinality(frozen \ unfrozen) \in Nat
      /\ Price \in Nat /\ unfrozen \subseteq frozen
      /\ escrow = Price * Cardinality(frozen \ unfrozen)
  BY FS_Difference, FS_CardinalityType, AlipayAssumption DEF IInv
<1>1. ASSUME NEW s \in Handlers, Freeze(s), frozen' # frozen
      PROVE  IsFiniteSet(frozen)' /\ EscrowMatchesPostings'
  <2> DEFINE t == h[s].trade
  <2>1. /\ t \notin frozen /\ frozen' = frozen \cup {t} /\ unfrozen' = unfrozen
        /\ escrow' = escrow + Price
    BY <1>1 DEF Freeze, IsNew
  <2>2. frozen' \ unfrozen' = (frozen \ unfrozen) \cup {t} /\ t \notin frozen \ unfrozen
    BY <1>0, <2>1
  <2>3. Cardinality(frozen' \ unfrozen') = Cardinality(frozen \ unfrozen) + 1
    BY <1>0, <2>2, FS_AddElement
  <2>4. IsFiniteSet(frozen')
    BY <1>0, <2>1, FS_AddElement
  <2> HIDE DEF t
  <2>5. escrow' = Price * Cardinality(frozen' \ unfrozen')
    BY <1>0, <2>1, <2>3
  <2> QED
    BY <1>0, <2>1, <2>4, <2>5
<1>2. ASSUME NEW s \in Handlers, Unfreeze(s), unfrozen' # unfrozen
      PROVE  IsFiniteSet(frozen)' /\ EscrowMatchesPostings'
  <2> DEFINE t == h[s].trade
  <2>1. /\ t \notin unfrozen /\ unfrozen' = unfrozen \cup {t} /\ frozen' = frozen
        /\ escrow' = escrow - Price
    BY <1>2 DEF Unfreeze, IsNew
  <2>2. t \in frozen
    BY <1>2 DEF Unfreeze, IInv, Progress, ProgressOf, Refunding, Credited, RecordIsTrue
  <2>3. frozen' \ unfrozen' = (frozen \ unfrozen) \ {t} /\ t \in frozen \ unfrozen
    BY <2>1, <2>2
  <2> HIDE DEF t
  <2>4. Cardinality(frozen' \ unfrozen') = Cardinality(frozen \ unfrozen) - 1
    <3>1. Cardinality((frozen \ unfrozen) \ {t}) =
            IF t \in frozen \ unfrozen THEN Cardinality(frozen \ unfrozen) - 1
                                      ELSE Cardinality(frozen \ unfrozen)
      BY <1>0, FS_RemoveElement
    <3> QED
      BY <2>3, <3>1
  <2>5. escrow' = Price * Cardinality(frozen' \ unfrozen')
    BY <1>0, <2>1, <2>4
  <2> QED
    BY <1>0, <2>1, <2>2, <2>5
<1>3. CASE frozen' = frozen /\ unfrozen' = unfrozen /\ escrow' = escrow
  BY <1>0, <1>3
<1>4. ASSUME \A s \in Handlers : ~Freeze(s) /\ ~Unfreeze(s)
      PROVE  frozen' = frozen /\ unfrozen' = unfrozen /\ escrow' = escrow
  BY <1>4 DEF Next, NotifyStep, RefundStep, vars, CheckOrder, TakeSlot, Insert, SlotExpires, Pay,
     Notified, NotifiedAgain, Close, AutoRefund, RecordPaid, ReleaseSlot, BeginRefund,
     RefundAtProvider, WriteRefund, OtherJoins, OrderMoves, Crash
<1>5. ASSUME NEW s \in Handlers, Freeze(s), frozen' = frozen
      PROVE  unfrozen' = unfrozen /\ escrow' = escrow
  BY <1>5 DEF Freeze, IsNew
<1>6. ASSUME NEW s \in Handlers, Unfreeze(s), unfrozen' = unfrozen
      PROVE  frozen' = frozen /\ escrow' = escrow
  BY <1>6 DEF Unfreeze, IsNew
<1> QED
  BY <1>1, <1>2, <1>3, <1>4, <1>5, <1>6

\* Records, releases and answers are true when they are written, and stay so.
LEMMA TruthStep ==
  IInv /\ TypeInv' /\ [Next]_vars => RecordIsTrue' /\ ReleasedIsReturned' /\ AnsweredIsSettled'
<1> DEFINE Truth == RecordIsTrue /\ ReleasedIsReturned /\ AnsweredIsSettled
<1> SUFFICES ASSUME IInv, TypeInv', [Next]_vars PROVE Truth'
  OBVIOUS
<1>0. Grows
  BY Growth
<1> USE AlipayAssumption DEF IInv, TypeInv, RecordIsTrue, ReleasedIsReturned, AnsweredIsSettled
<1>1. ASSUME NEW s \in Handlers, CheckOrder(s) \/ TakeSlot(s) PROVE Truth'
  <2>1. ProgressOf(h[s])
    BY DEF Progress
  <2> QED
    BY <1>1, <1>0, <2>1, RefundAmounts DEF CheckOrder, TakeSlot, Unused, Grows, ProgressOf,
         Credited, NotifyAt, Refunding, Goto, Finish, Fault
<1>2. ASSUME NEW s \in Handlers, Insert(s) PROVE Truth'
  <2>1. ProgressOf(h[s])
    BY DEF Progress
  <2> QED
    BY <1>2, <1>0, <2>1, RefundAmounts DEF Insert, Unused, Grows, ProgressOf,
         Credited, NotifyAt, Refunding, Goto, Finish, Fault
<1>3. CASE SlotExpires
  BY <1>3 DEF SlotExpires, Mortal
<1>4. ASSUME NEW t \in Trades, Pay(t) PROVE Truth'
  BY <1>4 DEF Pay
<1>5. ASSUME NEW s \in Handlers, NEW t \in Trades, Notified(s, t) PROVE Truth'
  <2>1. ProgressOf(h[s])
    BY DEF Progress
  <2> QED
    BY <1>5, <1>0, <2>1, RefundAmounts DEF Notified, AfterSlot, Payable, Grows,
         ProgressOf, Credited, NotifyAt, Refunding, Goto, Finish, Fault
<1>6. ASSUME NEW t \in Trades, NotifiedAgain(t) PROVE Truth'
  BY <1>6 DEF NotifiedAgain, Acknowledge
<1>7. ASSUME NEW s \in Handlers, Close(s) PROVE Truth'
  <2>1. ProgressOf(h[s])
    BY DEF Progress
  <2> QED
    BY <1>7, <1>0, <2>1, RefundAmounts DEF Close, Grows, ProgressOf, Credited,
         NotifyAt, Refunding, Goto, Finish, Fault
<1>8. ASSUME NEW s \in Handlers, AutoRefund(s) PROVE Truth'
  <2>1. ProgressOf(h[s])
    BY DEF Progress
  <2> QED
    BY <1>8, <1>0, <2>1, RefundAmounts DEF AutoRefund, Returnable, Acknowledge, Grows,
         ProgressOf, Credited, NotifyAt, Refunding, Goto, Finish, Fault
<1>9. ASSUME NEW s \in Handlers, Freeze(s) PROVE Truth'
  <2>1. ProgressOf(h[s])
    BY DEF Progress
  <2> QED
    BY <1>9, <1>0, <2>1, RefundAmounts DEF Freeze, IsNew, Grows, ProgressOf, Credited,
         NotifyAt, Refunding, Goto, Finish, Fault
<1>10. ASSUME NEW s \in Handlers, RecordPaid(s) PROVE Truth'
  <2>1. ProgressOf(h[s])
    BY DEF Progress
  <2> QED
    BY <1>10, <1>0, <2>1, RefundAmounts DEF RecordPaid, Grows, ProgressOf, Credited,
         NotifyAt, Refunding, Goto, Finish, Fault
<1>11. ASSUME NEW s \in Handlers, ReleaseSlot(s) PROVE Truth'
  <2>1. ProgressOf(h[s])
    BY DEF Progress
  <2> QED
    BY <1>11, <1>0, <2>1, RefundAmounts DEF ReleaseSlot, Acknowledge, Grows,
         ProgressOf, Credited, NotifyAt, Refunding, Goto, Finish, Fault
<1>12. ASSUME NEW s \in Handlers, BeginRefund(s) PROVE Truth'
  <2>1. ProgressOf(h[s])
    BY DEF Progress
  <2> QED
    BY <1>12, <1>0, <2>1, RefundAmounts DEF BeginRefund, Refundable, AfterChecks,
         Grows, ProgressOf, Credited, NotifyAt, Refunding, Goto, Finish, Fault
<1>13. ASSUME NEW s \in Handlers, RefundAtProvider(s) PROVE Truth'
  <2>1. ProgressOf(h[s])
    BY DEF Progress
  <2> DEFINE t == h[s].trade
             n == RefundOf(h[s].status)
  <2>2. t \in Trades /\ Credited(t) /\ n \in 0 .. Price
    BY <1>13, <2>1, RefundAmounts DEF RefundAtProvider, ProgressOf, Refunding
  <2>3. /\ rec' = rec /\ frozen' = frozen /\ unfrozen' = unfrozen /\ dropped' = dropped
        /\ \/ bank' = bank
           \/ /\ bank[t].returned + n <= Price
              /\ bank' = [bank EXCEPT ![t].returned = @ + n]
    BY <1>13 DEF RefundAtProvider, Returnable, Return
  <2> HIDE DEF t, n
  <2>4. /\ \A u \in Trades : /\ bank'[u].paid = bank[u].paid /\ bank'[u].acked = bank[u].acked
                            /\ bank'[u].returned >= bank[u].returned
                            /\ bank'[u].returned \in 0 .. Price
        /\ \A u \in Trades \ {t} : bank'[u] = bank[u]
    BY <2>2, <2>3
  <2>5. RecordIsTrue'
    BY <2>2, <2>3, <2>4 DEF Credited
  <2>6. ReleasedIsReturned'
    BY <2>2, <2>3, <2>4, RefundAmounts
  <2>7. AnsweredIsSettled'
    BY <2>2, <2>3, <2>4
  <2> QED
    BY <2>5, <2>6, <2>7
<1>14. ASSUME NEW s \in Handlers, Unfreeze(s) PROVE Truth'
  <2>1. ProgressOf(h[s])
    BY DEF Progress
  <2> QED
    BY <1>14, <1>0, <2>1, RefundAmounts DEF Unfreeze, IsNew, Grows, ProgressOf,
         Credited, NotifyAt, Refunding, Goto, Finish, Fault
<1>15. ASSUME NEW s \in Handlers, WriteRefund(s) PROVE Truth'
  <2>1. ProgressOf(h[s])
    BY DEF Progress
  <2> QED
    BY <1>15, <1>0, <2>1, RefundAmounts DEF WriteRefund, OneFewer, Grows, ProgressOf,
         Credited, NotifyAt, Refunding, Goto, Finish, Fault
<1>16. CASE OtherJoins
  BY <1>16 DEF OtherJoins
<1>17. CASE OrderMoves
  BY <1>17 DEF OrderMoves
<1>18. ASSUME NEW s \in Handlers, Crash(s) PROVE Truth'
  <2>1. ProgressOf(h[s])
    BY DEF Progress
  <2> QED
    BY <1>18, <1>0, <2>1, RefundAmounts DEF Crash, Grows, ProgressOf, Credited,
         NotifyAt, Refunding, Goto, Finish, Fault
<1>19. CASE UNCHANGED vars
  BY <1>19 DEF vars
<1> QED
  BY <1>1, <1>2, <1>3, <1>4, <1>5, <1>6, <1>7, <1>8, <1>9, <1>10, <1>11, <1>12, <1>13,
     <1>14, <1>15, <1>16, <1>17, <1>18, <1>19 DEF Next, NotifyStep, RefundStep

-----------------------------------------------------------------------------
(* The theorems *)

LEMMA Initially == Init => IInv
<1> SUFFICES ASSUME Init PROVE IInv
  OBVIOUS
<1> USE AlipayAssumption DEF Init
<1>1. TypeInv /\ Progress /\ Apart
  BY DEF TypeInv, Progress, ProgressOf, Apart, Idle, Places, NotifyAt, Refunding,
     Statuses, Records
<1>2. IsFiniteSet(frozen) /\ Cardinality(frozen \ unfrozen) = 0
  BY FS_EmptySet
<1>3. EscrowMatchesPostings
  BY <1>2 DEF EscrowMatchesPostings
<1>4. RecordIsTrue /\ ReleasedIsReturned /\ AnsweredIsSettled
  BY DEF RecordIsTrue, ReleasedIsReturned, AnsweredIsSettled
<1> QED
  BY <1>1, <1>2, <1>3, <1>4 DEF IInv

\* Everything the properties rest on holds in every state.
THEOREM Invariant == Spec => []IInv
<1>1. IInv /\ [Next]_vars => IInv'
  <2> SUFFICES ASSUME IInv, [Next]_vars PROVE IInv'
    OBVIOUS
  <2>1. TypeInv'
    BY TypeStep DEF IInv
  <2> QED
    BY <2>1, ProgressStep, ApartStep, PostingsStep, TruthStep DEF IInv
<1> QED
  BY <1>1, Initially, PTL DEF Spec

\* The creator's frozen balance is the sum of the trades frozen and not released, for
\* any number of notifications, refunds, failures and repetitions (handle_notify,
\* apply_refund).
THEOREM PostingsAreExact == Spec => []EscrowMatchesPostings
<1>1. IInv => EscrowMatchesPostings
  BY DEF IInv
<1> QED
  BY <1>1, Invariant, PTL

\* A trade's record never claims a payment, a posting or a refund that did not take
\* place (handle_notify, apply_refund).
THEOREM RecordsAreTrue == Spec => []RecordIsTrue
<1>1. IInv => RecordIsTrue
  BY DEF IInv
<1> QED
  BY <1>1, Invariant, PTL

\* No escrow is released before the provider has returned at least the smallest refund
\* (apply_refund).
THEOREM NoReleaseWithoutReturn == Spec => []ReleasedIsReturned
<1>1. IInv => ReleasedIsReturned
  BY DEF IInv
<1> QED
  BY <1>1, Invariant, PTL

\* A notification that was answered has settled its payment, but for the automatic
\* refunds that were lost (handle_notify).
THEOREM AnswersSettle == Spec => []AnsweredIsSettled
<1>1. IInv => AnsweredIsSettled
  BY DEF IInv
<1> QED
  BY <1>1, Invariant, PTL
=============================================================================
