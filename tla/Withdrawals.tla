---------------------------- MODULE Withdrawals ----------------------------
(***************************************************************************)
(* Withdrawals of one user: withdraw_service.apply_withdraw, which the user *)
(* calls from any number of clients, and audit_withdraw, which operators    *)
(* call, over balance_service and the t_withdraw_applications table.        *)
(*                                                                         *)
(* As in OrderEscrow a request is a chain of steps: it checks what it read  *)
(* first, and balance_service commits before the request is done.           *)
(***************************************************************************)
EXTENDS Integers, FiniteSetsExt

CONSTANTS
  Sessions,    \* sessions that serve HTTP requests
  Amounts,     \* the amounts applied for, in cents
  Funds,       \* the wallet at the start
  MaxApps,     \* bound: rows of t_withdraw_applications
  MaxOthers,   \* bound: payments of the user's other operations
  MaxFaults    \* bound: balance calls that fail and processes that die

MinAmount     == 1000     \* WITHDRAW_MIN_AMOUNT, ten yuan
MaxSingle     == 500000   \* MAX_SINGLE_WITHDRAW
MaxDailyCount == 3

ASSUME WithdrawalsAssumption ==
  /\ Amounts \subseteq MinAmount .. MaxSingle
  /\ IsFiniteSet(Sessions)
  /\ Funds \in Nat
  /\ MaxApps \in Nat /\ MaxOthers \in Nat /\ MaxFaults \in Nat

VARIABLES
  wallet,    \* wallet_balance of the user
  app,       \* the t_withdraw_applications rows
  freezes,   \* sum of the WITHDRAW_FREEZE postings, one for each debit
  returned,  \* the applications with a WITHDRAW_REJECT posting
  others,    \* the payments of other operations, and how many there were
  req,       \* the state of every session
  faults     \* how much of MaxFaults is used up

vars == <<wallet, app, freezes, returned, others, req, faults>>

Apps  == 1 .. MaxApps
NoApp == [status |-> "none", amount |-> 0, today |-> FALSE]
Idle  == [at |-> "idle", amount |-> 0, app |-> 0]

Pending  == {i \in Apps : app[i].status = "PENDING"}
Today    == {i \in Apps : app[i].today}
Unused   == {i \in Apps : app[i].status = "none"}

Goto(s, at) == req' = [req EXCEPT ![s].at = at]
Finish(s)   == req' = [req EXCEPT ![s] = Idle]
Fault       == faults < MaxFaults /\ faults' = faults + 1

-----------------------------------------------------------------------------
(* apply_withdraw *)

\* The checks, all of them before the lock is asked for.
BeginApply(s, amount) ==
  /\ req[s] = Idle
  /\ Pending = {}
  /\ Cardinality(Today) < MaxDailyCount
  /\ wallet >= amount
  /\ req' = [req EXCEPT ![s] = [Idle EXCEPT !.at = "lock", !.amount = amount]]
  /\ UNCHANGED <<wallet, app, freezes, returned, others, faults>>

\* The Redis lock "user:withdraw:<id>"; a request that does not get it is refused.
Lock(s) ==
  /\ req[s].at = "lock"
  /\ IF \E t \in Sessions : req[t].at \in {"debit", "record"}
       THEN Finish(s)
       ELSE Goto(s, "debit")
  /\ UNCHANGED <<wallet, app, freezes, returned, others, faults>>

\* Mutant of Debited: the UPDATE has no WHERE wallet_balance >= :amt.
DebitedUnguarded(amount) == wallet - amount

\* The guarded UPDATE of wallet_balance_decrease.
Debited(amount) == IF wallet >= amount THEN wallet - amount ELSE wallet

\* Mutant of Posting: the row count decides whether a posting is written.
PostingIfDebited(amount) == IF wallet >= amount THEN amount ELSE 0

\* The amount of the t_payment_logs row of a debit.
Posting(amount) == amount

\* Mutant of Debit: the debit and its posting are two commits.
DebitThenPost(s) ==
  /\ req[s].at = "debit"
  /\ wallet' = Debited(req[s].amount)
  /\ \/ freezes' = freezes + req[s].amount /\ Goto(s, "record") /\ UNCHANGED faults
     \/ Fault /\ Finish(s) /\ UNCHANGED freezes
  /\ UNCHANGED <<app, returned, others>>

\* wallet_balance_decrease.  Its check looks at the user row the session has held
\* since BeginApply, and the UPDATE's row count is not looked at.  The key holds
\* the time in milliseconds, read under the lock, so it is a new one.
Debit(s) ==
  /\ req[s].at = "debit"
  /\ \/ /\ wallet' = Debited(req[s].amount)
        /\ freezes' = freezes + Posting(req[s].amount)
        /\ Goto(s, "record")
        /\ UNCHANGED faults
     \/ /\ Fault
        /\ Finish(s)
        /\ UNCHANGED <<wallet, freezes>>
  /\ UNCHANGED <<app, returned, others>>

\* The application is inserted and committed; the response, and with it the
\* unlocking, follows.  That a row is left is the bound on applications.
Record(s) ==
  /\ req[s].at = "record"
  /\ Unused # {}
  /\ app' = [app EXCEPT ![Min(Unused)] =
               [status |-> "PENDING", amount |-> req[s].amount, today |-> TRUE]]
  /\ Finish(s)
  /\ UNCHANGED <<wallet, freezes, returned, others, faults>>

-----------------------------------------------------------------------------
(* audit_withdraw *)

\* Mutant of AfterCheck: a rejection is recorded before the money is returned.
RecordFirst(approved) == IF approved THEN "approve" ELSE "reject"

AfterCheck(approved) == IF approved THEN "approve" ELSE "return"

\* Mutant of Auditable: only a paid application is refused.
AuditableUnlessPaid(i) == app[i].status # "COMPLETED"

Auditable(i) == app[i].status = "PENDING"

\* The row is read without a lock and must be PENDING.
BeginAudit(s, i, approved) ==
  /\ req[s] = Idle
  /\ Auditable(i)
  /\ req' = [req EXCEPT ![s] = [Idle EXCEPT !.at = AfterCheck(approved), !.app = i]]
  /\ UNCHANGED <<wallet, app, freezes, returned, others, faults>>

\* Approved: the row says the operator has paid, whatever it says by now.
Approve(s) ==
  /\ req[s].at = "approve"
  /\ app' = [app EXCEPT ![req[s].app].status = "COMPLETED"]
  /\ Finish(s)
  /\ UNCHANGED <<wallet, freezes, returned, others, faults>>

\* Rejected: wallet_balance_increase under the key of this application.  A
\* duplicate is rolled back, and the next attribute of the expired row that is
\* read (for the log line) raises.
Return(s) ==
  LET i == req[s].app
  IN  /\ req[s].at = "return"
      /\ \/ /\ i \notin returned
            /\ wallet' = wallet + app[i].amount
            /\ returned' = returned \cup {i}
            /\ Goto(s, "reject")
            /\ UNCHANGED faults
         \/ /\ i \in returned
            /\ Finish(s)
            /\ UNCHANGED <<wallet, returned, faults>>
         \/ /\ Fault
            /\ Finish(s)
            /\ UNCHANGED <<wallet, returned>>
      /\ UNCHANGED <<app, freezes, others>>

Reject(s) ==
  /\ req[s].at = "reject"
  /\ app' = [app EXCEPT ![req[s].app].status = "REJECTED"]
  /\ Finish(s)
  /\ UNCHANGED <<wallet, freezes, returned, others, faults>>

-----------------------------------------------------------------------------
(* The rest of the world *)

\* Another operation moves the user's money: a refund or a settlement comes in,
\* or he pays for a seat.
OtherPayment(amount) ==
  /\ others.count < MaxOthers
  /\ wallet + amount >= 0
  /\ wallet' = wallet + amount
  /\ others' = [sum |-> others.sum + amount, count |-> others.count + 1]
  /\ UNCHANGED <<app, freezes, returned, req, faults>>

\* Midnight: the day's applications are counted from none again.
NewDay ==
  /\ Today # {}
  /\ app' = [i \in Apps |-> [app[i] EXCEPT !.today = FALSE]]
  /\ UNCHANGED <<wallet, freezes, returned, others, req, faults>>

\* The process of a session dies, or its last commit fails.
Crash(s) ==
  /\ req[s] # Idle
  /\ Fault
  /\ Finish(s)
  /\ UNCHANGED <<wallet, app, freezes, returned, others>>

Init ==
  /\ wallet = Funds
  /\ app = [i \in Apps |-> NoApp]
  /\ freezes = 0
  /\ returned = {}
  /\ others = [sum |-> 0, count |-> 0]
  /\ req = [s \in Sessions |-> Idle]
  /\ faults = 0

Next ==
  \/ \E s \in Sessions :
       \/ \E a \in Amounts : BeginApply(s, a)
       \/ Lock(s) \/ Debit(s) \/ Record(s)
       \/ \E i \in Apps, approved \in BOOLEAN : BeginAudit(s, i, approved)
       \/ Approve(s) \/ Return(s) \/ Reject(s)
       \/ Crash(s)
  \/ \E a \in Amounts : OtherPayment(a) \/ OtherPayment(-a)
  \/ NewDay

Spec == Init /\ [][Next]_vars

-----------------------------------------------------------------------------
(* Properties *)

Statuses == {"none", "PENDING", "COMPLETED", "REJECTED"}

\* Every variable has its type; a session that audits has an application.
TypeOK ==
  /\ wallet \in Int
  /\ app \in [Apps -> [status : Statuses, amount : Nat, today : BOOLEAN]]
  /\ freezes \in Nat
  /\ returned \subseteq Apps
  /\ others \in [sum : Int, count : Nat]
  /\ req \in [Sessions ->
       [at : {"idle", "lock", "debit", "record", "approve", "return", "reject"},
        amount : Nat, app : Nat]]
  /\ faults \in Nat
  /\ \A s \in Sessions :
       /\ req[s].at \in {"approve", "return", "reject"} =>
            req[s].app \in Apps \ Unused
       /\ req[s].at \in {"lock", "debit", "record"} => req[s].amount \in Amounts
  /\ returned \cap Unused = {}

\* The wallet is never overdrawn, although apply_withdraw checks a balance that
\* other clients have spent by the time it debits.
NoOverdraft == wallet >= 0

\* An application that has been rejected has been paid back, whichever operators
\* audited it at the same time and wherever one of them died.
RejectedIsReturned == \A i \in Apps : app[i].status = "REJECTED" => i \in returned

\* What the applications say, what the sessions that have debited are about to
\* record, and what has been paid back.
AppliedOf   == [i \in Apps |-> app[i].amount]
RecordingOf == [s \in Sessions |-> IF req[s].at = "record" THEN req[s].amount ELSE 0]
ReturnedOf  == [i \in Apps |-> IF i \in returned THEN app[i].amount ELSE 0]

\* Every application, and every one about to be recorded, has a posting of its
\* own: what has been applied for never exceeds the WITHDRAW_FREEZE postings.
ApplicationsArePosted == SumFunction(AppliedOf) + SumFunction(RecordingOf) <= freezes

\* The wallet holds at least what the payment log says: no debit without a posting
\* and no returned amount that was not credited.
WalletNotBelowLog == wallet >= Funds + others.sum - freezes + SumFunction(ReturnedOf)
=============================================================================
