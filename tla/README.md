# HalfCart: a verification of its order and money code

HalfCart is a group-buying service (FastAPI, MySQL, Redis, RabbitMQ). A creator
opens an order for several people, or offers a spot item; buyers pay from their
wallet into the creator's frozen balance (the escrow) and get a seat; the creator
buys, hands over, and types the verification code that releases the escrow to his
wallet. Buyers can quit, be refunded with a penalty, withdraw money, pay by
Alipay and raise disputes.

This directory holds TLA+ models of the parts where requests and tasks meet on
the same rows, TLC configurations that check them on small instances, and theorems
proved with TLAPS for all values of the constants. `PROJECT.json` is the index:
which lines of `src/` each definition stands for, which run checks which property,
which hazards are covered and which wait.

    tlc -workers 2 -config escrow_requests.cfg MCOrderEscrow
    tlapm OrderEscrowProofs.tla

## The system

| part | state | operations | meets the others through |
|---|---|---|---|
| order lifecycle (`order_service`) | `t_orders`: status, current_people | create, purchasing, delivering, finished, disband, delete | rows of orders and participants, balances |
| participation (`participation_service`) | `t_order_participants` | join, buy spot, quit | Redis locks per kind of request, balances, lifecycle |
| verification (`verification_service`) | `t_verification_codes` | verify and settle, refund, lockout after wrong codes | balances, lifecycle |
| balances (`balance_service`) | `wallet_balance`, `frozen_balance`, `t_payment_logs` | five postings, each its own commit | called by everything that moves money |
| withdrawals (`withdraw_service`) | `t_withdraw_applications` | apply, audit | balances |
| scheduler (`tasks/scheduler.py`) | none | auto-disband, spot expiry, delivery alert | orders, participants, balances |
| Alipay (`alipay_service`) | `alipay_records`, Redis slots | reserve, notify, refund | orders, participants |
| disputes (`dispute_service`) | `t_disputes` | open, AI judgement, ruling | balances, orders |
| messages (`mq_client`, consumers) | RabbitMQ queues, Redis dedup keys | publish, consume, retry, dead-letter | search index, notices, chat, AI |
| Redis lock (`core/redis_client.py`) | token and TTL per key, watchdog | acquire, renew, release | everything above |
| accounts (auth, SMS, WeChat, rate limit) | tokens and counters in Redis | login, refresh, codes | HTTP layer |
| the rest (chat, radar, AI, search, reconciliation, administration) | own rows or none | append, query, report | read the rows above |

What makes the behaviour hard:

* *A request is not a transaction.* `balance_service` commits after every posting
  (`_insert_log_and_commit`), so a join is three commits, a quit three and a
  refund four, each of which can fail or be the last thing the process does.
* *What a request has read stays in its session.* `expire_on_commit=False`, and a
  `SELECT ... FOR UPDATE` of a row the session already holds returns the old
  object, so `current_people`, the status and the user row are stale copies that
  are written back. Only a rollback expires them, and then the next attribute read
  raises (`MissingGreenlet`), in the middle of whatever follows.
* *The locks are per kind of request* (`order:join:<id>`, `order:quit:<id>`, ...):
  a join excludes a join, not a quit, and disbanding takes none.
* *Idempotency keys* make a retried posting fail instead of being repeated, and
  the failure is a rollback in a request that goes on.
* *The tasks run in another process*, which reads and writes the same rows.

For each component, what must hold: balances are never negative and agree with the
log; a seat is paid for exactly once, and paid back at most once; seats are not
oversold; the escrow is paid out once; the status moves one way; an expired order
is closed and its buyers refunded; a withdrawal is paid out or returned, and once;
a ruling is carried out once; a payment notification is applied once; a message is
handled although it is delivered twice or fails once; a lock has one holder.

## The modules

| module | what it is |
|---|---|
| `Money` | cents, the 80/20 split of a penalised refund, the 3% fee, rounding half to even |
| `SeatPromise` | abstract: what one buyer goes through, without locks, sessions or faults |
| `OrderEscrow` | one order, its buyers, their postings, the HTTP requests and the scheduler's tasks |
| `MCOrderEscrow` | `OrderEscrow` for TLC (symmetry of buyers and requests) |
| `Withdrawals` | one user's withdrawal applications and the operators who audit them |
| `MCWithdrawals` | `Withdrawals` for TLC (symmetry of sessions) |
| `RedisLock` | one lock key, its clients and their watchdogs, with time |
| `MCRedisLock` | `RedisLock` for TLC |
| `AlipayPayments`, `MCAlipayPayments` | the trades of one payer, the provider, the handlers of create, notify, refund |
| `Disputes`, `MCDisputes` | disputes about one order, their task queue, the AI's handler, administrators |
| `Consumers` | one queue: declaration, publication, deduplication, retry, dead letters; extended by |
| `OrderEvents`, `MCOrderEvents` | an order's documents on that queue, the search index, the radar's cache |
| `SmsCodes` | login codes and the INCR/EXPIRE counters; extended by |
| `Logins`, `MCLogins` | logins of one phone, the lock after failures, token versions |
| `Accounts`, `MCAccounts` | WeChat authorisation, binding, registration, login by scan |
| `OrderEscrowProofs`, `WithdrawalsProofs`, `RedisLockProofs`, `AlipayPaymentsProofs`, `DisputesProofs`, `OrderEventsProofs`, `LoginsProofs`, `AccountsProofs` | theorems |

### OrderEscrow

`order`, `seat` and `code` are the rows of the order, of its participants
(`pay_status`) and of its verification code. `wallet` and `frozen` are the balances;
`paylog[b][key]` is the amount posted for buyer `b` under an idempotency key
(0: no row), and a key is the scene and the step from which `utils/idempotent.py`
builds it. `settled` holds the two postings of the settlement. `req[r]` is a
session: which operation, at which step, for whom, and the *stale copies* it holds
(`people`, `status`, for a closing request `frozen`, `wallet` and `paid`), and
whether a rollback has `expired` it.

`BeginJoin`, `BeginQuit`, `BeginRefund`, `BeginSettle`, `MarkDisbanded` and
`MarkDeleted` take the lock, if any, and do the checks and reads up to the first
commit. Each later action is one commit of that request: `JoinDebit`, `JoinFreeze`,
`JoinEnrol`, `JoinPurchase`; `Unfreeze`, `CreditBuyer`, `PayPenalty`, `Leave`;
`SettlePay`, `SettleFinish`; `CloseRead`, `CloseWrite`. `JoinCompensate` and
`Restore` are the `except` branches. Each balance action has the outcomes of
`balance_service`: posted; key already there (rollback, session expired); balance
too low; Redis lock taken (`Busy`); commit refused (`Broken`). `AutoBegin`,
`AutoUnfreeze`, `AutoCredit`, `AutoFinish` are `auto_disband_task`; `ExpiryBegin`
and `ExpiryWrite` are `spot_expiry_task`. `Crash` ends any session between two
commits.

`TasksHaveRedis` is `FALSE` for the code as it is: `app/tasks/main.py`, the only
caller of `start_all_consumers`, initialises no Redis client, so each balance call
of the tasks raises, is caught and logged, and the loop goes on. `TRUE` is the
arrangement the docstring of `start_all_consumers` describes (started from the
lifespan of `main.py`, which has a client). The run of the requests and the liveness
run check the latter, because the task's payments happen only there; the others
check the former.

`PromiseKept` is a refinement: with `Phase(b)`, computed from the seat and the
postings, every step of the order is a move of `SeatPromise` or a stutter.

### Withdrawals

`wallet`, the rows `app`, the sum of the WITHDRAW_FREEZE postings, and the set of
applications with a WITHDRAW_REJECT posting. `BeginApply` is everything
`apply_withdraw` checks before it asks for its lock, all read from one snapshot;
`Lock`, `Debit` and `Record` follow. `BeginAudit`, `Approve`, `Return` and `Reject`
are `audit_withdraw`, which takes no lock. `OtherPayment` stands for what the user's
other operations do to his wallet, `NewDay` for the day changing under the daily
limit. `Debited` keeps the wallet when the guarded `UPDATE` matches no row, while
`Posting` is written either way: that is what the code does, and why
`WalletNotBelowLog` is an inequality. `Record` needs a free row of the model's
table; this is the bound `MaxApps`, and a session that waits for one stops there.

In `OrderEscrow`, `Withdraw` is this whole operation as one step, once per buyer.

### RedisLock

`key` and `ttl` are the lock in Redis; `at` says where each client is, and `wake`
how long its watchdog sleeps. A token is fresh for each acquisition and a client has
one acquisition at a time, so the client stands for its token. `Enter` is `SET NX
EX`; a refused client goes through `__aexit__` like the others, and its release script
must not match. `EnterUnanswered` is the exception after which nobody knows that the
key is set. `Renew` and `Release` run their scripts or log an error. `Tick` is the time
that passes between any two of these: `missed` becomes true when a renewal fails or
when a watchdog is overdue by `Slack`, which is all that half the timeout leaves it.

`OrderEscrow!LockFree` and `Withdrawals!Lock` use the lock as a mutex.
`MutualExclusion` says when they may: as long as nothing is missed. Since the
watchdog wakes at half the timeout, one failed renewal of a lock with an even
timeout (10 s for each order lock) already counts.

### AlipayPayments

`rec` is `t_alipay_records`, `seat` the payer's `pay_status`, `slot` the SETNX key of
(order, user), `bank` what the provider knows of a trade: paid, how much returned, and
whether it has read "success". `frozen` and `unfrozen` are the trades whose key has a
posting, `escrow` what they have put into the creator's balance. `h[s]` is a handler:
`CheckOrder`, `TakeSlot`, `Insert` are `create_payment` (database checks, SETNX, row);
`Notified`, then `Freeze`, `RecordPaid`, `ReleaseSlot` or `Close`, `AutoRefund` are
`handle_notify` with its lock per trade; `BeginRefund`, `RefundAtProvider`, `Unfreeze`,
`WriteRefund` are `apply_refund`, which holds the order it read (`status`, `people`)
until it writes. Every call can fail; a call of the provider may have been carried out
although it failed. A call of `balance_service` is one step here: `OrderEscrow` shows
its outcomes. `dropped` holds the trades whose automatic refund failed, which the code
logs and answers "success". The amount of a notification is the record's; a notification
with another amount is refused without a change.

### Disputes

`row` and `mark` are the `t_disputes` rows and the order's `dispute_status`, `credit`
counts the settlement's credits, `task` says where a dispute's message is: queued, with a
handler, gone. `Initiate`, `Insert`, `Publish` are `initiate_dispute`; `BeginManual`,
`WriteManual` are `manual_judge`; `Deliver`, `Ask`, `Refund`, `Penalty`, `Write` are the
consumer with `execute_ai_judge`, which decides on the row it read before it awaited
the AI. `Fail` is a handler that raises, `BreakOff` a connection lost with or without the
process, so that the message comes back (`again`) while the first handler may go on.
`backed` is chosen at the start: with Redis and the exchange a message is recognised by
its key and a failed one republished; in the process of `tasks/main.py` neither exists.
`large` is an order whose amount goes to administrators. `lost` names the disputes whose
task will not be handled any more.

### Consumers and OrderEvents

`kind`, `bound`, `api` and `con` say how the queue was declared and by whom:
`StartApi` is `init_mq`, `StartConsumer` is `BaseConsumer.start`, and the second to
declare with other arguments is refused. `Publish`, `Deliver`, `Succeed`, `Fail`,
`CrashConsumer`, `Expire` are `publish_message` and `_on_message` with their
acknowledgements; `fate` says what became of a message, `retry` its header, `runs` and
`returns` how often a handler was given it and how often it came back. `api` is "offline"
when `init_mq` has failed without a refused queue; `main.py` serves requests either way
(`Serving`). A consumer with `backed` runs where Redis, the exchange and the index have been
initialised, one without as `tasks/main.py` starts it.

`OrderEvents` adds one order, new or long under way, and every change of its status.
`Transition` is a change that is checked and committed under the row's lock; `ReadOrder` and
`CommitStale` are one whose check looks at the copy a session has read before (filling an
order, settling it, `force_disband`), so that another session can commit in between.
After its commit a session reads the row again (`Build`) and publishes the document
(`PublishSync`), two steps between which others can do the same. `Create`, `ReadDirectly`,
`WriteDirectly` are a new order, whose document is written to the index without the queue,
and then published too. `ReadReopen`, `Build`, `PublishSync`, `CommitReopen` are `refund_order`
of a full order, which publishes before it commits. `ReadSilently` and `CommitSilently` are the
scheduler's tasks and `force_disband`, which publish no document, and `SoftDelete` publishes the
payload of its message for a document. `SyncSucceeds` replaces the document in the index;
`Search` gets an answer from it and `CacheAnswer` caches that for ten seconds. `answer` and
`cache` are TRUE from any search that shows the order; searches that do not are left out,
which only makes the order visible longer.

`leftBehind` becomes true when the row changes with no document to follow, or when an
older document is published after a newer one; `IndexIsCurrent` is
conditional on these two, because `order_service` has nothing that orders documents, and
on no document being lost. It is not conditional on requests that overlap.

### SmsCodes and Logins

A counter is INCR, then EXPIRE if the count is one, then the limit, each a call of its
own (`Count`, `SetTtl`), shared by the codes sent to a phone and the logins of an
address. `BeginSend` to `Store` are `send_verify_code`. `Logins` has `login_by_code`
and `login_by_password` (`BeginLogin` to `RefreshToken`) with `_incr_login_err` (`Wrong`,
`ErrTtl`, `SetLock`), the silent registration, `bump_token_version` and the two reads of
the version by `create_token_pair`. Numbers of versions stay small, so that what a token
must be compared with is in the state: `stale` says whether the version has changed since
the token's was read. `free` counts failures without a lock.

### Accounts

`accounts` and `openid` are the rows of `t_users`, by phone; an account registered by a
scan is named by its openid, from which the code makes its placeholder phone. `token`
and `scene` are the keys in Redis, `req` the requests at their await points; `saw` is
the openid a bind read before it writes. `Exchange` to `IssueToken` are the callback,
`BeginBind` to `Use` are `bind_phone_to_wechat`, `BeginComplete` to `InsertUser` are
`complete_wechat_register` and `register_user`, `BeginScan` to `AnswerScene` are
`wechat_login.py`. The last four variables are history: what was proved, which sessions
were handed out, which account came through which token, and which accounts a bind has
written over (`lost`).

Definitions preceded by "Mutant of ..." are not part of the models: they are the
plausible wrong versions of a definition that the properties must tell from the
right one (`mutants` in `PROJECT.json`), each written next to what it changes.

## The runs

| run | instance | checks | distinct states |
|---|---|---|---|
| `escrow_requests` | 2 buyers, 2 requests, scheduler; 1 seat; one busy lock, one refused commit, one crash | `TypeOK`, `EscrowLeavesFirst`, `WalletsMatchLog`, `CreatorMatchesLog`, `NoOversell`, `EscrowCoversSeats`, `PromiseKept` | 519 k |
| `escrow_closing` | the same, normal and spot, with withdraw, disband, delete and expiry; one busy lock, one crash | `NoOverdraft`, `SeatIsPaidFor`, `CodePaysOnce` | 4.3 M |
| `escrow_deadline` | 2 buyers, 2 requests, a deadline; `FairSpec` | `ExpiredOrderCloses` | 158 k |
| `withdraw` | 3 clients or operators, 4 applications, another payment, one fault | `TypeOK`, `NoOverdraft`, `RejectedIsReturned`, `ApplicationsArePosted`, `WalletNotBelowLog` | 4.9 M |
| `lock` | 3 clients, timeout of 4 ticks; any number of faults; `FairSpec` | `TypeOK`, `MutualExclusion`, `OnlyTheHolderUnlocks`, `LockComesFree` | 2 k |
| `payments` | 2 handlers, 2 trades, 2 faults; price 100, an order of 3; `FairSpec` | `EscrowMatchesPostings`, `RecordIsTrue`, `ReleasedIsReturned`, `AnsweredIsSettled`, `PaidIsDecided` | 175 k |
| `disputes` | 2 buyers, 2 requests, 2 handlers, 1 dispute, 2 faults; `FairSpec` | `ExecutedOnce`, `ResolvedIsPaid`, `UndecidedIsUnpaid`, `FiledIsDecided` | 269 k |
| `events` | 2 messages, 2 sessions, 1 fault, 3 retries; `FairSpec` | `TypeOK`, `HandledOnce`, `IndexIsCurrent`, `RoutedIsDecided`, `LateIsHidden` | 680 k |
| `logins` | 2 devices, limits of 1, 2 errors, 2 versions, 1 fault; `FairSpec` | `FailuresAreBounded`, `RejectedHasReason`, `RefusalEnds` | 598 k |
| `accounts` | 2 requests, 2 openids, 2 phones, 2 tokens, 1 scene | `BoundProvedPhone`, `AnsweredIsBound`, `TokenBindsOnce` | 6.2 M |
| `refunded_once` | join, quit, refund | violated: `RefundedOnce` | |
| `events_retry` | 1 message, 1 session, 1 fault, 3 retries | violated: `RetryIsTried` | |

What the properties need is what fixes the bounds. Two requests and the task, with two
buyers for one seat, are enough for each pair of operations to overlap at every commit,
which is where all the known races are (two actors at a time); `NobodyOversold` and
`EscrowIsEnough` are about orders of any size. One fault of each kind puts a failure at
each step of each operation, and one crash a restart after it; two failures of one kind
in one history are not covered by the runs. The price of 10.50 is one whose service fee,
31.5 cents, is a tie of the rounding (10.00 is the least a wallet may pay), and buyers
own one price, so that whoever has paid or withdrawn cannot pay again. Four applications
are one more than the daily limit, and funds of two amounts make a third debit one too
many.

`escrow_requests` leaves out disband and delete because they break, by design of their
refund loop, what it checks: the loop changes balances and then raises while it builds
the posting. `escrow_closing` has them and checks what survives. `NoOversell` and
`EscrowCoversSeats` hold until a buyer has left (`NobodyLeft`), and the second until
money was released (`NothingReleased`): a quit that overlaps joins does oversell (see
below), a release is committed before its seat, and a spot offer is sold any number of
times.

A timeout of 4 ticks has an interval of 2 and a slack of 1, so that a renewal can be in
time, late within the slack, and too late; a third client can hold the lock while one
that has lost it leaves and another is refused. Faults are unlimited there.

Two handlers in `payments` are what the races of a notification with another one, with a
refund, or with an automatic refund need, and two trades let a slot be taken by one and
used by the other; the second fault is one more than a failure that is repeated needs.
Price 100 has a share of 80. In `disputes` two handlers can hold one dispute only after
a message has come back, which is one fault, and die in the middle of it, which is
another; a second dispute would add nothing, since an order has one at a time unless it
is large, and disputes share only the mark. Two messages in `events` let one be
overtaken, fail or be lost while the other is handled, and two sessions let every pair
of changes overlap; the order starts in any status, so that no long history is needed;
the retry limit is the code's, and its header is beyond it after a failure of each
republished copy. The run of `logins` gives a behaviour one of three sets of operations
(sending; passwords; codes and refreshes): they share no key but the lock, which the
code and password logins treat alike, and all together are too many states. Limits of
one and two errors make the limit reachable with two devices. `accounts` has two of
everything that can clash, one scene because two scans of one scene meet the same rows
as scans of two.

A deduplication key lives half an hour and is not seen to expire within a behaviour; bans
do not change while requests run; the version's key, codes, slots, tokens, scenes,
counters, locks and cached pages expire at any time.

Deadlock checking is off in each run but `lock`: an order that is closed, with every request
returned and every bound used up, has nothing left to do, and neither has a user whose
applications are all audited, a queue whose messages are decided, or a set of devices
whose versions are used up. Symmetry is used only where no liveness is checked
(`escrow_requests`, `escrow_closing`, `refunded_once`, `withdraw`, `accounts`).

*Fairness.* In every `FairSpec` a request that has begun is run on by its event loop (weak
fairness of its own steps), and nothing is assumed of clients.

* `OrderEscrow`: the tasks and their steps as well (`start_scheduler` registers both
  with an interval of 60 seconds, and a task that ran into an exception logs it and is
  started again). The instance has a busy lock but no refused commit and no crash: after a
  rollback the task dies at `p.user_id`, and with a duplicate key it does so again each
  minute, so that the order stays open.
* `RedisLock`: time goes on and the work under a lock comes to an end; no fairness of
  renewal or release.
* `AlipayPayments`: the slot's key expires, and the provider repeats a notification that
  was not answered "success" (strong fairness of `Notified`, since handlers may be busy
  each time until then).
* `Disputes`: a consumer that is free again and again takes a queued message (strong
  fairness of `Deliver`).
* `OrderEvents`: API and consumer are started, deliveries and the time to live of queued
  messages go on, and the cache expires. Nothing says that anybody publishes.
* `Logins`: a counter that has a time to live expires.

## What the runs found

With a run: one participant is paid back twice by a quit and a refund that overlap
(`refunded_once`): different locks, different keys, and neither uses
`generate_refund_idempotent_key`, which is there for it. A message whose handling failed is
not tried again (`events_retry`): the copy that is published is taken for a duplicate of
itself, although `consumer_base.py` promises three retries and then the dead letters.

Without a run of their own, each in `PROJECT.json` with its line and what the doc or
comment says:

* *Orders.* A quit that overlaps joins writes back the count it read, and an order sells
  more seats than it has. A join that fills the order writes PURCHASING over a DISBANDED
  committed in between. After a concurrent withdrawal the guarded `UPDATE` of a join
  takes nothing, and the posting and the seat are there all the same. A quit whose
  credit failed has put the money back into the escrow; a retry pays the buyer and
  leaves it there. The scheduler's process has no Redis: orders are disbanded
  unrefunded. One spot offer is sold to any number of buyers; a settlement that dies
  between its commits is never FINISHED; `force_disband` ends a full order without a
  refund.
* *Withdrawals.* Two operators can both return an application and pay it out; so can
  one, who approves after a rejection that failed at its last commit. A user can have
  several pending applications at once.
* *Alipay.* The slot is of a user and not of a trade, so that two trades of one user can
  both be credited; a refund while purchasing always fails after the provider has paid
  it; a payment is not counted in `current_people` but its refund is.
* *Disputes.* The AI's verdict overwrites one that was given by hand meanwhile; the
  settlement debits nobody; the mark of a large order reads as closed; the key against a
  second payment is never used.
* *Queue and radar.* API and consumer declare the queue differently and the second is
  refused; a soft deletion is published as an upsert; the chat clean-up handler fails on
  every message. A refund that reopens an order publishes the document of the full one;
  an older document can be published after a newer one, and the tasks publish none.
* *Accounts.* A first login does not end the sessions of version 1, overlapping logins
  both stay valid, and no refresh compares a version; a process that dies between INCR
  and EXPIRE refuses a phone for ever; two binds of one phone overwrite each other; the
  second of two first scans stays pending. The login by scan lets banned accounts in.

## What is proved

Each theorem holds for all values of the constants that satisfy the assumption of its
module (`EscrowAssumption` for the orders: any buyers, requests, price, number of people,
funds and fault bounds):

* `OrderEscrowProofs`, from the types to the money:
  * `TypeCorrect`. A session's record is typed as a whole (`SessionsOK`), with one lemma for
    each way an action changes it. Here too `SplitConserves`: the two shares of a penalised
    refund add up to the price, for every amount.
  * `SeatsArePaidFor`, `EscrowGoesFirst`, `LocksKeepApart`, `NothingIsUndone`. The inductive
    invariant is `SeatInv == TypeOK /\ LocksHeld /\ LeavingInv /\ JoinInv`. The properties
    are not inductive by themselves, because what has been posted for a buyer depends on
    where the request for him is: `JoinFacts` and `LeaveFacts` say for each step of a
    request what is posted by then, and they are preserved by other requests only because
    `LocksHeld` allows one request of a kind. `EntryFacts` and `ExitFacts` say what is left
    of requests that have died.
  * `PromiseIsKept`, the refinement, follows from `SeatInv`: the initial phases are
    SeatPromise's, and each step maps to a move of one buyer or a stutter. It assumes that
    `Ops` has neither "disband" nor "delete", whose loop marks rows refunded without a
    posting.
  * `OneSettlement` (`CodeInv` adds what a settlement at each of its steps has in front of
    it), `NobodyOverdrawn` (disband's absolute writes included, by what the snapshot held),
    `WalletsAreLogged` (without withdraw, disband, delete; with a withdrawal TLC finds a
    debit that is posted and not made).
  * `NobodyOversold`, for normal orders and all operations, until a buyer has left.
    `FillInv` is what `current_people` means while joins write it back from copies: a
    request that joins has the number that the row still has until its own commit, since
    the lock lets no other join in and nobody else writes it, and every paid seat has
    been counted.
  * `EscrowIsEnough`, for normal orders that are not disbanded or deleted by hand, until a
    buyer has left or money was released: a release is one commit and its seat a later one,
    so that the inequality is false between them. `CoverInv` adds the converse count (a
    full order has all its seats paid, so that the settlement takes exactly what they put
    in) and what a join between its freeze and its seat has paid.
  * `CreatorIsLogged`, for all operations but disband and delete. It is inductive
    because a posting is made once: `CreatorMoves` says that a step changes the creator's
    balances by one posting whose key was free, by the settlement, or not at all.
* `WithdrawalsProofs`: `TypeCorrect`, `WalletNotOverdrawn`, `RejectionPaysBack`,
  `NothingUnposted`, `LogIsCovered`. The invariant adds that a session about to record a
  rejection has paid the amount back.
* Sums. `CreatorIsLogged`, `NothingUnposted` and `LogIsCovered` speak of the sum of a
  function over a set of any size, `SumFunction` of the community modules. What they
  need of it (`SumFunctionType`, `TotalChange`: if one value changes, the sum changes by as
  much, `TotalZero`) is proved from its definition, a recursive function that CHOOSE
  picks. The library's induction theorems cannot be used for that, but its well-founded
  orderings can: a set of subsets that is closed under adding an element has no smallest
  counterexample (`SubsetInduction`, by `WFMin`). From it follow that the recursive
  function exists (`IteratesExists`), that its value at a set does not depend on where one
  starts (`IteratesUnique`), and the three facts. The lemmas stand in both modules, whose
  specifications have names in common.
* `RedisLockProofs`: `TypeCorrect`, `OneHolder`, `NobodyElseUnlocks`, for any clients
  and any timeout of at least two ticks. `HolderIsAhead` is the reason: the key's time
  to live is ahead of the watchdog's sleep by more than the slack.
* `AlipayPaymentsProofs`: `PostingsAreExact`, `RecordsAreTrue`, `NoReleaseWithoutReturn`,
  `AnswersSettle`, for any trades, handlers and faults. A handler works on what it read
  before the provider answered, so `Progress` says what still holds of it at each of its
  places. That survives the other handlers because the history of a trade only grows
  (`Grows`) and because the lock lets one notification of a trade in at a time
  (`Apart`). The sum of the escrow is one of cardinalities, with the library's facts
  about finite sets. The price enters only by `RefundAmounts`: the rounded refund is
  between nothing and the price.
* `DisputesProofs`: `NoVerdictTwice`, `ResolvedArePaid`, `NothingPaidInAdvance`, for any
  buyers, requests, handlers, disputes and faults. The credits have no key that would
  stop a second one, so `NoVerdictTwice` is an argument by counting: for each dispute,
  the credits made and the handlers that may still make one are together no more than
  the times its message was handed out (`Count`), which is once where Redis remembers
  the message. `Progress` says what a handler has paid and whose the message is,
  `Unpublished` that a task is published once, `Left` that nobody works on a dispute
  that waits for an administrator unless its message came back.
* `OrderEventsProofs`: `TypeCorrect`, `HandlingIsOnce`, `IndexFollows`, for any messages,
  requests, retries and faults. `Places` says that a message is at one place of the queue
  at a time, `RunsInv` that it has been handed out exactly as often as the key or its returns
  account for. `IndexFollows` is an argument about order, for sessions that overlap in any
  way. Unless a message was lost, refused or recognised (`Spoiled`), the queue is in the
  order of publication (`InOrder`). Unless the row was left behind, it is up to date
  somewhere (`Covered`: in the last document published, or with a session that is still to
  publish one), and the index says what the last document handled said (`Follows`). With no
  session running and every document handled the two meet.
* `LoginsProofs`: `TypeCorrect`, `LockComesInTime`, `RejectionHasReason`, for any devices and
  limits. `FreeInv` counts: failures without a lock are those below the limit, the
  requests that are about to set the lock, and those that died before it.
  `VersionInv`: a version that was read is the user's, or known to be outdated.
* `AccountsProofs`: `HolderProvedPhone`, `SessionsAreBound`, `OneAccountPerToken`, for any
  number of requests, users, phones, tokens and scenes. None is inductive: what a
  request has read or proved must be known until it writes (`Progress`), and whom a
  token can still act for must be known wherever the token has gone, to Redis, into a
  request or into an account (`Claims`). `IInv == TypeInv /\ Index /\ Progress /\ Evidence /\
  Claims`; that evidence and `lost` only ever grow (`Growth`) is what lets the other
  requests' steps be passed over.

Every invariant that a passing run checks is stated by a theorem. Only model-checked are
the properties of liveness (`ExpiredOrderCloses`, `LockComesFree`, `PaidIsDecided`,
`FiledIsDecided`, `RoutedIsDecided`, `LateIsHidden`, `RefusalEnds`), which would need facts
about ENABLED that the installed provers cannot establish, and that `RefundedOnce` is
violated.

## Assumptions and abstractions

* Amounts are integers of cents, as in `schema.sql` (DECIMAL(12,2)). The models'
  `Mapped[Decimal]` columns without precision would become DECIMAL(10,0) where
  `create_all` builds the schema; this is not modelled.
* In `OrderEscrow` and `Withdrawals` a Redis lock is held from the check that took it
  until its request returns or dies. `RedisLock` says when that is so; what the orders do
  when a lock runs out under its request is not modelled.
* A balance call's own row locks and Redis lock make it one step; that they may be
  refused is `Busy`.
* One order, whose creator has the escrow of other orders as a constant
  (`OtherEscrow`); one user in `Withdrawals`.
* Credit scores, notifications, the search index and the messages published after a
  commit are left out: no decision on money or seats reads them.
* Only the right code is typed: the lockout after wrong ones is not modelled, since
  `CodePaysOnce` holds for any number of attempts.
* `Accounts` leaves out the limiters, which end a request at once, and user names. Which
  accounts are banned is chosen at the start and they have no openid then: a ban that
  meets a bound account is the subject of a finding and not of the run.
* Short messages, WeChat, Alipay and the AI are nondeterministic answers or failures.

## Not modelled

* `force_disband` in `OrderEscrow`: it writes one column and moves no money (`OrderEvents` has
  its change of status); `delivering_timeout_alert`, which sends a notice.
* Several orders in the scheduler: one whose refund fails for good holds up the later ones
  of the list (a hazard without a property).
* What the orders do when a lock runs out under its request.
* The middleware's sliding window, which one pipeline evaluates in Redis; the
  notification and chat handlers, which write one row or fail at once; logins by user name,
  which take the same steps under another key.
* Reconciliation writes reports only; the sums it compares are those of `WalletsMatchLog`.
* Chat, maps, AI texts, images and speech, user data, administration queries, HTTP layer:
  queries, single-row updates, and answers of external services on which no order, money or
  session depends. Frontend and deployment.

What could come next: abstract specifications of the lock and of the withdrawals with a
refinement each, as the orders have; the safety half of the liveness properties (that what
is to happen is never excluded for good); the orders' properties under a lock that runs out.
