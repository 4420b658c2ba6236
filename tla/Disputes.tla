------------------------------ MODULE Disputes ------------------------------
(***************************************************************************)
(* Disputes about one order (PRD 4.9): buyers who file them, the task queue *)
(* "ai.dispute.judge", the consumer that asks the AI and executes its       *)
(* verdict, and administrators who judge by hand.                           *)
(*                                                                         *)
(* A consumer's handler works on the row it read before it awaited the AI,  *)
(* without a lock, and the credits of a settlement are commits of their own *)
(* under keys that hold the time, so that no key is used twice.             *)
(***************************************************************************)
EXTENDS Integers, FiniteSets

CONSTANTS
  Buyers,     \* participants who may file a dispute
  Sessions,   \* HTTP requests served at the same time
  Handlers,   \* deliveries that consumers handle at the same time
  Disputed,   \* bound: rows of t_disputes
  NoOne,      \* no buyer, no dispute
  MaxFaults   \* bound: failed calls, lost connections, expiries, processes that die

ASSUME DisputesAssumption ==
  /\ NoOne \notin Buyers \cup Disputed
  /\ Handlers \cap {"none", "queued", "gone"} = {}  \* where else a message can be
  /\ MaxFaults \in Nat

VARIABLES
  large,      \* whether the order's amount is left to administrators
  backed,     \* whether the consumers' process has Redis and the exchange
  mark,       \* dispute_status of the order
  row,        \* the t_disputes rows
  task,       \* where the message of a dispute is
  seen,       \* the messages with a deduplication key in Redis
  again,      \* how often a message came back from a lost consumer
  credit,     \* how often applicant and creator were credited for a dispute
  web,        \* the state of every session
  judge,      \* the state of every handler
  lost,       \* the disputes whose task will not be handled (any more)
  faults      \* how much of MaxFaults is used up

vars == <<large, backed, mark, row, task, seen, again, credit, web, judge, lost, faults>>

Verdicts == {"creator", "participant", "shared"}
NoRow    == [status |-> "none", by |-> NoOne, judged |-> "none", verdict |-> "none"]
IdleWeb  == [at |-> "idle", by |-> NoOne, about |-> NoOne]
Idle     == [at |-> "idle", about |-> NoOne, verdict |-> "none", sure |-> FALSE]
Unused   == {i \in Disputed : row[i].status = "none"}
Fault    == faults < MaxFaults /\ faults' = faults + 1

Goto(c, at) == judge' = [judge EXCEPT ![c].at = at]
Finish(c)   == judge' = [judge EXCEPT ![c] = Idle]

-----------------------------------------------------------------------------
(* initiate_dispute *)

\* The checks of a buyer's request: none but the amount for a large order; else he
\* has no dispute of his own that is not CLOSED, and the order none at all.
Initiate(s, u) ==
  /\ web[s] = IdleWeb
  /\ large \/ (mark = 0 /\ \A i \in Disputed : row[i].by # u)
  /\ web' = [web EXCEPT ![s] = [IdleWeb EXCEPT !.at = "insert", !.by = u]]
  /\ UNCHANGED <<large, backed, mark, row, task, seen, again, credit, judge, lost, faults>>

\* The new row.
Filed(i, u) ==
  [row EXCEPT ![i].by = u, ![i].status = IF large THEN "PENDING_MANUAL" ELSE "PENDING"]

\* Row and mark in one commit.  The mark of a large order is DisputeStatus's
\* PENDING_MANUAL, 2, which for an order means closed.
Insert(s) ==
  /\ web[s].at = "insert"
  /\ \E i \in Unused :
       /\ row' = Filed(i, web[s].by)
       /\ web' = [web EXCEPT ![s] = IF large THEN IdleWeb
                                    ELSE [@ EXCEPT !.at = "publish", !.about = i]]
  /\ mark' = IF large THEN 2 ELSE 1
  /\ UNCHANGED <<large, backed, task, seen, again, credit, judge, lost, faults>>

\* The task of the AI.  A failure to publish is logged and returned, and not read.
Publish(s) ==
  LET i == web[s].about
  IN  /\ web[s].at = "publish"
      /\ \/ /\ task' = [task EXCEPT ![i] = "queued"]
            /\ UNCHANGED <<lost, faults>>
         \/ /\ Fault
            /\ lost' = lost \cup {i}
            /\ UNCHANGED task
      /\ web' = [web EXCEPT ![s] = IdleWeb]
      /\ UNCHANGED <<large, backed, mark, row, seen, again, credit, judge>>

-----------------------------------------------------------------------------
(* manual_judge *)

\* The row is read, without a lock.
BeginManual(s, i) ==
  /\ web[s] = IdleWeb
  /\ row[i].status \in {"PENDING", "PENDING_MANUAL"}
  /\ web' = [web EXCEPT ![s] = [IdleWeb EXCEPT !.at = "manual", !.about = i]]
  /\ UNCHANGED <<large, backed, mark, row, task, seen, again, credit, judge, lost, faults>>

\* The verdict is written; no money moves, and the order keeps its mark.
WriteManual(s) ==
  /\ web[s].at = "manual"
  /\ \E v \in Verdicts :
       row' = [row EXCEPT ![web[s].about].status = "RESOLVED",
                          ![web[s].about].judged = "hand",
                          ![web[s].about].verdict = v]
  /\ web' = [web EXCEPT ![s] = IdleWeb]
  /\ UNCHANGED <<large, backed, mark, task, seen, again, credit, judge, lost, faults>>

-----------------------------------------------------------------------------
(* The queue and the consumer *)

\* Mutant of SeenFrom: a message is marked when its handler has succeeded.
SeenFromSuccess(i) == seen

\* SETNX of _is_duplicate, before the message is handled.
SeenFrom(i) == IF backed THEN seen \cup {i} ELSE seen

\* A dispute that is no longer PENDING is skipped.
Judgeable(i) == row[i].status = "PENDING"

\* Mutant of Holder: messages are acknowledged as they are delivered.
HolderNone(c) == "gone"

\* Until it is settled, a delivered message is its handler's.
Holder(c) == c

\* A message is delivered: skipped as a duplicate, or acknowledged because the
\* dispute is decided, or handled.  The set the consumer keeps in memory only
\* holds disputes that are decided.
Deliver(c, i) ==
  /\ judge[c] = Idle
  /\ task[i] = "queued"
  /\ IF i \notin seen /\ Judgeable(i)
       THEN /\ task' = [task EXCEPT ![i] = Holder(c)]
            /\ judge' = [judge EXCEPT ![c] = [at |-> "ask", about |-> i,
                                              verdict |-> "none", sure |-> FALSE]]
            /\ UNCHANGED lost
       ELSE /\ task' = [task EXCEPT ![i] = "gone"]
            /\ lost' = lost \cup {i}
            /\ UNCHANGED judge
  /\ seen' = SeenFrom(i)
  /\ UNCHANGED <<large, backed, mark, row, again, credit, web, faults>>

\* The handler raises.  With Redis and the exchange the message is published again;
\* without, that raises too and the message is rejected.
Fail(c) ==
  LET i == judge[c].about
  IN  /\ judge[c].at # "idle"
      /\ Fault
      /\ task' = [task EXCEPT ![i] = IF @ # c THEN @ ELSE IF backed THEN "queued" ELSE "gone"]
      /\ lost' = IF backed THEN lost ELSE lost \cup {i}
      /\ Finish(c)
      /\ UNCHANGED <<large, backed, mark, row, seen, again, credit, web>>

\* The consumer's process dies, or loses its connection to the broker while the
\* handler goes on.  The broker delivers the message again.
BreakOff(c) ==
  LET i == judge[c].about
  IN  /\ judge[c].at # "idle"
      /\ Fault
      /\ IF task[i] = c
           THEN task' = [task EXCEPT ![i] = "queued"] /\ again' = [again EXCEPT ![i] = @ + 1]
           ELSE UNCHANGED <<task, again>>
      /\ Finish(c) \/ UNCHANGED judge
      /\ UNCHANGED <<large, backed, mark, row, seen, credit, web, lost>>

\* The message has waited for five minutes and goes to the dead letters.
Expire(i) ==
  /\ task[i] = "queued"
  /\ Fault
  /\ task' = [task EXCEPT ![i] = "gone"]
  /\ lost' = lost \cup {i}
  /\ UNCHANGED <<large, backed, mark, row, seen, again, credit, web, judge>>

-----------------------------------------------------------------------------
(* execute_ai_judge *)

\* Mutant of FirstOf: the verdict is written before it is executed.
FirstOfWrite(v) == "write"

\* Where a verdict of sufficient confidence leads first.
FirstOf(v) == IF v = "participant" THEN "penalty" ELSE "refund"

\* Mutant of AfterAnswer: the verdict is executed before its confidence is looked at.
AfterAnswerAlways(v, sure) == FirstOf(v)

AfterAnswer(v, sure) == IF sure THEN FirstOf(v) ELSE "write"

\* judge_dispute: the AI's verdict, and whether its confidence reaches the threshold.
Ask(c) ==
  /\ judge[c].at = "ask"
  /\ \E v \in Verdicts, sure \in BOOLEAN :
       judge' = [judge EXCEPT ![c] = [@ EXCEPT !.at = AfterAnswer(v, sure),
                                                !.verdict = v, !.sure = sure]]
  /\ UNCHANGED <<large, backed, mark, row, task, seen, again, credit, web, lost, faults>>

\* The applicant's wallet is credited, the creator's share of the responsibility.
Refund(c) ==
  /\ judge[c].at = "refund"
  /\ credit' = [credit EXCEPT ![judge[c].about].applicant = @ + 1]
  /\ Goto(c, IF judge[c].verdict = "shared" THEN "penalty" ELSE "write")
  /\ UNCHANGED <<large, backed, mark, row, task, seen, again, web, lost, faults>>

\* The creator's wallet is credited, the participant's share.
Penalty(c) ==
  /\ judge[c].at = "penalty"
  /\ credit' = [credit EXCEPT ![judge[c].about].creator = @ + 1]
  /\ Goto(c, "write")
  /\ UNCHANGED <<large, backed, mark, row, task, seen, again, web, lost, faults>>

\* Row and mark in one commit, whatever they say by now; then the message is
\* acknowledged, if the broker still awaits that.
Write(c) ==
  LET i == judge[c].about
  IN  /\ judge[c].at = "write"
      /\ row' = [row EXCEPT ![i].status = IF judge[c].sure THEN "RESOLVED" ELSE "PENDING_MANUAL",
                            ![i].judged = "AI",
                            ![i].verdict = judge[c].verdict]
      /\ mark' = IF judge[c].sure THEN 2 ELSE mark
      /\ task' = [task EXCEPT ![i] = IF @ = c THEN "gone" ELSE @]
      /\ Finish(c)
      /\ UNCHANGED <<large, backed, seen, again, credit, web, lost, faults>>

-----------------------------------------------------------------------------
\* The process that serves a request dies; a dispute may be left without a task.
Crash(s) ==
  /\ web[s] # IdleWeb
  /\ Fault
  /\ lost' = IF web[s].at = "publish" THEN lost \cup {web[s].about} ELSE lost
  /\ web' = [web EXCEPT ![s] = IdleWeb]
  /\ UNCHANGED <<large, backed, mark, row, task, seen, again, credit, judge>>

Init ==
  /\ large \in BOOLEAN /\ backed \in BOOLEAN
  /\ mark = 0
  /\ row = [i \in Disputed |-> NoRow]
  /\ task = [i \in Disputed |-> "none"]
  /\ seen = {}
  /\ again = [i \in Disputed |-> 0]
  /\ credit = [i \in Disputed |-> [applicant |-> 0, creator |-> 0]]
  /\ web = [s \in Sessions |-> IdleWeb]
  /\ judge = [c \in Handlers |-> Idle]
  /\ lost = {} /\ faults = 0

JudgeStep(c) == Ask(c) \/ Refund(c) \/ Penalty(c) \/ Write(c)

Next ==
  \/ \E s \in Sessions :
       \/ \E u \in Buyers : Initiate(s, u)
       \/ Insert(s) \/ Publish(s)
       \/ \E i \in Disputed : BeginManual(s, i)
       \/ WriteManual(s)
       \/ Crash(s)
  \/ \E c \in Handlers :
       \/ \E i \in Disputed : Deliver(c, i)
       \/ JudgeStep(c)
       \/ Fail(c) \/ BreakOff(c)
  \/ \E i \in Disputed : Expire(i)

Spec == Init /\ [][Next]_vars

\* Requests and handlers run on, and a consumer that is free is given a message.
FairSpec ==
  /\ Spec
  /\ \A s \in Sessions : WF_vars(Insert(s) \/ Publish(s))
  /\ \A c \in Handlers : WF_vars(JudgeStep(c))
  /\ \A i \in Disputed : SF_vars(\E c \in Handlers : Deliver(c, i))

-----------------------------------------------------------------------------
(* Properties *)

\* A verdict is executed once, although no key stops the second time: a retried
\* message is recognised before it is handled, and only one that came back from a
\* lost consumer without Redis is executed again.
ExecutedOnce ==
  \A i \in Disputed :
    /\ credit[i].applicant <= 1 + (IF backed THEN 0 ELSE again[i])
    /\ credit[i].creator   <= 1 + (IF backed THEN 0 ELSE again[i])

\* A dispute that stands as resolved by the AI has been paid as its verdict says,
\* in every share, whoever else wrote the row in between.
ResolvedIsPaid ==
  \A i \in Disputed : row[i].status = "RESOLVED" /\ row[i].judged = "AI" =>
    /\ row[i].verdict \in {"creator", "shared"} => credit[i].applicant >= 1
    /\ row[i].verdict \in {"participant", "shared"} => credit[i].creator >= 1

\* What is left to an administrator, for its amount or for the AI's doubts, has not
\* been paid already.
UndecidedIsUnpaid ==
  \A i \in Disputed : row[i].status = "PENDING_MANUAL" /\ again[i] = 0 =>
    credit[i] = [applicant |-> 0, creator |-> 0]

\* A dispute that is filed comes to a decision, unless its task could not be
\* published, expired, failed, or was taken for a duplicate.
FiledIsDecided ==
  \A i \in Disputed : row[i].status = "PENDING" ~> row[i].status # "PENDING" \/ i \in lost
=============================================================================
