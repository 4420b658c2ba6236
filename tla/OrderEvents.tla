----------------------------- MODULE OrderEvents -----------------------------
(***************************************************************************)
(* One order as the radar shows it (PRD 4.3): requests and the scheduler    *)
(* change its row, most of them publish a document of it, the consumer of   *)
(* "order.status.sync" writes documents to the search index, and searches   *)
(* are answered from the index or from a cache.                             *)
(***************************************************************************)
EXTENDS Consumers, FiniteSets

CONSTANTS
  Sessions    \* requests, and tasks of the scheduler, that run at the same time

VARIABLES
  spot,        \* whether the order is a spot offer
  status,      \* status of the row
  deleted,     \* is_deleted of the row, the soft deletion of an order that is over
  late,        \* whether the deadline, of a spot offer spot_valid_until, has passed
  web,         \* the state of every session, with the status that it is to write
  doc,         \* the status in the document of a message
  index,       \* the status in the order's document in the index
  answer,      \* whether a search has got the order from the index, to cache it
  cache,       \* whether what a search has cached shows the order
  leftBehind   \* whether the row changed with no document to follow, or an older
               \* document was published after a newer one

order == <<spot, status, deleted, late>>
radar == <<index, answer, cache>>
vars  == <<brokerVars, order, web, doc, radar, leftBehind>>

Statuses == {"GATHERING", "PURCHASING", "DELIVERING", "FINISHED", "DISBANDED"}
Idle == [at |-> "idle", doc |-> "none"]

\* The statuses a search shows: normal orders that gather, spot offers.
Open == IF spot THEN "DELIVERING" ELSE "GATHERING"

\* What a document has to say of the order.
Current == IF deleted THEN "deleted" ELSE status

\* The changes that order_service checks and commits under the row's lock:
\* transition_to_delivering, disband_order (of a spot offer that nobody has bought,
\* too) and delete_order.
LockedChanges ==
  {<<"PURCHASING", "DELIVERING">>, <<"GATHERING", "DISBANDED">>, <<"PURCHASING", "DISBANDED">>}
    \cup IF spot THEN {<<"DELIVERING", "DISBANDED">>} ELSE {}

\* Those whose check looks at the copy the session has read before: by join_order for
\* transition_to_purchasing, by settle_order for transition_to_finished, by
\* force_disband for disband_order.
StaleChanges ==
  {<<"GATHERING", "PURCHASING">>, <<"DELIVERING", "FINISHED">>, <<"GATHERING", "DISBANDED">>}

Busy == \E s \in Sessions : web[s] # Idle

\* Bound: a message is left for the document of every session.
Publishing == {"index", "write", "build", "publish", "commit", "reopen", "announce"}
Room == Cardinality({s \in Sessions : web[s].at \in Publishing})
          < Cardinality({m \in Messages : fate[m] = "new"})

\* Requests are served when init_mq has been tried.
Serving == api # "down"

Goto(s, at, what) == web' = [web EXCEPT ![s] = [at |-> at, doc |-> what]]
Leave(s)          == web' = [web EXCEPT ![s] = Idle]

\* The last message that was published, and whether its document is up to date.
AllNew  == \A m \in Messages : fate[m] = "new"
Last(m) == fate[m] # "new" /\ \A n \in Messages : m < n => fate[n] = "new"
Told    == IF AllNew THEN index = Current ELSE \E m \in Messages : Last(m) /\ doc[m] = Current

-----------------------------------------------------------------------------
(* order_service *)

\* create_normal_order and create_spot_order commit the row.
Create(s) ==
  /\ web[s] = Idle /\ Serving /\ Room
  /\ status = "none"
  /\ status' = Open
  /\ Goto(s, "index", "none")
  /\ UNCHANGED <<brokerVars, spot, deleted, late, doc, radar, leftBehind>>

\* The document of a new order, read in a session of its own, is written to the index
\* directly; an error is logged.
ReadDirectly(s) ==
  /\ web[s].at = "index"
  /\ Goto(s, "write", status)
  /\ UNCHANGED <<brokerVars, order, doc, radar, leftBehind>>

\* Mutant of WriteDirectly: what is in the index is not published as well.
WriteDirectlyOnce(s) ==
  /\ web[s].at = "write"
  /\ \/ index' = web[s].doc /\ Leave(s) /\ UNCHANGED faults
     \/ Fault /\ Goto(s, "build", "none") /\ UNCHANGED index
  /\ UNCHANGED <<connections, ready, holds, key, local, retry, runs, returns, fate,
                 order, doc, answer, cache, leftBehind>>

WriteDirectly(s) ==
  /\ web[s].at = "write"
  /\ \/ index' = web[s].doc /\ UNCHANGED faults
     \/ Fault /\ UNCHANGED index
  /\ Goto(s, "build", "none")
  /\ UNCHANGED <<connections, ready, holds, key, local, retry, runs, returns, fate,
                 order, doc, answer, cache, leftBehind>>

\* _commit_and_notify commits the new status first.
Transition(s, to) ==
  /\ web[s] = Idle /\ Serving /\ Room
  /\ <<status, to>> \in LockedChanges
  /\ status' = to
  /\ Goto(s, "build", "none")
  /\ UNCHANGED <<brokerVars, spot, deleted, late, doc, radar, leftBehind>>

\* A request that reads the order, and writes its status on the strength of that.
ReadOrder(s, to) ==
  /\ web[s] = Idle /\ Serving /\ Room
  /\ <<status, to>> \in StaleChanges
  /\ Goto(s, "commit", to)
  /\ UNCHANGED <<brokerVars, order, doc, radar, leftBehind>>

CommitStale(s) ==
  /\ web[s].at = "commit"
  /\ status' = web[s].doc
  /\ Goto(s, "build", "none")
  /\ UNCHANGED <<brokerVars, spot, deleted, late, doc, radar, leftBehind>>

\* _build_es_doc reads the row in a session of its own.
Build(s) ==
  /\ web[s].at \in {"build", "reopen"}
  /\ Goto(s, IF web[s].at = "build" THEN "publish" ELSE "announce", status)
  /\ UNCHANGED <<brokerVars, order, doc, radar, leftBehind>>

\* delete_order of an order that is over: what is published for its deletion has the
\* action "upsert" and the payload for its document.
SoftDelete(s) ==
  /\ web[s] = Idle /\ Serving /\ Room
  /\ status \in {"FINISHED", "DISBANDED"}
  /\ deleted' = TRUE
  /\ Goto(s, "publish", "deleted")
  /\ UNCHANGED <<brokerVars, spot, status, late, doc, radar, leftBehind>>

\* _send_order_sync.
PublishSync(s) ==
  /\ web[s].at \in {"publish", "announce"}
  /\ \E m \in Messages :
       /\ Publish(m)
       /\ doc' = [doc EXCEPT ![m] = web[s].doc]
  /\ leftBehind' = (leftBehind \/ (Told /\ web[s].doc # Current))
  /\ IF web[s].at = "publish" THEN Leave(s) ELSE Goto(s, "reopened", "none")
  /\ UNCHANGED <<order, radar>>

\* refund_order of a full order, which it has read as PURCHASING, builds and publishes
\* the document of the row before it commits that the order gathers again.
ReadReopen(s) ==
  /\ web[s] = Idle /\ Serving /\ Room
  /\ status = "PURCHASING"
  /\ Goto(s, "reopen", "none")
  /\ UNCHANGED <<brokerVars, order, doc, radar, leftBehind>>

CommitReopen(s) ==
  /\ web[s].at = "reopened"
  /\ status' = "GATHERING"
  /\ leftBehind' = TRUE
  /\ Leave(s)
  /\ UNCHANGED <<brokerVars, spot, deleted, late, doc, radar>>

\* Changes that publish no document: auto_disband_task and spot_expiry_task when the
\* deadline has passed, and force_disband of an order that does not gather.
ReadSilently(s) ==
  /\ web[s] = Idle
  /\ \/ late /\ status = Open
     \/ status \notin {"none", "GATHERING", "DISBANDED"}
  /\ Goto(s, "silent", "none")
  /\ UNCHANGED <<brokerVars, order, doc, radar, leftBehind>>

CommitSilently(s) ==
  /\ web[s].at = "silent"
  /\ status' = "DISBANDED"
  /\ leftBehind' = TRUE
  /\ Leave(s)
  /\ UNCHANGED <<brokerVars, spot, deleted, late, doc, radar>>

\* The process of a request dies; a document it has still to publish for a change
\* it has committed is not published.
CrashRequest(s) ==
  /\ web[s] # Idle
  /\ Fault
  /\ leftBehind' = (leftBehind \/ web[s].at \in {"index", "write", "build", "publish"})
  /\ Leave(s)
  /\ UNCHANGED <<connections, ready, holds, key, local, retry, runs, returns, fate,
                 order, doc, radar>>

DeadlinePasses ==
  /\ ~late /\ status # "none"
  /\ late' = TRUE
  /\ UNCHANGED <<brokerVars, spot, status, deleted, web, doc, radar, leftBehind>>

-----------------------------------------------------------------------------
(* ESOrderSyncConsumer *)

\* The document replaces what the index has.
SyncSucceeds ==
  /\ backed
  /\ Succeed
  /\ index' = doc[holds]
  /\ UNCHANGED <<order, web, doc, answer, cache, leftBehind>>

\* The index refuses; in a process of its own the consumer has no client for it.
SyncFails ==
  /\ Fail
  /\ IF backed THEN Fault ELSE UNCHANGED faults
  /\ UNCHANGED <<order, web, doc, radar, leftBehind>>

Broker ==
  /\ BrokerStep
  /\ UNCHANGED <<order, web, doc, radar, leftBehind>>

-----------------------------------------------------------------------------
(* radar_service.search_nearby_orders *)

\* Mutant of Matches: the query has no range on the deadline.
MatchesStatus == index = Open

\* The query's clauses on status and deadline, for a user near by who is not the
\* creator.
Matches == index = Open /\ ~late

\* A search that the cache does not answer, and that shows the order; one that does
\* not, or a cached answer without it, makes no difference here,
Search ==
  /\ ~answer /\ ~cache /\ Matches
  /\ answer' = TRUE
  /\ UNCHANGED <<brokerVars, order, web, doc, index, cache, leftBehind>>

\* and the answer, cached for ten seconds.
CacheAnswer ==
  /\ answer
  /\ cache' = TRUE /\ answer' = FALSE
  /\ UNCHANGED <<brokerVars, order, web, doc, index, leftBehind>>

CacheExpires ==
  /\ cache
  /\ cache' = FALSE
  /\ UNCHANGED <<brokerVars, order, web, doc, index, answer, leftBehind>>

-----------------------------------------------------------------------------
\* The order is to be created, or is one whose last document was handled long ago.
\* A spot offer starts as DELIVERING.
Init ==
  /\ BrokerInit
  /\ spot \in BOOLEAN /\ deleted = FALSE /\ late = FALSE
  /\ status \in {"none"} \cup IF spot THEN Statuses \ {"GATHERING", "PURCHASING"} ELSE Statuses
  /\ index = status
  /\ web = [s \in Sessions |-> Idle]
  /\ doc = [m \in Messages |-> "none"]
  /\ answer = FALSE /\ cache = FALSE
  /\ leftBehind = FALSE

Begin(s) ==
  \/ Create(s) \/ SoftDelete(s) \/ ReadReopen(s) \/ ReadSilently(s)
  \/ \E to \in Statuses : Transition(s, to) \/ ReadOrder(s, to)

Continue(s) ==
  \/ ReadDirectly(s) \/ WriteDirectly(s) \/ Build(s) \/ PublishSync(s)
  \/ CommitStale(s) \/ CommitReopen(s) \/ CommitSilently(s)

Next ==
  \/ \E s \in Sessions : Begin(s) \/ Continue(s) \/ CrashRequest(s)
  \/ DeadlinePasses
  \/ SyncSucceeds \/ SyncFails
  \/ Broker
  \/ Search \/ CacheAnswer \/ CacheExpires

Spec == Init /\ [][Next]_vars

\* The processes are started, their event loops run on, and what has a time to live
\* expires.
FairSpec ==
  /\ Spec
  /\ WF_vars(StartApi /\ Broker) /\ WF_vars(StartConsumer /\ Broker)
  /\ WF_vars(Deliver /\ Broker) /\ WF_vars(Expire /\ Broker)
  /\ WF_vars(SyncSucceeds \/ SyncFails)
  /\ WF_vars(CacheAnswer) /\ WF_vars(CacheExpires)

-----------------------------------------------------------------------------
(* Properties *)

Docs == Statuses \cup {"none", "deleted"}
SessionStates ==
  [at : (Publishing \ {"commit"}) \cup {"idle", "reopened", "silent"}, doc : Docs]
    \cup [at : {"commit"}, doc : Statuses]

\* Every variable has its type, and the broker's have theirs.
TypeOK ==
  /\ BrokerTypeOK
  /\ spot \in BOOLEAN /\ deleted \in BOOLEAN /\ late \in BOOLEAN /\ leftBehind \in BOOLEAN
  /\ status \in Statuses \cup {"none"} /\ index \in Docs
  /\ web \in [Sessions -> SessionStates]
  /\ doc \in [Messages -> Docs]
  /\ answer \in BOOLEAN /\ cache \in BOOLEAN

\* However requests overlap: once none is running and every document that was
\* published has been handled, the index says of the order what its row says.  The
\* exceptions are a change with no document to follow, an older document published
\* after a newer one (leftBehind), and a document that was lost.
IndexIsCurrent ==
  (~leftBehind /\ ~Busy /\ \A m \in Messages : fate[m] \in {"new", "handled"}) =>
    index = Current

\* Once the deadline has passed the radar comes to show the order no more, whatever
\* documents were lost, came late or were overtaken, and although the scheduler
\* publishes none.
LateIsHidden == late ~> []~cache
=============================================================================
