------------------------------ MODULE Consumers ------------------------------
(***************************************************************************)
(* One queue of the broker with the API process that publishes to it        *)
(* (core/mq_client.py) and the consumer that serves it                      *)
(* (tasks/consumer_base.py): how the queue comes to exist, delivery one at  *)
(* a time, deduplication, retries and dead letters.  What a handler does to *)
(* the rest of the system is left to the module that extends this one.      *)
(***************************************************************************)
EXTENDS Integers, Sequences

CONSTANTS
  MaxMessages,  \* bound: the messages that are published
  MaxRetry,     \* MAX_RETRY_COUNT
  MaxFaults     \* bound: handlers that raise, failed publications, consumers that die

ASSUME ConsumersAssumption ==
  /\ MaxMessages \in Nat
  /\ MaxRetry \in Nat \ {0} /\ MaxFaults \in Nat

VARIABLES
  backed,   \* whether the consumer's process has Redis and the exchange
  kind,     \* how the queue was declared: not yet, plain, with a dead-letter exchange
  bound,    \* whether the queue is bound to the exchange
  api,      \* the API's connection: down, up, or with the exchange alone ("exchange")
  con,      \* the consumer: down, listening, or failed at its start
  ready,    \* the messages in the queue
  holds,    \* the message that is being handled
  key,      \* the messages with a deduplication key in Redis
  local,    \* the messages in the set the consumer keeps in memory
  retry,    \* the retry header of a message
  runs,     \* how often the handler was called for a message
  returns,  \* how often a message came back from a consumer that died
  fate,     \* what became of a message
  faults    \* how much of MaxFaults is used up

connections == <<backed, kind, bound, api, con>>
brokerVars  == <<connections, ready, holds, key, local, retry, runs, returns, fate, faults>>

\* A message is known by its event_id, here its number in the order of publication.
Messages  == 1 .. MaxMessages
NoMessage == 0
New(m)    == fate[m] = "new" /\ \A n \in 1 .. m - 1 : fate[n] # "new"

Fault == faults < MaxFaults /\ faults' = faults + 1
Decide(m, what) == fate' = [fate EXCEPT ![m] = what]

-----------------------------------------------------------------------------
(* init_mq and BaseConsumer.start *)

\* init_mq declares the queue with dead-letter arguments and binds it.  The broker
\* refuses that for a queue declared otherwise; main.py logs it and goes on, and the
\* exchange, declared before, stays usable.
StartApi ==
  /\ api = "down"
  /\ \/ /\ kind = "plain"
        /\ api' = "exchange"
        /\ UNCHANGED <<kind, bound, faults>>
     \/ /\ kind # "plain"
        /\ api' = "up" /\ kind' = "deadLetter" /\ bound' = TRUE
        /\ UNCHANGED faults
     \/ /\ Fault
        /\ api' = "offline"
        /\ UNCHANGED <<kind, bound>>
  /\ UNCHANGED <<backed, con, ready, holds, key, local, retry, runs, returns, fate>>

\* start declares the queue without arguments and does not bind it.  Refused, its
\* task ends with the exception, which nobody awaits.
StartConsumer ==
  /\ con = "down"
  /\ con' = IF kind = "deadLetter" THEN "failed" ELSE "listening"
  /\ kind' = IF kind = "absent" THEN "plain" ELSE kind
  /\ UNCHANGED <<backed, bound, api, ready, holds, key, local, retry, runs, returns, fate, faults>>

-----------------------------------------------------------------------------
(* publish_message *)

\* Without a connection get_exchange raises, and what the exchange cannot route is
\* returned to the publisher, who logs it.
Publish(m) ==
  /\ New(m)
  /\ \/ /\ api # "offline" /\ bound
        /\ ready' = Append(ready, m)
        /\ Decide(m, "queued")
        /\ UNCHANGED faults
     \/ /\ api = "offline" \/ ~bound
        /\ Decide(m, "unsent")
        /\ UNCHANGED <<ready, faults>>
     \/ /\ Fault
        /\ Decide(m, "unsent")
        /\ UNCHANGED ready
  /\ UNCHANGED <<connections, holds, key, local, retry, runs, returns>>

-----------------------------------------------------------------------------
(* BaseConsumer._on_message *)

\* _is_duplicate sets the key of the message it lets pass.
KeysAfter(m) == IF backed THEN key \cup {m} ELSE key

\* Mutant of Duplicate: only the set in memory is asked.
DuplicateLocal(m) == m \in local

Duplicate(m) == m \in local \/ m \in key

\* The next message, unless it is a duplicate, is handed to the handler.
Deliver ==
  /\ con = "listening" /\ holds = NoMessage /\ ready # <<>>
  /\ LET m == Head(ready)
     IN  /\ ready' = Tail(ready)
         /\ IF Duplicate(m)
              THEN /\ Decide(m, "skipped")
                   /\ local' = local \cup {m}
                   /\ UNCHANGED <<holds, key, runs>>
              ELSE /\ holds' = m
                   /\ key' = KeysAfter(m)
                   /\ runs' = [runs EXCEPT ![m] = @ + 1]
                   /\ UNCHANGED <<local, fate>>
  /\ UNCHANGED <<connections, retry, returns, faults>>

\* The handler returns: marked in memory, acknowledged.
Succeed ==
  /\ holds # NoMessage
  /\ Decide(holds, "handled")
  /\ local' = local \cup {holds}
  /\ holds' = NoMessage
  /\ UNCHANGED <<connections, ready, key, retry, runs, returns, faults>>

\* A rejected message goes to the dead letters only of a queue that has them.
Rejected == IF kind = "deadLetter" THEN "dead" ELSE "dropped"

\* The handler raises: below the limit the message is published again, with the same
\* event_id, and acknowledged.  Where there is no exchange that raises as well.
Fail ==
  /\ holds # NoMessage
  /\ IF retry[holds] + 1 <= MaxRetry /\ backed
       THEN /\ ready' = IF bound THEN Append(ready, holds) ELSE ready
            /\ retry' = [retry EXCEPT ![holds] = @ + 1]
            /\ IF bound THEN UNCHANGED fate ELSE Decide(holds, "dropped")
       ELSE /\ Decide(holds, Rejected)
            /\ UNCHANGED <<ready, retry>>
  /\ holds' = NoMessage
  /\ UNCHANGED <<connections, key, local, runs, returns>>

\* Mutant of Returned: deliveries are not acknowledged by hand.
ReturnedNone == ready

\* What is not acknowledged goes back to the head of the queue.
Returned == IF holds = NoMessage THEN ready ELSE <<holds>> \o ready

\* The consumer's process dies, and with it the set in memory.
CrashConsumer ==
  /\ con = "listening"
  /\ Fault
  /\ con' = "down"
  /\ ready' = Returned
  /\ returns' = IF holds = NoMessage THEN returns ELSE [returns EXCEPT ![holds] = @ + 1]
  /\ holds' = NoMessage /\ local' = {}
  /\ UNCHANGED <<backed, kind, bound, api, key, retry, runs, fate>>

\* x-message-ttl: five minutes in the queue.
Expire ==
  /\ kind = "deadLetter" /\ ready # <<>>
  /\ Decide(Head(ready), "dead")
  /\ ready' = Tail(ready)
  /\ UNCHANGED <<connections, holds, key, local, retry, runs, returns, faults>>

BrokerInit ==
  /\ backed \in BOOLEAN
  /\ kind \in {"absent", "plain"} /\ bound = (kind = "plain")
  /\ api = "down" /\ con = "down"
  /\ ready = <<>> /\ holds = NoMessage
  /\ key = {} /\ local = {}
  /\ retry = [m \in Messages |-> 0]
  /\ runs = [m \in Messages |-> 0] /\ returns = [m \in Messages |-> 0]
  /\ fate = [m \in Messages |-> "new"]
  /\ faults = 0

\* What happens without the queue's publishers and handlers.
BrokerStep == StartApi \/ StartConsumer \/ Deliver \/ CrashConsumer \/ Expire

-----------------------------------------------------------------------------
(* Properties *)

Queued == {ready[i] : i \in DOMAIN ready}

\* Every variable has its type; a message is in the queue or with the handler if it
\* was published and its fate is not decided, and only then.
BrokerTypeOK ==
  /\ backed \in BOOLEAN /\ bound \in BOOLEAN
  /\ kind \in {"absent", "plain", "deadLetter"}
  /\ api \in {"down", "up", "exchange", "offline"} /\ con \in {"down", "listening", "failed"}
  /\ ready \in Seq(Messages) /\ holds \in Messages \cup {NoMessage}
  /\ key \subseteq Messages /\ local \subseteq Messages
  /\ retry \in [Messages -> 0 .. MaxRetry]
  /\ runs \in [Messages -> Nat] /\ returns \in [Messages -> 0 .. MaxFaults]
  /\ fate \in [Messages ->
       {"new", "queued", "unsent", "handled", "skipped", "dead", "dropped"}]
  /\ faults \in 0 .. MaxFaults
  /\ \A m \in Messages : fate[m] = "queued" <=> m \in Queued \cup {holds}

\* The handler is called at most once for each time that a message is published, at
\* first or to be tried again: what comes back from a consumer that died, or is
\* published twice, is recognised by its event_id (_is_duplicate; without Redis, what
\* comes back is not).
HandledOnce ==
  \A m \in Messages :
    runs[m] <= 1 + retry[m] + (IF backed THEN 0 ELSE returns[m])

\* "A failure is tried again three times, beyond that it goes to the dead letters"
\* (consumer_base.py): what is done with as a duplicate has been handed to the handler
\* once more for each time that it was published again.
RetryIsTried == \A m \in Messages : fate[m] = "skipped" => runs[m] > retry[m]

\* A message the exchange has routed does not stay in the queue or with the handler.
RoutedIsDecided == \A m \in Messages : fate[m] = "queued" ~> fate[m] # "queued"
=============================================================================
