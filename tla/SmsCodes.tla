------------------------------- MODULE SmsCodes -------------------------------
(***************************************************************************)
(* The login codes of one phone (services/sms_service.py) and the counters   *)
(* in Redis that limit how often something is asked for: INCR, EXPIRE if the *)
(* count is one, refuse above the limit.  sms_service counts the codes sent  *)
(* to the phone in an hour, api/v1/auth.py the logins from one address in a  *)
(* minute.  Requests are served concurrently, one of each device at a time,  *)
(* and every call of Redis or of the provider of short messages is a step.   *)
(***************************************************************************)
EXTENDS Integers

CONSTANTS
  Devices,      \* the devices that ask for codes and log in with the phone
  HourlyLimit,  \* SMS_CODE_HOURLY_LIMIT
  IpLimit,      \* logins from an address in a minute
  Mixes,        \* the operations that are invoked, one of these sets in a behaviour
  MaxFaults     \* bound: failed calls of the provider, requests that die

ASSUME SmsAssumption ==
  /\ HourlyLimit \in Nat \ {0} /\ IpLimit \in Nat \ {0}
  /\ MaxFaults \in Nat

VARIABLES
  ops,     \* the operations of this behaviour
  web,     \* the request of every device
  recent,  \* whether the key of the last sending (60 seconds) exists
  count,   \* the counters, 0 where there is no key, one above the limit for all above
  timed,   \* the counters with a time to live
  code,    \* whether Redis holds a code of the phone
  died,    \* the counters a request has left without a time to live
  faults   \* how much of MaxFaults is used up

smsVars == <<ops, web, recent, count, timed, code, died, faults>>

Counters == {"hour", "ip"}
Limit(k) == IF k = "hour" THEN HourlyLimit ELSE IpLimit

Idle  == [op |-> "none", at |-> "idle", over |-> FALSE, acc |-> 0, stale |-> FALSE]
Fault == faults < MaxFaults /\ faults' = faults + 1

At(d, op, at) == web[d].op = op /\ web[d].at = at
Start(d, op, at) ==
  /\ op \in ops /\ web[d] = Idle
  /\ web' = [web EXCEPT ![d].op = op, ![d].at = at]
Goto(d, at)   == web' = [web EXCEPT ![d].at = at]
Finish(d)     == web' = [web EXCEPT ![d] = Idle]

-----------------------------------------------------------------------------
(* The counters *)

KeyOf(d) == IF web[d].op = "send" THEN "hour" ELSE "ip"
Counted(d) == IF web[d].op = "send" THEN "call" ELSE "checkLock"

\* Mutant of First: INCR is taken to return what was there before.
FirstBefore(n) == n = 0

First(n) == n = 1

\* INCR; what it returns decides whether the key gets a time to live and whether
\* the request is refused.
Count(d) ==
  LET k == KeyOf(d)
      n == count[k] + 1
  IN  /\ web[d].at = "count"
      /\ count' = [count EXCEPT ![k] = IF n > Limit(k) THEN Limit(k) + 1 ELSE n]
      /\ CASE First(n)     -> Goto(d, "expire")
           [] n > Limit(k) -> Finish(d)
           [] OTHER        -> Goto(d, Counted(d))
      /\ UNCHANGED <<ops, recent, timed, code, died, faults>>

SetTtl(d) ==
  /\ web[d].at = "expire"
  /\ timed' = IF count[KeyOf(d)] = 0 THEN timed ELSE timed \cup {KeyOf(d)}
  /\ Goto(d, Counted(d))
  /\ UNCHANGED <<ops, recent, count, code, died, faults>>

CounterExpires(k) ==
  /\ k \in timed
  /\ count' = [count EXCEPT ![k] = 0]
  /\ timed' = timed \ {k}
  /\ UNCHANGED <<ops, web, recent, code, died, faults>>

-----------------------------------------------------------------------------
(* send_verify_code *)

\* No code for a minute after the last one.
BeginSend(d) ==
  /\ ~recent
  /\ Start(d, "send", "recent")
  /\ UNCHANGED <<ops, recent, count, timed, code, died, faults>>

SetRecent(d) ==
  /\ At(d, "send", "recent")
  /\ recent' = TRUE
  /\ Goto(d, "count")
  /\ UNCHANGED <<ops, count, timed, code, died, faults>>

\* The provider, asked up to three times, takes the code or does not; outside of
\* development the request ends with what it raises.
CallProvider(d) ==
  /\ At(d, "send", "call")
  /\ \/ Goto(d, "store") /\ UNCHANGED faults
     \/ Fault /\ Finish(d)
  /\ UNCHANGED <<ops, recent, count, timed, code, died>>

Store(d) ==
  /\ At(d, "send", "store")
  /\ code' = TRUE
  /\ Finish(d)
  /\ UNCHANGED <<ops, recent, count, timed, died, faults>>

RecentExpires ==
  /\ recent
  /\ recent' = FALSE
  /\ UNCHANGED <<ops, web, count, timed, code, died, faults>>

CodeExpires ==
  /\ code
  /\ code' = FALSE
  /\ UNCHANGED <<ops, web, recent, count, timed, died, faults>>

\* The process of a request dies; between INCR and EXPIRE it leaves a counter
\* that never expires, unless the key is gone by then.
CrashRequest(d) ==
  /\ web[d] # Idle
  /\ Fault
  /\ died' = IF web[d].at = "expire" THEN died \cup {KeyOf(d)} ELSE died
  /\ Finish(d)
  /\ UNCHANGED <<ops, recent, count, timed, code>>

\* A code may have been sent before.
SmsInit ==
  /\ ops \in Mixes
  /\ web = [d \in Devices |-> Idle]
  /\ recent = FALSE /\ code \in BOOLEAN
  /\ count = [k \in Counters |-> 0] /\ timed = {}
  /\ died = {} /\ faults = 0

Keys == RecentExpires \/ CodeExpires \/ \E k \in Counters : CounterExpires(k)

Continue(d) == Count(d) \/ SetTtl(d) \/ SetRecent(d) \/ CallProvider(d) \/ Store(d)

-----------------------------------------------------------------------------
(* Properties *)

\* A counter above its limit, which refuses every code or login, comes to nothing
\* again, unless a request died between its INCR and its EXPIRE (send_verify_code,
\* the login handlers).
RefusalEnds ==
  \A k \in Counters :
    (count[k] > Limit(k) /\ k \notin died) ~> (count[k] = 0 \/ k \in died)
=============================================================================
