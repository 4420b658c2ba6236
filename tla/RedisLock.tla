----------------------------- MODULE RedisLock -----------------------------
(***************************************************************************)
(* core/redis_client.RedisLock: one key, the clients that put an           *)
(* "async with RedisLock(...)" around their work, and the watchdog of each *)
(* one that got the lock.  OrderEscrow and Withdrawals take for granted    *)
(* that two of them are never inside; here is when that is so.             *)
(*                                                                         *)
(* The token of an acquisition is a fresh uuid; a client has one           *)
(* acquisition at a time, so that the client's name serves as its token.   *)
(***************************************************************************)
EXTENDS Integers

CONSTANTS
  Clients,  \* requests that use the same lock key
  Timeout,  \* the lock's timeout, in ticks of the clock
  NoOne     \* the key does not exist

ASSUME LockAssumption ==
  \* the callers' timeouts are between 10 and 300 seconds
  /\ Timeout \in Nat /\ Timeout >= 2
  /\ NoOne \notin Clients

VARIABLES
  key,     \* the value of the key in Redis
  ttl,     \* how long the key has to live, 0 if it does not exist
  at,      \* where a client is: outside, inside the lock, or on its way out
  wake,    \* how long a client's watchdog sleeps; negative if it is overdue
  missed   \* whether a renewal has failed or has been late

vars == <<key, ttl, at, wake, missed>>

\* Mutant of Interval: the watchdog sleeps for the whole timeout.
IntervalWhole == Timeout

\* max(self._timeout // 2, 1)
Interval == IF Timeout \div 2 >= 1 THEN Timeout \div 2 ELSE 1

\* How late a renewal may be with the lock still there: the other half.
Slack == (Timeout - 1) \div 2

Inside(c) == at[c] = "inside"

\* Mutant of Expiry: SET without EX.
NoExpiry == 0

\* SET ... EX timeout
Expiry == Timeout

-----------------------------------------------------------------------------
(* __aenter__ *)

\* SET NX.  A client that is refused leaves its "async with" like any other.
Enter(c) ==
  /\ at[c] = "outside"
  /\ IF key = NoOne
       THEN /\ key' = c /\ ttl' = Expiry
            /\ at' = [at EXCEPT ![c] = "inside"]
            /\ wake' = [wake EXCEPT ![c] = Interval]
       ELSE /\ at' = [at EXCEPT ![c] = "leaving"]
            /\ UNCHANGED <<key, ttl, wake>>
  /\ UNCHANGED missed

\* The key is set but the answer is lost: __aenter__ raises, and there is neither
\* a watchdog nor a release.
EnterUnanswered(c) ==
  /\ at[c] = "outside" /\ key = NoOne
  /\ key' = c /\ ttl' = Expiry
  /\ UNCHANGED <<at, wake, missed>>

-----------------------------------------------------------------------------
(* The watchdog and __aexit__ *)

\* The renewal script, or a Redis error, which is logged; then it sleeps again.
Renew(c) ==
  /\ Inside(c) /\ wake[c] <= 0
  /\ wake' = [wake EXCEPT ![c] = Interval]
  /\ \/ /\ ttl' = IF key = c THEN Timeout ELSE ttl
        /\ UNCHANGED missed
     \/ /\ missed' = TRUE
        /\ UNCHANGED ttl
  /\ UNCHANGED <<key, at>>

\* The work is done, or has raised, and the watchdog is cancelled.
Leave(c) ==
  /\ Inside(c)
  /\ at' = [at EXCEPT ![c] = "leaving"]
  /\ wake' = [wake EXCEPT ![c] = 0]
  /\ UNCHANGED <<key, ttl, missed>>

\* Mutant of Releases: DEL without comparing the token.
ReleasesAny(c) == at[c] = "leaving"

\* The release script deletes the key only if it holds the client's token.
Releases(c) == key = c

\* The script, or a Redis error, which is logged.
Release(c) ==
  /\ at[c] = "leaving"
  /\ at' = [at EXCEPT ![c] = "outside"]
  /\ \/ /\ key' = IF Releases(c) THEN NoOne ELSE key
        /\ ttl' = IF Releases(c) THEN 0 ELSE ttl
     \/ UNCHANGED <<key, ttl>>
  /\ UNCHANGED <<wake, missed>>

\* The process of the client dies, its watchdog with it.
Crash(c) ==
  /\ at[c] # "outside"
  /\ at' = [at EXCEPT ![c] = "outside"]
  /\ wake' = [wake EXCEPT ![c] = 0]
  /\ UNCHANGED <<key, ttl, missed>>

-----------------------------------------------------------------------------
\* Time passes: Redis drops a key that has outlived its time, and the watchdogs
\* sleep on.  A tick that finds one overdue by all the slack there is comes while
\* the event loop is blocked, or the process stopped.
Tick ==
  /\ ttl' = IF ttl > 0 THEN ttl - 1 ELSE 0
  /\ key' = IF ttl = 1 THEN NoOne ELSE key
  /\ wake' = [c \in Clients |-> IF Inside(c) /\ wake[c] > -Slack
                                  THEN wake[c] - 1 ELSE wake[c]]
  /\ missed' = (missed \/ \E c \in Clients : Inside(c) /\ wake[c] <= -Slack)
  /\ UNCHANGED at

Init ==
  /\ key = NoOne /\ ttl = 0
  /\ at = [c \in Clients |-> "outside"]
  /\ wake = [c \in Clients |-> 0]
  /\ missed = FALSE

Next ==
  \/ \E c \in Clients :
       Enter(c) \/ EnterUnanswered(c) \/ Renew(c) \/ Leave(c) \/ Release(c) \/ Crash(c)
  \/ Tick

Spec == Init /\ [][Next]_vars

\* Time goes on, and work under the lock comes to an end.
FairSpec ==
  /\ Spec
  /\ WF_vars(Tick)
  /\ \A c \in Clients : WF_vars(Leave(c))

-----------------------------------------------------------------------------
(* Properties *)

\* Every variable has its type; a key in Redis has a time to live, and no other.
TypeOK ==
  /\ key \in Clients \cup {NoOne}
  /\ ttl \in 0 .. Timeout
  /\ at \in [Clients -> {"outside", "inside", "leaving"}]
  /\ wake \in [Clients -> Int]
  /\ missed \in BOOLEAN
  /\ key = NoOne <=> ttl = 0

\* Two clients are not inside together as long as the watchdogs do their work
\* within the slack that half the timeout leaves them, whoever dies or loses an
\* answer; a client that is inside holds the key.
MutualExclusion ==
  ~missed => \A c, d \in Clients : Inside(c) /\ Inside(d) => c = d

\* The key is taken away from its holder only by its own release or by time, also
\* when the lock ran out under a client and another one holds it when the first
\* leaves ("delete only if the value matches").
OnlyTheHolderUnlocks ==
  [][\A c \in Clients : key = c /\ key' # c /\ ttl > 1 =>
       at[c] = "leaving" /\ at'[c] = "outside"]_vars

\* The lock does not stay with anyone for ever: not with a client that died, that
\* never learnt it had it, or whose release failed.
LockComesFree == \A c \in Clients : key = c ~> key # c
=============================================================================
