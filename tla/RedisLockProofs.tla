-------------------------- MODULE RedisLockProofs --------------------------
(***************************************************************************)
(* Theorems about RedisLock.  What keeps the holder's key alive is a race  *)
(* between two clocks, its time to live and the watchdog's sleep: the      *)
(* invariant says that the first is ahead by the slack.                    *)
(***************************************************************************)
EXTENDS RedisLock, TLAPS

\* As long as no renewal was missed, whoever is inside holds the key, and it
\* outlives the watchdog's sleep by more than the slack.
HolderIsAhead ==
  ~missed => \A c \in Clients : Inside(c) =>
    /\ key = c
    /\ ttl > wake[c] + Slack
    /\ wake[c] >= -Slack

LockInv == TypeOK /\ HolderIsAhead

-----------------------------------------------------------------------------
(* The halves of the timeout. *)
LEMMA Halves ==
  /\ Timeout \in Nat /\ Timeout >= 2
  /\ Interval \in Nat \ {0} /\ Slack \in Nat
  /\ Timeout > Interval + Slack
  /\ Expiry = Timeout
<1>1. Timeout \in Nat /\ Timeout >= 2
  BY LockAssumption DEF LockAssumption
<1> QED
  BY <1>1 DEF Interval, Slack, Expiry

(* The initial states satisfy the invariant. *)
LEMMA InitLockInv == Init => LockInv
<1> SUFFICES ASSUME Init PROVE LockInv
  OBVIOUS
<1>1. TypeOK
  <2>1. ttl \in 0 .. Timeout
    BY Halves DEF Init
  <2>2. missed \in BOOLEAN
    BY DEF Init
  <2> QED
    BY <2>1, <2>2 DEF Init, TypeOK
<1>2. HolderIsAhead
  BY DEF Init, HolderIsAhead, Inside
<1> QED
  BY <1>1, <1>2 DEF LockInv

(* Every step preserves the types. *)
LEMMA StepTypes ==
  ASSUME TypeOK, [Next]_vars PROVE TypeOK'
<1> USE Halves DEF TypeOK
<1>1. ASSUME NEW c \in Clients, Enter(c) PROVE TypeOK'
  BY <1>1, LockAssumption DEF Enter, LockAssumption
<1>2. ASSUME NEW c \in Clients, EnterUnanswered(c) PROVE TypeOK'
  BY <1>2, LockAssumption DEF EnterUnanswered, LockAssumption
<1>3. ASSUME NEW c \in Clients, Renew(c) PROVE TypeOK'
  <2>1. ttl' \in 0 .. Timeout /\ (key = NoOne <=> ttl' = 0)
    BY <1>3, LockAssumption DEF Renew, LockAssumption
  <2>2. missed' \in BOOLEAN
    BY <1>3, Zenon DEF Renew
  <2>3. wake' \in [Clients -> Int] /\ UNCHANGED <<key, at>>
    BY <1>3 DEF Renew
  <2> QED
    BY <2>1, <2>2, <2>3
<1>4. ASSUME NEW c \in Clients, Leave(c) PROVE TypeOK'
  BY <1>4 DEF Leave
<1>5. ASSUME NEW c \in Clients, Release(c) PROVE TypeOK'
  BY <1>5 DEF Release, Releases
<1>6. ASSUME NEW c \in Clients, Crash(c) PROVE TypeOK'
  BY <1>6 DEF Crash
<1>7. CASE Tick
  <2>1. ttl \in 0 .. Timeout /\ wake \in [Clients -> Int] /\ (key = NoOne <=> ttl = 0)
    OBVIOUS
  <2>2. ttl' \in 0 .. Timeout
    BY <1>7, <2>1 DEF Tick
  <2>3. wake' \in [Clients -> Int]
    BY <1>7, <2>1 DEF Tick
  <2>4. key' \in Clients \cup {NoOne} /\ (key' = NoOne <=> ttl' = 0)
    BY <1>7, <2>1 DEF Tick
  <2>5. missed' \in BOOLEAN
    BY <1>7, Zenon DEF Tick
  <2> QED
    BY <1>7, <2>2, <2>3, <2>4, <2>5 DEF Tick
<1>8. CASE UNCHANGED vars
  BY <1>8 DEF vars
<1> QED
  BY <1>1, <1>2, <1>3, <1>4, <1>5, <1>6, <1>7, <1>8 DEF Next

(* Every step preserves the lead of the holder's key over its watchdog. *)
LEMMA StepAhead ==
  ASSUME LockInv, [Next]_vars PROVE HolderIsAhead'
<1> SUFFICES ASSUME ~missed', NEW d \in Clients, Inside(d)'
             PROVE  (key = d /\ ttl > wake[d] + Slack /\ wake[d] >= -Slack)'
  BY DEF HolderIsAhead
<1> USE Halves DEF Inside
<1>0. /\ TypeOK
      /\ ~missed => \A c \in Clients : at[c] = "inside" =>
           key = c /\ ttl > wake[c] + Slack /\ wake[c] >= -Slack
  BY DEF LockInv, HolderIsAhead
<1>1. ASSUME NEW c \in Clients, Enter(c)
      PROVE (key = d /\ ttl > wake[d] + Slack /\ wake[d] >= -Slack)'
  BY <1>0, <1>1, LockAssumption DEF Enter, TypeOK, LockAssumption
<1>2. ASSUME NEW c \in Clients, EnterUnanswered(c)
      PROVE (key = d /\ ttl > wake[d] + Slack /\ wake[d] >= -Slack)'
  BY <1>0, <1>2, LockAssumption DEF EnterUnanswered, TypeOK, LockAssumption
<1>3. ASSUME NEW c \in Clients, Renew(c)
      PROVE (key = d /\ ttl > wake[d] + Slack /\ wake[d] >= -Slack)'
  BY <1>0, <1>3 DEF Renew, TypeOK
<1>4. ASSUME NEW c \in Clients, Leave(c)
      PROVE (key = d /\ ttl > wake[d] + Slack /\ wake[d] >= -Slack)'
  BY <1>0, <1>4 DEF Leave, TypeOK
<1>5. ASSUME NEW c \in Clients, Release(c)
      PROVE (key = d /\ ttl > wake[d] + Slack /\ wake[d] >= -Slack)'
  BY <1>0, <1>5 DEF Release, Releases, TypeOK
<1>6. ASSUME NEW c \in Clients, Crash(c)
      PROVE (key = d /\ ttl > wake[d] + Slack /\ wake[d] >= -Slack)'
  BY <1>0, <1>6 DEF Crash, TypeOK
<1>7. CASE Tick
  <2>1. at[d] = "inside" /\ ~missed /\ wake[d] > -Slack
    <3>1. at[d] = "inside"
      BY <1>7 DEF Tick
    <3>2. ~missed /\ ~(\E c \in Clients : at[c] = "inside" /\ wake[c] <= -Slack)
      BY <1>7, Zenon DEF Tick
    <3> QED
      BY <1>0, <3>1, <3>2 DEF TypeOK
  <2>2. key = d /\ ttl > wake[d] + Slack /\ ttl \in Nat /\ wake[d] \in Int
    BY <1>0, <2>1 DEF TypeOK
  <2>3. wake'[d] = wake[d] - 1
    BY <1>7, <2>1 DEF Tick
  <2>4. ttl > 1
    BY <2>1, <2>2
  <2>5. key' = key /\ ttl' = ttl - 1
    BY <1>7, <2>2, <2>4 DEF Tick
  <2> QED
    BY <2>1, <2>2, <2>3, <2>5
<1>8. CASE UNCHANGED vars
  BY <1>0, <1>8 DEF vars
<1> QED
  BY <1>1, <1>2, <1>3, <1>4, <1>5, <1>6, <1>7, <1>8 DEF Next

(* Every reachable state satisfies the invariant. *)
LEMMA Invariant == Spec => []LockInv
<1>1. LockInv /\ [Next]_vars => LockInv'
  BY StepTypes, StepAhead DEF LockInv
<1> QED
  BY <1>1, InitLockInv, PTL DEF Spec

-----------------------------------------------------------------------------
(* The lock's variables keep their types, and a key in Redis can run out. *)
THEOREM TypeCorrect == Spec => []TypeOK
<1>1. LockInv => TypeOK
  BY DEF LockInv
<1> QED
  BY <1>1, Invariant, PTL

(* RedisLock is a mutex for any number of clients and any timeout, as long as no *)
(* renewal fails or comes later than half the timeout after it is due: what      *)
(* OrderEscrow's LockFree takes for granted.                                     *)
THEOREM OneHolder == Spec => []MutualExclusion
<1>1. LockInv => MutualExclusion
  BY DEF LockInv, HolderIsAhead, MutualExclusion
<1> QED
  BY <1>1, Invariant, PTL

(* Whatever renewals are missed, the key is taken from its holder by its own      *)
(* release or by time: a client that has lost the lock does not unlock another's. *)
THEOREM NobodyElseUnlocks == Spec => OnlyTheHolderUnlocks
<1> DEFINE Own == \A c \in Clients : key = c /\ key' # c /\ ttl > 1 =>
                    at[c] = "leaving" /\ at'[c] = "outside"
<1>1. TypeOK /\ [Next]_vars => [Own]_vars
  <2> SUFFICES ASSUME TypeOK, Next, NEW d \in Clients, key = d, key' # d, ttl > 1
               PROVE  at[d] = "leaving" /\ at'[d] = "outside"
    OBVIOUS
  <2>1. key # NoOne
    BY LockAssumption DEF LockAssumption
  <2>2. \A c \in Clients : ~Enter(c) /\ ~EnterUnanswered(c) /\ ~Renew(c)
                           /\ ~Leave(c) /\ ~Crash(c)
    BY <2>1 DEF Enter, EnterUnanswered, Renew, Leave, Crash
  <2>3. ~Tick
    BY DEF Tick, TypeOK
  <2>4. PICK c \in Clients : Release(c)
    BY <2>2, <2>3 DEF Next
  <2> QED
    BY <2>4 DEF Release, Releases, TypeOK
<1> QED
  BY <1>1, TypeCorrect, PTL DEF Spec, OnlyTheHolderUnlocks
=============================================================================
