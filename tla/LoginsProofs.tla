------------------------------ MODULE LoginsProofs ------------------------------
(***************************************************************************)
(* The safety properties of Logins for any number of devices, any limit of   *)
(* failed logins and any number of faults.  FailuresAreBounded is an         *)
(* argument by counting: of the failed logins since the lock was last set,   *)
(* all but MaxErrs - 1 belong to a request that is still to set the lock     *)
(* (Locking) or to one that has died.                                        *)
(***************************************************************************)
EXTENDS Logins, FiniteSetTheorems, TLAPS

Steps == {"idle", "recent", "count", "expire", "call", "store", "checkLock", "verify",
          "wrong", "ttl", "lock", "clear", "user", "insert", "bump", "access", "refresh"}
WebState == [op : {"none", "send", "code", "password", "refresh"}, at : Steps,
             over : BOOLEAN, acc : Nat, stale : BOOLEAN]

\* The Redis keys that sms_service and the login handlers have to themselves.
KeysOK ==
  /\ recent \in BOOLEAN /\ code \in BOOLEAN
  /\ count \in [Counters -> Nat]
  /\ timed \subseteq Counters /\ died \subseteq Counters

TypeOK ==
  /\ KeysOK
  /\ web \in [Devices -> WebState]
  /\ faults \in 0 .. MaxFaults
  /\ known \in BOOLEAN /\ locked \in BOOLEAN /\ later \in BOOLEAN
  /\ err \in Nat /\ free \in Nat /\ version \in Nat
  /\ tokens \in [Devices -> [acc : Nat, stale : BOOLEAN]]

\* The requests that have counted an error that locks, up to the lock.
LockingAt(w) == w.at = "lock" \/ (w.at = "ttl" /\ w.over)
Locking == {d \in Devices : LockingAt(web[d])}

\* The lock is missing only while somebody is about to set it or has died there.
BelowLock == IF err < MaxErrs THEN err ELSE MaxErrs - 1
FreeInv == free <= BelowLock + Cardinality(Locking) + faults

\* A version that was read is the user's version or is known to be outdated.
FreshAt(t) == t.acc # 0 /\ ~t.stale => t.acc = Current
VersionInv ==
  /\ \A d \in Devices : FreshAt(tokens[d]) /\ FreshAt(web[d])
  /\ \A d \in Devices : web[d].at = "refresh" <=> web[d].acc # 0

LoginInv == TypeOK /\ FreeInv /\ VersionInv

-----------------------------------------------------------------------------
(* What a step does to the request of a device *)

LEMMA GotoEffect ==
  ASSUME TypeOK, NEW d \in Devices, NEW at \in Steps, Goto(d, at)
  PROVE  /\ web' \in [Devices -> WebState]
         /\ web'[d].at = at /\ web'[d].op = web[d].op /\ web'[d].over = web[d].over
         /\ web'[d].acc = web[d].acc /\ web'[d].stale = web[d].stale
         /\ \A e \in Devices \ {d} : web'[e] = web[e]
BY DEF TypeOK, Goto, WebState

LEMMA FinishEffect ==
  ASSUME TypeOK, NEW d \in Devices, Finish(d)
  PROVE  /\ web' \in [Devices -> WebState]
         /\ web'[d].at = "idle" /\ web'[d].acc = 0 /\ web'[d].stale = FALSE
         /\ \A e \in Devices \ {d} : web'[e] = web[e]
BY DEF TypeOK, Finish, Idle, WebState, Steps

LEMMA StartEffect ==
  ASSUME TypeOK, NEW d \in Devices, NEW at \in Steps,
         NEW op \in {"send", "code", "password", "refresh"}, Start(d, op, at)
  PROVE  /\ web' \in [Devices -> WebState]
         /\ web[d].at = "idle" /\ web[d].acc = 0
         /\ web'[d].at = at /\ web'[d].acc = 0 /\ web'[d].stale = FALSE
         /\ \A e \in Devices \ {d} : web'[e] = web[e]
<1>1. web[d] = Idle /\ web' = [web EXCEPT ![d].op = op, ![d].at = at]
  BY DEF Start
<1>2. Idle \in WebState
  BY DEF Idle, WebState, Steps
<1>3. web' \in [Devices -> WebState]
  BY <1>1, <1>2 DEF TypeOK, WebState
<1>4. Idle.at = "idle" /\ Idle.acc = 0 /\ Idle.stale = FALSE
  BY DEF Idle
<1> QED
  BY <1>1, <1>2, <1>3, <1>4 DEF TypeOK, WebState

LEMMA OutdatedEffect ==
  ASSUME TypeOK, NEW d \in Devices
  PROVE  /\ Outdated(web[d]) \in WebState
         /\ Outdated(web[d]).at = web[d].at /\ Outdated(web[d]).over = web[d].over
         /\ Outdated(web[d]).acc = web[d].acc
         /\ Outdated(web[d]).stale = (web[d].stale \/ web[d].acc # 0)
         /\ Outdated(tokens[d]) \in [acc : Nat, stale : BOOLEAN]
         /\ Outdated(tokens[d]).acc = tokens[d].acc
         /\ Outdated(tokens[d]).stale = (tokens[d].stale \/ tokens[d].acc # 0)
BY DEF TypeOK, WebState, Outdated

-----------------------------------------------------------------------------
(* Types *)

LEMMA CountedStep ==
  ASSUME NEW d \in Devices
  PROVE  Counted(d) \in Steps \ {"lock", "ttl", "refresh"} /\ KeyOf(d) \in Counters
BY DEF Counted, Steps, KeyOf, Counters

LEMMA InitType == Init => TypeOK
<1>1. Idle \in WebState
  BY DEF Idle, WebState, Steps
<1> SUFFICES ASSUME Init
             PROVE  TypeOK
  OBVIOUS
<1>2. KeysOK
  BY DEF Init, SmsInit, KeysOK, Counters
<1>3. web \in [Devices -> WebState] /\ faults \in 0 .. MaxFaults
  BY <1>1, SmsAssumption DEF Init, SmsInit
<1>4. tokens \in [Devices -> [acc : Nat, stale : BOOLEAN]]
  BY DEF Init, NoTokens
<1> QED
  BY <1>2, <1>3, <1>4 DEF Init, TypeOK

\* The steps of sms_service and of the counters in front of a login.
LEMMA ContinueStep ==
  ASSUME TypeOK, NEW d \in Devices, Continue(d), UNCHANGED <<known, guard, version, tokens>>
  PROVE  /\ TypeOK'
         /\ ~LockingAt(web[d]) /\ ~LockingAt(web'[d])
         /\ web[d].at # "refresh" /\ web'[d].at # "refresh"
         /\ web'[d].acc \in {web[d].acc, 0} /\ web'[d].stale \in {web[d].stale, FALSE}
         /\ \A e \in Devices \ {d} : web'[e] = web[e]
         /\ faults <= faults'
<1> USE SmsAssumption, CountedStep DEF LockingAt
<1> DEFINE Goes == \E at \in Steps \ {"lock", "ttl", "refresh"} : Goto(d, at)
<1>0. KeyOf(d) \in Counters /\ count[KeyOf(d)] \in Nat /\ Limit(KeyOf(d)) \in Nat
  BY DEF TypeOK, KeysOK, Limit, Counters
<1>1. CASE Count(d)
  <2>1. Goes \/ Finish(d)
    BY <1>1 DEF Count, Steps
  <2>2. count' \in [Counters -> Nat]
    BY <1>0, <1>1 DEF Count, TypeOK, KeysOK
  <2>3. web[d].at = "count" /\ UNCHANGED <<recent, timed, code, died, faults>>
    BY <1>1 DEF Count
  <2>4. KeysOK' /\ faults' \in 0 .. MaxFaults /\ faults <= faults'
    BY <2>2, <2>3 DEF TypeOK, KeysOK
  <2> HIDE DEF LockingAt
  <2>5. CASE Finish(d)
    BY <2>3, <2>4, <2>5, FinishEffect DEF TypeOK, guard, LockingAt
  <2>6. CASE Goes
    BY <2>3, <2>4, <2>6, GotoEffect DEF TypeOK, guard, LockingAt
  <2> QED
    BY <2>1, <2>5, <2>6
<1>2. CASE SetTtl(d)
  <2>1. Goes /\ web[d].at = "expire"
    BY <1>2 DEF SetTtl
  <2>2. KeysOK' /\ faults' \in 0 .. MaxFaults /\ faults <= faults'
    BY <1>0, <1>2 DEF SetTtl, TypeOK, KeysOK
  <2> QED
    BY <2>1, <2>2, GotoEffect DEF TypeOK, guard
<1>3. CASE SetRecent(d)
  <2>1. Goto(d, "count") /\ web[d].at = "recent"
    BY <1>3 DEF SetRecent, At
  <2>2. KeysOK' /\ faults' \in 0 .. MaxFaults /\ faults <= faults'
    BY <1>3 DEF SetRecent, TypeOK, KeysOK
  <2> QED
    BY <2>1, <2>2, GotoEffect DEF TypeOK, guard, Steps
<1>4. CASE CallProvider(d)
  <2>1. web[d].at = "call" /\ (Goto(d, "store") \/ Finish(d))
    BY <1>4 DEF CallProvider, At
  <2>2. KeysOK' /\ faults' \in 0 .. MaxFaults /\ faults <= faults'
    BY <1>4 DEF CallProvider, TypeOK, KeysOK, Fault
  <2>3. CASE Goto(d, "store")
    BY <2>1, <2>2, <2>3, GotoEffect DEF TypeOK, guard, Steps
  <2>4. CASE Finish(d)
    BY <2>1, <2>2, <2>4, FinishEffect DEF TypeOK, guard
  <2> QED
    BY <2>1, <2>3, <2>4
<1>5. CASE Store(d)
  <2>1. Finish(d) /\ web[d].at = "store"
    BY <1>5 DEF Store, At
  <2>2. KeysOK' /\ faults' \in 0 .. MaxFaults /\ faults <= faults'
    BY <1>5 DEF Store, TypeOK, KeysOK
  <2> QED
    BY <2>1, <2>2, FinishEffect DEF TypeOK, guard
<1> QED
  BY <1>1, <1>2, <1>3, <1>4, <1>5 DEF Continue

LEMMA CrashEffect ==
  ASSUME TypeOK, NEW d \in Devices, CrashRequest(d)
  PROVE  /\ KeysOK' /\ faults' \in 0 .. MaxFaults /\ faults' = faults + 1
         /\ Finish(d)
BY SmsAssumption, CountedStep DEF CrashRequest, Fault, TypeOK, KeysOK

LEMMA TypeStep == TypeOK /\ [Next]_vars => TypeOK'
<1> SUFFICES ASSUME TypeOK, [Next]_vars
             PROVE  TypeOK'
  OBVIOUS
<1>0. ASSUME UNCHANGED <<recent, count, timed, code, died>>
      PROVE  KeysOK'
  BY <1>0 DEF TypeOK, KeysOK
<1>1. CASE Sms
  <2>1. CASE Keys
    <3>1. KeysOK' /\ UNCHANGED <<web, faults>>
      <4>1. CASE RecentExpires
        BY <4>1 DEF RecentExpires, TypeOK, KeysOK
      <4>2. CASE CodeExpires
        BY <4>2 DEF CodeExpires, TypeOK, KeysOK
      <4>3. ASSUME NEW k \in Counters, CounterExpires(k)
            PROVE  KeysOK' /\ UNCHANGED <<web, faults>>
        BY <4>3 DEF CounterExpires, TypeOK, KeysOK
      <4> QED
        BY <2>1, <4>1, <4>2, <4>3 DEF Keys
    <3> QED
      BY <1>1, <3>1 DEF Sms, TypeOK, guard
  <2>2. ASSUME NEW d \in Devices, BeginSend(d)
        PROVE  TypeOK'
    <3>1. Start(d, "send", "recent") /\ KeysOK' /\ faults' = faults
      BY <2>2, <1>0 DEF BeginSend
    <3> QED
      BY <1>1, <3>1, StartEffect DEF Sms, TypeOK, guard, Steps
  <2>3. ASSUME NEW d \in Devices, Continue(d)
        PROVE  TypeOK'
    BY <1>1, <2>3, ContinueStep DEF Sms
  <2>4. ASSUME NEW d \in Devices, CrashRequest(d)
        PROVE  TypeOK'
    BY <1>1, <2>4, CrashEffect, FinishEffect DEF Sms, TypeOK, guard
  <2> QED
    BY <1>1, <2>1, <2>2, <2>3, <2>4 DEF Sms
<1>2. ASSUME NEW d \in Devices, NEW op \in {"code", "password"}, BeginLogin(d, op)
      PROVE  TypeOK'
  <2>1. Start(d, op, "count") /\ KeysOK' /\ UNCHANGED <<faults, known, guard, version, tokens>>
    BY <1>2, <1>0 DEF BeginLogin
  <2> QED
    BY <2>1, StartEffect DEF TypeOK, guard, Steps
<1>3. ASSUME NEW d \in Devices, BeginRefresh(d)
      PROVE  TypeOK'
  <2>1. /\ Start(d, "refresh", "access") /\ KeysOK'
        /\ UNCHANGED <<faults, known, guard, version, tokens>>
    BY <1>3, <1>0 DEF BeginRefresh
  <2> QED
    BY <2>1, StartEffect DEF TypeOK, guard, Steps
<1>4. ASSUME NEW d \in Devices, Continue(d), UNCHANGED <<known, guard, version, tokens>>
      PROVE  TypeOK'
  BY <1>4, ContinueStep
<1>5. ASSUME NEW d \in Devices, LockCheck(d)
      PROVE  TypeOK'
  <2>1. (Goto(d, "verify") \/ Finish(d)) /\ KeysOK' /\ UNCHANGED <<faults, known, guard, version, tokens>>
    BY <1>5, <1>0 DEF LockCheck
  <2> QED
    BY <2>1, GotoEffect, FinishEffect DEF TypeOK, guard, Steps
<1>6. ASSUME NEW d \in Devices, VerifyCode(d)
      PROVE  TypeOK'
  <2>1. (Goto(d, "clear") \/ Goto(d, "wrong")) /\ UNCHANGED <<known, guard, version, tokens>>
    BY <1>6 DEF VerifyCode
  <2>2. faults' \in 0 .. MaxFaults
    BY <1>6, SmsAssumption DEF VerifyCode, Fault, TypeOK
  <2>3. code' \in BOOLEAN
    BY <1>6 DEF VerifyCode, TypeOK, KeysOK
  <2>4. KeysOK'
    BY <1>6, <2>3 DEF VerifyCode, TypeOK, KeysOK
  <2> QED
    BY <2>1, <2>2, <2>4, GotoEffect DEF TypeOK, guard, Steps
<1>7. ASSUME NEW d \in Devices, VerifyPassword(d)
      PROVE  TypeOK'
  <2>1. /\ Goto(d, "clear") \/ Goto(d, "wrong")
        /\ KeysOK' /\ UNCHANGED <<faults, known, guard, version, tokens>>
    BY <1>7, <1>0 DEF VerifyPassword
  <2> QED
    BY <2>1, GotoEffect DEF TypeOK, guard, Steps
<1>8. ASSUME NEW d \in Devices, Wrong(d)
      PROVE  TypeOK'
  <2>1. web' \in [Devices -> WebState]
    <3>1. Locks(err + 1) \in BOOLEAN /\ "ttl" \in Steps
      BY DEF Locks, Steps
    <3>2. web' = [web EXCEPT ![d].at = "ttl", ![d].over = Locks(err + 1)]
      BY <1>8 DEF Wrong
    <3> QED
      BY <3>1, <3>2 DEF TypeOK, WebState
  <2>2. err' \in Nat /\ free' \in Nat /\ KeysOK' /\ UNCHANGED <<faults, known, locked, later, version, tokens>>
    BY <1>8, <1>0, LoginsAssumption DEF Wrong, TypeOK
  <2> QED
    BY <2>1, <2>2 DEF TypeOK
<1>9. ASSUME NEW d \in Devices, ErrTtl(d)
      PROVE  TypeOK'
  <2>1. /\ Goto(d, "lock") \/ Finish(d)
        /\ KeysOK' /\ UNCHANGED <<faults, known, err, locked, free, version, tokens>>
    BY <1>9, <1>0 DEF ErrTtl
  <2>2. later' \in BOOLEAN
    BY <1>9 DEF ErrTtl
  <2> QED
    BY <2>1, <2>2, GotoEffect, FinishEffect DEF TypeOK, Steps
<1>10. ASSUME NEW d \in Devices, SetLock(d)
       PROVE  TypeOK'
  <2>1. Finish(d) /\ KeysOK' /\ UNCHANGED <<faults, known, err, version, tokens>>
    BY <1>10, <1>0 DEF SetLock
  <2> QED
    BY <1>10, <2>1, FinishEffect DEF TypeOK, SetLock
<1>11. ASSUME NEW d \in Devices, Clear(d)
       PROVE  TypeOK'
  <2>1. /\ Goto(d, "user") \/ Goto(d, "access")
        /\ KeysOK' /\ UNCHANGED <<faults, known, version, tokens>>
    BY <1>11, <1>0 DEF Clear
  <2> QED
    BY <1>11, <2>1, GotoEffect DEF TypeOK, Clear, Steps
<1>12. ASSUME NEW d \in Devices, FindUser(d)
       PROVE  TypeOK'
  <2>1. /\ Goto(d, "bump") \/ Goto(d, "insert")
        /\ KeysOK' /\ UNCHANGED <<faults, known, guard, version, tokens>>
    BY <1>12, <1>0 DEF FindUser
  <2> QED
    BY <2>1, GotoEffect DEF TypeOK, guard, Steps
<1>13. ASSUME NEW d \in Devices, InsertUser(d)
       PROVE  TypeOK'
  <2>1. /\ Goto(d, "bump") \/ Finish(d)
        /\ known' = TRUE /\ KeysOK' /\ UNCHANGED <<faults, guard, version, tokens>>
    BY <1>13, <1>0 DEF InsertUser
  <2> QED
    BY <2>1, GotoEffect, FinishEffect DEF TypeOK, guard, Steps
<1>14. ASSUME NEW d \in Devices, Bump(d)
       PROVE  TypeOK'
  <2>1. web' \in [Devices -> WebState]
    <3>1. [web[d] EXCEPT !.at = "access"] \in WebState
      BY DEF TypeOK, WebState, Steps
    <3> QED
      BY <1>14, <3>1, OutdatedEffect DEF Bump
  <2>2. tokens' \in [Devices -> [acc : Nat, stale : BOOLEAN]]
    BY <1>14, OutdatedEffect DEF Bump
  <2> QED
    BY <1>0, <1>14, <2>1, <2>2 DEF Bump, TypeOK, guard
<1>15. ASSUME NEW d \in Devices, AccessToken(d)
       PROVE  TypeOK'
  <2>1. web' \in [Devices -> WebState]
    <3>1. Issued \in Nat /\ "refresh" \in Steps
      BY DEF Issued, Current, TypeOK, Steps
    <3>2. web' = [web EXCEPT ![d].at = "refresh", ![d].acc = Issued, ![d].stale = FALSE]
      BY <1>15 DEF AccessToken
    <3> QED
      BY <3>1, <3>2 DEF TypeOK, WebState
  <2> QED
    BY <1>0, <1>15, <2>1 DEF AccessToken, TypeOK, guard
<1>16. ASSUME NEW d \in Devices, RefreshToken(d)
       PROVE  TypeOK'
  <2>1. tokens' \in [Devices -> [acc : Nat, stale : BOOLEAN]]
    BY <1>16 DEF RefreshToken, TypeOK, WebState
  <2>2. Finish(d) /\ KeysOK' /\ UNCHANGED <<faults, known, guard, version>>
    BY <1>0, <1>16 DEF RefreshToken
  <2> QED
    BY <2>1, <2>2, FinishEffect DEF TypeOK, guard
<1>17. ASSUME NEW d \in Devices, TokensExpire(d)
       PROVE  TypeOK'
  BY <1>0, <1>17 DEF TokensExpire, NoTokens, TypeOK, guard, smsVars
<1>18. CASE ErrExpires
  BY <1>0, <1>18 DEF ErrExpires, TypeOK, smsVars
<1>19. CASE LockExpires
  BY <1>0, <1>19 DEF LockExpires, TypeOK, smsVars
<1>20. CASE VersionExpires
  <2>1. web' \in [Devices -> WebState] /\ tokens' \in [Devices -> [acc : Nat, stale : BOOLEAN]]
    BY <1>20, OutdatedEffect DEF VersionExpires
  <2> QED
    BY <1>0, <1>20, <2>1 DEF VersionExpires, TypeOK, guard
<1>21. CASE UNCHANGED vars
  BY <1>0, <1>21 DEF vars, smsVars, guard, TypeOK
<1> QED
  BY <1>1, <1>2, <1>3, <1>4, <1>5, <1>6, <1>7, <1>8, <1>9, <1>10, <1>11, <1>12, <1>13,
     <1>14, <1>15, <1>16, <1>17, <1>18, <1>19, <1>20, <1>21 DEF Next, ContinueLogin

\* The requests of the phone's devices are at a step of theirs, and the counters, the
\* version and the tokens have their types, whatever the interleaving.
THEOREM TypeCorrect == Spec => []TypeOK
BY InitType, TypeStep, PTL DEF Spec

-----------------------------------------------------------------------------
(* The version in a token *)

\* A step of one request that leaves the versions alone, and either leaves what the
\* request has read alone or drops it.
LEMMA VersionFrame ==
  ASSUME TypeOK, VersionInv, NEW d \in Devices,
         UNCHANGED <<version, tokens>>, \A e \in Devices \ {d} : web'[e] = web[e],
         web'[d].at # "refresh", web'[d].acc = 0
  PROVE  VersionInv'
BY DEF VersionInv, FreshAt, Current

\* The user's version has changed: whatever was read before is outdated.
LEMMA AllOutdated ==
  ASSUME TypeOK, VersionInv, NEW S \in SUBSET Devices,
         tokens' = [d \in Devices |-> Outdated(tokens[d])],
         \A d \in S : web'[d] = Outdated(web[d]),
         \A d \in Devices \ S : web'[d].at # "refresh" /\ web'[d].acc = 0
  PROVE  VersionInv'
<1>1. \A d \in Devices : tokens'[d].acc # 0 => tokens'[d].stale
  BY OutdatedEffect
<1>2. ASSUME NEW d \in S
      PROVE  /\ web'[d].acc # 0 => web'[d].stale
             /\ web'[d].at = "refresh" <=> web'[d].acc # 0
  <2>1. d \in Devices /\ web'[d] = Outdated(web[d])
    OBVIOUS
  <2>2. web'[d].acc = web[d].acc /\ web'[d].at = web[d].at /\ web'[d].stale = (web[d].stale \/ web[d].acc # 0)
    BY <2>1, OutdatedEffect
  <2>3. web[d].at = "refresh" <=> web[d].acc # 0
    BY <2>1 DEF VersionInv
  <2> QED
    BY <2>2, <2>3
<1> QED
  BY <1>1, <1>2 DEF VersionInv, FreshAt

LEMMA VersionStep == TypeOK /\ VersionInv /\ [Next]_vars => VersionInv'
<1> SUFFICES ASSUME TypeOK, VersionInv, [Next]_vars
             PROVE  VersionInv'
  OBVIOUS
<1>0. ASSUME UNCHANGED <<web, version, tokens>>
      PROVE  VersionInv'
  BY <1>0 DEF VersionInv, FreshAt, Current
<1>1. ASSUME NEW d \in Devices, Continue(d), UNCHANGED <<known, guard, version, tokens>>
      PROVE  VersionInv'
  BY <1>1, ContinueStep, VersionFrame DEF VersionInv
<1>2. CASE Sms
  <2>1. CASE Keys
    BY <1>2, <2>1, <1>0 DEF Sms, Keys, RecentExpires, CodeExpires, CounterExpires
  <2>2. ASSUME NEW d \in Devices, BeginSend(d)
        PROVE  VersionInv'
    BY <1>2, <2>2, StartEffect, VersionFrame DEF Sms, BeginSend, Steps
  <2>3. ASSUME NEW d \in Devices, CrashRequest(d)
        PROVE  VersionInv'
    BY <1>2, <2>3, CrashEffect, FinishEffect, VersionFrame DEF Sms
  <2> QED
    BY <1>1, <1>2, <2>1, <2>2, <2>3 DEF Sms
<1>3. ASSUME NEW d \in Devices, NEW op \in {"code", "password"}, BeginLogin(d, op)
      PROVE  VersionInv'
  BY <1>3, StartEffect, VersionFrame DEF BeginLogin, Steps
<1>4. ASSUME NEW d \in Devices, BeginRefresh(d)
      PROVE  VersionInv'
  BY <1>4, StartEffect, VersionFrame DEF BeginRefresh, Steps
<1>5. ASSUME NEW d \in Devices,
             \/ LockCheck(d) \/ VerifyCode(d) \/ VerifyPassword(d) \/ ErrTtl(d) \/ SetLock(d)
             \/ Clear(d) \/ FindUser(d) \/ InsertUser(d)
      PROVE  VersionInv'
  <2>1. \/ Finish(d)
        \/ \E at \in Steps \ {"refresh"} : Goto(d, at)
    BY <1>5 DEF LockCheck, VerifyCode, VerifyPassword, ErrTtl, SetLock, Clear, FindUser,
                InsertUser, Steps
  <2>2. web[d].at # "refresh" /\ UNCHANGED <<version, tokens>>
    BY <1>5 DEF LockCheck, VerifyCode, VerifyPassword, ErrTtl, SetLock, Clear, FindUser,
                InsertUser, At
  <2> QED
    BY <2>1, <2>2, FinishEffect, GotoEffect, VersionFrame DEF VersionInv
<1>6. ASSUME NEW d \in Devices, Wrong(d)
      PROVE  VersionInv'
  <2>1. /\ web[d].at = "wrong" /\ web'[d].at = "ttl" /\ web'[d].acc = web[d].acc
        /\ \A e \in Devices \ {d} : web'[e] = web[e]
        /\ UNCHANGED <<version, tokens>>
    BY <1>6 DEF Wrong, TypeOK, WebState
  <2> QED
    BY <2>1, VersionFrame DEF VersionInv
<1>7. ASSUME NEW d \in Devices, Bump(d)
      PROVE  VersionInv'
  <2>1. web'[d].at = "access" /\ web'[d].acc = web[d].acc /\ web[d].at = "bump"
    BY <1>7 DEF Bump, At, TypeOK, WebState
  <2>2. \A e \in Devices \ {d} : web'[e] = Outdated(web[e])
    BY <1>7 DEF Bump
  <2>3. web'[d].acc = 0
    BY <2>1 DEF VersionInv
  <2> QED
    BY <1>7, <2>1, <2>2, <2>3, AllOutdated DEF Bump
<1>8. ASSUME NEW d \in Devices, AccessToken(d)
      PROVE  VersionInv'
  <2>1. /\ web'[d].at = "refresh" /\ web'[d].acc = Issued /\ UNCHANGED <<version, tokens>>
        /\ \A e \in Devices \ {d} : web'[e] = web[e]
    BY <1>8 DEF AccessToken, TypeOK, WebState
  <2>2. Issued = Current /\ Issued # 0 /\ Current' = Current
    BY <2>1 DEF Issued, Current
  <2> QED
    BY <2>1, <2>2 DEF VersionInv, FreshAt
<1>9. ASSUME NEW d \in Devices, RefreshToken(d)
      PROVE  VersionInv'
  <2>1. Finish(d) /\ version' = version
    BY <1>9 DEF RefreshToken
  <2>2. /\ tokens'[d].acc = web[d].acc /\ tokens'[d].stale = web[d].stale
        /\ \A e \in Devices \ {d} : tokens'[e] = tokens[e]
    BY <1>9 DEF RefreshToken, TypeOK
  <2>3. /\ web'[d].at = "idle" /\ web'[d].acc = 0
        /\ \A e \in Devices \ {d} : web'[e] = web[e]
    BY <2>1, FinishEffect
  <2>4. Current' = Current
    BY <2>1 DEF Current
  <2>5. \A e \in Devices : FreshAt(tokens[e]) /\ FreshAt(web[e])
    BY DEF VersionInv
  <2>6. \A e \in Devices : FreshAt(tokens'[e]) /\ FreshAt(web'[e])
    BY <2>2, <2>3, <2>5 DEF FreshAt
  <2>7. \A e \in Devices : web'[e].at = "refresh" <=> web'[e].acc # 0
    BY <2>3 DEF VersionInv
  <2> QED
    BY <2>4, <2>6, <2>7 DEF VersionInv, FreshAt
<1>10. ASSUME NEW d \in Devices, TokensExpire(d)
       PROVE  VersionInv'
  <2>1. /\ tokens'[d].acc = 0 /\ UNCHANGED <<web, version>>
        /\ \A e \in Devices \ {d} : tokens'[e] = tokens[e]
    BY <1>10 DEF TokensExpire, NoTokens, TypeOK, smsVars
  <2> QED
    BY <2>1 DEF VersionInv, FreshAt, Current
<1>11. CASE ErrExpires \/ LockExpires \/ UNCHANGED vars
  BY <1>0, <1>11 DEF ErrExpires, LockExpires, vars, smsVars
<1>12. CASE VersionExpires
  BY <1>12, AllOutdated DEF VersionExpires
<1> QED
  BY <1>1, <1>2, <1>3, <1>4, <1>5, <1>6, <1>7, <1>8, <1>9, <1>10, <1>11, <1>12
     DEF Next, ContinueLogin

-----------------------------------------------------------------------------
(* The failed logins *)

LEMMA LockingFinite ==
  /\ IsFiniteSet(Locking) /\ IsFiniteSet(Locking')
  /\ Cardinality(Locking) \in Nat /\ Cardinality(Locking') \in Nat
  /\ Cardinality(Devices) \in Nat /\ Cardinality(Locking) <= Cardinality(Devices)
<1>1. Locking \subseteq Devices /\ Locking' \subseteq Devices
  BY DEF Locking
<1> QED
  BY <1>1, LoginsAssumption, FS_Subset, FS_CardinalityType

\* When one request moves, one locking request comes or goes, or the same.
LEMMA LockingMoves ==
  ASSUME NEW d \in Devices,
         \A e \in Devices \ {d} : LockingAt(web'[e]) <=> LockingAt(web[e])
  PROVE  /\ (LockingAt(web'[d]) <=> LockingAt(web[d])) => Locking' = Locking
         /\ LockingAt(web'[d]) /\ ~LockingAt(web[d])
              => Cardinality(Locking') = Cardinality(Locking) + 1
         /\ Cardinality(Locking) <= Cardinality(Locking') + 1
<1>1. ASSUME LockingAt(web'[d]) <=> LockingAt(web[d])
      PROVE  Locking' = Locking
  BY <1>1 DEF Locking, LockingAt
<1>2. ASSUME LockingAt(web'[d]), ~LockingAt(web[d])
      PROVE  Cardinality(Locking') = Cardinality(Locking) + 1
  <2>1. Locking' = Locking \cup {d} /\ d \notin Locking
    BY <1>2 DEF Locking, LockingAt
  <2> QED
    BY <2>1, LockingFinite, FS_AddElement
<1>3. ASSUME ~LockingAt(web'[d]), LockingAt(web[d])
      PROVE  Cardinality(Locking') = Cardinality(Locking) - 1
  <2>1. Locking' = Locking \ {d} /\ d \in Locking
    BY <1>3 DEF Locking, LockingAt
  <2> QED
    BY <2>1, LockingFinite, FS_RemoveElement
<1> QED
  BY <1>1, <1>2, <1>3, LockingFinite

\* A step that counts no error and sets no lock.
LEMMA FreeFrame ==
  ASSUME TypeOK, TypeOK', FreeInv, NEW d \in Devices, UNCHANGED <<err, free>>,
         \A e \in Devices \ {d} : LockingAt(web'[e]) <=> LockingAt(web[e]),
         \/ (LockingAt(web'[d]) <=> LockingAt(web[d])) /\ faults <= faults'
         \/ faults' = faults + 1
  PROVE  FreeInv'
<1>1. BelowLock' = BelowLock /\ BelowLock \in Nat
  BY LoginsAssumption DEF BelowLock, TypeOK
<1>2. Cardinality(Locking) + faults <= Cardinality(Locking') + faults'
  BY LockingMoves, LockingFinite, SmsAssumption DEF TypeOK
<1> QED
  BY <1>1, <1>2, LockingFinite, SmsAssumption DEF FreeInv, TypeOK

\* A step after which nothing is counted.
LEMMA FreeReset ==
  ASSUME TypeOK', free' = 0
  PROVE  FreeInv'
<1>1. BelowLock' \in Nat /\ faults' \in Nat
  BY LoginsAssumption, SmsAssumption DEF BelowLock, TypeOK
<1> QED
  BY <1>1, LockingFinite DEF FreeInv

LEMMA FreeStep == TypeOK /\ TypeOK' /\ FreeInv /\ [Next]_vars => FreeInv'
<1> SUFFICES ASSUME TypeOK, TypeOK', FreeInv, [Next]_vars
             PROVE  FreeInv'
  OBVIOUS
<1>0. ASSUME UNCHANGED <<web, err, free, faults>>
      PROVE  FreeInv'
  BY <1>0 DEF FreeInv, BelowLock, Locking, LockingAt
<1>a. ASSUME NEW d \in Devices, \A e \in Devices \ {d} : web'[e] = web[e]
      PROVE  \A e \in Devices \ {d} : LockingAt(web'[e]) <=> LockingAt(web[e])
  BY <1>a DEF LockingAt
<1>b. faults <= faults
  BY SmsAssumption DEF TypeOK
<1>1. ASSUME NEW d \in Devices, Continue(d), UNCHANGED <<known, guard, version, tokens>>
      PROVE  FreeInv'
  BY <1>1, <1>a, ContinueStep, FreeFrame DEF guard
<1>2. CASE Sms
  <2>1. CASE Keys
    BY <1>2, <2>1, <1>0 DEF Sms, guard, Keys, RecentExpires, CodeExpires, CounterExpires
  <2>2. ASSUME NEW d \in Devices, BeginSend(d)
        PROVE  FreeInv'
    <3>1. Start(d, "send", "recent") /\ UNCHANGED <<faults, err, free>>
      BY <1>2, <2>2 DEF Sms, BeginSend, guard
    <3>2. ~LockingAt(web[d]) /\ ~LockingAt(web'[d])
      BY <3>1, StartEffect DEF LockingAt, Steps
    <3> QED
      BY <1>a, <1>b, <3>1, <3>2, StartEffect, FreeFrame DEF Steps
  <2>3. ASSUME NEW d \in Devices, CrashRequest(d)
        PROVE  FreeInv'
    BY <1>a, <1>2, <2>3, CrashEffect, FinishEffect, FreeFrame DEF Sms, guard
  <2> QED
    BY <1>1, <1>2, <2>1, <2>2, <2>3 DEF Sms
<1>3. ASSUME NEW d \in Devices, NEW op \in {"code", "password"}, BeginLogin(d, op)
      PROVE  FreeInv'
  <2>1. Start(d, op, "count") /\ UNCHANGED <<faults, err, free>>
    BY <1>3 DEF BeginLogin, guard
  <2>2. op \in {"send", "code", "password", "refresh"} /\ "count" \in Steps
    BY DEF Steps
  <2>3. ~LockingAt(web[d]) /\ ~LockingAt(web'[d]) /\ \A e \in Devices \ {d} : web'[e] = web[e]
    BY <2>1, <2>2, StartEffect DEF LockingAt
  <2> QED
    BY <1>a, <1>b, <2>1, <2>3, FreeFrame
<1>4. ASSUME NEW d \in Devices, BeginRefresh(d)
      PROVE  FreeInv'
  <2>1. Start(d, "refresh", "access") /\ UNCHANGED <<faults, err, free>>
    BY <1>4 DEF BeginRefresh, guard
  <2>2. ~LockingAt(web[d]) /\ ~LockingAt(web'[d])
    BY <2>1, StartEffect DEF LockingAt, Steps
  <2> QED
    BY <1>a, <1>b, <2>1, <2>2, StartEffect, FreeFrame DEF Steps
<1>5. ASSUME NEW d \in Devices,
             \/ LockCheck(d) \/ VerifyCode(d) \/ VerifyPassword(d) \/ FindUser(d)
             \/ InsertUser(d) \/ RefreshToken(d)
      PROVE  FreeInv'
  <2>1. \/ Finish(d)
        \/ \E at \in Steps \ {"lock", "ttl"} : Goto(d, at)
    BY <1>5 DEF LockCheck, VerifyCode, VerifyPassword, FindUser, InsertUser, RefreshToken, Steps
  <2>2. web[d].at \notin {"lock", "ttl"} /\ UNCHANGED <<err, free>>
    BY <1>5 DEF LockCheck, VerifyCode, VerifyPassword, FindUser, InsertUser, RefreshToken, At, guard
  <2>3. faults <= faults'
    BY <1>5, <1>b, SmsAssumption
       DEF LockCheck, VerifyCode, VerifyPassword, FindUser, InsertUser, RefreshToken, Fault, TypeOK
  <2>4. ~LockingAt(web[d]) /\ ~LockingAt(web'[d])
    BY <2>1, <2>2, FinishEffect, GotoEffect DEF LockingAt
  <2>5. \A e \in Devices \ {d} : web'[e] = web[e]
    BY <2>1, FinishEffect, GotoEffect
  <2> QED
    BY <1>a, <2>2, <2>3, <2>4, <2>5, FreeFrame
<1>6. ASSUME NEW d \in Devices, Wrong(d)
      PROVE  FreeInv'
  <2>1. /\ web[d].at = "wrong" /\ web'[d].at = "ttl" /\ web'[d].over = (err + 1 >= MaxErrs)
        /\ \A e \in Devices \ {d} : web'[e] = web[e]
    BY <1>6 DEF Wrong, Locks, TypeOK, WebState
  <2>2. /\ faults' = faults /\ free' <= free + 1
        /\ err' = IF err + 1 > MaxErrs THEN MaxErrs + 1 ELSE err + 1
    BY <1>6, LoginsAssumption DEF Wrong, TypeOK
  <2>3. CASE err + 1 < MaxErrs
    <3>0. ~(err + 1 >= MaxErrs)
      BY <2>3, LoginsAssumption DEF TypeOK
    <3>1. ~LockingAt(web[d]) /\ ~LockingAt(web'[d])
      BY <2>1, <3>0 DEF LockingAt
    <3>3. Locking' = Locking
      BY <1>a, <2>1, <3>1, LockingMoves
    <3>2. BelowLock' = BelowLock + 1
      BY <2>2, <2>3, LoginsAssumption DEF BelowLock, TypeOK
    <3> QED
      BY <2>2, <3>3, <3>2, LockingFinite, LoginsAssumption, SmsAssumption
         DEF FreeInv, BelowLock, TypeOK
  <2>4. CASE err + 1 >= MaxErrs
    <3>1. Cardinality(Locking') = Cardinality(Locking) + 1
      BY <1>a, <2>1, <2>4, LockingMoves DEF LockingAt
    <3>2. BelowLock' = BelowLock
      BY <2>2, <2>4, LoginsAssumption DEF BelowLock, TypeOK
    <3> QED
      BY <2>2, <3>1, <3>2, LockingFinite, LoginsAssumption, SmsAssumption
         DEF FreeInv, BelowLock, TypeOK
  <2> QED
    BY <2>3, <2>4, LoginsAssumption DEF TypeOK
<1>7. ASSUME NEW d \in Devices, ErrTtl(d)
      PROVE  FreeInv'
  <2>1. web[d].at = "ttl" /\ UNCHANGED <<err, free, faults>>
    BY <1>7 DEF ErrTtl
  <2>2. CASE web[d].over
    <3>1. Goto(d, "lock") /\ "lock" \in Steps
      BY <1>7, <2>2 DEF ErrTtl, Steps
    <3>2. LockingAt(web[d]) /\ LockingAt(web'[d])
      BY <2>1, <2>2, <3>1, GotoEffect DEF LockingAt
    <3> QED
      BY <1>a, <1>b, <2>1, <3>1, <3>2, GotoEffect, FreeFrame
  <2>3. CASE ~web[d].over
    <3>1. Finish(d)
      BY <1>7, <2>3 DEF ErrTtl
    <3>2. ~LockingAt(web[d]) /\ ~LockingAt(web'[d])
      BY <2>1, <2>3, <3>1, FinishEffect DEF LockingAt
    <3> QED
      BY <1>a, <1>b, <2>1, <3>1, <3>2, FinishEffect, FreeFrame
  <2> QED
    BY <2>2, <2>3
<1>8. ASSUME NEW d \in Devices, SetLock(d) \/ Clear(d)
      PROVE  FreeInv'
  BY <1>8, FreeReset DEF SetLock, Clear
<1>9. ASSUME NEW d \in Devices, Bump(d)
      PROVE  FreeInv'
  <2>1. web'[d].at = "access" /\ web[d].at = "bump" /\ UNCHANGED <<err, free, faults>>
    BY <1>9 DEF Bump, At, guard, TypeOK, WebState
  <2>2. \A e \in Devices \ {d} : LockingAt(web'[e]) <=> LockingAt(web[e])
    BY <1>9, OutdatedEffect DEF Bump, LockingAt
  <2>3. ~LockingAt(web[d]) /\ ~LockingAt(web'[d])
    BY <2>1 DEF LockingAt
  <2> QED
    BY <1>b, <2>1, <2>2, <2>3, FreeFrame
<1>10. ASSUME NEW d \in Devices, AccessToken(d)
       PROVE  FreeInv'
  <2>1. /\ web[d].at = "access" /\ web'[d].at = "refresh" /\ UNCHANGED <<err, free, faults>>
        /\ \A e \in Devices \ {d} : web'[e] = web[e]
    BY <1>10 DEF AccessToken, guard, TypeOK, WebState
  <2>2. ~LockingAt(web[d]) /\ ~LockingAt(web'[d])
    BY <2>1 DEF LockingAt
  <2> QED
    BY <1>a, <1>b, <2>1, <2>2, FreeFrame
<1>11. CASE ErrExpires
  BY <1>11, FreeReset DEF ErrExpires
<1>12. CASE LockExpires \/ UNCHANGED vars \/ \E d \in Devices : TokensExpire(d)
  BY <1>0, <1>12 DEF LockExpires, TokensExpire, vars, smsVars, guard
<1>13. CASE VersionExpires
  <2>1. \A e \in Devices : LockingAt(web'[e]) <=> LockingAt(web[e])
    BY <1>13, OutdatedEffect DEF VersionExpires, LockingAt
  <2>2. Locking' = Locking
    BY <2>1 DEF Locking, LockingAt
  <2> QED
    BY <1>13, <2>2 DEF VersionExpires, guard, FreeInv, BelowLock
<1> QED
  BY <1>1, <1>2, <1>3, <1>4, <1>5, <1>6, <1>7, <1>8, <1>9, <1>10, <1>11, <1>12, <1>13
     DEF Next, ContinueLogin

-----------------------------------------------------------------------------
(* The theorems *)

LEMMA InitInv == Init => FreeInv /\ VersionInv
<1> SUFFICES ASSUME Init
             PROVE  FreeInv /\ VersionInv
  OBVIOUS
<1>1. TypeOK
  BY InitType
<1>2. BelowLock \in Nat /\ faults \in Nat
  BY <1>1, LoginsAssumption, SmsAssumption DEF BelowLock, TypeOK
<1>3. FreeInv
  BY <1>2, LockingFinite DEF Init, FreeInv
<1>4. VersionInv
  BY DEF Init, SmsInit, VersionInv, FreshAt, NoTokens, Idle
<1> QED
  BY <1>3, <1>4

LEMMA Invariant == Spec => []LoginInv
<1>1. Init => LoginInv
  BY InitType, InitInv DEF LoginInv
<1>2. LoginInv /\ [Next]_vars => LoginInv'
  BY TypeStep, FreeStep, VersionStep DEF LoginInv
<1> QED
  BY <1>1, <1>2, PTL DEF Spec

\* FailuresAreBounded: however the checks, the counter, the lock and their times to
\* live interleave, and whatever dies between _incr_login_err's calls of Redis, no
\* more than MostFree logins fail while the lock is not set.
THEOREM LockComesInTime == Spec => []FailuresAreBounded
<1>1. LoginInv => FailuresAreBounded
  <2> SUFFICES ASSUME LoginInv
               PROVE  FailuresAreBounded
    OBVIOUS
  <2>1. BelowLock \in Nat /\ BelowLock <= MaxErrs - 1 /\ faults \in Nat /\ faults <= MaxFaults
    BY LoginsAssumption, SmsAssumption DEF LoginInv, TypeOK, BelowLock
  <2> QED
    BY <2>1, LockingFinite, LoginsAssumption, SmsAssumption
       DEF LoginInv, TypeOK, FreeInv, FailuresAreBounded, MostFree
<1> QED
  BY <1>1, Invariant, PTL

\* RejectedHasReason: get_current_user rejects a token that create_token_pair made
\* only if a bump or the expiry of the version's key came after the read of the version.
THEOREM RejectionHasReason == Spec => []RejectedHasReason
<1>1. LoginInv => RejectedHasReason
  BY DEF LoginInv, TypeOK, VersionInv, FreshAt, RejectedHasReason, Rejected
<1> QED
  BY <1>1, Invariant, PTL

===============================================================================
