-------------------------------- MODULE Logins --------------------------------
(***************************************************************************)
(* The logins of one phone: services/auth_service.py with its lock after     *)
(* failed logins, and the token versions of core/security.py, by which a new *)
(* login is to end the session of another device.                            *)
(* The user is not banned; registrations are modelled in Accounts.           *)
(***************************************************************************)
EXTENDS SmsCodes, FiniteSets

CONSTANTS
  MaxErrs,     \* _MAX_LOGIN_ERRS
  MaxVersion   \* bound: the versions that logins by code give out

ASSUME LoginsAssumption ==
  /\ IsFiniteSet(Devices)
  /\ MaxErrs \in Nat \ {0} /\ MaxVersion \in Nat \ {0}

VARIABLES
  known,    \* whether the phone has a user row
  err,      \* login_err of the phone, 0 without the key
  locked,   \* whether login_err:locked exists
  later,    \* whether the counter's time to live ends after the lock's
  free,     \* failed logins since the lock was set or the counter began
  version,  \* token:version of the user, 0 without the key
  tokens    \* the pair of tokens a device holds

guard == <<err, locked, later, free>>
vars  == <<smsVars, known, err, locked, later, free, version, tokens>>

\* The version in the access token (0: no tokens) and whether the version has changed
\* since acc was read; nothing compares the one in the refresh token.
NoTokens == [acc |-> 0, stale |-> FALSE]

\* _get_token_version: the default is 1.
Current == IF version = 0 THEN 1 ELSE version

\* get_current_user compares the token's version with the user's.
Rejected(d) == tokens[d].acc # Current

\* Bound: every login by code that has begun has a version left to it.
Room == version + Cardinality({d \in Devices : web[d].op = "code"}) < MaxVersion

-----------------------------------------------------------------------------
(* login_by_code and login_by_password; op is "code" or "password" *)

BeginLogin(d, op) ==
  /\ op = "code" => Room
  /\ Start(d, op, "count")
  /\ UNCHANGED <<ops, recent, count, timed, code, died, faults, known, guard, version, tokens>>

LockCheck(d) ==
  /\ web[d].at = "checkLock"
  /\ IF locked THEN Finish(d) ELSE Goto(d, "verify")
  /\ UNCHANGED <<ops, recent, count, timed, code, died, faults, known, guard, version, tokens>>

\* _verify_code_hybrid asks the provider, whatever the user typed, and Redis if the
\* provider cannot be asked; verify_code deletes the code it accepts.
VerifyCode(d) ==
  /\ At(d, "code", "verify")
  /\ \/ \E right \in BOOLEAN : Goto(d, IF right THEN "clear" ELSE "wrong")
        /\ UNCHANGED <<ops, code, faults>>
     \/ \E typed \in BOOLEAN :
          /\ Fault
          /\ Goto(d, IF typed /\ code THEN "clear" ELSE "wrong")
          /\ code' = (code /\ ~typed)
  /\ UNCHANGED <<ops, recent, count, timed, died, known, guard, version, tokens>>

\* The password of a user the phone has, or not.
VerifyPassword(d) ==
  /\ At(d, "password", "verify")
  /\ \E right \in BOOLEAN : Goto(d, IF right /\ known THEN "clear" ELSE "wrong")
  /\ UNCHANGED <<ops, recent, count, timed, code, died, faults, known, guard, version, tokens>>

-----------------------------------------------------------------------------
(* _incr_login_err *)

\* Mutant of Locks: the fifth error locks, and no later one.
LocksOnce(n) == n = MaxErrs

Locks(n) == n >= MaxErrs

\* The most failed logins there can be without a lock: every device may have one
\* under way when the last one that does not lock is counted, and a request that
\* dies does not lock.
MostFree == MaxErrs - 1 + Cardinality(Devices) + MaxFaults

Wrong(d) ==
  LET n == err + 1
  IN  /\ web[d].at = "wrong"
      /\ err' = IF n > MaxErrs THEN MaxErrs + 1 ELSE n
      /\ free' = IF free > MostFree THEN free ELSE free + 1
      /\ web' = [web EXCEPT ![d].at = "ttl", ![d].over = Locks(n)]
      /\ UNCHANGED <<ops, recent, count, timed, code, died, faults, known, locked, later, version, tokens>>

\* EXPIRE of the counter, and the lock if the count calls for it.
ErrTtl(d) ==
  /\ web[d].at = "ttl"
  /\ later' = (locked /\ err # 0)
  /\ IF web[d].over THEN Goto(d, "lock") ELSE Finish(d)
  /\ UNCHANGED <<ops, recent, count, timed, code, died, faults, known, err, locked, free, version, tokens>>

SetLock(d) ==
  /\ web[d].at = "lock"
  /\ locked' = TRUE /\ later' = FALSE /\ free' = 0
  /\ Finish(d)
  /\ UNCHANGED <<ops, recent, count, timed, code, died, faults, known, err, version, tokens>>

\* DEL of counter and lock after a login that succeeds.
Clear(d) ==
  /\ web[d].at = "clear"
  /\ err' = 0 /\ locked' = FALSE /\ later' = FALSE /\ free' = 0
  /\ Goto(d, IF web[d].op = "code" THEN "user" ELSE "access")
  /\ UNCHANGED <<ops, recent, count, timed, code, died, faults, known, version, tokens>>

\* Ten minutes are over, of the counter and of the lock, in the order they were set.
ErrExpires ==
  /\ err # 0
  /\ later => ~locked
  /\ err' = 0 /\ free' = 0 /\ later' = FALSE
  /\ UNCHANGED <<smsVars, known, locked, version, tokens>>

LockExpires ==
  /\ locked
  /\ err = 0 \/ later
  /\ locked' = FALSE
  /\ UNCHANGED <<smsVars, known, err, later, free, version, tokens>>

-----------------------------------------------------------------------------
(* The user row and the tokens *)

\* The row of the phone is looked up, and a missing one inserted; phone_hash is
\* unique, so the second of two that insert ends with the database's error.
FindUser(d) ==
  /\ At(d, "code", "user")
  /\ Goto(d, IF known THEN "bump" ELSE "insert")
  /\ UNCHANGED <<ops, recent, count, timed, code, died, faults, known, guard, version, tokens>>

InsertUser(d) ==
  /\ At(d, "code", "insert")
  /\ known' = TRUE
  /\ IF known THEN Finish(d) ELSE Goto(d, "bump")
  /\ UNCHANGED <<ops, recent, count, timed, code, died, faults, guard, version, tokens>>

\* What holds a version that was read before the user's version changed.
Outdated(t) == [t EXCEPT !.stale = @ \/ t.acc # 0]

\* bump_token_version; its EXPIRE is part of the step.
Bump(d) ==
  /\ At(d, "code", "bump")
  /\ version' = version + 1
  /\ tokens' = [e \in Devices |-> Outdated(tokens[e])]
  /\ web' = [e \in Devices |-> IF e = d THEN [web[d] EXCEPT !.at = "access"]
                                        ELSE Outdated(web[e])]
  /\ UNCHANGED <<ops, recent, count, timed, code, died, faults, known, guard>>

\* Mutant of Issued: the version is taken before it is bumped.
IssuedBefore == IF Current = 1 THEN 1 ELSE Current - 1

\* What create_access_token and create_refresh_token put into a token.
Issued == Current

\* create_token_pair reads the version for each token of the pair.
AccessToken(d) ==
  /\ web[d].at = "access"
  /\ web' = [web EXCEPT ![d].at = "refresh", ![d].acc = Issued, ![d].stale = FALSE]
  /\ UNCHANGED <<ops, recent, count, timed, code, died, faults, known, guard, version, tokens>>

RefreshToken(d) ==
  /\ web[d].at = "refresh"
  /\ tokens' = [tokens EXCEPT ![d] = [acc |-> web[d].acc, stale |-> web[d].stale]]
  /\ Finish(d)
  /\ UNCHANGED <<ops, recent, count, timed, code, died, faults, known, guard, version>>

\* refresh_access_token: of the refresh token only the user is looked at.
BeginRefresh(d) ==
  /\ tokens[d] # NoTokens
  /\ Start(d, "refresh", "access")
  /\ UNCHANGED <<ops, recent, count, timed, code, died, faults, known, guard, version, tokens>>

\* The version's key expires, thirty days after the last login by code.
VersionExpires ==
  /\ version # 0
  /\ version' = 0
  /\ tokens' = [d \in Devices |-> Outdated(tokens[d])]
  /\ web' = [d \in Devices |-> Outdated(web[d])]
  /\ UNCHANGED <<ops, recent, count, timed, code, died, faults, known, guard>>

\* An access token is good for seven days, a refresh token for thirty; one that runs
\* out before the other is no different from one that is not used.
TokensExpire(d) ==
  /\ tokens[d] # NoTokens
  /\ tokens' = [tokens EXCEPT ![d] = NoTokens]
  /\ UNCHANGED <<smsVars, known, guard, version>>

-----------------------------------------------------------------------------
Sms ==
  /\ \/ Keys
     \/ \E d \in Devices : BeginSend(d) \/ Continue(d) \/ CrashRequest(d)
  /\ UNCHANGED <<known, guard, version, tokens>>

ContinueLogin(d) ==
  \/ Continue(d) /\ UNCHANGED <<known, guard, version, tokens>>
  \/ LockCheck(d) \/ VerifyCode(d) \/ VerifyPassword(d)
  \/ Wrong(d) \/ ErrTtl(d) \/ SetLock(d) \/ Clear(d)
  \/ FindUser(d) \/ InsertUser(d) \/ Bump(d) \/ AccessToken(d) \/ RefreshToken(d)

Init ==
  /\ SmsInit
  /\ known \in BOOLEAN
  /\ err = 0 /\ locked = FALSE /\ later = FALSE /\ free = 0
  /\ version = 0
  /\ tokens = [d \in Devices |-> NoTokens]

Next ==
  \/ Sms
  \/ \E d \in Devices :
       \/ \E op \in {"code", "password"} : BeginLogin(d, op)
       \/ BeginRefresh(d) \/ ContinueLogin(d) \/ TokensExpire(d)
  \/ ErrExpires \/ LockExpires \/ VersionExpires

Spec == Init /\ [][Next]_vars

\* Requests run on, and keys with a time to live expire.
FairSpec ==
  /\ Spec
  /\ \A d \in Devices : WF_vars(ContinueLogin(d))
  /\ \A k \in Counters : WF_vars(CounterExpires(k) /\ UNCHANGED <<known, guard, version, tokens>>)

-----------------------------------------------------------------------------
(* Properties *)

\* After failed logins the phone is locked, although several requests may have
\* passed the check of the lock, die before they set it, or find the counter and
\* the lock expired at different times: without a lock there are at most MostFree.
FailuresAreBounded == free <= MostFree

\* A device's access token is rejected only if somebody logged in by code, or the
\* version's key expired, after the token's version was read - never because of the
\* order in which the login's own bump and its two tokens take their versions.
RejectedHasReason ==
  \A d \in Devices : tokens[d].acc # 0 /\ Rejected(d) => tokens[d].stale
=============================================================================
