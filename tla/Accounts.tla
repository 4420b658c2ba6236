------------------------------- MODULE Accounts -------------------------------
(***************************************************************************)
(* How accounts come to be and to be held by a WeChat user:                  *)
(* services/wechat_service.py (authorise, bind a phone, register),           *)
(* api/v1/wechat_login.py (log in by scanning a QR code) and register_user.  *)
(* Requests interleave at every call of Redis, of the database and of the    *)
(* providers.  An account is named by its phone; that of one registered by a *)
(* scan is a placeholder made from the openid.  Not modelled: user names,    *)
(* whose clash ends a registration, limiters, which end a request at once,   *)
(* and bans that begin or end while requests run.                            *)
(***************************************************************************)
EXTENDS Naturals, FiniteSets

CONSTANTS
  Requests,  \* the requests that can be under way at once
  Openids,   \* the WeChat users
  Phones,
  Tokens,    \* bound: the bind tokens that are issued
  Scenes,    \* the QR codes on the screens of front ends
  None

ASSUME AccountsAssumption == None \notin Openids \cup Phones /\ Openids \cap Phones = {}

VARIABLES
  accounts,  \* the rows of t_users, by phone; an openid stands for its placeholder
  banned,    \* those of status 0
  openid,    \* wechat_openid of every account
  token,     \* the bind tokens in Redis: openid, and phone once it is verified
  scene,     \* the scenes that exist in Redis
  req,       \* the requests
  issued,    \* the tokens that have been issued
  proved,    \* the phones whose code somebody gave together with a token of an openid
  sessions,  \* the token pairs handed out for an openid, also by a scene that is polled
  through,   \* which accounts were bound or registered through which token
  lost       \* the accounts whose openid a bind that read none has written over

rows == <<accounts, banned, openid>>
hist == <<proved, through, lost>>
vars == <<rows, token, scene, req, issued, sessions, hist>>

Idle    == [at |-> "idle", by |-> None, token |-> None, account |-> None, saw |-> None]
Gone    == [openid |-> None, phone |-> None]
Names   == Phones \cup Openids

Do(r, at)     == req[r].at = at
Goto(r, at)   == req' = [req EXCEPT ![r].at = at]
Start(r, rec) == req[r] = Idle /\ req' = [req EXCEPT ![r] = rec]
Finish(r)     == req' = [req EXCEPT ![r] = Idle]

Holders(o) == {a \in accounts : openid[a] = o}

\* Mutant of Unique: the columns phone and phone_hash only.
UniquePhone(a, o) == a \notin accounts

\* What the unique indexes of t_users let in.
Unique(a, o) == a \notin accounts /\ (o = None \/ Holders(o) = {})

Insert(a, o) ==
  /\ accounts' = accounts \cup {a}
  /\ openid' = [openid EXCEPT ![a] = o]

-----------------------------------------------------------------------------
(* get_wechat_qr_url and handle_wechat_callback *)

\* The request holds the state of its authorisation, which is used once.
Authorise(r) ==
  /\ Start(r, [Idle EXCEPT !.at = "state"])
  /\ UNCHANGED <<rows, token, scene, issued, sessions, hist>>

\* The callback deletes the state and asks WeChat who it was, unless the state has
\* expired or WeChat does not answer.
Exchange(r) ==
  /\ Do(r, "state")
  /\ \/ \E o \in Openids : req' = [req EXCEPT ![r].at = "who", ![r].by = o]
     \/ Finish(r)
  /\ UNCHANGED <<rows, token, scene, issued, sessions, hist>>

\* The session of an account that holds the openid, unless it is banned.
Recognise(r) ==
  /\ Do(r, "who")
  /\ sessions' = sessions \cup
       {[account |-> a, openid |-> req[r].by] : a \in Holders(req[r].by) \ banned}
  /\ IF Holders(req[r].by) = {} THEN Goto(r, "issue") ELSE Finish(r)
  /\ UNCHANGED <<rows, token, scene, issued, hist>>

IssueToken(r) ==
  /\ Do(r, "issue")
  /\ \E t \in Tokens \ issued :
       /\ token' = [token EXCEPT ![t] = [openid |-> req[r].by, phone |-> None]]
       /\ issued' = issued \cup {t}
  /\ Finish(r)
  /\ UNCHANGED <<rows, scene, sessions, hist>>

-----------------------------------------------------------------------------
(* bind_phone_to_wechat *)

BeginBind(r, t, p) ==
  /\ token[t] # Gone
  /\ Start(r, [Idle EXCEPT !.at = "verify", !.by = token[t].openid,
                           !.token = t, !.account = p])
  /\ UNCHANGED <<rows, token, scene, issued, sessions, hist>>

VerifyCode(r) ==
  /\ Do(r, "verify")
  /\ \/ Finish(r) /\ UNCHANGED proved
     \/ Goto(r, "user") /\ proved' = proved \cup {<<req[r].by, req[r].account>>}
  /\ UNCHANGED <<rows, token, scene, issued, sessions, through, lost>>

\* Mutant of Bindable: what the account holds is not looked at.
BindableToAny(a, o) == a \notin banned /\ Holders(o) \subseteq {a}

\* What is read in one transaction: no other openid, no other account.
Bindable(a, o) ==
  a \notin banned /\ openid[a] \in {None, o} /\ Holders(o) \subseteq {a}

FindUser(r) ==
  LET a == req[r].account  o == req[r].by
  IN  /\ Do(r, "user")
      /\ CASE a \notin accounts -> Goto(r, "keep")
           [] a \in accounts /\ Bindable(a, o) ->
                req' = [req EXCEPT ![r].at = "bind", ![r].saw = openid[a]]
           [] OTHER -> Finish(r)
      /\ UNCHANGED <<rows, token, scene, issued, sessions, hist>>

\* The UPDATE of an openid that has changed since it was read is not conditional; the
\* unique index ends it if another account holds the openid by now.
Bind(r) ==
  LET a == req[r].account  o == req[r].by
  IN  /\ Do(r, "bind")
      /\ IF Holders(o) \subseteq {a} \/ req[r].saw = o
         THEN /\ openid' = IF req[r].saw = o THEN openid ELSE [openid EXCEPT ![a] = o]
              /\ lost' = IF req[r].saw = None /\ openid[a] \notin {None, o}
                         THEN lost \cup {a} ELSE lost
              /\ through' = through \cup {<<req[r].token, a>>}
              /\ Goto(r, "used")
         ELSE Finish(r) /\ UNCHANGED <<openid, lost, through>>
      /\ UNCHANGED <<accounts, banned, token, scene, issued, sessions, proved>>

\* A phone without an account is kept in the token, which is written anew whether it
\* is still there or not.
KeepPhone(r) ==
  /\ Do(r, "keep")
  /\ token' = [token EXCEPT ![req[r].token] =
                 [openid |-> req[r].by, phone |-> req[r].account]]
  /\ Finish(r)
  /\ UNCHANGED <<rows, scene, issued, sessions, hist>>

\* The token of a bind or registration is deleted, and its session answered.
Use(r) ==
  /\ Do(r, "used")
  /\ token' = [token EXCEPT ![req[r].token] = Gone]
  /\ sessions' = sessions \cup {[account |-> req[r].account, openid |-> req[r].by]}
  /\ Finish(r)
  /\ UNCHANGED <<rows, scene, issued, hist>>

-----------------------------------------------------------------------------
(* complete_wechat_register and register_user *)

\* Mutant of Verified: any phone may be registered once one is verified.
VerifiedAny(t, p) == token[t].phone # None

\* The phone that is registered is the one that was verified.
Verified(t, p) == token[t].phone = p

BeginComplete(r, t, p) ==
  /\ Verified(t, p)
  /\ Start(r, [Idle EXCEPT !.at = "unique", !.by = token[t].openid,
                           !.token = t, !.account = p])
  /\ UNCHANGED <<rows, token, scene, issued, sessions, hist>>

\* Also the silent registration of login_by_code.
BeginRegister(r, p) ==
  /\ Start(r, [Idle EXCEPT !.at = "unique", !.account = p])
  /\ UNCHANGED <<rows, token, scene, issued, sessions, hist>>

CheckUnique(r) ==
  /\ Do(r, "unique")
  /\ IF req[r].account \in accounts \/ (req[r].by # None /\ Holders(req[r].by) # {})
     THEN Finish(r) ELSE Goto(r, "insert")
  /\ UNCHANGED <<rows, token, scene, issued, sessions, hist>>

InsertUser(r) ==
  LET a == req[r].account  o == req[r].by
  IN  /\ Do(r, "insert")
      /\ IF Unique(a, o)
         THEN /\ Insert(a, o)
              /\ through' = IF o = None THEN through ELSE through \cup {<<req[r].token, a>>}
              /\ IF o = None THEN Finish(r) ELSE Goto(r, "used")
         ELSE Finish(r) /\ UNCHANGED <<accounts, openid, through>>
      /\ UNCHANGED <<banned, token, scene, issued, sessions, proved, lost>>

-----------------------------------------------------------------------------
(* wechat_login.py *)

ShowCode(s) ==
  /\ s \notin scene
  /\ scene' = scene \cup {s}
  /\ UNCHANGED <<rows, token, req, issued, sessions, hist>>

\* WeChat reports who has scanned a code; a scene answered already is answered again.
BeginScan(r, s, o) ==
  /\ s \in scene
  /\ Start(r, [Idle EXCEPT !.at = "scanned", !.by = o, !.token = s])
  /\ UNCHANGED <<rows, token, scene, issued, sessions, hist>>

FindScanner(r) ==
  /\ Do(r, "scanned")
  /\ \/ Holders(req[r].by) = {} /\ Goto(r, "silent")
     \/ \E a \in Holders(req[r].by) :
          req' = [req EXCEPT ![r].at = "answer", ![r].account = a]
  /\ UNCHANGED <<rows, token, scene, issued, sessions, hist>>

\* Silent registration; a failure is logged, answered with success and forgotten.
RegisterScanner(r) ==
  LET o == req[r].by
  IN  /\ Do(r, "silent")
      /\ IF Unique(o, o)
         THEN Insert(o, o) /\ req' = [req EXCEPT ![r].at = "answer", ![r].account = o]
         ELSE Finish(r) /\ UNCHANGED <<accounts, openid>>
      /\ UNCHANGED <<banned, token, scene, issued, sessions, hist>>

\* The scene, written whether it still exists or not, holds the session for the front
\* end that polls it.
AnswerScene(r) ==
  /\ Do(r, "answer")
  /\ scene' = scene \cup {req[r].token}
  /\ sessions' = sessions \cup {[account |-> req[r].account, openid |-> req[r].by]}
  /\ Finish(r)
  /\ UNCHANGED <<rows, token, issued, hist>>

-----------------------------------------------------------------------------
(* Keys expire, requests die *)

TokenExpires(t) ==
  /\ token[t] # Gone
  /\ token' = [token EXCEPT ![t] = Gone]
  /\ UNCHANGED <<rows, scene, req, issued, sessions, hist>>

SceneExpires(s) ==
  /\ s \in scene
  /\ scene' = scene \ {s}
  /\ UNCHANGED <<rows, token, req, issued, sessions, hist>>

Crash(r) ==
  /\ req[r] # Idle
  /\ Finish(r)
  /\ UNCHANGED <<rows, token, scene, issued, sessions, hist>>

-----------------------------------------------------------------------------
\* Some phones have accounts, registered without WeChat, and some of those are banned.
Init ==
  /\ accounts \in SUBSET Phones /\ banned \in SUBSET accounts
  /\ openid = [a \in Names |-> None]
  /\ issued = {}
  /\ token = [t \in Tokens |-> Gone]
  /\ scene = {}
  /\ req = [r \in Requests |-> Idle]
  /\ proved = {} /\ sessions = {} /\ through = {} /\ lost = {}

Run(r) ==
  \/ Exchange(r) \/ Recognise(r) \/ IssueToken(r)
  \/ VerifyCode(r) \/ FindUser(r) \/ Bind(r) \/ KeepPhone(r) \/ Use(r)
  \/ CheckUnique(r) \/ InsertUser(r)
  \/ FindScanner(r) \/ RegisterScanner(r) \/ AnswerScene(r)
  \/ Crash(r)

Next ==
  \/ \E t \in Tokens : TokenExpires(t)
  \/ \E s \in Scenes : ShowCode(s) \/ SceneExpires(s)
  \/ \E r \in Requests :
       \/ Authorise(r) \/ Run(r)
       \/ \E p \in Phones : BeginRegister(r, p)
       \/ \E t \in Tokens, p \in Phones : BeginBind(r, t, p) \/ BeginComplete(r, t, p)
       \/ \E s \in Scenes, o \in Openids : BeginScan(r, s, o)

Spec == Init /\ [][Next]_vars

-----------------------------------------------------------------------------
(* Properties *)

\* A WeChat user holds the account of a phone only if its code was given together with
\* a bind token of that user - in spite of tokens written anew by a late bind, of a
\* phone in the token that another request has replaced, and of accounts that
\* others register meanwhile (bind_phone_to_wechat, complete_wechat_register).
BoundProvedPhone ==
  \A a \in accounts \cap Phones : openid[a] # None => <<openid[a], a>> \in proved

\* A session handed out for an openid, by a callback, a bind, a registration or the
\* poll of a scene, is of the account which that openid holds to this day, unless two
\* binds of the account overlapped and the second wrote over the first.
AnsweredIsBound ==
  \A s \in sessions : openid[s.account] = s.openid \/ s.account \in lost

\* Through one bind token at most one account comes to its openid, although a token
\* outlives its use when the request dies or a late bind writes it anew.
TokenBindsOnce ==
  \A t \in Tokens : Cardinality({a \in Names \ lost : <<t, a>> \in through}) <= 1
=============================================================================
