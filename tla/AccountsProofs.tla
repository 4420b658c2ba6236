---------------------------- MODULE AccountsProofs ----------------------------
(***************************************************************************)
(* The properties of Accounts for any number of requests, WeChat users,      *)
(* phones, tokens and scenes.  They do not hold by induction alone: what a   *)
(* request has read or proved must be known until it writes (Progress), and  *)
(* whom a bind token can still act for must be known wherever the token has  *)
(* gone: to Redis, into a request, or into an account (Claims).              *)
(***************************************************************************)
EXTENDS Accounts, FiniteSetTheorems, TLAPS

Places == {"idle", "state", "who", "issue", "verify", "user", "bind", "keep", "used",
           "unique", "insert", "scanned", "silent", "answer"}

TypeInv ==
  /\ accounts \subseteq Names
  /\ openid \in [Names -> Openids \cup {None}]
  /\ token \in [Tokens -> [openid : Openids, phone : Phones \cup {None}] \cup {Gone}]
  /\ req \in [Requests -> [at : Places, by : Openids \cup {None},
                           token : Tokens \cup Scenes \cup {None},
                           account : Names \cup {None}, saw : Openids \cup {None}]]
  /\ sessions \subseteq [account : Names, openid : Openids]
  /\ through \subseteq Tokens \X Names
  /\ issued \subseteq Tokens

\* The unique index, and that nobody holds an account that does not exist.
Index ==
  /\ \A a \in Names : openid[a] # None => a \in accounts
  /\ \A a, b \in Names : openid[a] = openid[b] /\ openid[a] # None => a = b

\* An account is held by o, or two binds of it have overlapped.
Held(a, o) == openid[a] = o \/ a \in lost

\* Where a request works for a WeChat user, and where through a bind token.
Anonymous == {"idle", "state"}
Form      == {"unique", "insert"}
BindAt    == {"verify", "user", "bind", "keep"}

ProgressOf(q) ==
  /\ q.at \notin Anonymous \cup Form => q.by \in Openids
  /\ q.at \in BindAt => q.account \in Phones /\ q.token \in Tokens
  /\ q.at \in BindAt \ {"verify"} => <<q.by, q.account>> \in proved
  /\ q.at = "bind" => /\ q.account \in accounts /\ q.saw \in {None, q.by}
                      /\ q.saw = q.by => Held(q.account, q.by)
  /\ q.at \in Form => /\ q.account \in Phones
                      /\ q.by # None => <<q.by, q.account>> \in proved /\ q.token \in Tokens
  /\ q.at \in {"used", "answer"} => q.account \in Names /\ Held(q.account, q.by)
  /\ q.at = "used" => q.token \in Tokens

Progress == \A r \in Requests : ProgressOf(req[r])

\* What has been verified or bound keeps its evidence.
Evidence ==
  /\ \A t \in Tokens : token[t].phone # None => <<token[t].openid, token[t].phone>> \in proved
  /\ \A a \in Phones : openid[a] # None => <<openid[a], a>> \in proved
  /\ \A s \in sessions : Held(s.account, s.openid)
  /\ \A t \in Tokens, a \in Names : <<t, a>> \in through => a \in lost \/ openid[a] # None

\* The openid o has a claim through token t.
ClaimOfRequest(q, t, o) == q.at \in BindAt \cup Form \cup {"used"} /\ q.token = t /\ q.by = o
Claim(t, o) ==
  \/ token[t].openid = o
  \/ \E r \in Requests : ClaimOfRequest(req[r], t, o)
  \/ \E a \in Names \ lost : <<t, a>> \in through /\ openid[a] = o

Claims ==
  /\ \A t \in Tokens, o \in Openids : Claim(t, o) => t \in issued
  /\ \A t \in Tokens, o, p \in Openids : Claim(t, o) /\ Claim(t, p) => o = p

IInv == TypeInv /\ Index /\ Progress /\ Evidence /\ Claims

-----------------------------------------------------------------------------
(* Types *)

\* Every action keeps the types, given what a request has made sure of.
LEMMA TypeStep == TypeInv /\ Progress /\ [Next]_vars => TypeInv'
<1> SUFFICES ASSUME TypeInv, Progress, [Next]_vars PROVE TypeInv'
  OBVIOUS
<1> USE DEF TypeInv, Do, Goto, Start, Finish, rows, hist, Idle, Gone, Names, Places
<1>1. ASSUME NEW r \in Requests, Authorise(r) PROVE TypeInv'
  BY <1>1, AccountsAssumption DEF Authorise
<1>2. ASSUME NEW r \in Requests, Exchange(r) PROVE TypeInv'
  BY <1>2, AccountsAssumption DEF Exchange
<1>3. ASSUME NEW r \in Requests, Recognise(r) PROVE TypeInv'
  <2>1. ProgressOf(req[r])
    BY DEF Progress
  <2> QED
    BY <1>3, <2>1, AccountsAssumption
       DEF Recognise, Holders, ProgressOf, Anonymous, Form, BindAt, Held
<1>4. ASSUME NEW r \in Requests, IssueToken(r) PROVE TypeInv'
  <2>1. ProgressOf(req[r])
    BY DEF Progress
  <2> QED
    BY <1>4, <2>1, AccountsAssumption
       DEF IssueToken, ProgressOf, Anonymous, Form, BindAt, Held
<1>5. ASSUME NEW r \in Requests, VerifyCode(r) PROVE TypeInv'
  BY <1>5, AccountsAssumption DEF VerifyCode
<1>6. ASSUME NEW r \in Requests, FindUser(r) PROVE TypeInv'
  BY <1>6, AccountsAssumption DEF FindUser
<1>7. ASSUME NEW r \in Requests, Bind(r) PROVE TypeInv'
  <2>1. ProgressOf(req[r])
    BY DEF Progress
  <2> QED
    BY <1>7, <2>1, AccountsAssumption
       DEF Bind, Holders, ProgressOf, Anonymous, Form, BindAt, Held
<1>8. ASSUME NEW r \in Requests, KeepPhone(r) PROVE TypeInv'
  <2>1. ProgressOf(req[r])
    BY DEF Progress
  <2> QED
    BY <1>8, <2>1, AccountsAssumption
       DEF KeepPhone, ProgressOf, Anonymous, Form, BindAt, Held
<1>9. ASSUME NEW r \in Requests, Use(r) PROVE TypeInv'
  <2>1. ProgressOf(req[r])
    BY DEF Progress
  <2> QED
    BY <1>9, <2>1, AccountsAssumption DEF Use, ProgressOf, Anonymous, Form, BindAt, Held
<1>10. ASSUME NEW r \in Requests, CheckUnique(r) PROVE TypeInv'
  BY <1>10, AccountsAssumption DEF CheckUnique
<1>11. ASSUME NEW r \in Requests, InsertUser(r) PROVE TypeInv'
  <2>1. ProgressOf(req[r])
    BY DEF Progress
  <2> QED
    BY <1>11, <2>1, AccountsAssumption
       DEF InsertUser, Insert, ProgressOf, Anonymous, Form, BindAt, Held
<1>12. ASSUME NEW r \in Requests, FindScanner(r) PROVE TypeInv'
  BY <1>12, AccountsAssumption DEF FindScanner, Holders
<1>13. ASSUME NEW r \in Requests, RegisterScanner(r) PROVE TypeInv'
  <2>1. ProgressOf(req[r])
    BY DEF Progress
  <2> QED
    BY <1>13, <2>1, AccountsAssumption
       DEF RegisterScanner, Insert, ProgressOf, Anonymous, Form, BindAt, Held
<1>14. ASSUME NEW r \in Requests, AnswerScene(r) PROVE TypeInv'
  <2>1. ProgressOf(req[r])
    BY DEF Progress
  <2> QED
    BY <1>14, <2>1, AccountsAssumption
       DEF AnswerScene, ProgressOf, Anonymous, Form, BindAt, Held
<1>15. ASSUME NEW r \in Requests, Crash(r) PROVE TypeInv'
  BY <1>15, AccountsAssumption DEF Crash
<1>16. ASSUME NEW r \in Requests, NEW p \in Phones, BeginRegister(r, p) PROVE TypeInv'
  BY <1>16, AccountsAssumption DEF BeginRegister
<1>17. ASSUME NEW r \in Requests, NEW t \in Tokens, NEW p \in Phones, BeginBind(r, t, p)
       PROVE  TypeInv'
  BY <1>17, AccountsAssumption DEF BeginBind
<1>18. ASSUME NEW r \in Requests, NEW t \in Tokens, NEW p \in Phones, BeginComplete(r, t, p)
       PROVE  TypeInv'
  <2>1. token[t].phone = p /\ token[t] # Gone /\ token[t].openid \in Openids
    BY <1>18, AccountsAssumption DEF BeginComplete, Verified
  <2> QED
    BY <1>18, <2>1 DEF BeginComplete
<1>19. ASSUME NEW r \in Requests, NEW s \in Scenes, NEW o \in Openids, BeginScan(r, s, o)
       PROVE  TypeInv'
  BY <1>19, AccountsAssumption DEF BeginScan
<1>20. ASSUME NEW t \in Tokens, TokenExpires(t) PROVE TypeInv'
  BY <1>20, AccountsAssumption DEF TokenExpires
<1>21. ASSUME NEW s \in Scenes, ShowCode(s) PROVE TypeInv'
  BY <1>21, AccountsAssumption DEF ShowCode
<1>22. ASSUME NEW s \in Scenes, SceneExpires(s) PROVE TypeInv'
  BY <1>22, AccountsAssumption DEF SceneExpires
<1>23. CASE UNCHANGED vars
  BY <1>23 DEF vars
<1> QED
  BY <1>1, <1>2, <1>3, <1>4, <1>5, <1>6, <1>7, <1>8, <1>9, <1>10, <1>11, <1>12, <1>13,
     <1>14, <1>15, <1>16, <1>17, <1>18, <1>19, <1>20, <1>21, <1>22, <1>23
     DEF Next, Run

-----------------------------------------------------------------------------
(* The rows *)

\* Only a bind, a registration and a scan write rows.
Writes(r) == Bind(r) \/ InsertUser(r) \/ RegisterScanner(r)

LEMMA OthersKeepRows ==
  ASSUME [Next]_vars, \A r \in Requests : ~Writes(r)
  PROVE  UNCHANGED <<accounts, openid, through, lost>>
<1> QED
  BY DEF Next, Run, Writes, vars, rows, hist, Authorise, Exchange, Recognise,
         IssueToken, VerifyCode, FindUser, KeepPhone, Use, CheckUnique, FindScanner,
         AnswerScene, Crash, BeginRegister, BeginBind, BeginComplete, BeginScan,
         TokenExpires, ShowCode, SceneExpires

\* The unique index stays unique: it is what the three writes ask.
LEMMA IndexStep == IInv /\ [Next]_vars => Index'
<1> SUFFICES ASSUME IInv, [Next]_vars PROVE Index'
  OBVIOUS
<1> USE DEF IInv, TypeInv
<1>1. ASSUME NEW r \in Requests, Bind(r) PROVE Index'
  <2>1. ProgressOf(req[r]) /\ req[r].at = "bind"
    BY <1>1 DEF Progress, Bind, Do
  <2>2. req[r].account \in accounts /\ req[r].account \in Names /\ req[r].by \in Openids
    BY <2>1 DEF ProgressOf, BindAt, Anonymous, Form
  <2> QED
    BY <1>1, <2>2 DEF Bind, Index, Holders
<1>2. ASSUME NEW r \in Requests, InsertUser(r) PROVE Index'
  <2>1. ProgressOf(req[r]) /\ req[r].at = "insert"
    BY <1>2 DEF Progress, InsertUser, Do
  <2>2. req[r].account \in Names
    BY <2>1 DEF ProgressOf, Form, Names
  <2> QED
    BY <1>2, <2>2 DEF InsertUser, Unique, Insert, Index, Holders
<1>3. ASSUME NEW r \in Requests, RegisterScanner(r) PROVE Index'
  <2>1. ProgressOf(req[r]) /\ req[r].at = "silent"
    BY <1>3 DEF Progress, RegisterScanner, Do
  <2>2. req[r].by \in Names /\ req[r].by \in Openids
    BY <2>1 DEF ProgressOf, Form, Anonymous, Names
  <2> QED
    BY <1>3, <2>2 DEF RegisterScanner, Unique, Insert, Index, Holders
<1>4. CASE \A r \in Requests : ~Writes(r)
  BY <1>4, OthersKeepRows DEF Index
<1> QED
  BY <1>1, <1>2, <1>3, <1>4 DEF Writes

\* What a request relies on once it has made sure of it is not taken back.
Grows ==
  /\ accounts \subseteq accounts' /\ proved \subseteq proved' /\ lost \subseteq lost'
  /\ \A a \in Names : openid[a] # None => openid'[a] # None
  /\ \A a \in Names, o \in Openids : Held(a, o) => Held(a, o)'

LEMMA ProvedGrows == [Next]_vars => proved \subseteq proved'
<1> QED
  BY DEF Next, Run, vars, rows, hist, Authorise, Exchange, Recognise, IssueToken,
         VerifyCode, FindUser, Bind, KeepPhone, Use, CheckUnique, InsertUser,
         FindScanner, RegisterScanner, AnswerScene, Crash, BeginRegister, BeginBind,
         BeginComplete, BeginScan, TokenExpires, ShowCode, SceneExpires

LEMMA Growth == IInv /\ [Next]_vars => Grows
<1> SUFFICES ASSUME IInv, [Next]_vars PROVE Grows
  OBVIOUS
<1> USE ProvedGrows DEF IInv, TypeInv, Grows, Held
<1>1. ASSUME NEW r \in Requests, Bind(r) PROVE Grows
  <2>1. ProgressOf(req[r]) /\ req[r].at = "bind"
    BY <1>1 DEF Progress, Bind, Do
  <2>2. /\ req[r].account \in Names /\ req[r].by \in Openids
        /\ req[r].saw \in {None, req[r].by}
    BY <2>1 DEF ProgressOf, BindAt, Anonymous, Form, Names
  <2> QED
    BY <1>1, <2>2, AccountsAssumption DEF Bind, rows
<1>2. ASSUME NEW r \in Requests, InsertUser(r) PROVE Grows
  BY <1>2, AccountsAssumption DEF InsertUser, Unique, Insert, Index
<1>3. ASSUME NEW r \in Requests, RegisterScanner(r) PROVE Grows
  BY <1>3, AccountsAssumption DEF RegisterScanner, Unique, Insert, Index, hist
<1>4. CASE \A r \in Requests : ~Writes(r)
  BY <1>4, OthersKeepRows
<1> QED
  BY <1>1, <1>2, <1>3, <1>4 DEF Writes

-----------------------------------------------------------------------------
(* The requests *)

\* A request that does nothing loses nothing.
LEMMA ProgressKept ==
  ASSUME IInv, Grows, NEW r \in Requests, req'[r] = req[r]
  PROVE  ProgressOf(req[r])'
<1>1. ProgressOf(req[r]) /\ req[r].by \in Openids \cup {None} /\ req[r].account \in Names \cup {None}
  BY DEF IInv, TypeInv, Progress
<1> QED
  BY <1>1 DEF ProgressOf, Grows, Held, BindAt, Anonymous, Form, Names

LEMMA ProgressIdle ==
  ASSUME NEW r \in Requests, req'[r] = Idle
  PROVE  ProgressOf(req[r])'
<1> QED
  BY DEF ProgressOf, Idle, BindAt, Anonymous, Form

LEMMA OneRequest ==
  ASSUME IInv, Grows, NEW r \in Requests, \A q \in Requests \ {r} : req'[q] = req[q],
         ProgressOf(req[r])'
  PROVE  Progress'
<1> SUFFICES ASSUME NEW q \in Requests PROVE ProgressOf(req[q])'
  BY DEF Progress
<1> QED
  BY ProgressKept

\* Every step of a request finds what it needs and leaves what the next one needs.
LEMMA ProgressStep == IInv /\ [Next]_vars => Progress'
<1> SUFFICES ASSUME IInv, [Next]_vars PROVE Progress'
  OBVIOUS
<1>0. Grows
  BY Growth
<1> USE DEF IInv, TypeInv, Do, Goto, Start, Finish
<1>1. ASSUME NEW r \in Requests, Authorise(r) PROVE Progress'
  <2>1. ProgressOf(req[r])
    BY DEF Progress
  <2>2. ProgressOf(req[r])'
    BY <1>1, <2>1, <1>0, AccountsAssumption
    DEF Authorise, ProgressOf, Idle, Gone, Names, BindAt, Anonymous, Form, Places, rows,
        hist
  <2> QED
    BY <1>1, <1>0, <2>2, OneRequest DEF Authorise
<1>2. ASSUME NEW r \in Requests, Exchange(r) PROVE Progress'
  <2>1. ProgressOf(req[r])
    BY DEF Progress
  <2>2. ProgressOf(req[r])'
    BY <1>2, <2>1, <1>0, AccountsAssumption
    DEF Exchange, ProgressOf, Idle, Gone, Names, BindAt, Anonymous, Form, Places, rows,
        hist
  <2> QED
    BY <1>2, <1>0, <2>2, OneRequest DEF Exchange
<1>3. ASSUME NEW r \in Requests, Recognise(r) PROVE Progress'
  <2>1. ProgressOf(req[r])
    BY DEF Progress
  <2>2. ProgressOf(req[r])'
    BY <1>3, <2>1, <1>0, AccountsAssumption
    DEF Recognise, ProgressOf, Idle, Gone, Names, BindAt, Anonymous, Form, Places, rows,
        hist
  <2> QED
    BY <1>3, <1>0, <2>2, OneRequest DEF Recognise
<1>4. ASSUME NEW r \in Requests, IssueToken(r) PROVE Progress'
  <2>1. ProgressOf(req[r])
    BY DEF Progress
  <2>2. ProgressOf(req[r])'
    BY <1>4, <2>1, <1>0, AccountsAssumption
    DEF IssueToken, ProgressOf, Idle, Gone, Names, BindAt, Anonymous, Form, Places,
        rows, hist
  <2> QED
    BY <1>4, <1>0, <2>2, OneRequest DEF IssueToken
<1>5. ASSUME NEW r \in Requests, VerifyCode(r) PROVE Progress'
  <2>1. ProgressOf(req[r])
    BY DEF Progress
  <2>2. ProgressOf(req[r])'
    BY <1>5, <2>1, <1>0, AccountsAssumption
    DEF VerifyCode, ProgressOf, Idle, Gone, Names, BindAt, Anonymous, Form, Places,
        rows, hist
  <2> QED
    BY <1>5, <1>0, <2>2, OneRequest DEF VerifyCode
<1>6. ASSUME NEW r \in Requests, FindUser(r) PROVE Progress'
  <2>1. ProgressOf(req[r])
    BY DEF Progress
  <2>2. ProgressOf(req[r])'
    BY <1>6, <2>1, <1>0, AccountsAssumption
    DEF FindUser, Bindable, Held, ProgressOf, Idle, Gone, Names, BindAt, Anonymous,
        Form, Places, rows, hist
  <2> QED
    BY <1>6, <1>0, <2>2, OneRequest DEF FindUser
<1>7. ASSUME NEW r \in Requests, Bind(r) PROVE Progress'
  <2>1. ProgressOf(req[r])
    BY DEF Progress
  <2>2. ProgressOf(req[r])'
    BY <1>7, <2>1, <1>0, AccountsAssumption
    DEF Bind, Holders, Held, ProgressOf, Idle, Gone, Names, BindAt, Anonymous, Form,
        Places, rows, hist
  <2> QED
    BY <1>7, <1>0, <2>2, OneRequest DEF Bind
<1>8. ASSUME NEW r \in Requests, KeepPhone(r) PROVE Progress'
  <2>1. ProgressOf(req[r])
    BY DEF Progress
  <2>2. ProgressOf(req[r])'
    BY <1>8, <2>1, <1>0, AccountsAssumption
    DEF KeepPhone, ProgressOf, Idle, Gone, Names, BindAt, Anonymous, Form, Places, rows,
        hist
  <2> QED
    BY <1>8, <1>0, <2>2, OneRequest DEF KeepPhone
<1>9. ASSUME NEW r \in Requests, Use(r) PROVE Progress'
  <2>1. ProgressOf(req[r])
    BY DEF Progress
  <2>2. ProgressOf(req[r])'
    BY <1>9, <2>1, <1>0, AccountsAssumption
    DEF Use, ProgressOf, Idle, Gone, Names, BindAt, Anonymous, Form, Places, rows, hist
  <2> QED
    BY <1>9, <1>0, <2>2, OneRequest DEF Use
<1>10. ASSUME NEW r \in Requests, CheckUnique(r) PROVE Progress'
  <2>1. ProgressOf(req[r])
    BY DEF Progress
  <2>2. ProgressOf(req[r])'
    BY <1>10, <2>1, <1>0, AccountsAssumption
    DEF CheckUnique, ProgressOf, Idle, Gone, Names, BindAt, Anonymous, Form, Places,
        rows, hist
  <2> QED
    BY <1>10, <1>0, <2>2, OneRequest DEF CheckUnique
<1>11. ASSUME NEW r \in Requests, InsertUser(r) PROVE Progress'
  <2>1. ProgressOf(req[r])
    BY DEF Progress
  <2>2. ProgressOf(req[r])'
    BY <1>11, <2>1, <1>0, AccountsAssumption
    DEF InsertUser, Unique, Insert, Held, ProgressOf, Idle, Gone, Names, BindAt,
        Anonymous, Form, Places, rows, hist
  <2> QED
    BY <1>11, <1>0, <2>2, OneRequest DEF InsertUser
<1>12. ASSUME NEW r \in Requests, FindScanner(r) PROVE Progress'
  <2>1. ProgressOf(req[r])
    BY DEF Progress
  <2>2. ProgressOf(req[r])'
    BY <1>12, <2>1, <1>0, AccountsAssumption
    DEF FindScanner, Holders, Held, ProgressOf, Idle, Gone, Names, BindAt, Anonymous,
        Form, Places, rows, hist
  <2> QED
    BY <1>12, <1>0, <2>2, OneRequest DEF FindScanner
<1>13. ASSUME NEW r \in Requests, RegisterScanner(r) PROVE Progress'
  <2>1. ProgressOf(req[r])
    BY DEF Progress
  <2>2. ProgressOf(req[r])'
    BY <1>13, <2>1, <1>0, AccountsAssumption
    DEF RegisterScanner, Unique, Insert, Held, ProgressOf, Idle, Gone, Names, BindAt,
        Anonymous, Form, Places, rows, hist
  <2> QED
    BY <1>13, <1>0, <2>2, OneRequest DEF RegisterScanner
<1>14. ASSUME NEW r \in Requests, AnswerScene(r) PROVE Progress'
  <2>1. ProgressOf(req[r])
    BY DEF Progress
  <2>2. ProgressOf(req[r])'
    BY <1>14, <2>1, <1>0, AccountsAssumption
    DEF AnswerScene, ProgressOf, Idle, Gone, Names, BindAt, Anonymous, Form, Places,
        rows, hist
  <2> QED
    BY <1>14, <1>0, <2>2, OneRequest DEF AnswerScene
<1>15. ASSUME NEW r \in Requests, Crash(r) PROVE Progress'
  <2>1. ProgressOf(req[r])
    BY DEF Progress
  <2>2. ProgressOf(req[r])'
    BY <1>15, <2>1, <1>0, AccountsAssumption
    DEF Crash, ProgressOf, Idle, Gone, Names, BindAt, Anonymous, Form, Places, rows,
        hist
  <2> QED
    BY <1>15, <1>0, <2>2, OneRequest DEF Crash
<1>16. ASSUME NEW r \in Requests, NEW p \in Phones, BeginRegister(r, p) PROVE Progress'
  <2>1. ProgressOf(req[r])
    BY DEF Progress
  <2>2. ProgressOf(req[r])'
    BY <1>16, <2>1, <1>0, AccountsAssumption
    DEF BeginRegister, ProgressOf, Idle, Gone, Names, BindAt, Anonymous, Form, Places,
        rows, hist
  <2> QED
    BY <1>16, <1>0, <2>2, OneRequest DEF BeginRegister
<1>17. ASSUME NEW r \in Requests, NEW t \in Tokens, NEW p \in Phones, BeginBind(r, t, p)
       PROVE  Progress'
  <2>1. ProgressOf(req[r])
    BY DEF Progress
  <2>2. ProgressOf(req[r])'
    BY <1>17, <2>1, <1>0, AccountsAssumption
    DEF BeginBind, ProgressOf, Idle, Gone, Names, BindAt, Anonymous, Form, Places, rows,
        hist
  <2> QED
    BY <1>17, <1>0, <2>2, OneRequest DEF BeginBind
<1>18. ASSUME NEW r \in Requests, NEW t \in Tokens, NEW p \in Phones, BeginComplete(r, t, p)
       PROVE  Progress'
  <2>1. ProgressOf(req[r])
    BY DEF Progress
  <2>2. ProgressOf(req[r])'
    BY <1>18, <2>1, <1>0, AccountsAssumption
    DEF BeginComplete, Verified, Evidence, ProgressOf, Idle, Gone, Names, BindAt,
        Anonymous, Form, Places, rows, hist
  <2> QED
    BY <1>18, <1>0, <2>2, OneRequest DEF BeginComplete
<1>19. ASSUME NEW r \in Requests, NEW s \in Scenes, NEW o \in Openids, BeginScan(r, s, o)
       PROVE  Progress'
  <2>1. ProgressOf(req[r])
    BY DEF Progress
  <2>2. ProgressOf(req[r])'
    BY <1>19, <2>1, <1>0, AccountsAssumption
    DEF BeginScan, ProgressOf, Idle, Gone, Names, BindAt, Anonymous, Form, Places, rows,
        hist
  <2> QED
    BY <1>19, <1>0, <2>2, OneRequest DEF BeginScan
<1>20. ASSUME NEW t \in Tokens, TokenExpires(t) PROVE Progress'
  BY <1>20, <1>0, ProgressKept DEF TokenExpires, Progress
<1>21. ASSUME NEW s \in Scenes, ShowCode(s) PROVE Progress'
  BY <1>21, <1>0, ProgressKept DEF ShowCode, Progress
<1>22. ASSUME NEW s \in Scenes, SceneExpires(s) PROVE Progress'
  BY <1>22, <1>0, ProgressKept DEF SceneExpires, Progress
<1>23. CASE UNCHANGED vars
  BY <1>23, <1>0, ProgressKept DEF vars, Progress
<1> QED
  BY <1>1, <1>2, <1>3, <1>4, <1>5, <1>6, <1>7, <1>8, <1>9, <1>10, <1>11, <1>12, <1>13,
     <1>14, <1>15, <1>16, <1>17, <1>18, <1>19, <1>20, <1>21, <1>22, <1>23
     DEF Next, Run

-----------------------------------------------------------------------------
(* What is kept of the past *)

\* Verified phones, bound accounts and sessions keep their evidence.
LEMMA EvidenceStep == IInv /\ [Next]_vars => Evidence'
<1> SUFFICES ASSUME IInv, [Next]_vars PROVE Evidence'
  OBVIOUS
<1>0. Grows
  BY Growth
<1> USE DEF IInv, TypeInv
<1>1. \A t \in Tokens : token'[t].phone # None => <<token'[t].openid, token'[t].phone>> \in proved'
  <2> SUFFICES \A t \in Tokens : token'[t].phone # None => <<token'[t].openid, token'[t].phone>> \in proved
    BY <1>0 DEF Grows
  <2>1. ASSUME NEW r \in Requests, KeepPhone(r)
        PROVE  \A t \in Tokens : token'[t].phone # None => <<token'[t].openid, token'[t].phone>> \in proved
    <3>1. ProgressOf(req[r])
      BY DEF Progress
    <3> QED
      BY <2>1, <3>1 DEF KeepPhone, Do, ProgressOf, BindAt, Evidence
  <2>2. ASSUME NEW t \in Tokens, token' \in {[token EXCEPT ![t] = Gone]} \cup
                 {[token EXCEPT ![t] = [openid |-> o, phone |-> None]] : o \in Openids \cup {None}}
        PROVE  \A u \in Tokens : token'[u].phone # None => <<token'[u].openid, token'[u].phone>> \in proved
    BY <2>2 DEF Evidence, Gone
  <2>3. ASSUME NEW r \in Requests, IssueToken(r) \/ Use(r)
        PROVE  \E t \in Tokens : token' \in {[token EXCEPT ![t] = Gone]} \cup
                 {[token EXCEPT ![t] = [openid |-> o, phone |-> None]] : o \in Openids \cup {None}}
    <3>1. ProgressOf(req[r]) /\ req[r].by \in Openids \cup {None}
      BY DEF Progress
    <3> QED
      BY <2>3, <3>1 DEF IssueToken, Use, Do, ProgressOf
  <2>4. ASSUME NEW t \in Tokens, TokenExpires(t)
        PROVE  token' \in {[token EXCEPT ![t] = Gone]}
    BY <2>4 DEF TokenExpires
  <2>5. CASE UNCHANGED token
    BY <2>5 DEF Evidence
  <2>6. UNCHANGED token \/ (\E t \in Tokens : TokenExpires(t))
          \/ \E r \in Requests : KeepPhone(r) \/ IssueToken(r) \/ Use(r)
    BY DEF Next, Run, vars, Authorise, Exchange, Recognise, VerifyCode, FindUser, Bind,
           CheckUnique, InsertUser, FindScanner, RegisterScanner, AnswerScene, Crash,
           BeginRegister, BeginBind, BeginComplete, BeginScan, ShowCode, SceneExpires
  <2> QED
    BY <2>1, <2>2, <2>3, <2>4, <2>5, <2>6
<1>2. \A a \in Phones : openid'[a] # None => <<openid'[a], a>> \in proved'
  <2>1. ASSUME NEW r \in Requests, Bind(r)
        PROVE  \A a \in Phones : openid'[a] # None => <<openid'[a], a>> \in proved
    <3>1. ProgressOf(req[r])
      BY DEF Progress
    <3> QED
      BY <2>1, <3>1 DEF Bind, Do, ProgressOf, BindAt, Evidence, Names
  <2>2. ASSUME NEW r \in Requests, InsertUser(r)
        PROVE  \A a \in Phones : openid'[a] # None => <<openid'[a], a>> \in proved
    <3>1. ProgressOf(req[r])
      BY DEF Progress
    <3> QED
      BY <2>2, <3>1 DEF InsertUser, Insert, Do, ProgressOf, Form, Evidence, Names
  <2>3. ASSUME NEW r \in Requests, RegisterScanner(r)
        PROVE  \A a \in Phones : openid'[a] # None => <<openid'[a], a>> \in proved
    <3>1. ProgressOf(req[r])
      BY DEF Progress
    <3> QED
      BY <2>3, <3>1, AccountsAssumption
      DEF RegisterScanner, Insert, Do, ProgressOf, Form, Anonymous, Evidence, Names
  <2>4. CASE \A r \in Requests : ~Writes(r)
    BY <2>4, <1>0, OthersKeepRows DEF Evidence, Grows
  <2> QED
    BY <1>0, <2>1, <2>2, <2>3, <2>4 DEF Writes, Grows
<1>3. \A s \in sessions' : Held(s.account, s.openid)'
  <2>1. ASSUME NEW s \in sessions PROVE Held(s.account, s.openid)'
    BY <1>0, <2>1 DEF Grows, Evidence
  <2>2. ASSUME NEW r \in Requests, Recognise(r), NEW s \in sessions' \ sessions
        PROVE  Held(s.account, s.openid)'
    <3>1. ProgressOf(req[r]) /\ UNCHANGED <<openid, lost>>
      BY <2>2 DEF Progress, Recognise, rows, hist
    <3> QED
      BY <2>2, <3>1 DEF Recognise, Do, ProgressOf, Held, Holders
  <2>3. ASSUME NEW r \in Requests, Use(r), NEW s \in sessions' \ sessions
        PROVE  Held(s.account, s.openid)'
    <3>1. ProgressOf(req[r]) /\ UNCHANGED <<openid, lost>>
      BY <2>3 DEF Progress, Use, rows, hist
    <3> QED
      BY <2>3, <3>1 DEF Use, Do, ProgressOf, Held
  <2>4. ASSUME NEW r \in Requests, AnswerScene(r), NEW s \in sessions' \ sessions
        PROVE  Held(s.account, s.openid)'
    <3>1. ProgressOf(req[r]) /\ UNCHANGED <<openid, lost>>
      BY <2>4 DEF Progress, AnswerScene, rows, hist
    <3> QED
      BY <2>4, <3>1 DEF AnswerScene, Do, ProgressOf, Held
  <2>5. sessions' \subseteq sessions \/ \E r \in Requests : Recognise(r) \/ Use(r) \/ AnswerScene(r)
    BY DEF Next, Run, vars, Authorise, Exchange, IssueToken, VerifyCode, FindUser, Bind,
           KeepPhone, CheckUnique, InsertUser, FindScanner, RegisterScanner, Crash,
           BeginRegister, BeginBind, BeginComplete, BeginScan, TokenExpires, ShowCode,
           SceneExpires
  <2> QED
    BY <2>1, <2>2, <2>3, <2>4, <2>5
<1>4. \A t \in Tokens, a \in Names : <<t, a>> \in through' => a \in lost' \/ openid'[a] # None
  <2>1. ASSUME NEW t \in Tokens, NEW a \in Names, <<t, a>> \in through
        PROVE  a \in lost' \/ openid'[a] # None
    BY <1>0, <2>1 DEF Grows, Evidence
  <2>2. ASSUME NEW r \in Requests, Bind(r), NEW t \in Tokens, NEW a \in Names,
               <<t, a>> \in through', <<t, a>> \notin through
        PROVE  a \in lost' \/ openid'[a] # None
    <3>1. ProgressOf(req[r])
      BY DEF Progress
    <3> QED
      BY <2>2, <3>1, AccountsAssumption
         DEF Bind, Do, ProgressOf, BindAt, Anonymous, Form, Held, Names
  <2>3. ASSUME NEW r \in Requests, InsertUser(r), NEW t \in Tokens, NEW a \in Names,
               <<t, a>> \in through', <<t, a>> \notin through
        PROVE  a \in lost' \/ openid'[a] # None
    BY <2>3 DEF InsertUser, Insert, Names
  <2>4. ASSUME NEW r \in Requests, RegisterScanner(r) PROVE UNCHANGED through
    BY <2>4 DEF RegisterScanner, hist
  <2> QED
    BY <2>1, <2>2, <2>3, <2>4, OthersKeepRows DEF Writes
<1> QED
  BY <1>1, <1>2, <1>3, <1>4 DEF Evidence

-----------------------------------------------------------------------------
(* Claims *)

\* A claim of a request comes from a request or from the token it has read.
LEMMA RequestClaims ==
  ASSUME IInv, [Next]_vars, NEW q \in Requests, NEW u \in Tokens, NEW y \in Openids,
         ClaimOfRequest(req'[q], u, y)
  PROVE  Claim(u, y)
<1> USE DEF IInv, TypeInv, Goto, Start, Finish, Do, ClaimOfRequest, BindAt, Form, Claim
<1>1. ASSUME NEW r \in Requests, Authorise(r) PROVE Claim(u, y)
  BY <1>1, AccountsAssumption DEF Authorise, Idle
<1>2. ASSUME NEW r \in Requests, Exchange(r) PROVE Claim(u, y)
  <2>1. CASE q # r
    BY <1>2, <2>1 DEF Exchange
  <2>2. CASE q = r
    BY <1>2, <2>2, AccountsAssumption DEF Exchange, Idle
  <2> QED
    BY <2>1, <2>2
<1>3. ASSUME NEW r \in Requests, Recognise(r) PROVE Claim(u, y)
  BY <1>3, AccountsAssumption DEF Recognise, Idle
<1>4. ASSUME NEW r \in Requests, IssueToken(r) PROVE Claim(u, y)
  BY <1>4, AccountsAssumption DEF IssueToken, Idle
<1>5. ASSUME NEW r \in Requests, VerifyCode(r) PROVE Claim(u, y)
  BY <1>5, AccountsAssumption DEF VerifyCode, Idle
<1>6. ASSUME NEW r \in Requests, FindUser(r) PROVE Claim(u, y)
  <2>1. CASE q # r
    BY <1>6, <2>1 DEF FindUser
  <2>2. CASE q = r
    BY <1>6, <2>2, AccountsAssumption DEF FindUser, Idle
  <2> QED
    BY <2>1, <2>2
<1>7. ASSUME NEW r \in Requests, Bind(r) PROVE Claim(u, y)
  BY <1>7, AccountsAssumption DEF Bind, Idle
<1>8. ASSUME NEW r \in Requests, KeepPhone(r) PROVE Claim(u, y)
  BY <1>8, AccountsAssumption DEF KeepPhone, Idle
<1>9. ASSUME NEW r \in Requests, Use(r) PROVE Claim(u, y)
  BY <1>9, AccountsAssumption DEF Use, Idle
<1>10. ASSUME NEW r \in Requests, CheckUnique(r) PROVE Claim(u, y)
  <2>1. CASE q # r
    BY <1>10, <2>1 DEF CheckUnique
  <2>2. CASE q = r
    BY <1>10, <2>2, AccountsAssumption DEF CheckUnique, Idle
  <2> QED
    BY <2>1, <2>2
<1>11. ASSUME NEW r \in Requests, InsertUser(r) PROVE Claim(u, y)
  BY <1>11, AccountsAssumption DEF InsertUser, Idle
<1>12. ASSUME NEW r \in Requests, FindScanner(r) PROVE Claim(u, y)
  BY <1>12, AccountsAssumption DEF FindScanner, Idle
<1>13. ASSUME NEW r \in Requests, RegisterScanner(r) PROVE Claim(u, y)
  <2>1. CASE q # r
    BY <1>13, <2>1 DEF RegisterScanner
  <2>2. CASE q = r
    BY <1>13, <2>2, AccountsAssumption DEF RegisterScanner, Idle
  <2> QED
    BY <2>1, <2>2
<1>14. ASSUME NEW r \in Requests, AnswerScene(r) PROVE Claim(u, y)
  BY <1>14, AccountsAssumption DEF AnswerScene, Idle
<1>15. ASSUME NEW r \in Requests, Crash(r) PROVE Claim(u, y)
  BY <1>15, AccountsAssumption DEF Crash, Idle
<1>16. ASSUME NEW r \in Requests, NEW p \in Phones, BeginRegister(r, p) PROVE Claim(u, y)
  BY <1>16, AccountsAssumption DEF BeginRegister, Idle
<1>17. ASSUME NEW r \in Requests, NEW t \in Tokens, NEW p \in Phones, BeginBind(r, t, p)
       PROVE  Claim(u, y)
  BY <1>17, AccountsAssumption DEF BeginBind, Idle
<1>18. ASSUME NEW r \in Requests, NEW t \in Tokens, NEW p \in Phones, BeginComplete(r, t, p)
       PROVE  Claim(u, y)
  BY <1>18, AccountsAssumption DEF BeginComplete, Idle, Verified
<1>19. ASSUME NEW r \in Requests, NEW s \in Scenes, NEW o \in Openids, BeginScan(r, s, o)
       PROVE  Claim(u, y)
  BY <1>19, AccountsAssumption DEF BeginScan, Idle
<1>20. ASSUME NEW t \in Tokens, TokenExpires(t) PROVE Claim(u, y)
  BY <1>20, AccountsAssumption DEF TokenExpires, Idle
<1>21. ASSUME NEW s \in Scenes, ShowCode(s) PROVE Claim(u, y)
  BY <1>21, AccountsAssumption DEF ShowCode, Idle
<1>22. ASSUME NEW s \in Scenes, SceneExpires(s) PROVE Claim(u, y)
  BY <1>22, AccountsAssumption DEF SceneExpires, Idle
<1>23. CASE UNCHANGED vars
  BY <1>23 DEF vars
<1> QED
  BY <1>1, <1>2, <1>3, <1>4, <1>5, <1>6, <1>7, <1>8, <1>9, <1>10, <1>11, <1>12, <1>13,
     <1>14, <1>15, <1>16, <1>17, <1>18, <1>19, <1>20, <1>21, <1>22, <1>23
     DEF Next, Run

\* The claim of an account that was bound comes from the request that bound it.
LEMMA BoundClaims ==
  ASSUME IInv, [Next]_vars, NEW a \in Names \ lost', NEW t \in Tokens, NEW o \in Openids,
         <<t, a>> \in through', openid'[a] = o
  PROVE  Claim(t, o)
<1>0. Grows
  BY Growth
<1> USE DEF IInv, TypeInv
<1>1. CASE <<t, a>> \in through
  BY <1>0, <1>1, AccountsAssumption DEF Grows, Held, Evidence, Claim
<1>2. ASSUME NEW r \in Requests, Bind(r), <<t, a>> \notin through PROVE Claim(t, o)
  <2>1. ProgressOf(req[r])
    BY DEF Progress
  <2>2. req[r].at = "bind" /\ req[r].token = t /\ req[r].account = a
    BY <1>2 DEF Bind, Do
  <2>3. req[r].by = o
    BY <1>2, <2>1, <2>2 DEF Bind, ProgressOf, BindAt, Held
  <2> QED
    BY <2>2, <2>3 DEF Claim, ClaimOfRequest, BindAt
<1>3. ASSUME NEW r \in Requests, InsertUser(r), <<t, a>> \notin through PROVE Claim(t, o)
  <2>1. req[r].at = "insert" /\ req[r].token = t /\ req[r].account = a /\ req[r].by = o
    BY <1>3 DEF InsertUser, Insert, Do
  <2> QED
    BY <2>1 DEF Claim, ClaimOfRequest, Form
<1>4. ASSUME NEW r \in Requests, RegisterScanner(r) PROVE UNCHANGED through
  BY <1>4 DEF RegisterScanner, hist
<1> QED
  BY <1>1, <1>2, <1>3, <1>4, OthersKeepRows DEF Writes

\* The claim of a token in Redis is an old one, but for a token that is issued.
LEMMA TokenClaims ==
  ASSUME IInv, [Next]_vars, NEW t \in Tokens, NEW o \in Openids, token'[t].openid = o
  PROVE  Claim(t, o) \/ t \in issued' \ issued
<1> USE DEF IInv, TypeInv
<1>1. ASSUME NEW r \in Requests, KeepPhone(r) PROVE Claim(t, o)
  BY <1>1 DEF KeepPhone, Do, Claim, ClaimOfRequest, BindAt
<1>2. ASSUME NEW r \in Requests, Use(r) PROVE Claim(t, o)
  BY <1>2, AccountsAssumption DEF Use, Claim, Gone
<1>3. ASSUME NEW u \in Tokens, TokenExpires(u) PROVE Claim(t, o)
  BY <1>3, AccountsAssumption DEF TokenExpires, Claim, Gone
<1>4. ASSUME NEW r \in Requests, IssueToken(r) PROVE Claim(t, o) \/ t \in issued' \ issued
  BY <1>4 DEF IssueToken, Claim
<1>5. CASE UNCHANGED token
  BY <1>5 DEF Claim
<1> QED
  BY <1>1, <1>2, <1>3, <1>4, <1>5
     DEF Next, Run, vars, Authorise, Exchange, Recognise, VerifyCode, FindUser, Bind,
         CheckUnique, InsertUser, FindScanner, RegisterScanner, AnswerScene, Crash,
         BeginRegister, BeginBind, BeginComplete, BeginScan, ShowCode, SceneExpires

\* Nobody but the openid a token was issued for comes to act through it.
LEMMA ClaimsStep == IInv /\ [Next]_vars => Claims'
<1> SUFFICES ASSUME IInv, [Next]_vars PROVE Claims'
  OBVIOUS
<1>1. issued \subseteq issued'
  BY DEF Next, Run, vars, Authorise, Exchange, Recognise, IssueToken, VerifyCode,
         FindUser, Bind, KeepPhone, Use, CheckUnique, InsertUser, FindScanner,
         RegisterScanner, AnswerScene, Crash, BeginRegister, BeginBind, BeginComplete,
         BeginScan, TokenExpires, ShowCode, SceneExpires
<1>2. ASSUME NEW t \in Tokens, NEW o \in Openids, Claim(t, o)'
      PROVE  Claim(t, o) \/ (t \in issued' \ issued /\ token'[t].openid = o)
  <2>1. CASE token'[t].openid = o
    BY <2>1, TokenClaims
  <2>2. CASE \E r \in Requests : ClaimOfRequest(req'[r], t, o)
    BY <2>2, RequestClaims
  <2>3. CASE \E a \in Names \ lost' : <<t, a>> \in through' /\ openid'[a] = o
    BY <2>3, BoundClaims
  <2> QED
    BY <1>2, <2>1, <2>2, <2>3 DEF Claim, ClaimOfRequest
<1>3. ASSUME NEW t \in Tokens, NEW o \in Openids, Claim(t, o)' PROVE t \in issued'
  BY <1>1, <1>2, <1>3 DEF IInv, Claims
<1>4. ASSUME NEW t \in Tokens, NEW o \in Openids, NEW p \in Openids, Claim(t, o)', Claim(t, p)'
      PROVE  o = p
  BY <1>2, <1>4 DEF IInv, Claims
<1> QED
  BY <1>3, <1>4 DEF Claims

-----------------------------------------------------------------------------
(* The theorems *)

LEMMA Initially == Init => IInv
<1> SUFFICES ASSUME Init PROVE IInv
  OBVIOUS
<1>1. TypeInv
  BY DEF Init, TypeInv, Names, Gone, Idle, Places
<1>2. Index /\ Progress /\ Evidence
  BY DEF Init, Index, Progress, ProgressOf, Evidence, Gone, Idle, BindAt, Form,
         Anonymous, Names
<1>3. \A t \in Tokens, o \in Openids : ~Claim(t, o)
  BY AccountsAssumption DEF Init, Claim, ClaimOfRequest, BindAt, Form, Gone, Idle
<1> QED
  BY <1>1, <1>2, <1>3 DEF IInv, Claims

\* Everything the properties rest on holds in every state.
THEOREM Invariant == Spec => []IInv
<1>1. Init => IInv
  BY Initially
<1>2. IInv /\ [Next]_vars => IInv'
  <2> SUFFICES ASSUME IInv, [Next]_vars PROVE IInv'
    OBVIOUS
  <2>1. TypeInv'
    BY TypeStep DEF IInv
  <2> QED
    BY <2>1, IndexStep, ProgressStep, EvidenceStep, ClaimsStep DEF IInv
<1> QED
  BY <1>1, <1>2, PTL DEF Spec

\* Whoever holds the account of a phone has given its code with a bind token of his
\* (bind_phone_to_wechat, complete_wechat_register).
THEOREM HolderProvedPhone == Spec => []BoundProvedPhone
<1>1. IInv => BoundProvedPhone
  BY DEF IInv, Evidence, BoundProvedPhone
<1> QED
  BY <1>1, Invariant, PTL

\* A session belongs to the account its openid holds, unless a second bind has
\* written over the first.
THEOREM SessionsAreBound == Spec => []AnsweredIsBound
<1>1. IInv => AnsweredIsBound
  BY DEF IInv, Evidence, Held, AnsweredIsBound
<1> QED
  BY <1>1, Invariant, PTL

\* One bind token makes one account, whatever becomes of it in between.
THEOREM OneAccountPerToken == Spec => []TokenBindsOnce
<1>1. IInv => TokenBindsOnce
  <2> SUFFICES ASSUME IInv, NEW t \in Tokens
               PROVE  Cardinality({a \in Names \ lost : <<t, a>> \in through}) <= 1
    BY DEF TokenBindsOnce
  <2> DEFINE Bound == {a \in Names \ lost : <<t, a>> \in through}
  <2>1. ASSUME NEW a \in Bound, NEW b \in Bound PROVE a = b
    <3>1. openid[a] \in Openids /\ openid[b] \in Openids
      BY <2>1 DEF IInv, TypeInv, Evidence
    <3>2. Claim(t, openid[a]) /\ Claim(t, openid[b])
      BY <2>1 DEF Claim
    <3>3. openid[a] = openid[b]
      BY <3>1, <3>2 DEF IInv, Claims
    <3> QED
      BY <2>1, <3>1, <3>3, AccountsAssumption DEF IInv, Index
  <2>2. Bound = {} \/ \E a \in Bound : Bound = {a}
    BY <2>1
  <2> HIDE DEF Bound
  <2>3. Cardinality({}) = 0 /\ \A a : Cardinality({a}) = 1
    BY FS_EmptySet, FS_Singleton, Zenon
  <2>4. Cardinality(Bound) = 0 \/ Cardinality(Bound) = 1
    BY <2>2, <2>3, Zenon
  <2>5. Cardinality(Bound) <= 1
    BY <2>4
  <2> QED
    BY <2>5 DEF Bound
<1> QED
  BY <1>1, Invariant, PTL
=============================================================================
