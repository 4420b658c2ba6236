--------------------------- MODULE OrderEventsProofs ---------------------------
(***************************************************************************)
(* The safety properties of Consumers and OrderEvents for any number of      *)
(* messages, requests, retries and faults.  IndexIsCurrent holds because     *)
(* messages are handled in the order in which they are published: one that   *)
(* failed or came back is not handled a second time (Spoiled), so nothing    *)
(* overtakes (InOrder).  Whatever the row says, its document is the last one *)
(* or is still to be read or published by some request (Covered), and what   *)
(* the index says is what was handled last (Follows).                        *)
(***************************************************************************)
EXTENDS OrderEvents, SequenceTheorems, TLAPS

Elems(s) == {s[i] : i \in DOMAIN s}
Distinct(s) == \A i, j \in 1 .. Len(s) : i # j => s[i] # s[j]
Sorted(s) == \A i, j \in 1 .. Len(s) : i < j => s[i] < s[j]

\* A message is in one place only, and comes back once for a fault.
Places ==
  /\ Distinct(ready) /\ holds \notin Queued
  /\ \A m \in Messages : returns[m] <= faults

\* With Redis, the deduplication key is set as soon as the handler was called; without
\* it, a message is handed out once more for every time that it came back.
RunsOf(m) ==
  IF backed
    THEN runs[m] <= 1 /\ (runs[m] = 1 <=> m \in key)
    ELSE /\ m \notin key
         /\ fate[m] = "new" => runs[m] = 0 /\ returns[m] = 0
         /\ m \in Queued => runs[m] = returns[m]
         /\ runs[m] <= 1 + returns[m]
RunsInv == /\ \A m \in Messages : RunsOf(m)
           /\ holds # NoMessage =>
                IF backed THEN runs[holds] = 1 ELSE runs[holds] = 1 + returns[holds]

\* A message that is not handled, or will not be.
Spoils(m) == \/ fate[m] \notin {"new", "queued", "handled"}
             \/ m \in Queued /\ m \in key
Spoiled == \E m \in Messages : Spoils(m)

\* Messages are published by their number.
Prefix == \E k \in 0 .. MaxMessages : \A m \in Messages : fate[m] = "new" <=> k < m

\* What is handled comes before what is held, and that before what is queued.
InOrder ==
  /\ Sorted(ready)
  /\ \A m \in Queued : holds < m
  /\ \A m, n \in Messages : fate[m] = "handled" /\ fate[n] = "queued" => m < n

LastHandled(m) == fate[m] = "handled" /\ \A n \in Messages : fate[n] = "handled" => n <= m

\* The row's document is the last one, or will be.
Covered ==
  \/ ~deleted /\ \E s \in Sessions : web[s].at \in {"index", "write", "build"}
  \/ \E s \in Sessions : web[s].at = "publish" /\ web[s].doc = Current
  \/ \E m \in Messages : Last(m) /\ doc[m] = Current
  \/ ~deleted /\ AllNew /\ index = status

\* The index has the document that was handled last, or will get another.
Follows ==
  \/ \E s \in Sessions : web[s].at \in {"build", "publish"}
  \/ \E n \in Messages : fate[n] = "queued"
  \/ \A m \in Messages : LastHandled(m) => index = doc[m]

OrderInv ==
  /\ Prefix
  /\ ~Spoiled => InOrder
  /\ ~Spoiled /\ ~leftBehind => Covered /\ Follows

IInv == TypeOK /\ Places /\ RunsInv /\ OrderInv

-----------------------------------------------------------------------------
(* Queues: their elements, once each, and in order *)

LEMMA ElemsOf ==
  ASSUME NEW s \in Seq(Messages)
  PROVE  /\ Len(s) \in Nat /\ DOMAIN s = 1 .. Len(s)
         /\ Elems(s) \subseteq Messages
         /\ \A i \in 1 .. Len(s) : s[i] \in Elems(s) /\ s[i] \in Messages
         /\ \A x \in Elems(s) : \E i \in 1 .. Len(s) : x = s[i]
BY LenProperties, ElementOfSeq DEF Elems

LEMMA AppendQueue ==
  ASSUME NEW s \in Seq(Messages), NEW m \in Messages
  PROVE  /\ Append(s, m) \in Seq(Messages)
         /\ Elems(Append(s, m)) = Elems(s) \cup {m}
         /\ Distinct(s) /\ m \notin Elems(s) => Distinct(Append(s, m))
         /\ Sorted(s) /\ (\A x \in Elems(s) : x < m) => Sorted(Append(s, m))
<1> DEFINE t == Append(s, m)
<1>1. /\ t \in Seq(Messages) /\ Len(t) = Len(s) + 1 /\ t[Len(s) + 1] = m
      /\ \A i \in 1 .. Len(s) : t[i] = s[i]
  BY AppendProperties
<1> HIDE DEF t
<1>2. Len(s) \in Nat
  BY ElemsOf
<1>3. Elems(t) = Elems(s) \cup {m}
  <2>1. Elems(t) \subseteq Elems(s) \cup {m}
    <3> SUFFICES ASSUME NEW x \in Elems(t)
                 PROVE  x \in Elems(s) \cup {m}
      OBVIOUS
    <3>1. PICK i \in 1 .. Len(t) : x = t[i]
      BY <1>1, ElemsOf
    <3> QED
      BY <1>1, <1>2, <3>1, ElemsOf
  <2>2. m \in Elems(t)
    BY <1>1, <1>2, ElemsOf
  <2>3. \A x \in Elems(s) : x \in Elems(t)
    BY <1>1, <1>2, ElemsOf
  <2> QED
    BY <2>1, <2>2, <2>3
<1>4. ASSUME Distinct(s), m \notin Elems(s)
      PROVE  Distinct(t)
  BY <1>1, <1>2, <1>4, ElemsOf DEF Distinct
<1>5. ASSUME Sorted(s), \A x \in Elems(s) : x < m
      PROVE  Sorted(t)
  BY <1>1, <1>2, <1>5, ElemsOf DEF Sorted
<1> QED
  BY <1>1, <1>3, <1>4, <1>5 DEF t

LEMMA TailQueue ==
  ASSUME NEW s \in Seq(Messages), s # <<>>
  PROVE  /\ Tail(s) \in Seq(Messages) /\ Head(s) \in Elems(s)
         /\ Elems(Tail(s)) \subseteq Elems(s) /\ Elems(s) \subseteq Elems(Tail(s)) \cup {Head(s)}
         /\ Distinct(s) => Distinct(Tail(s)) /\ Head(s) \notin Elems(Tail(s))
         /\ Sorted(s) => Sorted(Tail(s)) /\ \A x \in Elems(Tail(s)) : Head(s) < x
<1> DEFINE t == Tail(s)
<1>1. /\ t \in Seq(Messages) /\ Len(t) = Len(s) - 1
      /\ \A i \in 1 .. Len(t) : t[i] = s[i + 1]
      /\ Len(s) \in Nat \ {0} /\ Head(s) = s[1]
  BY HeadTailProperties, EmptySeq
<1> HIDE DEF t
<1>2. Head(s) \in Elems(s)
  BY <1>1, ElemsOf
<1>3. \A x \in Elems(t) : \E i \in 2 .. Len(s) : x = s[i]
  <2> SUFFICES ASSUME NEW x \in Elems(t)
               PROVE  \E i \in 2 .. Len(s) : x = s[i]
    OBVIOUS
  <2>1. PICK i \in 1 .. Len(t) : x = t[i]
    BY <1>1, ElemsOf
  <2>2. i + 1 \in 2 .. Len(s) /\ x = s[i + 1]
    BY <1>1, <2>1
  <2> QED
    BY <2>2
<1>4. Elems(t) \subseteq Elems(s)
  BY <1>1, <1>3, ElemsOf
<1>5. Elems(s) \subseteq Elems(t) \cup {Head(s)}
  <2> SUFFICES ASSUME NEW x \in Elems(s), x # Head(s)
               PROVE  x \in Elems(t)
    OBVIOUS
  <2>1. PICK i \in 1 .. Len(s) : x = s[i]
    BY ElemsOf
  <2>2. i - 1 \in 1 .. Len(t) /\ x = t[i - 1]
    BY <1>1, <2>1
  <2> QED
    BY <1>1, <2>2, ElemsOf
<1>6. ASSUME Distinct(s)
      PROVE  Distinct(t) /\ Head(s) \notin Elems(t)
  BY <1>1, <1>3, <1>6 DEF Distinct
<1>7. ASSUME Sorted(s)
      PROVE  Sorted(t) /\ \A x \in Elems(t) : Head(s) < x
  BY <1>1, <1>3, <1>7 DEF Sorted
<1> QED
  BY <1>1, <1>2, <1>4, <1>5, <1>6, <1>7 DEF t

LEMMA ReturnQueue ==
  ASSUME NEW s \in Seq(Messages), NEW m \in Messages
  PROVE  /\ <<m>> \o s \in Seq(Messages)
         /\ Elems(<<m>> \o s) = Elems(s) \cup {m}
         /\ Distinct(s) /\ m \notin Elems(s) => Distinct(<<m>> \o s)
         /\ Sorted(s) /\ (\A x \in Elems(s) : m < x) => Sorted(<<m>> \o s)
<1> DEFINE t == <<m>> \o s
<1>1. <<m>> \in Seq(Messages) /\ Len(<<m>>) = 1 /\ <<m>>[1] = m /\ Len(s) \in Nat
  BY ElemsOf
<1>2. /\ t \in Seq(Messages) /\ Len(t) = Len(s) + 1 /\ t[1] = m
      /\ \A i \in 2 .. Len(t) : t[i] = s[i - 1]
  BY <1>1, ConcatProperties
<1> HIDE DEF t
<1>3. Elems(t) \subseteq Elems(s) \cup {m}
  <2> SUFFICES ASSUME NEW x \in Elems(t), x # m
               PROVE  x \in Elems(s)
    OBVIOUS
  <2>1. PICK i \in 1 .. Len(t) : x = t[i]
    BY <1>2, ElemsOf
  <2>2. i - 1 \in 1 .. Len(s) /\ x = s[i - 1]
    BY <1>1, <1>2, <2>1
  <2> QED
    BY <2>2, ElemsOf
<1>4. m \in Elems(t)
  BY <1>1, <1>2, ElemsOf
<1>5. Elems(s) \subseteq Elems(t)
  <2> SUFFICES ASSUME NEW x \in Elems(s)
               PROVE  x \in Elems(t)
    OBVIOUS
  <2>1. PICK i \in 1 .. Len(s) : x = s[i]
    BY ElemsOf
  <2>2. i + 1 \in 2 .. Len(t) /\ i + 1 \in 1 .. Len(t) /\ x = t[i + 1]
    BY <1>1, <1>2, <2>1
  <2> QED
    BY <1>2, <2>2, ElemsOf
<1>6. t[1] = m /\ \A i \in 2 .. Len(t) : t[i] \in Elems(s)
  <2>1. \A i \in 2 .. Len(t) : i - 1 \in 1 .. Len(s)
    BY <1>1, <1>2
  <2> QED
    BY <1>2, <2>1, ElemsOf
<1>7. ASSUME Distinct(s), m \notin Elems(s)
      PROVE  Distinct(t)
  <2>1. \A i \in 2 .. Len(t) : t[i] \in Elems(s) /\ t[i] # t[1]
    BY <1>7, <1>6
  <2>2. \A i, j \in 2 .. Len(t) : i # j => t[i] # t[j]
    BY <1>1, <1>2, <1>7 DEF Distinct
  <2>3. \A i \in 1 .. Len(t) : i = 1 \/ i \in 2 .. Len(t)
    BY <1>1, <1>2
  <2> QED
    BY <2>1, <2>2, <2>3 DEF Distinct
<1>8. ASSUME Sorted(s), \A x \in Elems(s) : m < x
      PROVE  Sorted(t)
  <2>1. \A i \in 2 .. Len(t) : t[1] < t[i]
    BY <1>8, <1>6
  <2>2. \A i, j \in 2 .. Len(t) : i < j => t[i] < t[j]
    BY <1>1, <1>2, <1>8 DEF Sorted
  <2>3. \A i, j \in 1 .. Len(t) : i < j => j \in 2 .. Len(t) /\ (i = 1 \/ i \in 2 .. Len(t))
    BY <1>1, <1>2
  <2> QED
    BY <2>1, <2>2, <2>3 DEF Sorted
<1> QED
  BY <1>2, <1>3, <1>4, <1>5, <1>7, <1>8 DEF t

-----------------------------------------------------------------------------
(* Types and places *)

BrokerOK == BrokerTypeOK /\ Places

LEMMA QueuedIs == Queued = Elems(ready) /\ Queued' = Elems(ready')
BY DEF Queued, Elems

\* A step that moves no message.
LEMMA BrokerFrame ==
  ASSUME BrokerOK,
         UNCHANGED <<backed, ready, holds, key, local, retry, runs, returns, fate>>,
         kind' \in {"absent", "plain", "deadLetter"}, bound' \in BOOLEAN,
         api' \in {"down", "up", "exchange", "offline"}, con' \in {"down", "listening", "failed"},
         faults' \in 0 .. MaxFaults, faults <= faults'
  PROVE  BrokerOK'
<1>1. BrokerTypeOK'
  BY DEF BrokerOK, BrokerTypeOK, Queued
<1>2. \A m \in Messages : returns'[m] <= faults'
  BY <1>1, ConsumersAssumption DEF BrokerOK, BrokerTypeOK, Places
<1> QED
  BY <1>1, <1>2 DEF BrokerOK, Places, Queued

LEMMA FaultType ==
  ASSUME BrokerOK, Fault
  PROVE  faults' \in 0 .. MaxFaults /\ faults <= faults' /\ faults' = faults + 1
BY ConsumersAssumption DEF Fault, BrokerOK, BrokerTypeOK

LEMMA PublishOK ==
  ASSUME BrokerOK, NEW m \in Messages, Publish(m)
  PROVE  /\ BrokerOK'
         /\ \/ ready' = Append(ready, m) /\ Queued' = Queued \cup {m} /\ fate'[m] = "queued"
            \/ UNCHANGED <<ready, Queued>> /\ fate'[m] = "unsent"
         /\ \A n \in Messages \ {m} : fate'[n] = fate[n]
<1>1. /\ UNCHANGED <<connections, holds, key, local, retry, runs, returns>>
      /\ fate[m] = "new" /\ m \notin Queued /\ m # holds
  BY DEF Publish, New, BrokerOK, BrokerTypeOK
<1>2. ready \in Seq(Messages) /\ faults \in 0 .. MaxFaults
  BY DEF BrokerOK, BrokerTypeOK
<1>3. CASE ready' = Append(ready, m) /\ Decide(m, "queued") /\ UNCHANGED faults
  <2>1. ready' \in Seq(Messages) /\ Queued' = Queued \cup {m} /\ Distinct(ready')
    BY <1>1, <1>2, <1>3, AppendQueue, QueuedIs DEF BrokerOK, Places
  <2>2. fate'[m] = "queued" /\ \A n \in Messages \ {m} : fate'[n] = fate[n]
    BY <1>3 DEF Decide, BrokerOK, BrokerTypeOK
  <2>3. BrokerTypeOK'
    BY <1>1, <1>3, <2>1, <2>2 DEF BrokerOK, BrokerTypeOK, connections, Decide
  <2> QED
    BY <1>1, <1>3, <2>1, <2>2, <2>3 DEF BrokerOK, Places
<1>4. CASE UNCHANGED ready /\ Decide(m, "unsent") /\ (UNCHANGED faults \/ Fault)
  <2>1. Queued' = Queued
    BY <1>4, QueuedIs
  <2>2. fate'[m] = "unsent" /\ \A n \in Messages \ {m} : fate'[n] = fate[n]
    BY <1>4 DEF Decide, BrokerOK, BrokerTypeOK
  <2>3. faults' \in 0 .. MaxFaults /\ faults <= faults'
    BY <1>2, <1>4, FaultType, ConsumersAssumption
  <2>4. BrokerTypeOK'
    BY <1>1, <1>4, <2>1, <2>2, <2>3 DEF BrokerOK, BrokerTypeOK, connections, Decide
  <2>5. Places'
    BY <1>1, <1>4, <2>1, <2>3, ConsumersAssumption DEF BrokerOK, BrokerTypeOK, Places
  <2> QED
    BY <1>4, <2>1, <2>2, <2>4, <2>5 DEF BrokerOK
<1> QED
  BY <1>3, <1>4 DEF Publish

LEMMA DeliverOK ==
  ASSUME BrokerOK, Deliver
  PROVE  /\ BrokerOK' /\ holds = NoMessage
         /\ Head(ready) \in Queued /\ Queued' = Queued \ {Head(ready)}
         /\ ready' = Tail(ready) /\ ready # <<>>
<1> DEFINE m == Head(ready)
<1>1. /\ holds = NoMessage /\ ready # <<>> /\ ready' = Tail(ready)
      /\ UNCHANGED <<connections, retry, returns, faults>>
      /\ \/ /\ Decide(m, "skipped") /\ local' = local \cup {m}
            /\ UNCHANGED <<holds, key, runs>>
         \/ /\ holds' = m /\ key' = KeysAfter(m) /\ runs' = [runs EXCEPT ![m] = @ + 1]
            /\ UNCHANGED <<local, fate>>
  BY DEF Deliver
<1>2. /\ ready' \in Seq(Messages) /\ Distinct(ready')
      /\ m \in Queued /\ Queued' = Queued \ {m}
  BY <1>1, TailQueue, QueuedIs DEF BrokerOK, BrokerTypeOK, Places
<1>3. m \in Messages /\ NoMessage \notin Messages
  BY <1>2, QueuedIs, ElemsOf DEF BrokerOK, BrokerTypeOK, Messages, NoMessage
<1> HIDE DEF m
<1>4. KeysAfter(m) \subseteq Messages
  BY <1>3 DEF KeysAfter, BrokerOK, BrokerTypeOK
<1>5. BrokerTypeOK'
  <2>1. CASE /\ Decide(m, "skipped") /\ local' = local \cup {m}
             /\ UNCHANGED <<holds, key, runs>>
    BY <1>1, <1>2, <1>3, <2>1 DEF BrokerOK, BrokerTypeOK, connections, Decide
  <2>2. CASE /\ holds' = m /\ key' = KeysAfter(m) /\ runs' = [runs EXCEPT ![m] = @ + 1]
             /\ UNCHANGED <<local, fate>>
    BY <1>1, <1>2, <1>3, <1>4, <2>2 DEF BrokerOK, BrokerTypeOK, connections
  <2> QED
    BY <1>1, <2>1, <2>2
<1>6. Places'
  BY <1>1, <1>2, <1>3 DEF BrokerOK, BrokerTypeOK, Places
<1> QED
  BY <1>1, <1>2, <1>5, <1>6 DEF BrokerOK, m

LEMMA SucceedOK ==
  ASSUME BrokerOK, Succeed
  PROVE  BrokerOK' /\ holds \in Messages /\ holds' = NoMessage /\ UNCHANGED <<ready, Queued>>
<1>1. holds \in Messages /\ NoMessage \notin Messages
  BY DEF Succeed, BrokerOK, BrokerTypeOK, Messages, NoMessage
<1>2. UNCHANGED <<ready, Queued>> /\ holds' = NoMessage
  BY QueuedIs DEF Succeed
<1>3. BrokerTypeOK'
  BY <1>1, <1>2 DEF Succeed, BrokerOK, BrokerTypeOK, Places, connections, Decide
<1>4. Places'
  BY <1>1, <1>2, QueuedIs, ElemsOf DEF Succeed, BrokerOK, BrokerTypeOK, Places
<1> QED
  BY <1>1, <1>2, <1>3, <1>4 DEF BrokerOK

LEMMA FailOK ==
  ASSUME BrokerOK, Fail, UNCHANGED faults \/ Fault
  PROVE  /\ BrokerOK' /\ holds \in Messages /\ holds' = NoMessage
         /\ \/ /\ backed /\ Queued' = Queued \cup {holds} /\ UNCHANGED fate
            \/ /\ UNCHANGED <<ready, Queued>> /\ fate'[holds] \in {"dead", "dropped"}
               /\ \A n \in Messages \ {holds} : fate'[n] = fate[n]
<1>1. holds \in Messages /\ NoMessage \notin Messages
  BY DEF Fail, BrokerOK, BrokerTypeOK, Messages, NoMessage
<1>2. faults' \in 0 .. MaxFaults /\ faults <= faults'
  BY FaultType, ConsumersAssumption DEF BrokerOK, BrokerTypeOK
<1>3. /\ holds' = NoMessage /\ UNCHANGED <<connections, key, local, runs, returns>>
  BY DEF Fail
<1>4. \A m \in Messages : returns'[m] <= faults'
  BY <1>2, <1>3, ConsumersAssumption DEF BrokerOK, BrokerTypeOK, Places
<1>5. CASE /\ retry[holds] + 1 <= MaxRetry /\ backed /\ bound
           /\ ready' = Append(ready, holds) /\ retry' = [retry EXCEPT ![holds] = @ + 1]
           /\ UNCHANGED fate
  <2>1. ready' \in Seq(Messages) /\ Queued' = Queued \cup {holds} /\ Distinct(ready')
    BY <1>1, <1>5, AppendQueue, QueuedIs DEF BrokerOK, BrokerTypeOK, Places
  <2>2. retry' \in [Messages -> 0 .. MaxRetry]
    BY <1>1, <1>5, ConsumersAssumption DEF BrokerOK, BrokerTypeOK
  <2>3. BrokerTypeOK'
    BY <1>1, <1>2, <1>3, <1>5, <2>1, <2>2 DEF BrokerOK, BrokerTypeOK, connections
  <2>4. Places'
    BY <1>1, <1>3, <1>4, <2>1, ElemsOf, QueuedIs DEF Places
  <2> QED
    BY <1>1, <1>3, <1>5, <2>1, <2>3, <2>4 DEF BrokerOK
<1>6. CASE /\ \E what \in {"dead", "dropped"} : Decide(holds, what)
           /\ UNCHANGED ready /\ retry' \in [Messages -> 0 .. MaxRetry]
  <2>1. Queued' = Queued
    BY <1>6, QueuedIs
  <2>2. /\ fate'[holds] \in {"dead", "dropped"}
        /\ \A n \in Messages \ {holds} : fate'[n] = fate[n]
    BY <1>1, <1>6 DEF Decide, BrokerOK, BrokerTypeOK
  <2>3. BrokerTypeOK'
    <3>1. fate' \in [Messages -> {"new", "queued", "unsent", "handled", "skipped", "dead", "dropped"}]
      BY <1>6 DEF Decide, BrokerOK, BrokerTypeOK
    <3> QED
      BY <1>1, <1>2, <1>3, <1>6, <2>1, <2>2, <3>1 DEF BrokerOK, BrokerTypeOK, Places, connections
  <2>4. Places'
    BY <1>1, <1>3, <1>4, <1>6, <2>1, QueuedIs, ElemsOf DEF Places, BrokerOK, BrokerTypeOK
  <2> QED
    BY <1>1, <1>3, <1>6, <2>1, <2>2, <2>3, <2>4 DEF BrokerOK
<1>7. retry \in [Messages -> 0 .. MaxRetry] /\ retry[holds] \in 0 .. MaxRetry
  BY <1>1 DEF BrokerOK, BrokerTypeOK
<1>8. CASE retry[holds] + 1 <= MaxRetry /\ backed
  <2>1. [retry EXCEPT ![holds] = @ + 1] \in [Messages -> 0 .. MaxRetry]
    BY <1>1, <1>7, <1>8, ConsumersAssumption
  <2> QED
    BY <1>5, <1>6, <1>8, <2>1 DEF Fail
<1>9. CASE ~(retry[holds] + 1 <= MaxRetry /\ backed)
  BY <1>6, <1>7, <1>9 DEF Fail, Rejected
<1> QED
  BY <1>8, <1>9

LEMMA CrashOK ==
  ASSUME BrokerOK, CrashConsumer
  PROVE  /\ BrokerOK' /\ holds' = NoMessage /\ UNCHANGED <<backed, key, runs, fate>>
         /\ \/ holds = NoMessage /\ UNCHANGED <<ready, Queued, returns>>
            \/ /\ holds \in Messages /\ Queued' = Queued \cup {holds}
               /\ ready' = <<holds>> \o ready
               /\ returns'[holds] = returns[holds] + 1
               /\ \A m \in Messages \ {holds} : returns'[m] = returns[m]
<1>1. /\ con' = "down" /\ holds' = NoMessage /\ local' = {} /\ ready' = Returned
      /\ returns' = IF holds = NoMessage THEN returns ELSE [returns EXCEPT ![holds] = @ + 1]
      /\ UNCHANGED <<backed, kind, bound, api, key, retry, runs, fate>>
  BY DEF CrashConsumer
<1>2. faults' \in 0 .. MaxFaults /\ faults' = faults + 1 /\ faults \in Nat
  BY FaultType, ConsumersAssumption DEF CrashConsumer, BrokerOK, BrokerTypeOK
<1>3. NoMessage \notin Messages
  BY DEF Messages, NoMessage
<1>4. CASE holds = NoMessage
  <2>1. UNCHANGED <<ready, Queued, returns>>
    BY <1>1, <1>4, QueuedIs DEF Returned
  <2>2. BrokerTypeOK'
    BY <1>1, <1>2, <1>3, <1>4, <2>1 DEF BrokerOK, BrokerTypeOK
  <2>3. Places'
    BY <1>1, <1>2, <1>4, <2>1 DEF BrokerOK, BrokerTypeOK, Places
  <2> QED
    BY <1>1, <1>4, <2>1, <2>2, <2>3 DEF BrokerOK
<1>5. CASE holds # NoMessage
  <2>1. holds \in Messages
    BY <1>5 DEF BrokerOK, BrokerTypeOK
  <2>2. ready' = <<holds>> \o ready
    BY <1>1, <1>5 DEF Returned
  <2>3. ready' \in Seq(Messages) /\ Queued' = Queued \cup {holds} /\ Distinct(ready')
    BY <2>1, <2>2, ReturnQueue, QueuedIs DEF BrokerOK, BrokerTypeOK, Places
  <2>4. /\ returns' \in [Messages -> Nat]
        /\ returns'[holds] = returns[holds] + 1
        /\ \A m \in Messages \ {holds} : returns'[m] = returns[m]
    BY <1>1, <1>5, <2>1, ConsumersAssumption DEF BrokerOK, BrokerTypeOK
  <2>5. \A m \in Messages : returns'[m] <= faults'
    <3>1. \A m \in Messages : returns[m] \in Nat /\ returns[m] <= faults
      BY ConsumersAssumption DEF BrokerOK, BrokerTypeOK, Places
    <3> QED
      BY <1>2, <2>1, <2>4, <3>1
  <2>6. returns' \in [Messages -> 0 .. MaxFaults]
    BY <1>2, <2>4, <2>5, ConsumersAssumption
  <2>7. BrokerTypeOK'
    BY <1>1, <1>2, <1>3, <2>1, <2>3, <2>6 DEF BrokerOK, BrokerTypeOK
  <2>8. NoMessage \notin Queued'
    BY <1>3, <2>3, ElemsOf, QueuedIs
  <2> QED
    BY <1>1, <2>1, <2>2, <2>3, <2>4, <2>5, <2>7, <2>8 DEF BrokerOK, Places
<1> QED
  BY <1>4, <1>5

LEMMA ExpireOK ==
  ASSUME BrokerOK, Expire
  PROVE  /\ BrokerOK'
         /\ Head(ready) \in Queued /\ Queued' = Queued \ {Head(ready)}
         /\ fate'[Head(ready)] = "dead"
         /\ \A n \in Messages \ {Head(ready)} : fate'[n] = fate[n]
<1> DEFINE m == Head(ready)
<1>1. /\ ready # <<>> /\ Decide(m, "dead") /\ ready' = Tail(ready)
      /\ UNCHANGED <<connections, holds, key, local, retry, runs, returns, faults>>
  BY DEF Expire
<1>2. /\ ready' \in Seq(Messages) /\ Distinct(ready')
      /\ m \in Queued /\ Queued' = Queued \ {m}
  BY <1>1, TailQueue, QueuedIs DEF BrokerOK, BrokerTypeOK, Places
<1>3. m \in Messages
  BY <1>2, QueuedIs, ElemsOf DEF BrokerOK, BrokerTypeOK
<1> HIDE DEF m
<1>4. fate'[m] = "dead" /\ \A n \in Messages \ {m} : fate'[n] = fate[n]
  BY <1>1, <1>3 DEF Decide, BrokerOK, BrokerTypeOK
<1>5. BrokerTypeOK'
  BY <1>1, <1>2, <1>3, <1>4 DEF BrokerOK, BrokerTypeOK, Places, connections, Decide
<1>6. Places'
  BY <1>1, <1>2, <1>3 DEF BrokerOK, BrokerTypeOK, Places
<1> QED
  BY <1>2, <1>4, <1>5, <1>6 DEF BrokerOK, m

\* The types of what is not the broker's.
OrderTypeOK ==
  /\ spot \in BOOLEAN /\ deleted \in BOOLEAN /\ late \in BOOLEAN /\ leftBehind \in BOOLEAN
  /\ status \in Statuses \cup {"none"} /\ index \in Docs
  /\ web \in [Sessions -> SessionStates]
  /\ doc \in [Messages -> Docs]
  /\ answer \in BOOLEAN /\ cache \in BOOLEAN

LEMMA InitOK == Init => BrokerOK /\ OrderTypeOK
<1> SUFFICES ASSUME Init
             PROVE  BrokerOK /\ OrderTypeOK
  OBVIOUS
<1>1. ready = <<>> /\ Len(ready) = 0 /\ ready \in Seq(Messages) /\ Queued = {}
  BY DEF Init, BrokerInit, Queued
<1>2. Distinct(ready)
  BY <1>1 DEF Distinct
<1>3. BrokerTypeOK
  BY <1>1, ConsumersAssumption DEF Init, BrokerInit, BrokerTypeOK, NoMessage, Messages
<1>4. Places
  BY <1>1, <1>2 DEF Init, BrokerInit, Places
<1>5. OrderTypeOK
  <2>1. Idle \in SessionStates /\ "none" \in Docs
    BY DEF Idle, Docs, SessionStates, Publishing
  <2>2. status \in Statuses \cup {"none"} /\ index \in Docs
    BY DEF Init, Docs
  <2> QED
    BY <2>1, <2>2 DEF Init, OrderTypeOK
<1> QED
  BY <1>3, <1>4, <1>5 DEF BrokerOK

LEMMA BrokerStepOK == BrokerOK /\ [Next]_vars => BrokerOK'
<1> SUFFICES ASSUME BrokerOK, [Next]_vars
             PROVE  BrokerOK'
  OBVIOUS
<1>0. faults \in 0 .. MaxFaults /\ faults <= faults
  BY ConsumersAssumption DEF BrokerOK, BrokerTypeOK
<1>1. ASSUME UNCHANGED brokerVars
      PROVE  BrokerOK'
  BY <1>0, <1>1, BrokerFrame DEF brokerVars, connections, BrokerOK, BrokerTypeOK
<1>2. ASSUME NEW s \in Sessions, WriteDirectly(s)
      PROVE  BrokerOK'
  <2>1. faults' \in 0 .. MaxFaults /\ faults <= faults'
    BY <1>0, <1>2, FaultType DEF WriteDirectly
  <2> QED
    BY <1>2, <2>1, BrokerFrame DEF WriteDirectly, connections, BrokerOK, BrokerTypeOK
<1>3. ASSUME NEW s \in Sessions, CrashRequest(s)
      PROVE  BrokerOK'
  BY <1>3, FaultType, BrokerFrame DEF CrashRequest, connections, BrokerOK, BrokerTypeOK
<1>4. ASSUME NEW s \in Sessions, PublishSync(s)
      PROVE  BrokerOK'
  BY <1>4, PublishOK DEF PublishSync
<1>5. CASE SyncSucceeds
  BY <1>5, SucceedOK DEF SyncSucceeds
<1>6. CASE SyncFails
  BY <1>6, FailOK DEF SyncFails
<1>7. CASE Broker
  <2>1. CASE StartApi
    <3>1. faults' \in 0 .. MaxFaults /\ faults <= faults'
      BY <1>0, <2>1, FaultType DEF StartApi
    <3> QED
      BY <2>1, <3>1, BrokerFrame DEF StartApi, BrokerOK, BrokerTypeOK
  <2>2. CASE StartConsumer
    BY <1>0, <2>2, BrokerFrame DEF StartConsumer, BrokerOK, BrokerTypeOK
  <2> QED
    BY <1>7, <2>1, <2>2, DeliverOK, CrashOK, ExpireOK DEF Broker, BrokerStep
<1>8. ASSUME NEW s \in Sessions,
             \/ Create(s) \/ ReadDirectly(s) \/ Build(s) \/ SoftDelete(s) \/ CommitStale(s)
             \/ ReadReopen(s) \/ CommitReopen(s) \/ ReadSilently(s) \/ CommitSilently(s)
             \/ \E to \in Statuses : Transition(s, to) \/ ReadOrder(s, to)
      PROVE  BrokerOK'
  BY <1>1, <1>8 DEF Create, ReadDirectly, Build, SoftDelete, CommitStale, ReadReopen, CommitReopen,
                    ReadSilently, CommitSilently, Transition, ReadOrder
<1>9. CASE DeadlinePasses \/ Search \/ CacheAnswer \/ CacheExpires \/ UNCHANGED vars
  BY <1>1, <1>9 DEF DeadlinePasses, Search, CacheAnswer, CacheExpires, vars
<1> QED
  BY <1>2, <1>3, <1>4, <1>5, <1>6, <1>7, <1>8, <1>9 DEF Next, Begin, Continue

\* What a step does to one session.
LEMMA SessionEffect ==
  ASSUME OrderTypeOK, NEW s \in Sessions, NEW at, NEW what,
         [at |-> at, doc |-> what] \in SessionStates, Goto(s, at, what)
  PROVE  /\ web' \in [Sessions -> SessionStates]
         /\ web'[s].at = at /\ web'[s].doc = what
         /\ \A t \in Sessions \ {s} : web'[t] = web[t]
BY DEF OrderTypeOK, Goto

LEMMA LeaveEffect ==
  ASSUME OrderTypeOK, NEW s \in Sessions, Leave(s)
  PROVE  /\ web' \in [Sessions -> SessionStates]
         /\ web'[s].at = "idle" /\ \A t \in Sessions \ {s} : web'[t] = web[t]
<1>1. Idle \in SessionStates /\ Idle.at = "idle"
  BY DEF Idle, SessionStates, Docs, Publishing
<1> QED
  BY <1>1 DEF OrderTypeOK, Leave

LEMMA OrderTypeStep == BrokerOK /\ OrderTypeOK /\ [Next]_vars => OrderTypeOK'
<1> SUFFICES ASSUME BrokerOK, OrderTypeOK, [Next]_vars
             PROVE  OrderTypeOK'
  OBVIOUS
<1>1. /\ \A at \in {"index", "write", "build", "publish", "reopen", "announce",
                  "reopened", "silent"}, what \in Docs : [at |-> at, doc |-> what] \in SessionStates
      /\ \A what \in Statuses : [at |-> "commit", doc |-> what] \in SessionStates
      /\ Statuses \cup {"none", "deleted"} \subseteq Docs
  BY DEF SessionStates, Publishing, Docs
<1>a. \A s \in Sessions : web[s].doc \in Docs
  <2>1. \A w \in SessionStates : w.doc \in Docs
    BY <1>1 DEF SessionStates
  <2> QED
    BY <2>1 DEF OrderTypeOK
<1>2. status \in Docs /\ Open \in Statuses /\ {"GATHERING", "DISBANDED"} \subseteq Statuses
  BY DEF Open, Statuses, Docs, OrderTypeOK
<1> USE DEF order, radar
<1>3. ASSUME NEW s \in Sessions,
             Create(s) \/ SoftDelete(s) \/ \E to \in Statuses : Transition(s, to)
      PROVE  OrderTypeOK'
  <2>1. PICK at, what : [at |-> at, doc |-> what] \in SessionStates /\ Goto(s, at, what)
    BY <1>1, <1>3 DEF Create, SoftDelete, Transition
  <2>2. status' \in Statuses \cup {"none"} /\ deleted' \in BOOLEAN
    BY <1>2, <1>3 DEF Create, SoftDelete, Transition, OrderTypeOK
  <2> QED
    BY <1>3, <2>1, <2>2, SessionEffect DEF Create, SoftDelete, Transition, OrderTypeOK
<1>4. ASSUME NEW s \in Sessions,
             \/ ReadDirectly(s) \/ Build(s) \/ ReadReopen(s) \/ ReadSilently(s)
             \/ \E to \in Statuses : ReadOrder(s, to)
      PROVE  OrderTypeOK'
  <2>1. PICK at, what : [at |-> at, doc |-> what] \in SessionStates /\ Goto(s, at, what)
    BY <1>1, <1>2, <1>4 DEF ReadDirectly, Build, ReadReopen, ReadSilently, ReadOrder
  <2> QED
    BY <1>4, <2>1, SessionEffect DEF ReadDirectly, Build, ReadReopen, ReadSilently, ReadOrder,
                                     OrderTypeOK
<1>5. ASSUME NEW s \in Sessions, WriteDirectly(s)
      PROVE  OrderTypeOK'
  <2>1. index' \in Docs
    BY <1>a, <1>5 DEF WriteDirectly, OrderTypeOK
  <2> QED
    BY <1>1, <1>5, <2>1, SessionEffect DEF WriteDirectly, OrderTypeOK
<1>6. ASSUME NEW s \in Sessions, PublishSync(s)
      PROVE  OrderTypeOK'
  <2>1. doc' \in [Messages -> Docs] /\ leftBehind' \in BOOLEAN
    BY <1>a, <1>6 DEF PublishSync, OrderTypeOK
  <2>2. web' \in [Sessions -> SessionStates]
    BY <1>1, <1>6, SessionEffect, LeaveEffect DEF PublishSync
  <2> QED
    BY <1>6, <2>1, <2>2 DEF PublishSync, OrderTypeOK
<1>7. ASSUME NEW s \in Sessions, CommitStale(s)
      PROVE  OrderTypeOK'
  <2>1. status' \in Statuses \cup {"none"}
    <3>1. web[s] \in SessionStates /\ web[s].at = "commit"
      BY <1>7 DEF CommitStale, OrderTypeOK
    <3>2. web[s].doc \in Statuses
      BY <3>1 DEF SessionStates, Publishing
    <3> QED
      BY <1>7, <3>2 DEF CommitStale
  <2> QED
    BY <1>1, <1>7, <2>1, SessionEffect DEF CommitStale, OrderTypeOK
<1>8. ASSUME NEW s \in Sessions, CommitReopen(s) \/ CommitSilently(s)
      PROVE  OrderTypeOK'
  BY <1>2, <1>8, LeaveEffect DEF CommitReopen, CommitSilently, OrderTypeOK
<1>9. ASSUME NEW s \in Sessions, CrashRequest(s)
      PROVE  OrderTypeOK'
  <2>1. leftBehind' \in BOOLEAN
    BY <1>9 DEF CrashRequest, OrderTypeOK
  <2> QED
    BY <1>9, <2>1, LeaveEffect DEF CrashRequest, OrderTypeOK
<1>10. CASE SyncSucceeds
  BY <1>10, SucceedOK DEF SyncSucceeds, OrderTypeOK
<1>11. CASE SyncFails \/ DeadlinePasses \/ Broker \/ UNCHANGED vars
  BY <1>11 DEF SyncFails, DeadlinePasses, Broker, vars, OrderTypeOK
<1>12. CASE Search \/ CacheAnswer \/ CacheExpires
  BY <1>12 DEF Search, CacheAnswer, CacheExpires, OrderTypeOK
<1> QED
  BY <1>3, <1>4, <1>5, <1>6, <1>7, <1>8, <1>9, <1>10, <1>11, <1>12 DEF Next, Begin, Continue

-----------------------------------------------------------------------------
(* How often a message is handled *)

LEMMA RunsFrame ==
  ASSUME RunsInv, UNCHANGED <<backed, key, runs, returns>>,
         holds' \in {holds, NoMessage}, Queued' \subseteq Queued,
         \A m \in Messages : fate'[m] = "new" => fate[m] = "new"
  PROVE  RunsInv'
<1>1. ASSUME NEW m \in Messages
      PROVE  RunsOf(m)'
  <2>1. RunsOf(m)
    BY DEF RunsInv
  <2> QED
    BY <2>1 DEF RunsOf
<1> QED
  BY <1>1 DEF RunsInv

LEMMA RunsStep == BrokerOK /\ RunsInv /\ [Next]_vars => RunsInv'
<1> SUFFICES ASSUME BrokerOK, RunsInv, [Next]_vars
             PROVE  RunsInv'
  OBVIOUS
<1>0. NoMessage \notin Messages /\ Queued \subseteq Messages
  BY QueuedIs, ElemsOf DEF Messages, NoMessage, BrokerOK, BrokerTypeOK
<1>1. ASSUME UNCHANGED <<backed, ready, holds, key, runs, returns, fate>>
      PROVE  RunsInv'
  BY <1>1, QueuedIs, RunsFrame
<1>2. ASSUME NEW s \in Sessions, PublishSync(s)
      PROVE  RunsInv'
  <2>1. PICK m \in Messages : Publish(m)
    BY <1>2 DEF PublishSync
  <2>2. fate[m] = "new" /\ m # holds /\ UNCHANGED <<backed, holds, key, runs, returns>>
    BY <2>1 DEF Publish, New, connections, BrokerOK, BrokerTypeOK
  <2>3. Queued' \subseteq Queued \cup {m} /\ fate'[m] # "new"
    BY <2>1, PublishOK
  <2>4. \A n \in Messages \ {m} : fate'[n] = fate[n]
    BY <2>1, PublishOK
  <2>5. ASSUME NEW n \in Messages
        PROVE  RunsOf(n)'
    BY <2>2, <2>3, <2>4 DEF RunsInv, RunsOf
  <2> QED
    BY <2>2, <2>5 DEF RunsInv
<1>3. CASE Deliver
  <2>0. PICK m \in Messages : m = Head(ready)
    BY <1>0, <1>3, DeliverOK
  <2>1. /\ m \in Queued /\ Queued' = Queued \ {m} /\ holds = NoMessage
        /\ fate[m] = "queued" /\ UNCHANGED <<backed, returns>>
    BY <1>0, <1>3, <2>0, DeliverOK DEF Deliver, connections, BrokerOK, BrokerTypeOK
  <2>2. CASE Duplicate(m)
    <3>1. UNCHANGED <<holds, key, runs>> /\ Decide(m, "skipped")
      BY <1>3, <2>0, <2>2 DEF Deliver
    <3>2. \A n \in Messages : fate'[n] = "new" => fate[n] = "new"
      BY <2>1, <3>1 DEF Decide, BrokerOK, BrokerTypeOK
    <3> QED
      BY <2>1, <3>1, <3>2, RunsFrame
  <2>3. CASE ~Duplicate(m)
    <3>1. holds' = m /\ key' = KeysAfter(m) /\ UNCHANGED fate /\ m \notin key
      BY <1>3, <2>0, <2>3 DEF Deliver, Duplicate
    <3>2. runs'[m] = runs[m] + 1 /\ \A n \in Messages \ {m} : runs'[n] = runs[n]
      BY <1>3, <2>0, <2>1, <2>3 DEF Deliver, BrokerOK, BrokerTypeOK
    <3>3. runs[m] \in Nat /\ returns[m] \in Nat
      BY <2>1 DEF BrokerOK, BrokerTypeOK
    <3>4. RunsOf(m)
      BY <2>1 DEF RunsInv
    <3>5. /\ RunsOf(m)'
          /\ IF backed THEN runs'[m] = 1 ELSE runs'[m] = 1 + returns[m]
      BY <2>1, <3>1, <3>2, <3>3, <3>4 DEF RunsOf, KeysAfter
    <3>6. ASSUME NEW n \in Messages \ {m}
          PROVE  RunsOf(n)'
      BY <2>1, <3>1, <3>2 DEF RunsInv, RunsOf, KeysAfter
    <3> QED
      BY <2>1, <3>1, <3>5, <3>6 DEF RunsInv
  <2> QED
    BY <2>2, <2>3
<1>4. CASE SyncSucceeds
  <2>1. UNCHANGED <<backed, key, runs, returns, Queued>> /\ holds' = NoMessage
    BY <1>4, SucceedOK DEF SyncSucceeds, Succeed, connections
  <2>2. \A n \in Messages : fate'[n] = "new" => fate[n] = "new"
    BY <1>4 DEF SyncSucceeds, Succeed, Decide, BrokerOK, BrokerTypeOK
  <2> QED
    BY <2>1, <2>2, RunsFrame
<1>5. CASE SyncFails
  <2>1. Fail /\ (UNCHANGED faults \/ Fault)
    BY <1>5 DEF SyncFails
  <2>2. UNCHANGED <<backed, key, runs, returns>> /\ holds' = NoMessage /\ holds \in Messages
    BY <2>1, FailOK DEF Fail, connections
  <2>3. CASE backed /\ Queued' = Queued \cup {holds} /\ UNCHANGED fate
    BY <2>2, <2>3 DEF RunsInv, RunsOf
  <2>4. CASE UNCHANGED Queued /\ \A n \in Messages : fate'[n] = "new" => fate[n] = "new"
    BY <2>2, <2>4, RunsFrame
  <2> QED
    BY <2>1, <2>3, <2>4, FailOK
<1>6. CASE CrashConsumer
  <2>1. holds' = NoMessage /\ UNCHANGED <<backed, key, runs, fate>>
    BY <1>6, CrashOK
  <2>2. CASE UNCHANGED <<Queued, returns>>
    BY <2>1, <2>2, RunsFrame
  <2>3. CASE /\ holds \in Messages /\ Queued' = Queued \cup {holds}
             /\ returns'[holds] = returns[holds] + 1
             /\ \A m \in Messages \ {holds} : returns'[m] = returns[m]
    <3>0. PICK h \in Messages : h = holds
      BY <2>3
    <3>1. runs[h] \in Nat /\ returns[h] \in Nat /\ RunsOf(h) /\ h # NoMessage
      BY <1>0, <3>0 DEF BrokerOK, BrokerTypeOK, RunsInv
    <3>2. fate[h] = "queued"
      BY <3>0 DEF BrokerOK, BrokerTypeOK
    <3>3. RunsOf(h)'
      <4>1. CASE backed
        BY <2>1, <2>3, <3>0, <3>1, <4>1 DEF RunsOf
      <4>2. CASE ~backed
        BY <2>1, <2>3, <3>0, <3>1, <3>2, <4>2 DEF RunsOf, RunsInv
      <4> QED
        BY <4>1, <4>2
    <3>4. ASSUME NEW n \in Messages \ {h}
          PROVE  RunsOf(n)'
      BY <2>1, <2>3, <3>0 DEF RunsInv, RunsOf
    <3> QED
      BY <2>1, <3>3, <3>4 DEF RunsInv
  <2> QED
    BY <1>6, <2>2, <2>3, CrashOK
<1>7. CASE Expire
  <2>1. UNCHANGED <<backed, holds, key, runs, returns>> /\ Queued' \subseteq Queued
    BY <1>7, ExpireOK DEF Expire, connections
  <2>2. \A n \in Messages : fate'[n] = "new" => fate[n] = "new"
    BY <1>7, ExpireOK
  <2> QED
    BY <2>1, <2>2, RunsFrame
<1>8. CASE Broker
  <2>1. CASE StartApi \/ StartConsumer
    BY <1>1, <2>1 DEF StartApi, StartConsumer
  <2> QED
    BY <1>3, <1>6, <1>7, <1>8, <2>1 DEF Broker, BrokerStep
<1>9. ASSUME NEW s \in Sessions,
             \/ WriteDirectly(s) \/ CrashRequest(s)
             \/ Create(s) \/ ReadDirectly(s) \/ Build(s) \/ SoftDelete(s) \/ CommitStale(s)
             \/ ReadReopen(s) \/ CommitReopen(s) \/ ReadSilently(s) \/ CommitSilently(s)
             \/ \E to \in Statuses : Transition(s, to) \/ ReadOrder(s, to)
      PROVE  RunsInv'
  BY <1>1, <1>9 DEF WriteDirectly, CrashRequest, Create, ReadDirectly, Build, SoftDelete, CommitStale, ReadReopen, CommitReopen,
                    ReadSilently, CommitSilently, Transition, ReadOrder,
                    brokerVars, connections
<1>10. CASE DeadlinePasses \/ Search \/ CacheAnswer \/ CacheExpires \/ UNCHANGED vars
  BY <1>1, <1>10 DEF DeadlinePasses, Search, CacheAnswer, CacheExpires, vars, brokerVars, connections
<1> QED
  BY <1>2, <1>4, <1>5, <1>8, <1>9, <1>10 DEF Next, Begin, Continue

-----------------------------------------------------------------------------
(* The order in which messages are handled *)

\* What a step may do to the messages.
LEMMA MessageCases ==
  [Next]_vars => \/ UNCHANGED <<backed, ready, holds, key, fate>>
                 \/ \E s \in Sessions : PublishSync(s)
                 \/ Deliver \/ SyncSucceeds \/ SyncFails \/ CrashConsumer \/ Expire
<1> SUFFICES ASSUME [Next]_vars, \A s \in Sessions : ~PublishSync(s),
                    ~(Deliver \/ SyncSucceeds \/ SyncFails \/ CrashConsumer \/ Expire)
             PROVE  UNCHANGED <<backed, ready, holds, key, fate>>
  OBVIOUS
<1>1. ASSUME NEW s \in Sessions,
             \/ WriteDirectly(s) \/ CrashRequest(s)
             \/ Create(s) \/ ReadDirectly(s) \/ Build(s) \/ SoftDelete(s) \/ CommitStale(s)
             \/ ReadReopen(s) \/ CommitReopen(s) \/ ReadSilently(s) \/ CommitSilently(s)
             \/ \E to \in Statuses : Transition(s, to) \/ ReadOrder(s, to)
      PROVE  UNCHANGED <<backed, ready, holds, key, fate>>
  BY <1>1 DEF WriteDirectly, CrashRequest, Create, ReadDirectly, Build, SoftDelete, CommitStale, ReadReopen, CommitReopen,
              ReadSilently, CommitSilently, Transition, ReadOrder,
              brokerVars, connections
<1>2. CASE DeadlinePasses \/ Search \/ CacheAnswer \/ CacheExpires \/ UNCHANGED vars
  BY <1>2 DEF DeadlinePasses, Search, CacheAnswer, CacheExpires, vars, brokerVars, connections
<1>3. CASE StartApi \/ StartConsumer
  BY <1>3 DEF StartApi, StartConsumer
<1> QED
  BY <1>1, <1>2, <1>3 DEF Next, Begin, Continue, Broker, BrokerStep

LEMMA DeliverEffect ==
  ASSUME BrokerOK, Deliver
  PROVE  \E m \in Messages :
           /\ m = Head(ready) /\ m \in Queued /\ Queued' = Queued \ {m}
           /\ ready' = Tail(ready) /\ ready # <<>> /\ fate[m] = "queued" /\ holds = NoMessage
           /\ key \subseteq key'
           /\ \/ /\ m \in key \cup local /\ fate'[m] = "skipped" /\ UNCHANGED <<holds, key>>
                 /\ \A n \in Messages \ {m} : fate'[n] = fate[n]
              \/ /\ m \notin key /\ holds' = m /\ key' \subseteq key \cup {m} /\ UNCHANGED fate
<1>1. PICK m \in Messages : m = Head(ready)
  BY DeliverOK, QueuedIs, ElemsOf DEF BrokerOK, BrokerTypeOK
<1>2. /\ m \in Queued /\ Queued' = Queued \ {m} /\ fate[m] = "queued"
      /\ ready' = Tail(ready) /\ ready # <<>> /\ holds = NoMessage
  BY <1>1, DeliverOK DEF BrokerOK, BrokerTypeOK
<1>3. CASE Duplicate(m)
  <2>1. Decide(m, "skipped") /\ UNCHANGED <<holds, key>>
    BY <1>1, <1>3 DEF Deliver
  <2> QED
    BY <1>1, <1>2, <1>3, <2>1 DEF Decide, Duplicate, BrokerOK, BrokerTypeOK
<1>4. CASE ~Duplicate(m)
  <2>1. holds' = m /\ key' = KeysAfter(m) /\ UNCHANGED fate
    BY <1>1, <1>4 DEF Deliver
  <2>2. key \subseteq key' /\ key' \subseteq key \cup {m} /\ m \notin key
    BY <1>4, <2>1 DEF KeysAfter, Duplicate
  <2> QED
    BY <1>1, <1>2, <2>1, <2>2
<1> QED
  BY <1>3, <1>4

LEMMA SucceedEffect ==
  ASSUME BrokerOK, SyncSucceeds
  PROVE  \E h \in Messages :
           /\ h = holds /\ fate[h] = "queued" /\ fate'[h] = "handled" /\ index' = doc[h]
           /\ holds' = NoMessage /\ UNCHANGED <<ready, Queued, key>>
           /\ \A n \in Messages \ {h} : fate'[n] = fate[n]
BY SucceedOK DEF SyncSucceeds, Succeed, Decide, BrokerOK, BrokerTypeOK

LEMMA PublishEffect ==
  ASSUME BrokerOK, NEW s \in Sessions, PublishSync(s)
  PROVE  \E m \in Messages :
           /\ fate[m] = "new" /\ \A n \in 1 .. m - 1 : fate[n] # "new"
           /\ m \notin Queued /\ doc' = [doc EXCEPT ![m] = web[s].doc]
           /\ UNCHANGED <<holds, key>>
           /\ \A n \in Messages \ {m} : fate'[n] = fate[n]
           /\ \/ ready' = Append(ready, m) /\ Queued' = Queued \cup {m} /\ fate'[m] = "queued"
              \/ UNCHANGED <<ready, Queued>> /\ fate'[m] = "unsent"
<1>1. PICK m \in Messages : Publish(m) /\ doc' = [doc EXCEPT ![m] = web[s].doc]
  BY DEF PublishSync
<1>2. /\ fate[m] = "new" /\ (\A n \in 1 .. m - 1 : fate[n] # "new") /\ m \notin Queued
      /\ UNCHANGED <<holds, key>>
  BY <1>1 DEF Publish, New, BrokerOK, BrokerTypeOK
<1> QED
  BY <1>1, <1>2, PublishOK

\* What is spoilt stays spoilt.
LEMMA SpoiledStays == BrokerOK /\ [Next]_vars /\ Spoiled => Spoiled'
<1> SUFFICES ASSUME BrokerOK, [Next]_vars, NEW m \in Messages, Spoils(m)
             PROVE  Spoils(m)'
  BY DEF Spoiled
<1> USE DEF Spoils
<1>0. fate[m] = "queued" <=> m \in Queued \cup {holds}
  BY DEF BrokerOK, BrokerTypeOK
<1>1. CASE UNCHANGED <<backed, ready, holds, key, fate>>
  BY <1>1, QueuedIs
<1>2. ASSUME NEW s \in Sessions, PublishSync(s)
      PROVE  Spoils(m)'
  BY <1>0, <1>2, PublishEffect
<1>3. CASE Deliver
  BY <1>0, <1>3, DeliverEffect
<1>4. CASE SyncSucceeds
  BY <1>0, <1>4, SucceedEffect DEF BrokerOK, Places
<1>5. CASE SyncFails
  <2>1. /\ holds \in Messages /\ holds' = NoMessage /\ key' = key
        /\ \/ Queued' = Queued \cup {holds} /\ UNCHANGED fate
           \/ /\ UNCHANGED Queued
              /\ \A n \in Messages \ {holds} : fate'[n] = fate[n]
    BY <1>5, FailOK DEF SyncFails, Fail
  <2> QED
    BY <1>0, <2>1 DEF BrokerOK, Places
<1>6. CASE CrashConsumer
  BY <1>0, <1>6, CrashOK
<1>7. CASE Expire
  <2>1. key' = key
    BY <1>7 DEF Expire
  <2>2. PICK h \in Messages : h = Head(ready)
    BY <1>7, ExpireOK, QueuedIs, ElemsOf DEF BrokerOK, BrokerTypeOK
  <2>3. /\ Queued' = Queued \ {h} /\ fate'[h] = "dead"
        /\ \A n \in Messages \ {h} : fate'[n] = fate[n]
    BY <1>7, <2>2, ExpireOK
  <2> QED
    BY <1>0, <2>1, <2>3
<1> QED
  BY <1>1, <1>2, <1>3, <1>4, <1>5, <1>6, <1>7, MessageCases

\* A failure and an expiry spoil: the message is decided, or queued with its key set.
LEMMA FailureSpoils ==
  ASSUME BrokerOK, RunsInv, SyncFails \/ Expire
  PROVE  Spoiled'
<1>1. CASE SyncFails
  <2>1. PICK h \in Messages : h = holds
    BY <1>1, FailOK DEF SyncFails
  <2>2. key' = key /\ h # NoMessage
    BY <1>1, <2>1 DEF SyncFails, Fail
  <2>3. backed => h \in key
    BY <2>1, <2>2 DEF RunsInv, RunsOf
  <2>4. \/ backed /\ Queued' = Queued \cup {h}
        \/ fate'[h] \in {"dead", "dropped"}
    BY <1>1, <2>1, FailOK DEF SyncFails
  <2> QED
    BY <2>2, <2>3, <2>4 DEF Spoiled, Spoils
<1>2. CASE Expire
  <2>1. PICK h \in Messages : h = Head(ready)
    BY <1>2, ExpireOK, QueuedIs, ElemsOf DEF BrokerOK, BrokerTypeOK
  <2>2. fate'[h] = "dead"
    BY <1>2, <2>1, ExpireOK
  <2> QED
    BY <2>2 DEF Spoiled, Spoils
<1> QED
  BY <1>1, <1>2

\* Only a publication takes away from the new messages, and takes the first of them.
LEMMA PrefixStep == BrokerOK /\ Prefix /\ [Next]_vars => Prefix'
<1> SUFFICES ASSUME BrokerOK, Prefix, [Next]_vars
             PROVE  Prefix'
  OBVIOUS
<1>1. ASSUME \A n \in Messages : fate'[n] = "new" <=> fate[n] = "new"
      PROVE  Prefix'
  BY <1>1 DEF Prefix
<1>2. ASSUME NEW s \in Sessions, PublishSync(s)
      PROVE  Prefix'
  <2>1. PICK m \in Messages :
           /\ fate[m] = "new" /\ fate'[m] # "new" /\ \A n \in 1 .. m - 1 : fate[n] # "new"
           /\ \A n \in Messages \ {m} : fate'[n] = fate[n]
    BY <1>2, PublishEffect
  <2>2. PICK k \in 0 .. MaxMessages : \A n \in Messages : fate[n] = "new" <=> k < n
    BY DEF Prefix
  <2>3. m = k + 1
    BY <2>1, <2>2, ConsumersAssumption DEF Messages
  <2>4. \A n \in Messages : fate'[n] = "new" <=> m < n
    BY <2>1, <2>2, <2>3, ConsumersAssumption DEF Messages
  <2> QED
    BY <2>4, ConsumersAssumption DEF Prefix, Messages
<1>3. CASE Deliver
  BY <1>1, <1>3, DeliverEffect
<1>4. CASE SyncSucceeds
  BY <1>1, <1>4, SucceedEffect
<1>5. CASE SyncFails
  <2>1. fate[holds] = "queued"
    BY <1>5, FailOK DEF SyncFails, BrokerOK, BrokerTypeOK
  <2> QED
    BY <1>1, <1>5, <2>1, FailOK DEF SyncFails
<1>6. CASE CrashConsumer
  BY <1>1, <1>6, CrashOK
<1>7. CASE Expire
  <2>1. Head(ready) \in Messages /\ fate[Head(ready)] = "queued"
    BY <1>7, ExpireOK, QueuedIs, ElemsOf DEF BrokerOK, BrokerTypeOK
  <2> QED
    BY <1>1, <1>7, <2>1, ExpireOK
<1> QED
  BY <1>1, <1>2, <1>3, <1>4, <1>5, <1>6, <1>7, MessageCases

LEMMA InOrderStep ==
  BrokerOK /\ RunsInv /\ Prefix /\ InOrder /\ ~Spoiled' /\ [Next]_vars => InOrder'
<1> SUFFICES ASSUME BrokerOK, RunsInv, Prefix, InOrder, ~Spoiled', [Next]_vars
             PROVE  InOrder'
  OBVIOUS
<1>a. /\ \A m \in Messages : fate[m] = "queued" <=> m \in Queued \cup {holds}
      /\ Queued \subseteq Messages /\ ready \in Seq(Messages) /\ Messages \subseteq Nat \ {0}
      /\ holds \in Messages \cup {NoMessage} /\ NoMessage = 0
  BY QueuedIs, ElemsOf, ConsumersAssumption DEF BrokerOK, BrokerTypeOK, Messages, NoMessage
<1>b. /\ Sorted(ready) /\ \A m \in Queued : holds < m
      /\ \A m, n \in Messages : fate[m] = "handled" /\ fate[n] = "queued" => m < n
  BY DEF InOrder
<1>c. \A m \in Messages : ~Spoils(m)'
  BY DEF Spoiled
<1>1. CASE UNCHANGED <<backed, ready, holds, key, fate>>
  BY <1>1, <1>b, QueuedIs DEF InOrder
<1>2. ASSUME NEW s \in Sessions, PublishSync(s)
      PROVE  InOrder'
  <2>1. PICK m \in Messages :
           /\ fate[m] = "new" /\ \A n \in 1 .. m - 1 : fate[n] # "new"
           /\ m \notin Queued /\ UNCHANGED <<holds, key>>
           /\ \A n \in Messages \ {m} : fate'[n] = fate[n]
           /\ \/ ready' = Append(ready, m) /\ Queued' = Queued \cup {m} /\ fate'[m] = "queued"
              \/ UNCHANGED <<ready, Queued>> /\ fate'[m] = "unsent"
    BY <1>2, PublishEffect
  <2>2. ready' = Append(ready, m) /\ Queued' = Queued \cup {m} /\ fate'[m] = "queued"
    BY <1>c, <2>1 DEF Spoils
  <2>3. \A n \in Messages : fate[n] # "new" => n < m
    BY <2>1, ConsumersAssumption DEF Prefix, Messages
  <2>4. \A n \in Queued : n < m
    BY <1>a, <2>3
  <2>5. Sorted(ready')
    BY <1>a, <1>b, <2>2, <2>4, AppendQueue, QueuedIs
  <2>6. holds < m
    BY <1>a, <2>3
  <2> QED
    BY <1>a, <1>b, <2>1, <2>2, <2>3, <2>5, <2>6 DEF InOrder
<1>3. CASE Deliver
  <2>1. PICK m \in Messages :
           /\ m = Head(ready) /\ m \in Queued /\ Queued' = Queued \ {m}
           /\ ready' = Tail(ready) /\ ready # <<>> /\ fate[m] = "queued"
           /\ \/ fate'[m] = "skipped"
              \/ holds' = m /\ UNCHANGED fate
    BY <1>3, DeliverEffect
  <2>2. holds' = m /\ UNCHANGED fate
    BY <1>c, <2>1 DEF Spoils
  <2>3. Sorted(ready') /\ \A n \in Queued' : m < n
    BY <1>a, <1>b, <2>1, TailQueue, QueuedIs
  <2> QED
    BY <1>b, <2>2, <2>3 DEF InOrder
<1>4. CASE SyncSucceeds
  <2>1. PICK h \in Messages :
           /\ h = holds /\ fate[h] = "queued" /\ fate'[h] = "handled"
           /\ holds' = NoMessage /\ UNCHANGED <<ready, Queued, key>>
           /\ \A n \in Messages \ {h} : fate'[n] = fate[n]
    BY <1>4, SucceedEffect
  <2>2. \A n \in Messages : fate'[n] = "queued" => n \in Queued
    BY <1>a, <2>1
  <2>3. ASSUME NEW m \in Messages, NEW n \in Messages, fate'[m] = "handled", fate'[n] = "queued"
        PROVE  m < n
    BY <1>a, <1>b, <2>1, <2>2, <2>3
  <2>4. \A m \in Queued' : holds' < m
    BY <1>a, <2>1
  <2> QED
    BY <1>b, <2>1, <2>3, <2>4 DEF InOrder
<1>5. CASE CrashConsumer
  <2>1. CASE holds = NoMessage /\ UNCHANGED <<ready, Queued>>
    BY <1>5, <1>b, <2>1, CrashOK DEF InOrder
  <2>2. CASE holds \in Messages /\ Queued' = Queued \cup {holds} /\ ready' = <<holds>> \o ready
    <3>1. Sorted(ready')
      BY <1>a, <1>b, <2>2, ReturnQueue, QueuedIs
    <3>2. holds' = NoMessage /\ UNCHANGED fate
      BY <1>5, CrashOK
    <3> QED
      BY <1>a, <1>b, <2>2, <3>1, <3>2 DEF InOrder
  <2> QED
    BY <1>5, <2>1, <2>2, CrashOK
<1>6. CASE SyncFails \/ Expire
  BY <1>6, FailureSpoils
<1> QED
  BY <1>1, <1>2, <1>3, <1>4, <1>5, <1>6, MessageCases

-----------------------------------------------------------------------------
(* Documents that follow the row *)

LEMMA LeftBehindStays == [Next]_vars /\ leftBehind => leftBehind'
<1> SUFFICES ASSUME [Next]_vars, leftBehind
             PROVE  leftBehind'
  OBVIOUS
<1>1. ASSUME NEW s \in Sessions, Begin(s)
      PROVE  leftBehind'
  BY <1>1 DEF Begin, Create, SoftDelete, ReadReopen, ReadSilently, Transition, ReadOrder
<1>2. ASSUME NEW s \in Sessions, Continue(s) \/ CrashRequest(s)
      PROVE  leftBehind'
  BY <1>2 DEF Continue, CrashRequest, ReadDirectly, WriteDirectly, Build, PublishSync,
              CommitStale, CommitReopen, CommitSilently
<1> QED
  BY <1>1, <1>2 DEF Next, DeadlinePasses, SyncSucceeds, SyncFails, Broker, Search,
                    CacheAnswer, CacheExpires, vars

\* A step that changes neither the row nor what is published or will be for it.
LEMMA CoveredFrame ==
  ASSUME Covered, UNCHANGED <<status, deleted, doc>>, UNCHANGED index \/ ~AllNew,
         \A m \in Messages : fate'[m] = "new" <=> fate[m] = "new",
         \A s \in Sessions :
           /\ web[s].at \in {"index", "write", "build"} => web'[s].at \in {"index", "write", "build"}
           /\ web[s].at = "publish" => web'[s] = web[s]
  PROVE  Covered'
<1>1. AllNew' <=> AllNew
  BY DEF AllNew
<1>2. \A m \in Messages : Last(m)' <=> Last(m)
  BY DEF Last
<1>3. Current' = Current
  BY DEF Current
<1> QED
  BY <1>1, <1>2, <1>3 DEF Covered

\* Other sessions, and the messages, do not notice that a session commits.
LEMMA CoveredCommit ==
  ASSUME OrderTypeOK, Covered, NEW s \in Sessions, web[s].at # "publish",
         UNCHANGED <<deleted, doc, fate>>, web'[s].at \in {"index", "build"},
         \A t \in Sessions \ {s} : web'[t] = web[t]
  PROVE  Covered'
<1>1. CASE ~deleted
  BY <1>1 DEF Covered
<1>2. CASE deleted
  <2>1. Current' = Current
    BY <1>2 DEF Current
  <2>2. \A m \in Messages : Last(m)' <=> Last(m)
    BY DEF Last
  <2> QED
    BY <1>2, <2>1, <2>2 DEF Covered
<1> QED
  BY <1>1, <1>2 DEF OrderTypeOK

LEMMA PublishIsLast ==
  ASSUME BrokerOK, OrderTypeOK, Prefix, NEW s \in Sessions, PublishSync(s)
  PROVE  \E m \in Messages :
           /\ Last(m)' /\ doc'[m] = web[s].doc /\ fate'[m] \in {"queued", "unsent"}
<1>1. PICK m \in Messages :
        /\ fate[m] = "new" /\ doc' = [doc EXCEPT ![m] = web[s].doc]
        /\ \A n \in Messages \ {m} : fate'[n] = fate[n]
        /\ fate'[m] \in {"queued", "unsent"}
  BY PublishEffect
<1>2. PICK k \in 0 .. MaxMessages : \A i \in Messages : fate[i] = "new" <=> k < i
  BY DEF Prefix
<1>3. \A n \in Messages : m < n => fate'[n] = "new"
  BY <1>1, <1>2, ConsumersAssumption DEF Messages
<1>4. doc'[m] = web[s].doc
  BY <1>1 DEF OrderTypeOK
<1>5. fate'[m] # "new"
  BY <1>1
<1>6. Last(m)'
  BY <1>3, <1>5 DEF Last
<1> QED
  BY <1>1, <1>4, <1>6

LEMMA CoveredStep ==
  /\ BrokerOK /\ OrderTypeOK /\ RunsInv /\ Prefix /\ Covered
  /\ ~Spoiled' /\ ~leftBehind /\ ~leftBehind' /\ [Next]_vars
  => Covered'
<1> SUFFICES ASSUME BrokerOK, OrderTypeOK, RunsInv, Prefix, Covered,
                    ~Spoiled', ~leftBehind, ~leftBehind', [Next]_vars
             PROVE  Covered'
  OBVIOUS
<1>a. /\ \A at \in {"index", "write", "build", "publish", "reopen", "announce",
                  "reopened", "silent"}, what \in Docs : [at |-> at, doc |-> what] \in SessionStates
      /\ \A what \in Statuses : [at |-> "commit", doc |-> what] \in SessionStates
      /\ Statuses \cup {"none", "deleted"} \subseteq Docs /\ Idle.at = "idle"
      /\ status \in Docs
  BY DEF SessionStates, Publishing, Docs, Idle, OrderTypeOK
<1> USE DEF order, radar, brokerVars
<1>1. ASSUME NEW s \in Sessions,
             Create(s) \/ CommitStale(s) \/ \E to \in Statuses : Transition(s, to)
      PROVE  Covered'
  <2>1. PICK at \in {"index", "build"} : Goto(s, at, "none")
    BY <1>1 DEF Create, CommitStale, Transition
  <2>2. /\ web'[s].at = at /\ \A t \in Sessions \ {s} : web'[t] = web[t]
    BY <1>a, <2>1, SessionEffect
  <2>3. UNCHANGED <<deleted, doc, fate>> /\ web[s].at # "publish"
    BY <1>a, <1>1 DEF Create, CommitStale, Transition
  <2> QED
    BY <2>2, <2>3, CoveredCommit
<1>2. ASSUME NEW s \in Sessions, WriteDirectly(s)
      PROVE  Covered'
  <2>1. web'[s].at = "build" /\ \A t \in Sessions \ {s} : web'[t] = web[t]
    BY <1>a, <1>2, SessionEffect DEF WriteDirectly
  <2>2. UNCHANGED <<deleted, doc, fate>> /\ web[s].at # "publish"
    BY <1>2 DEF WriteDirectly
  <2> QED
    BY <2>1, <2>2, CoveredCommit
<1>3. ASSUME NEW s \in Sessions,
             \/ ReadDirectly(s) \/ ReadReopen(s) \/ ReadSilently(s)
             \/ \E to \in Statuses : ReadOrder(s, to)
      PROVE  Covered'
  <2>1. PICK at \in {"write", "reopen", "silent", "commit"}, what \in Docs :
          /\ [at |-> at, doc |-> what] \in SessionStates
          /\ Goto(s, at, what) /\ (web[s].at = "index" => at = "write")
    BY <1>a, <1>3 DEF ReadDirectly, ReadReopen, ReadSilently, ReadOrder, Docs
  <2>2. /\ web'[s].at = at /\ \A t \in Sessions \ {s} : web'[t] = web[t]
    BY <1>a, <2>1, SessionEffect
  <2>3. /\ UNCHANGED <<status, deleted, doc, index, fate>>
        /\ web[s].at \in {"idle", "index"}
    BY <1>a, <1>3 DEF ReadDirectly, ReadReopen, ReadSilently, ReadOrder
  <2> QED
    BY <2>1, <2>2, <2>3, CoveredFrame
<1>4. ASSUME NEW s \in Sessions, Build(s)
      PROVE  Covered'
  <2>1. PICK at \in {"publish", "announce"} :
          Goto(s, at, status) /\ (web[s].at = "build" <=> at = "publish")
    BY <1>4 DEF Build
  <2>2. /\ web'[s].at = at /\ web'[s].doc = status
        /\ \A t \in Sessions \ {s} : web'[t] = web[t]
    BY <1>a, <2>1, SessionEffect
  <2>3. UNCHANGED <<status, deleted, doc, index, fate>> /\ web[s].at \in {"build", "reopen"}
    BY <1>4 DEF Build
  <2>4. CASE web[s].at = "reopen"
    BY <2>2, <2>3, <2>4, CoveredFrame
  <2>5. CASE web[s].at = "build" /\ ~deleted
    <3>1. web'[s].at = "publish" /\ web'[s].doc = Current'
      BY <2>1, <2>2, <2>3, <2>5 DEF Current
    <3> QED
      BY <3>1 DEF Covered
  <2>6. CASE web[s].at = "build" /\ deleted
    <3>1. Current' = Current /\ \A m \in Messages : Last(m)' <=> Last(m)
      BY <2>3 DEF Current, Last
    <3> QED
      BY <2>2, <2>3, <2>6, <3>1 DEF Covered
  <2> QED
    BY <2>3, <2>4, <2>5, <2>6 DEF OrderTypeOK
<1>5. ASSUME NEW s \in Sessions, SoftDelete(s)
      PROVE  Covered'
  <2>1. web'[s].at = "publish" /\ web'[s].doc = "deleted"
    BY <1>a, <1>5, SessionEffect DEF SoftDelete
  <2>2. Current' = "deleted"
    BY <1>5 DEF SoftDelete, Current
  <2> QED
    BY <2>1, <2>2 DEF Covered
<1>6. ASSUME NEW s \in Sessions, PublishSync(s)
      PROVE  Covered'
  <2>1. UNCHANGED <<status, deleted, index>> /\ Current' = Current
    BY <1>6 DEF PublishSync, Current
  <2>2. CASE web[s].doc = Current
    BY <1>6, <2>1, <2>2, PublishIsLast DEF Covered
  <2>3. CASE web[s].doc # Current
    <3>1. ~Told
      BY <1>6, <2>3 DEF PublishSync
    <3>2. \A t \in Sessions \ {s} : web'[t] = web[t]
      BY <1>a, <1>6, SessionEffect, LeaveEffect DEF PublishSync
    <3>3. web[s].at \in {"publish", "announce"}
      BY <1>6 DEF PublishSync
    <3>4. ASSUME ~deleted, AllNew, index = status
          PROVE  FALSE
      BY <3>1, <3>4 DEF Told, Current
    <3>5. ASSUME NEW m \in Messages, Last(m), doc[m] = Current
          PROVE  FALSE
      BY <3>1, <3>5 DEF Told, AllNew, Last
    <3> QED
      BY <2>1, <2>3, <3>2, <3>3, <3>4, <3>5 DEF Covered
  <2> QED
    BY <2>2, <2>3
<1>7. ASSUME NEW s \in Sessions, CrashRequest(s)
      PROVE  Covered'
  <2>1. /\ UNCHANGED <<status, deleted, doc, index, fate>>
        /\ web[s].at \notin {"index", "write", "build", "publish"}
    BY <1>7 DEF CrashRequest
  <2>2. \A t \in Sessions \ {s} : web'[t] = web[t]
    BY <1>7, LeaveEffect DEF CrashRequest
  <2> QED
    BY <2>1, <2>2, CoveredFrame
<1>8. CASE SyncSucceeds
  <2>1. PICK h \in Messages :
           /\ fate[h] = "queued" /\ fate'[h] = "handled"
           /\ \A n \in Messages \ {h} : fate'[n] = fate[n]
    BY <1>8, SucceedEffect
  <2>2. UNCHANGED <<web, status, deleted, doc>> /\ ~AllNew
    BY <1>8, <2>1 DEF SyncSucceeds, AllNew
  <2> QED
    BY <2>1, <2>2, CoveredFrame
<1>9. CASE Broker
  <2>1. UNCHANGED <<web, status, deleted, doc, index>>
    BY <1>9 DEF Broker
  <2>2. CASE StartApi \/ StartConsumer \/ CrashConsumer \/ Deliver
    <3>1. \A m \in Messages : fate'[m] = "new" <=> fate[m] = "new"
      BY <2>2, CrashOK, DeliverEffect DEF StartApi, StartConsumer
    <3> QED
      BY <2>1, <3>1, CoveredFrame
  <2> QED
    BY <1>9, <2>2, FailureSpoils DEF Broker, BrokerStep
<1>10. CASE DeadlinePasses \/ Search \/ CacheAnswer \/ CacheExpires \/ UNCHANGED vars
  <2>1. UNCHANGED <<web, status, deleted, doc, index, fate>>
    BY <1>10 DEF DeadlinePasses, Search, CacheAnswer, CacheExpires, vars
  <2> QED
    BY <2>1, CoveredFrame
<1>11. CASE SyncFails
  BY <1>11, FailureSpoils
<1>12. ASSUME NEW s \in Sessions, CommitReopen(s) \/ CommitSilently(s)
       PROVE  FALSE
  BY <1>12 DEF CommitReopen, CommitSilently
<1> QED
  BY <1>1, <1>2, <1>3, <1>4, <1>5, <1>6, <1>7, <1>8, <1>9, <1>10, <1>11, <1>12
  DEF Next, Begin, Continue

\* A step that handles no message and writes no index.
LEMMA FollowsFrame ==
  ASSUME Follows, UNCHANGED <<doc, index>>,
         \A m \in Messages : (fate'[m] = "queued" <=> fate[m] = "queued")
                          /\ (fate'[m] = "handled" <=> fate[m] = "handled"),
         \A s \in Sessions :
           web[s].at \in {"build", "publish"} => web'[s].at \in {"build", "publish"}
  PROVE  Follows'
<1>1. \A m \in Messages : LastHandled(m)' <=> LastHandled(m)
  BY DEF LastHandled
<1> QED
  BY <1>1 DEF Follows

LEMMA FollowsStep ==
  /\ BrokerOK /\ OrderTypeOK /\ RunsInv /\ Prefix /\ InOrder /\ Follows
  /\ ~Spoiled' /\ ~leftBehind' /\ [Next]_vars
  => Follows'
<1> SUFFICES ASSUME BrokerOK, OrderTypeOK, RunsInv, Prefix, InOrder, Follows,
                    ~Spoiled', ~leftBehind', [Next]_vars
             PROVE  Follows'
  OBVIOUS
<1>a. /\ \A at \in {"index", "write", "build", "publish", "reopen", "announce",
                  "reopened", "silent"}, what \in Docs : [at |-> at, doc |-> what] \in SessionStates
      /\ \A what \in Statuses : [at |-> "commit", doc |-> what] \in SessionStates
      /\ Statuses \cup {"none", "deleted"} \subseteq Docs /\ Idle.at = "idle"
      /\ status \in Docs
  BY DEF SessionStates, Publishing, Docs, Idle, OrderTypeOK
<1>b. \A m \in Messages : ~Spoils(m)'
  BY DEF Spoiled
<1> USE DEF order, radar, brokerVars
<1>1. ASSUME NEW s \in Sessions,
             \/ Create(s) \/ CommitStale(s) \/ SoftDelete(s) \/ ReadDirectly(s)
             \/ ReadReopen(s) \/ ReadSilently(s) \/ Build(s)
             \/ \E to \in Statuses : Transition(s, to) \/ ReadOrder(s, to)
      PROVE  Follows'
  <2>1. PICK at, what :
          /\ [at |-> at, doc |-> what] \in SessionStates
          /\ Goto(s, at, what)
          /\ web[s].at \in {"build", "publish"} => at \in {"build", "publish"}
    BY <1>a, <1>1 DEF Create, CommitStale, SoftDelete, ReadDirectly, ReadReopen,
                      ReadSilently, Build, Transition, ReadOrder
  <2>2. web'[s].at = at /\ \A t \in Sessions \ {s} : web'[t] = web[t]
    BY <2>1, SessionEffect
  <2>3. UNCHANGED <<doc, index, fate>>
    BY <1>1 DEF Create, CommitStale, SoftDelete, ReadDirectly, ReadReopen,
                ReadSilently, Build, Transition, ReadOrder
  <2> QED
    BY <2>1, <2>2, <2>3, FollowsFrame
<1>2. ASSUME NEW s \in Sessions, WriteDirectly(s)
      PROVE  Follows'
  <2>1. web'[s].at = "build"
    BY <1>a, <1>2, SessionEffect DEF WriteDirectly
  <2> QED
    BY <2>1 DEF Follows
<1>3. ASSUME NEW s \in Sessions, PublishSync(s)
      PROVE  Follows'
  <2>1. PICK m \in Messages : fate'[m] = "queued"
    BY <1>b, <1>3, PublishIsLast DEF Spoils
  <2> QED
    BY <2>1 DEF Follows
<1>4. ASSUME NEW s \in Sessions, CrashRequest(s)
      PROVE  Follows'
  <2>1. UNCHANGED <<doc, index, fate>> /\ web[s].at \notin {"build", "publish"}
    BY <1>4 DEF CrashRequest
  <2>2. \A t \in Sessions \ {s} : web'[t] = web[t]
    BY <1>4, LeaveEffect DEF CrashRequest
  <2> QED
    BY <2>1, <2>2, FollowsFrame
<1>5. CASE SyncSucceeds
  <2>1. PICK h \in Messages :
           /\ h = holds /\ fate[h] = "queued" /\ fate'[h] = "handled" /\ index' = doc[h]
           /\ \A n \in Messages \ {h} : fate'[n] = fate[n]
    BY <1>5, SucceedEffect
  <2>2. doc' = doc
    BY <1>5 DEF SyncSucceeds
  <2>3. ASSUME NEW n \in Messages, LastHandled(n)'
        PROVE  n = h
    <3>1. fate'[n] = "handled" /\ h <= n
      BY <2>1, <2>3 DEF LastHandled
    <3>2. n # h => n < h
      BY <2>1, <3>1 DEF InOrder
    <3> QED
      BY <3>1, <3>2, ConsumersAssumption DEF Messages
  <2> QED
    BY <2>1, <2>2, <2>3 DEF Follows
<1>6. CASE Broker
  <2>1. UNCHANGED <<web, doc, index>>
    BY <1>6 DEF Broker
  <2>2. CASE StartApi \/ StartConsumer \/ CrashConsumer \/ Deliver
    <3>1. UNCHANGED fate
      BY <1>b, <2>2, CrashOK, DeliverEffect DEF StartApi, StartConsumer, Spoils
    <3> QED
      BY <2>1, <3>1, FollowsFrame
  <2> QED
    BY <1>6, <2>2, FailureSpoils DEF Broker, BrokerStep
<1>7. CASE DeadlinePasses \/ Search \/ CacheAnswer \/ CacheExpires \/ UNCHANGED vars
  <2>1. UNCHANGED <<web, doc, index, fate>>
    BY <1>7 DEF DeadlinePasses, Search, CacheAnswer, CacheExpires, vars
  <2> QED
    BY <2>1, FollowsFrame
<1>8. CASE SyncFails
  BY <1>8, FailureSpoils
<1>9. ASSUME NEW s \in Sessions, CommitReopen(s) \/ CommitSilently(s)
      PROVE  FALSE
  BY <1>9 DEF CommitReopen, CommitSilently
<1> QED
  BY <1>1, <1>2, <1>3, <1>4, <1>5, <1>6, <1>7, <1>8, <1>9 DEF Next, Begin, Continue

-----------------------------------------------------------------------------
(* The theorems *)

LEMMA TypeParts == TypeOK /\ Places <=> BrokerOK /\ OrderTypeOK
BY DEF TypeOK, BrokerOK, OrderTypeOK

LEMMA InitInv == Init => RunsInv /\ OrderInv
<1> SUFFICES ASSUME Init
             PROVE  RunsInv /\ OrderInv
  OBVIOUS
<1>1. /\ ready = <<>> /\ Queued = {} /\ Sorted(ready)
      /\ \A m \in Messages : fate[m] = "new" /\ runs[m] = 0 /\ returns[m] = 0 /\ m \notin key
  BY DEF Init, BrokerInit, Queued, Sorted
<1>2. RunsInv
  BY <1>1 DEF Init, BrokerInit, RunsInv, RunsOf
<1>3. Prefix
  BY <1>1, ConsumersAssumption DEF Prefix, Messages
<1>4. InOrder
  BY <1>1 DEF Init, BrokerInit, InOrder
<1>5. Covered /\ Follows
  BY <1>1 DEF Init, Covered, Follows, AllNew, LastHandled
<1> QED
  BY <1>2, <1>3, <1>4, <1>5 DEF OrderInv

LEMMA OrderStep == BrokerOK /\ OrderTypeOK /\ RunsInv /\ OrderInv /\ [Next]_vars => OrderInv'
<1> SUFFICES ASSUME BrokerOK, OrderTypeOK, RunsInv, OrderInv, [Next]_vars
             PROVE  OrderInv'
  OBVIOUS
<1>1. Prefix'
  BY PrefixStep DEF OrderInv
<1>2. ~Spoiled' => InOrder /\ InOrder'
  BY SpoiledStays, InOrderStep DEF OrderInv
<1>3. ~Spoiled' /\ ~leftBehind' => Covered' /\ Follows'
  BY <1>2, SpoiledStays, LeftBehindStays, CoveredStep, FollowsStep DEF OrderInv
<1> QED
  BY <1>1, <1>2, <1>3 DEF OrderInv

LEMMA Invariant == Spec => []IInv
<1>1. Init => IInv
  BY InitOK, InitInv, TypeParts DEF IInv
<1>2. BrokerOK /\ OrderTypeOK /\ [Next]_vars => TypeOK' /\ Places'
  <2>1. BrokerOK' /\ OrderTypeOK' => TypeOK' /\ Places'
    BY DEF TypeOK, BrokerOK, OrderTypeOK
  <2> QED
    BY <2>1, BrokerStepOK, OrderTypeStep
<1>3. IInv /\ [Next]_vars => IInv'
  BY <1>2, TypeParts, RunsStep, OrderStep DEF IInv
<1> QED
  BY <1>1, <1>3, PTL DEF Spec

\* TypeOK: of the broker and of the order; among it, that a message is queued or with
\* the handler exactly from its publication to its decision, never lost and never in
\* two places, whatever fails, dies, expires or comes back.
THEOREM TypeCorrect == Spec => []TypeOK
BY Invariant, PTL DEF IInv

\* HandledOnce: BaseConsumer does not call the handler more often than a message was
\* published, at first and to be tried again; without Redis, once more for every time
\* that it came back.
THEOREM HandlingIsOnce == Spec => []HandledOnce
<1>1. IInv => HandledOnce
  <2> SUFFICES ASSUME IInv, NEW m \in Messages
               PROVE  runs[m] <= 1 + retry[m] + (IF backed THEN 0 ELSE returns[m])
    BY DEF HandledOnce
  <2>1. /\ RunsOf(m) /\ runs[m] \in Nat /\ returns[m] \in 0 .. MaxFaults
        /\ retry[m] \in 0 .. MaxRetry
    BY DEF IInv, RunsInv, TypeOK, BrokerTypeOK
  <2> QED
    BY <2>1, ConsumersAssumption DEF RunsOf
<1> QED
  BY <1>1, Invariant, PTL

\* IndexIsCurrent: the documents that order_service publishes after its commits, however
\* the requests overlap, are handled in the order of their publication, and each is read
\* after the commit it is for, so that the index ends as the row.
THEOREM IndexFollows == Spec => []IndexIsCurrent
<1>1. IInv => IndexIsCurrent
  <2> SUFFICES ASSUME IInv, ~leftBehind, ~Busy,
                      \A m \in Messages : fate[m] \in {"new", "handled"}
               PROVE  index = Current
    BY DEF IndexIsCurrent
  <2>1. \A m \in Messages : fate[m] \in {"new", "handled"} /\ m \notin Queued
    BY DEF IInv, TypeOK, BrokerTypeOK
  <2>2. Covered /\ Follows
    BY <2>1 DEF IInv, OrderInv, Spoiled, Spoils
  <2>3. \A s \in Sessions : web[s].at = "idle"
    BY DEF Busy, Idle
  <2>4. \A m \in Messages : LastHandled(m) => index = doc[m]
    BY <2>1, <2>2, <2>3 DEF Follows
  <2>5. ASSUME NEW m \in Messages, Last(m), doc[m] = Current
        PROVE  index = Current
    <3>1. \A n \in Messages : m < n => fate[n] = "new"
      BY <2>5 DEF Last
    <3>2. LastHandled(m)
      BY <2>1, <2>5, <3>1, ConsumersAssumption DEF Last, LastHandled, Messages
    <3> QED
      BY <2>4, <2>5, <3>2
  <2> QED
    BY <2>2, <2>3, <2>5 DEF Covered, Current
<1> QED
  BY <1>1, Invariant, PTL

===============================================================================
