------------------------- MODULE QueueThreadsProofs -------------------------
(***************************************************************************)
(* Proofs about QueueThreads, for any producers, headers, filters and      *)
(* rules, any Maxlen and any number of messages.                           *)
(*                                                                         *)
(* The order, loss and wakeup properties all rest on the same few facts:   *)
(* the messages on the queue and those popped are older than the next one, *)
(* what decides about a message (rules, filter, Compare) sees its type,    *)
(* subtype and address only, and each critical section either appends one  *)
(* message, takes one out, or leaves the list alone.                       *)
(***************************************************************************)
EXTENDS QueueThreads, ListFacts, FiniteSetTheorems, TLAPS

(* Same signature: what Compare tests, and all that rules and filters see. *)
Alike(m, n) == m.type = n.type /\ m.subtype = n.subtype /\ m.addr = n.addr

(* What the properties say of the list alone. *)
Ordered(msgs) ==
  \A i, j \in DOMAIN msgs :
    i < j /\ Alike(msgs[i], msgs[j]) => msgs[i].id < msgs[j].id

Single(msgs) ==
  \A i, j \in DOMAIN msgs :
    i # j /\ Alike(msgs[i], msgs[j]) /\ IsDataOrCmd(msgs[i]) => Governed(msgs[i])

DataPlaces(msgs) == {i \in DOMAIN msgs : IsDataOrCmd(msgs[i])}

(* Messages are numbered in the order of Push. *)
AgeInv ==
  /\ nextId > 0
  /\ ToSet(q.msgs) \subseteq sent
  /\ \A m \in sent \cup got : m.id < nextId

(* The queue's settings are those the owner has made. *)
SettingsInv ==
  /\ \A i \in DOMAIN q.rules : q.rules[i] \in Rules
  /\ q.Replace \in replaced
  /\ q.Maxlen = MaxlenInit

OrderInv ==
  /\ Ordered(q.msgs)
  /\ \A m \in got, e \in ToSet(q.msgs) : Alike(m, e) => m.id < e.id

RepliesInv ==
  \A m \in sent :
    ~IsDataOrCmd(m) /\ ~Governed(m) => m \in ToSet(q.msgs) \cup got

LatestInv ==
  replaced = {TRUE} =>
    /\ Single(q.msgs)
    /\ \A m \in sent :
         IsDataOrCmd(m) /\ ~Governed(m) =>
           \/ m \in ToSet(q.msgs) \cup got
           \/ \E n \in sent : Alike(n, m) /\ n.id > m.id

LimitInv ==
  (replaced = {FALSE} /\ \A r \in Rules : r.replace # REPLACE) =>
    Cardinality(DataPlaces(q.msgs)) <= MaxlenInit

WakeInv ==
  owner = "blocked" =>
    \A m \in ToSet(q.msgs) :
      m.id >= since /\ FilterFriendly(q, m) => \E p \in Producers : notify[p] = m

IInv ==
  /\ TypeOK /\ AgeInv /\ SettingsInv
  /\ OrderInv /\ RepliesInv /\ LatestInv /\ LimitInv /\ WakeInv

-----------------------------------------------------------------------------
(***************************************************************************)
(* Lists of messages.                                                      *)
(***************************************************************************)

(* Compare, with its three wildcards, is Alike for messages. *)
LEMMA CompareIsAlike ==
  ASSUME NEW m \in Message, NEW n \in Message
  PROVE  Compare(m, n) <=> Alike(m, n)
BY DEF Compare, MatchMessage, Message, Alike, DATA, RESP_NACK

(* Rules and filters cannot tell two messages of one signature apart. *)
LEMMA AlikeJudgedAlike ==
  ASSUME NEW m \in Message, NEW n \in Message, Alike(m, n)
  PROVE  /\ IsDataOrCmd(m) <=> IsDataOrCmd(n)
         /\ \A r : RuleMatch(r, m) <=> RuleMatch(r, n)
         /\ Governed(m) <=> Governed(n)
         /\ \A quu : FilterFriendly(quu, m) <=> FilterFriendly(quu, n)
BY DEF Alike, IsDataOrCmd, IsResponse, RuleMatch, Governed, FilterFriendly, Filter

(* What taking a message out of a list preserves, and what is left. *)
LEMMA RemoveEffect ==
  ASSUME NEW msgs \in Seq(Message), NEW k \in DOMAIN msgs
  PROVE  LET rest == RemoveElement(msgs, k) IN
         /\ rest \in Seq(Message)
         /\ ToSet(rest) \subseteq ToSet(msgs)
         /\ ToSet(msgs) \subseteq ToSet(rest) \cup {msgs[k]}
         /\ \A e \in ToSet(rest) : \E i \in DOMAIN msgs : i # k /\ e = msgs[i]
         /\ Ordered(msgs) => Ordered(rest)
         /\ Single(msgs) => Single(rest)
<1> DEFINE rest == RemoveElement(msgs, k)
           old(j) == IF j < k THEN j ELSE j + 1
<1>1. DOMAIN msgs = 1..Len(msgs) /\ Len(msgs) \in Nat /\ k \in 1..Len(msgs) /\ k \in Nat
  BY LenProperties
<1>2. /\ rest \in Seq(Message) /\ Len(rest) = Len(msgs) - 1
      /\ \A j \in 1..(Len(msgs) - 1) : rest[j] = IF j < k THEN msgs[j] ELSE msgs[j + 1]
  BY <1>1, RemoveAtProperties DEF RemoveElement
<1>3. DOMAIN rest = 1..(Len(msgs) - 1)
  BY <1>2, LenProperties
<1> HIDE DEF rest
<1>4. \A j \in DOMAIN rest : old(j) \in DOMAIN msgs /\ old(j) # k /\ rest[j] = msgs[old(j)]
  BY <1>1, <1>2, <1>3
<1>5. \A i, j \in DOMAIN rest : (i < j => old(i) < old(j)) /\ (i # j => old(i) # old(j))
  BY <1>1, <1>3
<1>6. ASSUME NEW i \in DOMAIN msgs, i # k
      PROVE  \E j \in DOMAIN rest : rest[j] = msgs[i]
  <2>1. CASE i < k
    <3>1. i \in DOMAIN rest /\ rest[i] = msgs[i]
      BY <1>1, <1>2, <1>3, <2>1
    <3> QED
      BY <3>1
  <2>2. CASE i > k
    <3>1. i - 1 \in DOMAIN rest /\ ~(i - 1 < k) /\ (i - 1) + 1 = i
      BY <1>1, <1>3, <2>2
    <3>2. rest[i - 1] = msgs[i]
      BY <1>2, <1>3, <3>1
    <3> QED
      BY <3>1, <3>2
  <2> QED
    BY <1>1, <1>6, <2>1, <2>2
<1> HIDE DEF old
<1>7. \A e \in ToSet(rest) : \E i \in DOMAIN msgs : i # k /\ e = msgs[i]
  BY <1>4 DEF ToSet
<1>8. /\ ToSet(rest) \subseteq ToSet(msgs)
      /\ ToSet(msgs) \subseteq ToSet(rest) \cup {msgs[k]}
  BY <1>4, <1>6 DEF ToSet
<1>9. Ordered(msgs) => Ordered(rest)
  BY <1>4, <1>5 DEF Ordered
<1>10. Single(msgs) => Single(rest)
  BY <1>4, <1>5 DEF Single
<1> QED
  BY <1>2, <1>7, <1>8, <1>9, <1>10 DEF rest

(* Data and commands on a list are counted by naturals. *)
LEMMA DataPlacesFinite ==
  ASSUME NEW msgs \in Seq(Message)
  PROVE  /\ IsFiniteSet(DataPlaces(msgs))
         /\ Cardinality(DataPlaces(msgs)) \in Nat
         /\ Cardinality(DataPlaces(msgs)) <= Len(msgs)
<1>1. DOMAIN msgs = 1..Len(msgs) /\ Len(msgs) \in Nat
  BY LenProperties
<1>2. IsFiniteSet(DOMAIN msgs) /\ Cardinality(DOMAIN msgs) = Len(msgs)
  BY SMTT(30), <1>1, FS_Interval
<1>3. DataPlaces(msgs) \in SUBSET (DOMAIN msgs)
  BY DEF DataPlaces
<1> QED
  BY <1>2, <1>3, FS_Subset, FS_CardinalityType

(* Taking a message out makes no more places for data. *)
LEMMA RemoveCounts ==
  ASSUME NEW msgs \in Seq(Message), NEW k \in DOMAIN msgs
  PROVE  Cardinality(DataPlaces(RemoveElement(msgs, k))) <= Cardinality(DataPlaces(msgs))
<1> DEFINE rest == RemoveElement(msgs, k)
           f == [j \in DataPlaces(rest) |-> IF j < k THEN j ELSE j + 1]
<1>1. DOMAIN msgs = 1..Len(msgs) /\ Len(msgs) \in Nat /\ k \in 1..Len(msgs) /\ k \in Nat
  BY LenProperties
<1>2. /\ rest \in Seq(Message) /\ Len(rest) = Len(msgs) - 1
      /\ \A j \in 1..(Len(msgs) - 1) : rest[j] = IF j < k THEN msgs[j] ELSE msgs[j + 1]
  BY <1>1, RemoveAtProperties DEF RemoveElement
<1>3. DOMAIN rest = 1..(Len(msgs) - 1)
  BY <1>2, LenProperties
<1> HIDE DEF rest
<1>4. \A j \in DataPlaces(rest) : f[j] \in DataPlaces(msgs)
  BY <1>1, <1>2, <1>3 DEF DataPlaces
<1>5. \A i, j \in DataPlaces(rest) : f[i] = f[j] => i = j
  BY <1>1, <1>3 DEF DataPlaces
<1>6. f \in Injection(DataPlaces(rest), DataPlaces(msgs))
  BY <1>4, <1>5 DEF Injection, IsInjective
<1> QED
  BY <1>6, DataPlacesFinite, FS_Injection DEF rest

(* A message is put at the end of a list. *)
LEMMA AppendEffect ==
  ASSUME NEW msgs \in Seq(Message), NEW m \in Message
  PROVE  LET more == PushBack(msgs, m) IN
         /\ more \in Seq(Message)
         /\ ToSet(more) = ToSet(msgs) \cup {m}
         /\ Ordered(msgs) /\ (\A e \in ToSet(msgs) : e.id < m.id) => Ordered(more)
         /\ Single(msgs) /\ (IsDataOrCmd(m) /\ ~Governed(m)
                               => \A e \in ToSet(msgs) : ~Alike(e, m))
              => Single(more)
         /\ Cardinality(DataPlaces(more))
              = Cardinality(DataPlaces(msgs)) + IF IsDataOrCmd(m) THEN 1 ELSE 0
<1> DEFINE more == PushBack(msgs, m)
           n == Len(msgs) + 1
<1>1. DOMAIN msgs = 1..Len(msgs) /\ Len(msgs) \in Nat
  BY LenProperties
<1>2. /\ more \in Seq(Message) /\ DOMAIN more = 1..n
      /\ more[n] = m /\ \A i \in 1..Len(msgs) : more[i] = msgs[i]
  BY <1>1 DEF PushBack
<1> HIDE DEF more
<1>3. DOMAIN more = DOMAIN msgs \cup {n} /\ n \notin DOMAIN msgs
  BY <1>1, <1>2
<1>4. ToSet(more) = ToSet(msgs) \cup {m}
  BY <1>1, <1>2, <1>3 DEF ToSet
<1>5. Ordered(msgs) /\ (\A e \in ToSet(msgs) : e.id < m.id) => Ordered(more)
  BY <1>1, <1>2, <1>3 DEF Ordered, ToSet
<1>6. ASSUME Single(msgs),
             IsDataOrCmd(m) /\ ~Governed(m) => \A e \in ToSet(msgs) : ~Alike(e, m)
      PROVE  Single(more)
  <2> SUFFICES ASSUME NEW i \in DOMAIN more, NEW j \in DOMAIN more, i # j,
                      Alike(more[i], more[j]), IsDataOrCmd(more[i])
               PROVE  Governed(more[i])
    BY DEF Single
  <2>1. more[i] \in Message /\ more[j] \in Message
    BY <1>2, LenProperties, ElementOfSeq
  <2>2. CASE i # n /\ j # n
    BY <1>1, <1>2, <1>3, <1>6, <2>2 DEF Single
  <2>3. CASE i = n
    <3>1. more[j] \in ToSet(msgs) /\ Alike(more[j], m)
      BY <1>1, <1>2, <1>3, <2>3 DEF ToSet, Alike
    <3> QED
      BY <1>2, <1>6, <2>3, <3>1
  <2>4. CASE j = n
    <3>1. more[i] \in ToSet(msgs) /\ Alike(more[i], m)
      BY <1>1, <1>2, <1>3, <2>4 DEF ToSet
    <3>2. IsDataOrCmd(m) /\ (Governed(m) <=> Governed(more[i]))
      BY <2>1, <3>1, AlikeJudgedAlike
    <3> QED
      BY <1>6, <3>1, <3>2
  <2> QED
    BY <2>2, <2>3, <2>4
<1>7. Cardinality(DataPlaces(more))
        = Cardinality(DataPlaces(msgs)) + IF IsDataOrCmd(m) THEN 1 ELSE 0
  <2>1. IsFiniteSet(DataPlaces(msgs)) /\ Cardinality(DataPlaces(msgs)) \in Nat
    BY DataPlacesFinite
  <2>2. CASE IsDataOrCmd(m)
    <3>1. DataPlaces(more) = DataPlaces(msgs) \cup {n} /\ n \notin DataPlaces(msgs)
      BY <1>1, <1>2, <1>3, <2>2 DEF DataPlaces
    <3> QED
      BY <2>1, <2>2, <3>1, FS_AddElement
  <2>3. CASE ~IsDataOrCmd(m)
    <3>1. DataPlaces(more) = DataPlaces(msgs)
      BY <1>1, <1>2, <1>3, <2>3 DEF DataPlaces
    <3> QED
      BY <2>1, <2>3, <3>1
  <2> QED
    BY <2>2, <2>3
<1> QED
  BY <1>2, <1>4, <1>5, <1>6, <1>7 DEF more

-----------------------------------------------------------------------------
(***************************************************************************)
(* Push and Pop.                                                           *)
(***************************************************************************)

(* The search from the tail finds a message of the signature, if any. *)
LEMMA LastSameFinds ==
  ASSUME NEW msgs \in Seq(Message), NEW m \in Message, LastSame(msgs, m) = {}
  PROVE  \A e \in ToSet(msgs) : ~Alike(e, m)
<1> DEFINE T == {i \in DOMAIN msgs : Compare(msgs[i], m)}
<1>1. DOMAIN msgs = 1..Len(msgs) /\ Len(msgs) \in Nat
  BY LenProperties
<1>2. T = {}
  <2> SUFFICES ASSUME T # {} PROVE FALSE
    OBVIOUS
  <2>1. T \in SUBSET (0..Len(msgs))
    BY <1>1
  <2>2. PICK x \in T : \A y \in T : y <= x
    BY <1>1, <2>1, GreatestElement
  <2>3. \A j \in (x+1)..Len(msgs) : ~Compare(msgs[j], m)
    BY <1>1, <2>2
  <2>4. x \in LastSame(msgs, m)
    BY <2>2, <2>3 DEF LastSame
  <2> QED
    BY <2>4
<1>3. \A i \in DOMAIN msgs : msgs[i] \in Message
  BY <1>1, ElementOfSeq
<1> QED
  BY <1>2, <1>3, CompareIsAlike DEF ToSet

(* A message no rule speaks about is judged by the default rule. *)
LEMMA DefaultRule ==
  ASSUME NEW quu \in QueueType, \A i \in DOMAIN quu.rules : quu.rules[i] \in Rules,
         NEW m \in Message
  PROVE  /\ ~Governed(m) => CheckReplace(quu, m)
                              = IF IsDataOrCmd(m) /\ quu.Replace THEN REPLACE ELSE ACCEPT
         /\ CheckReplace(quu, m) = REPLACE => Governed(m) \/ IsDataOrCmd(m)
         /\ (\A r \in Rules : r.replace # REPLACE) /\ ~quu.Replace
              => CheckReplace(quu, m) # REPLACE
         /\ CheckReplace(quu, m) \in {ACCEPT, REPLACE, IGNORE}
<1>1. CASE FirstMatch(quu, m) = {}
  BY <1>1 DEF CheckReplace, REPLACE, ACCEPT
<1>2. CASE FirstMatch(quu, m) # {}
  <2>1. PICK i \in FirstMatch(quu, m) : CheckReplace(quu, m) = quu.rules[i].replace
    BY <1>2 DEF CheckReplace
  <2>2. quu.rules[i] \in Rules /\ RuleMatch(quu.rules[i], m)
    BY <2>1 DEF FirstMatch
  <2>3. quu.rules[i].replace \in {ACCEPT, REPLACE, IGNORE}
    BY <2>2, ConstantsAssumption DEF Rule, ACCEPT, REPLACE, IGNORE
  <2> QED
    BY <2>1, <2>2, <2>3 DEF Governed
<1> QED
  BY <1>1, <1>2

(* Push leaves the list alone, appends, or appends in place of the last    *)
(* message of the same signature.                                          *)
LEMMA PushEffect ==
  ASSUME NEW quu \in QueueType, NEW m \in Message
  PROVE  /\ Push(quu, m) \in QueueType
         /\ Push(quu, m).rules = quu.rules /\ Push(quu, m).Replace = quu.Replace
         /\ Push(quu, m).Maxlen = quu.Maxlen
         /\ Push(quu, m).filter_on = quu.filter_on /\ Push(quu, m).filter = quu.filter
         /\ ~Queues(quu, m) => Push(quu, m).msgs = quu.msgs
         /\ Queues(quu, m) =>
              \/ /\ CheckReplace(quu, m) = REPLACE => LastSame(quu.msgs, m) = {}
                 /\ Push(quu, m).msgs = PushBack(quu.msgs, m)
              \/ /\ CheckReplace(quu, m) = REPLACE
                 /\ \E k \in LastSame(quu.msgs, m) :
                      Push(quu, m).msgs = PushBack(RemoveElement(quu.msgs, k), m)
<1>1. quu.msgs \in Seq(Message)
  BY DEF QueueType
<1>2. CASE CheckReplace(quu, m) = IGNORE
  BY <1>2 DEF Push, Queues
<1>3. CASE CheckReplace(quu, m) # IGNORE /\ Overflows(quu, m)
  BY <1>3 DEF Push, Queues, QueueType
<1>4. CASE Queues(quu, m) /\ CheckReplace(quu, m) # REPLACE
  <2>1. Push(quu, m) = [quu EXCEPT !.msgs = PushBack(quu.msgs, m)]
    BY <1>4 DEF Push, Queues
  <2>2. PushBack(quu.msgs, m) \in Seq(Message)
    BY <1>1, AppendEffect
  <2> QED
    BY <1>4, <2>1, <2>2 DEF QueueType
<1>5. CASE Queues(quu, m) /\ CheckReplace(quu, m) = REPLACE /\ LastSame(quu.msgs, m) = {}
  <2>1. Push(quu, m) = [quu EXCEPT !.msgs = PushBack(quu.msgs, m)]
    BY <1>5 DEF Push, Queues, WithoutLastSame
  <2>2. PushBack(quu.msgs, m) \in Seq(Message)
    BY <1>1, AppendEffect
  <2> QED
    BY <1>5, <2>1, <2>2 DEF QueueType
<1>6. CASE Queues(quu, m) /\ CheckReplace(quu, m) = REPLACE /\ LastSame(quu.msgs, m) # {}
  <2>1. PICK k \in LastSame(quu.msgs, m) :
          WithoutLastSame(quu.msgs, m) = RemoveElement(quu.msgs, k)
    BY <1>6 DEF WithoutLastSame
  <2>2. Push(quu, m) = [quu EXCEPT !.msgs = PushBack(RemoveElement(quu.msgs, k), m)]
    BY <1>6, <2>1 DEF Push, Queues
  <2>3. RemoveElement(quu.msgs, k) \in Seq(Message)
    BY <1>1, RemoveEffect DEF LastSame
  <2>4. PushBack(RemoveElement(quu.msgs, k), m) \in Seq(Message)
    BY <2>3, AppendEffect
  <2> QED
    BY <1>6, <2>1, <2>2, <2>4 DEF QueueType
<1> QED
  BY <1>2, <1>3, <1>4, <1>5, <1>6 DEF Queues

(* Pop takes the oldest message of its signature. *)
LEMMA PopEffect ==
  ASSUME NEW quu \in QueueType, NEW i \in PopIndex(quu)
  PROVE  /\ PopAt(quu, i) \in QueueType
         /\ i \in DOMAIN quu.msgs /\ quu.msgs[i] \in Message
         /\ PopAt(quu, i).msgs = RemoveElement(quu.msgs, i)
         /\ PopAt(quu, i).rules = quu.rules /\ PopAt(quu, i).Replace = quu.Replace
         /\ PopAt(quu, i).Maxlen = quu.Maxlen
         /\ PopAt(quu, i).filter_on = quu.filter_on /\ PopAt(quu, i).filter = quu.filter
         /\ Ordered(quu.msgs) =>
              \A e \in ToSet(RemoveElement(quu.msgs, i)) :
                Alike(quu.msgs[i], e) => quu.msgs[i].id < e.id
<1>1. /\ quu.msgs \in Seq(Message) /\ i \in DOMAIN quu.msgs
      /\ DOMAIN quu.msgs = 1..Len(quu.msgs) /\ Len(quu.msgs) \in Nat
      /\ \A j \in DOMAIN quu.msgs : quu.msgs[j] \in Message
  BY LenProperties, ElementOfSeq DEF QueueType, PopIndex
<1>2. RemoveElement(quu.msgs, i) \in Seq(Message)
  BY <1>1, RemoveEffect
<1>3. /\ PopAt(quu, i) \in QueueType
      /\ PopAt(quu, i).msgs = RemoveElement(quu.msgs, i)
      /\ PopAt(quu, i).rules = quu.rules /\ PopAt(quu, i).Replace = quu.Replace
      /\ PopAt(quu, i).Maxlen = quu.Maxlen
      /\ PopAt(quu, i).filter_on = quu.filter_on /\ PopAt(quu, i).filter = quu.filter
  BY <1>2 DEF PopAt, QueueType
<1>4. ASSUME NEW j \in DOMAIN quu.msgs, j < i, Alike(quu.msgs[i], quu.msgs[j])
      PROVE  FALSE
  <2>1. Deliverable(quu, i) /\ ~Deliverable(quu, j)
    BY <1>1, <1>4 DEF PopIndex
  <2>2. FilterFriendly(quu, quu.msgs[i]) <=> FilterFriendly(quu, quu.msgs[j])
    BY <1>1, <1>4, AlikeJudgedAlike
  <2> QED
    BY <2>1, <2>2 DEF Deliverable
<1>5. ASSUME Ordered(quu.msgs), NEW e \in ToSet(RemoveElement(quu.msgs, i)),
             Alike(quu.msgs[i], e)
      PROVE  quu.msgs[i].id < e.id
  <2>1. PICK j \in DOMAIN quu.msgs : j # i /\ e = quu.msgs[j]
    BY ZenonT(60), <1>1, RemoveEffect
  <2>2. i < j
    BY <1>1, <1>4, <1>5, <2>1
  <2> QED
    BY <1>1, <1>5, <2>1, <2>2 DEF Ordered
<1> QED
  BY <1>1, <1>3, <1>5

-----------------------------------------------------------------------------
(***************************************************************************)
(* IInv is inductive.                                                      *)
(***************************************************************************)

(* The mark of a producer with nothing to signal. *)
LEMMA NoneIsNoMessage == None \notin Message
BY DEF None, Message, DATA, RESP_NACK

(* What a producer's critical section does to the whole invariant. *)
LEMMA PushInductive ==
  ASSUME IInv, NEW p \in Producers, NEW h \in Headers, PushMsg(p, h)
  PROVE  IInv'
<1> DEFINE m == WithId(h, nextId)
<1>1. /\ notify[p] = None /\ nextId' = nextId + 1 /\ q' = Push(q, m)
      /\ notify' = IF Queues(q, m) THEN [notify EXCEPT ![p] = m] ELSE notify
      /\ sent' = sent \cup {m}
      /\ UNCHANGED <<owner, timed, got, replaced, since>>
  BY DEF PushMsg
<1>2. m \in Message /\ m.id = nextId
  BY ConstantsAssumption DEF WithId, Header, Message, IInv, TypeOK
<1> HIDE DEF m
<1>3. /\ q \in QueueType /\ q.msgs \in Seq(Message) /\ nextId \in Nat
      /\ sent \subseteq Message /\ got \subseteq Message
  BY DEF IInv, TypeOK, QueueType
<1>4. /\ q' \in QueueType /\ q'.rules = q.rules /\ q'.Replace = q.Replace
      /\ q'.Maxlen = q.Maxlen /\ q'.filter_on = q.filter_on /\ q'.filter = q.filter
      /\ ~Queues(q, m) => q'.msgs = q.msgs
      /\ Queues(q, m) =>
           \/ /\ CheckReplace(q, m) = REPLACE => LastSame(q.msgs, m) = {}
              /\ q'.msgs = PushBack(q.msgs, m)
           \/ /\ CheckReplace(q, m) = REPLACE
              /\ \E k \in LastSame(q.msgs, m) :
                   q'.msgs = PushBack(RemoveElement(q.msgs, k), m)
  BY <1>1, <1>2, <1>3, PushEffect
<1>5. /\ ~Governed(m) => CheckReplace(q, m)
                              = IF IsDataOrCmd(m) /\ q.Replace THEN REPLACE ELSE ACCEPT
      /\ CheckReplace(q, m) = REPLACE => Governed(m) \/ IsDataOrCmd(m)
      /\ (\A r \in Rules : r.replace # REPLACE) /\ ~q.Replace
              => CheckReplace(q, m) # REPLACE
      /\ CheckReplace(q, m) \in {ACCEPT, REPLACE, IGNORE}
  BY <1>2, <1>3, DefaultRule DEF IInv, SettingsInv
<1>6. \A e \in sent \cup got : e.id < m.id
  BY <1>2 DEF IInv, AgeInv
<1>7. ToSet(q.msgs) \subseteq sent
  BY DEF IInv, AgeInv
(* base: the messages m is appended to *)
<1>8. Queues(q, m) =>
        \E base \in Seq(Message) :
          /\ q'.msgs = PushBack(base, m)
          /\ ToSet(base) \subseteq ToSet(q.msgs)
          /\ \A e \in ToSet(q.msgs) :
               e \in ToSet(base) \/ (Alike(e, m) /\ (Governed(m) \/ IsDataOrCmd(m)))
          /\ Ordered(q.msgs) => Ordered(base)
          /\ Single(q.msgs) => Single(base)
          /\ CheckReplace(q, m) = REPLACE /\ Single(q.msgs) /\ IsDataOrCmd(m) /\ ~Governed(m)
               => \A e \in ToSet(base) : ~Alike(e, m)
          /\ CheckReplace(q, m) # REPLACE => base = q.msgs
  <2> SUFFICES ASSUME Queues(q, m)
               PROVE  \E base \in Seq(Message) :
          /\ q'.msgs = PushBack(base, m)
          /\ ToSet(base) \subseteq ToSet(q.msgs)
          /\ \A e \in ToSet(q.msgs) :
               e \in ToSet(base) \/ (Alike(e, m) /\ (Governed(m) \/ IsDataOrCmd(m)))
          /\ Ordered(q.msgs) => Ordered(base)
          /\ Single(q.msgs) => Single(base)
          /\ CheckReplace(q, m) = REPLACE /\ Single(q.msgs) /\ IsDataOrCmd(m) /\ ~Governed(m)
               => \A e \in ToSet(base) : ~Alike(e, m)
          /\ CheckReplace(q, m) # REPLACE => base = q.msgs
    OBVIOUS
  <2>1. CASE /\ CheckReplace(q, m) = REPLACE => LastSame(q.msgs, m) = {}
             /\ q'.msgs = PushBack(q.msgs, m)
    BY <1>2, <1>3, <2>1, LastSameFinds
  <2>2. CASE /\ CheckReplace(q, m) = REPLACE
             /\ \E k \in LastSame(q.msgs, m) : q'.msgs = PushBack(RemoveElement(q.msgs, k), m)
    <3>1. PICK k \in LastSame(q.msgs, m) : q'.msgs = PushBack(RemoveElement(q.msgs, k), m)
      BY <2>2
    <3> DEFINE base == RemoveElement(q.msgs, k)
    <3>2. k \in DOMAIN q.msgs /\ Compare(q.msgs[k], m)
      BY DEF LastSame
    <3>3. \A j \in DOMAIN q.msgs : q.msgs[j] \in Message
      BY <1>3, LenProperties, ElementOfSeq
    <3>4. Alike(q.msgs[k], m)
      BY <1>2, <3>2, <3>3, CompareIsAlike
    <3>5. /\ base \in Seq(Message)
          /\ ToSet(base) \subseteq ToSet(q.msgs)
          /\ ToSet(q.msgs) \subseteq ToSet(base) \cup {q.msgs[k]}
          /\ \A e \in ToSet(base) : \E i \in DOMAIN q.msgs : i # k /\ e = q.msgs[i]
          /\ Ordered(q.msgs) => Ordered(base)
          /\ Single(q.msgs) => Single(base)
      BY <1>3, <3>2, RemoveEffect
    <3> HIDE DEF base
    <3>6. ASSUME Single(q.msgs), IsDataOrCmd(m), ~Governed(m),
                 NEW e \in ToSet(base), Alike(e, m)
          PROVE  FALSE
      <4>1. PICK i \in DOMAIN q.msgs : i # k /\ e = q.msgs[i]
        BY <3>5
      <4>2. Alike(q.msgs[i], q.msgs[k])
        BY <3>4, <3>6, <4>1 DEF Alike
      <4>3. e \in Message /\ IsDataOrCmd(e) /\ ~Governed(e)
        BY <1>2, <3>3, <3>6, <4>1, AlikeJudgedAlike
      <4> QED
        BY <3>2, <3>6, <4>1, <4>2, <4>3 DEF Single
    <3>7. q'.msgs = PushBack(base, m)
      BY <3>1 DEF base
    <3> QED
      BY <1>5, <2>2, <3>4, <3>5, <3>6, <3>7
  <2> QED
    BY <1>4, <2>1, <2>2
<1>9. /\ Queues(q, m) => m \in ToSet(q'.msgs)
      /\ \A e \in ToSet(q.msgs) :
           e \in ToSet(q'.msgs) \/ (Alike(e, m) /\ (Governed(m) \/ IsDataOrCmd(m)))
      /\ ToSet(q'.msgs) \subseteq ToSet(q.msgs) \cup (IF Queues(q, m) THEN {m} ELSE {})
  BY <1>2, <1>4, <1>8, AppendEffect
<1>10. TypeOK'
  BY <1>1, <1>2, <1>3, <1>4 DEF IInv, TypeOK
<1>11. AgeInv'
  BY <1>1, <1>2, <1>3, <1>6, <1>7, <1>9 DEF IInv, AgeInv, Message
<1>12. SettingsInv'
  BY <1>1, <1>4 DEF IInv, SettingsInv
<1>13. OrderInv'
  <2>1. Ordered(q'.msgs)
    BY <1>2, <1>3, <1>4, <1>6, <1>7, <1>8, AppendEffect DEF IInv, OrderInv
  <2>2. \A g \in got, e \in ToSet(q'.msgs) : Alike(g, e) => g.id < e.id
    BY <1>6, <1>9 DEF IInv, OrderInv
  <2> QED
    BY <1>1, <2>1, <2>2 DEF OrderInv
<1>14. RepliesInv'
  <2> SUFFICES ASSUME NEW x \in sent', ~IsDataOrCmd(x), ~Governed(x)
               PROVE  x \in ToSet(q'.msgs) \cup got
    BY <1>1 DEF RepliesInv
  <2>1. CASE x = m
    <3>1. Queues(q, m)
      BY <1>5, <2>1 DEF Queues, Overflows, ACCEPT, IGNORE
    <3> QED
      BY <1>9, <2>1, <3>1
  <2>2. CASE x \in sent
    <3>1. x \in ToSet(q.msgs) \cup got /\ x \in Message
      BY <1>3, <2>2 DEF IInv, RepliesInv
    <3>2. Alike(x, m) => ~Governed(m) /\ ~IsDataOrCmd(m)
      BY <1>2, <3>1, AlikeJudgedAlike
    <3> QED
      BY <1>9, <3>1, <3>2
  <2> QED
    BY <1>1, <2>1, <2>2
<1>15. LatestInv'
  <2> SUFFICES ASSUME replaced = {TRUE}
               PROVE  /\ Single(q'.msgs)
                      /\ \A x \in sent' :
                           IsDataOrCmd(x) /\ ~Governed(x) =>
                             \/ x \in ToSet(q'.msgs) \cup got
                             \/ \E n \in sent' : Alike(n, x) /\ n.id > x.id
    BY <1>1 DEF LatestInv
  <2>1. q.Replace = TRUE /\ Single(q.msgs)
    BY DEF IInv, SettingsInv, LatestInv
  <2>2. IsDataOrCmd(m) /\ ~Governed(m) => CheckReplace(q, m) = REPLACE /\ Queues(q, m)
    BY <1>5, <2>1 DEF Queues, Overflows, ACCEPT, IGNORE, REPLACE
  <2>3. Single(q'.msgs)
    BY <1>2, <1>4, <1>8, <2>1, <2>2, AppendEffect
  <2>4. ASSUME NEW x \in sent', IsDataOrCmd(x), ~Governed(x)
        PROVE  \/ x \in ToSet(q'.msgs) \cup got
               \/ \E n \in sent' : Alike(n, x) /\ n.id > x.id
    <3>1. CASE x = m
      BY <1>9, <2>2, <2>4, <3>1
    <3>2. CASE x \in sent /\ x \in ToSet(q.msgs) \cup got
      <4>1. x \in ToSet(q'.msgs) \cup got \/ Alike(x, m)
        BY <1>9, <3>2
      <4>2. Alike(x, m) => Alike(m, x) /\ m.id > x.id
        BY <1>6, <1>3, <1>2, <3>2 DEF Alike, Message
      <4> QED
        BY <1>1, <4>1, <4>2
    <3>3. CASE x \in sent /\ \E n \in sent : Alike(n, x) /\ n.id > x.id
      BY <1>1, <3>3
    <3> QED
      BY <1>1, <2>4, <3>1, <3>2, <3>3 DEF IInv, LatestInv
  <2> QED
    BY <2>3, <2>4
<1>16. LimitInv'
  <2> SUFFICES ASSUME replaced = {FALSE}, \A r \in Rules : r.replace # REPLACE
               PROVE  Cardinality(DataPlaces(q'.msgs)) <= MaxlenInit
    BY <1>1 DEF LimitInv
  <2>1. ~q.Replace /\ Cardinality(DataPlaces(q.msgs)) <= MaxlenInit /\ q.Maxlen = MaxlenInit
    BY DEF IInv, SettingsInv, LimitInv
  <2>2. CheckReplace(q, m) # REPLACE
    BY <1>5, <2>1
  <2>3. CASE ~Queues(q, m)
    BY <1>4, <2>1, <2>3
  <2>4. CASE Queues(q, m)
    <3>1. q'.msgs = PushBack(q.msgs, m)
      BY <1>8, <2>2, <2>4
    <3>2. Cardinality(DataPlaces(q'.msgs))
            = Cardinality(DataPlaces(q.msgs)) + IF IsDataOrCmd(m) THEN 1 ELSE 0
      BY <1>2, <1>3, <3>1, AppendEffect
    <3>3. /\ Cardinality(DataPlaces(q.msgs)) \in Nat
          /\ Cardinality(DataPlaces(q.msgs)) <= Len(q.msgs) /\ Len(q.msgs) \in Nat
      BY <1>3, DataPlacesFinite, LenProperties
    <3>4. IsDataOrCmd(m) => Len(q.msgs) < MaxlenInit
      <4>1. CheckReplace(q, m) = ACCEPT
        BY <1>5, <2>2, <2>4 DEF Queues
      <4> QED
        BY <2>1, <2>4, <3>3, <4>1, ConstantsAssumption DEF Queues, Overflows
    <3> QED
      BY <2>1, <3>2, <3>3, <3>4, ConstantsAssumption
  <2> QED
    BY <2>3, <2>4
<1>17. WakeInv'
  <2> SUFFICES ASSUME owner = "blocked", NEW x \in ToSet(q'.msgs),
                      x.id >= since, FilterFriendly(q', x)
               PROVE  \E pp \in Producers : notify'[pp] = x
    BY <1>1 DEF WakeInv
  <2>1. FilterFriendly(q, x)
    BY <1>4 DEF FilterFriendly
  <2>2. CASE Queues(q, m) /\ x = m
    BY <1>1, <2>2 DEF IInv, TypeOK
  <2>3. CASE x \in ToSet(q.msgs)
    <3>1. PICK pp \in Producers : notify[pp] = x
      BY <2>1, <2>3 DEF IInv, WakeInv
    <3>2. pp # p
      <4>1. x \in Message
        BY <1>3, <1>7, <2>3
      <4> QED
        BY <1>1, <3>1, <4>1, NoneIsNoMessage
    <3> QED
      BY <1>1, <3>1, <3>2 DEF IInv, TypeOK
  <2> QED
    BY <1>9, <2>2, <2>3
<1> QED
  BY <1>10, <1>11, <1>12, <1>13, <1>14, <1>15, <1>16, <1>17 DEF IInv

(* A message is delivered. *)
LEMMA PopInductive ==
  ASSUME IInv, PopMsg
  PROVE  IInv'
<1>1. PICK i \in PopIndex(q) : q' = PopAt(q, i) /\ got' = got \cup {q.msgs[i]}
  BY DEF PopMsg
<1>2. /\ owner = "idle"
      /\ UNCHANGED <<notify, owner, timed, nextId, sent, replaced, since>>
  BY DEF PopMsg
<1>3. /\ q \in QueueType /\ q.msgs \in Seq(Message) /\ nextId \in Nat
      /\ sent \subseteq Message /\ got \subseteq Message
  BY DEF IInv, TypeOK, QueueType
<1> DEFINE m == q.msgs[i]
<1>4. /\ q' \in QueueType /\ q'.rules = q.rules /\ q'.Replace = q.Replace
      /\ q'.Maxlen = q.Maxlen
      /\ i \in DOMAIN q.msgs /\ m \in Message
      /\ q'.msgs = RemoveElement(q.msgs, i)
      /\ \A e \in ToSet(q'.msgs) : Alike(m, e) => m.id < e.id
  BY <1>1, <1>3, PopEffect DEF IInv, OrderInv
<1>5. /\ ToSet(q'.msgs) \subseteq ToSet(q.msgs)
      /\ ToSet(q.msgs) \subseteq ToSet(q'.msgs) \cup {m}
      /\ Ordered(q.msgs) => Ordered(q'.msgs)
      /\ Single(q.msgs) => Single(q'.msgs)
      /\ Cardinality(DataPlaces(q'.msgs)) <= Cardinality(DataPlaces(q.msgs))
      /\ Cardinality(DataPlaces(q'.msgs)) \in Nat /\ Cardinality(DataPlaces(q.msgs)) \in Nat
  BY <1>3, <1>4, RemoveEffect, RemoveCounts, DataPlacesFinite
<1>6. m \in ToSet(q.msgs)
  BY <1>4 DEF ToSet
<1>7. got' = got \cup {m}
  BY <1>1
<1> HIDE DEF m
<1>8. TypeOK'
  BY <1>2, <1>3, <1>4, <1>7 DEF IInv, TypeOK
<1>9. AgeInv' /\ SettingsInv'
  BY <1>2, <1>4, <1>5, <1>6, <1>7 DEF IInv, AgeInv, SettingsInv
<1>10. OrderInv'
  BY <1>4, <1>5, <1>7 DEF IInv, OrderInv
<1>11. RepliesInv'
  BY <1>2, <1>5, <1>7 DEF IInv, RepliesInv
<1>12. LatestInv'
  BY <1>2, <1>5, <1>7 DEF IInv, LatestInv
<1>13. LimitInv'
  BY <1>2, <1>5, ConstantsAssumption DEF IInv, LimitInv
<1>14. WakeInv'
  BY <1>2 DEF WakeInv
<1> QED
  BY <1>8, <1>9, <1>10, <1>11, <1>12, <1>13, <1>14 DEF IInv

(* The owner changes a setting of its queue while it is awake. *)
LEMMA SettingInductive ==
  ASSUME IInv, owner = "idle", q' \in QueueType, q'.msgs = q.msgs,
         q'.Maxlen = q.Maxlen, \A i \in DOMAIN q'.rules : q'.rules[i] \in Rules,
         q'.Replace \in replaced', replaced \subseteq replaced',
         replaced' \subseteq BOOLEAN,
         UNCHANGED <<notify, owner, timed, nextId, sent, got, since>>
  PROVE  IInv'
<1>1. TypeOK' /\ AgeInv' /\ SettingsInv'
  BY DEF IInv, TypeOK, AgeInv, SettingsInv
<1>2. OrderInv' /\ RepliesInv' /\ WakeInv'
  BY DEF IInv, OrderInv, RepliesInv, WakeInv
<1>3. \A b : replaced' = {b} => replaced = {b}
  BY DEF IInv, SettingsInv
<1>4. LatestInv' /\ LimitInv'
  BY <1>3 DEF IInv, LatestInv, LimitInv
<1> QED
  BY <1>1, <1>2, <1>4 DEF IInv

(* Rules stay rules the owner has added. *)
LEMMA RuleInductive ==
  ASSUME IInv, NEW r \in Rules, AddRule(r)
  PROVE  IInv'
<1> DEFINE overwritten ==
      [i \in DOMAIN q.rules |->
         IF /\ Equivalent(q.rules[i], r)
            /\ \A j \in 1..(i-1) : ~Equivalent(q.rules[j], r)
         THEN r ELSE q.rules[i]]
<1>1. /\ q \in QueueType /\ q.rules \in Seq(Rule) /\ r \in Rule
      /\ \A i \in DOMAIN q.rules : q.rules[i] \in Rules /\ q.rules[i] \in Rule
  BY ConstantsAssumption DEF IInv, TypeOK, QueueType, SettingsInv
<1>2. DOMAIN q.rules = 1..Len(q.rules) /\ Len(q.rules) \in Nat
  BY <1>1, LenProperties
<1>3. \A i \in 1..Len(q.rules) : overwritten[i] \in Rules /\ overwritten[i] \in Rule
  BY <1>1, <1>2
<1>4. DOMAIN overwritten = 1..Len(q.rules)
  BY <1>2
<1>5. overwritten \in [1..Len(q.rules) -> Rule]
  BY <1>2, <1>3
<1> HIDE DEF overwritten
<1>6. overwritten \in Seq(Rule)
  BY <1>2, <1>5, SeqDef
<1>7. /\ Append(q.rules, r) \in Seq(Rule)
      /\ \A i \in DOMAIN Append(q.rules, r) : Append(q.rules, r)[i] \in Rules
  BY <1>1, <1>2
<1>8. \E rules \in Seq(Rule) : /\ q' = [q EXCEPT !.rules = rules]
                               /\ \A i \in DOMAIN rules : rules[i] \in Rules
  <2>1. CASE \E i \in DOMAIN q.rules : Equivalent(q.rules[i], r)
    <3>1. q' = [q EXCEPT !.rules = overwritten]
      BY <2>1 DEF AddRule, AddReplaceRule, overwritten
    <3> QED
      BY <1>3, <1>4, <1>6, <3>1
  <2>2. CASE ~\E i \in DOMAIN q.rules : Equivalent(q.rules[i], r)
    <3>1. q' = [q EXCEPT !.rules = Append(q.rules, r)]
      BY <2>2 DEF AddRule, AddReplaceRule
    <3> QED
      BY <1>7, <3>1
  <2> QED
    BY <2>1, <2>2
<1>9. /\ q' \in QueueType /\ q'.msgs = q.msgs /\ q'.Maxlen = q.Maxlen
      /\ q'.Replace = q.Replace /\ \A i \in DOMAIN q'.rules : q'.rules[i] \in Rules
  BY <1>1, <1>8 DEF QueueType
<1> QED
  BY <1>9, SettingInductive DEF AddRule, histories, IInv, TypeOK, SettingsInv

(* A producer signals, or finds that the message does not pass the filter. *)
LEMMA NotifyInductive ==
  ASSUME IInv, NEW p \in Producers, Notify(p)
  PROVE  IInv'
<1>1. /\ notify' = [notify EXCEPT ![p] = None]
      /\ UNCHANGED <<q, timed, nextId, sent, got, replaced, since>>
      /\ owner' \in OwnerStates
      /\ owner' = "blocked" => owner = "blocked" /\ ~FilterFriendly(q, notify[p])
  BY DEF Notify, DataAvailable, histories, IInv, TypeOK, OwnerStates
<1>2. TypeOK'
  BY <1>1 DEF IInv, TypeOK
<1>3. /\ AgeInv' /\ SettingsInv' /\ OrderInv' /\ RepliesInv' /\ LatestInv' /\ LimitInv'
  BY <1>1 DEF IInv, AgeInv, SettingsInv, OrderInv, RepliesInv, LatestInv, LimitInv
<1>4. WakeInv'
  <2> SUFFICES ASSUME owner' = "blocked", NEW m \in ToSet(q.msgs),
                      m.id >= since, FilterFriendly(q, m)
               PROVE  \E pp \in Producers : notify'[pp] = m
    BY <1>1 DEF WakeInv
  <2>1. PICK pp \in Producers : notify[pp] = m
    BY <1>1 DEF IInv, WakeInv
  <2>2. pp # p
    BY <1>1, <2>1
  <2> QED
    BY <1>1, <2>1, <2>2 DEF IInv, TypeOK
<1> QED
  BY <1>2, <1>3, <1>4 DEF IInv

(* The owner goes to sleep, or wakes up of itself. *)
LEMMA WaitInductive ==
  ASSUME IInv, (\E t \in Timeouts : WaitCheck(t)) \/ WaitBlock \/ WaitTimeout \/ SpuriousWakeup
  PROVE  IInv'
<1>1. /\ UNCHANGED <<q, notify, nextId, sent, got, replaced>>
      /\ owner' \in OwnerStates /\ timed' \in BOOLEAN /\ since' \in Nat
      /\ owner' = "blocked" => since' = nextId
  BY ConstantsAssumption
  DEF WaitCheck, WaitBlock, WaitTimeout, SpuriousWakeup, histories, IInv, TypeOK, OwnerStates
<1>2. TypeOK'
  BY <1>1 DEF IInv, TypeOK
<1>3. /\ AgeInv' /\ SettingsInv' /\ OrderInv' /\ RepliesInv' /\ LatestInv' /\ LimitInv'
  BY <1>1 DEF IInv, AgeInv, SettingsInv, OrderInv, RepliesInv, LatestInv, LimitInv
<1>4. \A m \in ToSet(q.msgs) : m.id < nextId /\ m.id \in Nat /\ nextId \in Nat
  BY DEF IInv, AgeInv, TypeOK, Message
<1>5. WakeInv'
  BY <1>1, <1>4 DEF WakeInv
<1> QED
  BY <1>2, <1>3, <1>5 DEF IInv

(* Every step of a producer or of the owner preserves IInv. *)
LEMMA NextInductive ==
  ASSUME IInv, [Next]_vars
  PROVE  IInv'
<1>1. ASSUME NEW p \in Producers, NEW h \in Headers, PushMsg(p, h) PROVE IInv'
  BY <1>1, PushInductive
<1>2. ASSUME NEW p \in Producers, Notify(p) PROVE IInv'
  BY <1>2, NotifyInductive
<1>3. CASE PopMsg
  BY <1>3, PopInductive
<1>4. ASSUME NEW f \in Filters, SetQueueFilter(f) PROVE IInv'
  <2>1. /\ q' \in QueueType /\ q'.msgs = q.msgs /\ q'.Maxlen = q.Maxlen
        /\ q'.Replace = q.Replace /\ q'.rules = q.rules
    BY <1>4, ConstantsAssumption DEF SetQueueFilter, SetFilter, IInv, TypeOK, QueueType
  <2> QED
    BY <1>4, <2>1, SettingInductive DEF SetQueueFilter, histories, IInv, TypeOK, SettingsInv
<1>5. CASE ClearQueueFilter
  <2>1. /\ q' \in QueueType /\ q'.msgs = q.msgs /\ q'.Maxlen = q.Maxlen
        /\ q'.Replace = q.Replace /\ q'.rules = q.rules
    BY <1>5 DEF ClearQueueFilter, ClearFilter, IInv, TypeOK, QueueType
  <2> QED
    BY <1>5, <2>1, SettingInductive DEF ClearQueueFilter, histories, IInv, TypeOK, SettingsInv
<1>6. ASSUME NEW r \in Rules, AddRule(r) PROVE IInv'
  BY <1>6, RuleInductive
<1>7. ASSUME NEW b \in ReplaceFlags, SetQueueReplace(b) PROVE IInv'
  <2>1. /\ q' \in QueueType /\ q'.msgs = q.msgs /\ q'.Maxlen = q.Maxlen
        /\ q'.Replace = b /\ q'.rules = q.rules /\ b \in BOOLEAN
    BY <1>7, ConstantsAssumption DEF SetQueueReplace, SetReplace, IInv, TypeOK, QueueType
  <2> QED
    BY <1>7, <2>1, SettingInductive DEF SetQueueReplace, IInv, TypeOK, SettingsInv
<1>8. CASE (\E t \in Timeouts : WaitCheck(t)) \/ WaitBlock \/ WaitTimeout \/ SpuriousWakeup
  BY <1>8, WaitInductive
<1>9. CASE UNCHANGED vars
  BY <1>9 DEF vars, IInv, TypeOK, AgeInv, SettingsInv, OrderInv, RepliesInv, LatestInv,
     LimitInv, WakeInv
<1> QED
  BY <1>1, <1>2, <1>3, <1>4, <1>5, <1>6, <1>7, <1>8, <1>9 DEF Next

(* A queue starts empty and with no settings made. *)
LEMMA InitInductive ==
  ASSUME Init
  PROVE  IInv
<1>1. PICK b \in ReplaceFlags : q = NewQueue(b, MaxlenInit)
  BY DEF Init
<1>2. /\ q \in QueueType /\ q.msgs = << >> /\ q.rules = << >> /\ q.Maxlen = MaxlenInit
      /\ q.Replace \in BOOLEAN
  BY <1>1, ConstantsAssumption DEF NewQueue, QueueType, NoFilter, FilterSpec
<1>3. ToSet(q.msgs) = {} /\ DataPlaces(q.msgs) = {} /\ DOMAIN q.rules = {} /\ DOMAIN q.msgs = {}
  BY <1>2 DEF ToSet, DataPlaces
<1>4. TypeOK
  BY <1>2 DEF Init, TypeOK, OwnerStates
<1>5. AgeInv /\ SettingsInv
  BY <1>2, <1>3 DEF Init, AgeInv, SettingsInv
<1>6. OrderInv /\ RepliesInv /\ WakeInv
  BY <1>3 DEF Init, OrderInv, Ordered, RepliesInv, WakeInv
<1>7. LatestInv
  BY <1>3 DEF Init, LatestInv, Single
<1>8. LimitInv
  BY <1>3, FS_EmptySet, ConstantsAssumption DEF LimitInv
<1> QED
  BY <1>4, <1>5, <1>6, <1>7, <1>8 DEF IInv

-----------------------------------------------------------------------------
(***************************************************************************)
(* The properties.                                                         *)
(***************************************************************************)

(* At all times: the state has its types, messages are numbered in the     *)
(* order of Push, and the list is what the parts of IInv say.              *)
THEOREM QueueInvariant == Spec => []IInv
<1>1. Init => IInv
  BY InitInductive
<1>2. IInv /\ [Next]_vars => IInv'
  BY NextInductive
<1> QED
  BY <1>1, <1>2, PTL DEF Spec

(* A reply or request that no rule speaks about stays on the queue until   *)
(* Pop returns it: Push never discards it, no replacement takes it out.    *)
THEOREM NoReplyIsLost == Spec => []RepliesNeverLost
<1>1. IInv => RepliesNeverLost
  BY DEF IInv, RepliesInv, RepliesNeverLost, InQueue, ToSet
<1> QED
  BY <1>1, QueueInvariant, PTL

(* Pop delivers the messages of one signature in the order in which Push   *)
(* was called, each at most once, under any filters and any replacement.   *)
THEOREM OrderIsKept == Spec => []SignatureOrder
<1>1. IInv => SignatureOrder
  <2> SUFFICES ASSUME IInv PROVE SignatureOrder
    OBVIOUS
  <2>1. \A i \in DOMAIN q.msgs : q.msgs[i] \in Message /\ q.msgs[i] \in ToSet(q.msgs)
    BY LenProperties, ElementOfSeq DEF IInv, TypeOK, QueueType, ToSet
  <2>2. \A m \in got : m \in Message
    BY DEF IInv, TypeOK
  <2> QED
    BY <2>1, <2>2, CompareIsAlike DEF IInv, OrderInv, Ordered, SignatureOrder
<1> QED
  BY <1>1, QueueInvariant, PTL

(* A queue that replaces holds one message of each data or command         *)
(* signature, the newest, however full it is.                              *)
THEOREM NewestIsKept == Spec => []LatestValueKept
<1>1. IInv => LatestValueKept
  <2> SUFFICES ASSUME IInv, replaced = {TRUE}
               PROVE  /\ \A i, j \in DOMAIN q.msgs :
                           (i # j /\ Compare(q.msgs[i], q.msgs[j]) /\ IsDataOrCmd(q.msgs[i]))
                             => Governed(q.msgs[i])
                      /\ \A m \in sent :
                           (IsDataOrCmd(m) /\ ~Governed(m))
                             => \/ InQueue(m) \/ m \in got
                                \/ \E n \in sent : Compare(n, m) /\ n.id > m.id
    BY DEF LatestValueKept
  <2>1. \A i \in DOMAIN q.msgs : q.msgs[i] \in Message
    BY LenProperties, ElementOfSeq DEF IInv, TypeOK, QueueType
  <2>2. \A m \in sent : m \in Message
    BY DEF IInv, TypeOK
  <2>3. Single(q.msgs)
    BY DEF IInv, LatestInv
  <2>4. \A m \in sent : m \in ToSet(q.msgs) => InQueue(m)
    BY DEF ToSet, InQueue
  <2> QED
    BY <2>1, <2>2, <2>3, <2>4, CompareIsAlike DEF IInv, LatestInv, Single
<1> QED
  BY <1>1, QueueInvariant, PTL

(* A queue that never replaces holds at most Maxlen data and commands,     *)
(* whatever replies are pushed beyond that.                                *)
THEOREM DataIsBounded == Spec => []DataWithinMaxlen
<1>1. IInv => DataWithinMaxlen
  BY DEF IInv, LimitInv, DataWithinMaxlen, DataPlaces
<1> QED
  BY <1>1, QueueInvariant, PTL

(* A message that arrives while the owner is in cond_wait, and passes its  *)
(* filter, is still to be signalled by its producer as long as the owner   *)
(* sleeps.                                                                 *)
THEOREM SleeperIsNotMissed == Spec => []SleeperIsWoken
<1>1. IInv => SleeperIsWoken
  BY DEF IInv, WakeInv, SleeperIsWoken, ToSet
<1> QED
  BY <1>1, QueueInvariant, PTL
=============================================================================
