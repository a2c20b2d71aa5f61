------------------------ MODULE DeviceRequestProofs ------------------------
(***************************************************************************)
(* Proofs about DeviceRequest: RepliesMatch, for any subtypes and kinds of *)
(* call, any number of requests, data messages and losses of the server's  *)
(* subscriptions.                                                          *)
(*                                                                         *)
(* A reply is somewhere on its way exactly once: its number is in the      *)
(* server's inbox, on the requester's queue, or answered.  While nothing   *)
(* has been given up the only number on its way is that of the request in  *)
(* progress; afterwards older ones may be, too, and may be taken for it.   *)
(***************************************************************************)
EXTENDS DeviceRequest, ListFacts, TLAPS

(* The requests whose replies are on their way. *)
OnTheWay == {m.id : m \in ToSet(inbox) \cup ToSet(queue.msgs)} \ {0}

(* No two messages of a list are about the same request. *)
Distinct(msgs) ==
  \A i, j \in DOMAIN msgs : i # j /\ msgs[i].id # 0 => msgs[i].id # msgs[j].id

(* The requester's queue has no rules and does not replace: Push appends.  *)
QueueInv ==
  /\ queue.rules = << >> /\ ~queue.Replace
  /\ \A m \in ToSet(queue.msgs) : m.id # 0 <=> IsResponse(m)
  /\ pc \in {"loop", "asleep", "pop"}
       => queue.filter_on /\ queue.filter.type = DontCare

(* Where a request, or its reply, can be. *)
WayInv ==
  /\ \A m \in ToSet(inbox) : m.id # 0
  /\ Distinct(inbox) /\ Distinct(queue.msgs)
  /\ \A m \in ToSet(inbox), r \in ToSet(queue.msgs) : m.id # r.id
  /\ OnTheWay \subseteq 1..requests

(* What has been answered is not on its way any more. *)
AnswerInv ==
  /\ requests <= MaxRequests
  /\ pc # "idle" => requests > 0 /\ answered[requests] = 0
  /\ \A n \in 1..MaxRequests :
       /\ n > requests => answered[n] = 0
       /\ answered[n] <= n
       /\ answered[n] \notin OnTheWay
       /\ \A k \in 1..MaxRequests : answered[n] = answered[k] /\ answered[n] # 0 => n = k

(* As long as nothing has been given up. *)
PromptInv ==
  abandoned = {} =>
    /\ OnTheWay \subseteq IF pc = "idle" THEN {} ELSE {requests}
    /\ \A n \in 1..MaxRequests : answered[n] \in {0, n}

IInv == TypeOK /\ QueueInv /\ WayInv /\ AnswerInv /\ PromptInv

-----------------------------------------------------------------------------
(***************************************************************************)
(* Lists of messages.                                                      *)
(***************************************************************************)

(* Places and elements of a list. *)
LEMMA Places ==
  ASSUME NEW msgs \in Seq(Message)
  PROVE  /\ DOMAIN msgs = 1..Len(msgs) /\ Len(msgs) \in Nat
         /\ \A i \in DOMAIN msgs : msgs[i] \in Message /\ msgs[i] \in ToSet(msgs)
         /\ \A m \in ToSet(msgs) : m \in Message /\ m.id \in Nat
<1>1. DOMAIN msgs = 1..Len(msgs) /\ Len(msgs) \in Nat
  BY LenProperties
<1>2. \A i \in DOMAIN msgs : msgs[i] \in Message
  BY <1>1, ElementOfSeq
<1>3. \A m \in Message : m.id \in Nat
  BY DEF Message
<1> QED
  BY <1>1, <1>2, <1>3 DEF ToSet

(* A message is taken out of a list. *)
LEMMA RemoveEffect ==
  ASSUME NEW msgs \in Seq(Message), NEW k \in DOMAIN msgs
  PROVE  LET rest == RemoveElement(msgs, k) IN
         /\ rest \in Seq(Message)
         /\ ToSet(rest) \subseteq ToSet(msgs)
         /\ Distinct(msgs) => Distinct(rest)
         /\ Distinct(msgs) /\ msgs[k].id # 0 =>
              \A m \in ToSet(rest) : m.id # msgs[k].id
<1> DEFINE rest == RemoveElement(msgs, k)
           old(j) == IF j < k THEN j ELSE j + 1
<1>1. DOMAIN msgs = 1..Len(msgs) /\ Len(msgs) \in Nat /\ k \in 1..Len(msgs) /\ k \in Nat
  BY LenProperties
<1>2. /\ rest \in Seq(Message) /\ Len(rest) = Len(msgs) - 1
      /\ \A j \in 1..(Len(msgs) - 1) : rest[j] = IF j < k THEN msgs[j] ELSE msgs[j + 1]
  BY <1>1, RemoveAtProperties DEF RemoveElement
<1>3. DOMAIN rest = 1..(Len(msgs) - 1)
  BY <1>2, LenProperties
<1> HIDE DEF rest
<1>4. \A j \in DOMAIN rest : old(j) \in DOMAIN msgs /\ old(j) # k /\ rest[j] = msgs[old(j)]
  BY <1>1, <1>2, <1>3
<1>5. \A i, j \in DOMAIN rest : i # j => old(i) # old(j)
  BY <1>1, <1>3
<1> HIDE DEF old
<1>6. ToSet(rest) \subseteq ToSet(msgs)
  BY <1>4 DEF ToSet
<1>7. Distinct(msgs) => Distinct(rest)
  BY <1>4, <1>5 DEF Distinct
<1>8. Distinct(msgs) /\ msgs[k].id # 0 => \A m \in ToSet(rest) : m.id # msgs[k].id
  BY <1>4 DEF Distinct, ToSet
<1> QED
  BY <1>2, <1>6, <1>7, <1>8 DEF rest

(* The first message is taken off a list. *)
LEMMA TailEffect ==
  ASSUME NEW msgs \in Seq(Message), msgs # << >>
  PROVE  /\ Tail(msgs) \in Seq(Message) /\ Head(msgs) \in ToSet(msgs)
         /\ ToSet(Tail(msgs)) \subseteq ToSet(msgs)
         /\ Distinct(msgs) => Distinct(Tail(msgs))
         /\ Distinct(msgs) /\ Head(msgs).id # 0 =>
              \A m \in ToSet(Tail(msgs)) : m.id # Head(msgs).id
<1> DEFINE rest == Tail(msgs)
<1>1. /\ rest \in Seq(Message) /\ Len(rest) = Len(msgs) - 1
      /\ \A i \in 1..Len(rest) : rest[i] = msgs[i + 1]
  BY HeadTailProperties
<1>2. Len(msgs) \in Nat /\ Len(msgs) > 0 /\ DOMAIN msgs = 1..Len(msgs) /\ Head(msgs) = msgs[1]
  BY LenProperties, EmptySeq
<1>3. DOMAIN rest = 1..(Len(msgs) - 1)
  BY <1>1, LenProperties
<1> HIDE DEF rest
<1>4. \A j \in DOMAIN rest : j + 1 \in DOMAIN msgs /\ j + 1 # 1 /\ rest[j] = msgs[j + 1]
  BY <1>1, <1>2, <1>3
<1>5. \A i, j \in DOMAIN rest : i # j => i + 1 # j + 1
  BY <1>3
<1>6. 1 \in DOMAIN msgs
  BY <1>2
<1>7. ToSet(rest) \subseteq ToSet(msgs) /\ Head(msgs) \in ToSet(msgs)
  BY <1>2, <1>4, <1>6 DEF ToSet
<1>8. Distinct(msgs) => Distinct(rest)
  BY <1>4, <1>5 DEF Distinct
<1>9. Distinct(msgs) /\ msgs[1].id # 0 => \A m \in ToSet(rest) : m.id # msgs[1].id
  BY <1>4, <1>6 DEF Distinct, ToSet
<1> QED
  BY <1>1, <1>2, <1>7, <1>8, <1>9 DEF rest

(* A list is put at the end of a list. *)
LEMMA ConcatEffect ==
  ASSUME NEW msgs \in Seq(Message), NEW more \in Seq(Message)
  PROVE  /\ msgs \o more \in Seq(Message)
         /\ ToSet(msgs \o more) = ToSet(msgs) \cup ToSet(more)
         /\ /\ Distinct(msgs) /\ Distinct(more)
            /\ \A m \in ToSet(msgs), r \in ToSet(more) : m.id = r.id => m.id = 0
            => Distinct(msgs \o more)
<1> DEFINE all == msgs \o more
           n == Len(msgs)
<1>1. /\ DOMAIN msgs = 1..n /\ n \in Nat
      /\ DOMAIN more = 1..Len(more) /\ Len(more) \in Nat
  BY LenProperties
<1>2. /\ all \in Seq(Message) /\ Len(all) = n + Len(more)
      /\ \A i \in 1..(n + Len(more)) : all[i] = IF i <= n THEN msgs[i] ELSE more[i - n]
  BY ConcatProperties
<1>3. DOMAIN all = 1..(n + Len(more))
  BY <1>2, LenProperties
<1> HIDE DEF all
<1>4. \A i \in DOMAIN all : \/ i \in DOMAIN msgs /\ all[i] = msgs[i]
                            \/ i - n \in DOMAIN more /\ all[i] = more[i - n] /\ i > n
  BY <1>1, <1>2, <1>3
<1>5. \A i \in DOMAIN msgs : i \in DOMAIN all /\ all[i] = msgs[i]
  BY <1>1, <1>2, <1>3
<1>6. \A i \in DOMAIN more : i + n \in DOMAIN all /\ all[i + n] = more[i]
  <2> SUFFICES ASSUME NEW i \in DOMAIN more
               PROVE  i + n \in DOMAIN all /\ all[i + n] = more[i]
    OBVIOUS
  <2>1. i + n \in DOMAIN all /\ ~(i + n <= n) /\ (i + n) - n = i
    BY <1>1, <1>3
  <2> QED
    BY <1>2, <1>3, <2>1
<1>7. ToSet(all) = ToSet(msgs) \cup ToSet(more)
  BY <1>4, <1>5, <1>6 DEF ToSet
<1>8. ASSUME Distinct(msgs), Distinct(more),
             \A m \in ToSet(msgs), r \in ToSet(more) : m.id = r.id => m.id = 0
      PROVE  Distinct(all)
  <2> SUFFICES ASSUME NEW i \in DOMAIN all, NEW j \in DOMAIN all, i # j, all[i].id # 0
               PROVE  all[i].id # all[j].id
    BY DEF Distinct
  <2>1. CASE i \in DOMAIN msgs /\ j \in DOMAIN msgs
    BY <1>5, <1>8, <2>1 DEF Distinct
  <2>2. CASE i > n /\ j > n
    <3>1. i - n # j - n
      BY <1>1, <1>3
    <3> QED
      BY <1>1, <1>4, <1>8, <2>2, <3>1 DEF Distinct
  <2>3. CASE i \in DOMAIN msgs /\ j > n
    BY <1>1, <1>4, <1>5, <1>8, <2>3 DEF ToSet
  <2>4. CASE j \in DOMAIN msgs /\ i > n
    BY <1>1, <1>4, <1>5, <1>8, <2>4 DEF ToSet
  <2> QED
    BY <1>4, <2>1, <2>2, <2>3, <2>4
<1> QED
  BY <1>2, <1>7, <1>8 DEF all

(* A message is put at the end of a list. *)
LEMMA AppendEffect ==
  ASSUME NEW msgs \in Seq(Message), NEW m \in Message
  PROVE  /\ Append(msgs, m) \in Seq(Message)
         /\ ToSet(Append(msgs, m)) = ToSet(msgs) \cup {m}
         /\ Distinct(msgs) /\ (\A r \in ToSet(msgs) : r.id = m.id => m.id = 0)
              => Distinct(Append(msgs, m))
<1> DEFINE more == Append(msgs, m)
           n == Len(msgs) + 1
<1>1. DOMAIN msgs = 1..Len(msgs) /\ Len(msgs) \in Nat
  BY LenProperties
<1>2. /\ more \in Seq(Message) /\ DOMAIN more = 1..n
      /\ more[n] = m /\ \A i \in 1..Len(msgs) : more[i] = msgs[i]
  BY <1>1
<1> HIDE DEF more
<1>3. DOMAIN more = DOMAIN msgs \cup {n} /\ n \notin DOMAIN msgs
  BY <1>1, <1>2
<1>4. ToSet(more) = ToSet(msgs) \cup {m}
  BY <1>1, <1>2, <1>3 DEF ToSet
<1>5. Distinct(msgs) /\ (\A r \in ToSet(msgs) : r.id = m.id => m.id = 0) => Distinct(more)
  BY <1>1, <1>2, <1>3 DEF Distinct, ToSet
<1> QED
  BY <1>2, <1>4, <1>5 DEF more

(* Push of a reply, or of data: it is appended, or data overflows. *)
LEMMA PushEffect ==
  ASSUME TypeOK, QueueInv, NEW m \in Message, IsResponse(m) \/ m.type = DATA
  PROVE  /\ Push(queue, m) \in QueueType
         /\ Push(queue, m).rules = queue.rules /\ Push(queue, m).Replace = queue.Replace
         /\ Push(queue, m).filter_on = queue.filter_on
         /\ Push(queue, m).filter = queue.filter
         /\ \/ Push(queue, m).msgs = Append(queue.msgs, m)
            \/ m.type = DATA /\ Push(queue, m).msgs = queue.msgs
<1>1. queue \in QueueType /\ queue.msgs \in Seq(Message) /\ DOMAIN queue.rules = {}
  BY DEF TypeOK, QueueType, QueueInv
<1>2. CheckReplace(queue, m) = ACCEPT
  BY <1>1 DEF CheckReplace, FirstMatch, QueueInv
<1>3. Append(queue.msgs, m) \in Seq(Message)
  BY <1>1, AppendEffect
<1>4. CASE Overflows(queue, m)
  <2>1. Push(queue, m) = [queue EXCEPT !.drop_count = TRUE]
    BY <1>2, <1>4 DEF Push, ACCEPT, IGNORE
  <2>2. m.type = DATA
    BY <1>4 DEF Overflows, IsDataOrCmd, IsResponse, DATA, CMD, RESP_ACK, RESP_NACK
  <2> QED
    BY <1>1, <2>1, <2>2 DEF QueueType
<1>5. CASE ~Overflows(queue, m)
  <2>1. Push(queue, m) = [queue EXCEPT !.msgs = Append(queue.msgs, m)]
    BY <1>2, <1>5 DEF Push, PushBack, ACCEPT, IGNORE, REPLACE
  <2> QED
    BY <1>1, <1>3, <2>1 DEF QueueType
<1> QED
  BY <1>4, <1>5

(* Pop takes one message and leaves the settings alone. *)
LEMMA PopEffect ==
  ASSUME TypeOK, NEW i \in PopIndex(queue)
  PROVE  /\ i \in DOMAIN queue.msgs
         /\ PopAt(queue, i) \in QueueType
         /\ PopAt(queue, i).msgs = RemoveElement(queue.msgs, i)
         /\ PopAt(queue, i).rules = queue.rules /\ PopAt(queue, i).Replace = queue.Replace
         /\ PopAt(queue, i).filter_on = queue.filter_on
         /\ PopAt(queue, i).filter = queue.filter
<1>1. queue \in QueueType /\ queue.msgs \in Seq(Message) /\ i \in DOMAIN queue.msgs
  BY DEF TypeOK, QueueType, PopIndex
<1>2. RemoveElement(queue.msgs, i) \in Seq(Message)
  BY <1>1, RemoveEffect
<1> QED
  BY <1>1, <1>2 DEF PopAt, QueueType

(* The filter of TimedRequest lets responses through and nothing else. *)
LEMMA FilterPassesReplies ==
  ASSUME TypeOK, QueueInv, pc = "pop", NEW i \in PopIndex(queue)
  PROVE  IsResponse(queue.msgs[i])
<1>1. queue.filter_on /\ queue.filter.type = DontCare
  BY DEF QueueInv
<1>2. Deliverable(queue, i) /\ i \in DOMAIN queue.msgs
  BY DEF PopIndex
<1>3. Filter(queue.filter, queue.msgs[i])
  BY <1>1, <1>2 DEF Deliverable, ResponsePending, FilterFriendly
<1>4. queue.msgs[i] \in Message
  BY <1>2, Places DEF TypeOK, QueueType
<1> QED
  BY <1>1, <1>3, <1>4 DEF Filter, DontCare, Message, DATA, RESP_NACK

-----------------------------------------------------------------------------
(***************************************************************************)
(* IInv is inductive.                                                      *)
(***************************************************************************)

(* A step that makes no request and answers none. *)
LEMMA MoveInductive ==
  ASSUME IInv, TypeOK', QueueInv',
         UNCHANGED <<requests, answered>>, abandoned \subseteq abandoned',
         pc' # "idle" => pc # "idle",
         pc' = "idle" => pc = "idle" \/ abandoned' # {},
         \A m \in ToSet(inbox') : m.id # 0,
         Distinct(inbox'), Distinct(queue'.msgs),
         \A m \in ToSet(inbox'), r \in ToSet(queue'.msgs) : m.id # r.id,
         OnTheWay' \subseteq OnTheWay
  PROVE  IInv'
<1>1. WayInv'
  BY DEF IInv, WayInv
<1>2. AnswerInv'
  BY DEF IInv, AnswerInv
<1>3. PromptInv'
  BY DEF IInv, PromptInv
<1> QED
  BY <1>1, <1>2, <1>3 DEF IInv

(* A step of the requester that leaves both lists alone. *)
LEMMA ControlInductive ==
  ASSUME IInv, TypeOK', QueueInv', inbox' = inbox, queue'.msgs = queue.msgs,
         UNCHANGED <<requests, answered>>, abandoned \subseteq abandoned',
         pc' # "idle" => pc # "idle",
         pc' = "idle" => pc = "idle" \/ abandoned' # {}
  PROVE  IInv'
<1>1. OnTheWay' = OnTheWay
  BY DEF OnTheWay
<1> QED
  BY <1>1, MoveInductive DEF IInv, WayInv

(* A request is made. *)
LEMMA PutInductive ==
  ASSUME IInv, NEW s \in Subtypes, NEW call \in Calls, PutRequest(s, call)
  PROVE  IInv'
<1> DEFINE n == requests + 1
           m == Msg(REQ, s, n)
<1>1. /\ pc = "idle" /\ requests < MaxRequests /\ requests' = n
      /\ inbox' = Append(inbox, m) /\ pc' = "sent"
      /\ subtype' = s /\ threaded' = call[1] /\ timeout' = call[2]
      /\ UNCHANGED <<queue, served, published, flips, answered, abandoned>>
  BY DEF PutRequest
<1>2. /\ requests \in Nat /\ MaxRequests \in Nat /\ inbox \in Seq(Message)
      /\ queue.msgs \in Seq(Message) /\ n \in Nat /\ n > requests /\ n \in 1..MaxRequests
  BY <1>1, ConstantsAssumption DEF IInv, TypeOK, QueueType
<1>3. m \in Message /\ m.id = n /\ m.id # 0
  BY <1>2, ConstantsAssumption DEF Msg, Message, DeviceAddr, REQ, DATA, RESP_NACK
<1>4. s \in Nat /\ call[1] \in BOOLEAN /\ call[2] \in Nat
  BY ConstantsAssumption
<1> HIDE DEF m
<1>5. \A r \in ToSet(inbox) \cup ToSet(queue.msgs) : r.id # n
  <2>1. \A r \in ToSet(inbox) \cup ToSet(queue.msgs) : r.id = 0 \/ r.id \in OnTheWay
    BY DEF OnTheWay
  <2> QED
    BY <1>2, <2>1 DEF IInv, WayInv
<1>6. /\ inbox' \in Seq(Message) /\ ToSet(inbox') = ToSet(inbox) \cup {m}
      /\ Distinct(inbox')
  BY <1>1, <1>2, <1>3, <1>5, AppendEffect DEF IInv, WayInv
<1>7. OnTheWay' = OnTheWay \cup {n}
  BY <1>1, <1>3, <1>6 DEF OnTheWay
<1> HIDE DEF n
<1>8. TypeOK'
  BY <1>1, <1>2, <1>4, <1>6 DEF IInv, TypeOK, PCs
<1>9. QueueInv'
  BY <1>1 DEF IInv, QueueInv
<1>10. WayInv'
  <2>1. OnTheWay' \subseteq 1..n
    BY <1>2, <1>7 DEF IInv, WayInv, n
  <2> QED
    BY <1>1, <1>3, <1>5, <1>6, <2>1 DEF IInv, WayInv
<1>11. AnswerInv'
  <2>1. \A k \in 1..MaxRequests : answered[k] # n
    <3> SUFFICES ASSUME NEW k \in 1..MaxRequests PROVE answered[k] # n
      OBVIOUS
    <3>1. answered[k] \in Nat /\ answered[k] <= k /\ (k > requests => answered[k] = 0)
      BY DEF IInv, AnswerInv, TypeOK
    <3> QED
      BY <1>2, <3>1
  <2>2. answered[n] = 0
    BY <1>2 DEF IInv, AnswerInv
  <2> QED
    BY <1>1, <1>2, <1>7, <2>1, <2>2 DEF IInv, AnswerInv
<1>12. PromptInv'
  BY <1>1, <1>7 DEF IInv, PromptInv
<1> QED
  BY <1>8, <1>9, <1>10, <1>11, <1>12 DEF IInv

(* A reply, the request's own or a late one, is returned. *)
LEMMA ReplyTakenInductive ==
  ASSUME IInv, RequestReply
  PROVE  IInv'
<1>1. PICK i \in PopIndex(queue) :
        /\ queue' = ClearFilter(PopAt(queue, i))
        /\ answered' = [answered EXCEPT ![requests] = queue.msgs[i].id]
  BY DEF RequestReply
<1>2. /\ pc = "pop" /\ pc' = "idle"
      /\ UNCHANGED <<inbox, served, published, flips, subtype, threaded, requests,
                     timeout, abandoned>>
  BY DEF RequestReply, elsewhere, asked
<1> DEFINE m == queue.msgs[i]
<1>3. /\ i \in DOMAIN queue.msgs
      /\ PopAt(queue, i) \in QueueType
      /\ PopAt(queue, i).msgs = RemoveElement(queue.msgs, i)
      /\ PopAt(queue, i).rules = queue.rules /\ PopAt(queue, i).Replace = queue.Replace
  BY PopEffect DEF IInv
<1>4. /\ queue' \in QueueType /\ queue'.msgs = RemoveElement(queue.msgs, i)
      /\ queue'.rules = queue.rules /\ queue'.Replace = queue.Replace
  BY <1>1, <1>3 DEF ClearFilter, QueueType
<1>5. queue.msgs \in Seq(Message) /\ m \in Message /\ m \in ToSet(queue.msgs) /\ m.id \in Nat
  BY <1>3, Places DEF IInv, TypeOK, QueueType
<1>6. m.id # 0 /\ m.id \in OnTheWay
  BY <1>2, <1>5, FilterPassesReplies DEF IInv, QueueInv, OnTheWay
<1>7. /\ ToSet(queue'.msgs) \subseteq ToSet(queue.msgs)
      /\ Distinct(queue'.msgs)
      /\ \A r \in ToSet(queue'.msgs) : r.id # m.id
  BY <1>3, <1>4, <1>5, <1>6, RemoveEffect DEF IInv, WayInv
<1>8. answered' = [answered EXCEPT ![requests] = m.id]
  BY <1>1
<1> HIDE DEF m
<1>9. OnTheWay' \subseteq OnTheWay \ {m.id}
  <2>1. \A r \in ToSet(inbox) : r.id # m.id
    BY <1>5 DEF IInv, WayInv
  <2> QED
    BY <1>2, <1>7, <2>1 DEF OnTheWay
<1>10. /\ requests \in 1..MaxRequests /\ m.id \in 1..requests /\ answered[requests] = 0
       /\ answered \in [1..MaxRequests -> Nat]
  <2>1. requests \in Nat /\ answered \in [1..MaxRequests -> Nat]
    BY DEF IInv, TypeOK
  <2>2. requests > 0 /\ requests <= MaxRequests /\ answered[requests] = 0
    BY <1>2 DEF IInv, AnswerInv
  <2>3. m.id \in 1..requests
    BY <1>6 DEF IInv, WayInv
  <2> QED
    BY <2>1, <2>2, <2>3, ConstantsAssumption
<1>11. TypeOK'
  BY <1>2, <1>4, <1>5, <1>8, <1>10 DEF IInv, TypeOK, PCs
<1>12. QueueInv'
  BY <1>2, <1>4, <1>7 DEF IInv, QueueInv
<1>13. WayInv'
  BY <1>2, <1>7, <1>9 DEF IInv, WayInv
<1>14. AnswerInv'
  <2>1. requests' <= MaxRequests /\ pc' = "idle"
    BY <1>2 DEF IInv, AnswerInv
  <2>2. \A n \in 1..MaxRequests : answered'[n] = IF n = requests THEN m.id ELSE answered[n]
    BY <1>8, <1>10
  <2>3. \A n \in 1..MaxRequests : answered[n] # m.id
    BY <1>6 DEF IInv, AnswerInv
  <2>4. ASSUME NEW n \in 1..MaxRequests
        PROVE  /\ n > requests => answered'[n] = 0
               /\ answered'[n] <= n
               /\ answered'[n] \notin OnTheWay'
               /\ \A k \in 1..MaxRequests :
                    answered'[n] = answered'[k] /\ answered'[n] # 0 => n = k
    <3>1. n > requests => answered'[n] = 0
      BY <1>10, <2>2 DEF IInv, AnswerInv
    <3>2. answered'[n] <= n
      BY <1>10, <2>2 DEF IInv, AnswerInv
    <3>3. answered'[n] \notin OnTheWay'
      BY <1>9, <2>2 DEF IInv, AnswerInv
    <3>4. \A k \in 1..MaxRequests : answered'[n] = answered'[k] /\ answered'[n] # 0 => n = k
      BY <2>2, <2>3 DEF IInv, AnswerInv
    <3> QED
      BY <3>1, <3>2, <3>3, <3>4
  <2> QED
    BY <1>2, <2>1, <2>4 DEF AnswerInv
<1>15. PromptInv'
  <2> SUFFICES ASSUME abandoned = {}
               PROVE  OnTheWay' = {} /\ \A n \in 1..MaxRequests : answered'[n] \in {0, n}
    BY <1>2 DEF PromptInv
  <2>1. OnTheWay \subseteq {requests} /\ m.id = requests
    BY <1>2, <1>6 DEF IInv, PromptInv
  <2>2. \A n \in 1..MaxRequests : answered'[n] = IF n = requests THEN m.id ELSE answered[n]
    BY <1>8, <1>10
  <2> QED
    BY <1>9, <2>1, <2>2 DEF IInv, PromptInv
<1> QED
  BY <1>11, <1>12, <1>13, <1>14, <1>15 DEF IInv

(* Both loops' turns that neither push nor pop. *)
LEMMA LoopInductive ==
  ASSUME IInv, \/ SetRequestFilter \/ NoSubscriptions \/ RequestWait \/ RequestWake
               \/ RequestTimeout \/ RequestAgain \/ RequestTimeUp \/ Flip
  PROVE  IInv'
<1>1. /\ queue \in QueueType /\ pc \in PCs /\ timeout \in Nat
      /\ requests \in Nat /\ subtype \in Nat /\ flips \in Nat
      /\ pc # "idle" => requests \in 1..MaxRequests
  BY ConstantsAssumption DEF IInv, TypeOK, AnswerInv
<1>2. CASE SetRequestFilter
  <2> DEFINE f == [type |-> DontCare, subtype |-> subtype, addr |-> DeviceAddr]
  <2>1. f \in FilterSpec
    BY <1>1 DEF FilterSpec, DontCare, DeviceAddr
  <2>2. f.type = DontCare
    OBVIOUS
  <2>3. /\ queue' = SetFilter(queue, f) /\ pc = "sent" /\ pc' = "loop"
        /\ UNCHANGED <<inbox, served, published, flips, subtype, threaded, requests,
                       timeout, answered, abandoned>>
    BY <1>2 DEF SetRequestFilter, elsewhere, asked
  <2> HIDE DEF f
  <2>4. /\ queue' \in QueueType /\ queue'.msgs = queue.msgs /\ queue'.rules = queue.rules
        /\ queue'.Replace = queue.Replace /\ queue'.filter_on /\ queue'.filter = f
    BY <1>1, <2>1, <2>3 DEF SetFilter, QueueType
  <2>5. TypeOK'
    BY <2>3, <2>4 DEF IInv, TypeOK, PCs
  <2>6. QueueInv'
    BY <2>2, <2>3, <2>4 DEF IInv, QueueInv
  <2> QED
    BY <2>3, <2>4, <2>5, <2>6, ControlInductive
<1>3. CASE NoSubscriptions \/ RequestTimeout \/ RequestTimeUp
  <2>1. /\ queue' = queue \/ queue' = ClearFilter(queue)
        /\ pc # "idle" /\ pc' = "idle" /\ abandoned' = abandoned \cup {requests}
        /\ UNCHANGED <<inbox, served, published, flips, subtype, threaded, requests,
                       timeout, answered>>
    BY <1>3 DEF NoSubscriptions, RequestTimeout, RequestTimeUp, GiveUp, elsewhere, asked
  <2>2. /\ queue' \in QueueType /\ queue'.msgs = queue.msgs /\ queue'.rules = queue.rules
        /\ queue'.Replace = queue.Replace
    BY <1>1, <2>1 DEF ClearFilter, QueueType
  <2>3. TypeOK'
    BY <1>1, <2>1, <2>2 DEF IInv, TypeOK, PCs
  <2>4. QueueInv'
    BY <2>1, <2>2 DEF IInv, QueueInv
  <2> QED
    BY <2>1, <2>2, <2>3, <2>4, ControlInductive
<1>4. CASE RequestWait \/ RequestWake \/ RequestAgain
  <2>1. /\ pc \in {"loop", "asleep", "pop"} /\ pc' \in {"loop", "asleep", "pop"}
        /\ timeout' \in {timeout, timeout - 1} /\ (timeout' # timeout => timeout > 1)
        /\ UNCHANGED <<queue, inbox, served, published, flips, subtype, threaded,
                       requests, answered, abandoned>>
    BY <1>4 DEF RequestWait, RequestWake, RequestAgain, elsewhere, asked
  <2>2. timeout' \in Nat
    BY <1>1, <2>1
  <2>3. TypeOK'
    BY <2>1, <2>2 DEF IInv, TypeOK, PCs
  <2>4. QueueInv'
    BY <2>1 DEF IInv, QueueInv
  <2> QED
    BY <2>1, <2>3, <2>4, ControlInductive
<1>5. CASE Flip
  <2>1. /\ flips' \in Nat /\ served' \in BOOLEAN
        /\ UNCHANGED <<queue, inbox, published, pc, subtype, threaded, timeout, requests,
                       answered, abandoned>>
    BY <1>1, <1>5 DEF Flip, requester
  <2>2. TypeOK' /\ QueueInv'
    BY <2>1 DEF IInv, TypeOK, QueueInv
  <2> QED
    BY <2>1, <2>2, ControlInductive
<1> QED
  BY <1>2, <1>3, <1>4, <1>5

(* The requester, idle, processes a message of its queue. *)
LEMMA ProcessInductive ==
  ASSUME IInv, ProcessMessage
  PROVE  IInv'
<1>1. PICK i \in PopIndex(queue) : queue' = PopAt(queue, i)
  BY DEF ProcessMessage
<1>2. UNCHANGED <<inbox, served, published, flips, pc, subtype, threaded, timeout,
                  requests, answered, abandoned>>
  BY DEF ProcessMessage, elsewhere, requester
<1>3. /\ i \in DOMAIN queue.msgs /\ queue.msgs \in Seq(Message)
      /\ queue' \in QueueType
      /\ queue'.msgs = RemoveElement(queue.msgs, i)
      /\ queue'.rules = queue.rules /\ queue'.Replace = queue.Replace
      /\ queue'.filter_on = queue.filter_on /\ queue'.filter = queue.filter
  BY <1>1, PopEffect DEF IInv, TypeOK, QueueType
<1>4. ToSet(queue'.msgs) \subseteq ToSet(queue.msgs) /\ Distinct(queue'.msgs)
  BY <1>3, RemoveEffect DEF IInv, WayInv
<1>5. TypeOK' /\ QueueInv'
  BY <1>2, <1>3, <1>4 DEF IInv, TypeOK, QueueInv
<1>6. OnTheWay' \subseteq OnTheWay
  BY <1>2, <1>4 DEF OnTheWay
<1> QED
  BY <1>2, <1>4, <1>5, <1>6, MoveInductive DEF IInv, WayInv

(* The server driver answers one request: its number moves from the inbox  *)
(* to the requester's queue.                                               *)
LEMMA ReplyInductive ==
  ASSUME IInv, NEW type \in {RESP_ACK, RESP_NACK}, Reply(type)
  PROVE  IInv'
<1> DEFINE h == Head(inbox)
           m == Msg(type, h.subtype, h.id)
<1>1. /\ inbox # << >> /\ queue' = Push(queue, m) /\ inbox' = Tail(inbox)
      /\ UNCHANGED <<served, published, flips, pc, subtype, threaded, timeout,
                     requests, answered, abandoned>>
  BY DEF Reply, requester
<1>2. inbox \in Seq(Message) /\ queue.msgs \in Seq(Message)
  BY DEF IInv, TypeOK, QueueType
<1>3. /\ inbox' \in Seq(Message) /\ h \in ToSet(inbox) /\ ToSet(inbox') \subseteq ToSet(inbox)
      /\ Distinct(inbox') /\ \A r \in ToSet(inbox') : r.id # h.id
  BY <1>1, <1>2, TailEffect DEF IInv, WayInv
<1>4. h \in Message
  BY <1>2, <1>3, Places
<1> HIDE DEF h
<1>5. m \in Message /\ IsResponse(m) /\ m.id = h.id /\ m.id # 0 /\ m.type # DATA
  BY <1>3, <1>4
  DEF Msg, Message, IsResponse, DeviceAddr, RESP_ACK, RESP_NACK, DATA, IInv, WayInv
<1> HIDE DEF m
<1>6. /\ queue' \in QueueType
      /\ queue'.rules = queue.rules /\ queue'.Replace = queue.Replace
      /\ queue'.filter_on = queue.filter_on /\ queue'.filter = queue.filter
      /\ queue'.msgs = Append(queue.msgs, m)
  BY <1>1, <1>5, PushEffect DEF IInv
<1>7. \A r \in ToSet(queue.msgs) : r.id # m.id
  BY <1>3, <1>5 DEF IInv, WayInv
<1>8. ToSet(queue'.msgs) = ToSet(queue.msgs) \cup {m} /\ Distinct(queue'.msgs)
  BY <1>2, <1>5, <1>6, <1>7, AppendEffect DEF IInv, WayInv
<1>9. TypeOK' /\ QueueInv'
  BY <1>1, <1>3, <1>5, <1>6, <1>8 DEF IInv, TypeOK, QueueInv
<1>10. OnTheWay' \subseteq OnTheWay
  BY <1>3, <1>5, <1>8 DEF OnTheWay
<1>11. \A x \in ToSet(inbox'), r \in ToSet(queue'.msgs) : x.id # r.id
  BY <1>3, <1>5, <1>8 DEF IInv, WayInv
<1> QED
  BY <1>1, <1>3, <1>8, <1>9, <1>10, <1>11, MoveInductive DEF IInv, WayInv

(* The server driver publishes data. *)
LEMMA PublishInductive ==
  ASSUME IInv, NEW s \in Subtypes, PublishData(s)
  PROVE  IInv'
<1> DEFINE m == Msg(DATA, s, 0)
<1>1. /\ queue' = Push(queue, m) /\ published' = published + 1
      /\ UNCHANGED <<inbox, served, flips, pc, subtype, threaded, timeout,
                     requests, answered, abandoned>>
  BY DEF PublishData, requester
<1>2. m \in Message /\ m.type = DATA /\ m.id = 0 /\ ~IsResponse(m)
  BY ConstantsAssumption
  DEF Msg, Message, IsResponse, DeviceAddr, DATA, RESP_ACK, RESP_NACK
<1> HIDE DEF m
<1>3. /\ queue' \in QueueType
      /\ queue'.rules = queue.rules /\ queue'.Replace = queue.Replace
      /\ queue'.filter_on = queue.filter_on /\ queue'.filter = queue.filter
      /\ queue'.msgs = Append(queue.msgs, m) \/ queue'.msgs = queue.msgs
  BY <1>1, <1>2, PushEffect DEF IInv
<1>4. queue.msgs \in Seq(Message) /\ published \in Nat
  BY DEF IInv, TypeOK, QueueType
<1>5. /\ ToSet(queue'.msgs) \subseteq ToSet(queue.msgs) \cup {m}
      /\ Distinct(queue'.msgs)
  BY <1>2, <1>3, <1>4, AppendEffect DEF IInv, WayInv
<1>6. TypeOK' /\ QueueInv'
  BY <1>1, <1>2, <1>3, <1>4, <1>5 DEF IInv, TypeOK, QueueInv
<1>7. OnTheWay' \subseteq OnTheWay
  BY <1>1, <1>2, <1>5 DEF OnTheWay
<1>8. \A x \in ToSet(inbox'), r \in ToSet(queue'.msgs) : x.id # r.id
  BY <1>1, <1>2, <1>5 DEF IInv, WayInv
<1> QED
  BY <1>1, <1>5, <1>6, <1>7, <1>8, MoveInductive DEF IInv, WayInv

(* Without threads: the server driver answers all its requests in one go. *)
LEMMA UpdateInductive ==
  ASSUME IInv, UpdateServer
  PROVE  IInv'
<1>1. /\ pc = "loop" /\ pc' = "pop"
      /\ UNCHANGED <<served, published, flips, subtype, threaded, timeout, requests,
                     answered, abandoned>>
  BY DEF UpdateServer, asked
<1>2. CASE ~served
  <2>1. UNCHANGED <<queue, inbox>>
    BY <1>2 DEF UpdateServer
  <2>2. TypeOK' /\ QueueInv'
    BY <1>1, <2>1 DEF IInv, TypeOK, QueueInv, PCs
  <2> QED
    BY <1>1, <2>1, <2>2, ControlInductive
<1>3. CASE served
  <2>1. PICK reply \in [DOMAIN inbox -> {RESP_ACK, RESP_NACK}] :
          queue' = [queue EXCEPT !.msgs = queue.msgs \o
                      [i \in DOMAIN inbox |-> Msg(reply[i], inbox[i].subtype, inbox[i].id)]]
    BY <1>3 DEF UpdateServer
  <2> DEFINE batch == [i \in DOMAIN inbox |-> Msg(reply[i], inbox[i].subtype, inbox[i].id)]
  <2>2. /\ inbox \in Seq(Message) /\ queue.msgs \in Seq(Message) /\ queue \in QueueType
        /\ DOMAIN inbox = 1..Len(inbox) /\ Len(inbox) \in Nat
        /\ \A i \in DOMAIN inbox : inbox[i] \in Message /\ inbox[i] \in ToSet(inbox)
    BY Places DEF IInv, TypeOK, QueueType
  <2>3. \A i \in DOMAIN inbox : /\ batch[i] \in Message /\ IsResponse(batch[i])
                                /\ batch[i].id = inbox[i].id
    BY <2>2 DEF Msg, Message, IsResponse, DeviceAddr, RESP_ACK, RESP_NACK, DATA
  <2>4. DOMAIN batch = DOMAIN inbox
    OBVIOUS
  <2>5. queue' = [queue EXCEPT !.msgs = queue.msgs \o batch]
    BY <2>1
  <2>6. batch \in [1..Len(inbox) -> Message]
    BY <2>2, <2>3
  <2> HIDE DEF batch
  <2>7. batch \in Seq(Message)
    BY <2>2, <2>6, SeqDef
  <2>8. Distinct(batch)
    BY <2>3, <2>4 DEF Distinct, IInv, WayInv
  <2>9. \A b \in ToSet(batch) : /\ b.id # 0 /\ IsResponse(b)
                                /\ \E r \in ToSet(inbox) : b.id = r.id
    BY <2>2, <2>3, <2>4 DEF ToSet, IInv, WayInv
  <2>10. /\ queue.msgs \o batch \in Seq(Message)
         /\ ToSet(queue.msgs \o batch) = ToSet(queue.msgs) \cup ToSet(batch)
         /\ Distinct(queue.msgs \o batch)
    BY <2>2, <2>7, <2>8, <2>9, ConcatEffect DEF IInv, WayInv
  <2>11. /\ queue' \in QueueType /\ queue'.msgs = queue.msgs \o batch
         /\ queue'.rules = queue.rules /\ queue'.Replace = queue.Replace
         /\ queue'.filter_on = queue.filter_on /\ queue'.filter = queue.filter
    BY <2>2, <2>5, <2>10 DEF QueueType
  <2>12. inbox' = << >>
    BY <1>3 DEF UpdateServer
  <2>13. inbox' \in Seq(Message) /\ ToSet(inbox') = {} /\ Distinct(inbox')
    BY <2>12 DEF ToSet, Distinct
  <2>14. TypeOK' /\ QueueInv'
    BY <1>1, <2>9, <2>10, <2>11, <2>13 DEF IInv, TypeOK, QueueInv, PCs
  <2>15. OnTheWay' \subseteq OnTheWay
    BY <2>9, <2>10, <2>11, <2>13 DEF OnTheWay
  <2> QED
    BY <1>1, <2>10, <2>11, <2>13, <2>14, <2>15, MoveInductive DEF IInv, WayInv
<1> QED
  BY <1>2, <1>3

(* Every step of the requester and of the server driver preserves IInv. *)
LEMMA NextInductive ==
  ASSUME IInv, [Next]_vars
  PROVE  IInv'
<1>1. ASSUME NEW s \in Subtypes, NEW call \in Calls, PutRequest(s, call) PROVE IInv'
  BY <1>1, PutInductive
<1>2. CASE RequesterStep
  BY <1>2, LoopInductive, UpdateInductive, ReplyTakenInductive DEF RequesterStep
<1>3. CASE ProcessMessage
  BY <1>3, ProcessInductive
<1>4. CASE ServerReplies
  BY <1>4, ReplyInductive DEF ServerReplies
<1>5. ASSUME NEW s \in Subtypes, PublishData(s) PROVE IInv'
  BY <1>5, PublishInductive
<1>6. CASE Flip
  BY <1>6, LoopInductive
<1>7. CASE UNCHANGED vars
  BY <1>7 DEF vars, IInv, TypeOK, QueueInv, WayInv, AnswerInv, PromptInv, OnTheWay
<1> QED
  BY <1>1, <1>2, <1>3, <1>4, <1>5, <1>6, <1>7 DEF Next

(* Nothing has been asked yet. *)
LEMMA InitInductive ==
  ASSUME Init
  PROVE  IInv
<1>1. /\ queue \in QueueType /\ queue.msgs = << >> /\ queue.rules = << >>
      /\ queue.Replace = FALSE
  BY ConstantsAssumption DEF Init, NewQueue, QueueType, NoFilter, FilterSpec
<1>2. inbox = << >> /\ answered = [n \in 1..MaxRequests |-> 0]
  BY DEF Init
<1>3. inbox \in Seq(Message) /\ answered \in [1..MaxRequests -> Nat]
  BY <1>2
<1>4. DOMAIN queue.msgs = {} /\ DOMAIN inbox = {}
  BY <1>1, <1>2
<1>5. /\ ToSet(queue.msgs) = {} /\ ToSet(inbox) = {} /\ OnTheWay = {}
      /\ Distinct(queue.msgs) /\ Distinct(inbox)
  BY <1>4 DEF ToSet, OnTheWay, Distinct
<1>6. TypeOK
  BY <1>1, <1>3 DEF Init, TypeOK, PCs
<1>7. QueueInv /\ WayInv
  BY <1>1, <1>5 DEF Init, QueueInv, WayInv
<1>8. AnswerInv /\ PromptInv
  BY <1>5, ConstantsAssumption DEF Init, AnswerInv, PromptInv
<1> QED
  BY <1>6, <1>7, <1>8 DEF IInv

-----------------------------------------------------------------------------
(***************************************************************************)
(* The properties.                                                         *)
(***************************************************************************)

(* At all times: the state has its types, every reply is on its way, or    *)
(* has answered a request, exactly once.                                   *)
THEOREM RequestInvariant == Spec => []IInv
<1>1. Init => IInv
  BY InitInductive
<1>2. IInv /\ [Next]_vars => IInv'
  BY NextInductive
<1> QED
  BY <1>1, <1>2, PTL DEF Spec

(* TimedRequest returns the reply to its own request as long as no request *)
(* has been given up, and never one that has answered already or that is   *)
(* about a request still to be made.                                       *)
THEOREM ReplyBelongsToRequest == Spec => []RepliesMatch
<1>1. IInv => RepliesMatch
  <2> SUFFICES ASSUME IInv, NEW n \in 1..requests, answered[n] # 0
               PROVE  /\ abandoned = {} => answered[n] = n
                      /\ answered[n] <= n
                      /\ \A k \in 1..requests : answered[k] = answered[n] => k = n
    BY DEF RepliesMatch
  <2>1. \A k \in 1..requests : k \in 1..MaxRequests
    BY ConstantsAssumption DEF IInv, AnswerInv, TypeOK
  <2> QED
    BY <2>1 DEF IInv, AnswerInv, PromptInv
<1> QED
  BY <1>1, RequestInvariant, PTL
=============================================================================
