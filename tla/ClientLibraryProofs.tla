------------------------ MODULE ClientLibraryProofs ------------------------
(***************************************************************************)
(* Proofs about ClientLibrary, for any ring size, retry limit and Maxlen,  *)
(* and any number of calls, data messages and faults.                      *)
(*                                                                         *)
(* What a call may rely on when it goes on depends on where the functions  *)
(* below it on the stack stand.  The invariant therefore has a part about  *)
(* the stack (which frame waits for which), one about the one request that *)
(* may be under way and how far it has come, and says of the data mode,    *)
(* the subscription and the round of data that client and server agree     *)
(* except at the points of the stack where a reply about it is under way.  *)
(***************************************************************************)
EXTENDS ClientLibrary, ListFacts, TLAPS

-----------------------------------------------------------------------------
(***************************************************************************)
(* The stack.                                                              *)
(***************************************************************************)
Depth == Len(stack)
Caller == stack[Len(stack) - 1]

(* f waits for the function of g, which it has called. *)
AsksFor(f, r) ==
  \/ f.fn = "connect" /\ f.at = "datamode" /\ r.subtype = REQ_DATAMODE /\ r.arg = PULL
  \/ f.fn \in {"peek", "read"} /\ f.at = "requestdata" /\ r.subtype = REQ_DATA
  \/ /\ f.fn = "datamode" /\ f.at = "request" /\ r.subtype = REQ_DATAMODE
     /\ r.arg = f.req.arg
  \/ f.fn = "subscribe" /\ f.at = "request" /\ r.subtype = REQ_DEV /\ r.arg = OPEN
  \/ f.fn = "unsubscribe" /\ f.at = "request" /\ r.subtype = REQ_DEV /\ r.arg = CLOSE
  \/ f.fn = "retry" /\ f.at = "resub" /\ r.subtype = REQ_DEV /\ r.arg = OPEN

HangsOn(f) ==
  \/ f.fn = "request" /\ f.at = "await"
  \/ f.fn \in {"peek", "read"} /\ f.at = "peek"
  \/ f.fn \in {"read", "read_nonblock"} /\ f.at = "nonblock"
  \/ f.fn = "read" /\ f.at = "block"

Waits(f, g) ==
  \/ g.fn = "request" /\ AsksFor(f, g.req)
  \/ g.fn = "retry" /\ HangsOn(f)
  \/ g.fn = "connect" /\ f.fn = "retry" /\ f.at = "connect"

(* Where a function runs, and where it is when one it called returns. *)
Runs(f) ==
  \/ f.fn = "connect" /\ f.at = "open"
  \/ f.fn = "request" /\ f.at = "send"
  \/ f.fn = "retry" /\ f.at = "connect"
  \/ HangsOn(f)

Resumes(f) ==
  \/ f.fn = "connect" /\ f.at = "datamode"
  \/ f.fn \in {"peek", "read"} /\ f.at = "requestdata"
  \/ f.fn \in {"datamode", "subscribe", "unsubscribe"} /\ f.at = "request"
  \/ f.fn = "retry" /\ f.at \in {"connect", "resub"}
  \/ HangsOn(f)

(* The rest of what a frame says of the client c it works for. *)
Suits(f, c) ==
  /\ f.fn = "datamode" => f.req.arg \in {PUSH, PULL}
  /\ f.fn \in {"subscribe", "unsubscribe"} => ~c.subscribed
  /\ f.at = "resub" => c.subscribed
  /\ f.at = "requestdata" => c.mode = PULL /\ ~c.data_requested
  /\ f.fn = "request" => f.req.id > 0

StackInv ==
  /\ stack = << >> => ret = NoRet
  /\ stack # << >> => /\ stack[1].fn \in Calls
                      /\ ret = NoRet => Runs(Top)
                      /\ ret # NoRet => Resumes(Top) /\ ret \in {-2, -1, 0}
                      /\ ret # NoRet /\ Top.fn = "retry" => Top.j < RetryLimit
  /\ \A i \in 1..(Depth - 1) : /\ Waits(stack[i], stack[i + 1])
                               /\ stack[i].fn = "retry" => stack[i].j < RetryLimit
  /\ \A i \in 1..Depth : Suits(stack[i], client)

(* f is a request, or waits for one made after connecting. *)
OfRequest(f) == f.fn = "request" \/ f.at \in {"requestdata", "request", "resub"}

(* Nothing can have been asked for before the first request. *)
CounterInv ==
  /\ nextReq \in Nat /\ nextReq > 0 /\ nextData \in Nat /\ nextData > 0 /\ seen \in Nat
  /\ nextReq = 1 => ~client.subscribed /\ ~client.data_requested /\ client.ring = << >>
                    /\ \A i \in 1..Depth : ~OfRequest(stack[i])

(* No rule, filter or replacement is set on the queue of a client, and a   *)
(* SYNCH is never put on it.                                               *)
QueueInv ==
  /\ q.filter_on = FALSE /\ q.rules = << >> /\ q.Replace = FALSE
  /\ ~OfType(q.msgs, SYNCH)

(* What is lost with a connection, and who finds it gone. *)
LinkInv ==
  /\ link # "up" => toServer = << >> /\ serving = NoReq
  /\ link \in {"none", "reset"} => toClient = << >>
  /\ link # "none" => client.connected
                      \/ \E i \in 1..Depth : stack[i].fn = "connect" /\ stack[i].at = "datamode"
  /\ stack # << >> /\ ret = NoRet /\ Top.fn \in {"retry", "connect"} => link = "none"
  /\ stack # << >> /\ ret # NoRet /\ ret # 0 /\ (HangsOn(Top) \/ Top.at = "connect")
       => link = "none"

BaseInv == TypeOK /\ StackInv /\ CounterInv /\ QueueInv /\ LinkInv

-----------------------------------------------------------------------------
(***************************************************************************)
(* Data in order.                                                          *)
(***************************************************************************)
Ids(s) == {s[i].id : i \in {k \in DOMAIN s : s[k].type = DATA}}
Ascending(s) ==
  \A i, j \in DOMAIN s : i < j /\ s[i].type = DATA /\ s[j].type = DATA => s[i].id < s[j].id
Before(S, T) == \A x \in S, y \in T : x < y

(* Ring a, connection b and queue c hold what is younger than the message  *)
(* last seen and older than the next, each what is older than the next of  *)
(* them holds.                                                             *)
Ordered(a, b, c, last, next) ==
  /\ Ascending(a) /\ Ascending(b) /\ Ascending(c)
  /\ Before(Ids(a), Ids(b)) /\ Before(Ids(a), Ids(c)) /\ Before(Ids(b), Ids(c))
  /\ Before({last}, Ids(a) \cup Ids(b) \cup Ids(c))
  /\ Before({last} \cup Ids(a) \cup Ids(b) \cup Ids(c), {next})

OrderInv == Ordered(client.ring, toClient, q.msgs, seen, nextData)

-----------------------------------------------------------------------------
(***************************************************************************)
(* The request under way.                                                  *)
(***************************************************************************)
Unanswered(s) == \A i \in DOMAIN s : ~IsResponse(s[i])

(* m is a reply to r, of a server with which the subscription stands at d. *)
Answers(m, r, d) ==
  /\ IsResponse(m) /\ m.subtype = r.subtype /\ m.id = r.id
  /\ m.type = RESP_NACK => r.subtype = REQ_DEV /\ d = "lacking"
  /\ m.type = RESP_ACK /\ r.subtype = REQ_DEV => d # "lacking"

(* The answer to r is in s, and no other. *)
AnsweredIn(s, r, d) ==
  \E k \in DOMAIN s : Answers(s[k], r, d) /\ \A i \in DOMAIN s : IsResponse(s[i]) => i = k

NothingAsked ==
  toServer = << >> /\ serving = NoReq /\ Unanswered(q.msgs) /\ Unanswered(toClient)

Asked ==
  toServer = <<Top.req>> /\ serving = NoReq /\ Unanswered(q.msgs) /\ Unanswered(toClient)

(* Half done: the driver is at work, or the acknowledgement stands at the  *)
(* head of the queue and the data is still to be requested.                *)
HalfDone ==
  /\ toServer = << >> /\ serving = Top.req /\ Unanswered(toClient)
  /\ \/ Top.req.subtype = REQ_DEV /\ sub # "lacking" /\ Unanswered(q.msgs)
     \/ Top.req.subtype = REQ_DATA /\ AnsweredIn(q.msgs, Top.req, sub)

Answered ==
  /\ toServer = << >> /\ serving = NoReq
  /\ \/ AnsweredIn(q.msgs, Top.req, sub) /\ Unanswered(toClient)
     \/ Unanswered(q.msgs) /\ AnsweredIn(toClient, Top.req, sub)

Asking == stack # << >> /\ ret = NoRet /\ Top.fn = "request"
Awaiting == Asking /\ Top.at = "await"

InTime == link = "up" /\ "late" \notin upset

OutstandingInv ==
  InTime =>
    \/ NothingAsked
    \/ Awaiting /\ (Asked \/ HalfDone \/ Answered)

-----------------------------------------------------------------------------
(***************************************************************************)
(* The session.                                                            *)
(***************************************************************************)
InCall == stack # << >> /\ ret # NoRet

(* The mode the server was asked for and the client is about to remember. *)
ModeSettled ==
  /\ Awaiting /\ Top.req.subtype = REQ_DATAMODE /\ Answered
       => q.pull = (Top.req.arg = PULL)
  /\ InCall /\ ret = 0 /\ Top.fn = "connect" => q.pull = TRUE
  /\ InCall /\ ret = 0 /\ Top.fn = "datamode" => q.pull = (Top.req.arg = PULL)

ModeUnderWay ==
  \/ Asking /\ Caller.fn = "connect" /\ (Top.at = "send" \/ Asked)
  \/ Awaiting /\ Top.req.subtype = REQ_DATAMODE /\ Answered
  \/ InCall /\ ret = 0 /\ Top.fn \in {"connect", "datamode"}

ModeAgrees == q.pull = (client.mode = PULL)

ModeInv == InTime => ModeSettled /\ (ModeUnderWay \/ ModeAgrees)

(* The answer about a device is what the server has done about it. *)
SubSettled ==
  /\ Awaiting /\ Top.req.subtype = REQ_DEV /\ (HalfDone \/ Answered)
       => sub \in {IF Top.req.arg = OPEN THEN "yes" ELSE "no", "lacking"}
  /\ InCall /\ ret = 0 /\ (Top.fn = "subscribe" \/ Top.at = "resub") => sub = "yes"

(* A connection is being restored: the subscription is not, or not yet. *)
Restoring ==
  \/ Asking /\ Caller.fn = "connect" /\ Depth >= 3
  \/ Asking /\ Caller.fn = "retry"
  \/ InCall /\ Top.fn = "connect" /\ Depth >= 2
  \/ InCall /\ Top.fn = "retry"

SubUnderWay ==
  \/ Awaiting /\ Caller.fn = "subscribe" /\ (HalfDone \/ Answered)
  \/ InCall /\ ret = 0 /\ Top.fn = "subscribe"
  \/ Asking /\ Caller.fn = "unsubscribe" /\ (Top.at = "send" \/ Asked)

Regular == link = "up" /\ upset \cap {"late", "reopen", "refused"} = {}

SubAgrees == (sub = "yes") = client.subscribed

SubInv ==
  Regular =>
    /\ SubSettled
    /\ Restoring => (sub = "yes" => client.subscribed)
    /\ ~Restoring /\ ~SubUnderWay => SubAgrees

SessionInv == OutstandingInv /\ ModeInv /\ SubInv

-----------------------------------------------------------------------------
(***************************************************************************)
(* The round of data.                                                      *)
(***************************************************************************)

(* The server has begun a round that the client does not yet count on. *)
RoundBegun ==
  \/ Awaiting /\ Top.req.subtype = REQ_DATA /\ Answered
  \/ InCall /\ ret = 0 /\ Top.at = "requestdata"

One(s, t) == \A i, j \in DOMAIN s : s[i].type = t /\ s[j].type = t => i = j

(* Every SYNCH in s has data before it, in s if not already (b). *)
Closes(s, b) ==
  \A i \in DOMAIN s : s[i].type = SYNCH => b \/ \E j \in 1..(i-1) : s[j].type = DATA

(* Client c has seen data of the round it has asked for. *)
Received(c) == c.data_requested /\ c.data_received

(* Between the server's queue u and client c, with b on the connection,    *)
(* there is one SYNCH at most or one to be sent, and data before it.       *)
RoundFlow(c, b, u) ==
  /\ u.data_requested => ~OfType(b, SYNCH) /\ ~OfType(c.ring, SYNCH)
  /\ OfType(c.ring, SYNCH) => ~OfType(b, SYNCH)
  /\ One(c.ring, SYNCH) /\ One(b, SYNCH)
  /\ u.data_requested /\ u.data_delivered =>
       Received(c) \/ OfType(c.ring, DATA) \/ OfType(b, DATA)
  /\ Closes(c.ring, Received(c)) /\ Closes(b, Received(c) \/ OfType(c.ring, DATA))

(* A round is asked for in pull mode, and no change of mode is under way.  *)
RoundMode ==
  client.data_requested =>
    /\ client.mode = PULL
    /\ stack # << >> /\ stack[1].fn = "datamode" => stack[1].req.arg = PULL

Undisturbed == upset = {} /\ link = "up"

RoundInv ==
  Undisturbed =>
    /\ SynchToCome <=> client.data_requested \/ RoundBegun
    /\ RoundFlow(client, toClient, q)
    /\ RoundMode

IInv == BaseInv /\ OrderInv /\ SessionInv /\ RoundInv

-----------------------------------------------------------------------------
(***************************************************************************)
(* Lists of messages: the first is taken, one is put at the end, one is    *)
(* put in front.                                                           *)
(***************************************************************************)
Loses1st(s, t) ==
  /\ s \in Seq(Message) /\ t \in Seq(Message) /\ s # << >> /\ 1 \in DOMAIN s
  /\ s[1] \in Message
  /\ DOMAIN s \subseteq Nat /\ DOMAIN t \subseteq Nat
  /\ \A i \in DOMAIN t : i + 1 \in DOMAIN s /\ t[i] = s[i + 1]
  /\ \A i \in DOMAIN s : i # 1 => i > 1 /\ i - 1 \in DOMAIN t /\ t[i - 1] = s[i]

GainsLast(s, m, t) ==
  /\ s \in Seq(Message) /\ m \in Message /\ t \in Seq(Message)
  /\ DOMAIN t = DOMAIN s \cup {Len(s) + 1} /\ Len(s) \in Nat
  /\ DOMAIN s \subseteq Nat /\ \A i \in DOMAIN s : i < Len(s) + 1 /\ t[i] = s[i]
  /\ t[Len(s) + 1] = m

Gains1st(m, s, t) == Loses1st(t, s) /\ t[1] = m

LEMMA TailOf ==
  ASSUME NEW s \in Seq(Message), s # << >>
  PROVE  Loses1st(s, Tail(s)) /\ Head(s) = s[1]
<1>1. /\ DOMAIN s = 1..Len(s) /\ Len(s) \in Nat /\ Len(s) # 0
  BY LenProperties, EmptySeq
<1>2. /\ Tail(s) \in Seq(Message) /\ Len(Tail(s)) = Len(s) - 1
      /\ \A i \in 1..Len(Tail(s)) : Tail(s)[i] = s[i + 1]
  BY HeadTailProperties
<1>3. DOMAIN Tail(s) = 1..(Len(s) - 1)
  BY <1>2, LenProperties
<1>4. s[1] \in Message /\ Head(s) = s[1]
  BY <1>1, ElementOfSeq
<1>5. /\ \A i \in DOMAIN Tail(s) : i + 1 \in DOMAIN s /\ Tail(s)[i] = s[i + 1]
      /\ \A i \in DOMAIN s : i # 1 => i > 1 /\ i - 1 \in DOMAIN Tail(s)
  BY <1>1, <1>2, <1>3
<1>6. \A i \in DOMAIN s : i # 1 => Tail(s)[i - 1] = s[i]
  <2> SUFFICES ASSUME NEW i \in DOMAIN s, i # 1 PROVE Tail(s)[i - 1] = s[i]
    OBVIOUS
  <2>1. (i - 1) + 1 = i
    BY <1>1
  <2> QED
    BY <1>5, <2>1
<1> QED
  BY <1>1, <1>2, <1>3, <1>4, <1>5, <1>6 DEF Loses1st

LEMMA AppendOf ==
  ASSUME NEW s \in Seq(Message), NEW m \in Message
  PROVE  GainsLast(s, m, Append(s, m))
<1>1. DOMAIN s = 1..Len(s) /\ Len(s) \in Nat
  BY LenProperties
<1>2. /\ Append(s, m) \in Seq(Message) /\ Len(Append(s, m)) = Len(s) + 1
      /\ \A i \in 1..Len(s) : Append(s, m)[i] = s[i]
      /\ Append(s, m)[Len(s) + 1] = m
  BY AppendProperties
<1>3. DOMAIN Append(s, m) = 1..(Len(s) + 1)
  BY <1>2, LenProperties
<1>4. DOMAIN Append(s, m) = DOMAIN s \cup {Len(s) + 1}
  BY <1>1, <1>3
<1> QED
  BY <1>1, <1>2, <1>4 DEF GainsLast

LEMMA ConsOf ==
  ASSUME NEW s \in Seq(Message), NEW m \in Message
  PROVE  Gains1st(m, s, <<m>> \o s)
<1> DEFINE t == <<m>> \o s
<1>1. DOMAIN s = 1..Len(s) /\ Len(s) \in Nat
  BY LenProperties
<1>2. <<m>> \in Seq(Message) /\ Len(<<m>>) = 1 /\ <<m>>[1] = m
  OBVIOUS
<1>3. /\ t \in Seq(Message) /\ Len(t) = 1 + Len(s)
      /\ \A i \in 1..(1 + Len(s)) : t[i] = IF i <= 1 THEN m ELSE s[i - 1]
  BY <1>2, ConcatProperties
<1>4. DOMAIN t = 1..(1 + Len(s))
  BY <1>3, LenProperties
<1> HIDE DEF t
<1>5. t # << >>
  BY <1>1, <1>3, EmptySeq
<1>6. t[1] = m /\ 1 \in DOMAIN t
  BY <1>1, <1>3, <1>4
<1>7. \A i \in DOMAIN s : i + 1 \in DOMAIN t /\ s[i] = t[i + 1]
  BY <1>1, <1>3, <1>4
<1>8. \A i \in DOMAIN t : i # 1 => i > 1 /\ i - 1 \in DOMAIN s /\ s[i - 1] = t[i]
  BY <1>1, <1>3, <1>4
<1>9. DOMAIN s \subseteq Nat /\ DOMAIN t \subseteq Nat
  BY <1>1, <1>4
<1> QED
  BY <1>3, <1>5, <1>6, <1>7, <1>8, <1>9 DEF Gains1st, Loses1st, t

(* What is known of the elements of a list. *)
LEMMA Elements ==
  ASSUME NEW s \in Seq(Message)
  PROVE  /\ \A i \in DOMAIN s : s[i] \in Message /\ i \in Nat /\ i >= 1 /\ i <= Len(s)
         /\ Ids(s) \subseteq Nat
         /\ DOMAIN s = 1..Len(s) /\ Len(s) \in Nat
<1>1. DOMAIN s = 1..Len(s) /\ Len(s) \in Nat
  BY LenProperties
<1>2. \A i \in DOMAIN s : s[i] \in Message
  BY <1>1, ElementOfSeq
<1>3. Ids(s) \subseteq Nat
  BY <1>2 DEF Ids, Message
<1> QED
  BY <1>1, <1>2, <1>3

LEMMA EmptyList ==
  /\ << >> \in Seq(Message) /\ Ids(<< >>) = {} /\ Ascending(<< >>) /\ Unanswered(<< >>)
  /\ \A t : ~OfType(<< >>, t) /\ One(<< >>, t)
<1>1. DOMAIN << >> = {}
  OBVIOUS
<1> QED
  BY <1>1 DEF Ids, Ascending, Unanswered, OfType, One

(* The order of data. *)
LEMMA IdsOfRest ==
  ASSUME NEW s, NEW t, Loses1st(s, t), Ascending(s)
  PROVE  /\ Ids(t) \subseteq Ids(s) /\ Ascending(t)
         /\ s[1].type = DATA => s[1].id \in Ids(s) /\ Before({s[1].id}, Ids(t))
         /\ s[1].type # DATA => Ids(t) = Ids(s)
<1>1. \A i \in DOMAIN t : i \in Nat /\ i + 1 \in DOMAIN s /\ t[i] = s[i + 1] /\ 1 < i + 1
  <2>1. \A i \in DOMAIN t : i \in Nat /\ (i + 1 # 1 => i + 1 > 1)
    BY DEF Loses1st
  <2> QED
    BY <2>1 DEF Loses1st
<1>2. \A i \in DOMAIN s : i # 1 => i - 1 \in DOMAIN t /\ t[i - 1] = s[i]
  BY DEF Loses1st
<1>3. 1 \in DOMAIN s
  BY DEF Loses1st
<1>4. Ids(t) \subseteq Ids(s)
  BY <1>1 DEF Ids
<1>5. Ascending(t)
  <2>1. \A i, j \in DOMAIN t : i < j => i + 1 < j + 1
    BY <1>1
  <2> QED
    BY <1>1, <2>1 DEF Ascending
<1>6. s[1].type = DATA => s[1].id \in Ids(s) /\ Before({s[1].id}, Ids(t))
  BY <1>1, <1>3 DEF Ids, Before, Ascending
<1>7. s[1].type # DATA => Ids(s) \subseteq Ids(t)
  BY <1>2 DEF Ids
<1> QED
  BY <1>4, <1>5, <1>6, <1>7

LEMMA IdsOfMore ==
  ASSUME NEW s, NEW m, NEW t, GainsLast(s, m, t)
  PROVE  /\ m.type = DATA => Ids(t) = Ids(s) \cup {m.id}
         /\ m.type # DATA => Ids(t) = Ids(s)
         /\ Ascending(s) /\ (m.type = DATA => Before(Ids(s), {m.id})) => Ascending(t)
<1> DEFINE n == Len(s) + 1
<1>1. /\ DOMAIN t = DOMAIN s \cup {n} /\ t[n] = m /\ n \in Nat
      /\ \A i \in DOMAIN s : i \in Nat /\ i < n /\ t[i] = s[i]
  BY DEF GainsLast
<1> HIDE DEF n
<1>2. m.type = DATA => Ids(t) = Ids(s) \cup {m.id}
  BY <1>1 DEF Ids
<1>3. m.type # DATA => Ids(t) = Ids(s)
  BY <1>1 DEF Ids
<1>4. ASSUME Ascending(s), m.type = DATA => Before(Ids(s), {m.id}) PROVE Ascending(t)
  <2> SUFFICES ASSUME NEW i \in DOMAIN t, NEW j \in DOMAIN t, i < j,
                      t[i].type = DATA, t[j].type = DATA
               PROVE  t[i].id < t[j].id
    BY DEF Ascending
  <2>1. i \in DOMAIN s
    <3>1. CASE i = n
      BY <1>1, <3>1
    <3> QED
      BY <1>1, <3>1
  <2>2. CASE j = n
    <3>1. t[i].id \in Ids(s)
      BY <1>1, <2>1 DEF Ids
    <3> QED
      BY <1>1, <1>4, <2>2, <3>1 DEF Before
  <2>3. CASE j # n
    BY <1>1, <1>4, <2>1, <2>3 DEF Ascending
  <2> QED
    BY <2>2, <2>3
<1> QED
  BY <1>2, <1>3, <1>4

LEMMA IdsOfFront ==
  ASSUME NEW s, NEW m, NEW t, Gains1st(m, s, t), m.type # DATA, Ascending(s)
  PROVE  Ids(t) = Ids(s) /\ Ascending(t)
<1>1. /\ \A i \in DOMAIN s : i \in Nat /\ i + 1 \in DOMAIN t /\ s[i] = t[i + 1]
      /\ \A i \in DOMAIN t : i # 1 => i \in Nat /\ i - 1 \in DOMAIN s /\ s[i - 1] = t[i]
      /\ t[1].type # DATA
  BY DEF Gains1st, Loses1st
<1>2. Ids(t) = Ids(s)
  BY <1>1 DEF Ids
<1>3. Ascending(t)
  <2> SUFFICES ASSUME NEW i \in DOMAIN t, NEW j \in DOMAIN t, i < j,
                      t[i].type = DATA, t[j].type = DATA
               PROVE  t[i].id < t[j].id
    BY DEF Ascending
  <2>1. i # 1 /\ j # 1
    BY <1>1
  <2>2. i - 1 \in DOMAIN s /\ j - 1 \in DOMAIN s /\ i - 1 < j - 1
    BY <1>1, <2>1
  <2> QED
    BY <1>1, <2>1, <2>2 DEF Ascending
<1> QED
  BY <1>2, <1>3

(* The answer in a list. *)
LEMMA AnswerInRest ==
  ASSUME NEW s, NEW t, Loses1st(s, t)
  PROVE  /\ Unanswered(s) => Unanswered(t) /\ ~IsResponse(s[1])
         /\ \A r, d : AnsweredIn(s, r, d) /\ IsResponse(s[1]) => Unanswered(t) /\ Answers(s[1], r, d)
         /\ \A r, d : AnsweredIn(s, r, d) /\ ~IsResponse(s[1]) => AnsweredIn(t, r, d)
<1>1. \A i \in DOMAIN t : i \in Nat /\ i + 1 \in DOMAIN s /\ t[i] = s[i + 1] /\ i + 1 # 1
  <2>1. \A i \in DOMAIN t : i \in Nat /\ i + 1 \in DOMAIN s /\ t[i] = s[i + 1]
    BY DEF Loses1st
  <2>2. \A i \in DOMAIN t : i = 0 => FALSE
    <3>1. DOMAIN t = 1..Len(t) /\ Len(t) \in Nat
      BY LenProperties DEF Loses1st
    <3> QED
      BY <3>1
  <2> QED
    BY <2>1, <2>2
<1>2. /\ \A i \in DOMAIN s : i # 1 => i \in Nat /\ i - 1 \in DOMAIN t /\ t[i - 1] = s[i]
      /\ 1 \in DOMAIN s
  BY DEF Loses1st
<1>3. Unanswered(s) => Unanswered(t) /\ ~IsResponse(s[1])
  BY <1>1, <1>2 DEF Unanswered
<1>4. ASSUME NEW r, NEW d, AnsweredIn(s, r, d), IsResponse(s[1])
      PROVE  Unanswered(t) /\ Answers(s[1], r, d)
  BY <1>1, <1>2, <1>4 DEF AnsweredIn, Unanswered
<1>5. ASSUME NEW r, NEW d, AnsweredIn(s, r, d), ~IsResponse(s[1])
      PROVE  AnsweredIn(t, r, d)
  <2>1. PICK k \in DOMAIN s : Answers(s[k], r, d) /\ \A i \in DOMAIN s : IsResponse(s[i]) => i = k
    BY <1>5 DEF AnsweredIn
  <2>2. k # 1
    BY <1>5, <2>1 DEF Answers
  <2>3. k \in Nat /\ k - 1 \in DOMAIN t /\ t[k - 1] = s[k]
    BY <1>2, <2>1, <2>2
  <2>4. \A i \in DOMAIN t : IsResponse(t[i]) => i = k - 1
    <3> SUFFICES ASSUME NEW i \in DOMAIN t, IsResponse(t[i]) PROVE i = k - 1
      OBVIOUS
    <3>1. i \in Nat /\ i + 1 = k
      BY <1>1, <2>1
    <3> QED
      BY <2>3, <3>1
  <2> QED
    BY <2>1, <2>3, <2>4 DEF AnsweredIn
<1> QED
  BY <1>3, <1>4, <1>5

LEMMA AnswerInMore ==
  ASSUME NEW s, NEW m, NEW t, GainsLast(s, m, t)
  PROVE  /\ Unanswered(s) /\ ~IsResponse(m) => Unanswered(t)
         /\ \A r, d : Unanswered(s) /\ Answers(m, r, d) => AnsweredIn(t, r, d)
         /\ \A r, d : AnsweredIn(s, r, d) /\ ~IsResponse(m) => AnsweredIn(t, r, d)
<1> DEFINE n == Len(s) + 1
<1>1. /\ DOMAIN t = DOMAIN s \cup {n} /\ t[n] = m /\ n \notin DOMAIN s
      /\ \A i \in DOMAIN s : t[i] = s[i]
  <2>1. /\ DOMAIN t = DOMAIN s \cup {n} /\ t[n] = m
        /\ \A i \in DOMAIN s : i \in Nat /\ i < n /\ t[i] = s[i]
    BY DEF GainsLast
  <2> QED
    BY <2>1
<1> HIDE DEF n
<1>2. Unanswered(s) /\ ~IsResponse(m) => Unanswered(t)
  BY <1>1 DEF Unanswered
<1>3. ASSUME NEW r, NEW d, Unanswered(s), Answers(m, r, d) PROVE AnsweredIn(t, r, d)
  <2>1. n \in DOMAIN t /\ Answers(t[n], r, d) /\ \A i \in DOMAIN t : IsResponse(t[i]) => i = n
    BY <1>1, <1>3 DEF Unanswered
  <2> QED
    BY <2>1 DEF AnsweredIn
<1>4. ASSUME NEW r, NEW d, AnsweredIn(s, r, d), ~IsResponse(m) PROVE AnsweredIn(t, r, d)
  BY <1>1, <1>4 DEF AnsweredIn
<1> QED
  BY <1>2, <1>3, <1>4

LEMMA AnswerInFront ==
  ASSUME NEW s, NEW m, NEW t, Gains1st(m, s, t), NEW r, NEW d, Unanswered(s), Answers(m, r, d)
  PROVE  AnsweredIn(t, r, d)
<1>1. /\ 1 \in DOMAIN t /\ t[1] = m
      /\ \A i \in DOMAIN t : i # 1 => i - 1 \in DOMAIN s /\ s[i - 1] = t[i]
  BY DEF Gains1st, Loses1st
<1>2. \A i \in DOMAIN t : IsResponse(t[i]) => i = 1
  BY <1>1 DEF Unanswered
<1> QED
  BY <1>1, <1>2 DEF AnsweredIn

(* The types in a list. *)
LEMMA TypesInRest ==
  ASSUME NEW s, NEW t, Loses1st(s, t), NEW y
  PROVE  /\ OfType(t, y) => OfType(s, y)
         /\ OfType(s, y) /\ s[1].type # y => OfType(t, y)
         /\ s[1].type = y => OfType(s, y)
         /\ One(s, y) => One(t, y)
         /\ One(s, y) /\ s[1].type = y => ~OfType(t, y)
<1>1. \A i \in DOMAIN t : i \in Nat /\ i + 1 \in DOMAIN s /\ t[i] = s[i + 1] /\ i + 1 # 1
  <2>1. \A i \in DOMAIN t : i \in Nat /\ i + 1 \in DOMAIN s /\ t[i] = s[i + 1]
    BY DEF Loses1st
  <2>2. \A i \in DOMAIN t : i = 0 => FALSE
    <3>1. DOMAIN t = 1..Len(t) /\ Len(t) \in Nat
      BY LenProperties DEF Loses1st
    <3> QED
      BY <3>1
  <2> QED
    BY <2>1, <2>2
<1>2. /\ \A i \in DOMAIN s : i # 1 => i \in Nat /\ i - 1 \in DOMAIN t /\ t[i - 1] = s[i]
      /\ 1 \in DOMAIN s
  BY DEF Loses1st
<1>3. OfType(t, y) => OfType(s, y)
  BY <1>1 DEF OfType
<1>4. OfType(s, y) /\ s[1].type # y => OfType(t, y)
  BY <1>2 DEF OfType
<1>5. s[1].type = y => OfType(s, y)
  BY <1>2 DEF OfType
<1>6. One(s, y) => One(t, y)
  <2> SUFFICES ASSUME One(s, y), NEW i \in DOMAIN t, NEW j \in DOMAIN t,
                      t[i].type = y, t[j].type = y
               PROVE  i = j
    BY DEF One
  <2>1. i + 1 = j + 1
    BY <1>1 DEF One
  <2> QED
    BY <1>1, <2>1
<1>7. One(s, y) /\ s[1].type = y => ~OfType(t, y)
  BY <1>1, <1>2 DEF One, OfType
<1> QED
  BY <1>3, <1>4, <1>5, <1>6, <1>7

LEMMA TypesInMore ==
  ASSUME NEW s, NEW m, NEW t, GainsLast(s, m, t), NEW y
  PROVE  /\ OfType(t, y) <=> OfType(s, y) \/ m.type = y
         /\ One(s, y) /\ (m.type = y => ~OfType(s, y)) => One(t, y)
<1> DEFINE n == Len(s) + 1
<1>1. /\ DOMAIN t = DOMAIN s \cup {n} /\ t[n] = m
      /\ \A i \in DOMAIN s : t[i] = s[i]
  BY DEF GainsLast
<1> HIDE DEF n
<1>2. OfType(t, y) <=> OfType(s, y) \/ m.type = y
  BY <1>1 DEF OfType
<1>3. One(s, y) /\ (m.type = y => ~OfType(s, y)) => One(t, y)
  BY <1>1 DEF One, OfType
<1> QED
  BY <1>2, <1>3

-----------------------------------------------------------------------------
(***************************************************************************)
(* Steps on the stack.                                                     *)
(***************************************************************************)
Typed == stack \in Seq(Frame)

(* The frames below the top one stay. *)
Below(n) == \A i \in 1..n : stack'[i] = stack[i]

(* f, standing at p. *)
At(f, p, g) == g \in Frame /\ g.fn = f.fn /\ g.at = p /\ g.j = f.j /\ g.req = f.req

LEMMA FrameFacts ==
  ASSUME Typed
  PROVE  /\ Depth \in Nat /\ DOMAIN stack = 1..Depth
         /\ \A i \in 1..Depth : stack[i] \in Frame
         /\ stack # << >> <=> Depth >= 1
         /\ stack # << >> => Top \in Frame /\ Top = stack[Depth]
         /\ Depth >= 2 => Caller \in Frame /\ Caller = stack[Depth - 1]
<1>1. Len(stack) \in Nat /\ DOMAIN stack = 1..Len(stack)
  BY LenProperties DEF Typed
<1>2. \A i \in 1..Len(stack) : stack[i] \in Frame
  BY ElementOfSeq DEF Typed
<1>3. stack # << >> <=> Len(stack) >= 1
  BY <1>1, EmptySeq DEF Typed
<1> QED
  BY <1>1, <1>2, <1>3 DEF Depth, Top, Caller

LEMMA FrontFacts ==
  ASSUME Typed, stack # << >>
  PROVE  /\ Front(stack) \in Seq(Frame) /\ Len(Front(stack)) = Depth - 1
         /\ \A i \in 1..(Depth - 1) : Front(stack)[i] = stack[i]
<1>1. Depth \in Nat /\ Depth >= 1 /\ \A i \in 1..Depth : stack[i] \in Frame
  BY FrameFacts
<1>2. Front(stack) = SubSeq(stack, 1, Depth - 1)
  BY DEF Front, Depth
<1>3. \A i \in 1..(Depth - 1) : stack[i] \in Frame
  BY <1>1
<1>4. 1 \in Int /\ Depth - 1 \in Int
  BY <1>1
<1>5. /\ SubSeq(stack, 1, Depth - 1) \in Seq(Frame)
      /\ Len(SubSeq(stack, 1, Depth - 1)) = IF 1 <= Depth - 1 THEN (Depth - 1) - 1 + 1 ELSE 0
      /\ \A i \in 1..((Depth - 1) - 1 + 1) : SubSeq(stack, 1, Depth - 1)[i] = stack[1 + i - 1]
  BY <1>3, <1>4, SubSeqProperties
<1> HIDE DEF Depth
<1>6. (Depth - 1) - 1 + 1 = Depth - 1 /\ \A i \in 1..(Depth - 1) : 1 + i - 1 = i
  BY <1>1
<1>7. Len(Front(stack)) = Depth - 1
  BY <1>1, <1>2, <1>5
<1> QED
  BY <1>2, <1>5, <1>6, <1>7

LEMMA Replaced ==
  ASSUME Typed, stack # << >>, NEW f \in Frame, NEW s, s = Append(Front(stack), f)
  PROVE  /\ s \in Seq(Frame) /\ Len(s) = Depth /\ s[Depth] = f
         /\ \A i \in 1..(Depth - 1) : s[i] = stack[i]
<1>1. Depth \in Nat /\ Depth >= 1
  BY FrameFacts
<1>2. /\ Front(stack) \in Seq(Frame) /\ Len(Front(stack)) = Depth - 1
      /\ \A i \in 1..(Depth - 1) : Front(stack)[i] = stack[i]
  BY FrontFacts
<1>3. /\ s \in Seq(Frame) /\ Len(s) = Len(Front(stack)) + 1
      /\ \A i \in 1..Len(Front(stack)) : s[i] = Front(stack)[i]
      /\ s[Len(Front(stack)) + 1] = f
  BY <1>2, AppendProperties
<1>4. Len(Front(stack)) + 1 = Depth
  BY <1>1, <1>2
<1> QED
  BY <1>2, <1>3, <1>4

LEMMA Stands ==
  ASSUME NEW f \in Frame, NEW p \in Points
  PROVE  At(f, p, [f EXCEPT !.at = p])
BY DEF At, Frame

(* playerc functions return. *)
LEMMA ReturnEffect ==
  ASSUME Typed, stack # << >>, NEW v, Return(v)
  PROVE  /\ Typed' /\ Depth' = Depth - 1 /\ Below(Depth - 1)
         /\ Depth = 1 => stack' = << >> /\ ret' = NoRet
         /\ Depth # 1 => Depth >= 2 /\ stack' # << >> /\ ret' = v /\ Top' = Caller
<1>1. Depth \in Nat /\ Depth >= 1 /\ (Depth >= 2 => Caller = stack[Depth - 1])
  BY FrameFacts
<1>2. /\ stack' \in Seq(Frame) /\ Len(stack') = Depth - 1
      /\ \A i \in 1..(Depth - 1) : stack'[i] = stack[i]
  BY FrontFacts DEF Return
<1>3. Typed' /\ Depth' = Depth - 1 /\ Below(Depth - 1)
  BY <1>2 DEF Typed, Depth, Below
<1>4. Depth = 1 => stack' = << >> /\ ret' = NoRet
  BY <1>2, EmptySeq DEF Return, Depth
<1>5. ASSUME Depth # 1
      PROVE  Depth >= 2 /\ stack' # << >> /\ ret' = v /\ Top' = Caller
  <2>1. Depth >= 2 /\ Depth - 1 \in 1..(Depth - 1)
    BY <1>1, <1>5
  <2>2. stack' # << >>
    BY <1>1, <1>2, <2>1, EmptySeq
  <2>3. ret' = v
    BY <1>5 DEF Return, Depth
  <2>4. Top' = stack'[Depth - 1]
    BY <1>2 DEF Top
  <2> QED
    BY <1>1, <1>2, <2>1, <2>2, <2>3, <2>4
<1> QED
  BY <1>3, <1>4, <1>5

(* The top one goes on somewhere else. *)
LEMMA GoEffect ==
  ASSUME Typed, stack # << >>, NEW p \in Points, Go(p)
  PROVE  /\ Typed' /\ Depth' = Depth /\ Below(Depth - 1) /\ stack' # << >>
         /\ ret' = NoRet /\ At(Top, p, Top')
         /\ Depth >= 2 => Caller' = Caller
<1> DEFINE f == [Top EXCEPT !.at = p]
<1>1. Depth \in Nat /\ Depth >= 1 /\ Top \in Frame
  BY FrameFacts
<1>2. At(Top, p, f)
  BY <1>1, Stands
<1>3. f \in Frame
  BY <1>2 DEF At
<1>4. stack' = Append(Front(stack), f)
  BY DEF Go, Moved
<1> HIDE DEF f
<1>5. /\ stack' \in Seq(Frame) /\ Len(stack') = Depth /\ stack'[Depth] = f
      /\ \A i \in 1..(Depth - 1) : stack'[i] = stack[i]
  BY <1>3, <1>4, Replaced, ZenonT(60)
<1>6. Typed' /\ Depth' = Depth /\ Below(Depth - 1) /\ Top' = f
  BY <1>5 DEF Typed, Depth, Below, Top
<1>7. stack' # << >>
  BY <1>1, <1>5, EmptySeq
<1>8. ret' = NoRet
  BY DEF Go
<1>9. Depth >= 2 => Caller' = Caller
  <2> SUFFICES ASSUME Depth >= 2 PROVE stack'[Depth - 1] = stack[Depth - 1]
    BY <1>5 DEF Caller, Depth
  <2> QED
    BY <1>1, <1>5
<1> QED
  BY <1>2, <1>6, <1>7, <1>8, <1>9

(* The top one goes back for another attempt. *)
LEMMA AttemptEffect ==
  ASSUME Typed, stack # << >>, NextAttempt, Top.j < RetryLimit
  PROVE  /\ Typed' /\ Depth' = Depth /\ Below(Depth - 1) /\ stack' # << >>
         /\ ret' = NoRet /\ Top'.fn = Top.fn /\ Top'.at = "connect" /\ Top'.req = Top.req
         /\ Top' \in Frame
<1> DEFINE f == [Top EXCEPT !.at = "connect", !.j = Top.j + 1]
<1>1. Depth \in Nat /\ Depth >= 1 /\ Top \in Frame
  BY FrameFacts
<1>2. f \in Frame /\ f.fn = Top.fn /\ f.at = "connect" /\ f.req = Top.req
  <2>1. "connect" \in Points /\ Top.j + 1 \in 0..RetryLimit
    BY <1>1, ConstantsAssumption DEF Points, Frame
  <2> QED
    BY <1>1, <2>1 DEF Frame
<1>3. stack' = Append(Front(stack), f)
  BY DEF NextAttempt
<1> HIDE DEF f
<1>4. /\ stack' \in Seq(Frame) /\ Len(stack') = Depth /\ stack'[Depth] = f
      /\ \A i \in 1..(Depth - 1) : stack'[i] = stack[i]
  BY <1>2, <1>3, Replaced
<1>5. Typed' /\ Depth' = Depth /\ Below(Depth - 1) /\ Top' = f
  BY <1>4 DEF Typed, Depth, Below, Top
<1>6. stack' # << >>
  BY <1>1, <1>4, EmptySeq
<1>7. ret' = NoRet
  BY DEF NextAttempt
<1> QED
  BY <1>2, <1>5, <1>6, <1>7

(* A function is called. *)
LEMMA CallEffect ==
  ASSUME Typed, stack # << >>, NEW p \in Points, NEW g \in Frame, Calling(p, g)
  PROVE  /\ Typed' /\ Depth' = Depth + 1 /\ Below(Depth - 1) /\ stack' # << >>
         /\ ret' = NoRet /\ Top' = g /\ At(Top, p, Caller') /\ Caller' = stack'[Depth]
<1> DEFINE f == [Top EXCEPT !.at = p]
           s == Append(Front(stack), f)
<1>1. Depth \in Nat /\ Depth >= 1 /\ Top \in Frame
  BY FrameFacts
<1>2. At(Top, p, f)
  BY <1>1, Stands
<1>3. f \in Frame
  BY <1>2 DEF At
<1>4. stack' = Append(s, g)
  BY DEF Calling, Moved
<1> HIDE DEF f
<1>5. /\ s \in Seq(Frame) /\ Len(s) = Depth /\ s[Depth] = f
      /\ \A i \in 1..(Depth - 1) : s[i] = stack[i]
  BY <1>3, Replaced, ZenonT(60)
<1> HIDE DEF s
<1>6. /\ stack' \in Seq(Frame) /\ Len(stack') = Depth + 1 /\ stack'[Depth + 1] = g
      /\ \A i \in 1..Depth : stack'[i] = s[i]
  BY <1>4, <1>5, AppendProperties
<1>7. Depth \in 1..Depth /\ \A i \in 1..(Depth - 1) : i \in 1..Depth
  BY <1>1
<1>8. stack'[Depth] = f /\ \A i \in 1..(Depth - 1) : stack'[i] = stack[i]
  BY <1>5, <1>6, <1>7
<1>9. Typed' /\ Depth' = Depth + 1 /\ Below(Depth - 1) /\ Top' = g
  BY <1>6, <1>8 DEF Typed, Depth, Below, Top
<1>10. Caller' = stack'[Depth]
  <2>1. Len(stack') - 1 = Depth
    BY <1>1, <1>6
  <2> QED
    BY <2>1 DEF Caller
<1>11. stack' # << >>
  BY <1>1, <1>6, EmptySeq
<1>12. ret' = NoRet
  BY DEF Calling
<1> QED
  BY <1>2, <1>8, <1>9, <1>10, <1>11, <1>12

(* What a frame says of the client still holds. *)
SuitsKept == \A f : Suits(f, client) => Suits(f, client')

LEMMA WaitsOn ==
  ASSUME NEW f, NEW g, NEW h, Waits(f, g), h.fn = g.fn, h.req = g.req
  PROVE  Waits(f, h)
BY DEF Waits

LEMMA WaiterResumes ==
  ASSUME NEW f, NEW g, Waits(f, g)
  PROVE  Resumes(f) /\ g.fn \in {"request", "retry", "connect"}
BY DEF Waits, AsksFor, Resumes

(* A caller of something the program cannot call is not at the bottom. *)
LEMMA BottomIsCall ==
  ASSUME Typed, StackInv, stack # << >>
  PROVE  /\ Top.fn \in Calls \ {"connect"} => Depth = 1
         /\ Top.fn \notin Calls => Depth >= 2
         /\ Depth >= 2 => Waits(Caller, Top)
<1>1. Depth \in Nat /\ Depth >= 1 /\ Top = stack[Depth] /\ (Depth >= 2 => Caller = stack[Depth - 1])
  BY FrameFacts
<1>2. Depth >= 2 => Waits(Caller, Top)
  <2> SUFFICES ASSUME Depth >= 2 PROVE Waits(stack[Depth - 1], stack[Depth])
    BY <1>1
  <2>1. Depth - 1 \in 1..(Depth - 1) /\ (Depth - 1) + 1 = Depth
    BY <1>1
  <2> QED
    BY <2>1 DEF StackInv
<1>3. Depth = 1 => Top.fn \in Calls
  BY <1>1 DEF StackInv
<1>4. Top.fn \in Calls \ {"connect"} => ~(Depth >= 2)
  BY <1>2, WaiterResumes DEF Calls
<1> QED
  BY <1>1, <1>2, <1>3, <1>4

LEMMA ReturnKeeps ==
  ASSUME Typed, StackInv, stack # << >>, NEW v, Return(v),
         Depth = 1 \/ v \in {-2, -1, 0}, Depth = 1 \/ SuitsKept
  PROVE  StackInv'
<1>1. /\ Typed' /\ Depth' = Depth - 1 /\ Below(Depth - 1)
      /\ Depth = 1 => stack' = << >> /\ ret' = NoRet
      /\ Depth # 1 => Depth >= 2 /\ stack' # << >> /\ ret' = v /\ Top' = Caller
  BY ReturnEffect
<1>2. Depth \in Nat /\ Depth >= 1 /\ (Depth >= 2 => Caller = stack[Depth - 1])
  BY FrameFacts
<1>3. CASE Depth = 1
  <2>1. 1..(Depth' - 1) = {} /\ 1..Depth' = {}
    BY <1>1, <1>2, <1>3
  <2> QED
    BY <1>1, <1>3, <2>1 DEF StackInv
<1>4. CASE Depth # 1
  <2>1. /\ stack' # << >> /\ ret' = v /\ Top' = Caller /\ Depth >= 2 /\ v \in {-2, -1, 0}
        /\ v # NoRet
    BY <1>1, <1>4 DEF NoRet
  <2>2. Waits(Caller, Top) /\ Resumes(Caller)
    BY <2>1, BottomIsCall, WaiterResumes
  <2>3. stack'[1] = stack[1]
    <3>1. 1 \in 1..(Depth - 1)
      BY <1>2, <2>1
    <3> QED
      BY <1>1, <3>1 DEF Below
  <2>4. Caller.fn = "retry" => Caller.j < RetryLimit
    <3>1. Depth - 1 \in 1..(Depth - 1)
      BY <1>2, <2>1
    <3> QED
      BY <1>2, <2>1, <3>1 DEF StackInv
  <2>5. \A i \in 1..(Depth' - 1) : /\ Waits(stack'[i], stack'[i + 1])
                                   /\ stack'[i].fn = "retry" => stack'[i].j < RetryLimit
    <3> SUFFICES ASSUME NEW i \in 1..(Depth' - 1)
                 PROVE  /\ Waits(stack'[i], stack'[i + 1])
                        /\ stack'[i].fn = "retry" => stack'[i].j < RetryLimit
      OBVIOUS
    <3>1. i \in 1..(Depth - 1) /\ i + 1 \in 1..(Depth - 1)
      BY <1>1, <1>2, <2>1
    <3>2. stack'[i] = stack[i] /\ stack'[i + 1] = stack[i + 1]
      BY <1>1, <3>1 DEF Below
    <3> QED
      BY <3>1, <3>2 DEF StackInv
  <2>6. \A i \in 1..Depth' : Suits(stack'[i], client')
    <3> SUFFICES ASSUME NEW i \in 1..Depth' PROVE Suits(stack'[i], client')
      OBVIOUS
    <3>1. i \in 1..(Depth - 1) /\ i \in 1..Depth
      BY <1>1, <1>2, <2>1
    <3>2. stack'[i] = stack[i]
      BY <1>1, <3>1 DEF Below
    <3> QED
      BY <1>4, <3>1, <3>2 DEF StackInv, SuitsKept
  <2> QED
    BY <2>1, <2>2, <2>3, <2>4, <2>5, <2>6 DEF StackInv
<1> QED
  BY <1>3, <1>4

LEMMA TopKeeps ==
  ASSUME Typed, StackInv, stack # << >>, Typed', Depth' = Depth, Below(Depth - 1),
         stack' # << >>, ret' = NoRet, Top'.fn = Top.fn, Top'.req = Top.req,
         Runs(Top'), Suits(Top', client'), Depth = 1 \/ SuitsKept
  PROVE  StackInv'
<1>1. /\ Depth \in Nat /\ Depth >= 1 /\ Top = stack[Depth]
      /\ (Depth >= 2 => Caller = stack[Depth - 1])
  BY FrameFacts
<1>2. Top' = stack'[Depth]
  BY DEF Top, Depth
<1>3. stack'[1].fn \in Calls
  <2>1. CASE Depth = 1
    BY <1>1, <1>2, <2>1 DEF StackInv
  <2>2. CASE Depth # 1
    <3>1. 1 \in 1..(Depth - 1)
      BY <1>1, <2>2
    <3> QED
      BY <3>1 DEF StackInv, Below
  <2> QED
    BY <2>1, <2>2
<1>4. \A i \in 1..(Depth' - 1) : /\ Waits(stack'[i], stack'[i + 1])
                                 /\ stack'[i].fn = "retry" => stack'[i].j < RetryLimit
  <2> SUFFICES ASSUME NEW i \in 1..(Depth - 1)
               PROVE  /\ Waits(stack'[i], stack'[i + 1])
                      /\ stack'[i].fn = "retry" => stack'[i].j < RetryLimit
    OBVIOUS
  <2>1. stack'[i] = stack[i] /\ Waits(stack[i], stack[i + 1])
        /\ (stack[i].fn = "retry" => stack[i].j < RetryLimit)
    BY DEF Below, StackInv
  <2>2. CASE i + 1 \in 1..(Depth - 1)
    BY <2>1, <2>2 DEF Below
  <2>3. CASE i + 1 \notin 1..(Depth - 1)
    <3>1. i + 1 = Depth
      BY <1>1, <2>3
    <3>2. Waits(stack[i], Top')
      BY <1>1, <2>1, <3>1, WaitsOn
    <3> QED
      BY <1>2, <2>1, <3>1, <3>2
  <2> QED
    BY <2>2, <2>3
<1>5. \A i \in 1..Depth' : Suits(stack'[i], client')
  <2> SUFFICES ASSUME NEW i \in 1..Depth PROVE Suits(stack'[i], client')
    OBVIOUS
  <2>1. CASE i = Depth
    BY <1>2, <2>1
  <2>2. CASE i # Depth
    <3>1. i \in 1..(Depth - 1) /\ Depth # 1
      BY <1>1, <2>2
    <3> QED
      BY <3>1 DEF Below, StackInv, SuitsKept
  <2> QED
    BY <2>1, <2>2
<1> QED
  BY <1>3, <1>4, <1>5 DEF StackInv

LEMMA CallKeeps ==
  ASSUME Typed, StackInv, stack # << >>, NEW p \in Points, NEW g \in Frame, Calling(p, g),
         Runs(g), Suits(g, client'), SuitsKept,
         NEW f, f = Caller', At(Top, p, f) => Waits(f, g) /\ Suits(f, client')
                                              /\ (f.fn = "retry" => f.j < RetryLimit)
  PROVE  StackInv'
<1>1. /\ Typed' /\ Depth' = Depth + 1 /\ Below(Depth - 1) /\ stack' # << >>
      /\ ret' = NoRet /\ Top' = g /\ At(Top, p, f) /\ f = stack'[Depth]
  BY CallEffect
<1>2. Depth \in Nat /\ Depth >= 1 /\ Top = stack[Depth]
  BY FrameFacts
<1>3. Top' = stack'[Depth + 1]
  BY <1>1 DEF Top, Depth
<1>4. Waits(f, g) /\ Suits(f, client') /\ (f.fn = "retry" => f.j < RetryLimit) /\ f.fn = Top.fn
      /\ f.req = Top.req
  BY <1>1 DEF At
<1>5. stack'[1].fn \in Calls
  <2>1. CASE Depth = 1
    BY <1>1, <1>2, <1>4, <2>1 DEF StackInv
  <2>2. CASE Depth # 1
    <3>1. 1 \in 1..(Depth - 1)
      BY <1>2, <2>2
    <3> QED
      BY <1>1, <3>1 DEF StackInv, Below
  <2> QED
    BY <2>1, <2>2
<1>6. \A i \in 1..(Depth' - 1) : /\ Waits(stack'[i], stack'[i + 1])
                                 /\ stack'[i].fn = "retry" => stack'[i].j < RetryLimit
  <2> SUFFICES ASSUME NEW i \in 1..Depth
               PROVE  /\ Waits(stack'[i], stack'[i + 1])
                      /\ stack'[i].fn = "retry" => stack'[i].j < RetryLimit
    <3>1. 1..(Depth' - 1) = 1..Depth
      BY <1>1, <1>2
    <3> QED
      BY <3>1
  <2>1. CASE i = Depth
    BY <1>1, <1>3, <1>4, <2>1
  <2>2. CASE i # Depth
    <3>1. i \in 1..(Depth - 1)
      BY <1>2, <2>2
    <3>2. stack'[i] = stack[i] /\ Waits(stack[i], stack[i + 1])
          /\ (stack[i].fn = "retry" => stack[i].j < RetryLimit)
      BY <1>1, <3>1 DEF Below, StackInv
    <3>3. CASE i + 1 \in 1..(Depth - 1)
      BY <1>1, <3>2, <3>3 DEF Below
    <3>4. CASE i + 1 \notin 1..(Depth - 1)
      <4>1. i + 1 = Depth
        BY <1>2, <3>1, <3>4
      <4>2. Waits(stack[i], f)
        BY <1>2, <1>4, <3>2, <4>1, WaitsOn
      <4> QED
        BY <1>1, <3>2, <4>1, <4>2
    <3> QED
      BY <3>3, <3>4
  <2> QED
    BY <2>1, <2>2
<1>7. \A i \in 1..Depth' : Suits(stack'[i], client')
  <2> SUFFICES ASSUME NEW i \in 1..Depth' PROVE Suits(stack'[i], client')
    OBVIOUS
  <2>1. CASE i = Depth + 1
    BY <1>1, <1>3, <2>1
  <2>2. CASE i = Depth
    BY <1>1, <1>4, <2>2
  <2>3. CASE i # Depth /\ i # Depth + 1
    <3>1. i \in 1..(Depth - 1) /\ i \in 1..Depth
      BY <1>1, <1>2, <2>3
    <3> QED
      BY <1>1, <3>1 DEF Below, StackInv, SuitsKept
  <2> QED
    BY <2>1, <2>2, <2>3
<1> QED
  BY <1>1, <1>5, <1>6, <1>7 DEF StackInv

-----------------------------------------------------------------------------
(***************************************************************************)
(* Types, the stack and the connection.                                    *)
(***************************************************************************)
ClientType ==
  [connected : BOOLEAN, mode : {PUSH, PULL}, data_requested : BOOLEAN,
   data_received : BOOLEAN, ring : Seq(Message), subscribed : BOOLEAN]

FlowType ==
  /\ link \in {"none", "up", "fin", "reset"}
  /\ toServer \in Seq(Request) /\ toClient \in Seq(Message)
  /\ q \in QueueType /\ sub \in {"yes", "no", "lacking"} /\ serving \in Request \cup {NoReq}
  /\ client \in ClientType /\ Len(client.ring) <= RingSize
  /\ upset \subseteq Irregularities

LEMMA TypeSplit == TypeOK => FlowType /\ Typed
BY DEF TypeOK, FlowType, ClientType, Typed

LEMMA TypeJoin ==
  ASSUME FlowType, Typed, StackInv
  PROVE  TypeOK
<1>1. ret \in {-2, -1, 0, 1, NoRet}
  BY DEF StackInv
<1>2. stack # << >> => stack[1].fn \in Calls
  BY DEF StackInv
<1> QED
  BY <1>1, <1>2 DEF TypeOK, FlowType, ClientType, Typed

LEMMA TypeJoinPrime ==
  ASSUME FlowType', Typed', StackInv'
  PROVE  TypeOK'
<1>1. ret' \in {-2, -1, 0, 1, NoRet}
  BY DEF StackInv
<1>2. stack' # << >> => stack'[1].fn \in Calls
  BY DEF StackInv
<1> QED
  BY <1>1, <1>2 DEF TypeOK, FlowType, ClientType, Typed

(* The step leaves the connection as it is, or takes a packet from it. *)
FlowKept ==
  /\ FlowType' /\ link' = link /\ toServer' = toServer /\ serving' = serving /\ q' = q
  /\ toClient = << >> => toClient' = << >>
  /\ nextData' = nextData /\ seen' \in Nat

LEMMA ReturnBase ==
  ASSUME BaseInv, stack # << >>, NEW v, Return(v), FlowKept, nextReq' = nextReq,
         Depth = 1 \/ v \in {-2, -1, 0}, Depth = 1 \/ SuitsKept,
         client'.connected \/ (Top.fn # "connect" /\ client'.connected = client.connected)
           \/ link = "none",
         nextReq = 1 => ~client'.subscribed /\ ~client'.data_requested /\ client'.ring = << >>,
         v # 0 /\ Top.fn \in {"retry", "connect"} => link = "none"
  PROVE  BaseInv'
<1>1. Typed /\ StackInv
  BY TypeSplit DEF BaseInv
<1>2. /\ Typed' /\ Depth' = Depth - 1 /\ Below(Depth - 1)
      /\ Depth = 1 => stack' = << >> /\ ret' = NoRet
      /\ Depth # 1 => Depth >= 2 /\ stack' # << >> /\ ret' = v /\ Top' = Caller
  BY <1>1, ReturnEffect
<1>3. Depth \in Nat /\ Depth >= 1 /\ Top = stack[Depth]
  BY <1>1, FrameFacts
<1>4. StackInv'
  BY <1>1, ReturnKeeps
<1>5. \A i \in 1..Depth' : i \in 1..Depth /\ stack'[i] = stack[i]
  BY <1>2, <1>3 DEF Below
<1>6. CounterInv'
  BY <1>5 DEF BaseInv, CounterInv, FlowKept
<1>7. QueueInv'
  BY DEF BaseInv, QueueInv, FlowKept
<1>8. LinkInv'
  <2>1. /\ link' # "up" => toServer' = << >> /\ serving' = NoReq
        /\ link' \in {"none", "reset"} => toClient' = << >>
    BY DEF BaseInv, LinkInv, FlowKept
  <2>2. ASSUME link' # "none"
        PROVE  client'.connected
                 \/ \E i \in 1..Depth' : stack'[i].fn = "connect" /\ stack'[i].at = "datamode"
    <3>1. link # "none"
      BY <2>2 DEF FlowKept
    <3>2. CASE ~client'.connected
      <4>1. Top.fn # "connect" /\ ~client.connected
        BY <3>1, <3>2
      <4>2. PICK i \in 1..Depth : stack[i].fn = "connect" /\ stack[i].at = "datamode"
        BY <3>1, <4>1 DEF BaseInv, LinkInv
      <4>3. i \in 1..Depth' /\ i \in 1..(Depth - 1)
        BY <1>2, <1>3, <4>1, <4>2
      <4> QED
        BY <1>5, <4>2, <4>3
    <3> QED
      BY <3>2
  <2>3. stack' # << >> => ret' # NoRet
    BY <1>2 DEF NoRet
  <2>4. ASSUME stack' # << >>, ret' # 0, HangsOn(Top') \/ Top'.at = "connect"
        PROVE  link' = "none"
    <3>1. Depth >= 2 /\ Top' = Caller /\ ret' = v
      BY <1>2, <2>4
    <3>2. Waits(Caller, Top)
      BY <1>1, <3>1, BottomIsCall
    <3>3. Top.fn \in {"retry", "connect"}
      BY <2>4, <3>1, <3>2 DEF Waits, AsksFor, HangsOn
    <3> QED
      BY <2>4, <3>1, <3>3 DEF FlowKept
  <2> QED
    BY <2>1, <2>2, <2>3, <2>4 DEF LinkInv
<1> QED
  BY <1>2, <1>4, <1>6, <1>7, <1>8, TypeJoinPrime DEF BaseInv, FlowKept

(* The top function goes on, or does what it does without moving. *)
LEMMA TopBase ==
  ASSUME BaseInv, stack # << >>, FlowKept, nextReq' = nextReq,
         Typed', Depth' = Depth, Below(Depth - 1), stack' # << >>, ret' = NoRet,
         Top'.fn = Top.fn, Top'.req = Top.req,
         Runs(Top'), Suits(Top', client'), Depth = 1 \/ SuitsKept,
         client'.connected = client.connected, Top.fn # "connect",
         nextReq = 1 => ~client'.subscribed /\ ~client'.data_requested /\ client'.ring = << >>,
         Top.fn = "retry" => link = "none"
  PROVE  BaseInv'
<1>1. Typed /\ StackInv
  BY TypeSplit DEF BaseInv
<1>2. Depth \in Nat /\ Depth >= 1 /\ Top = stack[Depth]
  BY <1>1, FrameFacts
<1>3. StackInv'
  BY <1>1, TopKeeps
<1>4. Top' = stack'[Depth]
  BY DEF Top, Depth
<1>5. \A i \in 1..Depth' : i \in 1..Depth /\ (OfRequest(stack'[i]) => OfRequest(stack[i]))
                           /\ (i # Depth => stack'[i] = stack[i])
  <2> SUFFICES ASSUME NEW i \in 1..Depth
               PROVE  /\ OfRequest(stack'[i]) => OfRequest(stack[i])
                      /\ i # Depth => stack'[i] = stack[i]
    OBVIOUS
  <2>1. CASE i = Depth
    BY <1>2, <1>4, <2>1 DEF OfRequest, Runs, HangsOn
  <2>2. CASE i # Depth
    <3>1. i \in 1..(Depth - 1)
      BY <1>2, <2>2
    <3> QED
      BY <3>1 DEF Below
  <2> QED
    BY <2>1, <2>2
<1>6. CounterInv'
  BY <1>5 DEF BaseInv, CounterInv, FlowKept
<1>7. QueueInv'
  BY DEF BaseInv, QueueInv, FlowKept
<1>8. LinkInv'
  <2>1. /\ link' # "up" => toServer' = << >> /\ serving' = NoReq
        /\ link' \in {"none", "reset"} => toClient' = << >>
    BY DEF BaseInv, LinkInv, FlowKept
  <2>2. ASSUME link' # "none", ~client'.connected
        PROVE  \E i \in 1..Depth' : stack'[i].fn = "connect" /\ stack'[i].at = "datamode"
    <3>1. PICK i \in 1..Depth : stack[i].fn = "connect" /\ stack[i].at = "datamode"
      BY <2>2 DEF BaseInv, LinkInv, FlowKept
    <3>2. i # Depth
      BY <1>2, <3>1
    <3> QED
      BY <1>5, <3>1, <3>2
  <2>3. Top'.fn \in {"retry", "connect"} => link' = "none"
    BY DEF FlowKept
  <2> QED
    BY <2>1, <2>2, <2>3 DEF LinkInv
<1> QED
  BY <1>3, <1>6, <1>7, <1>8, TypeJoinPrime DEF BaseInv, FlowKept

(* The server, the network or a driver does something. *)
LEMMA OutsideBase ==
  ASSUME BaseInv, UNCHANGED <<stack, ret, nextReq, seen>>, client' = client,
         FlowType', QueueInv', nextData' \in Nat, nextData' > 0,
         link' # "up" => toServer' = << >> /\ serving' = NoReq,
         link' \in {"none", "reset"} => toClient' = << >>,
         link' # "none" => link # "none", link = "none" => link' = "none"
  PROVE  BaseInv'
<1>1. Typed /\ StackInv
  BY TypeSplit DEF BaseInv
<1>2. Typed' /\ Depth' = Depth /\ Top' = Top
  BY <1>1 DEF Typed, Depth, Top
<1>3. StackInv'
  BY <1>1, <1>2 DEF StackInv
<1>4. CounterInv'
  BY <1>2 DEF BaseInv, CounterInv
<1>5. LinkInv'
  BY <1>2 DEF BaseInv, LinkInv
<1> QED
  BY <1>2, <1>3, <1>4, <1>5, TypeJoinPrime DEF BaseInv

(* A function is called, with the connection as it is or lost. *)
LEMMA CallBase ==
  ASSUME BaseInv, stack # << >>, NEW p \in Points, NEW g \in Frame, Calling(p, g),
         FlowType', QueueInv', nextData' = nextData, seen' = seen,
         nextReq' \in Nat, nextReq' >= nextReq, g.fn = "request" => nextReq' > nextReq,
         link' # "up" => toServer' = << >> /\ serving' = NoReq,
         link' \in {"none", "reset"} => toClient' = << >>,
         Runs(g), Suits(g, client'), SuitsKept,
         NEW f, f = Caller', At(Top, p, f) => Waits(f, g) /\ Suits(f, client')
                                              /\ (f.fn = "retry" => f.j < RetryLimit),
         \/ link' = "none"
         \/ p = "datamode" /\ Top.fn = "connect"
         \/ link' = link /\ client'.connected = client.connected /\ Top.fn # "connect",
         g.fn \in {"retry", "connect"} => link' = "none",
         nextReq' = 1 => client'.subscribed = client.subscribed
                         /\ client'.data_requested = client.data_requested
                         /\ client'.ring = client.ring
  PROVE  BaseInv'
<1>1. Typed /\ StackInv
  BY TypeSplit DEF BaseInv
<1>2. /\ Typed' /\ Depth' = Depth + 1 /\ Below(Depth - 1) /\ stack' # << >>
      /\ ret' = NoRet /\ Top' = g /\ At(Top, p, f) /\ f = stack'[Depth]
  BY <1>1, CallEffect
<1>3. Depth \in Nat /\ Depth >= 1 /\ Top = stack[Depth]
  BY <1>1, FrameFacts
<1>4. StackInv'
  BY <1>1, CallKeeps
<1>5. Top' = stack'[Depth + 1]
  BY <1>2 DEF Top, Depth
<1>6. CounterInv'
  <2>1. /\ nextReq' \in Nat /\ nextReq' > 0 /\ nextData' \in Nat /\ nextData' > 0 /\ seen' \in Nat
    BY DEF BaseInv, CounterInv
  <2>2. ASSUME nextReq' = 1
        PROVE  ~client'.subscribed /\ ~client'.data_requested /\ client'.ring = << >>
               /\ \A i \in 1..Depth' : ~OfRequest(stack'[i])
    <3>1. nextReq = 1 /\ g.fn # "request"
      BY <2>2 DEF BaseInv, CounterInv
    <3>2. \A i \in 1..Depth : ~OfRequest(stack[i])
      BY <3>1 DEF BaseInv, CounterInv
    <3>3. ASSUME NEW i \in 1..Depth' PROVE ~OfRequest(stack'[i])
      <4>1. CASE i = Depth + 1
        BY <1>2, <1>5, <3>1, <4>1 DEF OfRequest, Runs, HangsOn
      <4>2. CASE i = Depth
        <5>1. Waits(f, g) /\ f.fn = Top.fn /\ f = stack'[i]
          BY <1>2, <4>2 DEF At
        <5>2. ~OfRequest(Top)
          BY <1>3, <3>2
        <5> QED
          BY <3>1, <5>1, <5>2 DEF OfRequest, Waits, HangsOn
      <4>3. CASE i # Depth /\ i # Depth + 1
        <5>1. i \in 1..(Depth - 1) /\ i \in 1..Depth
          BY <1>2, <1>3, <4>3
        <5> QED
          BY <1>2, <3>2, <5>1 DEF Below
      <4> QED
        BY <4>1, <4>2, <4>3
    <3> QED
      BY <2>2, <3>1, <3>3 DEF BaseInv, CounterInv
  <2> QED
    BY <2>1, <2>2 DEF CounterInv
<1>7. LinkInv'
  <2>1. ASSUME link' # "none", ~client'.connected
        PROVE  \E i \in 1..Depth' : stack'[i].fn = "connect" /\ stack'[i].at = "datamode"
    <3>1. CASE p = "datamode" /\ Top.fn = "connect"
      <4>1. Depth \in 1..Depth'
        BY <1>2, <1>3
      <4>2. stack'[Depth].fn = "connect" /\ stack'[Depth].at = "datamode"
        BY <1>2, <3>1 DEF At
      <4> QED
        BY <4>1, <4>2
    <3>2. CASE link' = link /\ client'.connected = client.connected /\ Top.fn # "connect"
      <4>1. PICK i \in 1..Depth : stack[i].fn = "connect" /\ stack[i].at = "datamode"
        BY <2>1, <3>2 DEF BaseInv, LinkInv
      <4>2. i \in 1..(Depth - 1) /\ i \in 1..Depth'
        BY <1>2, <1>3, <3>2, <4>1
      <4> QED
        BY <1>2, <4>1, <4>2 DEF Below
    <3> QED
      BY <2>1, <3>1, <3>2
  <2> QED
    BY <1>2, <2>1 DEF LinkInv
<1> QED
  BY <1>2, <1>4, <1>6, <1>7, TypeJoinPrime DEF BaseInv

-----------------------------------------------------------------------------
(***************************************************************************)
(* The client's queue.                                                     *)
(***************************************************************************)
(* d is c with other messages, at most, or with other flags of a round. *)
Likewise(c, d) ==
  /\ d \in QueueType /\ d.filter_on = c.filter_on /\ d.rules = c.rules
  /\ d.Replace = c.Replace

SameRound(c, d) ==
  /\ d.pull = c.pull /\ d.data_requested = c.data_requested
  /\ d.data_delivered = c.data_delivered

Plain(c) == c \in QueueType /\ c.filter_on = FALSE /\ c.rules = << >> /\ c.Replace = FALSE

LEMMA NewQueueFields ==
  ASSUME NEW no \in BOOLEAN, NEW n \in Nat, NEW d,
         d = [msgs |-> << >>, rules |-> << >>, Replace |-> no, Maxlen |-> n,
              filter_on |-> no, filter |-> NoFilter, pull |-> no,
              data_requested |-> no, data_delivered |-> no, drop_count |-> no]
  PROVE  /\ d \in QueueType
         /\ d.msgs = << >> /\ d.rules = << >> /\ d.Replace = no /\ d.filter_on = no
         /\ d.pull = no /\ d.data_requested = no /\ d.data_delivered = no
<1>1. d \in QueueType
  BY DEF QueueType, NoFilter, FilterSpec
<1>2. /\ d.msgs = << >> /\ d.rules = << >> /\ d.Replace = no /\ d.filter_on = no
      /\ d.pull = no /\ d.data_requested = no /\ d.data_delivered = no
  OBVIOUS
<1> QED
  BY <1>1, <1>2

LEMMA FreshQueue ==
  ASSUME NEW d, d = NewQueue(FALSE, Maxlen)
  PROVE  /\ Plain(d) /\ d.msgs = << >> /\ d.pull = FALSE /\ d.data_requested = FALSE
         /\ d.data_delivered = FALSE /\ ~OfType(d.msgs, SYNCH)
<1> DEFINE no == FALSE
<1>1. no \in BOOLEAN /\ no = FALSE /\ Maxlen \in Nat
  BY ConstantsAssumption
<1>2. d = [msgs |-> << >>, rules |-> << >>, Replace |-> no, Maxlen |-> Maxlen,
           filter_on |-> no, filter |-> NoFilter, pull |-> no,
           data_requested |-> no, data_delivered |-> no, drop_count |-> no]
  BY DEF NewQueue
<1> HIDE DEF no
<1>3. /\ d \in QueueType
      /\ d.msgs = << >> /\ d.rules = << >> /\ d.Replace = no /\ d.filter_on = no
      /\ d.pull = no /\ d.data_requested = no /\ d.data_delivered = no
  BY <1>1, <1>2, NewQueueFields
<1>4. ~OfType(d.msgs, SYNCH)
  BY <1>3, EmptyList
<1> QED
  BY <1>1, <1>3, <1>4 DEF Plain

LEMMA SetPullEffect ==
  ASSUME NEW c \in QueueType, NEW b \in BOOLEAN, NEW d, d = SetPull(c, b)
  PROVE  /\ Likewise(c, d) /\ d.msgs = c.msgs /\ d.pull = b
         /\ d.data_requested = c.data_requested /\ d.data_delivered = c.data_delivered
BY DEF SetPull, QueueType, Likewise

LEMMA SetDataRequestedEffect ==
  ASSUME NEW c \in QueueType, NEW b \in BOOLEAN, NEW d, d = SetDataRequested(c, b)
  PROVE  /\ Likewise(c, d) /\ d.msgs = c.msgs /\ d.pull = c.pull
         /\ d.data_requested = b /\ d.data_delivered = FALSE
<1> DEFINE no == FALSE
<1>1. d = [c EXCEPT !.data_requested = b, !.data_delivered = no] /\ no \in BOOLEAN /\ no = FALSE
  BY DEF SetDataRequested
<1> HIDE DEF no
<1> QED
  BY <1>1 DEF QueueType, Likewise

LEMMA AfterSynchEffect ==
  ASSUME NEW c \in QueueType, NEW d, d = AfterSynch(c)
  PROVE  /\ Likewise(c, d) /\ d.msgs = c.msgs /\ d.pull = c.pull
         /\ d.data_requested = FALSE /\ d.data_delivered = FALSE
<1> DEFINE no == FALSE
           e == [c EXCEPT !.drop_count = no]
<1>1. no \in BOOLEAN /\ no = FALSE
  OBVIOUS
<1>2. d = SetDataRequested(e, no)
  BY DEF AfterSynch
<1> HIDE DEF no
<1>3. e \in QueueType /\ Likewise(c, e) /\ e.msgs = c.msgs /\ e.pull = c.pull
  BY <1>1 DEF QueueType, Likewise
<1> HIDE DEF e
<1>4. /\ Likewise(e, d) /\ d.msgs = e.msgs /\ d.pull = e.pull
      /\ d.data_requested = no /\ d.data_delivered = FALSE
  BY <1>1, <1>2, <1>3, SetDataRequestedEffect
<1> QED
  BY <1>1, <1>3, <1>4 DEF Likewise

LEMMA PushFrontEffect ==
  ASSUME NEW c \in QueueType, NEW m \in Message, NEW d, d = PushFront(c, m)
  PROVE  Likewise(c, d) /\ SameRound(c, d) /\ Gains1st(m, c.msgs, d.msgs)
<1>1. c.msgs \in Seq(Message)
  BY DEF QueueType
<1> DEFINE s == <<m>> \o c.msgs
<1>2. Gains1st(m, c.msgs, s)
  BY <1>1, ConsOf
<1>3. s \in Seq(Message)
  BY <1>2 DEF Gains1st, Loses1st
<1>4. d = [c EXCEPT !.msgs = s]
  BY DEF PushFront
<1> HIDE DEF s
<1>5. d \in QueueType /\ d.msgs = s
  BY <1>3, <1>4 DEF QueueType
<1>6. Likewise(c, d) /\ SameRound(c, d)
  BY <1>4, <1>5 DEF QueueType, Likewise, SameRound
<1> QED
  BY <1>2, <1>5, <1>6

(* Push, with no rule: a message goes to the end, or it is data and lost. *)
LEMMA PushEffect ==
  ASSUME NEW c, Plain(c), NEW m \in Message, NEW d, d = Push(c, m)
  PROVE  /\ Likewise(c, d) /\ SameRound(c, d)
         /\ \/ GainsLast(c.msgs, m, d.msgs)
            \/ IsDataOrCmd(m) /\ d.msgs = c.msgs
<1>1. c \in QueueType /\ c.msgs \in Seq(Message)
  BY DEF QueueType, Plain
<1>2. CheckReplace(c, m) = ACCEPT
  <2>1. DOMAIN c.rules = {}
    BY DEF Plain
  <2>2. FirstMatch(c, m) = {}
    BY <2>1 DEF FirstMatch
  <2> QED
    BY <2>2 DEF CheckReplace, Plain
<1>3. CASE Overflows(c, m)
  <2> DEFINE yes == TRUE
  <2>1. d = [c EXCEPT !.drop_count = yes] /\ yes \in BOOLEAN
    BY <1>2, <1>3 DEF Push, ACCEPT, IGNORE, REPLACE
  <2> HIDE DEF yes
  <2>2. d \in QueueType /\ d.msgs = c.msgs
    BY <1>1, <2>1 DEF QueueType
  <2>3. Likewise(c, d) /\ SameRound(c, d)
    BY <1>1, <2>1, <2>2 DEF QueueType, Likewise, SameRound
  <2> QED
    BY <1>3, <2>2, <2>3 DEF Overflows
<1>4. CASE ~Overflows(c, m)
  <2> DEFINE s == Append(c.msgs, m)
  <2>1. GainsLast(c.msgs, m, s)
    BY <1>1, AppendOf
  <2>2. s \in Seq(Message)
    BY <2>1 DEF GainsLast
  <2>3. d = [c EXCEPT !.msgs = s]
    BY <1>2, <1>4 DEF Push, ACCEPT, IGNORE, REPLACE, PushBack
  <2> HIDE DEF s
  <2>4. d \in QueueType /\ d.msgs = s
    BY <1>1, <2>2, <2>3 DEF QueueType
  <2>5. Likewise(c, d) /\ SameRound(c, d)
    BY <1>1, <2>3, <2>4 DEF QueueType, Likewise, SameRound
  <2> QED
    BY <2>1, <2>4, <2>5
<1> QED
  BY <1>3, <1>4

(* Pop, with no filter: the first message, or none. *)
LEMMA PopEffect ==
  ASSUME NEW c, Plain(c), NEW i \in PopIndex(c), NEW d, d = PopAt(c, i)
  PROVE  /\ Likewise(c, d) /\ i = 1 /\ Loses1st(c.msgs, d.msgs)
         /\ d.pull = c.pull /\ d.data_requested = c.data_requested
         /\ d.data_delivered = (c.data_delivered \/ (c.data_requested /\ c.msgs[1].type = DATA))
<1>1. c \in QueueType /\ c.msgs \in Seq(Message)
  BY DEF QueueType, Plain
<1>2. DOMAIN c.msgs = 1..Len(c.msgs) /\ Len(c.msgs) \in Nat
  BY <1>1, LenProperties
<1>3. \A k, l \in DOMAIN c.msgs : Deliverable(c, k) => Deliverable(c, l)
  BY DEF Deliverable, FilterFriendly, Plain
<1>4. /\ i \in DOMAIN c.msgs /\ Deliverable(c, i)
      /\ \A j \in 1..(i - 1) : ~Deliverable(c, j)
  BY DEF PopIndex
<1>5. i = 1
  <2>1. ASSUME i # 1 PROVE FALSE
    <3>1. 1 \in 1..(i - 1) /\ 1 \in DOMAIN c.msgs
      BY <1>2, <1>4, <2>1
    <3> QED
      BY <1>3, <1>4, <3>1
  <2> QED
    BY <2>1
<1> DEFINE s == RemoveAt(c.msgs, i)
           b == c.data_delivered \/ (c.data_requested /\ c.msgs[i].type = DATA)
<1>6. /\ s \in Seq(Message) /\ Len(s) = Len(c.msgs) - 1
      /\ \A j \in 1..(Len(c.msgs) - 1) : s[j] = IF j < i THEN c.msgs[j] ELSE c.msgs[j + 1]
  BY <1>1, <1>2, <1>4, RemoveAtProperties, ZenonT(60)
<1>7. d = [c EXCEPT !.msgs = s, !.data_delivered = b] /\ b \in BOOLEAN
  BY DEF PopAt, RemoveElement
<1> HIDE DEF s, b
<1>8. d \in QueueType /\ d.msgs = s /\ d.data_delivered = b
  BY <1>1, <1>6, <1>7 DEF QueueType
<1>9. Likewise(c, d) /\ d.pull = c.pull /\ d.data_requested = c.data_requested
  BY <1>1, <1>7, <1>8 DEF QueueType, Likewise
<1>10. Loses1st(c.msgs, s)
  <2>1. DOMAIN s = 1..(Len(c.msgs) - 1)
    BY <1>6, LenProperties
  <2>2. 1 \in DOMAIN c.msgs /\ c.msgs[1] \in Message /\ c.msgs # << >>
    BY <1>1, <1>2, <1>4, <1>5, ElementOfSeq
  <2>3. \A j \in DOMAIN s : j + 1 \in DOMAIN c.msgs /\ s[j] = c.msgs[j + 1]
    BY <1>2, <1>5, <1>6, <2>1
  <2>4. \A j \in DOMAIN c.msgs : j # 1 => j > 1 /\ j - 1 \in DOMAIN s
    BY <1>2, <2>1
  <2>5. \A j \in DOMAIN c.msgs : j # 1 => s[j - 1] = c.msgs[j]
    <3> SUFFICES ASSUME NEW j \in DOMAIN c.msgs, j # 1 PROVE s[j - 1] = c.msgs[j]
      OBVIOUS
    <3>1. (j - 1) + 1 = j
      BY <1>2
    <3> QED
      BY <2>3, <2>4, <3>1
  <2> QED
    BY <1>1, <1>2, <1>6, <2>1, <2>2, <2>3, <2>4, <2>5 DEF Loses1st
<1> QED
  BY <1>5, <1>8, <1>9, <1>10 DEF b

LEMMA SynchIsMessage ==
  ASSUME NEW c
  PROVE  /\ SynchMessage(c) \in Message /\ SynchMessage(c).type = SYNCH
         /\ ~IsResponse(SynchMessage(c))
BY DEF SynchMessage, Message, SYNCH, DATA, RESP_NACK, RESP_ACK, PLAYER_PLAYER_CODE, SYNCH_OK,
       SYNCH_OVERFLOW, IsResponse

LEMMA ReplyIsMessage ==
  ASSUME NEW r \in Request, NEW t \in {RESP_ACK, RESP_NACK}
  PROVE  /\ Reply(t, r) \in Message /\ Reply(t, r).type = t
         /\ Reply(t, r).subtype = r.subtype /\ Reply(t, r).id = r.id
         /\ IsResponse(Reply(t, r)) /\ ~IsDataOrCmd(Reply(t, r))
BY DEF Reply, Message, Request, DATA, CMD, RESP_NACK, RESP_ACK, PLAYER_PLAYER_CODE, REQ_DEV, REQ_DATA,
       REQ_DATAMODE, IsResponse, IsDataOrCmd

-----------------------------------------------------------------------------
(***************************************************************************)
(* Every step keeps types, stack, counters, queue and connection.          *)
(***************************************************************************)
LEMMA BaseFacts ==
  ASSUME BaseInv
  PROVE  /\ Typed /\ FlowType /\ StackInv /\ CounterInv /\ QueueInv /\ LinkInv
         /\ Depth \in Nat /\ Plain(q) /\ client \in ClientType
         /\ stack # << >> => /\ Depth >= 1 /\ Top \in Frame /\ Suits(Top, client)
                             /\ Top = stack[Depth]
<1>1. Typed /\ FlowType /\ StackInv /\ CounterInv /\ QueueInv /\ LinkInv
  BY TypeSplit DEF BaseInv
<1>2. /\ Depth \in Nat /\ \A i \in 1..Depth : stack[i] \in Frame
      /\ stack # << >> => Depth >= 1 /\ Top \in Frame /\ Top = stack[Depth]
  BY <1>1, FrameFacts
<1>3. stack # << >> => Suits(Top, client)
  <2>1. stack # << >> => Depth \in 1..Depth
    BY <1>2
  <2> QED
    BY <1>1, <1>2, <2>1 DEF StackInv
<1>4. Plain(q) /\ client \in ClientType
  BY <1>1 DEF Plain, QueueInv, FlowType
<1> QED
  BY <1>1, <1>2, <1>3, <1>4

(* Fields of the client. *)
SameButRing(c, d) ==
  /\ d \in ClientType /\ d.connected = c.connected /\ d.mode = c.mode
  /\ d.data_requested = c.data_requested /\ d.data_received = c.data_received
  /\ d.subscribed = c.subscribed

LEMMA SetConnected ==
  ASSUME NEW c \in ClientType, NEW b \in BOOLEAN, NEW d, d = [c EXCEPT !.connected = b]
  PROVE  /\ d \in ClientType /\ d.connected = b /\ d.mode = c.mode
         /\ d.data_requested = c.data_requested /\ d.data_received = c.data_received
         /\ d.subscribed = c.subscribed /\ d.ring = c.ring
BY DEF ClientType

LEMMA SetMode ==
  ASSUME NEW c \in ClientType, NEW m \in {PUSH, PULL}, NEW d, d = [c EXCEPT !.mode = m]
  PROVE  /\ d \in ClientType /\ d.connected = c.connected /\ d.mode = m
         /\ d.data_requested = c.data_requested /\ d.data_received = c.data_received
         /\ d.subscribed = c.subscribed /\ d.ring = c.ring
BY DEF ClientType

LEMMA SetRound ==
  ASSUME NEW c \in ClientType, NEW b \in BOOLEAN, NEW d, d = [c EXCEPT !.data_requested = b]
  PROVE  /\ d \in ClientType /\ d.connected = c.connected /\ d.mode = c.mode
         /\ d.data_requested = b /\ d.data_received = c.data_received
         /\ d.subscribed = c.subscribed /\ d.ring = c.ring
BY DEF ClientType

LEMMA SetReceived ==
  ASSUME NEW c \in ClientType, NEW b \in BOOLEAN, NEW d, d = [c EXCEPT !.data_received = b]
  PROVE  /\ d \in ClientType /\ d.connected = c.connected /\ d.mode = c.mode
         /\ d.data_requested = c.data_requested /\ d.data_received = b
         /\ d.subscribed = c.subscribed /\ d.ring = c.ring
BY DEF ClientType

LEMMA SetSubscribed ==
  ASSUME NEW c \in ClientType, NEW b \in BOOLEAN, NEW d, d = [c EXCEPT !.subscribed = b]
  PROVE  /\ d \in ClientType /\ d.connected = c.connected /\ d.mode = c.mode
         /\ d.data_requested = c.data_requested /\ d.data_received = c.data_received
         /\ d.subscribed = b /\ d.ring = c.ring
BY DEF ClientType

LEMMA SetRing ==
  ASSUME NEW c \in ClientType, NEW s \in Seq(Message), NEW d, d = [c EXCEPT !.ring = s]
  PROVE  SameButRing(c, d) /\ d.ring = s
BY DEF ClientType, SameButRing

LEMMA SuitsStill ==
  ASSUME client'.mode = client.mode, client'.data_requested = client.data_requested,
         client'.subscribed = client.subscribed
  PROVE  SuitsKept
BY DEF SuitsKept, Suits

(* Fresh frames. *)
LEMMA NewFrame ==
  ASSUME NEW f \in Functions, NEW p \in Points
  PROVE  /\ F(f, p) \in Frame /\ F(f, p).fn = f /\ F(f, p).at = p /\ F(f, p).j = 0
         /\ F(f, p).req = NoReq
<1>1. 0 \in 0..RetryLimit
  BY ConstantsAssumption
<1> QED
  BY <1>1 DEF F, Frame

LEMMA NewRequest ==
  ASSUME NEW s \in {REQ_DEV, REQ_DATA, REQ_DATAMODE}, NEW a \in {PUSH, PULL, OPEN, CLOSE},
         nextReq \in Nat
  PROVE  /\ RequestFrame(s, a) \in Frame /\ RequestFrame(s, a).fn = "request"
         /\ RequestFrame(s, a).at = "send" /\ RequestFrame(s, a).req \in Request
         /\ RequestFrame(s, a).req.subtype = s /\ RequestFrame(s, a).req.arg = a
         /\ RequestFrame(s, a).req.id = nextReq
<1> DEFINE r == [subtype |-> s, arg |-> a, id |-> nextReq]
<1>1. 0 \in 0..RetryLimit
  BY ConstantsAssumption
<1>2. r \in Request /\ r.subtype = s /\ r.arg = a /\ r.id = nextReq
  BY DEF Request
<1>3. "request" \in Functions /\ "send" \in Points
  BY DEF Functions, Points
<1>4. RequestFrame(s, a) = [fn |-> "request", at |-> "send", j |-> 0, req |-> r]
  BY DEF RequestFrame
<1> HIDE DEF r
<1>5. /\ RequestFrame(s, a) \in Frame /\ RequestFrame(s, a).fn = "request"
      /\ RequestFrame(s, a).at = "send" /\ RequestFrame(s, a).req = r
  BY <1>1, <1>2, <1>3, <1>4 DEF Frame
<1> QED
  BY <1>2, <1>5

(* Nothing but the stack, and fields of the client that are not its ring. *)
LEMMA FlowStays ==
  ASSUME BaseInv, UNCHANGED <<net, server>>, client' \in ClientType,
         client'.ring = client.ring, upset' \subseteq Irregularities,
         UNCHANGED <<nextData, seen>>
  PROVE  FlowKept
<1>1. FlowType /\ CounterInv
  BY BaseFacts
<1>2. FlowType'
  BY <1>1 DEF FlowType, net, server
<1> QED
  BY <1>1, <1>2 DEF FlowKept, net, server, CounterInv

(* A function returns, and nothing else. *)
LEMMA JustReturns ==
  ASSUME BaseInv, stack # << >>, NEW v \in {-2, -1, 0, 1}, Return(v),
         UNCHANGED <<net, server, client, nextReq, nextData, seen>>, upset' \subseteq Irregularities,
         Top.fn # "connect", Depth = 1 \/ v # 1, Top.fn = "retry" /\ v # 0 => link = "none"
  PROVE  BaseInv'
<1>1. CounterInv /\ client \in ClientType
  BY BaseFacts
<1>2. FlowKept
  BY <1>1, FlowStays
<1>3. SuitsKept
  BY SuitsStill
<1>4. Depth = 1 \/ v \in {-2, -1, 0}
  OBVIOUS
<1>5. nextReq = 1 => ~client'.subscribed /\ ~client'.data_requested /\ client'.ring = << >>
  BY <1>1 DEF CounterInv
<1> QED
  BY <1>2, <1>3, <1>4, <1>5, ReturnBase

(* The top function goes on at p, and nothing else. *)
LEMMA JustGoes ==
  ASSUME BaseInv, stack # << >>, NEW p \in Points, Go(p),
         UNCHANGED <<net, server, client, nextReq, nextData, seen, upset>>,
         Top.fn \notin {"connect", "retry"}, p \notin {"resub", "requestdata"},
         NEW g, g = Top', At(Top, p, g) => Runs(g)
  PROVE  BaseInv'
<1>1. /\ CounterInv /\ client \in ClientType /\ Typed /\ Suits(Top, client)
      /\ upset' \subseteq Irregularities
  BY BaseFacts DEF FlowType
<1>2. FlowKept
  BY <1>1, FlowStays
<1>3. SuitsKept
  BY SuitsStill
<1>4. /\ Typed' /\ Depth' = Depth /\ Below(Depth - 1) /\ stack' # << >>
      /\ ret' = NoRet /\ At(Top, p, g)
  BY <1>1, GoEffect
<1>5. Runs(g) /\ g.fn = Top.fn /\ g.req = Top.req /\ g.at = p
  BY <1>4 DEF At
<1>6. Suits(g, client')
  BY <1>1, <1>5 DEF Suits
<1>7. nextReq = 1 => ~client'.subscribed /\ ~client'.data_requested /\ client'.ring = << >>
  BY <1>1 DEF CounterInv
<1> QED
  BY <1>2, <1>3, <1>4, <1>5, <1>6, <1>7, TopBase

(* playerc_client_disconnect. *)
LEMMA DisconnectEffect ==
  ASSUME BaseInv, Disconnect, upset' = upset
  PROVE  /\ FlowType' /\ QueueInv' /\ link' = "none" /\ toClient' = << >> /\ toServer' = << >>
         /\ serving' = NoReq /\ q'.msgs = << >>
         /\ client'.mode = client.mode /\ client'.data_requested = client.data_requested
         /\ client'.subscribed = client.subscribed /\ client'.ring = client.ring
<1>1. client \in ClientType /\ FlowType
  BY BaseFacts
<1>2. /\ Plain(q)' /\ q'.msgs = << >> /\ ~OfType(q.msgs, SYNCH)'
  BY FreshQueue DEF Disconnect, ServerLoses, ServerForgets, Plain, OfType
<1> DEFINE b == client.connected /\ link = "none"
<1>3. client' = [client EXCEPT !.connected = b] /\ b \in BOOLEAN
  BY <1>1 DEF Disconnect, ClientType
<1> HIDE DEF b
<1>4. /\ client' \in ClientType
      /\ client'.mode = client.mode /\ client'.data_requested = client.data_requested
      /\ client'.subscribed = client.subscribed /\ client'.ring = client.ring
  BY <1>1, <1>3, SetConnected
<1>5. link' = "none" /\ toClient' = << >> /\ toServer' = << >> /\ serving' = NoReq /\ sub' = "no"
  BY DEF Disconnect, ServerLoses, ServerForgets
<1>6. FlowType'
  BY <1>1, <1>2, <1>4, <1>5 DEF FlowType, Plain
<1>7. QueueInv'
  BY <1>2 DEF QueueInv, Plain
<1> QED
  BY <1>2, <1>4, <1>5, <1>6, <1>7

LEMMA HangUpBase ==
  ASSUME BaseInv, stack # << >>, NEW p \in {"await", "peek", "nonblock", "block"}, HangUp(p),
         UNCHANGED <<counters, seen, upset>>,
         NEW f, f = Caller', At(Top, p, f) => HangsOn(f)
  PROVE  BaseInv'
<1> DEFINE g == F("retry", "connect")
<1>1. CounterInv /\ Suits(Top, client)
  BY BaseFacts
<1>2. /\ FlowType' /\ QueueInv' /\ link' = "none" /\ toClient' = << >> /\ toServer' = << >>
      /\ serving' = NoReq
      /\ client'.mode = client.mode /\ client'.data_requested = client.data_requested
      /\ client'.subscribed = client.subscribed /\ client'.ring = client.ring
  BY DisconnectEffect DEF HangUp
<1>3. g \in Frame /\ g.fn = "retry" /\ g.at = "connect" /\ g.req = NoReq
  BY NewFrame DEF Functions, Points
<1>4. Calling(p, g) /\ p \in Points
  BY DEF HangUp, Points
<1> HIDE DEF g
<1>5. Runs(g) /\ Suits(g, client')
  BY <1>3 DEF Runs, Suits
<1>6. SuitsKept
  BY <1>2, SuitsStill
<1>7. At(Top, p, f) => /\ Waits(f, g) /\ Suits(f, client')
                       /\ (f.fn = "retry" => f.j < RetryLimit)
  <2> SUFFICES ASSUME At(Top, p, f)
               PROVE  /\ Waits(f, g) /\ Suits(f, client') /\ f.fn # "retry"
    OBVIOUS
  <2>1. HangsOn(f) /\ f.fn = Top.fn /\ f.req = Top.req /\ f.at = p
    BY DEF At
  <2>2. Waits(f, g) /\ f.fn # "retry"
    BY <1>3, <2>1 DEF Waits, HangsOn
  <2>3. Suits(f, client')
    BY <1>1, <1>2, <2>1 DEF Suits
  <2> QED
    BY <2>2, <2>3
<1>8. /\ nextData' = nextData /\ seen' = seen /\ nextReq' \in Nat /\ nextReq' >= nextReq
      /\ g.fn # "request"
  BY <1>1, <1>3 DEF counters, CounterInv
<1> QED
  BY <1>2, <1>3, <1>4, <1>5, <1>6, <1>7, <1>8, CallBase

LEMMA RetryAttemptBase ==
  ASSUME BaseInv, RetryAttempt
  PROVE  BaseInv'
<1> DEFINE g == F("connect", "open")
           p == "connect"
<1>1. /\ CounterInv /\ FlowType /\ QueueInv /\ LinkInv /\ stack # << >> /\ Top \in Frame
  BY BaseFacts DEF RetryAttempt, Running
<1>2. /\ Top.fn = "retry" /\ Top.j < RetryLimit /\ Calling(p, g)
      /\ UNCHANGED <<net, server, client, counters, seen, upset>>
  BY DEF RetryAttempt, Running
<1>3. g \in Frame /\ g.fn = "connect" /\ g.at = "open" /\ g.req = NoReq
  BY NewFrame DEF Functions, Calls, Points
<1>4. p \in Points /\ p = "connect"
  BY DEF Points
<1> HIDE DEF g, p
<1>5. link = "none"
  BY <1>1 DEF LinkInv, RetryAttempt, Running
<1>6. Runs(g) /\ Suits(g, client')
  BY <1>3 DEF Runs, Suits
<1>7. SuitsKept
  BY <1>2, SuitsStill
<1>8. FlowType' /\ QueueInv'
  BY <1>1, <1>2 DEF FlowType, QueueInv, net, server
<1>9. link' = "none" /\ toServer' = << >> /\ serving' = NoReq /\ toClient' = << >>
  BY <1>1, <1>2, <1>5 DEF LinkInv, net, server
<1>10. /\ nextData' = nextData /\ seen' = seen /\ nextReq' \in Nat /\ nextReq' >= nextReq
       /\ g.fn # "request"
  BY <1>1, <1>2, <1>3 DEF counters, CounterInv
<1> DEFINE f == Caller'
<1> HIDE DEF f
<1>11. f = Caller'
  BY DEF f
<1>12. At(Top, p, f) => /\ Waits(f, g) /\ Suits(f, client')
                        /\ (f.fn = "retry" => f.j < RetryLimit)
  BY <1>2, <1>3, <1>4 DEF At, Waits, Suits
<1> QED
  BY <1>1, <1>2, <1>3, <1>4, <1>6, <1>7, <1>8, <1>9, <1>10, <1>11, <1>12, CallBase

LEMMA RetryExhaustedBase ==
  ASSUME BaseInv, RetryExhausted
  PROVE  BaseInv'
<1>1. LinkInv /\ upset \subseteq Irregularities
  BY BaseFacts DEF FlowType
<1>2. stack # << >> /\ Top.fn = "retry" /\ Return(-1) /\ link = "none"
  BY <1>1 DEF RetryExhausted, Running, LinkInv
<1>3. UNCHANGED <<net, server, client, nextReq, nextData, seen>> /\ upset' \subseteq Irregularities
  BY <1>1 DEF RetryExhausted, counters
<1> QED
  BY <1>2, <1>3, JustReturns

(* A request is made with the connection as it is. *)
LEMMA RequestingBase ==
  ASSUME BaseInv, stack # << >>, NEW p \in Points, NEW a \in {PUSH, PULL, OPEN, CLOSE},
         NEW s \in {REQ_DEV, REQ_DATA, REQ_DATAMODE}, Requesting(p, s, a),
         FlowType', QueueInv', nextData' = nextData, seen' = seen, client' = client,
         link' # "up" => toServer' = << >> /\ serving' = NoReq,
         link' \in {"none", "reset"} => toClient' = << >>,
         link' = link \/ p = "datamode", Top.fn = "connect" => p = "datamode",
         p = "datamode" => Top.fn = "connect" /\ s = REQ_DATAMODE /\ a = PULL,
         p # "datamode" => Top.fn = "retry" /\ p = "resub" /\ s = REQ_DEV /\ a = OPEN
                           /\ client.subscribed /\ Top.j < RetryLimit
  PROVE  BaseInv'
<1> DEFINE g == RequestFrame(s, a)
<1>1. CounterInv /\ Suits(Top, client)
  BY BaseFacts
<1>2. Calling(p, g) /\ nextReq' = nextReq + 1
  BY DEF Requesting
<1>3. /\ g \in Frame /\ g.fn = "request" /\ g.at = "send" /\ g.req.id = nextReq
      /\ g.req.subtype = s /\ g.req.arg = a
  BY <1>1, NewRequest DEF CounterInv
<1> HIDE DEF g
<1>4. Runs(g) /\ Suits(g, client')
  BY <1>1, <1>3 DEF Runs, Suits, CounterInv
<1>5. SuitsKept
  BY SuitsStill
<1>6. nextReq' \in Nat /\ nextReq' > nextReq /\ nextReq' >= nextReq /\ nextReq' # 1
  BY <1>1, <1>2 DEF CounterInv
<1> DEFINE f == Caller'
<1> HIDE DEF f
<1>7. f = Caller'
  BY DEF f
<1>8. At(Top, p, f) => /\ Waits(f, g) /\ Suits(f, client')
                       /\ (f.fn = "retry" => f.j < RetryLimit)
  <2> SUFFICES ASSUME At(Top, p, f)
               PROVE  /\ Waits(f, g) /\ Suits(f, client')
                      /\ (f.fn = "retry" => f.j < RetryLimit)
    OBVIOUS
  <2>1. f.fn = Top.fn /\ f.at = p /\ f.j = Top.j /\ f.req = Top.req
    BY DEF At
  <2>2. CASE p = "datamode"
    BY <1>1, <1>3, <2>1, <2>2 DEF Waits, AsksFor, Suits
  <2>3. CASE p # "datamode"
    BY <1>1, <1>3, <2>1, <2>3 DEF Waits, AsksFor, Suits
  <2> QED
    BY <2>2, <2>3
<1>9. \/ link' = "none"
      \/ p = "datamode" /\ Top.fn = "connect"
      \/ link' = link /\ client'.connected = client.connected /\ Top.fn # "connect"
  OBVIOUS
<1> QED
  BY <1>2, <1>3, <1>4, <1>5, <1>6, <1>7, <1>8, <1>9, CallBase

LEMMA RetryConnectedBase ==
  ASSUME BaseInv, RetryConnected
  PROVE  BaseInv'
<1>1. /\ Typed /\ FlowType /\ StackInv /\ CounterInv /\ QueueInv /\ LinkInv
      /\ stack # << >> /\ ret # NoRet /\ Top \in Frame /\ client \in ClientType
  BY BaseFacts DEF RetryConnected, Returned
<1>2. /\ Top.fn = "retry" /\ Top.at = "connect" /\ Top.j < RetryLimit
  BY <1>1 DEF RetryConnected, Returned, StackInv
<1>3. UNCHANGED <<net, server, client, nextData, seen, upset>>
  BY DEF RetryConnected
<1>4. CASE ret # 0 /\ NextAttempt /\ nextReq' = nextReq
  <2>1. /\ Typed' /\ Depth' = Depth /\ Below(Depth - 1) /\ stack' # << >>
        /\ ret' = NoRet /\ Top'.fn = Top.fn /\ Top'.at = "connect" /\ Top'.req = Top.req
        /\ Top' \in Frame
    BY <1>1, <1>2, <1>4, AttemptEffect
  <2>2. link = "none"
    BY <1>1, <1>2, <1>4 DEF LinkInv
  <2>3. FlowKept
    BY <1>1, <1>3, FlowStays DEF FlowType
  <2>4. SuitsKept
    BY <1>3, SuitsStill
  <2> DEFINE g == Top'
  <2>5. g.fn = "retry" /\ g.at = "connect"
    BY <1>2, <2>1
  <2> HIDE DEF g
  <2>6. Runs(g) /\ Suits(g, client')
    BY <2>5 DEF Runs, Suits
  <2>7. Runs(Top') /\ Suits(Top', client')
    BY <2>6 DEF g
  <2>8. nextReq = 1 => ~client'.subscribed /\ ~client'.data_requested /\ client'.ring = << >>
    BY <1>1, <1>3 DEF CounterInv
  <2> QED
    BY <1>1, <1>2, <1>3, <1>4, <2>1, <2>2, <2>3, <2>4, <2>7, <2>8, TopBase
<1>5. CASE client.subscribed /\ Requesting("resub", REQ_DEV, OPEN)
  <2>1. /\ FlowType' /\ QueueInv'
        /\ link' # "up" => toServer' = << >> /\ serving' = NoReq
        /\ link' \in {"none", "reset"} => toClient' = << >>
    BY <1>1, <1>3 DEF FlowType, QueueInv, LinkInv, net, server
  <2>2. "resub" \in Points /\ OPEN \in {PUSH, PULL, OPEN, CLOSE}
        /\ REQ_DEV \in {REQ_DEV, REQ_DATA, REQ_DATAMODE}
    BY DEF Points
  <2> QED
    BY <1>1, <1>2, <1>3, <1>5, <2>1, <2>2, RequestingBase DEF net
<1>6. CASE Return(0) /\ nextReq' = nextReq
  BY <1>1, <1>2, <1>3, <1>6, JustReturns DEF FlowType
<1> QED
  BY <1>4, <1>5, <1>6 DEF RetryConnected

LEMMA RetryResubscribedBase ==
  ASSUME BaseInv, RetryResubscribed
  PROVE  BaseInv'
<1>1. /\ Typed /\ FlowType /\ StackInv /\ CounterInv /\ QueueInv /\ LinkInv /\ Depth \in Nat
      /\ stack # << >> /\ ret # NoRet /\ Top \in Frame /\ client \in ClientType /\ Depth >= 1
      /\ Top = stack[Depth]
  BY BaseFacts DEF RetryResubscribed, Returned
<1>2. /\ Top.fn = "retry" /\ Top.at = "resub" /\ Top.j < RetryLimit
  BY <1>1 DEF RetryResubscribed, Returned, StackInv
<1>3. UNCHANGED <<counters, seen, upset>>
  BY DEF RetryResubscribed
<1>4. CASE Return(0) /\ UNCHANGED <<net, server, client>>
  BY <1>1, <1>2, <1>3, <1>4, JustReturns DEF FlowType, counters
<1>5. CASE Disconnect /\ NextAttempt
  <2>1. /\ Typed' /\ Depth' = Depth /\ Below(Depth - 1) /\ stack' # << >>
        /\ ret' = NoRet /\ Top'.fn = Top.fn /\ Top'.at = "connect" /\ Top'.req = Top.req
        /\ Top' \in Frame
    BY <1>1, <1>2, <1>5, AttemptEffect
  <2>2. /\ FlowType' /\ QueueInv' /\ link' = "none" /\ toClient' = << >> /\ toServer' = << >>
        /\ serving' = NoReq
        /\ client'.mode = client.mode /\ client'.data_requested = client.data_requested
        /\ client'.subscribed = client.subscribed /\ client'.ring = client.ring
    BY <1>3, <1>5, DisconnectEffect
  <2>3. SuitsKept
    BY <2>2, SuitsStill
  <2> DEFINE g == Top'
  <2>4. g.fn = "retry" /\ g.at = "connect"
    BY <1>2, <2>1
  <2> HIDE DEF g
  <2>5. Runs(g) /\ Suits(g, client')
    BY <2>4 DEF Runs, Suits
  <2>6. Runs(Top') /\ Suits(Top', client')
    BY <2>5 DEF g
  <2>7. StackInv'
    BY <1>1, <2>1, <2>3, <2>6, TopKeeps
  <2>8. CounterInv'
    <3>1. nextReq # 1
      <4>1. Depth \in 1..Depth /\ OfRequest(stack[Depth])
        BY <1>1, <1>2 DEF OfRequest
      <4> QED
        BY <1>1, <4>1 DEF CounterInv
    <3> QED
      BY <1>1, <1>3, <3>1 DEF CounterInv, counters
  <2>9. LinkInv'
    BY <2>1, <2>2 DEF LinkInv
  <2> QED
    BY <2>1, <2>2, <2>7, <2>8, <2>9, TypeJoinPrime DEF BaseInv
<1> QED
  BY <1>4, <1>5 DEF RetryResubscribed

LEMMA ConnectOpensBase ==
  ASSUME BaseInv, ConnectOpens
  PROVE  BaseInv'
<1>1. /\ FlowType /\ CounterInv /\ stack # << >> /\ client \in ClientType /\ LinkInv
  BY BaseFacts DEF ConnectOpens, Running
<1>2. /\ Top.fn = "connect" /\ Requesting("datamode", REQ_DATAMODE, PULL) /\ client' = client
      /\ nextData' = nextData /\ seen' = seen /\ link' = "up"
  BY DEF ConnectOpens, Running
<1>3. Plain(q)' /\ ~OfType(q.msgs, SYNCH)'
  BY FreshQueue DEF ConnectOpens, ServerForgets, Plain, OfType
<1>4. toClient' = << >> /\ toServer' = << >> /\ serving' = NoReq
  BY DEF ConnectOpens, ServerForgets
<1>5. sub' \in {"yes", "no", "lacking"} /\ upset' \subseteq Irregularities
  <2>1. upset \subseteq Irregularities /\ {"session", "reopen"} \subseteq Irregularities
    BY <1>1 DEF FlowType, Irregularities
  <2> QED
    BY <2>1 DEF ConnectOpens
<1>6. FlowType'
  BY <1>1, <1>2, <1>3, <1>4, <1>5 DEF FlowType, Plain
<1>7. QueueInv'
  BY <1>3 DEF QueueInv, Plain
<1>8. "datamode" \in Points /\ PULL \in {PUSH, PULL, OPEN, CLOSE}
      /\ REQ_DATAMODE \in {REQ_DEV, REQ_DATA, REQ_DATAMODE}
  BY DEF Points
<1> QED
  BY <1>1, <1>2, <1>4, <1>6, <1>7, <1>8, RequestingBase

LEMMA ConnectFailsBase ==
  ASSUME BaseInv, ConnectFails
  PROVE  BaseInv'
<1>1. /\ FlowType /\ CounterInv /\ stack # << >> /\ client \in ClientType /\ LinkInv
  BY BaseFacts DEF ConnectFails, Running
<1>2. link = "none"
  BY <1>1 DEF ConnectFails, Running, LinkInv
<1> DEFINE no == FALSE
<1>3. client' = [client EXCEPT !.connected = no] /\ no \in BOOLEAN
  BY DEF ConnectFails
<1> HIDE DEF no
<1>4. /\ client' \in ClientType /\ client'.mode = client.mode
      /\ client'.data_requested = client.data_requested
      /\ client'.subscribed = client.subscribed /\ client'.ring = client.ring
  BY <1>1, <1>3, SetConnected
<1>5. UNCHANGED <<net, server, nextReq, nextData, seen, upset>> /\ Return(-1)
  BY DEF ConnectFails, counters
<1>6. FlowKept
  BY <1>1, <1>4, <1>5, FlowStays DEF FlowType
<1>7. SuitsKept
  BY <1>4, SuitsStill
<1>8. nextReq = 1 => ~client'.subscribed /\ ~client'.data_requested /\ client'.ring = << >>
  BY <1>1, <1>4 DEF CounterInv
<1> QED
  BY <1>1, <1>2, <1>5, <1>6, <1>7, <1>8, ReturnBase

LEMMA ConnectDoneEffect ==
  ASSUME BaseInv, ConnectDone
  PROVE  /\ client' \in ClientType /\ client'.connected
         /\ client'.mode = (IF ret = 0 THEN PULL ELSE client.mode)
         /\ client'.data_requested = client.data_requested
         /\ client'.data_received = client.data_received
         /\ client'.subscribed = client.subscribed /\ client'.ring = client.ring
<1> DEFINE yes == TRUE
           m == IF ret = 0 THEN PULL ELSE client.mode
           d == client'
<1>1. client \in ClientType
  BY BaseFacts
<1>2. d = [client EXCEPT !.connected = yes, !.mode = m]
  BY DEF ConnectDone
<1>3. m \in {PUSH, PULL}
  BY <1>1 DEF ClientType
<1>4. yes \in BOOLEAN
  OBVIOUS
<1> HIDE DEF yes, m, d
<1>5. /\ d \in ClientType /\ d.connected = yes /\ d.mode = m
      /\ d.data_requested = client.data_requested
      /\ d.data_received = client.data_received
      /\ d.subscribed = client.subscribed /\ d.ring = client.ring
  BY <1>1, <1>2, <1>3, <1>4 DEF ClientType
<1> QED
  BY <1>5 DEF yes, m, d

LEMMA ConnectDoneBase ==
  ASSUME BaseInv, ConnectDone
  PROVE  BaseInv'
<1>1. /\ FlowType /\ CounterInv /\ stack # << >>
  BY BaseFacts DEF ConnectDone, Returned
<1>2. /\ client' \in ClientType /\ client'.connected
      /\ client'.mode = (IF ret = 0 THEN PULL ELSE client.mode)
      /\ client'.data_requested = client.data_requested
      /\ client'.subscribed = client.subscribed /\ client'.ring = client.ring
  BY ConnectDoneEffect
<1>3. UNCHANGED <<net, server, nextReq, nextData, seen, upset>> /\ Return(0)
  BY DEF ConnectDone, counters
<1>4. FlowKept
  BY <1>1, <1>2, <1>3, FlowStays DEF FlowType
<1>5. SuitsKept
  BY <1>2 DEF SuitsKept, Suits
<1>6. nextReq = 1 => ~client'.subscribed /\ ~client'.data_requested /\ client'.ring = << >>
  BY <1>1, <1>2 DEF CounterInv
<1> QED
  BY <1>1, <1>2, <1>3, <1>4, <1>5, <1>6, ReturnBase

(* playerc_client_request: something is put on the wire. *)
LEMMA SendBase ==
  ASSUME BaseInv, stack # << >>, Top.fn = "request", Go("await"), client' = client,
         UNCHANGED <<counters, seen>>, FlowType', QueueInv',
         link' # "up" => toServer' = << >> /\ serving' = NoReq,
         link' \in {"none", "reset"} => toClient' = << >>, link # "none"
  PROVE  BaseInv'
<1>1. /\ Typed /\ StackInv /\ CounterInv /\ Suits(Top, client) /\ LinkInv /\ Depth \in Nat
      /\ Depth >= 1 /\ Top = stack[Depth]
  BY BaseFacts
<1>2. "await" \in Points
  BY DEF Points
<1> DEFINE g == Top'
<1>3. /\ Typed' /\ Depth' = Depth /\ Below(Depth - 1) /\ stack' # << >>
      /\ ret' = NoRet /\ At(Top, "await", g)
  BY <1>1, <1>2, GoEffect
<1> HIDE DEF g
<1>4. g.fn = "request" /\ g.at = "await" /\ g.req = Top.req
  BY <1>3 DEF At
<1>5. Runs(g) /\ Suits(g, client')
  BY <1>1, <1>4 DEF Runs, HangsOn, Suits
<1>6. SuitsKept
  BY SuitsStill
<1>7. Runs(Top') /\ Suits(Top', client') /\ Top'.fn = Top.fn /\ Top'.req = Top.req
  BY <1>4, <1>5 DEF g
<1>8. StackInv'
  BY <1>1, <1>3, <1>6, <1>7, TopKeeps
<1>9. CounterInv'
  <2>1. Depth \in 1..Depth /\ OfRequest(stack[Depth])
    BY <1>1 DEF OfRequest
  <2> QED
    BY <1>1, <2>1 DEF CounterInv, counters
<1>10. LinkInv'
  <2>1. ASSUME ~client.connected
        PROVE  \E i \in 1..Depth' : stack'[i].fn = "connect" /\ stack'[i].at = "datamode"
    <3>1. PICK i \in 1..Depth : stack[i].fn = "connect" /\ stack[i].at = "datamode"
      BY <1>1, <2>1 DEF LinkInv
    <3>2. i \in 1..(Depth - 1)
      BY <1>1, <3>1
    <3> QED
      BY <1>3, <3>1, <3>2 DEF Below
  <2>2. Top'.fn = "request"
    BY <1>7
  <2> QED
    BY <1>3, <2>1, <2>2 DEF LinkInv
<1> QED
  BY <1>3, <1>8, <1>9, <1>10, TypeJoinPrime DEF BaseInv

LEMMA HangUpInRequest ==
  ASSUME BaseInv, stack # << >>, Top.fn = "request", HangUp("await"),
         UNCHANGED <<counters, seen, upset>>
  PROVE  BaseInv'
<1> DEFINE f == Caller'
           p == "await"
<1> HIDE DEF f
<1>1. f = Caller' /\ (At(Top, p, f) => HangsOn(f))
  BY DEF f, At, HangsOn
<1>2. HangUp(p) /\ p \in {"await", "peek", "nonblock", "block"}
  OBVIOUS
<1> HIDE DEF p
<1> QED
  BY <1>1, <1>2, HangUpBase

LEMMA RequestSendBase ==
  ASSUME BaseInv, RequestSend
  PROVE  BaseInv'
<1>1. /\ FlowType /\ QueueInv /\ LinkInv /\ stack # << >> /\ Top \in Frame /\ Suits(Top, client)
      /\ Top.fn = "request" /\ UNCHANGED <<counters, seen, upset>>
  BY BaseFacts DEF RequestSend, Running
<1>2. CASE Return(-1) /\ UNCHANGED <<net, server, client>>
  BY <1>1, <1>2, JustReturns DEF FlowType, counters
<1>3. CASE /\ link = "up" /\ toServer' = Append(toServer, Top.req) /\ Go("await")
           /\ UNCHANGED <<link, toClient, server, client>>
  <2>1. Top.req \in Request
    BY <1>1 DEF Suits, Frame, NoReq
  <2>2. toServer' \in Seq(Request)
    BY <1>1, <1>3, <2>1, AppendProperties DEF FlowType
  <2>3. FlowType' /\ QueueInv'
    BY <1>1, <1>3, <2>2 DEF FlowType, QueueInv, server
  <2> QED
    BY <1>1, <1>3, <2>3, SendBase
<1>4. CASE /\ link = "fin" /\ link' \in {"fin", "reset"} /\ Go("await")
           /\ toClient' = IF link' = "reset" THEN << >> ELSE toClient
           /\ UNCHANGED <<toServer, server, client>>
  <2>1. toClient' \in Seq(Message)
    BY <1>1, <1>4, EmptyList DEF FlowType
  <2>2. FlowType' /\ QueueInv'
    BY <1>1, <1>4, <2>1 DEF FlowType, QueueInv, server
  <2>3. /\ toServer' = << >> /\ serving' = NoReq
        /\ link' \in {"none", "reset"} => toClient' = << >>
    BY <1>1, <1>4 DEF LinkInv, server
  <2> QED
    BY <1>1, <1>4, <2>2, <2>3, SendBase
<1>5. CASE HangUp("await")
  BY <1>1, <1>5, HangUpInRequest
<1> QED
  BY <1>2, <1>3, <1>4, <1>5 DEF RequestSend

(* A packet is taken from the connection. *)
LEMMA PacketTaken ==
  ASSUME BaseInv, toClient # << >>, toClient' = Tail(toClient),
         UNCHANGED <<link, toServer, server, nextData>>,
         seen' \in Nat, client' \in ClientType, Len(client'.ring) <= RingSize,
         upset' \subseteq Irregularities
  PROVE  FlowKept /\ Loses1st(toClient, toClient') /\ Head(toClient) = toClient[1]
<1>1. FlowType
  BY BaseFacts
<1>2. Loses1st(toClient, Tail(toClient)) /\ Head(toClient) = toClient[1]
  BY <1>1, TailOf DEF FlowType
<1>3. FlowType'
  BY <1>1, <1>2 DEF FlowType, server, Loses1st
<1> QED
  BY <1>2, <1>3 DEF FlowKept, server

(* playerc_client_push. *)
LEMMA PushedEffect ==
  ASSUME client \in ClientType, Len(client.ring) <= RingSize, NEW m \in Message
  PROVE  /\ Pushed(m) \in Seq(Message) /\ Len(Pushed(m)) <= RingSize
         /\ \/ GainsLast(client.ring, m, Pushed(m))
            \/ \E s : /\ Len(client.ring) = RingSize /\ Loses1st(client.ring, s)
                      /\ GainsLast(s, m, Pushed(m))
<1>1. client.ring \in Seq(Message) /\ RingSize \in Nat /\ RingSize > 0
  BY ConstantsAssumption DEF ClientType
<1>2. CASE Len(client.ring) = RingSize
  <2>1. client.ring # << >>
    BY <1>1, <1>2, EmptySeq
  <2> DEFINE s == Tail(client.ring)
  <2>2. Loses1st(client.ring, s) /\ s \in Seq(Message) /\ Len(s) = Len(client.ring) - 1
    BY <1>1, <2>1, TailOf, HeadTailProperties
  <2>3. Pushed(m) = Append(s, m)
    BY <1>2 DEF Pushed
  <2> HIDE DEF s
  <2>4. GainsLast(s, m, Pushed(m))
    BY <2>2, <2>3, AppendOf
  <2>5. Pushed(m) \in Seq(Message) /\ Len(Pushed(m)) = Len(s) + 1
    BY <2>2, <2>3, AppendProperties
  <2> QED
    BY <1>1, <1>2, <2>2, <2>4, <2>5
<1>3. CASE Len(client.ring) # RingSize
  <2>1. Pushed(m) = Append(client.ring, m)
    BY <1>3 DEF Pushed
  <2>2. GainsLast(client.ring, m, Pushed(m))
    BY <1>1, <2>1, AppendOf
  <2>3. Pushed(m) \in Seq(Message) /\ Len(Pushed(m)) = Len(client.ring) + 1
    BY <1>1, <2>1, AppendProperties
  <2>4. Len(client.ring) \in Nat
    BY <1>1, LenProperties
  <2> QED
    BY <1>1, <1>3, <2>2, <2>3, <2>4
<1> QED
  BY <1>2, <1>3

LEMMA QueuedUpEffect ==
  ASSUME BaseInv, NEW m \in Message, QueuedUp(m)
  PROVE  /\ SameButRing(client, client') /\ client'.ring = Pushed(m)
         /\ Len(client'.ring) <= RingSize /\ upset' \subseteq Irregularities
         /\ UNCHANGED <<stack, ret>>
         /\ Len(client.ring) = RingSize => upset' # {}
         /\ "late" \notin upset' => "late" \notin upset
         /\ upset \subseteq upset'
<1>1. FlowType /\ client \in ClientType
  BY BaseFacts
<1>2. Pushed(m) \in Seq(Message) /\ Len(Pushed(m)) <= RingSize
  BY <1>1, PushedEffect DEF FlowType
<1>3. SameButRing(client, client') /\ client'.ring = Pushed(m)
  BY <1>1, <1>2, SetRing DEF QueuedUp
<1>4. upset' \subseteq Irregularities
  BY <1>1 DEF QueuedUp, FlowType, Irregularities
<1>5. /\ Len(client.ring) = RingSize => upset' # {}
      /\ "late" \notin upset' => "late" \notin upset
      /\ upset \subseteq upset'
  BY DEF QueuedUp
<1> QED
  BY <1>2, <1>3, <1>4, <1>5 DEF QueuedUp

(* The top function does not move. *)
LEMMA StaysBase ==
  ASSUME BaseInv, stack # << >>, ret = NoRet, UNCHANGED <<stack, ret>>, FlowKept,
         nextReq' = nextReq, Top.fn \notin {"connect", "retry"},
         SuitsKept, client'.connected = client.connected,
         nextReq = 1 => ~client'.subscribed /\ ~client'.data_requested /\ client'.ring = << >>
  PROVE  BaseInv'
<1>1. Typed /\ StackInv /\ Suits(Top, client)
  BY BaseFacts
<1>2. Typed' /\ Depth' = Depth /\ Below(Depth - 1) /\ Top' = Top
  BY <1>1 DEF Typed, Depth, Below, Top
<1>3. Runs(Top)
  BY <1>1 DEF StackInv
<1>4. Suits(Top, client')
  BY <1>1 DEF SuitsKept
<1>5. Runs(Top') /\ Suits(Top', client')
  BY <1>2, <1>3, <1>4
<1> QED
  BY <1>1, <1>2, <1>5, TopBase

LEMMA RequestPacketBase ==
  ASSUME BaseInv, RequestPacket
  PROVE  BaseInv'
<1> DEFINE m == Head(toClient)
<1>1. /\ FlowType /\ StackInv /\ CounterInv /\ stack # << >> /\ client \in ClientType
      /\ Top = stack[Depth] /\ Depth \in Nat /\ Depth >= 1
      /\ Top.fn = "request" /\ ret = NoRet /\ UNCHANGED <<link, toServer, server, counters, seen>>
      /\ toClient # << >> /\ toClient' = Tail(toClient)
  BY BaseFacts DEF RequestPacket, Running
<1>2. nextReq # 1
  <2>1. Depth \in 1..Depth /\ OfRequest(stack[Depth])
    BY <1>1 DEF OfRequest
  <2> QED
    BY <1>1, <2>1 DEF CounterInv
<1>3. seen' \in Nat
  BY <1>1 DEF CounterInv
<1>4. CASE Return(ReplyResult(m)) /\ UNCHANGED <<client, upset>>
  <2>1. FlowKept
    BY <1>1, <1>3, <1>4, PacketTaken DEF FlowType, counters
  <2>2. SuitsKept
    BY <1>4, SuitsStill
  <2> DEFINE v == ReplyResult(m)
  <2>3. v \in {-2, -1, 0}
    BY DEF ReplyResult
  <2>4. Return(v)
    BY <1>4
  <2> HIDE DEF v
  <2> QED
    BY <1>1, <1>2, <1>4, <2>1, <2>2, <2>3, <2>4, ReturnBase DEF counters
<1>5. CASE QueuedUp(m)
  <2>1. m \in Message
    BY <1>1, TailOf DEF FlowType, Loses1st
  <2>2. /\ SameButRing(client, client') /\ Len(client'.ring) <= RingSize
        /\ upset' \subseteq Irregularities /\ UNCHANGED <<stack, ret>>
    BY <1>5, <2>1, QueuedUpEffect
  <2>3. FlowKept
    BY <1>1, <1>3, <2>2, PacketTaken DEF SameButRing, counters
  <2>4. SuitsKept
    BY <2>2, SuitsStill DEF SameButRing
  <2> QED
    BY <1>1, <1>2, <2>2, <2>3, <2>4, StaysBase DEF SameButRing, counters
<1> QED
  BY <1>4, <1>5 DEF RequestPacket

LEMMA RequestBrokenBase ==
  ASSUME BaseInv, RequestBroken
  PROVE  BaseInv'
<1>1. /\ FlowType /\ stack # << >> /\ Top.fn = "request" /\ UNCHANGED <<counters, seen, upset>>
  BY BaseFacts DEF RequestBroken, Running
<1>2. CASE Return(-1) /\ UNCHANGED <<net, server, client>>
  BY <1>1, <1>2, JustReturns DEF FlowType, counters
<1>3. CASE HangUp("await")
  BY <1>1, <1>3, HangUpInRequest
<1> QED
  BY <1>2, <1>3 DEF RequestBroken

LEMMA RequestReconnectedBase ==
  ASSUME BaseInv, RequestReconnected
  PROVE  BaseInv'
<1>1. /\ FlowType /\ stack # << >> /\ Top.fn = "request"
      /\ UNCHANGED <<net, server, client, nextReq, nextData, seen, upset>>
  BY BaseFacts DEF RequestReconnected, Returned, counters
<1>2. CASE Return(-1)
  BY <1>1, <1>2, JustReturns DEF FlowType
<1>3. CASE Go("await")
  <2> DEFINE g == Top'
             p == "await"
  <2>1. Go(p) /\ p \in Points /\ p = "await"
    BY <1>3 DEF Points
  <2> HIDE DEF g, p
  <2>2. g = Top' /\ (At(Top, p, g) => Runs(g))
    BY <1>1, <2>1 DEF g, At, Runs, HangsOn
  <2> QED
    BY <1>1, <2>1, <2>2, JustGoes
<1> QED
  BY <1>2, <1>3 DEF RequestReconnected

LEMMA RequestGivenUpBase ==
  ASSUME BaseInv, RequestLate \/ RequestLost
  PROVE  BaseInv'
<1>1. /\ FlowType /\ stack # << >> /\ Top.fn = "request" /\ Return(-1)
      /\ UNCHANGED <<net, server, client, nextReq, nextData, seen>>
  BY BaseFacts DEF RequestLate, RequestLost, Running, counters
<1>2. upset' \subseteq Irregularities
  BY <1>1 DEF RequestLate, RequestLost, FlowType, Irregularities
<1> QED
  BY <1>1, <1>2, JustReturns

(* The calls of a program other than connect are at the bottom. *)
LEMMA CallAtBottom ==
  ASSUME BaseInv, stack # << >>, Top.fn \in Calls \ {"connect"}
  PROVE  Depth = 1
BY BaseFacts, BottomIsCall

LEMMA DataRequestedEffect ==
  ASSUME BaseInv, DataRequested, ret = 0
  PROVE  /\ client' \in ClientType /\ client'.connected = client.connected
         /\ client'.mode = client.mode /\ client'.data_requested = TRUE
         /\ client'.data_received = FALSE /\ client'.subscribed = client.subscribed
         /\ client'.ring = client.ring /\ Go("peek")
<1> DEFINE yes == TRUE
           no == FALSE
<1>1. client \in ClientType
  BY BaseFacts
<1>2. client' = [client EXCEPT !.data_requested = yes, !.data_received = no]
  BY DEF DataRequested
<1>3. yes \in BOOLEAN /\ no \in BOOLEAN
  OBVIOUS
<1> HIDE DEF yes, no
<1>4. /\ client' \in ClientType /\ client'.connected = client.connected
      /\ client'.mode = client.mode /\ client'.data_requested = yes
      /\ client'.data_received = no /\ client'.subscribed = client.subscribed
      /\ client'.ring = client.ring
  BY <1>1, <1>2, <1>3 DEF ClientType
<1> QED
  BY <1>4 DEF yes, no, DataRequested

LEMMA DataRequestedBase ==
  ASSUME BaseInv, DataRequested
  PROVE  BaseInv'
<1>1. /\ Typed /\ FlowType /\ CounterInv /\ stack # << >> /\ client \in ClientType /\ Depth \in Nat
      /\ Depth >= 1 /\ Top = stack[Depth] /\ Suits(Top, client)
      /\ Top.fn \in {"peek", "read"} /\ Top.at = "requestdata"
      /\ UNCHANGED <<net, server, nextReq, nextData, seen, upset>>
  BY BaseFacts DEF DataRequested, Returned, counters
<1>2. Depth = 1
  BY <1>1, CallAtBottom DEF Calls
<1>3. nextReq # 1
  <2>1. Depth \in 1..Depth /\ OfRequest(stack[Depth])
    BY <1>1 DEF OfRequest
  <2> QED
    BY <1>1, <2>1 DEF CounterInv
<1>4. CASE ret = 0
  <2>1. /\ client' \in ClientType /\ client'.connected = client.connected
        /\ client'.mode = client.mode
        /\ client'.subscribed = client.subscribed /\ client'.ring = client.ring /\ Go("peek")
    BY <1>4, DataRequestedEffect
  <2>2. FlowKept
    BY <1>1, <2>1, FlowStays DEF FlowType
  <2> DEFINE g == Top'
             p == "peek"
  <2>3. Go(p) /\ p \in Points /\ p = "peek"
    BY <2>1 DEF Points
  <2> HIDE DEF g, p
  <2>4. /\ Typed' /\ Depth' = Depth /\ Below(Depth - 1) /\ stack' # << >>
        /\ ret' = NoRet /\ At(Top, p, g)
    BY <1>1, <2>3, GoEffect DEF g
  <2>5. g.fn = Top.fn /\ g.req = Top.req /\ g.at = "peek"
    BY <2>3, <2>4 DEF At
  <2>6. Runs(g) /\ Suits(g, client')
    BY <1>1, <2>1, <2>5 DEF Runs, HangsOn, Suits
  <2>7. Runs(Top') /\ Suits(Top', client') /\ Top'.fn = Top.fn /\ Top'.req = Top.req
    BY <2>5, <2>6 DEF g
  <2> QED
    BY <1>1, <1>2, <1>3, <2>1, <2>2, <2>4, <2>7, TopBase
<1>5. CASE Return(-1) /\ UNCHANGED client
  BY <1>1, <1>2, <1>5, JustReturns DEF FlowType
<1> QED
  BY <1>4, <1>5 DEF DataRequested

(* In peek, read or read_nonblock: on, or back to the program. *)
LEMMA ReadMoves ==
  ASSUME BaseInv, stack # << >>, Top.fn \in {"peek", "read", "read_nonblock"},
         UNCHANGED <<net, server, client, nextReq, nextData, seen, upset>>,
         NEW p \in {"nonblock", "block"}, NEW v \in {-2, -1, 0, 1},
         (Go(p) /\ Top.fn = "read") \/ Return(v)
  PROVE  BaseInv'
<1>1. CASE Go(p) /\ Top.fn = "read"
  <2> DEFINE g == Top'
  <2> HIDE DEF g
  <2>1. g = Top' /\ (At(Top, p, g) => Runs(g))
    BY <1>1 DEF g, At, Runs, HangsOn
  <2>2. p \in Points
    BY DEF Points
  <2> QED
    BY <1>1, <2>1, <2>2, JustGoes
<1>2. CASE Return(v)
  <2>1. Depth = 1
    BY CallAtBottom DEF Calls
  <2>2. upset' \subseteq Irregularities
    BY BaseFacts DEF FlowType
  <2> QED
    BY <1>2, <2>1, <2>2, JustReturns
<1> QED
  BY <1>1, <1>2

LEMMA HangUpInRead ==
  ASSUME BaseInv, stack # << >>, NEW p \in {"peek", "nonblock", "block"}, HangUp(p),
         Top.fn \in {"peek", "read", "read_nonblock"},
         p = "peek" => Top.fn # "read_nonblock", p = "nonblock" => Top.fn # "peek",
         p = "block" => Top.fn = "read", UNCHANGED <<counters, seen, upset>>
  PROVE  BaseInv'
<1> DEFINE f == Caller'
<1> HIDE DEF f
<1>1. f = Caller' /\ (At(Top, p, f) => HangsOn(f))
  BY DEF f, At, HangsOn
<1> QED
  BY <1>1, HangUpBase

LEMMA PeekBase ==
  ASSUME BaseInv, PeekPoll \/ PeekReconnected
  PROVE  BaseInv'
<1>1. /\ stack # << >> /\ Top.fn \in {"peek", "read"} /\ UNCHANGED <<counters, seen, upset>>
  BY DEF PeekPoll, PeekReconnected, Running, Returned
<1>2. CASE Return(-1) /\ UNCHANGED <<net, server, client>>
  BY <1>1, <1>2, ReadMoves DEF counters
<1>3. CASE Peeked /\ UNCHANGED <<net, server, client>>
  <2>1. (Go("nonblock") /\ Top.fn = "read") \/ Return(0)
    BY <1>3 DEF Peeked
  <2> QED
    BY <1>1, <1>3, <2>1, ReadMoves DEF counters
<1>4. CASE HangUp("peek")
  BY <1>1, <1>4, HangUpInRead
<1> QED
  BY <1>2, <1>3, <1>4 DEF PeekPoll, PeekReconnected

(* What NothingToRead and Process do to the client. *)
LEMMA NothingToReadEffect ==
  ASSUME BaseInv, NothingToRead
  PROVE  /\ SameButRing(client, client') \/ (/\ ~client.data_requested /\ client'.data_requested = FALSE
                                             /\ client' \in ClientType
                                             /\ client'.connected = client.connected
                                             /\ client'.mode = client.mode
                                             /\ client'.subscribed = client.subscribed)
         /\ client'.ring = client.ring
         /\ (client' = client /\ ((Go("block") /\ Top.fn = "read") \/ Return(0))) \/ Return(1)
<1>1. client \in ClientType
  BY BaseFacts
<1>2. CASE /\ ~client.data_requested /\ client' = [client EXCEPT !.data_received = FALSE]
           /\ Return(1)
  <2> DEFINE no == FALSE
  <2>1. client' = [client EXCEPT !.data_received = no] /\ no \in BOOLEAN
    BY <1>2
  <2> HIDE DEF no
  <2>2. /\ client' \in ClientType /\ client'.connected = client.connected
        /\ client'.mode = client.mode /\ client'.data_requested = client.data_requested
        /\ client'.subscribed = client.subscribed /\ client'.ring = client.ring
    BY <1>1, <2>1, SetReceived
  <2> QED
    BY <1>1, <1>2, <2>2 DEF ClientType
<1>3. CASE client' = client /\ ((Go("block") /\ Top.fn = "read") \/ Return(0))
  BY <1>1, <1>3 DEF SameButRing
<1> QED
  BY <1>2, <1>3 DEF NothingToRead

LEMMA NonblockNothingBase ==
  ASSUME BaseInv, NonblockNothing
  PROVE  BaseInv'
<1>1. /\ FlowType /\ CounterInv /\ client \in ClientType
      /\ stack # << >> /\ Top.fn \in {"read", "read_nonblock"}
      /\ UNCHANGED <<net, server, nextReq, nextData, seen, upset>> /\ NothingToRead
  BY BaseFacts DEF NonblockNothing, Running, Returned, counters
<1>2. CASE client' = client /\ ((Go("block") /\ Top.fn = "read") \/ Return(0))
  BY <1>1, <1>2, ReadMoves
<1>3. CASE Return(1)
  <2>1. /\ client' \in ClientType /\ client'.connected = client.connected
        /\ client'.data_requested = client.data_requested
        /\ client'.subscribed = client.subscribed /\ client'.ring = client.ring
    BY <1>1, NothingToReadEffect DEF SameButRing, ClientType
  <2>2. FlowKept
    BY <1>1, <2>1, FlowStays DEF FlowType
  <2>3. Depth = 1
    BY <1>1, CallAtBottom DEF Calls
  <2>4. nextReq = 1 => ~client'.subscribed /\ ~client'.data_requested /\ client'.ring = << >>
    BY <1>1, <2>1 DEF CounterInv
  <2> QED
    BY <1>1, <1>3, <2>1, <2>2, <2>3, <2>4, ReturnBase
<1> QED
  BY <1>1, <1>2, <1>3, NothingToReadEffect

(* c is the client without the packet. *)
LEMMA ProcessEffect ==
  ASSUME NEW m, NEW c \in ClientType, Process(m, c)
  PROVE  /\ client' \in ClientType /\ client'.connected = c.connected /\ client'.mode = c.mode
         /\ client'.subscribed = c.subscribed /\ client'.ring = c.ring
         /\ \/ /\ m.type = SYNCH /\ client'.data_requested = FALSE /\ UNCHANGED seen
               /\ client'.data_received = c.data_received
               /\ \E v \in {-1, 1} : Return(v)
            \/ /\ m.type = DATA /\ seen' = m.id /\ client'.data_requested = c.data_requested
               /\ \/ c.mode = PUSH /\ client'.data_received = c.data_received /\ Return(1)
                  \/ c.mode # PUSH /\ client'.data_received = TRUE /\ UNCHANGED <<stack, ret>>
<1>1. CASE /\ m.type = SYNCH /\ client' = [c EXCEPT !.data_requested = FALSE]
           /\ Return(IF c.data_received THEN 1 ELSE -1) /\ UNCHANGED seen
  <2> DEFINE no == FALSE
             v == IF c.data_received THEN 1 ELSE -1
  <2>1. client' = [c EXCEPT !.data_requested = no] /\ no \in BOOLEAN
    BY <1>1
  <2>2. v \in {-1, 1} /\ Return(v)
    BY <1>1
  <2> HIDE DEF no, v
  <2>3. /\ client' \in ClientType /\ client'.connected = c.connected /\ client'.mode = c.mode
        /\ client'.data_requested = no /\ client'.data_received = c.data_received
        /\ client'.subscribed = c.subscribed /\ client'.ring = c.ring
    BY <2>1, SetRound
  <2> QED
    BY <1>1, <2>2, <2>3 DEF no
<1>2. CASE m.type = DATA /\ seen' = m.id /\ c.mode = PUSH /\ client' = c /\ Return(1)
  BY <1>2
<1>3. CASE /\ m.type = DATA /\ seen' = m.id /\ c.mode # PUSH
           /\ client' = [c EXCEPT !.data_received = TRUE] /\ UNCHANGED <<stack, ret>>
  <2> DEFINE yes == TRUE
  <2>1. client' = [c EXCEPT !.data_received = yes] /\ yes \in BOOLEAN
    BY <1>3
  <2> HIDE DEF yes
  <2>2. /\ client' \in ClientType /\ client'.connected = c.connected /\ client'.mode = c.mode
        /\ client'.data_requested = c.data_requested /\ client'.data_received = yes
        /\ client'.subscribed = c.subscribed /\ client'.ring = c.ring
    BY <2>1, SetReceived
  <2> QED
    BY <1>3, <2>2 DEF yes
<1> QED
  BY <1>1, <1>2, <1>3 DEF Process

LEMMA ProcessBase ==
  ASSUME BaseInv, stack # << >>, ret = NoRet, Top.fn \in {"read", "read_nonblock"},
         NEW m \in Message, NEW c, SameButRing(client, c), Process(m, c),
         FlowKept, UNCHANGED counters, nextReq = 1 => c.ring = << >>
  PROVE  BaseInv'
<1>1. CounterInv /\ client \in ClientType /\ c \in ClientType
  BY BaseFacts DEF SameButRing
<1>2. Depth = 1
  BY CallAtBottom DEF Calls
<1>3. /\ client' \in ClientType /\ client'.connected = client.connected
      /\ client'.subscribed = client.subscribed /\ client'.ring = c.ring
      /\ client'.mode = client.mode
      /\ client'.data_requested = client.data_requested \/ client'.data_requested = FALSE
      /\ \/ \E v \in {-1, 1} : Return(v)
         \/ UNCHANGED <<stack, ret>> /\ client'.data_requested = client.data_requested
  <2>1. /\ client' \in ClientType /\ client'.connected = c.connected /\ client'.mode = c.mode
        /\ client'.subscribed = c.subscribed /\ client'.ring = c.ring
        /\ client'.data_requested = c.data_requested \/ client'.data_requested = FALSE
        /\ \/ \E v \in {-1, 1} : Return(v)
           \/ UNCHANGED <<stack, ret>> /\ client'.data_requested = c.data_requested
    BY <1>1, ProcessEffect
  <2> QED
    BY <2>1 DEF SameButRing
<1>4. nextReq = 1 => ~client'.subscribed /\ ~client'.data_requested /\ client'.ring = << >>
  BY <1>1, <1>3 DEF CounterInv
<1>5. ASSUME NEW v \in {-1, 1}, Return(v) PROVE BaseInv'
  BY <1>2, <1>3, <1>4, <1>5, ReturnBase DEF counters
<1>6. ASSUME UNCHANGED <<stack, ret>>, client'.data_requested = client.data_requested
      PROVE  BaseInv'
  <2>1. SuitsKept
    BY <1>3, <1>6, SuitsStill
  <2> QED
    BY <1>3, <1>4, <1>6, <2>1, StaysBase DEF counters
<1> QED
  BY <1>3, <1>5, <1>6

(* The ring without its first packet. *)
LEMMA RingTaken ==
  ASSUME BaseInv, client.ring # << >>, NEW c, c = [client EXCEPT !.ring = Tail(client.ring)]
  PROVE  /\ SameButRing(client, c) /\ Loses1st(client.ring, c.ring) /\ Len(c.ring) <= RingSize
         /\ Head(client.ring) = client.ring[1] /\ Head(client.ring) \in Message
<1>1. /\ client \in ClientType /\ client.ring \in Seq(Message) /\ Len(client.ring) <= RingSize
  BY BaseFacts DEF FlowType, ClientType
<1> DEFINE s == Tail(client.ring)
<1>2. /\ Loses1st(client.ring, s) /\ Head(client.ring) = client.ring[1]
      /\ s \in Seq(Message) /\ Len(s) = Len(client.ring) - 1
  BY <1>1, TailOf, HeadTailProperties
<1>3. c = [client EXCEPT !.ring = s]
  OBVIOUS
<1> HIDE DEF s
<1>4. SameButRing(client, c) /\ c.ring = s
  BY <1>1, <1>2, <1>3 DEF ClientType, SameButRing
<1>5. Len(s) <= RingSize
  <2>1. Len(client.ring) \in Nat /\ RingSize \in Nat
    BY <1>1, LenProperties, ConstantsAssumption
  <2> QED
    BY <1>1, <1>2, <2>1
<1> QED
  BY <1>2, <1>4, <1>5 DEF Loses1st

LEMMA NonblockQueuedBase ==
  ASSUME BaseInv, NonblockQueued
  PROVE  BaseInv'
<1> DEFINE c == [client EXCEPT !.ring = Tail(client.ring)]
           m == Head(client.ring)
<1>1. /\ FlowType /\ CounterInv /\ stack # << >> /\ ret = NoRet
      /\ Top.fn \in {"read", "read_nonblock"} /\ client.ring # << >>
      /\ UNCHANGED <<net, server, counters, upset>> /\ Process(m, c)
  BY BaseFacts DEF NonblockQueued, Running
<1>2. /\ SameButRing(client, c) /\ Len(c.ring) <= RingSize /\ m \in Message
  BY <1>1, RingTaken
<1> HIDE DEF c, m
<1>3. client' \in ClientType /\ client'.ring = c.ring /\ (seen' = seen \/ seen' = m.id)
  BY <1>1, <1>2, ProcessEffect DEF SameButRing
<1>4. FlowType'
  BY <1>1, <1>2, <1>3 DEF FlowType, net, server
<1>5. FlowKept
  BY <1>1, <1>2, <1>3, <1>4 DEF FlowKept, net, server, counters, CounterInv, Message
<1>6. nextReq = 1 => c.ring = << >>
  BY <1>1 DEF CounterInv
<1> QED
  BY <1>1, <1>2, <1>5, <1>6, ProcessBase

LEMMA NonblockPacketBase ==
  ASSUME BaseInv, NonblockPacket
  PROVE  BaseInv'
<1> DEFINE m == Head(toClient)
<1>1. /\ FlowType /\ CounterInv /\ stack # << >> /\ ret = NoRet /\ client \in ClientType
      /\ Top.fn \in {"read", "read_nonblock"} /\ toClient # << >> /\ toClient' = Tail(toClient)
      /\ UNCHANGED <<link, toServer, server, counters, upset>> /\ Process(m, client)
  BY BaseFacts DEF NonblockPacket, Running
<1>2. m \in Message
  BY <1>1, TailOf DEF FlowType, Loses1st
<1> HIDE DEF m
<1>3. client' \in ClientType /\ client'.ring = client.ring /\ (seen' = seen \/ seen' = m.id)
  BY <1>1, ProcessEffect
<1>4. seen' \in Nat /\ Len(client'.ring) <= RingSize /\ upset' \subseteq Irregularities
  BY <1>1, <1>2, <1>3 DEF FlowType, CounterInv, Message
<1>5. FlowKept
  BY <1>1, <1>3, <1>4, PacketTaken DEF counters
<1>6. SameButRing(client, client) /\ (nextReq = 1 => client.ring = << >>)
  BY <1>1 DEF SameButRing, CounterInv
<1> QED
  BY <1>1, <1>2, <1>5, <1>6, ProcessBase

LEMMA NonblockUnclaimedBase ==
  ASSUME BaseInv, NonblockUnclaimed
  PROVE  BaseInv'
<1>1. /\ FlowType /\ CounterInv /\ stack # << >> /\ ret = NoRet /\ client \in ClientType
      /\ Top.fn \in {"read", "read_nonblock"} /\ toClient # << >> /\ toClient' = Tail(toClient)
      /\ UNCHANGED <<link, toServer, server, client, counters, seen, upset>>
      /\ UNCHANGED <<stack, ret>> \/ Return(-1)
  BY BaseFacts DEF NonblockUnclaimed, Running
<1>2. FlowKept
  BY <1>1, PacketTaken DEF counters, FlowType, CounterInv
<1>3. SuitsKept
  BY <1>1, SuitsStill
<1>4. nextReq = 1 => ~client'.subscribed /\ ~client'.data_requested /\ client'.ring = << >>
  BY <1>1 DEF CounterInv
<1>5. CASE UNCHANGED <<stack, ret>>
  BY <1>1, <1>2, <1>3, <1>4, <1>5, StaysBase DEF counters
<1>6. CASE Return(-1)
  BY <1>1, <1>2, <1>3, <1>4, <1>6, ReturnBase DEF counters
<1> QED
  BY <1>1, <1>5, <1>6

LEMMA ReadOnBase ==
  ASSUME BaseInv, \/ NonblockEndOfFile \/ NonblockHangUp
                  \/ BlockReadable \/ BlockHangUp \/ BlockReconnected
  PROVE  BaseInv'
<1>1. /\ stack # << >> /\ Top.fn \in {"read", "read_nonblock"} /\ UNCHANGED <<counters, seen, upset>>
  BY DEF NonblockEndOfFile, NonblockHangUp, BlockReadable, BlockHangUp, BlockReconnected, Running,
         Returned
<1>2. CASE NonblockEndOfFile
  BY <1>1, <1>2, ReadMoves DEF counters, NonblockEndOfFile
<1>3. CASE BlockReadable
  BY <1>1, <1>3, ReadMoves DEF counters, BlockReadable, Running
<1>4. CASE BlockReconnected
  <2>1. (Go("nonblock") /\ Top.fn = "read") \/ Return(-1)
    BY <1>4 DEF BlockReconnected, Returned
  <2> QED
    BY <1>1, <1>4, <2>1, ReadMoves DEF counters, BlockReconnected
<1>5. CASE NonblockHangUp
  BY <1>1, <1>5, HangUpInRead DEF NonblockHangUp
<1>6. CASE BlockHangUp
  BY <1>1, <1>6, HangUpInRead DEF BlockHangUp, Running
<1> QED
  BY <1>2, <1>3, <1>4, <1>5, <1>6

(* The end of a call. *)
LEMMA DatamodeDoneEffect ==
  ASSUME BaseInv, DatamodeDone
  PROVE  /\ client' \in ClientType /\ client'.connected = client.connected
         /\ client'.mode = (IF ret = 0 THEN Top.req.arg ELSE client.mode)
         /\ client'.data_requested = client.data_requested
         /\ client'.data_received = client.data_received
         /\ client'.subscribed = client.subscribed /\ client'.ring = client.ring
<1> DEFINE m == IF ret = 0 THEN Top.req.arg ELSE client.mode
<1>1. client \in ClientType /\ Top.req.arg \in {PUSH, PULL}
  BY BaseFacts DEF DatamodeDone, Returned, Suits
<1>2. client' = [client EXCEPT !.mode = m] /\ m \in {PUSH, PULL}
  BY <1>1 DEF DatamodeDone, ClientType
<1> HIDE DEF m
<1>3. /\ client' \in ClientType /\ client'.connected = client.connected /\ client'.mode = m
      /\ client'.data_requested = client.data_requested
      /\ client'.data_received = client.data_received
      /\ client'.subscribed = client.subscribed /\ client'.ring = client.ring
  BY <1>1, <1>2, SetMode
<1> QED
  BY <1>3 DEF m

LEMMA SubscribeDoneEffect ==
  ASSUME BaseInv, SubscribeDone
  PROVE  /\ client' \in ClientType /\ client'.connected = client.connected
         /\ client'.mode = client.mode /\ client'.data_requested = client.data_requested
         /\ client'.data_received = client.data_received
         /\ client'.subscribed = (client.subscribed \/ ret = 0) /\ client'.ring = client.ring
<1> DEFINE b == client.subscribed \/ ret = 0
<1>1. client \in ClientType
  BY BaseFacts
<1>2. client' = [client EXCEPT !.subscribed = b] /\ b \in BOOLEAN
  BY DEF SubscribeDone
<1> HIDE DEF b
<1>3. /\ client' \in ClientType /\ client'.connected = client.connected
      /\ client'.mode = client.mode /\ client'.data_requested = client.data_requested
      /\ client'.data_received = client.data_received
      /\ client'.subscribed = b /\ client'.ring = client.ring
  BY <1>1, <1>2, SetSubscribed
<1> QED
  BY <1>3 DEF b

LEMMA DoneBase ==
  ASSUME BaseInv, DatamodeDone \/ SubscribeDone \/ UnsubscribeDone
  PROVE  BaseInv' /\ stack' = << >> /\ ret' = NoRet
<1>1. /\ Typed /\ FlowType /\ CounterInv /\ stack # << >> /\ client \in ClientType /\ Depth \in Nat
      /\ Depth >= 1 /\ Top = stack[Depth]
      /\ Top.fn \in {"datamode", "subscribe", "unsubscribe"} /\ Top.at = "request"
      /\ UNCHANGED <<net, server, nextReq, nextData, seen, upset>> /\ Return(0)
  BY BaseFacts DEF DatamodeDone, SubscribeDone, UnsubscribeDone, Returned, counters
<1>2. Depth = 1
  BY <1>1, CallAtBottom DEF Calls
<1>3. nextReq # 1
  <2>1. Depth \in 1..Depth /\ OfRequest(stack[Depth])
    BY <1>1 DEF OfRequest
  <2> QED
    BY <1>1, <2>1 DEF CounterInv
<1>4. /\ client' \in ClientType /\ client'.connected = client.connected
      /\ client'.ring = client.ring
  BY <1>1, DatamodeDoneEffect, SubscribeDoneEffect DEF UnsubscribeDone
<1>5. FlowKept
  BY <1>1, <1>4, FlowStays DEF FlowType
<1>6. BaseInv'
  BY <1>1, <1>2, <1>3, <1>4, <1>5, ReturnBase
<1> QED
  BY <1>1, <1>2, <1>6, ReturnEffect

(* The program makes a call: one frame, or a call and the request it makes. *)
LEMMA StartingEffect ==
  ASSUME BaseInv, NEW fn \in Calls, NEW p \in Points, Starting(fn, p)
  PROVE  /\ Typed' /\ Depth' = 1 /\ stack' # << >> /\ stack = << >> /\ ret = NoRet /\ ret' = NoRet
         /\ stack'[1] = Top' /\ Top'.fn = fn /\ Top'.at = p
<1>1. F(fn, p) \in Frame /\ F(fn, p).fn = fn /\ F(fn, p).at = p
  BY NewFrame DEF Functions
<1> DEFINE g == F(fn, p)
<1>2. stack' = <<g>> /\ stack = << >> /\ ret' = NoRet
  BY DEF Starting
<1> HIDE DEF g
<1>3. ret = NoRet
  BY <1>2, BaseFacts DEF StackInv
<1>4. <<g>> \in Seq(Frame) /\ Len(<<g>>) = 1 /\ <<g>>[1] = g /\ <<g>> # << >>
  BY <1>1 DEF g
<1>5. Typed' /\ Depth' = 1 /\ stack' # << >> /\ Top' = g /\ stack'[1] = g
  BY <1>2, <1>4 DEF Typed, Depth, Top
<1> QED
  BY <1>1, <1>2, <1>3, <1>5 DEF g

LEMMA StartRequestEffect ==
  ASSUME BaseInv, NEW fn \in Calls, NEW p \in Points, NEW a \in {PUSH, PULL, OPEN, CLOSE},
         NEW s \in {REQ_DEV, REQ_DATA, REQ_DATAMODE}, StartRequest(fn, p, s, a)
  PROVE  /\ Typed' /\ Depth' = 2 /\ stack' # << >> /\ stack = << >> /\ ret = NoRet /\ ret' = NoRet
         /\ stack'[1] = Caller' /\ stack'[2] = Top'
         /\ Caller'.fn = fn /\ Caller'.at = p /\ Caller'.req.arg = a
         /\ Top'.fn = "request" /\ Top'.at = "send" /\ Top'.req.subtype = s /\ Top'.req.arg = a
         /\ Top'.req.id = nextReq /\ Top'.req \in Request
<1> DEFINE r == [subtype |-> s, arg |-> a, id |-> nextReq]
           f == [F(fn, p) EXCEPT !.req = r]
           g == RequestFrame(s, a)
<1>1. F(fn, p) \in Frame /\ F(fn, p).fn = fn /\ F(fn, p).at = p
  BY NewFrame DEF Functions
<1>2. nextReq \in Nat
  BY BaseFacts DEF CounterInv
<1>3. r \in Request /\ r.arg = a
  BY <1>2 DEF Request
<1>4. /\ g \in Frame /\ g.fn = "request" /\ g.at = "send" /\ g.req \in Request
      /\ g.req.subtype = s /\ g.req.arg = a /\ g.req.id = nextReq
  BY <1>2, NewRequest
<1>5. stack' = <<f, g>> /\ stack = << >> /\ ret' = NoRet
  BY DEF StartRequest
<1> HIDE DEF g, r
<1>6. f \in Frame /\ f.fn = fn /\ f.at = p /\ f.req = r
  BY <1>1, <1>3 DEF Frame
<1> HIDE DEF f
<1>7. /\ <<f, g>> \in Seq(Frame) /\ Len(<<f, g>>) = 2 /\ <<f, g>>[1] = f /\ <<f, g>>[2] = g
      /\ <<f, g>> # << >>
  BY <1>4, <1>6
<1>8. /\ Typed' /\ Depth' = 2 /\ stack' # << >> /\ Top' = g /\ Caller' = f
      /\ stack'[1] = f /\ stack'[2] = g
  BY <1>5, <1>7 DEF Typed, Depth, Top, Caller
<1>9. ret = NoRet
  BY <1>5, BaseFacts DEF StackInv
<1> QED
  BY <1>3, <1>4, <1>5, <1>6, <1>8, <1>9

LEMMA StartingBase ==
  ASSUME BaseInv, NEW fn \in Calls, NEW p \in Points, Starting(fn, p),
         \/ fn = "connect" /\ p = "open" /\ link = "none"
         \/ fn \in {"peek", "read"} /\ p = "peek"
         \/ fn \in {"read", "read_nonblock"} /\ p = "nonblock"
  PROVE  BaseInv'
<1>1. /\ FlowType /\ CounterInv /\ LinkInv /\ QueueInv
  BY BaseFacts
<1> DEFINE g == Top'
<1>2. /\ Typed' /\ Depth' = 1 /\ stack' # << >> /\ stack = << >> /\ ret = NoRet /\ ret' = NoRet
      /\ stack'[1] = g /\ g.fn = fn /\ g.at = p /\ g = Top'
  BY StartingEffect
<1> HIDE DEF g
<1>3. UNCHANGED <<net, server, client, nextReq, nextData, seen, upset>>
  BY DEF Starting
<1>4. Runs(g) /\ Suits(g, client')
  BY <1>2 DEF Runs, HangsOn, Suits
<1>5. 1..(Depth' - 1) = {} /\ 1..Depth' = {1}
  BY <1>2
<1>6. StackInv'
  BY <1>2, <1>4, <1>5 DEF StackInv
<1>7. ~OfRequest(g)
  BY <1>2 DEF OfRequest, Calls
<1>8. CounterInv'
  BY <1>1, <1>2, <1>3, <1>5, <1>7 DEF CounterInv
<1>9. LinkInv'
  <2>1. Depth = 0
    BY <1>2 DEF Depth
  <2>2. 1..Depth = {}
    BY <2>1
  <2>3. g.fn \in {"retry", "connect"} => link = "none"
    BY <1>2
  <2> QED
    BY <1>1, <1>2, <1>3, <1>5, <2>2, <2>3 DEF LinkInv, net, server
<1>10. FlowType' /\ QueueInv'
  BY <1>1, <1>3 DEF FlowType, QueueInv, net, server
<1> QED
  BY <1>2, <1>6, <1>8, <1>9, <1>10, TypeJoinPrime DEF BaseInv

LEMMA StartRequestBase ==
  ASSUME BaseInv, NEW fn \in Calls, NEW p \in Points, NEW a \in {PUSH, PULL, OPEN, CLOSE},
         NEW s \in {REQ_DEV, REQ_DATA, REQ_DATAMODE}, StartRequest(fn, p, s, a),
         client' \in ClientType, client'.ring = client.ring, client'.connected = client.connected,
         upset' \subseteq Irregularities,
         \/ /\ fn \in {"peek", "read"} /\ p = "requestdata" /\ s = REQ_DATA
            /\ client'.mode = PULL /\ ~client'.data_requested
         \/ fn = "datamode" /\ p = "request" /\ s = REQ_DATAMODE /\ a \in {PUSH, PULL}
         \/ /\ fn = "subscribe" /\ p = "request" /\ s = REQ_DEV /\ a = OPEN
            /\ ~client'.subscribed
         \/ /\ fn = "unsubscribe" /\ p = "request" /\ s = REQ_DEV /\ a = CLOSE
            /\ ~client'.subscribed
  PROVE  BaseInv'
<1>1. /\ FlowType /\ CounterInv /\ LinkInv /\ QueueInv
  BY BaseFacts
<1> DEFINE g == Top'
           f == Caller'
<1>2. /\ Typed' /\ Depth' = 2 /\ stack' # << >> /\ stack = << >> /\ ret = NoRet /\ ret' = NoRet
      /\ stack'[1] = f /\ stack'[2] = g /\ g = Top'
      /\ f.fn = fn /\ f.at = p /\ f.req.arg = a
      /\ g.fn = "request" /\ g.at = "send" /\ g.req.subtype = s /\ g.req.arg = a
      /\ g.req.id = nextReq
  BY StartRequestEffect
<1> HIDE DEF f, g
<1>3. UNCHANGED <<net, server, nextData, seen>> /\ nextReq' = nextReq + 1
  BY DEF StartRequest
<1>4. Runs(g) /\ Suits(g, client') /\ nextReq' \in Nat /\ nextReq' > 1
  BY <1>1, <1>2, <1>3 DEF Runs, Suits, CounterInv
<1>5. Waits(f, g) /\ f.fn # "retry"
  BY <1>2 DEF Waits, AsksFor
<1>6. Suits(f, client')
  BY <1>2 DEF Suits
<1>7. 1..(Depth' - 1) = {1} /\ 1..Depth' = {1, 2} /\ 1 + 1 = 2
  BY <1>2
<1>8. StackInv'
  <2>1. \A i \in 1..(Depth' - 1) : /\ Waits(stack'[i], stack'[i + 1])
                                   /\ stack'[i].fn = "retry" => stack'[i].j < RetryLimit
    BY <1>2, <1>5, <1>7
  <2>2. \A i \in 1..Depth' : Suits(stack'[i], client')
    BY <1>2, <1>4, <1>6, <1>7
  <2> QED
    BY <1>2, <1>4, <2>1, <2>2 DEF StackInv
<1>9. CounterInv'
  BY <1>1, <1>3, <1>4 DEF CounterInv
<1>10. LinkInv'
  <2>1. Depth = 0
    BY <1>2 DEF Depth
  <2>2. 1..Depth = {}
    BY <2>1
  <2> QED
    BY <1>1, <1>2, <1>3, <2>2 DEF LinkInv, net, server
<1>11. FlowType' /\ QueueInv'
  BY <1>1, <1>3 DEF FlowType, QueueInv, net, server
<1> QED
  BY <1>2, <1>8, <1>9, <1>10, <1>11, TypeJoinPrime DEF BaseInv

LEMMA ProgramBase ==
  ASSUME BaseInv, Program
  PROVE  BaseInv'
<1>1. /\ FlowType /\ CounterInv /\ LinkInv /\ QueueInv /\ StackInv /\ client \in ClientType /\ Typed
  BY BaseFacts
<1>2. CASE StartConnect
  <2>1. "connect" \in Calls /\ "open" \in Points /\ link = "none" /\ Starting("connect", "open")
    BY <1>2 DEF StartConnect, Calls, Points
  <2> QED
    BY <2>1, StartingBase
<1>3. CASE CallDisconnect
  <2>1. /\ stack = << >> /\ Disconnect /\ UNCHANGED <<stack, ret, nextReq, nextData, seen, upset>>
    BY <1>3 DEF CallDisconnect
  <2>2. /\ FlowType' /\ QueueInv' /\ link' = "none" /\ toClient' = << >> /\ toServer' = << >>
        /\ serving' = NoReq /\ client'.data_requested = client.data_requested
        /\ client'.subscribed = client.subscribed /\ client'.ring = client.ring
    BY <2>1, DisconnectEffect
  <2>3. Depth' = 0 /\ stack' = << >> /\ ret' = NoRet /\ Typed'
    BY <1>1, <2>1 DEF Depth, StackInv, Typed
  <2>4. 1..(Depth' - 1) = {} /\ 1..Depth' = {}
    BY <2>3
  <2>5. StackInv'
    BY <2>3, <2>4 DEF StackInv
  <2>6. CounterInv'
    BY <1>1, <2>1, <2>2, <2>4 DEF CounterInv
  <2>7. LinkInv'
    BY <2>2, <2>3 DEF LinkInv
  <2> QED
    BY <2>2, <2>3, <2>5, <2>6, <2>7, TypeJoinPrime DEF BaseInv
<1>4. ASSUME NEW fn \in {"peek", "read"}, StartPeek(fn) PROVE BaseInv'
  <2>1. fn \in Calls /\ "requestdata" \in Points /\ "peek" \in Points
    BY DEF Calls, Points
  <2>2. CASE /\ MustRequest /\ StartRequest(fn, "requestdata", REQ_DATA, PULL)
             /\ UNCHANGED <<client, upset>>
    <3>1. client'.mode = PULL /\ ~client'.data_requested
      BY <2>2 DEF MustRequest
    <3>2. PULL \in {PUSH, PULL, OPEN, CLOSE} /\ REQ_DATA \in {REQ_DEV, REQ_DATA, REQ_DATAMODE}
      OBVIOUS
    <3>3. StartRequest(fn, "requestdata", REQ_DATA, PULL)
      BY <2>2
    <3>4. upset' \subseteq Irregularities /\ client' \in ClientType
          /\ client'.ring = client.ring /\ client'.connected = client.connected
      BY <1>1, <2>2 DEF FlowType
    <3> QED
      BY <2>1, <3>1, <3>2, <3>3, <3>4, StartRequestBase
  <2>3. CASE Starting(fn, "peek")
    BY <2>1, <2>3, StartingBase
  <2> QED
    BY <1>4, <2>2, <2>3 DEF StartPeek
<1>5. CASE StartReadQueued \/ StartReadNonblock
  <2>1. "read" \in Calls /\ "read_nonblock" \in Calls /\ "nonblock" \in Points
    BY DEF Calls, Points
  <2> QED
    BY <1>5, <2>1, StartingBase DEF StartReadQueued, StartReadNonblock
<1>6. ASSUME NEW m \in Modes, StartDatamode(m) PROVE BaseInv'
  <2>1. "datamode" \in Calls /\ "request" \in Points /\ m \in {PUSH, PULL}
        /\ m \in {PUSH, PULL, OPEN, CLOSE} /\ REQ_DATAMODE \in {REQ_DEV, REQ_DATA, REQ_DATAMODE}
    BY ConstantsAssumption DEF Calls, Points
  <2>2. StartRequest("datamode", "request", REQ_DATAMODE, m) /\ client' = client
    BY <1>6 DEF StartDatamode
  <2>3. upset' \subseteq Irregularities
    BY <1>1, <1>6 DEF StartDatamode, FlowType, Irregularities
  <2> QED
    BY <1>1, <2>1, <2>2, <2>3, StartRequestBase
<1>7. CASE StartSubscribe
  <2>1. "subscribe" \in Calls /\ "request" \in Points
        /\ OPEN \in {PUSH, PULL, OPEN, CLOSE} /\ REQ_DEV \in {REQ_DEV, REQ_DATA, REQ_DATAMODE}
    BY DEF Calls, Points
  <2>2. StartRequest("subscribe", "request", REQ_DEV, OPEN) /\ client' = client
        /\ ~client'.subscribed
    BY <1>7 DEF StartSubscribe
  <2>3. upset' \subseteq Irregularities
    BY <1>1, <1>7 DEF StartSubscribe, FlowType
  <2> QED
    BY <1>1, <2>1, <2>2, <2>3, StartRequestBase
<1>8. CASE StartUnsubscribe
  <2>1. "unsubscribe" \in Calls /\ "request" \in Points
        /\ CLOSE \in {PUSH, PULL, OPEN, CLOSE} /\ REQ_DEV \in {REQ_DEV, REQ_DATA, REQ_DATAMODE}
    BY DEF Calls, Points
  <2> DEFINE no == FALSE
  <2>2. StartRequest("unsubscribe", "request", REQ_DEV, CLOSE)
    BY <1>8 DEF StartUnsubscribe
  <2>3. client' = [client EXCEPT !.subscribed = no] /\ no \in BOOLEAN
    BY <1>8 DEF StartUnsubscribe
  <2> HIDE DEF no
  <2>4. /\ client' \in ClientType /\ client'.connected = client.connected
        /\ client'.subscribed = no /\ client'.ring = client.ring
    BY <1>1, <2>3, SetSubscribed
  <2>5. ~client'.subscribed
    BY <2>4 DEF no
  <2>6. upset' \subseteq Irregularities
    BY <1>1, <1>8 DEF StartUnsubscribe, FlowType
  <2> QED
    BY <2>1, <2>2, <2>4, <2>5, <2>6, StartRequestBase
<1> QED
  BY <1>2, <1>3, <1>4, <1>5, <1>6, <1>7, <1>8 DEF Program

(* The server's side. *)
LEMMA HeadRequest ==
  ASSUME BaseInv, toServer # << >>
  PROVE  Head(toServer) \in Request /\ Tail(toServer) \in Seq(Request)
<1>1. toServer \in Seq(Request)
  BY BaseFacts DEF FlowType
<1> QED
  BY <1>1, HeadTailProperties

LEMMA HandleRequestBase ==
  ASSUME BaseInv, HandleRequest
  PROVE  BaseInv'
<1> DEFINE r == Head(toServer)
<1>1. /\ FlowType /\ CounterInv /\ QueueInv /\ LinkInv /\ Plain(q)
  BY BaseFacts
<1>2. /\ link = "up" /\ serving = NoReq /\ toServer # << >> /\ toServer' = Tail(toServer)
      /\ UNCHANGED <<link, toClient, client, stack, ret, counters, seen, upset>>
  BY DEF HandleRequest, ServerIdle
<1>3. r \in Request /\ Tail(toServer) \in Seq(Request)
  BY <1>2, HeadRequest
<1> HIDE DEF r
<1>4. /\ Likewise(q, q') /\ ~OfType(q'.msgs, SYNCH) /\ sub' \in {"yes", "no", "lacking"}
      /\ serving' \in Request \cup {NoReq}
  <2>0. sub \in {"yes", "no", "lacking"} /\ serving \in Request \cup {NoReq} /\ q \in QueueType
        /\ ~OfType(q.msgs, SYNCH)
    BY <1>1 DEF FlowType, QueueInv
  <2>1. CASE r.subtype = REQ_DATAMODE /\ q' = Push(SetPull(q, r.arg = PULL), Reply(RESP_ACK, r))
                                      /\ UNCHANGED <<sub, serving>>
    <3> DEFINE b == r.arg = PULL
               c == SetPull(q, b)
               m == Reply(RESP_ACK, r)
    <3>1. b \in BOOLEAN
      OBVIOUS
    <3>2. q' = Push(c, m)
      BY <2>1
    <3>3. m \in Message /\ m.type = RESP_ACK
      BY <1>3, ReplyIsMessage
    <3> HIDE DEF b, m
    <3>4. Likewise(q, c) /\ c.msgs = q.msgs
      BY <2>0, <3>1, SetPullEffect
    <3> HIDE DEF c
    <3>5. Plain(c)
      BY <1>1, <3>4 DEF Plain, Likewise
    <3>6. /\ Likewise(c, q') /\ (GainsLast(c.msgs, m, q'.msgs) \/ q'.msgs = c.msgs)
      BY <3>2, <3>3, <3>5, PushEffect
    <3>7. ~OfType(q'.msgs, SYNCH)
      BY <2>0, <3>3, <3>4, <3>6, TypesInMore DEF RESP_ACK, SYNCH
    <3> QED
      BY <2>0, <2>1, <3>4, <3>6, <3>7 DEF Likewise
  <2>2. CASE q' = PushFront(q, Reply(RESP_ACK, r)) /\ serving' = r /\ UNCHANGED sub
    <3> DEFINE m == Reply(RESP_ACK, r)
    <3>1. m \in Message /\ m.type = RESP_ACK
      BY <1>3, ReplyIsMessage
    <3>2. q' = PushFront(q, m)
      BY <2>2
    <3> HIDE DEF m
    <3>3. Likewise(q, q') /\ Gains1st(m, q.msgs, q'.msgs)
      BY <2>0, <3>1, <3>2, PushFrontEffect
    <3>4. ~OfType(q'.msgs, SYNCH)
      BY <2>0, <3>1, <3>3, TypesInRest DEF RESP_ACK, SYNCH, Gains1st
    <3> QED
      BY <1>3, <2>0, <2>2, <3>3, <3>4
  <2>3. CASE q' = Push(q, Reply(RESP_NACK, r)) /\ UNCHANGED <<sub, serving>>
    <3> DEFINE m == Reply(RESP_NACK, r)
    <3>1. m \in Message /\ m.type = RESP_NACK
      BY <1>3, ReplyIsMessage
    <3>2. q' = Push(q, m)
      BY <2>3
    <3> HIDE DEF m
    <3>3. Likewise(q, q') /\ (GainsLast(q.msgs, m, q'.msgs) \/ q'.msgs = q.msgs)
      BY <1>1, <3>1, <3>2, PushEffect
    <3>4. ~OfType(q'.msgs, SYNCH)
      BY <2>0, <3>1, <3>3, TypesInMore DEF RESP_NACK, SYNCH
    <3> QED
      BY <2>0, <2>3, <3>3, <3>4
  <2>4. CASE sub' = (IF r.arg = OPEN THEN "yes" ELSE "no") /\ serving' = r /\ UNCHANGED q
    BY <1>3, <2>0, <2>4 DEF Likewise
  <2> QED
    BY <2>1, <2>2, <2>3, <2>4 DEF HandleRequest, r
<1>5. FlowType' /\ QueueInv'
  BY <1>1, <1>2, <1>3, <1>4 DEF FlowType, QueueInv, Likewise
<1> QED
  BY <1>1, <1>2, <1>5, OutsideBase DEF CounterInv, counters

LEMMA HandleRefusedBase ==
  ASSUME BaseInv, HandleRefused
  PROVE  BaseInv'
<1>1. /\ FlowType /\ CounterInv /\ QueueInv /\ LinkInv
  BY BaseFacts
<1>2. /\ link = "up" /\ toServer # << >> /\ toServer' = Tail(toServer)
      /\ serving' = Head(toServer) /\ upset' = upset \cup {"refused"}
      /\ UNCHANGED <<link, toClient, q, sub, client, stack, ret, nextReq, nextData, seen>>
  BY DEF HandleRefused, ServerIdle
<1>3. Head(toServer) \in Request /\ Tail(toServer) \in Seq(Request)
  BY <1>2, HeadRequest
<1>4. FlowType' /\ QueueInv'
  BY <1>1, <1>2, <1>3 DEF FlowType, QueueInv, Irregularities
<1> QED
  BY <1>1, <1>2, <1>4, OutsideBase DEF CounterInv

LEMMA HandleRestEffect ==
  ASSUME BaseInv, HandleRest
  PROVE  /\ Likewise(q, q') /\ q'.pull = q.pull /\ link = "up" /\ serving \in Request
         /\ serving' = NoReq /\ UNCHANGED <<net, sub, client, stack, ret, counters, seen, upset>>
         /\ \/ /\ serving.subtype = REQ_DATA /\ q'.msgs = q.msgs /\ q'.data_requested = TRUE
               /\ q'.data_delivered = FALSE
            \/ /\ serving.subtype # REQ_DATA /\ SameRound(q, q')
               /\ GainsLast(q.msgs, Reply(RESP_ACK, serving), q'.msgs)
<1>1. /\ FlowType /\ QueueInv /\ LinkInv /\ Plain(q) /\ q \in QueueType
  BY BaseFacts DEF FlowType
<1>2. link = "up" /\ serving \in Request
  BY <1>1 DEF HandleRest, LinkInv, FlowType
<1>3. CASE serving.subtype = REQ_DATA
  <2> DEFINE yes == TRUE
  <2>1. q' = SetDataRequested(q, yes) /\ yes \in BOOLEAN
    BY <1>3 DEF HandleRest
  <2> HIDE DEF yes
  <2>2. /\ Likewise(q, q') /\ q'.msgs = q.msgs /\ q'.pull = q.pull
        /\ q'.data_requested = yes /\ q'.data_delivered = FALSE
    BY <1>1, <2>1, SetDataRequestedEffect
  <2> QED
    BY <1>2, <1>3, <2>2 DEF yes, HandleRest
<1>4. CASE serving.subtype # REQ_DATA
  <2> DEFINE m == Reply(RESP_ACK, serving)
  <2>1. m \in Message /\ ~IsDataOrCmd(m)
    BY <1>2, ReplyIsMessage
  <2>2. q' = Push(q, m)
    BY <1>4 DEF HandleRest
  <2> HIDE DEF m
  <2>3. Likewise(q, q') /\ SameRound(q, q') /\ GainsLast(q.msgs, m, q'.msgs)
    BY <1>1, <2>1, <2>2, PushEffect
  <2> QED
    BY <1>2, <1>4, <2>3 DEF m, SameRound, HandleRest
<1> QED
  BY <1>3, <1>4

LEMMA HandleRestBase ==
  ASSUME BaseInv, HandleRest
  PROVE  BaseInv'
<1>1. /\ FlowType /\ CounterInv /\ QueueInv /\ LinkInv
  BY BaseFacts
<1>2. /\ Likewise(q, q') /\ link = "up" /\ serving \in Request
      /\ serving' = NoReq /\ UNCHANGED <<net, sub, client, stack, ret, counters, seen, upset>>
      /\ q'.msgs = q.msgs \/ GainsLast(q.msgs, Reply(RESP_ACK, serving), q'.msgs)
  BY HandleRestEffect
<1>3. Reply(RESP_ACK, serving).type # SYNCH
  BY <1>2, ReplyIsMessage DEF RESP_ACK, SYNCH
<1>4. ~OfType(q'.msgs, SYNCH)
  BY <1>1, <1>2, <1>3, TypesInMore DEF QueueInv
<1>5. FlowType' /\ QueueInv'
  BY <1>1, <1>2, <1>4 DEF FlowType, QueueInv, Likewise, net
<1> QED
  BY <1>1, <1>2, <1>5, OutsideBase DEF CounterInv, counters, net

(* A message is popped and sent, or a SYNCH is made up and sent. *)
LEMMA WriteClientEffect ==
  ASSUME BaseInv, WriteClient
  PROVE  /\ link = "up" /\ serving = NoReq /\ Likewise(q, q') /\ q'.pull = q.pull
         /\ UNCHANGED <<link, toServer, sub, serving, client, stack, ret, counters, seen, upset>>
         /\ \/ /\ Loses1st(q.msgs, q'.msgs) /\ GainsLast(toClient, q.msgs[1], toClient')
               /\ q'.data_requested = q.data_requested
               /\ q'.data_delivered = (q.data_delivered \/ (q.data_requested /\ q.msgs[1].type = DATA))
            \/ /\ q'.msgs = q.msgs /\ GainsLast(toClient, SynchMessage(q), toClient')
               /\ q.data_requested /\ q.data_delivered
               /\ q'.data_requested = FALSE /\ q'.data_delivered = FALSE
<1>1. /\ FlowType /\ QueueInv /\ LinkInv /\ Plain(q) /\ q \in QueueType
      /\ toClient \in Seq(Message)
  BY BaseFacts DEF FlowType
<1>2. /\ link = "up" /\ serving = NoReq
      /\ UNCHANGED <<link, toServer, sub, serving, client, stack, ret, counters, seen, upset>>
  BY DEF WriteClient, ServerIdle
<1>3. ASSUME NEW i \in PopIndex(q), q' = PopAt(q, i), toClient' = Append(toClient, q.msgs[i])
      PROVE  /\ Likewise(q, q') /\ q'.pull = q.pull
             /\ Loses1st(q.msgs, q'.msgs) /\ GainsLast(toClient, q.msgs[1], toClient')
             /\ q'.data_requested = q.data_requested
             /\ q'.data_delivered = (q.data_delivered \/ (q.data_requested /\ q.msgs[1].type = DATA))
  <2>1. /\ Likewise(q, q') /\ i = 1 /\ Loses1st(q.msgs, q'.msgs)
        /\ q'.pull = q.pull /\ q'.data_requested = q.data_requested
        /\ q'.data_delivered = (q.data_delivered \/ (q.data_requested /\ q.msgs[1].type = DATA))
    BY <1>1, <1>3, PopEffect
  <2>2. q.msgs[1] \in Message
    BY <2>1 DEF Loses1st
  <2>3. GainsLast(toClient, q.msgs[1], toClient')
    BY <1>1, <1>3, <2>1, <2>2, AppendOf
  <2> QED
    BY <2>1, <2>3
<1>4. ASSUME SynchDue(q), q' = AfterSynch(q), toClient' = Append(toClient, SynchMessage(q))
      PROVE  /\ Likewise(q, q') /\ q'.pull = q.pull
             /\ q'.msgs = q.msgs /\ GainsLast(toClient, SynchMessage(q), toClient')
             /\ q.data_requested /\ q.data_delivered
             /\ q'.data_requested = FALSE /\ q'.data_delivered = FALSE
  <2>1. /\ Likewise(q, q') /\ q'.msgs = q.msgs /\ q'.pull = q.pull
        /\ q'.data_requested = FALSE /\ q'.data_delivered = FALSE
    BY <1>1, <1>4, AfterSynchEffect
  <2>2. GainsLast(toClient, SynchMessage(q), toClient')
    BY <1>1, <1>4, SynchIsMessage, AppendOf
  <2> QED
    BY <1>4, <2>1, <2>2 DEF SynchDue
<1> QED
  BY <1>2, <1>3, <1>4 DEF WriteClient

LEMMA WriteClientBase ==
  ASSUME BaseInv, WriteClient
  PROVE  BaseInv'
<1>1. /\ FlowType /\ CounterInv /\ QueueInv /\ LinkInv
  BY BaseFacts
<1>2. /\ link = "up" /\ Likewise(q, q')
      /\ UNCHANGED <<link, toServer, sub, serving, client, stack, ret, counters, seen, upset>>
      /\ q'.msgs = q.msgs \/ Loses1st(q.msgs, q'.msgs)
      /\ toClient' \in Seq(Message)
  BY WriteClientEffect DEF GainsLast
<1>3. ~OfType(q'.msgs, SYNCH)
  BY <1>1, <1>2, TypesInRest DEF QueueInv
<1>4. FlowType' /\ QueueInv'
  BY <1>1, <1>2, <1>3 DEF FlowType, QueueInv, Likewise
<1> QED
  BY <1>1, <1>2, <1>4, OutsideBase DEF CounterInv, counters

LEMMA PublishDataEffect ==
  ASSUME BaseInv, PublishData
  PROVE  /\ Likewise(q, q') /\ SameRound(q, q') /\ nextData' = nextData + 1
         /\ UNCHANGED <<net, sub, serving, client, stack, ret, nextReq, seen, upset>>
         /\ \E m \in Message : /\ m.type = DATA /\ m.id = nextData
                               /\ GainsLast(q.msgs, m, q'.msgs) \/ q'.msgs = q.msgs
<1>1. CounterInv /\ Plain(q)
  BY BaseFacts
<1> DEFINE m == [type |-> DATA, subtype |-> 1, addr |-> 1, id |-> nextData]
<1>2. m \in Message /\ m.type = DATA /\ m.id = nextData
  BY <1>1 DEF Message, DATA, RESP_NACK, CounterInv
<1>3. q' = Push(q, m)
  BY DEF PublishData
<1> HIDE DEF m
<1>4. Likewise(q, q') /\ SameRound(q, q') /\ (GainsLast(q.msgs, m, q'.msgs) \/ q'.msgs = q.msgs)
  BY <1>1, <1>2, <1>3, PushEffect
<1> QED
  BY <1>2, <1>4 DEF PublishData

LEMMA PublishDataBase ==
  ASSUME BaseInv, PublishData
  PROVE  BaseInv'
<1>1. /\ FlowType /\ CounterInv /\ QueueInv /\ LinkInv
  BY BaseFacts
<1>2. /\ Likewise(q, q') /\ nextData' = nextData + 1
      /\ UNCHANGED <<net, sub, serving, client, stack, ret, nextReq, seen, upset>>
  BY PublishDataEffect
<1>3. PICK m \in Message : /\ m.type = DATA
                           /\ GainsLast(q.msgs, m, q'.msgs) \/ q'.msgs = q.msgs
  BY PublishDataEffect
<1>4. ~OfType(q'.msgs, SYNCH)
  BY <1>1, <1>3, TypesInMore DEF QueueInv, DATA, SYNCH
<1>5. FlowType' /\ QueueInv'
  BY <1>1, <1>2, <1>4 DEF FlowType, QueueInv, Likewise, net
<1>6. nextData' \in Nat /\ nextData' > 0
  BY <1>1, <1>2 DEF CounterInv
<1> QED
  BY <1>1, <1>2, <1>5, <1>6, OutsideBase DEF LinkInv, net

LEMMA BreakBase ==
  ASSUME BaseInv, Break
  PROVE  BaseInv'
<1>1. /\ FlowType /\ CounterInv /\ QueueInv /\ LinkInv
  BY BaseFacts
<1>2. /\ link = "up" /\ link' \in {"fin", "reset"} /\ toServer' = << >> /\ serving' = NoReq
      /\ sub' = "no" /\ toClient' = IF link' = "reset" THEN << >> ELSE toClient
      /\ UNCHANGED <<client, stack, ret, nextReq, nextData, seen, upset>>
  BY DEF Break, ServerLoses, ServerForgets
<1>3. Plain(q)' /\ ~OfType(q.msgs, SYNCH)'
  BY FreshQueue DEF Break, ServerLoses, ServerForgets, Plain, OfType
<1>4. toClient' \in Seq(Message)
  BY <1>1, <1>2, EmptyList DEF FlowType
<1>5. FlowType' /\ QueueInv'
  BY <1>1, <1>2, <1>3, <1>4 DEF FlowType, QueueInv, Plain
<1> QED
  BY <1>1, <1>2, <1>5, OutsideBase DEF CounterInv

LEMMA NextBase ==
  ASSUME BaseInv, Next
  PROVE  BaseInv'
<1>1. CASE Program
  BY <1>1, ProgramBase
<1>2. CASE Library
  BY <1>2, RetryAttemptBase, RetryExhaustedBase, RetryConnectedBase, RetryResubscribedBase,
     ConnectOpensBase, ConnectDoneBase, RequestSendBase, RequestPacketBase, RequestBrokenBase,
     RequestReconnectedBase, RequestGivenUpBase, DataRequestedBase, PeekBase, NonblockQueuedBase,
     NonblockPacketBase, NonblockUnclaimedBase, NonblockNothingBase, ReadOnBase, DoneBase
     DEF Library
<1>3. CASE RequestLate \/ ConnectFails \/ Break
  BY <1>3, RequestGivenUpBase, ConnectFailsBase, BreakBase
<1>4. CASE HandleRequest \/ HandleRefused \/ HandleRest \/ WriteClient \/ PublishData
  BY <1>4, HandleRequestBase, HandleRefusedBase, HandleRestBase, WriteClientBase, PublishDataBase
<1> QED
  BY <1>1, <1>2, <1>3, <1>4 DEF Next

-----------------------------------------------------------------------------
(***************************************************************************)
(* Data keeps its order, wherever it is.                                   *)
(***************************************************************************)
LEMMA OrderRead ==
  ASSUME NEW a, NEW b, NEW c, NEW s, NEW n, NEW a2, Ordered(a, b, c, s, n), Loses1st(a, a2)
  PROVE  /\ Ordered(a2, b, c, s, n)
         /\ a[1].type = DATA => Ordered(a2, b, c, a[1].id, n)
<1>1. /\ Ids(a2) \subseteq Ids(a) /\ Ascending(a2)
      /\ a[1].type = DATA => a[1].id \in Ids(a) /\ Before({a[1].id}, Ids(a2))
  BY IdsOfRest DEF Ordered
<1>2. Ordered(a2, b, c, s, n)
  BY <1>1 DEF Ordered, Before
<1>3. a[1].type = DATA => Ordered(a2, b, c, a[1].id, n)
  BY <1>1, <1>2 DEF Ordered, Before
<1> QED
  BY <1>2, <1>3

LEMMA OrderReceived ==
  ASSUME NEW a, NEW b, NEW c, NEW s, NEW n, NEW b2, Ordered(a, b, c, s, n), Loses1st(b, b2)
  PROVE  /\ Ordered(a, b2, c, s, n)
         /\ a = << >> /\ b[1].type = DATA => Ordered(a, b2, c, b[1].id, n)
<1>1. /\ Ids(b2) \subseteq Ids(b) /\ Ascending(b2)
      /\ b[1].type = DATA => b[1].id \in Ids(b) /\ Before({b[1].id}, Ids(b2))
  BY IdsOfRest DEF Ordered
<1>2. Ordered(a, b2, c, s, n)
  BY <1>1 DEF Ordered, Before
<1>3. ASSUME a = << >>, b[1].type = DATA PROVE Ordered(a, b2, c, b[1].id, n)
  <2>1. Ids(a) = {}
    BY <1>3, EmptyList
  <2> QED
    BY <1>1, <1>2, <1>3, <2>1 DEF Ordered, Before
<1> QED
  BY <1>2, <1>3

LEMMA OrderQueuedUp ==
  ASSUME NEW a, NEW b, NEW c, NEW s, NEW n, NEW a2, NEW b2, Ordered(a, b, c, s, n),
         Loses1st(b, b2), GainsLast(a, b[1], a2)
  PROVE  Ordered(a2, b2, c, s, n)
<1>1. /\ Ids(b2) \subseteq Ids(b) /\ Ascending(b2)
      /\ b[1].type = DATA => b[1].id \in Ids(b) /\ Before({b[1].id}, Ids(b2))
  BY IdsOfRest DEF Ordered
<1>2. CASE b[1].type = DATA
  <2>1. Before(Ids(a), {b[1].id})
    BY <1>1, <1>2 DEF Ordered, Before
  <2>2. Ids(a2) = Ids(a) \cup {b[1].id} /\ Ascending(a2)
    BY <1>2, <2>1, IdsOfMore DEF Ordered
  <2> QED
    BY <1>1, <1>2, <2>1, <2>2 DEF Ordered, Before
<1>3. CASE b[1].type # DATA
  <2>1. Ids(a2) = Ids(a) /\ Ascending(a2)
    BY <1>3, IdsOfMore DEF Ordered
  <2> QED
    BY <1>1, <2>1 DEF Ordered, Before
<1> QED
  BY <1>2, <1>3

LEMMA OrderWritten ==
  ASSUME NEW a, NEW b, NEW c, NEW s, NEW n, NEW b2, NEW c2, Ordered(a, b, c, s, n),
         Loses1st(c, c2), GainsLast(b, c[1], b2)
  PROVE  Ordered(a, b2, c2, s, n)
<1>1. /\ Ids(c2) \subseteq Ids(c) /\ Ascending(c2)
      /\ c[1].type = DATA => c[1].id \in Ids(c) /\ Before({c[1].id}, Ids(c2))
  BY IdsOfRest DEF Ordered
<1>2. CASE c[1].type = DATA
  <2>1. Before(Ids(b), {c[1].id})
    BY <1>1, <1>2 DEF Ordered, Before
  <2>2. Ids(b2) = Ids(b) \cup {c[1].id} /\ Ascending(b2)
    BY <1>2, <2>1, IdsOfMore DEF Ordered
  <2> QED
    BY <1>1, <1>2, <2>1, <2>2 DEF Ordered, Before
<1>3. CASE c[1].type # DATA
  <2>1. Ids(b2) = Ids(b) /\ Ascending(b2)
    BY <1>3, IdsOfMore DEF Ordered
  <2> QED
    BY <1>1, <2>1 DEF Ordered, Before
<1> QED
  BY <1>2, <1>3

LEMMA OrderSent ==
  ASSUME NEW a, NEW b, NEW c, NEW s, NEW n, NEW b2, NEW m, Ordered(a, b, c, s, n),
         GainsLast(b, m, b2), m.type # DATA
  PROVE  Ordered(a, b2, c, s, n)
<1>1. Ids(b2) = Ids(b) /\ Ascending(b2)
  BY IdsOfMore DEF Ordered
<1> QED
  BY <1>1 DEF Ordered

LEMMA OrderReplied ==
  ASSUME NEW a, NEW b, NEW c, NEW s, NEW n, NEW c2, NEW m, Ordered(a, b, c, s, n),
         GainsLast(c, m, c2) \/ Gains1st(m, c, c2), m.type # DATA
  PROVE  Ordered(a, b, c2, s, n)
<1>1. Ids(c2) = Ids(c) /\ Ascending(c2)
  BY IdsOfMore, IdsOfFront DEF Ordered
<1> QED
  BY <1>1 DEF Ordered

LEMMA OrderPublished ==
  ASSUME NEW a \in Seq(Message), NEW b \in Seq(Message), NEW c \in Seq(Message),
         NEW s \in Nat, NEW n \in Nat, NEW c2, NEW m, Ordered(a, b, c, s, n),
         GainsLast(c, m, c2) \/ c2 = c, m.type = DATA, m.id = n
  PROVE  Ordered(a, b, c2, s, n + 1)
<1>1. Ids(a) \subseteq Nat /\ Ids(b) \subseteq Nat /\ Ids(c) \subseteq Nat
  BY Elements
<1>2. Ordered(a, b, c, s, n + 1)
  <2>1. \A x \in {s} \cup Ids(a) \cup Ids(b) \cup Ids(c) : x \in Nat /\ x < n
    BY <1>1 DEF Ordered, Before
  <2>2. \A x \in {s} \cup Ids(a) \cup Ids(b) \cup Ids(c) : x < n + 1
    BY <2>1
  <2>3. Before({s} \cup Ids(a) \cup Ids(b) \cup Ids(c), {n + 1})
    BY <2>2 DEF Before
  <2> QED
    BY <2>3 DEF Ordered
<1>3. CASE GainsLast(c, m, c2)
  <2>1. Before(Ids(c), {n})
    BY DEF Ordered, Before
  <2>2. Ids(c2) = Ids(c) \cup {n} /\ Ascending(c2)
    BY <1>3, <2>1, IdsOfMore DEF Ordered
  <2>3. n < n + 1
    OBVIOUS
  <2> QED
    BY <1>2, <2>2, <2>3 DEF Ordered, Before
<1> QED
  BY <1>2, <1>3

LEMMA OrderLost ==
  ASSUME NEW a, NEW b, NEW c, NEW s, NEW n, NEW b2, Ordered(a, b, c, s, n), b2 \in {b, << >>}
  PROVE  Ordered(a, b2, << >>, s, n)
<1>1. /\ Ids(<< >>) = {} /\ Ascending(<< >>)
  BY EmptyList
<1>2. Ascending(b2) /\ Ids(b2) \subseteq Ids(b)
  BY <1>1 DEF Ordered
<1> QED
  BY <1>1, <1>2 DEF Ordered, Before

(* Nothing moves. *)
LEMMA OrderStill ==
  ASSUME OrderInv, client'.ring = client.ring, q'.msgs = q.msgs,
         UNCHANGED <<toClient, seen, nextData>>
  PROVE  OrderInv'
BY DEF OrderInv

LEMMA OrderCut ==
  ASSUME BaseInv, OrderInv, q'.msgs = << >>, toClient' \in {toClient, << >>},
         client'.ring = client.ring, UNCHANGED <<seen, nextData>>
  PROVE  OrderInv'
<1>1. Ordered(client.ring, toClient', << >>, seen, nextData)
  BY OrderLost DEF OrderInv
<1> QED
  BY <1>1 DEF OrderInv

LEMMA OrderDisconnect ==
  ASSUME BaseInv, OrderInv, Disconnect, UNCHANGED <<seen, nextData, upset>>
  PROVE  OrderInv'
<1>1. q'.msgs = << >> /\ toClient' = << >> /\ client'.ring = client.ring
  BY DisconnectEffect
<1> QED
  BY <1>1, OrderCut

LEMMA OrderProcess ==
  ASSUME BaseInv, OrderInv, NonblockQueued \/ NonblockPacket
  PROVE  OrderInv'
<1>1. client \in ClientType /\ toClient \in Seq(Message)
  BY BaseFacts DEF FlowType
<1>2. CASE NonblockQueued
  <2> DEFINE c == [client EXCEPT !.ring = Tail(client.ring)]
             m == Head(client.ring)
  <2>1. /\ client.ring # << >> /\ UNCHANGED <<net, server, counters, upset>> /\ Process(m, c)
    BY <1>2 DEF NonblockQueued
  <2>2. /\ SameButRing(client, c) /\ Loses1st(client.ring, c.ring) /\ m = client.ring[1]
    BY <2>1, RingTaken
  <2> HIDE DEF c, m
  <2>3. /\ client'.ring = c.ring
        /\ (m.type = SYNCH /\ seen' = seen) \/ (m.type = DATA /\ seen' = m.id)
    BY <2>1, <2>2, ProcessEffect DEF SameButRing
  <2>4. /\ Ordered(c.ring, toClient, q.msgs, seen, nextData)
        /\ m.type = DATA => Ordered(c.ring, toClient, q.msgs, m.id, nextData)
    BY <2>2, OrderRead DEF OrderInv
  <2> QED
    BY <2>1, <2>3, <2>4 DEF OrderInv, net, server, counters
<1>3. CASE NonblockPacket
  <2> DEFINE m == Head(toClient)
  <2>1. /\ client.ring = << >> /\ toClient # << >> /\ toClient' = Tail(toClient)
        /\ UNCHANGED <<server, counters>> /\ Process(m, client)
    BY <1>3 DEF NonblockPacket
  <2>2. Loses1st(toClient, toClient') /\ m = toClient[1]
    BY <1>1, <2>1, TailOf
  <2> HIDE DEF m
  <2>3. /\ client'.ring = client.ring
        /\ (m.type = SYNCH /\ seen' = seen) \/ (m.type = DATA /\ seen' = m.id)
    BY <1>1, <2>1, ProcessEffect
  <2>4. /\ Ordered(client.ring, toClient', q.msgs, seen, nextData)
        /\ m.type = DATA => Ordered(client.ring, toClient', q.msgs, m.id, nextData)
    BY <2>1, <2>2, OrderReceived DEF OrderInv
  <2> QED
    BY <2>1, <2>3, <2>4 DEF OrderInv, server, counters
<1> QED
  BY <1>2, <1>3

LEMMA OrderRequestPacket ==
  ASSUME BaseInv, OrderInv, RequestPacket
  PROVE  OrderInv'
<1> DEFINE m == Head(toClient)
<1>1. /\ toClient # << >> /\ toClient' = Tail(toClient) /\ UNCHANGED <<server, counters, seen>>
  BY DEF RequestPacket
<1>2. FlowType /\ client \in ClientType /\ toClient \in Seq(Message)
  BY BaseFacts DEF FlowType
<1>3. Loses1st(toClient, toClient') /\ m = toClient[1] /\ m \in Message
  BY <1>1, <1>2, TailOf DEF Loses1st
<1>4. CASE UNCHANGED client
  <2>1. Ordered(client.ring, toClient', q.msgs, seen, nextData)
    BY <1>3, OrderReceived DEF OrderInv
  <2> QED
    BY <1>1, <1>4, <2>1 DEF OrderInv, server, counters
<1>5. CASE QueuedUp(m)
  <2> HIDE DEF m
  <2>1. client'.ring = Pushed(m)
    BY <1>3, <1>5, QueuedUpEffect
  <2>2. CASE GainsLast(client.ring, m, Pushed(m))
    <3>1. Ordered(Pushed(m), toClient', q.msgs, seen, nextData)
      BY <1>3, <2>2, OrderQueuedUp DEF OrderInv
    <3> QED
      BY <1>1, <2>1, <3>1 DEF OrderInv, server, counters
  <2>3. ASSUME NEW s, Loses1st(client.ring, s), GainsLast(s, m, Pushed(m))
        PROVE  OrderInv'
    <3>1. Ordered(s, toClient, q.msgs, seen, nextData)
      BY <2>3, OrderRead DEF OrderInv
    <3>2. Ordered(Pushed(m), toClient', q.msgs, seen, nextData)
      BY <1>3, <2>3, <3>1, OrderQueuedUp
    <3> QED
      BY <1>1, <2>1, <3>2 DEF OrderInv, server, counters
  <2> QED
    BY <1>2, <1>3, <2>2, <2>3, PushedEffect DEF FlowType
<1> QED
  BY <1>4, <1>5 DEF RequestPacket

LEMMA OrderServer ==
  ASSUME BaseInv, OrderInv, HandleRequest \/ HandleRest \/ WriteClient \/ PublishData
  PROVE  OrderInv'
<1>1. /\ FlowType /\ CounterInv /\ Plain(q) /\ q \in QueueType /\ toClient \in Seq(Message)
      /\ client.ring \in Seq(Message) /\ q.msgs \in Seq(Message)
  BY BaseFacts DEF FlowType, ClientType, QueueType
<1>2. CASE HandleRequest
  <2> DEFINE r == Head(toServer)
  <2>1. /\ UNCHANGED <<toClient, client, seen, nextData>> /\ toServer # << >>
    BY <1>2 DEF HandleRequest, counters
  <2>2. r \in Request
    BY <2>1, HeadRequest
  <2> HIDE DEF r
  <2>3. ASSUME NEW t \in {RESP_ACK, RESP_NACK}, NEW c, Plain(c), c.msgs = q.msgs,
               q' = Push(c, Reply(t, r)) \/ q' = PushFront(c, Reply(t, r))
        PROVE  OrderInv'
    <3> DEFINE m == Reply(t, r)
    <3>1. m \in Message /\ m.type # DATA /\ ~IsDataOrCmd(m)
      BY <2>2, <2>3, ReplyIsMessage DEF DATA, RESP_ACK, RESP_NACK
    <3>2. q' = Push(c, m) \/ q' = PushFront(c, m)
      BY <2>3
    <3> HIDE DEF m
    <3>3. GainsLast(c.msgs, m, q'.msgs) \/ Gains1st(m, c.msgs, q'.msgs)
      BY <2>3, <3>1, <3>2, PushEffect, PushFrontEffect DEF Plain
    <3>4. Ordered(client.ring, toClient, q'.msgs, seen, nextData)
      BY <2>3, <3>1, <3>3, OrderReplied DEF OrderInv
    <3> QED
      BY <2>1, <3>4 DEF OrderInv
  <2>4. CASE q' = Push(SetPull(q, r.arg = PULL), Reply(RESP_ACK, r))
    <3> DEFINE b == r.arg = PULL
               c == SetPull(q, b)
    <3>1. b \in BOOLEAN /\ q' = Push(c, Reply(RESP_ACK, r))
      BY <2>4
    <3> HIDE DEF b
    <3>2. Likewise(q, c) /\ c.msgs = q.msgs
      BY <1>1, <3>1, SetPullEffect
    <3> HIDE DEF c
    <3>3. Plain(c)
      BY <1>1, <3>2 DEF Plain, Likewise
    <3> QED
      BY <2>3, <3>1, <3>2, <3>3
  <2>5. CASE q' = PushFront(q, Reply(RESP_ACK, r))
    BY <1>1, <2>3, <2>5
  <2>6. CASE q' = Push(q, Reply(RESP_NACK, r))
    BY <1>1, <2>3, <2>6
  <2>7. CASE q' = q
    BY <2>1, <2>7, OrderStill
  <2> QED
    BY <1>2, <2>4, <2>5, <2>6, <2>7 DEF HandleRequest, r
<1>3. CASE HandleRest
  <2>1. /\ serving \in Request /\ UNCHANGED <<net, client, counters, seen>>
        /\ q'.msgs = q.msgs \/ GainsLast(q.msgs, Reply(RESP_ACK, serving), q'.msgs)
    BY <1>3, HandleRestEffect
  <2>2. Reply(RESP_ACK, serving).type # DATA
    BY <2>1, ReplyIsMessage DEF RESP_ACK, DATA
  <2>3. Ordered(client.ring, toClient, q'.msgs, seen, nextData)
    BY <2>1, <2>2, OrderReplied DEF OrderInv
  <2> QED
    BY <2>1, <2>3 DEF OrderInv, net, counters
<1>4. CASE WriteClient
  <2>1. /\ UNCHANGED <<client, counters, seen>>
        /\ \/ Loses1st(q.msgs, q'.msgs) /\ GainsLast(toClient, q.msgs[1], toClient')
           \/ q'.msgs = q.msgs /\ GainsLast(toClient, SynchMessage(q), toClient')
    BY <1>4, WriteClientEffect
  <2>2. SynchMessage(q).type # DATA
    BY SynchIsMessage DEF SYNCH, DATA
  <2>3. Ordered(client.ring, toClient', q'.msgs, seen, nextData)
    <3>1. CASE Loses1st(q.msgs, q'.msgs) /\ GainsLast(toClient, q.msgs[1], toClient')
      BY <3>1, OrderWritten DEF OrderInv
    <3>2. CASE q'.msgs = q.msgs /\ GainsLast(toClient, SynchMessage(q), toClient')
      BY <2>2, <3>2, OrderSent DEF OrderInv
    <3> QED
      BY <2>1, <3>1, <3>2
  <2> QED
    BY <2>1, <2>3 DEF OrderInv, counters
<1>5. CASE PublishData
  <2>1. nextData' = nextData + 1 /\ UNCHANGED <<net, client, seen>>
    BY <1>5, PublishDataEffect
  <2>2. PICK m \in Message : /\ m.type = DATA /\ m.id = nextData
                             /\ GainsLast(q.msgs, m, q'.msgs) \/ q'.msgs = q.msgs
    BY <1>5, PublishDataEffect
  <2>3. seen \in Nat /\ nextData \in Nat
    BY <1>1 DEF CounterInv
  <2>4. Ordered(client.ring, toClient, q'.msgs, seen, nextData + 1)
    BY <1>1, <2>2, <2>3, OrderPublished DEF OrderInv
  <2> QED
    BY <2>1, <2>4 DEF OrderInv, net
<1> QED
  BY <1>2, <1>3, <1>4, <1>5

LEMMA HangUpOrder ==
  ASSUME BaseInv, OrderInv, NEW p, HangUp(p), UNCHANGED <<counters, seen, upset>>
  PROVE  OrderInv'
<1>1. Disconnect /\ UNCHANGED <<seen, nextData, upset>>
  BY DEF HangUp, counters
<1> QED
  BY <1>1, OrderDisconnect

LEMMA ProgramOrder ==
  ASSUME BaseInv, OrderInv, Program
  PROVE  OrderInv'
<1>1. client \in ClientType
  BY BaseFacts
<1>2. CASE CallDisconnect
  BY <1>2, OrderDisconnect DEF CallDisconnect
<1>3. CASE StartUnsubscribe
  <2> DEFINE no == FALSE
  <2>1. client' = [client EXCEPT !.subscribed = no] /\ no \in BOOLEAN
    BY <1>3 DEF StartUnsubscribe
  <2> HIDE DEF no
  <2>2. client'.ring = client.ring
    BY <1>1, <2>1, SetSubscribed
  <2>3. UNCHANGED <<q, toClient, seen, nextData>>
    BY <1>3 DEF StartUnsubscribe, StartRequest, net, server
  <2> QED
    BY <2>2, <2>3, OrderStill
<1>4. CASE StartConnect \/ StartReadQueued \/ StartReadNonblock
  <2>1. UNCHANGED <<q, toClient, seen, nextData, client>>
    BY <1>4 DEF StartConnect, StartReadQueued, StartReadNonblock, Starting, net, server
  <2> QED
    BY <2>1, OrderStill
<1>5. ASSUME NEW fn, StartPeek(fn) PROVE OrderInv'
  <2>1. UNCHANGED <<q, toClient, seen, nextData, client>>
    BY <1>5 DEF StartPeek, Starting, StartRequest, net, server
  <2> QED
    BY <2>1, OrderStill
<1>6. ASSUME NEW m, StartDatamode(m) PROVE OrderInv'
  <2>1. UNCHANGED <<q, toClient, seen, nextData, client>>
    BY <1>6 DEF StartDatamode, StartRequest, net, server
  <2> QED
    BY <2>1, OrderStill
<1>7. CASE StartSubscribe
  <2>1. UNCHANGED <<q, toClient, seen, nextData, client>>
    BY <1>7 DEF StartSubscribe, StartRequest, net, server
  <2> QED
    BY <2>1, OrderStill
<1> QED
  BY <1>2, <1>3, <1>4, <1>5, <1>6, <1>7 DEF Program

(* The functions that reconnect. *)
LEMMA ReconnectOrder ==
  ASSUME BaseInv, OrderInv,
         \/ RetryAttempt \/ RetryExhausted \/ RetryConnected \/ RetryResubscribed
         \/ ConnectOpens \/ ConnectDone \/ ConnectFails
  PROVE  OrderInv'
<1>1. client \in ClientType
  BY BaseFacts
<1>2. CASE RetryAttempt \/ RetryExhausted \/ RetryConnected
  <2>1. UNCHANGED <<q, toClient, seen, nextData, client>>
    BY <1>2 DEF RetryAttempt, RetryExhausted, RetryConnected, counters, net, server
  <2> QED
    BY <2>1, OrderStill
<1>3. CASE RetryResubscribed
  <2>1. CASE UNCHANGED <<net, server, client>>
    BY <1>3, <2>1, OrderStill DEF RetryResubscribed, net, server, counters
  <2>2. CASE Disconnect
    BY <1>3, <2>2, OrderDisconnect DEF RetryResubscribed, counters
  <2> QED
    BY <1>3, <2>1, <2>2 DEF RetryResubscribed
<1>4. CASE ConnectOpens
  <2>1. toClient' = << >> /\ q' = NewQueue(FALSE, Maxlen)
    BY <1>4 DEF ConnectOpens, ServerForgets
  <2>2. q'.msgs = << >>
    BY <2>1, FreshQueue
  <2>3. UNCHANGED <<client, nextData, seen>>
    BY <1>4 DEF ConnectOpens
  <2> QED
    BY <2>1, <2>2, <2>3, OrderCut
<1>5. CASE ConnectDone
  <2>1. client'.ring = client.ring
    BY <1>5, ConnectDoneEffect
  <2>2. UNCHANGED <<q, toClient, seen, nextData>>
    BY <1>5 DEF ConnectDone, counters, net, server
  <2> QED
    BY <2>1, <2>2, OrderStill
<1>6. CASE ConnectFails
  <2> DEFINE no == FALSE
  <2>1. client' = [client EXCEPT !.connected = no] /\ no \in BOOLEAN
    BY <1>6 DEF ConnectFails
  <2> HIDE DEF no
  <2>2. client'.ring = client.ring
    BY <1>1, <2>1, SetConnected
  <2>3. UNCHANGED <<q, toClient, seen, nextData>>
    BY <1>6 DEF ConnectFails, counters, net, server
  <2> QED
    BY <2>2, <2>3, OrderStill
<1> QED
  BY <1>2, <1>3, <1>4, <1>5, <1>6

LEMMA RequestOrder ==
  ASSUME BaseInv, OrderInv,
         \/ RequestSend \/ RequestPacket \/ RequestBroken \/ RequestReconnected
         \/ RequestLate \/ RequestLost
  PROVE  OrderInv'
<1>1. CASE RequestSend
  <2>1. UNCHANGED <<counters, seen, upset>>
    BY <1>1 DEF RequestSend
  <2>2. CASE HangUp("await")
    BY <2>1, <2>2, HangUpOrder
  <2>3. CASE UNCHANGED <<toClient, server, client>>
    BY <2>1, <2>3, OrderStill DEF server, counters
  <2>4. CASE /\ link = "fin" /\ link' \in {"fin", "reset"} /\ UNCHANGED <<server, client>>
             /\ toClient' = IF link' = "reset" THEN << >> ELSE toClient
    <3>1. Ids(<< >>) = {} /\ Ascending(<< >>)
      BY EmptyList
    <3>2. Ascending(toClient') /\ Ids(toClient') \subseteq Ids(toClient)
      BY <2>4, <3>1 DEF OrderInv, Ordered
    <3>3. Ordered(client.ring, toClient', q.msgs, seen, nextData)
      BY <3>2 DEF OrderInv, Ordered, Before
    <3> QED
      BY <2>1, <2>4, <3>3 DEF OrderInv, counters, server
  <2> QED
    BY <1>1, <2>2, <2>3, <2>4 DEF RequestSend, net
<1>2. CASE RequestPacket
  BY <1>2, OrderRequestPacket
<1>3. CASE RequestBroken
  <2>1. CASE UNCHANGED <<net, server, client>>
    BY <1>3, <2>1, OrderStill DEF RequestBroken, net, server, counters
  <2>2. CASE HangUp("await")
    BY <1>3, <2>2, HangUpOrder DEF RequestBroken
  <2> QED
    BY <1>3, <2>1, <2>2 DEF RequestBroken
<1>4. CASE RequestReconnected \/ RequestLate \/ RequestLost
  <2>1. UNCHANGED <<q, toClient, seen, nextData, client>>
    BY <1>4 DEF RequestReconnected, RequestLate, RequestLost, counters, net, server
  <2> QED
    BY <2>1, OrderStill
<1> QED
  BY <1>1, <1>2, <1>3, <1>4

LEMMA ReadOrder ==
  ASSUME BaseInv, OrderInv,
         \/ DataRequested \/ PeekPoll \/ PeekReconnected
         \/ NonblockQueued \/ NonblockPacket \/ NonblockUnclaimed \/ NonblockNothing
         \/ NonblockEndOfFile \/ NonblockHangUp
         \/ BlockReadable \/ BlockHangUp \/ BlockReconnected
  PROVE  OrderInv'
<1>1. client \in ClientType /\ toClient \in Seq(Message)
  BY BaseFacts DEF FlowType
<1>2. CASE DataRequested
  <2>1. client'.ring = client.ring
    <3>1. CASE ret = 0
      BY <1>2, <3>1, DataRequestedEffect
    <3> QED
      BY <1>2, <3>1 DEF DataRequested
  <2> QED
    BY <1>2, <2>1, OrderStill DEF DataRequested, counters, net, server
<1>3. CASE PeekPoll
  <2>1. CASE UNCHANGED <<net, server, client>>
    BY <1>3, <2>1, OrderStill DEF PeekPoll, net, server, counters
  <2>2. CASE HangUp("peek")
    BY <1>3, <2>2, HangUpOrder DEF PeekPoll
  <2> QED
    BY <1>3, <2>1, <2>2 DEF PeekPoll
<1>4. CASE PeekReconnected \/ NonblockEndOfFile \/ BlockReadable \/ BlockReconnected
  <2>1. UNCHANGED <<q, toClient, seen, nextData, client>>
    BY <1>4 DEF PeekReconnected, NonblockEndOfFile, BlockReadable, BlockReconnected, counters, net,
                server
  <2> QED
    BY <2>1, OrderStill
<1>5. CASE NonblockQueued \/ NonblockPacket
  BY <1>5, OrderProcess
<1>6. CASE NonblockUnclaimed
  <2>1. toClient # << >> /\ toClient' = Tail(toClient) /\ UNCHANGED <<server, client, counters, seen>>
    BY <1>6 DEF NonblockUnclaimed
  <2>2. Loses1st(toClient, toClient')
    BY <1>1, <2>1, TailOf
  <2>3. Ordered(client.ring, toClient', q.msgs, seen, nextData)
    BY <2>2, OrderReceived DEF OrderInv
  <2> QED
    BY <2>1, <2>3 DEF OrderInv, server, counters
<1>7. CASE NonblockNothing
  <2>1. client'.ring = client.ring
    BY <1>7, NothingToReadEffect DEF NonblockNothing
  <2> QED
    BY <1>7, <2>1, OrderStill DEF NonblockNothing, net, server, counters
<1>8. CASE NonblockHangUp \/ BlockHangUp
  BY <1>8, HangUpOrder DEF NonblockHangUp, BlockHangUp
<1> QED
  BY <1>2, <1>3, <1>4, <1>5, <1>6, <1>7, <1>8

LEMMA NextOrder ==
  ASSUME BaseInv, OrderInv, Next
  PROVE  OrderInv'
<1>1. CASE Program
  BY <1>1, ProgramOrder
<1>2. CASE Library
  <2>1. CASE DatamodeDone \/ SubscribeDone \/ UnsubscribeDone
    <3>1. client'.ring = client.ring
      BY <2>1, DatamodeDoneEffect, SubscribeDoneEffect DEF UnsubscribeDone
    <3>2. UNCHANGED <<q, toClient, seen, nextData>>
      BY <2>1 DEF DatamodeDone, SubscribeDone, UnsubscribeDone, counters, net, server
    <3> QED
      BY <3>1, <3>2, OrderStill
  <2> QED
    BY <1>2, <2>1, ReconnectOrder, RequestOrder, ReadOrder DEF Library
<1>3. CASE RequestLate \/ ConnectFails
  BY <1>3, RequestOrder, ReconnectOrder
<1>4. CASE Break
  <2>1. toClient' \in {toClient, << >>} /\ q' = NewQueue(FALSE, Maxlen)
    BY <1>4 DEF Break, ServerLoses, ServerForgets
  <2>2. q'.msgs = << >>
    BY <2>1, FreshQueue
  <2> QED
    BY <1>4, <2>1, <2>2, OrderCut DEF Break
<1>5. CASE HandleRefused
  BY <1>5, OrderStill DEF HandleRefused
<1>6. CASE HandleRequest \/ HandleRest \/ WriteClient \/ PublishData
  BY <1>6, OrderServer
<1> QED
  BY <1>1, <1>2, <1>3, <1>4, <1>5, <1>6 DEF Next

-----------------------------------------------------------------------------
(***************************************************************************)
(* One request at a time; the data mode and the subscription.              *)
(***************************************************************************)

(* A request is in one phase at a time, or in none. *)
LEMMA PhasesApart ==
  /\ NothingAsked => ~Asked /\ ~HalfDone /\ ~Answered
  /\ Asked => ~NothingAsked /\ ~HalfDone /\ ~Answered
  /\ HalfDone => ~NothingAsked /\ ~Asked /\ ~Answered
  /\ Answered => ~NothingAsked /\ ~Asked /\ ~HalfDone
<1>1. \A s, r, d : ~(Unanswered(s) /\ AnsweredIn(s, r, d))
  BY DEF Unanswered, AnsweredIn, Answers
<1>2. toServer = << Top.req >> => toServer # << >>
  OBVIOUS
<1>3. HalfDone => serving # NoReq
  BY DEF HalfDone, NoReq, REQ_DEV, REQ_DATA
<1> QED
  BY <1>1, <1>2, <1>3 DEF NothingAsked, Asked, HalfDone, Answered

LEMMA PhasesApartPrime ==
  /\ NothingAsked' => ~Asked' /\ ~HalfDone' /\ ~Answered'
  /\ Asked' => ~NothingAsked' /\ ~HalfDone' /\ ~Answered'
  /\ HalfDone' => ~NothingAsked' /\ ~Asked' /\ ~Answered'
  /\ Answered' => ~NothingAsked' /\ ~Asked' /\ ~HalfDone'
<1>1. \A s, r, d : ~(Unanswered(s) /\ AnsweredIn(s, r, d))
  BY DEF Unanswered, AnsweredIn, Answers
<1>2. toServer' = << Top.req' >> => toServer' # << >>
  OBVIOUS
<1>3. HalfDone' => serving' # NoReq
  BY DEF HalfDone, NoReq, REQ_DEV, REQ_DATA
<1> QED
  BY <1>1, <1>2, <1>3 DEF NothingAsked, Asked, HalfDone, Answered

LEMMA NotUp ==
  ASSUME link' # "up"
  PROVE  SessionInv' /\ RoundInv'
BY DEF SessionInv, OutstandingInv, ModeInv, SubInv, RoundInv, InTime, Regular, Undisturbed

(* Without a connection, and when it breaks. *)
LEMMA StaysDown ==
  ASSUME BaseInv, RetryAttempt \/ RetryExhausted \/ ConnectFails \/ Break
  PROVE  SessionInv' /\ RoundInv'
<1>1. CASE Break
  BY <1>1, NotUp DEF Break
<1>2. CASE RetryAttempt \/ RetryExhausted \/ ConnectFails
  <2>1. /\ stack # << >> /\ ret = NoRet /\ Top.fn \in {"retry", "connect"} /\ link' = link
    BY <1>2 DEF RetryAttempt, RetryExhausted, ConnectFails, Running, net
  <2>2. link' # "up"
    BY <2>1, BaseFacts DEF LinkInv
  <2> QED
    BY <2>2, NotUp
<1> QED
  BY <1>1, <1>2

LEMMA RegularIsInTime == Regular => InTime
BY DEF Regular, InTime

(* The step does not touch the server, and takes at most one packet. *)
Local ==
  /\ UNCHANGED <<link, toServer, server, upset>>
  /\ toClient' = toClient \/ Loses1st(toClient, toClient')

LEMMA LocalKeeps ==
  ASSUME Local
  PROVE  /\ InTime' <=> InTime
         /\ Regular' <=> Regular
         /\ Undisturbed' <=> Undisturbed
         /\ NothingAsked => NothingAsked'
         /\ client'.mode = client.mode => (ModeAgrees' <=> ModeAgrees)
         /\ client'.subscribed = client.subscribed => (SubAgrees' <=> SubAgrees)
<1>1. /\ InTime' <=> InTime
      /\ Regular' <=> Regular
      /\ Undisturbed' <=> Undisturbed
  BY DEF Local, InTime, Regular, Undisturbed
<1>2. NothingAsked => NothingAsked'
  <2>1. Unanswered(toClient) => Unanswered(toClient')
    BY AnswerInRest DEF Local
  <2> QED
    BY <2>1 DEF Local, NothingAsked, server
<1>3. /\ client'.mode = client.mode => (ModeAgrees' <=> ModeAgrees)
      /\ client'.subscribed = client.subscribed => (SubAgrees' <=> SubAgrees)
  BY DEF Local, server, ModeAgrees, SubAgrees
<1> QED
  BY <1>1, <1>2, <1>3

(* Between calls, or in one, with nothing to be settled. *)
LEMMA AgreesAtRest ==
  ASSUME SessionInv, ~Asking,
         InCall => /\ Top.fn \notin {"connect", "retry"}
                   /\ ret = 0 => Top.fn \notin {"datamode", "subscribe"}
  PROVE  /\ InTime => NothingAsked /\ ModeAgrees
         /\ Regular => SubAgrees
<1>1. ~Awaiting
  BY DEF Awaiting
<1>2. ~ModeUnderWay /\ ~SubUnderWay /\ ~Restoring
  BY <1>1 DEF ModeUnderWay, SubUnderWay, Restoring
<1> QED
  BY <1>1, <1>2 DEF SessionInv, OutstandingInv, ModeInv, SubInv

(* After a step that leaves client and server in agreement. *)
LEMMA Agreed ==
  ASSUME InTime' => NothingAsked' /\ ModeAgrees', Regular' => SubAgrees',
         InCall' => \/ ret' # 0
                    \/ /\ Top'.fn \notin {"connect", "datamode", "subscribe"}
                       /\ Top'.at # "resub"
  PROVE  SessionInv'
<1>1. OutstandingInv'
  BY DEF OutstandingInv
<1>2. InTime' => ModeSettled'
  BY PhasesApartPrime DEF ModeSettled
<1>3. Regular' => SubSettled'
  BY PhasesApartPrime DEF SubSettled, Regular, InTime
<1>4. SubAgrees' => (sub' = "yes" => client'.subscribed)
  BY DEF SubAgrees
<1> QED
  BY <1>1, <1>2, <1>3, <1>4 DEF SessionInv, ModeInv, SubInv

(* In a function that reads. *)
Reads == {"peek", "read", "read_nonblock"}

LEMMA ReadSession ==
  ASSUME SessionInv, stack # << >>, Top.fn \in Reads, Local, ret' = NoRet,
         stack' = << >> \/ Top'.fn = Top.fn,
         client'.mode = client.mode, client'.subscribed = client.subscribed
  PROVE  SessionInv'
<1>1. ~Asking /\ Top.fn \notin {"connect", "retry", "datamode", "subscribe"}
  BY DEF Asking, Reads
<1>2. ~Asking' /\ ~InCall'
  BY <1>1 DEF Asking, InCall, Reads
<1>3. (InTime => NothingAsked /\ ModeAgrees) /\ (Regular => SubAgrees)
  BY <1>1, AgreesAtRest
<1>4. (InTime' => NothingAsked' /\ ModeAgrees') /\ (Regular' => SubAgrees')
  BY <1>3, LocalKeeps
<1> QED
  BY <1>2, <1>4, Agreed

(* Where a step of such a function leads. *)
LEMMA ReadLeads ==
  ASSUME BaseInv, stack # << >>, Top.fn \in Reads,
         \/ \E v : Return(v)
         \/ \E p \in Points : Go(p)
         \/ UNCHANGED <<stack, ret>> /\ ret = NoRet
  PROVE  ret' = NoRet /\ (stack' = << >> \/ (stack' # << >> /\ Top'.fn = Top.fn /\ Depth' = Depth))
<1>1. Typed /\ Depth = 1
  BY BaseFacts, CallAtBottom DEF Reads, Calls
<1>2. ASSUME NEW v, Return(v) PROVE stack' = << >> /\ ret' = NoRet
  BY <1>1, <1>2, ReturnEffect
<1>3. ASSUME NEW p \in Points, Go(p)
      PROVE  stack' # << >> /\ ret' = NoRet /\ Top'.fn = Top.fn /\ Depth' = Depth
  BY <1>1, <1>3, GoEffect DEF At
<1>4. ASSUME UNCHANGED <<stack, ret>> PROVE Top' = Top /\ Depth' = Depth
  BY <1>4 DEF Top, Depth
<1> QED
  BY <1>2, <1>3, <1>4

LEMMA ReadSteps ==
  ASSUME BaseInv, \/ DataRequested \/ PeekPoll \/ PeekReconnected
                  \/ NonblockQueued \/ NonblockPacket \/ NonblockUnclaimed \/ NonblockNothing
                  \/ NonblockEndOfFile \/ NonblockHangUp
                  \/ BlockReadable \/ BlockHangUp \/ BlockReconnected
  PROVE  \/ link' # "up"
         \/ /\ stack # << >> /\ Top.fn \in Reads /\ Depth = 1 /\ Local /\ ret' = NoRet
            /\ stack' = << >> \/ (stack' # << >> /\ Top'.fn = Top.fn /\ Depth' = Depth)
            /\ client'.mode = client.mode /\ client'.subscribed = client.subscribed
<1>1. /\ stack # << >> /\ Top.fn \in Reads
  BY DEF Reads, Running, Returned, DataRequested, PeekPoll, PeekReconnected, NonblockQueued,
         NonblockPacket, NonblockUnclaimed, NonblockNothing, NonblockEndOfFile, NonblockHangUp,
         BlockReadable, BlockHangUp, BlockReconnected
<1>2. client \in ClientType /\ toClient \in Seq(Message) /\ Depth = 1
  BY <1>1, BaseFacts, CallAtBottom DEF FlowType, Reads, Calls
<1>3. "peek" \in Points /\ "nonblock" \in Points /\ "block" \in Points
  BY DEF Points
<1>4. CASE NonblockHangUp \/ BlockHangUp \/ (PeekPoll /\ HangUp("peek"))
  BY <1>4 DEF NonblockHangUp, BlockHangUp, HangUp, Disconnect
<1>5. CASE DataRequested
  <2>1. client'.mode = client.mode /\ client'.subscribed = client.subscribed
    <3>1. CASE ret = 0
      BY <1>5, <3>1, DataRequestedEffect
    <3> QED
      BY <1>5, <3>1 DEF DataRequested
  <2>2. (\E v : Return(v)) \/ (\E p \in Points : Go(p))
    BY <1>3, <1>5 DEF DataRequested
  <2>3. Local
    BY <1>5 DEF DataRequested, Local, net
  <2> QED
    BY <1>1, <1>2, <2>1, <2>2, <2>3, ReadLeads
<1>6. CASE /\ PeekPoll \/ PeekReconnected \/ NonblockEndOfFile \/ BlockReadable \/ BlockReconnected
           /\ ~(PeekPoll /\ HangUp("peek"))
  <2>1. /\ UNCHANGED <<net, server, client, upset>>
        /\ (\E v : Return(v)) \/ (\E p \in Points : Go(p))
    BY <1>3, <1>6 DEF PeekPoll, PeekReconnected, NonblockEndOfFile, BlockReadable,
                      BlockReconnected, Peeked
  <2>2. Local
    BY <2>1 DEF Local, net
  <2> QED
    BY <1>1, <1>2, <2>1, <2>2, ReadLeads
<1>7. CASE NonblockQueued
  <2> DEFINE c == [client EXCEPT !.ring = Tail(client.ring)]
             m == Head(client.ring)
  <2>1. /\ client.ring # << >> /\ UNCHANGED <<net, server, counters, upset>> /\ Process(m, c)
        /\ ret = NoRet
    BY <1>7 DEF NonblockQueued, Running
  <2>2. SameButRing(client, c)
    BY <2>1, RingTaken
  <2> HIDE DEF c, m
  <2>3. /\ client'.mode = c.mode /\ client'.subscribed = c.subscribed
        /\ (\E v : Return(v)) \/ UNCHANGED <<stack, ret>>
    BY <2>1, <2>2, ProcessEffect DEF SameButRing
  <2>4. Local
    BY <2>1 DEF Local, net
  <2> QED
    BY <1>1, <1>2, <2>1, <2>2, <2>3, <2>4, ReadLeads DEF SameButRing
<1>8. CASE NonblockPacket
  <2> DEFINE m == Head(toClient)
  <2>1. /\ toClient # << >> /\ toClient' = Tail(toClient) /\ ret = NoRet
        /\ UNCHANGED <<link, toServer, server, counters, upset>> /\ Process(m, client)
    BY <1>8 DEF NonblockPacket, Running
  <2>2. Loses1st(toClient, toClient')
    BY <1>2, <2>1, TailOf
  <2> HIDE DEF m
  <2>3. /\ client'.mode = client.mode /\ client'.subscribed = client.subscribed
        /\ (\E v : Return(v)) \/ UNCHANGED <<stack, ret>>
    BY <1>2, <2>1, ProcessEffect
  <2>4. Local
    BY <2>1, <2>2 DEF Local
  <2> QED
    BY <1>1, <1>2, <2>1, <2>3, <2>4, ReadLeads
<1>9. CASE NonblockUnclaimed
  <2>1. /\ toClient # << >> /\ toClient' = Tail(toClient) /\ ret = NoRet
        /\ UNCHANGED <<link, toServer, server, client, upset>>
        /\ (\E v : Return(v)) \/ UNCHANGED <<stack, ret>>
    BY <1>9 DEF NonblockUnclaimed, Running
  <2>2. Loses1st(toClient, toClient')
    BY <1>2, <2>1, TailOf
  <2>3. Local
    BY <2>1, <2>2 DEF Local
  <2> QED
    BY <1>1, <1>2, <2>1, <2>3, ReadLeads
<1>10. CASE NonblockNothing
  <2>1. UNCHANGED <<net, server, upset>> /\ NothingToRead
    BY <1>10 DEF NonblockNothing
  <2>2. /\ client'.mode = client.mode /\ client'.subscribed = client.subscribed
        /\ (\E v : Return(v)) \/ (\E p \in Points : Go(p))
    BY <1>3, <2>1, NothingToReadEffect DEF SameButRing
  <2>3. Local
    BY <2>1 DEF Local, net
  <2> QED
    BY <1>1, <1>2, <2>2, <2>3, ReadLeads
<1> QED
  BY <1>4, <1>5, <1>6, <1>7, <1>8, <1>9, <1>10

(* After a step that calls playerc_client_request. *)
LEMMA ToSend ==
  ASSUME Asking', Top'.at = "send",
         InTime' => NothingAsked' /\ (Caller'.fn = "connect" \/ ModeAgrees'),
         Regular' => \/ Restoring' /\ (sub' = "yes" => client'.subscribed)
                     \/ Caller'.fn = "unsubscribe"
                     \/ SubAgrees'
  PROVE  SessionInv'
<1>1. ~Awaiting' /\ ~InCall'
  BY DEF Awaiting, Asking, InCall
<1>2. OutstandingInv'
  BY DEF OutstandingInv
<1>3. ModeSettled' /\ SubSettled'
  BY <1>1 DEF ModeSettled, SubSettled
<1>4. Caller'.fn = "connect" => ModeUnderWay'
  BY DEF ModeUnderWay
<1>5. Caller'.fn = "unsubscribe" => SubUnderWay' /\ ~Restoring'
  BY <1>1 DEF SubUnderWay, Restoring, InCall
<1>6. SubAgrees' => (sub' = "yes" => client'.subscribed)
  BY DEF SubAgrees
<1> QED
  BY <1>2, <1>3, <1>4, <1>5, <1>6 DEF SessionInv, ModeInv, SubInv

(* Nothing but the stack and fields of the client changes. *)
LEMMA StillAsked ==
  ASSUME UNCHANGED <<net, server>>, upset \subseteq upset'
  PROVE  /\ InTime' => InTime
         /\ Regular' => Regular
         /\ NothingAsked => NothingAsked'
         /\ client'.mode = client.mode => (ModeAgrees' <=> ModeAgrees)
         /\ client'.subscribed = client.subscribed => (SubAgrees' <=> SubAgrees)
<1>1. InTime' => InTime
  BY DEF InTime, net
<1>2. Regular' => Regular
  BY DEF Regular, net
<1>3. NothingAsked => NothingAsked'
  BY DEF NothingAsked, net, server
<1> QED
  BY <1>1, <1>2, <1>3 DEF ModeAgrees, SubAgrees, server

LEMMA DoneSession ==
  ASSUME BaseInv, SessionInv, DatamodeDone \/ SubscribeDone \/ UnsubscribeDone
  PROVE  SessionInv'
<1>1. /\ stack # << >> /\ ret # NoRet /\ UNCHANGED <<net, server>> /\ upset' = upset
      /\ Top.fn \in {"datamode", "subscribe", "unsubscribe"} /\ Top.at = "request"
  BY DEF DatamodeDone, SubscribeDone, UnsubscribeDone, Returned
<1>2. InCall /\ ~Asking /\ ~InCall'
  BY <1>1, DoneBase DEF InCall, Asking
<1>3. ~Awaiting /\ ~Restoring
  BY <1>1, <1>2 DEF Awaiting, Restoring
<1>4. InTime => NothingAsked /\ ModeSettled /\ (ModeUnderWay \/ ModeAgrees)
  BY <1>3 DEF SessionInv, OutstandingInv, ModeInv
<1>5. Regular => SubSettled /\ (SubUnderWay \/ SubAgrees)
  BY <1>3 DEF SessionInv, SubInv
<1>6. /\ InTime' => InTime
      /\ Regular' => Regular
      /\ NothingAsked => NothingAsked'
      /\ client'.mode = client.mode => (ModeAgrees' <=> ModeAgrees)
      /\ client'.subscribed = client.subscribed => (SubAgrees' <=> SubAgrees)
  BY <1>1, StillAsked
<1>7. CASE DatamodeDone
  <2>1. /\ client'.mode = (IF ret = 0 THEN Top.req.arg ELSE client.mode)
        /\ client'.subscribed = client.subscribed
    BY <1>7, DatamodeDoneEffect
  <2>2. Top.fn = "datamode"
    BY <1>7 DEF DatamodeDone, Returned
  <2>3. ~SubUnderWay
    BY <1>2, <1>3, <2>2 DEF SubUnderWay
  <2>4. CASE ret = 0
    <3>1. ModeSettled => q.pull = (Top.req.arg = PULL)
      BY <1>2, <2>2, <2>4 DEF ModeSettled
    <3>2. ModeSettled => ModeAgrees'
      BY <1>1, <2>1, <2>4, <3>1 DEF ModeAgrees, server
    <3> QED
      BY <1>2, <1>4, <1>5, <1>6, <2>1, <2>3, <3>2, Agreed
  <2>5. CASE ret # 0
    <3>1. ~ModeUnderWay
      BY <1>2, <1>3, <2>5 DEF ModeUnderWay
    <3> QED
      BY <1>2, <1>4, <1>5, <1>6, <2>1, <2>3, <2>5, <3>1, Agreed
  <2> QED
    BY <2>4, <2>5
<1>8. CASE SubscribeDone
  <2>1. /\ client'.mode = client.mode
        /\ client'.subscribed = (client.subscribed \/ ret = 0)
    BY <1>8, SubscribeDoneEffect
  <2>2. Top.fn = "subscribe" /\ client \in ClientType
    BY <1>8, BaseFacts DEF SubscribeDone, Returned
  <2>3. ~ModeUnderWay
    BY <1>2, <1>3, <2>2 DEF ModeUnderWay
  <2>4. CASE ret = 0
    <3>1. SubSettled => SubAgrees'
      BY <1>1, <1>2, <2>1, <2>2, <2>4 DEF SubSettled, SubAgrees, server
    <3> QED
      BY <1>2, <1>4, <1>5, <1>6, <2>1, <2>3, <3>1, Agreed
  <2>5. CASE ret # 0
    <3>1. ~SubUnderWay
      BY <1>2, <1>3, <2>5 DEF SubUnderWay
    <3>2. client'.subscribed = client.subscribed
      BY <2>1, <2>2, <2>5 DEF ClientType
    <3> QED
      BY <1>2, <1>4, <1>5, <1>6, <2>1, <2>3, <3>1, <3>2, Agreed
  <2> QED
    BY <2>4, <2>5
<1>9. CASE UnsubscribeDone
  <2>1. UNCHANGED client /\ Top.fn = "unsubscribe"
    BY <1>9 DEF UnsubscribeDone, Returned
  <2>2. ~ModeUnderWay /\ ~SubUnderWay
    BY <1>2, <1>3, <2>1 DEF ModeUnderWay, SubUnderWay
  <2> QED
    BY <1>2, <1>4, <1>5, <1>6, <2>1, <2>2, Agreed
<1> QED
  BY <1>7, <1>8, <1>9

(* Between calls. *)
LEMMA BetweenCalls ==
  ASSUME SessionInv, stack = << >>
  PROVE  /\ InTime => NothingAsked /\ ModeAgrees
         /\ Regular => SubAgrees
<1>1. ~Asking /\ ~InCall
  BY DEF Asking, InCall
<1> QED
  BY <1>1, AgreesAtRest

LEMMA StartingSession ==
  ASSUME BaseInv, SessionInv, NEW fn \in Calls, NEW p \in Points, Starting(fn, p)
  PROVE  SessionInv'
<1>1. stack = << >> /\ UNCHANGED <<net, server, client, upset>>
  BY DEF Starting
<1>2. /\ InTime' => NothingAsked' /\ ModeAgrees'
      /\ Regular' => SubAgrees'
  BY <1>1, BetweenCalls, StillAsked
<1>3. ~InCall'
  BY StartingEffect DEF InCall
<1> QED
  BY <1>2, <1>3, Agreed

LEMMA StartRequestSession ==
  ASSUME BaseInv, SessionInv, NEW fn \in Calls, NEW p \in Points,
         NEW a \in {PUSH, PULL, OPEN, CLOSE}, NEW s \in {REQ_DEV, REQ_DATA, REQ_DATAMODE},
         StartRequest(fn, p, s, a), upset \subseteq upset', client'.mode = client.mode,
         fn = "unsubscribe" \/ client'.subscribed = client.subscribed
  PROVE  SessionInv'
<1>1. stack = << >> /\ UNCHANGED <<net, server>>
  BY DEF StartRequest
<1>2. /\ stack' # << >> /\ ret' = NoRet /\ Caller'.fn = fn
      /\ Top'.fn = "request" /\ Top'.at = "send"
  BY StartRequestEffect
<1>3. Asking'
  BY <1>2 DEF Asking
<1>4. /\ InTime' => NothingAsked' /\ ModeAgrees'
      /\ Regular' => Caller'.fn = "unsubscribe" \/ SubAgrees'
  BY <1>1, <1>2, BetweenCalls, StillAsked
<1> QED
  BY <1>2, <1>3, <1>4, ToSend

LEMMA ProgramSession ==
  ASSUME BaseInv, SessionInv, Program
  PROVE  SessionInv'
<1>0. /\ "request" \in Points /\ "requestdata" \in Points /\ "peek" \in Points
      /\ "nonblock" \in Points /\ Calls \subseteq Calls /\ "peek" \in Calls /\ "read" \in Calls
      /\ "read_nonblock" \in Calls /\ "datamode" \in Calls /\ "subscribe" \in Calls
      /\ "unsubscribe" \in Calls /\ Modes \subseteq {PUSH, PULL} /\ client \in ClientType
      /\ "connect" \in Calls /\ "open" \in Points
  BY ConstantsAssumption, BaseFacts DEF Points, Calls
<1>1. CASE StartConnect
  BY <1>0, <1>1, StartingSession DEF StartConnect
<1>2. CASE CallDisconnect
  <2>1. link' = "none"
    BY <1>2 DEF CallDisconnect, Disconnect
  <2> QED
    BY <2>1, NotUp
<1>3. ASSUME NEW fn \in {"peek", "read"}, StartPeek(fn)
      PROVE  SessionInv'
  <2>1. CASE Starting(fn, "peek")
    BY <1>0, <2>1, StartingSession
  <2>2. CASE StartRequest(fn, "requestdata", REQ_DATA, PULL) /\ UNCHANGED <<client, upset>>
    BY <1>0, <2>2, StartRequestSession
  <2> QED
    BY <1>3, <2>1, <2>2 DEF StartPeek
<1>4. CASE StartReadQueued \/ StartReadNonblock
  BY <1>0, <1>4, StartingSession DEF StartReadQueued, StartReadNonblock
<1>5. ASSUME NEW m \in Modes, StartDatamode(m)
      PROVE  SessionInv'
  <2>1. StartRequest("datamode", "request", REQ_DATAMODE, m) /\ UNCHANGED client
    BY <1>5 DEF StartDatamode
  <2>2. upset \subseteq upset'
    BY <1>5 DEF StartDatamode
  <2>3. m \in {PUSH, PULL, OPEN, CLOSE}
    BY <1>0
  <2> QED
    BY <1>0, <2>1, <2>2, <2>3, StartRequestSession
<1>6. CASE StartSubscribe
  <2>1. StartRequest("subscribe", "request", REQ_DEV, OPEN) /\ UNCHANGED <<client, upset>>
    BY <1>6 DEF StartSubscribe
  <2> QED
    BY <1>0, <2>1, StartRequestSession
<1>7. CASE StartUnsubscribe
  <2>1. StartRequest("unsubscribe", "request", REQ_DEV, CLOSE) /\ UNCHANGED upset
    BY <1>7 DEF StartUnsubscribe
  <2> DEFINE no == FALSE
  <2>2. client' = [client EXCEPT !.subscribed = no] /\ no \in BOOLEAN
    BY <1>7 DEF StartUnsubscribe
  <2> HIDE DEF no
  <2>3. client'.mode = client.mode
    BY <1>0, <2>2, SetSubscribed
  <2> QED
    BY <1>0, <2>1, <2>3, StartRequestSession
<1> QED
  BY <1>1, <1>2, <1>3, <1>4, <1>5, <1>6, <1>7 DEF Program

(***************************************************************************)
(* Reconnecting.                                                           *)
(***************************************************************************)
LEMMA RetryConnectedSession ==
  ASSUME BaseInv, SessionInv, RetryConnected
  PROVE  SessionInv'
<1>1. /\ Typed /\ stack # << >> /\ ret # NoRet /\ Top.fn = "retry" /\ Top.at = "connect"
      /\ Top \in Frame /\ CounterInv /\ LinkInv /\ StackInv
      /\ UNCHANGED <<net, server, client, upset>>
  BY BaseFacts DEF RetryConnected, Returned
<1>2. InCall /\ ~Asking /\ ~Awaiting /\ Restoring /\ ~ModeUnderWay
  BY <1>1 DEF InCall, Asking, Awaiting, Restoring, ModeUnderWay
<1>3. /\ InTime => NothingAsked /\ ModeAgrees
      /\ Regular => (sub = "yes" => client.subscribed)
  BY <1>2 DEF SessionInv, OutstandingInv, ModeInv, SubInv
<1>4. /\ InTime' => NothingAsked' /\ ModeAgrees'
      /\ Regular' => (sub' = "yes" => client'.subscribed)
  BY <1>1, <1>3, StillAsked DEF server
<1>5. CASE ret # 0
  <2>1. link' # "up"
    BY <1>1, <1>5 DEF LinkInv, net
  <2> QED
    BY <2>1, NotUp
<1>6. CASE ret = 0 /\ Requesting("resub", REQ_DEV, OPEN)
  <2> DEFINE g == RequestFrame(REQ_DEV, OPEN)
  <2>1. g \in Frame /\ g.fn = "request" /\ g.at = "send"
    BY <1>1, NewRequest DEF CounterInv
  <2>2. Calling("resub", g) /\ "resub" \in Points
    BY <1>6 DEF Requesting, Points
  <2> HIDE DEF g
  <2>3. /\ stack' # << >> /\ ret' = NoRet /\ Top' = g /\ At(Top, "resub", Caller')
    BY <1>1, <2>1, <2>2, CallEffect
  <2>4. Asking' /\ Top'.at = "send" /\ Caller'.fn = "retry"
    BY <1>1, <2>1, <2>3 DEF Asking, At
  <2>5. Restoring'
    BY <2>4 DEF Restoring
  <2> QED
    BY <1>4, <2>4, <2>5, ToSend
<1>7. CASE ret = 0 /\ ~client.subscribed /\ Return(0)
  <2>1. Depth >= 2 /\ Waits(Caller, Top)
    BY <1>1, BottomIsCall DEF Calls
  <2>2. HangsOn(Caller)
    BY <1>1, <2>1 DEF Waits
  <2>3. Top' = Caller
    BY <1>1, <1>7, <2>1, ReturnEffect DEF Depth
  <2>4. Top'.fn \notin {"connect", "datamode", "subscribe"} /\ Top'.at # "resub"
    BY <2>2, <2>3 DEF HangsOn
  <2>5. Regular' => SubAgrees'
    <3>1. client.subscribed \in BOOLEAN /\ client' = client
      BY <1>1, BaseFacts DEF ClientType
    <3> QED
      BY <1>4, <1>7, <3>1 DEF SubAgrees
  <2> QED
    BY <1>4, <2>4, <2>5, Agreed
<1> QED
  BY <1>5, <1>6, <1>7 DEF RetryConnected

LEMMA RetryResubscribedSession ==
  ASSUME BaseInv, SessionInv, RetryResubscribed
  PROVE  SessionInv'
<1>1. /\ Typed /\ stack # << >> /\ ret # NoRet /\ Top.fn = "retry" /\ Top.at = "resub"
      /\ StackInv /\ Suits(Top, client) /\ client \in ClientType
  BY BaseFacts DEF RetryResubscribed, Returned
<1>2. CASE ret # 0
  <2>1. link' = "none"
    BY <1>2 DEF RetryResubscribed, Disconnect
  <2> QED
    BY <2>1, NotUp
<1>3. CASE ret = 0
  <2>0. Return(0) /\ UNCHANGED <<net, server, client, upset>>
    BY <1>3 DEF RetryResubscribed
  <2>1. InCall /\ ~Asking /\ ~Awaiting /\ Restoring /\ ~ModeUnderWay
    BY <1>1 DEF InCall, Asking, Awaiting, Restoring, ModeUnderWay
  <2>2. SubSettled => SubAgrees
    BY <1>1, <1>3, <2>1 DEF SubSettled, SubAgrees, Suits, ClientType
  <2>3. /\ InTime => NothingAsked /\ ModeAgrees
        /\ Regular => SubAgrees
    BY <2>1, <2>2 DEF SessionInv, OutstandingInv, ModeInv, SubInv
  <2>4. /\ InTime' => NothingAsked' /\ ModeAgrees'
        /\ Regular' => SubAgrees'
    BY <2>0, <2>3, StillAsked
  <2>5. Depth >= 2 /\ Waits(Caller, Top)
    BY <1>1, BottomIsCall DEF Calls
  <2>6. HangsOn(Caller)
    BY <1>1, <2>5 DEF Waits
  <2>7. Top' = Caller
    BY <1>1, <2>0, <2>5, ReturnEffect DEF Depth
  <2>8. Top'.fn \notin {"connect", "datamode", "subscribe"} /\ Top'.at # "resub"
    BY <2>6, <2>7 DEF HangsOn
  <2> QED
    BY <2>4, <2>8, Agreed
<1> QED
  BY <1>2, <1>3

LEMMA ConnectOpensSession ==
  ASSUME BaseInv, SessionInv, ConnectOpens
  PROVE  SessionInv'
<1> DEFINE g == RequestFrame(REQ_DATAMODE, PULL)
<1>1. /\ Typed /\ stack # << >> /\ Top.fn = "connect" /\ CounterInv /\ Depth \in Nat /\ Depth >= 1
      /\ client \in ClientType
  BY BaseFacts DEF ConnectOpens, Running
<1>2. g \in Frame /\ g.fn = "request" /\ g.at = "send"
  BY <1>1, NewRequest DEF CounterInv
<1>3. Calling("datamode", g) /\ "datamode" \in Points
  BY DEF ConnectOpens, Requesting, Points
<1> HIDE DEF g
<1>4. /\ stack' # << >> /\ ret' = NoRet /\ Top' = g /\ At(Top, "datamode", Caller')
      /\ Depth' = Depth + 1
  BY <1>1, <1>2, <1>3, CallEffect
<1>5. Asking' /\ Top'.at = "send" /\ Caller'.fn = "connect"
  BY <1>1, <1>2, <1>4 DEF Asking, At
<1>6. NothingAsked'
  <2>1. q'.msgs = << >>
    BY FreshQueue DEF ConnectOpens, ServerForgets
  <2> QED
    BY <2>1, EmptyList DEF NothingAsked, ConnectOpens, ServerForgets
<1>7. sub' # "yes" /\ client' = client
  BY DEF ConnectOpens
<1>8. CASE Depth >= 2
  <2>1. Restoring'
    BY <1>1, <1>4, <1>5, <1>8 DEF Restoring
  <2> QED
    BY <1>5, <1>6, <1>7, <2>1, ToSend
<1>9. CASE Depth = 1
  <2>1. Regular' => nextReq = 1
    BY <1>9 DEF Regular, ConnectOpens, Depth
  <2>2. nextReq = 1 => ~client'.subscribed
    BY <1>1, <1>7 DEF CounterInv
  <2>3. Regular' => SubAgrees'
    BY <1>1, <1>7, <2>1, <2>2 DEF SubAgrees, ClientType
  <2> QED
    BY <1>5, <1>6, <2>3, ToSend
<1> QED
  BY <1>1, <1>8, <1>9

LEMMA ConnectDoneSession ==
  ASSUME BaseInv, SessionInv, ConnectDone
  PROVE  SessionInv'
<1>1. /\ Typed /\ stack # << >> /\ ret # NoRet /\ Top.fn = "connect" /\ Top.at = "datamode"
      /\ StackInv /\ Depth \in Nat /\ Depth >= 1
      /\ UNCHANGED <<net, server, upset>> /\ Return(0)
  BY BaseFacts DEF ConnectDone, Returned
<1>2. /\ client'.mode = (IF ret = 0 THEN PULL ELSE client.mode)
      /\ client'.subscribed = client.subscribed
  BY ConnectDoneEffect
<1>3. InCall /\ ~Asking /\ ~Awaiting /\ ~SubUnderWay
  BY <1>1 DEF InCall, Asking, Awaiting, SubUnderWay
<1>4. /\ InTime => NothingAsked /\ ModeSettled /\ (ModeUnderWay \/ ModeAgrees)
      /\ Regular => /\ Restoring => (sub = "yes" => client.subscribed)
                    /\ ~Restoring => SubAgrees
  BY <1>3 DEF SessionInv, OutstandingInv, ModeInv, SubInv
<1>5. InTime' => NothingAsked' /\ ModeAgrees'
  <2>1. CASE ret = 0
    <3>1. ModeSettled => q.pull = TRUE
      BY <1>1, <1>3, <2>1 DEF ModeSettled
    <3>2. ModeSettled => ModeAgrees'
      BY <1>1, <1>2, <2>1, <3>1 DEF ModeAgrees, server
    <3> QED
      BY <1>1, <1>4, <3>2, StillAsked
  <2>2. CASE ret # 0
    <3>1. ~ModeUnderWay
      BY <1>3, <2>2 DEF ModeUnderWay
    <3> QED
      BY <1>1, <1>2, <1>4, <2>2, <3>1, StillAsked
  <2> QED
    BY <2>1, <2>2
<1>6. Regular' => Regular
  BY <1>1, StillAsked
<1>7. CASE Depth = 1
  <2>1. stack' = << >>
    BY <1>1, <1>7, ReturnEffect
  <2>2. ~InCall' /\ ~Restoring
    BY <1>1, <1>3, <1>7, <2>1 DEF InCall, Restoring
  <2>3. Regular' => SubAgrees'
    BY <1>1, <1>2, <1>4, <1>6, <2>2, StillAsked
  <2> QED
    BY <1>5, <2>2, <2>3, Agreed
<1>8. CASE Depth # 1
  <2>1. Depth >= 2 /\ stack' # << >> /\ ret' = 0 /\ Top' = Caller
    BY <1>1, <1>8, ReturnEffect
  <2>2. Waits(Caller, Top)
    BY <1>1, <2>1, BottomIsCall
  <2>3. Top'.fn = "retry" /\ Top'.at = "connect"
    BY <1>1, <2>1, <2>2 DEF Waits
  <2>4. InCall' /\ ~Asking' /\ ~Awaiting'
    BY <2>1 DEF InCall, Asking, Awaiting, NoRet
  <2>5. Restoring' /\ ModeSettled' /\ SubSettled'
    BY <2>3, <2>4 DEF Restoring, ModeSettled, SubSettled
  <2>6. Restoring
    BY <1>1, <1>3, <2>1 DEF Restoring
  <2>7. Regular' => (sub' = "yes" => client'.subscribed)
    BY <1>1, <1>2, <1>4, <1>6, <2>6 DEF server
  <2>8. OutstandingInv' /\ ModeInv'
    BY <1>5, <2>5 DEF OutstandingInv, ModeInv
  <2>9. SubInv'
    BY <2>5, <2>7 DEF SubInv
  <2> QED
    BY <2>8, <2>9 DEF SessionInv
<1> QED
  BY <1>7, <1>8

(***************************************************************************)
(* playerc_client_request and the server.                                  *)
(***************************************************************************)
LEMMA AskingFacts ==
  ASSUME BaseInv, Asking \/ (stack # << >> /\ Top.fn = "request")
  PROVE  /\ Depth >= 2 /\ Depth \in Nat /\ AsksFor(Caller, Top.req) /\ Top.req.id > 0
         /\ Suits(Caller, client) /\ Top.req \in Request
<1>1. Typed /\ StackInv /\ stack # << >> /\ Top.fn = "request" /\ Depth \in Nat
      /\ Top \in Frame /\ Suits(Top, client)
  BY BaseFacts DEF Asking
<1>2. Depth >= 2 /\ Waits(Caller, Top)
  BY <1>1, BottomIsCall DEF Calls
<1>3. AsksFor(Caller, Top.req)
  BY <1>1, <1>2 DEF Waits
<1>4. Caller = stack[Depth - 1] /\ Depth - 1 \in 1..Depth
  BY <1>1, <1>2 DEF Caller, Depth
<1>5. Suits(Caller, client)
  BY <1>1, <1>4 DEF StackInv
<1>6. Top.req.id > 0
  BY <1>1 DEF Suits
<1>7. Top.req \in Request
  BY <1>1, <1>6 DEF Frame, NoReq
<1> QED
  BY <1>1, <1>2, <1>3, <1>5, <1>6, <1>7

(* Who asks for what. *)
LEMMA Askers ==
  ASSUME NEW f, NEW r, AsksFor(f, r)
  PROVE  /\ f.fn = "connect" => r.subtype = REQ_DATAMODE /\ r.arg = PULL
         /\ f.fn = "datamode" => r.subtype = REQ_DATAMODE /\ r.arg = f.req.arg
         /\ f.fn = "subscribe" => r.subtype = REQ_DEV /\ r.arg = OPEN
         /\ f.fn = "unsubscribe" => r.subtype = REQ_DEV /\ r.arg = CLOSE
         /\ f.fn = "retry" => r.subtype = REQ_DEV /\ r.arg = OPEN /\ f.at = "resub"
         /\ f.at = "resub" => f.fn = "retry"
         /\ r.subtype = REQ_DATAMODE => f.fn \in {"connect", "datamode"}
         /\ r.subtype = REQ_DEV => f.fn \in {"subscribe", "unsubscribe", "retry"}
         /\ r.subtype = REQ_DATA => f.fn \in {"peek", "read"} /\ f.at = "requestdata"
         /\ f.at = "requestdata" => r.subtype = REQ_DATA
BY DEF AsksFor, REQ_DEV, REQ_DATA, REQ_DATAMODE

(* The stack is left alone. *)
LEMMA Unmoved ==
  ASSUME UNCHANGED <<stack, ret>>
  PROVE  /\ Top' = Top /\ Caller' = Caller /\ Depth' = Depth
         /\ Asking' <=> Asking
         /\ Awaiting' <=> Awaiting
         /\ InCall' <=> InCall
         /\ Restoring' <=> Restoring
BY DEF Top, Caller, Depth, Asking, Awaiting, InCall, Restoring

(* The step moves messages only. *)
PhasesStay ==
  /\ NothingAsked => NothingAsked'
  /\ Asked => Asked'
  /\ HalfDone => HalfDone'
  /\ Answered => Answered'

LEMMA SamePhase ==
  ASSUME SessionInv, UNCHANGED <<stack, ret, link, sub>>, upset \subseteq upset',
         q'.pull = q.pull, client'.mode = client.mode, client'.subscribed = client.subscribed,
         PhasesStay
  PROVE  SessionInv' /\ (InTime /\ Awaiting => (Answered' <=> Answered))
<1>1. /\ Top' = Top /\ Caller' = Caller
      /\ Asking' <=> Asking
      /\ Awaiting' <=> Awaiting
      /\ InCall' <=> InCall
      /\ Restoring' <=> Restoring
  BY Unmoved
<1>2. (InTime' => InTime) /\ (Regular' => Regular)
  BY DEF InTime, Regular
<1>3. (ModeAgrees' <=> ModeAgrees) /\ (SubAgrees' <=> SubAgrees)
  BY DEF ModeAgrees, SubAgrees
<1>4. OutstandingInv'
  BY <1>1, <1>2 DEF SessionInv, OutstandingInv, PhasesStay
<1>5. InTime /\ Awaiting => (HalfDone' <=> HalfDone) /\ (Answered' <=> Answered)
  BY PhasesApartPrime DEF SessionInv, OutstandingInv, PhasesStay
<1>6. InTime /\ ModeSettled => ModeSettled'
  BY <1>1, <1>5 DEF ModeSettled
<1>7. ModeUnderWay => ModeUnderWay'
  BY <1>1 DEF ModeUnderWay, PhasesStay
<1>8. ModeInv'
  BY <1>2, <1>3, <1>6, <1>7 DEF SessionInv, ModeInv
<1>9. Regular /\ SubSettled => SubSettled'
  BY <1>1, <1>5, RegularIsInTime DEF SubSettled
<1>10. SubUnderWay => SubUnderWay'
  BY <1>1 DEF SubUnderWay, PhasesStay
<1>11. SubInv'
  BY <1>1, <1>2, <1>3, <1>9, <1>10 DEF SessionInv, SubInv
<1> QED
  BY <1>4, <1>5, <1>8, <1>11 DEF SessionInv

LEMMA RequestSendSession ==
  ASSUME BaseInv, SessionInv, RequestSend
  PROVE  SessionInv'
<1>1. /\ Typed /\ stack # << >> /\ ret = NoRet /\ Top.fn = "request" /\ Top.at = "send"
  BY BaseFacts DEF RequestSend, Running
<1>2. CASE link = "none" \/ link = "fin" \/ link = "reset"
  <2>1. link' # "up"
    BY <1>2 DEF RequestSend, net, HangUp, Disconnect
  <2> QED
    BY <2>1, NotUp
<1>3. CASE link = "up"
  <2>1. /\ toServer' = Append(toServer, Top.req) /\ Go("await")
        /\ UNCHANGED <<link, toClient, server, client, upset>>
    BY <1>3 DEF RequestSend, HangUp
  <2>2. Asking /\ ~Awaiting /\ ~InCall /\ Depth >= 2
    BY <1>1, AskingFacts DEF Asking, Awaiting, InCall
  <2>3. /\ stack' # << >> /\ ret' = NoRet /\ At(Top, "await", Top') /\ Caller' = Caller
        /\ Depth' = Depth
    BY <1>1, <2>1, <2>2, GoEffect DEF Points
  <2>4. Asking' /\ Awaiting' /\ Top'.req = Top.req /\ ~InCall'
    BY <1>1, <2>3 DEF Asking, Awaiting, InCall, At
  <2>5. NothingAsked => Asked'
    <3>1. toServer = << >> => toServer' = <<Top'.req>>
      BY <2>1, <2>4
    <3> QED
      BY <2>1, <3>1 DEF NothingAsked, Asked, server
  <2>6. (InTime' <=> InTime) /\ (Regular' <=> Regular)
    BY <2>1 DEF InTime, Regular
  <2>7. InTime => Asked'
    BY <2>2, <2>5 DEF SessionInv, OutstandingInv
  <2>8. OutstandingInv'
    BY <2>4, <2>6, <2>7 DEF OutstandingInv
  <2>9. Restoring' <=> Restoring
    BY <2>2, <2>3, <2>4 DEF Restoring
  <2>10. (ModeAgrees' <=> ModeAgrees) /\ (SubAgrees' <=> SubAgrees) /\ UNCHANGED <<client, sub>>
    BY <2>1 DEF ModeAgrees, SubAgrees, server
  <2>11. Asked' => ModeSettled' /\ SubSettled'
    BY <2>4, PhasesApartPrime DEF ModeSettled, SubSettled
  <2>12. Asked' => (ModeUnderWay => ModeUnderWay') /\ (SubUnderWay => SubUnderWay')
    BY <2>2, <2>3, <2>4 DEF ModeUnderWay, SubUnderWay
  <2>13. ModeInv'
    BY <2>6, <2>7, <2>10, <2>11, <2>12 DEF SessionInv, ModeInv
  <2>14. SubInv'
    BY <2>6, <2>7, <2>9, <2>10, <2>11, <2>12, RegularIsInTime DEF SessionInv, SubInv
  <2> QED
    BY <2>8, <2>13, <2>14 DEF SessionInv
<1>4. link \in {"none", "up", "fin", "reset"}
  BY BaseFacts DEF FlowType
<1> QED
  BY <1>2, <1>3, <1>4

(* The request returns to a function that knows its answer. *)
LEMMA BackFromRequest ==
  ASSUME BaseInv, SessionInv, Awaiting, NEW v \in {-2, -1, 0}, Return(v),
         UNCHANGED <<link, toServer, server, client, upset>>,
         InTime => /\ NothingAsked'
                   /\ v = 0 => Answered /\ (Top.req.subtype = REQ_DEV => sub # "lacking")
                   /\ v # 0 => \/ NothingAsked
                               \/ Answered /\ Top.req.subtype = REQ_DEV /\ sub = "lacking"
  PROVE  SessionInv'
<1>1. /\ Typed /\ stack # << >> /\ ret = NoRet /\ Top.fn = "request" /\ Top.at = "await"
      /\ client \in ClientType
  BY BaseFacts DEF Awaiting, Asking
<1>2. /\ Depth >= 2 /\ Depth \in Nat /\ AsksFor(Caller, Top.req) /\ Suits(Caller, client)
  BY <1>1, AskingFacts
<1>3. stack' # << >> /\ ret' = v /\ Top' = Caller /\ Depth' = Depth - 1
  BY <1>1, <1>2, ReturnEffect
<1>4. /\ Asking /\ ~InCall /\ Top'.fn # "request"
  BY <1>1, <1>2, <1>3 DEF Awaiting, InCall, AsksFor
<1>5. InCall' /\ ~Asking' /\ ~Awaiting'
  BY <1>3, <1>4 DEF InCall, Asking, Awaiting, NoRet
<1>6. (InTime' <=> InTime) /\ (Regular' <=> Regular) /\ (ModeAgrees' <=> ModeAgrees)
      /\ (SubAgrees' <=> SubAgrees)
  BY DEF InTime, Regular, ModeAgrees, SubAgrees, server
<1>7. OutstandingInv'
  BY <1>6 DEF OutstandingInv
<1>8. Restoring' <=> Restoring
  BY <1>2, <1>3, <1>4, <1>5 DEF Restoring
<1> DEFINE r == Top.req
           f == Caller
<1>9. /\ f.fn = "connect" => r.subtype = REQ_DATAMODE /\ r.arg = PULL
      /\ f.fn = "datamode" => r.subtype = REQ_DATAMODE /\ r.arg = f.req.arg
      /\ f.fn = "subscribe" => r.subtype = REQ_DEV /\ r.arg = OPEN
      /\ f.fn = "unsubscribe" => r.subtype = REQ_DEV /\ r.arg = CLOSE
      /\ f.fn = "retry" => r.subtype = REQ_DEV /\ r.arg = OPEN /\ f.at = "resub"
      /\ f.at = "resub" => f.fn = "retry"
      /\ r.subtype = REQ_DATAMODE => f.fn \in {"connect", "datamode"}
      /\ r.subtype = REQ_DEV => r.subtype # REQ_DATAMODE
  BY <1>2, Askers DEF REQ_DEV, REQ_DATAMODE
<1> HIDE DEF r, f
<1>10. InTime => \/ v = 0 /\ Answered /\ (r.subtype = REQ_DEV => sub # "lacking")
                 \/ v # 0 /\ NothingAsked
                 \/ v # 0 /\ Answered /\ r.subtype = REQ_DEV /\ sub = "lacking"
  BY DEF r
<1>11. /\ Answered /\ r.subtype = REQ_DATAMODE /\ ModeSettled => q.pull = (r.arg = PULL)
       /\ Answered /\ r.subtype = REQ_DEV /\ SubSettled
            => sub \in {IF r.arg = OPEN THEN "yes" ELSE "no", "lacking"}
  BY DEF ModeSettled, SubSettled, r
<1>12. /\ NothingAsked => ~ModeUnderWay /\ ~SubUnderWay
       /\ Answered /\ r.subtype = REQ_DEV => ~ModeUnderWay
       /\ Answered /\ f.fn \notin {"connect", "datamode"} => ~ModeUnderWay
       /\ Answered /\ f.fn # "subscribe" => ~SubUnderWay
  BY <1>1, <1>4, <1>9, PhasesApart DEF ModeUnderWay, SubUnderWay, r, f
<1>13. /\ InCall' /\ ret' = v /\ Top'.fn = f.fn /\ Top'.at = f.at /\ Top'.req = f.req
       /\ q' = q /\ sub' = sub /\ client' = client
  BY <1>3, <1>5 DEF server, f
<1>14. ModeInv'
  <2> SUFFICES ASSUME InTime PROVE ModeSettled' /\ (ModeUnderWay' \/ ModeAgrees')
    BY <1>6 DEF ModeInv
  <2>1. ModeSettled /\ (ModeUnderWay \/ ModeAgrees)
    BY DEF SessionInv, ModeInv
  <2>2. v = 0 /\ f.fn \in {"connect", "datamode"} => ModeUnderWay'
    BY <1>13 DEF ModeUnderWay
  <2>3. ModeUnderWay' \/ ModeAgrees'
    BY <1>6, <1>10, <1>12, <2>1, <2>2
  <2>4. v = 0 /\ f.fn = "connect" => q.pull = TRUE
    BY <1>9, <1>10, <1>11, <2>1
  <2>5. v = 0 /\ f.fn = "datamode" => q.pull = (f.req.arg = PULL)
    BY <1>9, <1>10, <1>11, <2>1
  <2>6. ModeSettled'
    BY <1>5, <1>13, <2>4, <2>5 DEF ModeSettled
  <2> QED
    BY <2>3, <2>6
<1>15. SubInv'
  <2> SUFFICES ASSUME Regular
               PROVE  /\ SubSettled'
                      /\ Restoring' => (sub' = "yes" => client'.subscribed)
                      /\ ~Restoring' /\ ~SubUnderWay' => SubAgrees'
    BY <1>6 DEF SubInv
  <2>0. InTime /\ SubSettled
    BY RegularIsInTime DEF SessionInv, SubInv
  <2>1. v = 0 /\ (f.fn = "subscribe" \/ f.at = "resub") => sub = "yes"
    BY <1>9, <1>10, <1>11, <2>0
  <2>2. SubSettled'
    BY <1>5, <1>13, <2>1 DEF SubSettled
  <2>3. Restoring' => (sub' = "yes" => client'.subscribed)
    BY <1>8, <1>13 DEF SessionInv, SubInv
  <2>4. ASSUME ~Restoring', ~SubUnderWay' PROVE SubAgrees
    <3>1. ~Restoring /\ (SubUnderWay \/ SubAgrees)
      BY <1>8, <2>4 DEF SessionInv, SubInv
    <3>2. CASE f.fn = "subscribe"
      <4>1. v # 0
        BY <1>13, <2>4, <3>2 DEF SubUnderWay
      <4>2. NothingAsked \/ sub = "lacking"
        BY <1>10, <2>0, <4>1
      <4>3. ~client.subscribed
        BY <1>2, <3>2 DEF Suits, f
      <4> QED
        BY <1>1, <1>12, <3>1, <4>2, <4>3 DEF SubAgrees, ClientType
    <3>3. CASE f.fn # "subscribe"
      BY <1>10, <1>12, <2>0, <3>1, <3>3
    <3> QED
      BY <3>2, <3>3
  <2> QED
    BY <1>6, <2>2, <2>3, <2>4
<1> QED
  BY <1>7, <1>14, <1>15 DEF SessionInv

(* A packet that is not the reply is put in the ring. *)
LEMMA QueuedUpPhases ==
  ASSUME BaseInv, RequestPacket, ~IsResponse(toClient[1])
  PROVE  /\ PhasesStay /\ SameButRing(client, client') /\ client'.ring = Pushed(toClient[1])
         /\ Loses1st(toClient, toClient') /\ UNCHANGED <<stack, ret, link, toServer, server>>
         /\ upset \subseteq upset' /\ (Len(client.ring) = RingSize => upset' # {})
         /\ stack # << >> /\ ret = NoRet /\ Top.fn = "request" /\ Top.at = "await"
<1> DEFINE m == toClient[1]
<1>1. /\ stack # << >> /\ ret = NoRet /\ Top.fn = "request" /\ Top.at = "await"
      /\ toClient # << >> /\ toClient' = Tail(toClient) /\ toClient \in Seq(Message)
      /\ UNCHANGED <<link, toServer, server>>
  BY BaseFacts DEF RequestPacket, Running, FlowType
<1>2. Loses1st(toClient, toClient') /\ Head(toClient) = m
  BY <1>1, TailOf
<1>3. m \in Message
  BY <1>2 DEF Loses1st
<1>4. QueuedUp(m)
  BY <1>2 DEF RequestPacket
<1>5. /\ Unanswered(toClient) => Unanswered(toClient')
      /\ \A r, d : AnsweredIn(toClient, r, d) /\ ~IsResponse(m) => AnsweredIn(toClient', r, d)
  BY <1>2, AnswerInRest
<1> HIDE DEF m
<1>6. /\ SameButRing(client, client') /\ client'.ring = Pushed(m) /\ UNCHANGED <<stack, ret>>
      /\ upset \subseteq upset' /\ (Len(client.ring) = RingSize => upset' # {})
  BY <1>3, <1>4, QueuedUpEffect
<1>7. Top' = Top /\ ~IsResponse(m)
  BY <1>6, Unmoved DEF m
<1>8. /\ NothingAsked => NothingAsked'
      /\ Asked => Asked'
      /\ HalfDone => HalfDone'
  BY <1>1, <1>5, <1>7 DEF NothingAsked, Asked, HalfDone, server
<1>9. Answered => Answered'
  BY <1>1, <1>5, <1>7 DEF Answered, server
<1> QED
  BY <1>1, <1>2, <1>6, <1>8, <1>9 DEF PhasesStay, m

(* The reply is taken. *)
ReplyWith(v) ==
  /\ v \in {-2, -1, 0} /\ Return(v)
  /\ InTime => /\ NothingAsked' /\ Answered
               /\ v = 0 /\ Top.req.subtype = REQ_DEV => sub # "lacking"
               /\ v # 0 => Top.req.subtype = REQ_DEV /\ sub = "lacking"

LEMMA ReplyTaken ==
  ASSUME BaseInv, SessionInv, RequestPacket, IsResponse(toClient[1])
  PROVE  /\ Awaiting /\ Loses1st(toClient, toClient')
         /\ UNCHANGED <<link, toServer, server, client, upset>>
         /\ \E v : ReplyWith(v)
<1> DEFINE m == toClient[1]
<1>1. /\ stack # << >> /\ ret = NoRet /\ Top.fn = "request" /\ Top.at = "await"
      /\ toClient # << >> /\ toClient' = Tail(toClient) /\ toClient \in Seq(Message)
      /\ UNCHANGED <<link, toServer, server>>
  BY BaseFacts DEF RequestPacket, Running, FlowType
<1>2. Awaiting
  BY <1>1 DEF Awaiting, Asking
<1>3. Loses1st(toClient, toClient') /\ Head(toClient) = m
  BY <1>1, TailOf
<1>4. Return(ReplyResult(m)) /\ UNCHANGED <<client, upset>>
  BY <1>3 DEF RequestPacket
<1>5. /\ ~Unanswered(toClient) /\ IsResponse(m)
      /\ \A r, d : AnsweredIn(toClient, r, d) => Unanswered(toClient') /\ Answers(m, r, d)
  BY <1>3, AnswerInRest
<1> HIDE DEF m
<1>6. NothingAsked \/ Asked \/ HalfDone => Unanswered(toClient)
  BY DEF NothingAsked, Asked, HalfDone
<1>7. InTime => Answered
  BY <1>5, <1>6 DEF SessionInv, OutstandingInv
<1>8. Answered => /\ toServer = << >> /\ serving = NoReq /\ Unanswered(q.msgs)
                  /\ AnsweredIn(toClient, Top.req, sub)
  BY <1>5 DEF Answered
<1>9. Answered => NothingAsked' /\ Answers(m, Top.req, sub)
  BY <1>1, <1>5, <1>8 DEF NothingAsked, server
<1> DEFINE v == ReplyResult(m)
<1>10. v \in {-2, -1, 0}
  BY DEF ReplyResult
<1>11. Answered => (v = 0 => m.type = RESP_ACK) /\ (v # 0 => m.type = RESP_NACK)
  BY <1>5, <1>9 DEF ReplyResult, Answers, IsResponse, RESP_ACK, RESP_NACK
<1>12. Return(v)
  BY <1>4
<1> HIDE DEF v
<1>13. ReplyWith(v)
  BY <1>7, <1>9, <1>10, <1>11, <1>12 DEF ReplyWith, Answers
<1> QED
  BY <1>1, <1>2, <1>3, <1>4, <1>13

LEMMA RequestPacketSession ==
  ASSUME BaseInv, SessionInv, RequestPacket
  PROVE  SessionInv'
<1>1. CASE IsResponse(toClient[1])
  <2>1. /\ Awaiting /\ UNCHANGED <<link, toServer, server, client, upset>>
        /\ \E v : ReplyWith(v)
    BY <1>1, ReplyTaken
  <2>2. PICK v : ReplyWith(v)
    BY <2>1
  <2> QED
    BY <2>1, <2>2, BackFromRequest DEF ReplyWith
<1>2. CASE ~IsResponse(toClient[1])
  <2>1. /\ PhasesStay /\ SameButRing(client, client') /\ UNCHANGED <<stack, ret, link, server>>
        /\ upset \subseteq upset'
    BY <1>2, QueuedUpPhases
  <2> QED
    BY <2>1, SamePhase DEF SameButRing, server
<1> QED
  BY <1>1, <1>2

LEMMA RequestLostSession ==
  ASSUME BaseInv, SessionInv, RequestLost
  PROVE  SessionInv'
<1>1. /\ stack # << >> /\ ret = NoRet /\ Top.fn = "request" /\ Top.at = "await"
      /\ ~Coming /\ Return(-1) /\ UNCHANGED <<net, server, client, upset>>
  BY DEF RequestLost, Running
<1>2. Awaiting
  BY <1>1 DEF Awaiting, Asking
<1>3. ~Asked
  <2>1. toServer = <<Top.req>> => 1 \in DOMAIN toServer /\ toServer[1].id = Top.req.id
    OBVIOUS
  <2> QED
    BY <1>1, <2>1 DEF Asked, Coming
<1>4. ~HalfDone
  BY <1>1 DEF HalfDone, Coming
<1>5. ~Answered
  BY <1>1 DEF Answered, AnsweredIn, Answers, Coming
<1>6. InTime => NothingAsked
  BY <1>3, <1>4, <1>5 DEF SessionInv, OutstandingInv
<1>7. InTime => NothingAsked'
  BY <1>1, <1>6, StillAsked
<1> DEFINE v == -1
<1>8. v \in {-2, -1, 0} /\ v # 0 /\ Return(v)
  BY <1>1
<1>9. UNCHANGED <<link, toServer, server, client, upset>>
  BY <1>1 DEF net
<1> HIDE DEF v
<1> QED
  BY <1>2, <1>6, <1>7, <1>8, <1>9, BackFromRequest

LEMMA RequestGivenUpSession ==
  ASSUME BaseInv, SessionInv, RequestBroken \/ RequestReconnected \/ RequestLate
  PROVE  SessionInv'
<1>1. CASE RequestBroken
  <2>1. link' # "up"
    BY <1>1 DEF RequestBroken, HangUp, Disconnect, net
  <2> QED
    BY <2>1, NotUp
<1>2. CASE RequestLate
  <2>1. ~InTime' /\ ~Regular'
    BY <1>2 DEF RequestLate, InTime, Regular
  <2> QED
    BY <2>1 DEF SessionInv, OutstandingInv, ModeInv, SubInv
<1>3. CASE RequestReconnected
  <2>1. /\ Typed /\ stack # << >> /\ ret # NoRet /\ Top.fn = "request" /\ Top.at = "await"
        /\ UNCHANGED <<net, server, client, upset>> /\ LinkInv /\ StackInv
    BY <1>3, BaseFacts DEF RequestReconnected, Returned
  <2>2. CASE ret < 0
    <3>1. link = "none"
      BY <2>1, <2>2 DEF LinkInv, HangsOn
    <3>2. link' # "up"
      BY <2>1, <3>1 DEF net
    <3> QED
      BY <3>2, NotUp
  <2>3. CASE ~(ret < 0)
    <3>1. Go("await") /\ "await" \in Points
      BY <1>3, <2>3 DEF RequestReconnected, Points
    <3>2. ret' = NoRet
      BY <2>1, <3>1, GoEffect
    <3>3. ~InCall' /\ ~Asking /\ InCall
      BY <2>1, <3>2 DEF InCall, Asking
    <3>4. /\ InTime => NothingAsked /\ ModeAgrees
          /\ Regular => SubAgrees
      BY <2>1, <3>3, AgreesAtRest
    <3>5. /\ InTime' => NothingAsked' /\ ModeAgrees'
          /\ Regular' => SubAgrees'
      BY <2>1, <3>4, StillAsked
    <3> QED
      BY <3>3, <3>5, Agreed
  <2> QED
    BY <2>2, <2>3
<1> QED
  BY <1>1, <1>2, <1>3

LEMMA WriteClientPhases ==
  ASSUME BaseInv, WriteClient
  PROVE  PhasesStay
<1>1. /\ link = "up" /\ serving = NoReq /\ q'.pull = q.pull
      /\ UNCHANGED <<link, toServer, sub, serving, client, stack, ret, upset>>
      /\ \/ Loses1st(q.msgs, q'.msgs) /\ GainsLast(toClient, q.msgs[1], toClient')
         \/ q'.msgs = q.msgs /\ GainsLast(toClient, SynchMessage(q), toClient')
  BY WriteClientEffect
<1>2. Top' = Top
  BY <1>1, Unmoved
<1> DEFINE s == q.msgs
           t == q'.msgs
           a == toClient
           b == toClient'
<1>3. CASE Loses1st(s, t) /\ GainsLast(a, s[1], b)
  <2>1. /\ Unanswered(s) => Unanswered(t) /\ ~IsResponse(s[1])
        /\ \A r, d : AnsweredIn(s, r, d) /\ IsResponse(s[1]) => Unanswered(t) /\ Answers(s[1], r, d)
        /\ \A r, d : AnsweredIn(s, r, d) /\ ~IsResponse(s[1]) => AnsweredIn(t, r, d)
    BY <1>3, AnswerInRest
  <2>2. /\ Unanswered(a) /\ ~IsResponse(s[1]) => Unanswered(b)
        /\ \A r, d : Unanswered(a) /\ Answers(s[1], r, d) => AnsweredIn(b, r, d)
        /\ \A r, d : AnsweredIn(a, r, d) /\ ~IsResponse(s[1]) => AnsweredIn(b, r, d)
    BY <1>3, AnswerInMore
  <2>3. /\ NothingAsked => NothingAsked'
        /\ Asked => Asked'
    BY <1>1, <1>2, <2>1, <2>2 DEF NothingAsked, Asked
  <2>4. ~HalfDone
    BY <1>1 DEF HalfDone, NoReq, REQ_DEV, REQ_DATA
  <2>5. Answered => Answered'
    BY <1>1, <1>2, <2>1, <2>2 DEF Answered
  <2> QED
    BY <2>3, <2>4, <2>5 DEF PhasesStay
<1>4. CASE t = s /\ GainsLast(a, SynchMessage(q), b)
  <2> DEFINE m == SynchMessage(q)
  <2>1. ~IsResponse(m)
    BY SynchIsMessage
  <2>2. /\ Unanswered(a) /\ ~IsResponse(m) => Unanswered(b)
        /\ \A r, d : AnsweredIn(a, r, d) /\ ~IsResponse(m) => AnsweredIn(b, r, d)
    BY <1>4, AnswerInMore
  <2> HIDE DEF m
  <2>3. /\ NothingAsked => NothingAsked'
        /\ Asked => Asked'
        /\ HalfDone => HalfDone'
        /\ Answered => Answered'
    BY <1>1, <1>2, <1>4, <2>1, <2>2 DEF NothingAsked, Asked, HalfDone, Answered
  <2> QED
    BY <2>3 DEF PhasesStay
<1> QED
  BY <1>1, <1>3, <1>4

LEMMA PublishDataPhases ==
  ASSUME BaseInv, PublishData
  PROVE  PhasesStay
<1>1. /\ SameRound(q, q')
      /\ UNCHANGED <<net, sub, serving, client, stack, ret, upset>>
      /\ \E m \in Message : m.type = DATA /\ (GainsLast(q.msgs, m, q'.msgs) \/ q'.msgs = q.msgs)
  BY PublishDataEffect
<1>2. Top' = Top /\ UNCHANGED <<link, toServer, toClient>> /\ q'.pull = q.pull
  BY <1>1, Unmoved DEF net, SameRound
<1>3. PICK m \in Message : m.type = DATA /\ (GainsLast(q.msgs, m, q'.msgs) \/ q'.msgs = q.msgs)
  BY <1>1
<1>4. ~IsResponse(m)
  BY <1>3 DEF IsResponse, DATA, RESP_ACK, RESP_NACK
<1> DEFINE s == q.msgs
           t == q'.msgs
<1>5. /\ Unanswered(s) => Unanswered(t)
      /\ \A r, d : AnsweredIn(s, r, d) => AnsweredIn(t, r, d)
  <2>1. CASE GainsLast(s, m, t)
    BY <1>4, <2>1, AnswerInMore
  <2> QED
    BY <1>3, <2>1
<1>6. /\ NothingAsked => NothingAsked'
      /\ Asked => Asked'
      /\ HalfDone => HalfDone'
      /\ Answered => Answered'
  BY <1>1, <1>2, <1>5 DEF NothingAsked, Asked, HalfDone, Answered
<1> QED
  BY <1>6 DEF PhasesStay

LEMMA MovesSession ==
  ASSUME BaseInv, SessionInv, WriteClient \/ PublishData
  PROVE  SessionInv' /\ (InTime /\ Awaiting => (Answered' <=> Answered))
<1>1. PhasesStay
  BY WriteClientPhases, PublishDataPhases
<1>2. UNCHANGED <<stack, ret, link, sub, upset, client>> /\ q'.pull = q.pull
  BY WriteClientEffect, PublishDataEffect DEF net, SameRound
<1> QED
  BY <1>1, <1>2, SamePhase

LEMMA HandleRestSession ==
  ASSUME BaseInv, SessionInv, HandleRest
  PROVE  SessionInv'
<1>1. /\ q'.pull = q.pull /\ link = "up" /\ serving \in Request
      /\ serving' = NoReq /\ UNCHANGED <<net, sub, client, stack, ret, upset>>
      /\ \/ serving.subtype = REQ_DATA /\ q'.msgs = q.msgs
         \/ /\ serving.subtype # REQ_DATA
            /\ GainsLast(q.msgs, Reply(RESP_ACK, serving), q'.msgs)
  BY HandleRestEffect
<1>2. Top' = Top /\ Caller' = Caller /\ UNCHANGED <<link, toServer, toClient>>
      /\ (Awaiting' <=> Awaiting) /\ (Asking' <=> Asking) /\ (InCall' <=> InCall)
      /\ (Restoring' <=> Restoring)
  BY <1>1, Unmoved DEF net
<1>3. serving # NoReq
  BY <1>1 DEF Request, NoReq, REQ_DEV, REQ_DATA, REQ_DATAMODE
<1>4. InTime => Awaiting /\ HalfDone
  BY <1>3 DEF SessionInv, OutstandingInv, NothingAsked, Asked, Answered
<1>5. HalfDone => Answered'
  <2>1. CASE Top.req.subtype = REQ_DATA /\ AnsweredIn(q.msgs, Top.req, sub) /\ HalfDone
    <3>1. q'.msgs = q.msgs
      BY <1>1, <2>1 DEF HalfDone
    <3> QED
      BY <1>1, <1>2, <2>1, <3>1 DEF HalfDone, Answered
  <2>2. CASE /\ Top.req.subtype = REQ_DEV /\ sub # "lacking" /\ Unanswered(q.msgs) /\ HalfDone
    <3> DEFINE m == Reply(RESP_ACK, serving)
    <3>1. /\ m.type = RESP_ACK /\ m.subtype = serving.subtype /\ m.id = serving.id /\ IsResponse(m)
      BY <1>1, ReplyIsMessage
    <3>2. GainsLast(q.msgs, m, q'.msgs)
      BY <1>1, <2>2 DEF HalfDone, REQ_DEV, REQ_DATA
    <3> HIDE DEF m
    <3>3. Answers(m, Top.req, sub)
      BY <2>2, <3>1 DEF Answers, HalfDone, RESP_ACK, RESP_NACK
    <3>4. AnsweredIn(q'.msgs, Top.req, sub)
      BY <2>2, <3>2, <3>3, AnswerInMore
    <3> QED
      BY <1>1, <1>2, <2>2, <3>4 DEF HalfDone, Answered
  <2> QED
    BY <2>1, <2>2 DEF HalfDone
<1>6. /\ InTime' <=> InTime
      /\ Regular' <=> Regular
      /\ ModeAgrees' <=> ModeAgrees
      /\ SubAgrees' <=> SubAgrees
  BY <1>1, <1>2 DEF InTime, Regular, ModeAgrees, SubAgrees
<1>7. OutstandingInv'
  BY <1>2, <1>4, <1>5, <1>6 DEF OutstandingInv
<1>8. HalfDone => Top.req.subtype # REQ_DATAMODE
  BY DEF HalfDone, REQ_DATAMODE, REQ_DEV, REQ_DATA
<1>9. ASSUME Awaiting, HalfDone
      PROVE  ~ModeUnderWay /\ ModeSettled' /\ (SubSettled => SubSettled')
             /\ (SubUnderWay => SubUnderWay')
  <2>1. ~InCall /\ Top.at = "await" /\ ~Asked /\ ~Answered
    BY <1>9, PhasesApart DEF Awaiting, Asking, InCall
  <2> QED
    BY <1>1, <1>2, <1>5, <1>8, <1>9, <2>1 DEF ModeUnderWay, ModeSettled, SubSettled, SubUnderWay
<1>10. ModeInv'
  BY <1>4, <1>6, <1>9 DEF SessionInv, ModeInv
<1>11. SubInv'
  BY <1>1, <1>2, <1>4, <1>6, <1>9, RegularIsInTime DEF SessionInv, SubInv
<1> QED
  BY <1>7, <1>10, <1>11 DEF SessionInv

(* What the server reads is the request the client waits for. *)
LEMMA ReadsRequest ==
  ASSUME SessionInv, InTime, toServer # << >>
  PROVE  /\ Awaiting /\ Asked /\ ~HalfDone /\ ~Answered /\ Head(toServer) = Top.req
         /\ Tail(toServer) = << >> /\ Top.at = "await" /\ ~InCall
<1>1. Awaiting /\ Asked
  BY DEF SessionInv, OutstandingInv, NothingAsked, HalfDone, Answered
<1>2. Head(toServer) = Top.req /\ Tail(toServer) = << >>
  BY <1>1 DEF Asked
<1>3. Top.at = "await" /\ ~InCall
  BY <1>1 DEF Awaiting, Asking, InCall
<1> QED
  BY <1>1, <1>2, <1>3, PhasesApart

LEMMA HandleRequestSession ==
  ASSUME BaseInv, SessionInv, HandleRequest
  PROVE  SessionInv'
<1> SUFFICES ASSUME InTime PROVE SessionInv'
  <2>1. UNCHANGED <<link, upset>>
    BY DEF HandleRequest
  <2>2. ~InTime => ~InTime' /\ ~Regular'
    BY <2>1 DEF InTime, Regular
  <2> QED
    BY <2>2 DEF SessionInv, OutstandingInv, ModeInv, SubInv
<1> DEFINE r == Top.req
           f == Caller
<1>1. /\ toServer # << >> /\ toServer' = Tail(toServer)
      /\ UNCHANGED <<link, toClient, client, stack, ret, upset>> /\ serving = NoReq
  BY DEF HandleRequest, ServerIdle
<1>2. /\ Awaiting /\ Asked /\ ~HalfDone /\ ~Answered /\ Head(toServer) = r
      /\ Tail(toServer) = << >> /\ Top.at = "await" /\ ~InCall /\ Asking
  BY <1>1, ReadsRequest DEF Awaiting
<1>3. /\ AsksFor(f, r) /\ Suits(f, client) /\ r \in Request /\ Plain(q) /\ client \in ClientType
  BY <1>2, AskingFacts, BaseFacts
<1>4. /\ f.fn = "connect" => r.subtype = REQ_DATAMODE
      /\ f.fn = "subscribe" => r.subtype = REQ_DEV /\ r.arg = OPEN
      /\ f.fn = "unsubscribe" => r.subtype = REQ_DEV /\ r.arg = CLOSE
      /\ f.fn = "retry" => f.at = "resub"
      /\ r.subtype = REQ_DEV => f.fn \in {"subscribe", "unsubscribe", "retry"}
      /\ OPEN # CLOSE
  BY <1>3, Askers DEF OPEN, CLOSE
<1>5. /\ Top'.req = r /\ Caller' = f /\ Awaiting' /\ Asking' /\ ~InCall' /\ Top'.at = "await"
      /\ Restoring' <=> Restoring
  BY <1>1, <1>2, Unmoved
<1>6. f.fn = "retry" => Restoring
  BY <1>2 DEF Restoring
<1>7. /\ InTime' /\ (Regular' <=> Regular)
  BY <1>1 DEF InTime, Regular
<1>8. /\ ModeSettled /\ (ModeUnderWay \/ ModeAgrees)
      /\ Regular => /\ Restoring => (sub = "yes" => client.subscribed)
                    /\ ~Restoring /\ ~SubUnderWay => SubAgrees
  BY DEF SessionInv, ModeInv, SubInv
<1>9. /\ r.subtype # REQ_DATAMODE => ModeAgrees
      /\ f.fn # "unsubscribe" => ~SubUnderWay
  BY <1>2, <1>4, <1>8 DEF ModeUnderWay, SubUnderWay
<1>10. Unanswered(q.msgs) /\ Unanswered(toClient)
  BY <1>2 DEF Asked
<1> HIDE DEF r, f
<1>11. CASE r.subtype = REQ_DATAMODE
  <2> DEFINE b == (r.arg = PULL)
             c == SetPull(q, b)
             m == Reply(RESP_ACK, r)
  <2>1. q' = Push(c, m) /\ UNCHANGED <<sub, serving>>
    BY <1>2, <1>11 DEF HandleRequest, REQ_DATAMODE, REQ_DATA, REQ_DEV
  <2>2. b \in BOOLEAN
    OBVIOUS
  <2>3. /\ m \in Message /\ m.type = RESP_ACK /\ m.subtype = r.subtype /\ m.id = r.id
        /\ IsResponse(m) /\ ~IsDataOrCmd(m)
    BY <1>3, ReplyIsMessage
  <2> HIDE DEF b, m
  <2>4. Likewise(q, c) /\ c.msgs = q.msgs /\ c.pull = b
    BY <1>3, <2>2, SetPullEffect DEF Plain
  <2>5. Plain(c)
    BY <1>3, <2>4 DEF Plain, Likewise
  <2> HIDE DEF c
  <2>6. SameRound(c, q') /\ GainsLast(c.msgs, m, q'.msgs)
    BY <2>1, <2>3, <2>5, PushEffect
  <2>7. Answers(m, r, sub)
    BY <1>11, <2>3 DEF Answers, RESP_ACK, RESP_NACK, REQ_DATAMODE, REQ_DEV
  <2>8. AnsweredIn(q'.msgs, r, sub)
    BY <1>10, <2>4, <2>6, <2>7, AnswerInMore
  <2>9. Answered'
    BY <1>1, <1>2, <1>5, <1>10, <2>1, <2>8 DEF Answered
  <2>10. OutstandingInv'
    BY <1>5, <2>9 DEF OutstandingInv
  <2>11. q'.pull = (r.arg = PULL)
    BY <2>4, <2>6 DEF SameRound, b
  <2>12. ModeInv'
    BY <1>5, <1>11, <2>9, <2>11 DEF ModeInv, ModeSettled, ModeUnderWay
  <2>13. SubSettled'
    BY <1>5, <1>11 DEF SubSettled, REQ_DATAMODE, REQ_DEV
  <2>14. ~SubUnderWay
    BY <1>4, <1>9, <1>11 DEF REQ_DATAMODE, REQ_DEV
  <2>15. SubAgrees' <=> SubAgrees
    BY <1>1, <2>1 DEF SubAgrees
  <2>16. SubInv'
    BY <1>1, <1>5, <1>7, <1>8, <2>1, <2>13, <2>14, <2>15 DEF SubInv
  <2> QED
    BY <2>10, <2>12, <2>16 DEF SessionInv
<1>12. CASE r.subtype = REQ_DATA
  <2> DEFINE m == Reply(RESP_ACK, r)
  <2>1. q' = PushFront(q, m) /\ serving' = r /\ UNCHANGED sub
    BY <1>2, <1>12 DEF HandleRequest, REQ_DATAMODE, REQ_DATA, REQ_DEV
  <2>2. /\ m \in Message /\ m.type = RESP_ACK /\ m.subtype = r.subtype /\ m.id = r.id
        /\ IsResponse(m)
    BY <1>3, ReplyIsMessage
  <2> HIDE DEF m
  <2>3. SameRound(q, q') /\ Gains1st(m, q.msgs, q'.msgs)
    BY <1>3, <2>1, <2>2, PushFrontEffect DEF Plain
  <2>4. Answers(m, r, sub)
    BY <1>12, <2>2 DEF Answers, RESP_ACK, RESP_NACK, REQ_DATA, REQ_DEV
  <2>5. AnsweredIn(q'.msgs, r, sub)
    BY <1>10, <2>3, <2>4, AnswerInFront
  <2>6. HalfDone'
    BY <1>1, <1>2, <1>5, <1>10, <1>12, <2>1, <2>5 DEF HalfDone
  <2>7. OutstandingInv'
    BY <1>5, <2>6 DEF OutstandingInv
  <2>8. ModeAgrees'
    BY <1>1, <1>9, <1>12, <2>3 DEF ModeAgrees, SameRound, REQ_DATA, REQ_DATAMODE
  <2>9. ModeSettled' /\ SubSettled'
    BY <1>5, <1>12 DEF ModeSettled, SubSettled, REQ_DATA, REQ_DATAMODE, REQ_DEV
  <2>10. ~SubUnderWay
    BY <1>4, <1>9, <1>12 DEF REQ_DATA, REQ_DEV
  <2>11. SubAgrees' <=> SubAgrees
    BY <1>1, <2>1 DEF SubAgrees
  <2>12. ModeInv' /\ SubInv'
    BY <1>1, <1>5, <1>7, <1>8, <2>1, <2>8, <2>9, <2>10, <2>11 DEF SubInv, ModeInv
  <2> QED
    BY <2>7, <2>12 DEF SessionInv
<1>13. CASE r.subtype = REQ_DEV /\ sub = "lacking"
  <2> DEFINE m == Reply(RESP_NACK, r)
  <2>1. q' = Push(q, m) /\ UNCHANGED <<sub, serving>>
    BY <1>2, <1>13 DEF HandleRequest, REQ_DATAMODE, REQ_DATA, REQ_DEV
  <2>2. /\ m \in Message /\ m.type = RESP_NACK /\ m.subtype = r.subtype /\ m.id = r.id
        /\ IsResponse(m) /\ ~IsDataOrCmd(m)
    BY <1>3, ReplyIsMessage
  <2> HIDE DEF m
  <2>3. SameRound(q, q') /\ GainsLast(q.msgs, m, q'.msgs)
    BY <1>3, <2>1, <2>2, PushEffect
  <2>4. Answers(m, r, sub)
    BY <1>13, <2>2 DEF Answers, RESP_ACK, RESP_NACK
  <2>5. AnsweredIn(q'.msgs, r, sub)
    BY <1>10, <2>3, <2>4, AnswerInMore
  <2>6. Answered'
    BY <1>1, <1>2, <1>5, <1>10, <2>1, <2>5 DEF Answered
  <2>7. OutstandingInv'
    BY <1>5, <2>6 DEF OutstandingInv
  <2>8. ModeAgrees'
    BY <1>1, <1>9, <1>13, <2>3 DEF ModeAgrees, SameRound, REQ_DEV, REQ_DATAMODE
  <2>9. ModeSettled' /\ SubSettled'
    BY <1>5, <1>13, <2>1 DEF ModeSettled, SubSettled, REQ_DATAMODE, REQ_DEV
  <2>10. f.fn = "subscribe" => SubUnderWay'
    BY <1>5, <2>6 DEF SubUnderWay
  <2>11. f.fn = "unsubscribe" => SubAgrees'
    BY <1>1, <1>3, <1>13, <2>1 DEF Suits, SubAgrees, ClientType
  <2>12. ModeInv'
    BY <2>8, <2>9 DEF ModeInv
  <2>13. SubInv'
    BY <1>1, <1>4, <1>5, <1>6, <1>7, <1>8, <1>13, <2>1, <2>9, <2>10, <2>11 DEF SubInv
  <2> QED
    BY <2>7, <2>12, <2>13 DEF SessionInv
<1>14. CASE r.subtype = REQ_DEV /\ sub # "lacking"
  <2>1. sub' = (IF r.arg = OPEN THEN "yes" ELSE "no") /\ serving' = r /\ UNCHANGED q
    BY <1>2, <1>14 DEF HandleRequest, REQ_DATAMODE, REQ_DATA, REQ_DEV
  <2>2. HalfDone'
    BY <1>1, <1>2, <1>5, <1>10, <1>14, <2>1 DEF HalfDone
  <2>3. OutstandingInv'
    BY <1>5, <2>2 DEF OutstandingInv
  <2>4. ModeAgrees'
    BY <1>1, <1>9, <1>14, <2>1 DEF ModeAgrees, REQ_DEV, REQ_DATAMODE
  <2>5. ModeSettled' /\ SubSettled'
    BY <1>5, <1>14, <2>1 DEF ModeSettled, SubSettled, REQ_DATAMODE, REQ_DEV
  <2>6. f.fn = "subscribe" => SubUnderWay' /\ ~Restoring
    BY <1>2, <1>5, <2>2 DEF SubUnderWay, Restoring, f
  <2>7. f.fn = "unsubscribe" => SubAgrees' /\ ~Restoring
    BY <1>1, <1>2, <1>3, <1>4, <2>1 DEF Suits, SubAgrees, ClientType, Restoring, f
  <2>8. f.fn = "retry" => Restoring /\ client'.subscribed
    BY <1>1, <1>3, <1>4, <1>6 DEF Suits
  <2>9. ModeInv'
    BY <2>4, <2>5 DEF ModeInv
  <2>10. SubInv'
    BY <1>4, <1>5, <1>14, <2>5, <2>6, <2>7, <2>8 DEF SubInv
  <2> QED
    BY <2>3, <2>9, <2>10 DEF SessionInv
<1> QED
  BY <1>3, <1>11, <1>12, <1>13, <1>14 DEF Request

LEMMA HandleRefusedSession ==
  ASSUME BaseInv, SessionInv, HandleRefused
  PROVE  SessionInv'
<1>1. /\ toServer # << >> /\ toServer' = Tail(toServer) /\ serving' = Head(toServer)
      /\ Head(toServer).subtype = REQ_DEV /\ sub # "lacking"
      /\ upset' = upset \cup {"refused"}
      /\ UNCHANGED <<link, toClient, q, sub, client, stack, ret>>
  BY DEF HandleRefused
<1>2. ~Regular' /\ (InTime' => InTime)
  BY <1>1 DEF Regular, InTime
<1>3. SubInv'
  BY <1>2 DEF SubInv
<1>4. ASSUME InTime PROVE OutstandingInv' /\ ModeInv'
  <2>1. /\ Awaiting /\ Asked /\ ~HalfDone /\ ~Answered /\ Head(toServer) = Top.req
        /\ Tail(toServer) = << >> /\ Top.at = "await" /\ ~InCall
    BY <1>1, <1>4, ReadsRequest
  <2>2. Awaiting' /\ Top' = Top /\ ~InCall'
    BY <1>1, <2>1, Unmoved
  <2>3. HalfDone'
    BY <1>1, <2>1, <2>2 DEF HalfDone, Asked
  <2>4. AsksFor(Caller, Top.req)
    BY <2>1, AskingFacts DEF Awaiting
  <2>5. Caller.fn # "connect"
    BY <1>1, <2>1, <2>4, Askers DEF REQ_DEV, REQ_DATAMODE
  <2>6. ModeAgrees
    BY <1>4, <2>1, <2>5 DEF SessionInv, ModeInv, ModeUnderWay
  <2>7. ModeAgrees' /\ ModeSettled'
    BY <1>1, <2>1, <2>2, <2>6 DEF ModeAgrees, ModeSettled, REQ_DEV, REQ_DATAMODE
  <2> QED
    BY <2>2, <2>3, <2>7 DEF OutstandingInv, ModeInv
<1>5. ~InTime => OutstandingInv' /\ ModeInv'
  BY <1>2 DEF OutstandingInv, ModeInv
<1> QED
  BY <1>3, <1>4, <1>5 DEF SessionInv

LEMMA NextSession ==
  ASSUME BaseInv, SessionInv, Next
  PROVE  SessionInv'
<1>1. CASE Program
  BY <1>1, ProgramSession
<1>2. CASE RetryAttempt \/ RetryExhausted \/ ConnectFails \/ Break
  BY <1>2, StaysDown
<1>3. CASE RetryConnected \/ RetryResubscribed \/ ConnectOpens \/ ConnectDone
  BY <1>3, RetryConnectedSession, RetryResubscribedSession, ConnectOpensSession,
     ConnectDoneSession
<1>4. CASE \/ RequestSend \/ RequestPacket \/ RequestBroken \/ RequestReconnected
           \/ RequestLate \/ RequestLost
  BY <1>4, RequestSendSession, RequestPacketSession, RequestGivenUpSession, RequestLostSession
<1>5. CASE \/ DataRequested \/ PeekPoll \/ PeekReconnected
           \/ NonblockQueued \/ NonblockPacket \/ NonblockUnclaimed \/ NonblockNothing
           \/ NonblockEndOfFile \/ NonblockHangUp
           \/ BlockReadable \/ BlockHangUp \/ BlockReconnected
  BY <1>5, ReadSteps, ReadSession, NotUp
<1>6. CASE DatamodeDone \/ SubscribeDone \/ UnsubscribeDone
  BY <1>6, DoneSession
<1>7. CASE HandleRequest \/ HandleRefused \/ HandleRest \/ WriteClient \/ PublishData
  BY <1>7, HandleRequestSession, HandleRefusedSession, HandleRestSession, MovesSession
<1> QED
  BY <1>1, <1>2, <1>3, <1>4, <1>5, <1>6, <1>7 DEF Next, Library

-----------------------------------------------------------------------------
(***************************************************************************)
(* The round of data: what moving messages does to it.                     *)
(***************************************************************************)
Owed(c, b, u) == u.data_requested \/ OfType(b, SYNCH) \/ OfType(c.ring, SYNCH)

LEMMA FlowQuiet ==
  ASSUME NEW c, NEW b, NEW u, ~Owed(c, b, u)
  PROVE  RoundFlow(c, b, u)
BY DEF Owed, RoundFlow, One, OfType, Closes

(* Data has been received: no more is needed. *)
LEMMA FlowReceived ==
  ASSUME NEW c, NEW b, NEW u, NEW c2, NEW b2, RoundFlow(c, b, u), Received(c2),
         c2.ring = c.ring \/ Loses1st(c.ring, c2.ring), b2 = b \/ Loses1st(b, b2)
  PROVE  RoundFlow(c2, b2, u)
<1>1. /\ OfType(c2.ring, SYNCH) => OfType(c.ring, SYNCH)
      /\ One(c.ring, SYNCH) => One(c2.ring, SYNCH)
  <2>1. CASE Loses1st(c.ring, c2.ring)
    BY <2>1, TypesInRest
  <2> QED
    BY <2>1
<1>2. /\ OfType(b2, SYNCH) => OfType(b, SYNCH)
      /\ One(b, SYNCH) => One(b2, SYNCH)
  <2>1. CASE Loses1st(b, b2)
    BY <2>1, TypesInRest
  <2> QED
    BY <2>1
<1>3. Closes(c2.ring, Received(c2)) /\ Closes(b2, Received(c2) \/ OfType(c2.ring, DATA))
  BY DEF Closes
<1> QED
  BY <1>1, <1>2, <1>3 DEF RoundFlow

(* The SYNCH is taken from the ring, or from the connection. *)
LEMMA FlowEnds ==
  ASSUME NEW c, NEW b, NEW u, NEW c2, NEW b2, RoundFlow(c, b, u),
         \/ Loses1st(c.ring, c2.ring) /\ c.ring[1].type = SYNCH /\ b2 = b
         \/ c.ring = << >> /\ c2.ring = << >> /\ Loses1st(b, b2) /\ b[1].type = SYNCH
  PROVE  ~Owed(c2, b2, u)
<1>1. CASE Loses1st(c.ring, c2.ring) /\ c.ring[1].type = SYNCH /\ b2 = b
  <2>1. OfType(c.ring, SYNCH) /\ (One(c.ring, SYNCH) => ~OfType(c2.ring, SYNCH))
    BY <1>1, TypesInRest
  <2> QED
    BY <1>1, <2>1 DEF RoundFlow, Owed
<1>2. CASE c2.ring = << >> /\ Loses1st(b, b2) /\ b[1].type = SYNCH
  <2>1. OfType(b, SYNCH) /\ (One(b, SYNCH) => ~OfType(b2, SYNCH))
    BY <1>2, TypesInRest
  <2> QED
    BY <1>2, <2>1, EmptyList DEF RoundFlow, Owed
<1> QED
  BY <1>1, <1>2

(* A reply is taken from the connection. *)
LEMMA FlowReplied ==
  ASSUME NEW c, NEW b, NEW u, NEW b2, RoundFlow(c, b, u), Loses1st(b, b2), IsResponse(b[1])
  PROVE  RoundFlow(c, b2, u) /\ (Owed(c, b2, u) <=> Owed(c, b, u))
<1>1. b[1].type # DATA /\ b[1].type # SYNCH
  BY DEF IsResponse, DATA, SYNCH, RESP_ACK, RESP_NACK
<1>2. /\ OfType(b2, SYNCH) <=> OfType(b, SYNCH)
      /\ OfType(b2, DATA) <=> OfType(b, DATA)
      /\ One(b, SYNCH) => One(b2, SYNCH)
  BY <1>1, TypesInRest
<1> DEFINE y == Received(c) \/ OfType(c.ring, DATA)
<1>3. ASSUME Closes(b, y) PROVE Closes(b2, y)
  <2> SUFFICES ASSUME NEW i \in DOMAIN b2, b2[i].type = SYNCH, ~y
               PROVE  \E j \in 1..(i-1) : b2[j].type = DATA
    BY DEF Closes
  <2>1. i \in Nat /\ i + 1 \in DOMAIN b /\ b[i + 1] = b2[i]
    BY DEF Loses1st
  <2>2. PICK j \in 1..((i + 1) - 1) : b[j].type = DATA
    BY <1>3, <2>1 DEF Closes
  <2>3. b \in Seq(Message) /\ DOMAIN b = 1..Len(b) /\ Len(b) \in Nat
    BY DEF Loses1st
  <2>4. j \in DOMAIN b /\ j # 1
    BY <1>1, <2>1, <2>2, <2>3
  <2>5. j > 1 /\ b2[j - 1] = b[j]
    BY <2>4 DEF Loses1st
  <2>6. j - 1 \in 1..(i-1)
    BY <2>1, <2>2, <2>5
  <2> QED
    BY <2>2, <2>5, <2>6
<1> QED
  BY <1>2, <1>3 DEF RoundFlow, Owed

(* A packet goes from the connection to the ring. *)
LEMMA FlowQueuedUp ==
  ASSUME NEW c, NEW b, NEW u, NEW c2, NEW b2, RoundFlow(c, b, u), Loses1st(b, b2),
         GainsLast(c.ring, b[1], c2.ring), Received(c2) <=> Received(c)
  PROVE  RoundFlow(c2, b2, u) /\ (Owed(c2, b2, u) <=> Owed(c, b, u))
<1>1. \A t : /\ OfType(b2, t) => OfType(b, t)
             /\ OfType(b, t) /\ b[1].type # t => OfType(b2, t)
             /\ b[1].type = t => OfType(b, t)
             /\ One(b, t) => One(b2, t)
             /\ One(b, t) /\ b[1].type = t => ~OfType(b2, t)
  BY TypesInRest
<1>2. \A t : /\ OfType(c2.ring, t) <=> OfType(c.ring, t) \/ b[1].type = t
             /\ One(c.ring, t) /\ (b[1].type = t => ~OfType(c.ring, t)) => One(c2.ring, t)
  BY TypesInMore
<1>3. Closes(c2.ring, Received(c2))
  <2> SUFFICES ASSUME NEW i \in DOMAIN c2.ring, c2.ring[i].type = SYNCH, ~Received(c)
               PROVE  \E j \in 1..(i-1) : c2.ring[j].type = DATA
    BY DEF Closes
  <2>1. DOMAIN c.ring = 1..Len(c.ring) /\ Len(c.ring) \in Nat /\ DOMAIN b = 1..Len(b)
        /\ Len(b) \in Nat /\ 1 \in DOMAIN b
    BY DEF GainsLast, Loses1st
  <2>2. CASE i \in DOMAIN c.ring
    <3>1. c.ring[i].type = SYNCH
      BY <2>2 DEF GainsLast
    <3>2. PICK j \in 1..(i-1) : c.ring[j].type = DATA
      BY <2>2, <3>1 DEF RoundFlow, Closes
    <3>3. j \in DOMAIN c.ring
      BY <2>1, <2>2
    <3> QED
      BY <3>2, <3>3 DEF GainsLast
  <2>3. CASE i = Len(c.ring) + 1
    <3>1. b[1].type = SYNCH
      BY <2>3 DEF GainsLast
    <3>2. OfType(c.ring, DATA)
      <4>1. Received(c) \/ OfType(c.ring, DATA) \/ \E j \in 1..(1-1) : b[j].type = DATA
        BY <2>1, <3>1 DEF RoundFlow, Closes
      <4> QED
        BY <4>1
    <3>3. PICK j \in DOMAIN c.ring : c.ring[j].type = DATA
      BY <3>2 DEF OfType
    <3>4. c2.ring[j].type = DATA /\ j \in 1..(i-1)
      BY <2>1, <2>3, <3>3 DEF GainsLast
    <3> QED
      BY <3>4
  <2> QED
    BY <2>2, <2>3 DEF GainsLast
<1>4. Closes(b2, Received(c2) \/ OfType(c2.ring, DATA))
  <2> SUFFICES ASSUME NEW i \in DOMAIN b2, b2[i].type = SYNCH, ~Received(c),
                      ~OfType(c2.ring, DATA)
               PROVE  \E j \in 1..(i-1) : b2[j].type = DATA
    BY DEF Closes
  <2>1. i \in Nat /\ i + 1 \in DOMAIN b /\ b[i + 1] = b2[i]
    BY DEF Loses1st
  <2>2. ~OfType(c.ring, DATA) /\ b[1].type # DATA
    BY <1>2
  <2>3. PICK j \in 1..((i + 1) - 1) : b[j].type = DATA
    BY <2>1, <2>2 DEF RoundFlow, Closes
  <2>4. b \in Seq(Message) /\ DOMAIN b = 1..Len(b) /\ Len(b) \in Nat
    BY DEF Loses1st
  <2>5. j \in DOMAIN b /\ j # 1
    BY <2>1, <2>2, <2>3, <2>4
  <2>6. j > 1 /\ b2[j - 1] = b[j]
    BY <2>5 DEF Loses1st
  <2>7. j - 1 \in 1..(i-1)
    BY <2>1, <2>3, <2>6
  <2> QED
    BY <2>3, <2>6, <2>7
<1>5. Owed(c2, b2, u) <=> Owed(c, b, u)
  BY <1>1, <1>2 DEF Owed
<1>6. /\ u.data_requested => ~OfType(b2, SYNCH) /\ ~OfType(c2.ring, SYNCH)
      /\ OfType(c2.ring, SYNCH) => ~OfType(b2, SYNCH)
      /\ One(c2.ring, SYNCH) /\ One(b2, SYNCH)
  BY <1>1, <1>2 DEF RoundFlow
<1>7. u.data_requested /\ u.data_delivered =>
        Received(c2) \/ OfType(c2.ring, DATA) \/ OfType(b2, DATA)
  BY <1>1, <1>2 DEF RoundFlow
<1> QED
  BY <1>3, <1>4, <1>5, <1>6, <1>7 DEF RoundFlow

(* A message goes from the queue to the connection. *)
LEMMA FlowWritten ==
  ASSUME NEW c, NEW b, NEW u, NEW b2, NEW v, NEW m, RoundFlow(c, b, u), GainsLast(b, m, b2),
         m.type # SYNCH, v.data_requested = u.data_requested,
         v.data_delivered = (u.data_delivered \/ (u.data_requested /\ m.type = DATA))
  PROVE  RoundFlow(c, b2, v) /\ (Owed(c, b2, v) <=> Owed(c, b, u))
<1>1. \A t : /\ OfType(b2, t) <=> OfType(b, t) \/ m.type = t
             /\ One(b, t) /\ (m.type = t => ~OfType(b, t)) => One(b2, t)
  BY TypesInMore
<1>2. Closes(b2, Received(c) \/ OfType(c.ring, DATA))
  <2> SUFFICES ASSUME NEW i \in DOMAIN b2, b2[i].type = SYNCH, ~Received(c),
                      ~OfType(c.ring, DATA)
               PROVE  \E j \in 1..(i-1) : b2[j].type = DATA
    BY DEF Closes
  <2>1. i \in DOMAIN b /\ b[i].type = SYNCH
    BY DEF GainsLast
  <2>2. PICK j \in 1..(i-1) : b[j].type = DATA
    BY <2>1 DEF RoundFlow, Closes
  <2>3. DOMAIN b = 1..Len(b) /\ Len(b) \in Nat
    BY DEF GainsLast
  <2>4. j \in DOMAIN b
    BY <2>1, <2>2, <2>3
  <2> QED
    BY <2>2, <2>4 DEF GainsLast
<1>3. Owed(c, b2, v) <=> Owed(c, b, u)
  BY <1>1 DEF Owed
<1>4. /\ v.data_requested => ~OfType(b2, SYNCH) /\ ~OfType(c.ring, SYNCH)
      /\ OfType(c.ring, SYNCH) => ~OfType(b2, SYNCH)
      /\ One(c.ring, SYNCH) /\ One(b2, SYNCH)
  BY <1>1 DEF RoundFlow
<1>5. v.data_requested /\ v.data_delivered =>
        Received(c) \/ OfType(c.ring, DATA) \/ OfType(b2, DATA)
  BY <1>1 DEF RoundFlow
<1> QED
  BY <1>2, <1>3, <1>4, <1>5 DEF RoundFlow

(* The round is closed. *)
LEMMA FlowClosed ==
  ASSUME NEW c, NEW b, NEW u, NEW b2, NEW v, NEW m, RoundFlow(c, b, u), GainsLast(b, m, b2),
         m.type = SYNCH, u.data_requested, u.data_delivered, v.data_requested = FALSE
  PROVE  RoundFlow(c, b2, v) /\ Owed(c, b2, v)
<1>1. \A t : /\ OfType(b2, t) <=> OfType(b, t) \/ m.type = t
             /\ One(b, t) /\ (m.type = t => ~OfType(b, t)) => One(b2, t)
  BY TypesInMore
<1>2. Closes(b2, Received(c) \/ OfType(c.ring, DATA))
  <2> SUFFICES ASSUME NEW i \in DOMAIN b2, b2[i].type = SYNCH, ~Received(c),
                      ~OfType(c.ring, DATA)
               PROVE  \E j \in 1..(i-1) : b2[j].type = DATA
    BY DEF Closes
  <2>1. ~OfType(b, SYNCH) /\ OfType(b, DATA)
    BY DEF RoundFlow
  <2>2. DOMAIN b = 1..Len(b) /\ Len(b) \in Nat
    BY DEF GainsLast
  <2>3. i = Len(b) + 1
    BY <2>1 DEF GainsLast, OfType
  <2>4. PICK j \in DOMAIN b : b[j].type = DATA
    BY <2>1 DEF OfType
  <2>5. b2[j].type = DATA /\ j \in 1..(i-1)
    BY <2>2, <2>3, <2>4 DEF GainsLast
  <2> QED
    BY <2>5
<1> QED
  BY <1>1, <1>2 DEF RoundFlow, Owed

-----------------------------------------------------------------------------
(***************************************************************************)
(* The round of data, step by step.                                        *)
(***************************************************************************)
RoundCount == Owed(client, toClient, q) <=> client.data_requested \/ RoundBegun

LEMMA RoundParts ==
  /\ RoundInv /\ Undisturbed => RoundCount /\ RoundFlow(client, toClient, q) /\ RoundMode
  /\ (Undisturbed => RoundCount /\ RoundFlow(client, toClient, q) /\ RoundMode) => RoundInv
BY DEF RoundInv, RoundCount, Owed, SynchToCome

LEMMA RoundJoin ==
  ASSUME Undisturbed' => RoundCount' /\ RoundFlow(client', toClient', q') /\ RoundMode'
  PROVE  RoundInv'
BY DEF RoundInv, RoundCount, Owed, SynchToCome

(* The same call is at the bottom of the stack. *)
SameBottom ==
  \/ stack' = << >>
  \/ stack # << >> /\ stack'[1].fn = stack[1].fn /\ stack'[1].req = stack[1].req

LEMMA BottomStays ==
  ASSUME BaseInv, stack # << >>,
         \/ \E v : Return(v)
         \/ \E p \in Points : Go(p)
         \/ \E p \in Points, g \in Frame : Calling(p, g)
         \/ UNCHANGED stack
  PROVE  SameBottom
<1>1. Typed /\ Depth \in Nat /\ Depth >= 1 /\ Top = stack[Depth]
  BY BaseFacts
<1>2. ASSUME NEW v, Return(v) PROVE SameBottom
  <2>1. /\ Below(Depth - 1)
        /\ Depth = 1 => stack' = << >>
    BY <1>1, <1>2, ReturnEffect
  <2> QED
    BY <1>1, <2>1 DEF Below, SameBottom
<1>3. ASSUME NEW p \in Points, Go(p) PROVE SameBottom
  <2>1. Below(Depth - 1) /\ At(Top, p, Top') /\ Depth' = Depth
    BY <1>1, <1>3, GoEffect
  <2>2. Top' = stack'[Depth]
    BY <2>1 DEF Top, Depth
  <2> QED
    BY <1>1, <2>1, <2>2 DEF Below, At, SameBottom
<1>4. ASSUME NEW p \in Points, NEW g \in Frame, Calling(p, g) PROVE SameBottom
  <2>1. Below(Depth - 1) /\ At(Top, p, Caller') /\ Caller' = stack'[Depth]
    BY <1>1, <1>4, CallEffect
  <2> QED
    BY <1>1, <2>1 DEF Below, At, SameBottom
<1>5. UNCHANGED stack => SameBottom
  BY DEF SameBottom
<1> QED
  BY <1>2, <1>3, <1>4, <1>5

LEMMA ModeStays ==
  ASSUME RoundMode, client'.data_requested => client.data_requested,
         client'.mode = client.mode, SameBottom
  PROVE  RoundMode'
BY DEF RoundMode, SameBottom

(* The step is not about the round. *)
LEMMA RoundStill ==
  ASSUME RoundInv,
         Undisturbed' => Undisturbed /\ (RoundBegun' <=> RoundBegun) /\ (RoundMode => RoundMode'),
         client'.ring = client.ring, client'.data_requested = client.data_requested,
         Received(client') <=> Received(client), toClient' = toClient,
         q'.data_requested = q.data_requested, q'.data_delivered = q.data_delivered
  PROVE  RoundInv'
<1> SUFFICES ASSUME Undisturbed'
             PROVE  RoundCount' /\ RoundFlow(client', toClient', q') /\ RoundMode'
  BY RoundJoin
<1>1. RoundCount /\ RoundFlow(client, toClient, q) /\ RoundMode
  BY RoundParts
<1>2. RoundCount'
  BY <1>1 DEF RoundCount, Owed
<1>3. RoundFlow(client', toClient', q')
  <2>1. /\ Closes(client.ring, Received(client)) => Closes(client'.ring, Received(client'))
        /\ Closes(toClient, Received(client) \/ OfType(client.ring, DATA))
             => Closes(toClient', Received(client') \/ OfType(client'.ring, DATA))
    BY DEF Closes
  <2> QED
    BY <1>1, <2>1 DEF RoundFlow
<1> QED
  BY <1>1, <1>2, <1>3

(* A packet other than a SYNCH is taken. *)
LEMMA OwedStill ==
  ASSUME NEW c, NEW b, NEW u, NEW c2, NEW b2,
         \/ Loses1st(c.ring, c2.ring) /\ c.ring[1].type # SYNCH /\ b2 = b
         \/ c2.ring = c.ring /\ Loses1st(b, b2) /\ b[1].type # SYNCH
  PROVE  Owed(c2, b2, u) <=> Owed(c, b, u)
<1>1. CASE Loses1st(c.ring, c2.ring) /\ c.ring[1].type # SYNCH /\ b2 = b
  <2>1. OfType(c2.ring, SYNCH) <=> OfType(c.ring, SYNCH)
    BY <1>1, TypesInRest
  <2> QED
    BY <1>1, <2>1 DEF Owed
<1>2. CASE c2.ring = c.ring /\ Loses1st(b, b2) /\ b[1].type # SYNCH
  <2>1. OfType(b2, SYNCH) <=> OfType(b, SYNCH)
    BY <1>2, TypesInRest
  <2> QED
    BY <1>2, <2>1 DEF Owed
<1> QED
  BY <1>1, <1>2

(* Data, or the SYNCH, is dispatched. *)
LEMMA RoundProcess ==
  ASSUME RoundInv, Undisturbed' => Undisturbed, ~RoundBegun, ~RoundBegun', q' = q, SameBottom,
         client'.mode = client.mode, NEW m, NEW c, c.ring = client'.ring,
         c.data_requested = client.data_requested, c.mode = client.mode,
         \/ m.type = SYNCH /\ client'.data_requested = FALSE
         \/ /\ m.type = DATA /\ client'.data_requested = c.data_requested
            /\ c.mode = PUSH \/ client'.data_received = TRUE,
         \/ Loses1st(client.ring, client'.ring) /\ m = client.ring[1] /\ toClient' = toClient
         \/ /\ client.ring = << >> /\ client'.ring = << >>
            /\ Loses1st(toClient, toClient') /\ m = toClient[1]
  PROVE  RoundInv'
<1> SUFFICES ASSUME Undisturbed'
             PROVE  RoundCount' /\ RoundFlow(client', toClient', q') /\ RoundMode'
  BY RoundJoin
<1>1. RoundCount /\ RoundFlow(client, toClient, q) /\ RoundMode
  BY RoundParts
<1>2. Owed(client, toClient, q) <=> client.data_requested
  BY <1>1 DEF RoundCount
<1>3. CASE m.type = SYNCH
  <2>1. client'.data_requested = FALSE
    BY <1>3 DEF SYNCH, DATA
  <2>2. ~Owed(client', toClient', q')
    BY <1>1, <1>3, FlowEnds
  <2>3. RoundFlow(client', toClient', q')
    BY <2>2, FlowQuiet
  <2> QED
    BY <2>1, <2>2, <2>3 DEF RoundCount, RoundMode
<1>4. CASE m.type = DATA
  <2>1. m.type # SYNCH
    BY <1>4 DEF SYNCH, DATA
  <2>2. Owed(client', toClient', q') <=> Owed(client, toClient, q)
    BY <2>1, OwedStill
  <2>3. client'.data_requested = client.data_requested
    BY <2>1
  <2>4. RoundMode'
    BY <1>1, <2>3, ModeStays
  <2>5. RoundCount'
    BY <1>2, <2>2, <2>3 DEF RoundCount
  <2>6. RoundFlow(client', toClient', q')
    <3>1. CASE client.data_requested
      <4>1. Received(client')
        BY <1>1, <2>1, <2>3, <3>1 DEF Received, RoundMode, PUSH, PULL
      <4> QED
        BY <1>1, <4>1, FlowReceived
    <3>2. CASE ~client.data_requested
      BY <1>2, <2>2, <3>2, FlowQuiet
    <3> QED
      BY <3>1, <3>2
  <2> QED
    BY <2>4, <2>5, <2>6
<1> QED
  BY <1>3, <1>4

LEMMA ReadLeaves ==
  ASSUME BaseInv, link' = "up",
         \/ DataRequested \/ PeekPoll \/ PeekReconnected
         \/ NonblockQueued \/ NonblockPacket \/ NonblockUnclaimed \/ NonblockNothing
         \/ NonblockEndOfFile \/ NonblockHangUp
         \/ BlockReadable \/ BlockHangUp \/ BlockReconnected
  PROVE  /\ ~RoundBegun' /\ (Undisturbed' => Undisturbed) /\ q' = q /\ SameBottom
         /\ client'.mode = client.mode /\ stack # << >> /\ Top.fn \in Reads
         /\ ~DataRequested => ~RoundBegun
<1>1. /\ stack # << >> /\ Top.fn \in Reads /\ Depth = 1 /\ Local /\ ret' = NoRet
      /\ stack' = << >> \/ (stack' # << >> /\ Top'.fn = Top.fn /\ Depth' = Depth)
      /\ client'.mode = client.mode
  BY ReadSteps
<1>2. ~RoundBegun'
  BY <1>1 DEF RoundBegun, Awaiting, Asking, InCall, Reads
<1>3. (Undisturbed' => Undisturbed) /\ q' = q
  BY <1>1, LocalKeeps DEF Local, server
<1>4. ~DataRequested => ~RoundBegun
  <2>1. ~DataRequested => ret = NoRet \/ Top.at # "requestdata"
    BY DEF PeekPoll, PeekReconnected, NonblockQueued, NonblockPacket, NonblockUnclaimed,
           NonblockNothing, NonblockEndOfFile, NonblockHangUp, BlockReadable, BlockHangUp,
           BlockReconnected, Running, Returned
  <2> QED
    BY <1>1, <2>1 DEF RoundBegun, Awaiting, Asking, InCall, Reads
<1>5. SameBottom
  <2>1. "peek" \in Points /\ "nonblock" \in Points /\ "block" \in Points
    BY DEF Points
  <2>2. \/ \E v : Return(v)
        \/ \E p \in Points : Go(p)
        \/ UNCHANGED stack
        \/ link' = "none"
    BY <2>1 DEF DataRequested, PeekPoll, PeekReconnected, NonblockQueued, NonblockPacket,
                NonblockUnclaimed, NonblockNothing, NonblockEndOfFile, NonblockHangUp,
                BlockReadable, BlockHangUp, BlockReconnected, Peeked, NothingToRead, Process,
                HangUp, Disconnect
  <2> QED
    BY <1>1, <2>2, BottomStays
<1> QED
  BY <1>1, <1>2, <1>3, <1>4, <1>5

LEMMA DataRequestedRound ==
  ASSUME BaseInv, RoundInv, DataRequested
  PROVE  RoundInv'
<1> SUFFICES ASSUME link' = "up" PROVE RoundInv'
  BY NotUp
<1>1. /\ ~RoundBegun' /\ (Undisturbed' => Undisturbed) /\ q' = q /\ SameBottom
      /\ client'.mode = client.mode /\ stack # << >> /\ Top.fn \in Reads
  BY ReadLeaves
<1>2. /\ ret # NoRet /\ Top.at = "requestdata" /\ toClient' = toClient
      /\ Suits(Top, client) /\ client \in ClientType
  BY <1>1, BaseFacts DEF DataRequested, Returned, net
<1>3. client.mode = PULL /\ ~client.data_requested
  BY <1>2 DEF Suits
<1>4. CASE ret = 0
  <2>1. /\ client'.data_requested = TRUE /\ client'.data_received = FALSE
        /\ client'.ring = client.ring
    BY <1>4, DataRequestedEffect
  <2>2. RoundBegun
    BY <1>1, <1>2, <1>4 DEF RoundBegun, InCall
  <2> SUFFICES ASSUME Undisturbed'
               PROVE  RoundCount' /\ RoundFlow(client', toClient', q') /\ RoundMode'
    BY RoundJoin
  <2>3. RoundCount /\ RoundFlow(client, toClient, q)
    BY <1>1, RoundParts
  <2>4. RoundCount'
    BY <1>1, <1>2, <2>1, <2>2, <2>3 DEF RoundCount, Owed
  <2>5. RoundFlow(client', toClient', q')
    BY <1>1, <1>2, <1>3, <2>1, <2>3 DEF RoundFlow, Received
  <2>6. RoundMode'
    <3>1. stack' # << >> => stack'[1].fn \in Reads
      <4>1. Depth = 1 /\ stack[1] = Top
        BY <1>1, CallAtBottom, BaseFacts DEF Reads, Calls
      <4> QED
        BY <1>1, <4>1 DEF SameBottom
    <3> QED
      BY <1>1, <1>3, <3>1 DEF RoundMode, Reads
  <2> QED
    BY <2>4, <2>5, <2>6
<1>5. CASE ret # 0
  <2>1. client' = client
    BY <1>5 DEF DataRequested
  <2>2. ~RoundBegun
    BY <1>1, <1>5 DEF RoundBegun, Awaiting, Asking, Reads
  <2>3. RoundMode => RoundMode'
    BY <1>1, <2>1, ModeStays
  <2> QED
    BY <1>1, <1>2, <2>1, <2>2, <2>3, RoundStill
<1> QED
  BY <1>4, <1>5

LEMMA ReadRound ==
  ASSUME BaseInv, RoundInv,
         \/ DataRequested \/ PeekPoll \/ PeekReconnected
         \/ NonblockQueued \/ NonblockPacket \/ NonblockUnclaimed \/ NonblockNothing
         \/ NonblockEndOfFile \/ NonblockHangUp
         \/ BlockReadable \/ BlockHangUp \/ BlockReconnected
  PROVE  RoundInv'
<1> SUFFICES ASSUME link' = "up", ~DataRequested PROVE RoundInv'
  BY NotUp, DataRequestedRound
<1>1. /\ ~RoundBegun' /\ (Undisturbed' => Undisturbed) /\ q' = q /\ SameBottom
      /\ client'.mode = client.mode /\ ~RoundBegun
  BY ReadLeaves
<1>2. client \in ClientType /\ toClient \in Seq(Message)
  BY BaseFacts DEF FlowType
<1>3. CASE PeekPoll \/ PeekReconnected \/ NonblockEndOfFile \/ BlockReadable \/ BlockReconnected
  <2>1. UNCHANGED <<toClient, client>>
    BY <1>3 DEF PeekPoll, PeekReconnected, NonblockEndOfFile, BlockReadable, BlockReconnected,
                HangUp, Disconnect, net
  <2>2. RoundMode => RoundMode'
    BY <1>1, <2>1, ModeStays
  <2> QED
    BY <1>1, <2>1, <2>2, RoundStill
<1>4. CASE NonblockHangUp \/ BlockHangUp
  BY <1>4 DEF NonblockHangUp, BlockHangUp, HangUp, Disconnect
<1>5. CASE NonblockQueued
  <2> DEFINE c == [client EXCEPT !.ring = Tail(client.ring)]
             m == Head(client.ring)
  <2>1. client.ring # << >> /\ UNCHANGED net /\ Process(m, c)
    BY <1>5 DEF NonblockQueued
  <2>2. SameButRing(client, c) /\ Loses1st(client.ring, c.ring) /\ m = client.ring[1]
    BY <2>1, RingTaken
  <2> HIDE DEF c, m
  <2>3. c \in ClientType /\ c.data_requested = client.data_requested /\ c.mode = client.mode
    BY <2>2 DEF SameButRing
  <2>4. /\ client'.ring = c.ring
        /\ \/ m.type = SYNCH /\ client'.data_requested = FALSE
           \/ /\ m.type = DATA /\ client'.data_requested = c.data_requested
              /\ c.mode = PUSH \/ client'.data_received = TRUE
    BY <2>1, <2>3, ProcessEffect
  <2>5. Loses1st(client.ring, client'.ring) /\ toClient' = toClient
    BY <2>1, <2>2, <2>4 DEF net
  <2> QED
    BY <1>1, <2>2, <2>3, <2>4, <2>5, RoundProcess
<1>6. CASE NonblockPacket
  <2> DEFINE m == Head(toClient)
  <2>1. toClient # << >> /\ toClient' = Tail(toClient) /\ Process(m, client) /\ client.ring = << >>
    BY <1>6 DEF NonblockPacket
  <2>2. Loses1st(toClient, toClient') /\ m = toClient[1]
    BY <1>2, <2>1, TailOf
  <2> HIDE DEF m
  <2>3. /\ client'.ring = client.ring
        /\ \/ m.type = SYNCH /\ client'.data_requested = FALSE
           \/ /\ m.type = DATA /\ client'.data_requested = client.data_requested
              /\ client.mode = PUSH \/ client'.data_received = TRUE
    BY <1>2, <2>1, ProcessEffect
  <2>4. client.ring = client'.ring /\ client'.ring = << >>
    BY <2>1, <2>3
  <2> QED
    BY <1>1, <2>1, <2>2, <2>3, <2>4, RoundProcess
<1>7. CASE NonblockUnclaimed
  <2>1. toClient # << >> /\ toClient' = Tail(toClient) /\ IsResponse(Head(toClient))
        /\ UNCHANGED client
    BY <1>7 DEF NonblockUnclaimed, IsResponse
  <2>2. Loses1st(toClient, toClient') /\ IsResponse(toClient[1])
    BY <1>2, <2>1, TailOf
  <2> SUFFICES ASSUME Undisturbed'
               PROVE  RoundCount' /\ RoundFlow(client', toClient', q') /\ RoundMode'
    BY RoundJoin
  <2>3. RoundCount /\ RoundFlow(client, toClient, q) /\ RoundMode
    BY <1>1, RoundParts
  <2>4. RoundFlow(client, toClient', q) /\ (Owed(client, toClient', q) <=> Owed(client, toClient, q))
    BY <2>2, <2>3, FlowReplied
  <2>5. RoundMode'
    BY <1>1, <2>1, <2>3, ModeStays
  <2>6. RoundCount'
    BY <1>1, <2>1, <2>3, <2>4 DEF RoundCount
  <2> QED
    BY <1>1, <2>1, <2>4, <2>5, <2>6
<1>8. CASE NonblockNothing
  <2>1. UNCHANGED <<toClient>> /\ NothingToRead
    BY <1>8 DEF NonblockNothing, net
  <2>2. /\ SameButRing(client, client') \/ (~client.data_requested /\ client'.data_requested = FALSE)
        /\ client'.ring = client.ring
    BY <2>1, NothingToReadEffect
  <2>3. client'.data_requested = client.data_requested
    BY <1>2, <2>2 DEF SameButRing, ClientType
  <2>4. Received(client') <=> Received(client)
    BY <2>2 DEF SameButRing, Received
  <2>5. RoundMode => RoundMode'
    BY <1>1, <2>3, ModeStays
  <2> QED
    BY <1>1, <2>1, <2>2, <2>3, <2>4, <2>5, RoundStill
<1> QED
  BY <1>3, <1>4, <1>5, <1>6, <1>7, <1>8

(* Calls of the program. *)
LEMMA StartingRound ==
  ASSUME BaseInv, RoundInv, NEW fn \in Calls \ {"datamode"}, NEW p \in Points, Starting(fn, p)
  PROVE  RoundInv'
<1>1. /\ stack' # << >> /\ stack = << >> /\ ret' = NoRet
      /\ stack'[1] = Top' /\ Top'.fn = fn
  BY StartingEffect
<1>2. UNCHANGED <<net, server, client, upset>>
  BY DEF Starting
<1>3. ~RoundBegun /\ ~RoundBegun'
  BY <1>1 DEF RoundBegun, Awaiting, Asking, InCall, Calls
<1>4. Undisturbed' => Undisturbed
  BY <1>2 DEF Undisturbed, net
<1>5. RoundMode => RoundMode'
  BY <1>1, <1>2 DEF RoundMode
<1> QED
  BY <1>2, <1>3, <1>4, <1>5, RoundStill DEF net, server

LEMMA StartRequestRound ==
  ASSUME BaseInv, RoundInv, NEW fn \in Calls, NEW p \in Points,
         NEW a \in {PUSH, PULL, OPEN, CLOSE}, NEW s \in {REQ_DEV, REQ_DATA, REQ_DATAMODE},
         StartRequest(fn, p, s, a), Undisturbed' => Undisturbed, client'.mode = client.mode,
         client'.ring = client.ring, client'.data_requested = client.data_requested,
         client'.data_received = client.data_received,
         Undisturbed' /\ fn = "datamode" /\ client.data_requested => a = client.mode
  PROVE  RoundInv'
<1>1. /\ stack' # << >> /\ stack = << >> /\ ret' = NoRet /\ stack'[1] = Caller'
      /\ Caller'.fn = fn /\ Caller'.req.arg = a /\ Top'.at = "send"
  BY StartRequestEffect
<1>2. UNCHANGED <<net, server>>
  BY DEF StartRequest
<1>3. ~RoundBegun /\ ~RoundBegun'
  BY <1>1 DEF RoundBegun, Awaiting, Asking, InCall
<1>4. Undisturbed' => (RoundMode => RoundMode')
  BY <1>1 DEF RoundMode
<1>5. Received(client') <=> Received(client)
  BY DEF Received
<1> QED
  BY <1>2, <1>3, <1>4, <1>5, RoundStill DEF net, server

LEMMA ProgramRound ==
  ASSUME BaseInv, RoundInv, Program
  PROVE  RoundInv'
<1>0. /\ "request" \in Points /\ "requestdata" \in Points /\ "peek" \in Points
      /\ "nonblock" \in Points /\ "open" \in Points
      /\ Calls = {"connect", "peek", "read", "read_nonblock", "datamode", "subscribe",
                  "unsubscribe"}
      /\ Modes \subseteq {PUSH, PULL} /\ client \in ClientType
  BY ConstantsAssumption, BaseFacts DEF Points, Calls
<1>1. CASE StartConnect
  BY <1>0, <1>1, StartingRound DEF StartConnect
<1>2. CASE CallDisconnect
  <2>1. link' = "none"
    BY <1>2 DEF CallDisconnect, Disconnect
  <2> QED
    BY <2>1, NotUp
<1>3. ASSUME NEW fn \in {"peek", "read"}, StartPeek(fn)
      PROVE  RoundInv'
  <2>1. CASE Starting(fn, "peek")
    BY <1>0, <2>1, StartingRound
  <2>2. CASE StartRequest(fn, "requestdata", REQ_DATA, PULL) /\ UNCHANGED <<client, upset>>
    <3>1. Undisturbed' => Undisturbed
      BY <2>2 DEF Undisturbed, StartRequest, net
    <3> QED
      BY <1>0, <2>2, <3>1, StartRequestRound
  <2> QED
    BY <1>3, <2>1, <2>2 DEF StartPeek
<1>4. CASE StartReadQueued \/ StartReadNonblock
  BY <1>0, <1>4, StartingRound DEF StartReadQueued, StartReadNonblock
<1>5. ASSUME NEW m \in Modes, StartDatamode(m)
      PROVE  RoundInv'
  <2>1. StartRequest("datamode", "request", REQ_DATAMODE, m) /\ UNCHANGED client
    BY <1>5 DEF StartDatamode
  <2>2. /\ Undisturbed' => Undisturbed
        /\ Undisturbed' /\ client.data_requested => m = client.mode
    BY <1>5 DEF StartDatamode, Undisturbed, StartRequest, net
  <2>3. m \in {PUSH, PULL, OPEN, CLOSE} /\ "datamode" \in Calls
    BY <1>0
  <2> QED
    BY <1>0, <2>1, <2>2, <2>3, StartRequestRound
<1>6. CASE StartSubscribe
  <2>1. StartRequest("subscribe", "request", REQ_DEV, OPEN) /\ UNCHANGED <<client, upset>>
    BY <1>6 DEF StartSubscribe
  <2>2. Undisturbed' => Undisturbed
    BY <2>1 DEF Undisturbed, StartRequest, net
  <2> QED
    BY <1>0, <2>1, <2>2, StartRequestRound
<1>7. CASE StartUnsubscribe
  <2>1. StartRequest("unsubscribe", "request", REQ_DEV, CLOSE) /\ UNCHANGED upset
    BY <1>7 DEF StartUnsubscribe
  <2> DEFINE no == FALSE
  <2>2. client' = [client EXCEPT !.subscribed = no] /\ no \in BOOLEAN
    BY <1>7 DEF StartUnsubscribe
  <2> HIDE DEF no
  <2>3. /\ client'.mode = client.mode /\ client'.data_requested = client.data_requested
        /\ client'.data_received = client.data_received /\ client'.ring = client.ring
    BY <1>0, <2>2, SetSubscribed
  <2>4. Undisturbed' => Undisturbed
    BY <2>1 DEF Undisturbed, StartRequest, net
  <2> QED
    BY <1>0, <2>1, <2>3, <2>4, StartRequestRound
<1> QED
  BY <1>1, <1>2, <1>3, <1>4, <1>5, <1>6, <1>7 DEF Program

LEMMA DoneRound ==
  ASSUME BaseInv, RoundInv, DatamodeDone \/ SubscribeDone \/ UnsubscribeDone
  PROVE  RoundInv'
<1>1. /\ stack # << >> /\ ret # NoRet /\ UNCHANGED <<net, server>> /\ upset' = upset
      /\ Top.at = "request"
  BY DEF DatamodeDone, SubscribeDone, UnsubscribeDone, Returned
<1>2. stack' = << >>
  BY DoneBase
<1>3. ~RoundBegun /\ ~RoundBegun' /\ (Undisturbed' => Undisturbed)
  BY <1>1, <1>2 DEF RoundBegun, Awaiting, Asking, InCall, Undisturbed, net
<1>4. /\ client'.data_requested = client.data_requested
      /\ client'.data_received = client.data_received /\ client'.ring = client.ring
      /\ \/ client'.mode = client.mode
         \/ DatamodeDone /\ client'.mode = Top.req.arg
  BY DatamodeDoneEffect, SubscribeDoneEffect DEF UnsubscribeDone
<1>5. RoundMode => RoundMode'
  <2>1. DatamodeDone => Top = stack[1] /\ Top.fn = "datamode"
    <3>1. DatamodeDone => Top.fn = "datamode"
      BY DEF DatamodeDone, Returned
    <3>2. DatamodeDone => Depth = 1
      BY <1>1, <3>1, CallAtBottom DEF Calls
    <3> QED
      BY <1>1, <3>1, <3>2, BaseFacts
  <2> QED
    BY <1>1, <1>2, <1>4, <2>1 DEF RoundMode
<1>6. Received(client') <=> Received(client)
  BY <1>4 DEF Received
<1> QED
  BY <1>1, <1>3, <1>4, <1>5, <1>6, RoundStill DEF net, server

(* Connecting and reconnecting. *)
LEMMA ReconnectRound ==
  ASSUME BaseInv, SessionInv, RoundInv,
         RetryConnected \/ RetryResubscribed \/ ConnectOpens \/ ConnectDone
  PROVE  RoundInv'
<1> SUFFICES ASSUME link' = "up" PROVE RoundInv'
  BY NotUp
<1>1. /\ Typed /\ StackInv /\ CounterInv /\ LinkInv /\ client \in ClientType /\ stack # << >>
      /\ Depth \in Nat /\ Depth >= 1
  BY BaseFacts DEF RetryConnected, RetryResubscribed, ConnectOpens, ConnectDone, Running, Returned
<1>2. CASE ConnectOpens
  <2>1. Undisturbed' => nextReq = 1
    BY <1>2 DEF Undisturbed, ConnectOpens
  <2>2. nextReq = 1 => ~client'.data_requested /\ client'.ring = << >>
    BY <1>1, <1>2 DEF CounterInv, ConnectOpens
  <2>3. toClient' = << >> /\ q'.data_requested = FALSE
    BY <1>2, FreshQueue DEF ConnectOpens, ServerForgets
  <2> DEFINE g == RequestFrame(REQ_DATAMODE, PULL)
  <2>4. g \in Frame /\ g.at = "send" /\ Calling("datamode", g) /\ "datamode" \in Points
    BY <1>1, <1>2, NewRequest DEF CounterInv, ConnectOpens, Requesting, Points
  <2> HIDE DEF g
  <2>5. ret' = NoRet /\ Top' = g
    BY <1>1, <2>4, CallEffect
  <2>6. ~RoundBegun'
    BY <2>4, <2>5 DEF RoundBegun, Awaiting, InCall
  <2>7. Undisturbed' => ~Owed(client', toClient', q')
    BY <2>1, <2>2, <2>3, EmptyList DEF Owed
  <2>8. Undisturbed' => RoundCount' /\ RoundFlow(client', toClient', q') /\ RoundMode'
    BY <2>1, <2>2, <2>6, <2>7, FlowQuiet DEF RoundCount, RoundMode
  <2> QED
    BY <2>8, RoundJoin
<1>3. CASE ConnectDone
  <2>1. /\ ret # NoRet /\ Top.fn = "connect" /\ Top.at = "datamode"
        /\ UNCHANGED <<net, server, upset>> /\ Return(0)
    BY <1>3 DEF ConnectDone, Returned
  <2>2. /\ client'.mode = (IF ret = 0 THEN PULL ELSE client.mode)
        /\ client'.data_requested = client.data_requested
        /\ client'.data_received = client.data_received /\ client'.ring = client.ring
    BY <1>3, ConnectDoneEffect
  <2>3. SameBottom
    BY <1>1, <2>1, BottomStays
  <2>4. ~RoundBegun'
    <3>1. CASE Depth = 1
      <4>1. stack' = << >>
        BY <1>1, <2>1, <3>1, ReturnEffect
      <4> QED
        BY <4>1 DEF RoundBegun, Awaiting, Asking, InCall
    <3>2. CASE Depth # 1
      <4>1. Depth >= 2 /\ ret' = 0 /\ Top' = Caller
        BY <1>1, <2>1, <3>2, ReturnEffect
      <4>2. Waits(Caller, Top)
        BY <1>1, <4>1, BottomIsCall
      <4>3. Top'.fn = "retry" /\ Top'.at = "connect"
        BY <2>1, <4>1, <4>2 DEF Waits
      <4> QED
        BY <4>1, <4>3 DEF RoundBegun, Awaiting, Asking, NoRet
    <3> QED
      BY <3>1, <3>2
  <2>5. ~RoundBegun /\ (Undisturbed' => Undisturbed)
    BY <1>1, <2>1 DEF RoundBegun, Awaiting, Asking, Undisturbed, net
  <2>6. RoundMode => RoundMode'
    BY <2>2, <2>3 DEF RoundMode, SameBottom
  <2>7. Received(client') <=> Received(client)
    BY <2>2 DEF Received
  <2> QED
    BY <2>1, <2>2, <2>4, <2>5, <2>6, <2>7, RoundStill DEF net, server
<1>4. CASE RetryConnected \/ RetryResubscribed
  <2>1. /\ ret # NoRet /\ Top.fn = "retry" /\ Top.at \in {"connect", "resub"} /\ ret = 0
        /\ UNCHANGED <<net, server, client, upset>>
        /\ Return(0) \/ Requesting("resub", REQ_DEV, OPEN)
    <3>1. CASE RetryConnected
      <4>1. ret # 0 => link = "none"
        BY <1>1, <3>1 DEF RetryConnected, Returned, LinkInv
      <4>2. ret = 0
        BY <3>1, <4>1 DEF RetryConnected, net
      <4> QED
        BY <3>1, <4>2 DEF RetryConnected, Returned
    <3>2. CASE RetryResubscribed
      BY <3>2 DEF RetryResubscribed, Returned, Disconnect
    <3> QED
      BY <1>4, <3>1, <3>2
  <2>2. ~RoundBegun /\ (Undisturbed' => Undisturbed)
    BY <1>1, <2>1 DEF RoundBegun, Awaiting, Asking, Undisturbed, net
  <2>3. SameBottom /\ ~RoundBegun'
    <3>1. CASE Return(0)
      <4>1. Depth >= 2 /\ Waits(Caller, Top)
        BY <1>1, <2>1, BottomIsCall DEF Calls
      <4>2. Top' = Caller /\ ret' = 0
        BY <1>1, <3>1, <4>1, ReturnEffect
      <4>3. HangsOn(Top')
        BY <2>1, <4>1, <4>2 DEF Waits
      <4>4. ~RoundBegun'
        BY <4>2, <4>3 DEF RoundBegun, Awaiting, Asking, HangsOn, NoRet
      <4> QED
        BY <1>1, <3>1, <4>4, BottomStays
    <3>2. CASE Requesting("resub", REQ_DEV, OPEN)
      <4> DEFINE g == RequestFrame(REQ_DEV, OPEN)
      <4>1. g \in Frame /\ g.at = "send" /\ Calling("resub", g) /\ "resub" \in Points
        BY <1>1, <3>2, NewRequest DEF CounterInv, Requesting, Points
      <4> HIDE DEF g
      <4>2. ret' = NoRet /\ Top' = g
        BY <1>1, <4>1, CallEffect
      <4>3. ~RoundBegun'
        BY <4>1, <4>2 DEF RoundBegun, Awaiting, InCall
      <4> QED
        BY <1>1, <4>1, <4>3, BottomStays
    <3> QED
      BY <2>1, <3>1, <3>2
  <2>4. RoundMode => RoundMode'
    BY <2>1, <2>3, ModeStays
  <2> QED
    BY <2>1, <2>2, <2>3, <2>4, RoundStill DEF net, server
<1> QED
  BY <1>2, <1>3, <1>4

LEMMA RequestPacketRound ==
  ASSUME BaseInv, SessionInv, RoundInv, RequestPacket
  PROVE  RoundInv'
<1> SUFFICES ASSUME Undisturbed'
             PROVE  RoundCount' /\ RoundFlow(client', toClient', q') /\ RoundMode'
  BY RoundJoin
<1>1. CASE IsResponse(toClient[1])
  <2>1. /\ Awaiting /\ Loses1st(toClient, toClient')
        /\ UNCHANGED <<link, toServer, server, client, upset>>
        /\ \E v : ReplyWith(v)
    BY <1>1, ReplyTaken
  <2>2. PICK v : ReplyWith(v)
    BY <2>1
  <2>3. Undisturbed /\ InTime
    BY <2>1 DEF Undisturbed, InTime
  <2>4. RoundCount /\ RoundFlow(client, toClient, q) /\ RoundMode
    BY <2>3, RoundParts
  <2>5. /\ RoundFlow(client, toClient', q)
        /\ Owed(client, toClient', q) <=> Owed(client, toClient, q)
    BY <1>1, <2>1, <2>4, FlowReplied
  <2>6. /\ stack # << >> /\ ret = NoRet /\ Top.fn = "request" /\ Typed /\ Asking
    BY <2>1, BaseFacts DEF Awaiting, Asking
  <2>7. /\ Return(v) /\ Answered /\ v \in {-2, -1, 0}
        /\ v # 0 => Top.req.subtype = REQ_DEV
    BY <2>2, <2>3 DEF ReplyWith
  <2>8. SameBottom
    BY <2>6, <2>7, BottomStays
  <2>9. RoundMode'
    BY <2>1, <2>4, <2>8, ModeStays
  <2>10. Depth >= 2 /\ AsksFor(Caller, Top.req)
    BY <2>6, AskingFacts
  <2>11. stack' # << >> /\ ret' = v /\ Top' = Caller
    BY <2>6, <2>7, <2>10, ReturnEffect
  <2>12. /\ Caller.at = "requestdata" <=> Top.req.subtype = REQ_DATA
         /\ Caller.fn # "request"
    BY <2>10, Askers DEF AsksFor
  <2>13. RoundBegun' <=> RoundBegun
    <3>1. RoundBegun <=> Top.req.subtype = REQ_DATA
      BY <2>1, <2>6, <2>7 DEF RoundBegun, InCall
    <3>2. RoundBegun' <=> v = 0 /\ Top.req.subtype = REQ_DATA
      BY <2>11, <2>12 DEF RoundBegun, InCall, Awaiting, Asking, NoRet
    <3> QED
      BY <2>7, <3>1, <3>2 DEF REQ_DATA, REQ_DEV
  <2>14. RoundCount'
    BY <2>1, <2>4, <2>5, <2>13 DEF RoundCount, server
  <2> QED
    BY <2>1, <2>5, <2>9, <2>14 DEF server
<1>2. CASE ~IsResponse(toClient[1])
  <2> DEFINE m == toClient[1]
  <2>1. /\ PhasesStay /\ SameButRing(client, client') /\ client'.ring = Pushed(m)
        /\ Loses1st(toClient, toClient') /\ UNCHANGED <<stack, ret, link, toServer, server>>
        /\ upset \subseteq upset' /\ (Len(client.ring) = RingSize => upset' # {})
        /\ stack # << >> /\ ret = NoRet /\ Top.fn = "request" /\ Top.at = "await"
    BY <1>2, QueuedUpPhases
  <2>2. m \in Message
    BY <2>1 DEF Loses1st
  <2> HIDE DEF m
  <2>3. client \in ClientType /\ Len(client.ring) <= RingSize
    BY BaseFacts DEF FlowType
  <2>4. GainsLast(client.ring, m, client'.ring)
    BY <2>1, <2>2, <2>3, PushedEffect DEF Undisturbed
  <2>5. Undisturbed /\ InTime
    BY <2>1 DEF Undisturbed, InTime
  <2>6. RoundCount /\ RoundFlow(client, toClient, q) /\ RoundMode
    BY <2>5, RoundParts
  <2>7. Received(client') <=> Received(client)
    BY <2>1 DEF SameButRing, Received
  <2>8. GainsLast(client.ring, toClient[1], client'.ring)
    BY <2>4 DEF m
  <2>9. /\ RoundFlow(client', toClient', q)
        /\ Owed(client', toClient', q) <=> Owed(client, toClient, q)
    BY <2>1, <2>6, <2>7, <2>8, FlowQueuedUp
  <2>10. Awaiting
    BY <2>1 DEF Awaiting, Asking
  <2>11. q' = q /\ sub' = sub
    BY <2>1 DEF server
  <2>12. Answered' <=> Answered
    BY <2>1, <2>5, <2>10, <2>11, SamePhase DEF SameButRing
  <2>13. RoundBegun' <=> RoundBegun
    BY <2>1, <2>12, Unmoved DEF RoundBegun
  <2>14. SameBottom
    BY <2>1, BottomStays
  <2>15. RoundMode'
    BY <2>1, <2>6, <2>14, ModeStays DEF SameButRing
  <2>16. RoundCount'
    BY <2>1, <2>6, <2>9, <2>11, <2>13 DEF RoundCount, SameButRing
  <2> QED
    BY <2>9, <2>11, <2>15, <2>16
<1> QED
  BY <1>1, <1>2

LEMMA RequestRound ==
  ASSUME BaseInv, SessionInv, RoundInv,
         \/ RequestSend \/ RequestBroken \/ RequestReconnected \/ RequestLate \/ RequestLost
  PROVE  RoundInv'
<1> SUFFICES ASSUME Undisturbed' PROVE RoundInv'
  BY DEF RoundInv
<1>0. link' = "up" /\ upset' = {} /\ "await" \in Points
  BY DEF Undisturbed, Points
<1>1. /\ Typed /\ LinkInv /\ stack # << >> /\ Top.fn = "request"
  BY BaseFacts DEF RequestSend, RequestBroken, RequestReconnected, RequestLate, RequestLost,
                   Running, Returned
<1>2. CASE RequestSend
  <2>1. /\ ret = NoRet /\ Top.at = "send" /\ toServer' = Append(toServer, Top.req) /\ Go("await")
        /\ UNCHANGED <<link, toClient, server, client, upset>>
    BY <1>0, <1>2 DEF RequestSend, Running, HangUp, Disconnect, net
  <2>2. ret' = NoRet
    BY <1>0, <1>1, <2>1, GoEffect
  <2>3. ~Answered'
    <3>1. toServer' # << >>
      <4>1. toServer \in Seq(Request) /\ Top.req \in Request
        BY <1>1, BaseFacts, AskingFacts DEF FlowType
      <4> QED
        BY <2>1, <4>1
    <3> QED
      BY <3>1 DEF Answered
  <2>4. ~RoundBegun /\ ~RoundBegun' /\ Undisturbed
    BY <1>0, <2>1, <2>2, <2>3 DEF RoundBegun, Awaiting, InCall, Undisturbed
  <2>5. SameBottom
    BY <1>0, <1>1, <2>1, BottomStays
  <2>6. RoundMode => RoundMode'
    BY <2>1, <2>5, ModeStays
  <2> QED
    BY <2>1, <2>4, <2>6, RoundStill DEF server
<1>3. CASE RequestBroken
  BY <1>0, <1>3 DEF RequestBroken, HangUp, Disconnect, net
<1>4. CASE RequestLate
  BY <1>0, <1>4 DEF RequestLate
<1>5. CASE RequestReconnected
  <2>1. /\ ret # NoRet /\ Top.at = "await" /\ UNCHANGED <<net, server, client, upset>>
    BY <1>5 DEF RequestReconnected, Returned
  <2>2. link = "up" /\ Undisturbed /\ InTime /\ InTime'
    BY <1>0, <2>1 DEF net, Undisturbed, InTime
  <2>3. Go("await")
    <3>1. ~(ret < 0)
      BY <1>1, <2>1, <2>2 DEF LinkInv, HangsOn
    <3> QED
      BY <1>5, <3>1 DEF RequestReconnected
  <2>4. ret' = NoRet
    BY <1>0, <1>1, <2>3, GoEffect
  <2>5. NothingAsked
    <3>1. ~Asking
      BY <2>1 DEF Asking
    <3> QED
      BY <1>1, <2>2, <3>1, AgreesAtRest
  <2>6. ~Answered'
    BY <2>1, <2>5, StillAsked, PhasesApartPrime
  <2>7. ~RoundBegun /\ ~RoundBegun'
    BY <2>1, <2>4, <2>6 DEF RoundBegun, Awaiting, Asking, InCall
  <2>8. SameBottom
    BY <1>0, <1>1, <2>3, BottomStays
  <2>9. RoundMode => RoundMode'
    BY <2>1, <2>8, ModeStays
  <2> QED
    BY <2>1, <2>2, <2>7, <2>9, RoundStill DEF net, server
<1>6. CASE RequestLost
  <2>1. /\ ret = NoRet /\ Top.at = "await" /\ ~Coming /\ Return(-1)
        /\ UNCHANGED <<net, server, client, upset>>
    BY <1>6 DEF RequestLost, Running
  <2>2. Undisturbed
    BY <1>0, <2>1 DEF net, Undisturbed
  <2>3. ~Answered
    BY <2>1 DEF Answered, AnsweredIn, Answers, Coming
  <2>4. Depth >= 2 /\ AsksFor(Caller, Top.req)
    BY <1>1, AskingFacts
  <2> DEFINE v == -1
  <2>5. v \notin {0, NoRet} /\ Return(v)
    BY <2>1 DEF NoRet
  <2> HIDE DEF v
  <2>6. ret' = v
    BY <1>1, <2>4, <2>5, ReturnEffect
  <2>7. ~RoundBegun /\ ~RoundBegun'
    BY <2>1, <2>3, <2>5, <2>6 DEF RoundBegun, Awaiting, Asking, InCall
  <2>8. SameBottom
    BY <1>1, <2>5, BottomStays
  <2>9. RoundMode => RoundMode'
    BY <2>1, <2>8, ModeStays
  <2> QED
    BY <2>1, <2>2, <2>7, <2>9, RoundStill DEF net, server
<1> QED
  BY <1>2, <1>3, <1>4, <1>5, <1>6

(* The server. *)
LEMMA HandleRequestFlags ==
  ASSUME BaseInv, HandleRequest
  PROVE  q'.data_requested = q.data_requested /\ q'.data_delivered = q.data_delivered
<1> DEFINE r == Head(toServer)
<1>1. Plain(q) /\ q \in QueueType /\ r \in Request
  BY BaseFacts, HeadRequest DEF HandleRequest, Plain
<1>2. /\ Reply(RESP_ACK, r) \in Message /\ Reply(RESP_NACK, r) \in Message
  BY <1>1, ReplyIsMessage
<1>3. CASE r.subtype = REQ_DATAMODE /\ q' = Push(SetPull(q, r.arg = PULL), Reply(RESP_ACK, r))
  <2> DEFINE b == r.arg = PULL
             c == SetPull(q, b)
             m == Reply(RESP_ACK, r)
  <2>1. b \in BOOLEAN /\ q' = Push(c, m) /\ m \in Message
    BY <1>2, <1>3
  <2> HIDE DEF b, m
  <2>2. /\ Likewise(q, c) /\ c.data_requested = q.data_requested
        /\ c.data_delivered = q.data_delivered
    BY <1>1, <2>1, SetPullEffect
  <2> HIDE DEF c
  <2>3. Plain(c)
    BY <1>1, <2>2 DEF Plain, Likewise
  <2>4. SameRound(c, q')
    BY <2>1, <2>3, PushEffect
  <2> QED
    BY <2>2, <2>4 DEF SameRound
<1>4. CASE q' = PushFront(q, Reply(RESP_ACK, r))
  <2> DEFINE m == Reply(RESP_ACK, r)
  <2>1. m \in Message /\ q' = PushFront(q, m)
    BY <1>2, <1>4
  <2> HIDE DEF m
  <2>2. SameRound(q, q')
    BY <1>1, <2>1, PushFrontEffect
  <2> QED
    BY <2>2 DEF SameRound
<1>5. CASE q' = Push(q, Reply(RESP_NACK, r))
  <2> DEFINE m == Reply(RESP_NACK, r)
  <2>1. m \in Message /\ q' = Push(q, m)
    BY <1>2, <1>5
  <2> HIDE DEF m
  <2>2. SameRound(q, q')
    BY <1>1, <2>1, PushEffect
  <2> QED
    BY <2>2 DEF SameRound
<1>6. CASE q' = q
  BY <1>6
<1> QED
  BY <1>3, <1>4, <1>5, <1>6 DEF HandleRequest

LEMMA HandleRound ==
  ASSUME BaseInv, SessionInv, RoundInv, HandleRequest \/ HandleRefused \/ HandleRest
  PROVE  RoundInv'
<1> SUFFICES ASSUME Undisturbed' PROVE RoundInv'
  BY DEF RoundInv
<1>1. CASE HandleRefused
  BY <1>1 DEF HandleRefused, Undisturbed
<1>2. CASE HandleRequest
  <2>1. /\ toServer # << >> /\ toServer' = Tail(toServer)
        /\ UNCHANGED <<link, toClient, client, stack, ret, upset>>
    BY <1>2 DEF HandleRequest
  <2>2. Undisturbed /\ InTime
    BY <2>1 DEF Undisturbed, InTime
  <2>3. /\ Awaiting /\ ~Answered /\ Head(toServer) = Top.req /\ ~InCall
    BY <2>1, <2>2, ReadsRequest
  <2>4. Top' = Top /\ ~InCall'
    BY <2>1, <2>3, Unmoved
  <2>5. Top.req.subtype = REQ_DATA => ~Answered'
    <3>1. Top.req.subtype = REQ_DATA => serving' = Top.req
      BY <1>2, <2>3 DEF HandleRequest, REQ_DATA, REQ_DATAMODE, REQ_DEV
    <3> QED
      BY <3>1 DEF Answered, NoReq, REQ_DATA
  <2>6. ~RoundBegun /\ ~RoundBegun'
    BY <2>3, <2>4, <2>5 DEF RoundBegun
  <2>7. SameBottom
    BY <2>1, <2>3, BottomStays DEF Awaiting, Asking
  <2>8. RoundMode => RoundMode'
    BY <2>1, <2>7, ModeStays
  <2> QED
    BY <1>2, <2>1, <2>2, <2>6, <2>8, HandleRequestFlags, RoundStill
<1>3. CASE HandleRest
  <2>1. /\ serving \in Request /\ serving' = NoReq
        /\ UNCHANGED <<net, sub, client, stack, ret, upset>>
        /\ \/ /\ serving.subtype = REQ_DATA /\ q'.msgs = q.msgs /\ q'.data_requested = TRUE
              /\ q'.data_delivered = FALSE
           \/ serving.subtype # REQ_DATA /\ SameRound(q, q')
    BY <1>3, HandleRestEffect
  <2>2. Undisturbed /\ InTime /\ UNCHANGED <<link, toServer, toClient>>
    BY <2>1 DEF Undisturbed, InTime, net
  <2>3. serving # NoReq
    BY <2>1 DEF Request, NoReq, REQ_DEV, REQ_DATA, REQ_DATAMODE
  <2>4. Awaiting /\ HalfDone
    BY <2>2, <2>3 DEF SessionInv, OutstandingInv, NothingAsked, Asked, Answered
  <2>5. serving = Top.req /\ ~Answered /\ ~InCall
    BY <2>4, PhasesApart DEF HalfDone, Awaiting, Asking, InCall
  <2>6. Top' = Top /\ ~InCall' /\ Awaiting'
    BY <2>1, <2>4, <2>5, Unmoved
  <2>7. SameBottom
    BY <2>1, <2>4, BottomStays DEF Awaiting, Asking
  <2>8. ~RoundBegun
    BY <2>5 DEF RoundBegun
  <2>9. CASE serving.subtype # REQ_DATA
    <3>1. ~RoundBegun'
      BY <2>5, <2>6, <2>9 DEF RoundBegun
    <3>2. RoundMode => RoundMode'
      BY <2>1, <2>7, ModeStays
    <3> QED
      BY <2>1, <2>2, <2>8, <2>9, <3>1, <3>2, RoundStill DEF SameRound
  <2>10. CASE serving.subtype = REQ_DATA
    <3>1. RoundCount /\ RoundFlow(client, toClient, q) /\ RoundMode
      BY <2>2, RoundParts
    <3>2. AsksFor(Caller, Top.req) /\ Suits(Caller, client)
      BY <2>4, AskingFacts DEF Awaiting
    <3>3. ~client.data_requested
      BY <2>5, <2>10, <3>2, Askers DEF Suits
    <3>4. ~OfType(toClient, SYNCH) /\ ~OfType(client.ring, SYNCH)
      BY <2>8, <3>1, <3>3 DEF RoundCount, Owed
    <3>5. q'.msgs = q.msgs /\ q'.data_requested = TRUE /\ q'.data_delivered = FALSE
      BY <2>1, <2>10
    <3>6. Answered'
      BY <2>1, <2>2, <2>4, <2>5, <2>6, <2>10, <3>5 DEF HalfDone, Answered, REQ_DATA, REQ_DEV
    <3>7. RoundBegun'
      BY <2>5, <2>6, <2>10, <3>6 DEF RoundBegun
    <3>8. RoundCount'
      BY <3>5, <3>7 DEF RoundCount, Owed
    <3>9. RoundFlow(client', toClient', q')
      BY <2>1, <2>2, <3>4, <3>5 DEF RoundFlow, Closes, One, OfType
    <3>10. RoundMode'
      BY <2>1, <2>7, <3>1, ModeStays
    <3> QED
      BY <3>8, <3>9, <3>10, RoundJoin
  <2> QED
    BY <2>9, <2>10
<1> QED
  BY <1>1, <1>2, <1>3

LEMMA MovesRound ==
  ASSUME BaseInv, SessionInv, RoundInv, WriteClient \/ PublishData
  PROVE  RoundInv'
<1> SUFFICES ASSUME Undisturbed'
             PROVE  RoundCount' /\ RoundFlow(client', toClient', q') /\ RoundMode'
  BY RoundJoin
<1>1. UNCHANGED <<link, client, stack, ret, upset>>
  BY WriteClientEffect, PublishDataEffect DEF net
<1>2. Undisturbed /\ InTime
  BY <1>1 DEF Undisturbed, InTime
<1>3. RoundCount /\ RoundFlow(client, toClient, q) /\ RoundMode
  BY <1>2, RoundParts
<1>4. Awaiting => (Answered' <=> Answered)
  BY <1>2, MovesSession
<1>5. RoundBegun' <=> RoundBegun
  BY <1>1, <1>4, Unmoved DEF RoundBegun
<1>7. RoundMode'
  BY <1>1, <1>3 DEF RoundMode
<1>8. /\ RoundFlow(client, toClient', q')
      /\ Owed(client, toClient', q') <=> Owed(client, toClient, q)
  <2>1. CASE WriteClient
    <3>1. \/ /\ GainsLast(toClient, q.msgs[1], toClient') /\ Loses1st(q.msgs, q'.msgs)
             /\ q'.data_requested = q.data_requested
             /\ q'.data_delivered = (q.data_delivered \/ (q.data_requested /\ q.msgs[1].type = DATA))
          \/ /\ GainsLast(toClient, SynchMessage(q), toClient')
             /\ q.data_requested /\ q.data_delivered /\ q'.data_requested = FALSE
      BY <2>1, WriteClientEffect
    <3>2. CASE /\ GainsLast(toClient, q.msgs[1], toClient') /\ Loses1st(q.msgs, q'.msgs)
               /\ q'.data_requested = q.data_requested
               /\ q'.data_delivered = (q.data_delivered \/ (q.data_requested /\ q.msgs[1].type = DATA))
      <4>1. q.msgs[1].type # SYNCH
        <5>1. ~OfType(q.msgs, SYNCH)
          BY BaseFacts DEF QueueInv
        <5> QED
          BY <3>2, <5>1 DEF Loses1st, OfType
      <4> QED
        BY <1>3, <3>2, <4>1, FlowWritten
    <3>3. CASE /\ GainsLast(toClient, SynchMessage(q), toClient')
               /\ q.data_requested /\ q.data_delivered /\ q'.data_requested = FALSE
      <4>1. SynchMessage(q).type = SYNCH
        BY SynchIsMessage
      <4>2. RoundFlow(client, toClient', q') /\ Owed(client, toClient', q')
        BY <1>3, <3>3, <4>1, FlowClosed
      <4> QED
        BY <3>3, <4>2 DEF Owed
    <3> QED
      BY <3>1, <3>2, <3>3
  <2>2. CASE PublishData
    <3>1. SameRound(q, q') /\ toClient' = toClient
      BY <2>2, PublishDataEffect DEF net
    <3> QED
      BY <1>3, <3>1 DEF SameRound, Owed, RoundFlow
  <2> QED
    BY <2>1, <2>2
<1>9. RoundCount'
  BY <1>1, <1>3, <1>5, <1>8 DEF RoundCount
<1> QED
  BY <1>1, <1>7, <1>8, <1>9

LEMMA NextRound ==
  ASSUME BaseInv, SessionInv, RoundInv, Next
  PROVE  RoundInv'
<1>1. CASE Program
  BY <1>1, ProgramRound
<1>2. CASE RetryAttempt \/ RetryExhausted \/ ConnectFails \/ Break
  BY <1>2, StaysDown
<1>3. CASE RetryConnected \/ RetryResubscribed \/ ConnectOpens \/ ConnectDone
  BY <1>3, ReconnectRound
<1>4. CASE RequestPacket
  BY <1>4, RequestPacketRound
<1>5. CASE RequestSend \/ RequestBroken \/ RequestReconnected \/ RequestLate \/ RequestLost
  BY <1>5, RequestRound
<1>6. CASE \/ DataRequested \/ PeekPoll \/ PeekReconnected
           \/ NonblockQueued \/ NonblockPacket \/ NonblockUnclaimed \/ NonblockNothing
           \/ NonblockEndOfFile \/ NonblockHangUp
           \/ BlockReadable \/ BlockHangUp \/ BlockReconnected
  BY <1>6, ReadRound
<1>7. CASE DatamodeDone \/ SubscribeDone \/ UnsubscribeDone
  BY <1>7, DoneRound
<1>8. CASE HandleRequest \/ HandleRefused \/ HandleRest
  BY <1>8, HandleRound
<1>9. CASE WriteClient \/ PublishData
  BY <1>9, MovesRound
<1> QED
  BY <1>1, <1>2, <1>3, <1>4, <1>5, <1>6, <1>7, <1>8, <1>9 DEF Next, Library

-----------------------------------------------------------------------------
(***************************************************************************)
(* The invariant.                                                          *)
(***************************************************************************)
LEMMA InitCreated ==
  ASSUME Init, Created
  PROVE  BaseInv
<1>1. /\ link = "none" /\ toServer = << >> /\ toClient = << >> /\ serving = NoReq
      /\ stack = << >> /\ ret = NoRet /\ nextData = 1 /\ seen = 0 /\ upset = {} /\ nextReq = 1
      /\ sub = "no" /\ Depth = 0
  BY DEF Init, Created, Depth
<1>2. Plain(q) /\ ~OfType(q.msgs, SYNCH)
  BY FreshQueue DEF Created
<1>3. /\ client \in ClientType /\ client.connected = FALSE /\ client.subscribed = FALSE
      /\ client.data_requested = FALSE /\ client.ring = << >>
  BY DEF Created, ClientType, PUSH, PULL
<1>4. FlowType /\ Typed
  BY <1>1, <1>2, <1>3, ConstantsAssumption DEF FlowType, Typed, Plain, Irregularities
<1>5. StackInv /\ CounterInv /\ QueueInv /\ LinkInv
  BY <1>1, <1>2, <1>3 DEF StackInv, CounterInv, QueueInv, LinkInv, Plain
<1> QED
  BY <1>4, <1>5, TypeJoin DEF BaseInv

LEMMA InitSettled ==
  ASSUME Init, Settled
  PROVE  /\ BaseInv /\ q.pull = TRUE /\ q.msgs = << >> /\ q.data_requested = FALSE
<1>1. /\ link = "up" /\ toServer = << >> /\ toClient = << >> /\ serving = NoReq
      /\ stack = << >> /\ ret = NoRet /\ nextData = 1 /\ seen = 0 /\ upset = {} /\ nextReq = 3
      /\ sub = "yes" /\ Depth = 0
  BY DEF Init, Settled, Depth
<1> DEFINE c == NewQueue(FALSE, Maxlen)
           b == TRUE
<1>2. /\ Plain(c) /\ c.msgs = << >> /\ c.data_requested = FALSE /\ ~OfType(c.msgs, SYNCH)
  BY FreshQueue
<1>3. q = SetPull(c, b) /\ b \in BOOLEAN /\ b = TRUE
  BY DEF Settled
<1> HIDE DEF c, b
<1>4. /\ Likewise(c, q) /\ q.msgs = c.msgs /\ q.pull = b /\ q.data_requested = c.data_requested
  BY <1>2, <1>3, SetPullEffect DEF Plain
<1>5. Plain(q) /\ ~OfType(q.msgs, SYNCH)
  BY <1>2, <1>4 DEF Plain, Likewise
<1>6. /\ client \in ClientType /\ client.connected = TRUE /\ client.ring = << >>
  BY DEF Settled, ClientType, PUSH, PULL
<1>7. FlowType /\ Typed
  BY <1>1, <1>5, <1>6, ConstantsAssumption DEF FlowType, Typed, Plain, Irregularities
<1>8. StackInv /\ CounterInv /\ QueueInv /\ LinkInv
  BY <1>1, <1>5, <1>6 DEF StackInv, CounterInv, QueueInv, LinkInv, Plain
<1> QED
  BY <1>2, <1>3, <1>4, <1>7, <1>8, TypeJoin DEF BaseInv

LEMMA InitHolds ==
  ASSUME Init
  PROVE  IInv
<1>1. /\ toServer = << >> /\ toClient = << >> /\ serving = NoReq /\ stack = << >>
      /\ ret = NoRet /\ nextData = 1 /\ seen = 0 /\ upset = {}
  BY DEF Init
<1>2. BaseInv
  BY InitCreated, InitSettled DEF Init
<1>3. q.msgs = << >> /\ client.ring = << >>
  <2>1. CASE Created
    BY <2>1, FreshQueue DEF Created
  <2>2. CASE Settled
    <3>1. q.msgs = << >>
      BY <2>2, InitSettled
    <3> QED
      BY <2>2, <3>1 DEF Settled
  <2> QED
    BY <2>1, <2>2 DEF Init
<1>4. OrderInv
  BY <1>1, <1>3, EmptyList DEF OrderInv, Ordered, Before
<1>5. ~Asking /\ ~InCall /\ ~Awaiting /\ NothingAsked
  BY <1>1, <1>3, EmptyList DEF Asking, InCall, Awaiting, NothingAsked
<1>6. CASE Created
  <2>1. link # "up"
    BY <1>6 DEF Created
  <2>2. SessionInv /\ RoundInv
    BY <2>1 DEF SessionInv, OutstandingInv, ModeInv, SubInv, RoundInv, InTime, Regular,
                Undisturbed
  <2> QED
    BY <1>2, <1>4, <2>2 DEF IInv
<1>7. CASE Settled
  <2>1. q.pull = TRUE /\ q.data_requested = FALSE
    BY <1>7, InitSettled
  <2>2. client.mode = PULL /\ client.subscribed = TRUE /\ client.data_requested = FALSE
        /\ sub = "yes"
    BY <1>7 DEF Settled
  <2>3. ModeAgrees /\ SubAgrees
    BY <2>1, <2>2 DEF ModeAgrees, SubAgrees
  <2>4. ModeSettled /\ SubSettled
    BY <1>5 DEF ModeSettled, SubSettled
  <2>5. SessionInv
    BY <1>5, <2>2, <2>3, <2>4 DEF SessionInv, OutstandingInv, ModeInv, SubInv
  <2>6. ~Owed(client, toClient, q) /\ ~RoundBegun
    BY <1>1, <1>3, <1>5, <2>1, EmptyList DEF Owed, RoundBegun
  <2>7. RoundCount /\ RoundFlow(client, toClient, q) /\ RoundMode
    BY <2>2, <2>6, FlowQuiet DEF RoundCount, RoundMode
  <2>8. RoundInv
    BY <2>7, RoundParts
  <2> QED
    BY <1>2, <1>4, <2>5, <2>8 DEF IInv
<1> QED
  BY <1>6, <1>7 DEF Init

LEMMA StutterKeeps ==
  ASSUME IInv, UNCHANGED vars
  PROVE  IInv'
<1>1. /\ UNCHANGED <<link, toServer, toClient, q, sub, serving, client, stack, ret, nextReq,
                     nextData, seen, upset>>
  BY DEF vars
<1>2. FlowType /\ QueueInv /\ CounterInv /\ LinkInv
  BY BaseFacts DEF IInv
<1>3. FlowType' /\ QueueInv'
  BY <1>1, <1>2 DEF FlowType, QueueInv
<1>4. BaseInv'
  BY <1>1, <1>2, <1>3, OutsideBase DEF IInv, CounterInv, LinkInv
<1>5. OrderInv'
  BY <1>1, OrderStill DEF IInv
<1>6. Top' = Top
  BY <1>1, Unmoved
<1>7. PhasesStay
  BY <1>1, <1>6 DEF PhasesStay, NothingAsked, Asked, HalfDone, Answered
<1>8. /\ SessionInv'
      /\ InTime /\ Awaiting => (Answered' <=> Answered)
  BY <1>1, <1>7, SamePhase DEF IInv
<1>9. Undisturbed' => Undisturbed /\ InTime
  BY <1>1 DEF Undisturbed, InTime
<1>10. Undisturbed' => (RoundBegun' <=> RoundBegun)
  BY <1>1, <1>8, <1>9, Unmoved DEF RoundBegun
<1>11. RoundMode => RoundMode'
  BY <1>1 DEF RoundMode
<1>12. RoundInv'
  BY <1>1, <1>9, <1>10, <1>11, RoundStill DEF IInv
<1> QED
  BY <1>4, <1>5, <1>8, <1>12 DEF IInv

LEMMA NextKeeps ==
  ASSUME IInv, [Next]_vars
  PROVE  IInv'
<1>1. CASE Next
  BY <1>1, NextBase, NextOrder, NextSession, NextRound DEF IInv
<1> QED
  BY <1>1, StutterKeeps

(* Whatever the program calls, the server answers and the network loses,   *)
(* the invariant holds: it is inductive.                                   *)
THEOREM ClientInvariant == Spec => []IInv
<1>1. Init => IInv
  BY InitHolds
<1>2. IInv /\ [Next]_vars => IInv'
  BY NextKeeps
<1> QED
  BY <1>1, <1>2, PTL DEF Spec

-----------------------------------------------------------------------------
(***************************************************************************)
(* What follows from it.                                                   *)
(***************************************************************************)

(* Messages keep their types, a client's ring never holds more than        *)
(* PLAYERC_QUEUE_RING_SIZE packets, and every activation of a function of  *)
(* client.c rests on a call of the program.                                *)
THEOREM ClientTypes == Spec => []TypeOK
<1>1. IInv => TypeOK
  BY DEF IInv, BaseInv
<1> QED
  BY <1>1, ClientInvariant, PTL

(* A client whose data_requested is set, so that playerc_client_read waits *)
(* for a SYNCH, is owed one by the server.                                 *)
THEOREM RoundIsOwed == Spec => []NoVainWait
<1>1. IInv => NoVainWait
  BY DEF IInv, RoundInv, Undisturbed, NoVainWait
<1> QED
  BY <1>1, ClientInvariant, PTL

LEMMA ConcatOf ==
  ASSUME NEW a \in Seq(Message), NEW b \in Seq(Message)
  PROVE  /\ a \o b \in Seq(Message) /\ Len(a) \in Nat /\ Len(b) \in Nat
         /\ DOMAIN a = 1..Len(a) /\ DOMAIN b = 1..Len(b)
         /\ DOMAIN (a \o b) = 1..(Len(a) + Len(b))
         /\ \A i \in DOMAIN a : (a \o b)[i] = a[i]
         /\ \A i \in DOMAIN (a \o b) :
              \/ i \in DOMAIN a /\ (a \o b)[i] = a[i]
              \/ i > Len(a) /\ i - Len(a) \in DOMAIN b /\ (a \o b)[i] = b[i - Len(a)]
         /\ \A j \in DOMAIN b : (a \o b)[Len(a) + j] = b[j]
OBVIOUS

(* A SYNCH on its way to the client, or in its ring, has data of its round *)
(* before it, or the client has received some: playerc_client_read does    *)
(* not fail with "No data received".                                       *)
THEOREM RoundsAreNotEmpty == Spec => []RoundHasData
<1>1. ASSUME IInv PROVE RoundHasData
  <2> DEFINE a == client.ring
             b == toClient
             s == a \o b
  <2> SUFFICES ASSUME Undisturbed, NEW i \in DOMAIN s, s[i].type = SYNCH, ~client.data_received
               PROVE  \E j \in 1..(i-1) : s[j].type = DATA
    BY DEF RoundHasData, Undisturbed
  <2>1. a \in Seq(Message) /\ b \in Seq(Message)
    BY <1>1, BaseFacts DEF IInv, FlowType, ClientType
  <2>2. RoundFlow(client, toClient, q)
    BY <1>1, RoundParts DEF IInv
  <2>3. ~Received(client)
    BY DEF Received
  <2>4. /\ \A k \in DOMAIN a : a[k].type = SYNCH => \E j \in 1..(k-1) : a[j].type = DATA
        /\ \A k \in DOMAIN b : b[k].type = SYNCH =>
             OfType(a, DATA) \/ \E j \in 1..(k-1) : b[j].type = DATA
    BY <2>2, <2>3 DEF RoundFlow, Closes
  <2> HIDE DEF a, b
  <2>5. /\ Len(a) \in Nat /\ Len(b) \in Nat
        /\ DOMAIN a = 1..Len(a) /\ DOMAIN b = 1..Len(b)
        /\ DOMAIN s = 1..(Len(a) + Len(b))
        /\ \A k \in DOMAIN a : s[k] = a[k]
        /\ \A k \in DOMAIN s :
             \/ k \in DOMAIN a /\ s[k] = a[k]
             \/ k > Len(a) /\ k - Len(a) \in DOMAIN b /\ s[k] = b[k - Len(a)]
        /\ \A j \in DOMAIN b : s[Len(a) + j] = b[j]
    BY <2>1, ConcatOf
  <2> HIDE DEF s
  <2>6. CASE i \in DOMAIN a /\ s[i] = a[i]
    <3>1. PICK j \in 1..(i-1) : a[j].type = DATA
      BY <2>4, <2>6
    <3>2. j \in DOMAIN a
      BY <2>5, <2>6, <3>1
    <3> QED
      BY <2>5, <3>1, <3>2
  <2>7. CASE i > Len(a) /\ i - Len(a) \in DOMAIN b /\ s[i] = b[i - Len(a)]
    <3>1. CASE OfType(a, DATA)
      <4>1. PICK j \in DOMAIN a : a[j].type = DATA
        BY <3>1 DEF OfType
      <4> QED
        BY <2>5, <2>7, <4>1
    <3>2. CASE \E j \in 1..((i - Len(a)) - 1) : b[j].type = DATA
      <4>1. PICK j \in 1..((i - Len(a)) - 1) : b[j].type = DATA
        BY <3>2
      <4>2. j \in DOMAIN b /\ Len(a) + j \in 1..(i-1)
        BY <2>5, <2>7, <4>1
      <4> QED
        BY <2>5, <4>1, <4>2
    <3> QED
      BY <2>4, <2>7, <3>1, <3>2
  <2> QED
    BY <2>5, <2>6, <2>7
<1> QED
  BY <1>1, ClientInvariant, PTL

(* Data reaches the program in the order of its publication and never      *)
(* twice, whatever replies came late, packets the ring lost and            *)
(* connections broke.                                                      *)
THEOREM DataKeepsOrder == Spec => []DataInOrder
<1>1. ASSUME IInv PROVE DataInOrder
  <2> DEFINE a == client.ring
             b == toClient
             c == q.msgs
             ab == a \o b
             s == ab \o c
  <2>1. a \in Seq(Message) /\ b \in Seq(Message) /\ c \in Seq(Message)
    BY <1>1, BaseFacts DEF IInv, FlowType, ClientType, QueueType
  <2>2. Ordered(a, b, c, seen, nextData)
    BY <1>1 DEF IInv, OrderInv
  <2> SUFFICES \A i \in DOMAIN s : s[i].type = DATA =>
                 /\ seen < s[i].id
                 /\ \A j \in DOMAIN s : s[j].type = DATA /\ i < j => s[i].id < s[j].id
    BY DEF DataInOrder
  <2> HIDE DEF a, b, c
  <2>3. /\ ab \in Seq(Message) /\ Len(ab) \in Nat /\ DOMAIN ab = 1..Len(ab)
        /\ \A i \in DOMAIN ab :
             \/ i \in DOMAIN a /\ ab[i] = a[i]
             \/ i > Len(a) /\ i - Len(a) \in DOMAIN b /\ ab[i] = b[i - Len(a)]
        /\ Len(a) \in Nat /\ DOMAIN a = 1..Len(a) /\ DOMAIN b = 1..Len(b) /\ Len(b) \in Nat
    <3>1. ab \in Seq(Message)
      BY <2>1, ConcatOf
    <3> QED
      BY <2>1, <3>1, ConcatOf
  <2> HIDE DEF ab
  <2>4. /\ DOMAIN s = 1..(Len(ab) + Len(c)) /\ Len(c) \in Nat /\ DOMAIN c = 1..Len(c)
        /\ \A i \in DOMAIN s :
             \/ i \in DOMAIN ab /\ s[i] = ab[i]
             \/ i > Len(ab) /\ i - Len(ab) \in DOMAIN c /\ s[i] = c[i - Len(ab)]
    BY <2>1, <2>3, ConcatOf
  <2> HIDE DEF s
  <2>5. /\ \A i \in DOMAIN a : a[i].type = DATA => a[i].id \in Ids(a)
        /\ \A i \in DOMAIN b : b[i].type = DATA => b[i].id \in Ids(b)
        /\ \A i \in DOMAIN c : c[i].type = DATA => c[i].id \in Ids(c)
    BY DEF Ids
  <2>6. \A i \in DOMAIN ab : ab[i].type = DATA =>
          /\ seen < ab[i].id
          /\ \A y \in Ids(c) : ab[i].id < y
          /\ \A j \in DOMAIN ab : ab[j].type = DATA /\ i < j => ab[i].id < ab[j].id
    <3> SUFFICES ASSUME NEW i \in DOMAIN ab, ab[i].type = DATA
                 PROVE  /\ seen < ab[i].id
                        /\ \A y \in Ids(c) : ab[i].id < y
                        /\ \A j \in DOMAIN ab :
                             ab[j].type = DATA /\ i < j => ab[i].id < ab[j].id
      OBVIOUS
    <3>1. CASE i \in DOMAIN a /\ ab[i] = a[i]
      <4>1. a[i].id \in Ids(a) /\ seen < a[i].id /\ \A y \in Ids(c) : a[i].id < y
        BY <2>2, <2>5, <3>1 DEF Ordered, Before
      <4>2. ASSUME NEW j \in DOMAIN ab, ab[j].type = DATA, i < j PROVE a[i].id < ab[j].id
        <5>1. CASE j \in DOMAIN a /\ ab[j] = a[j]
          BY <2>2, <3>1, <4>2, <5>1 DEF Ordered, Ascending
        <5>2. CASE j - Len(a) \in DOMAIN b /\ ab[j] = b[j - Len(a)]
          BY <2>2, <2>5, <4>1, <4>2, <5>2 DEF Ordered, Before
        <5> QED
          BY <2>3, <5>1, <5>2
      <4> QED
        BY <3>1, <4>1, <4>2
    <3>2. CASE i > Len(a) /\ i - Len(a) \in DOMAIN b /\ ab[i] = b[i - Len(a)]
      <4>1. /\ b[i - Len(a)].id \in Ids(b) /\ seen < b[i - Len(a)].id
            /\ \A y \in Ids(c) : b[i - Len(a)].id < y
        BY <2>2, <2>5, <3>2 DEF Ordered, Before
      <4>2. ASSUME NEW j \in DOMAIN ab, ab[j].type = DATA, i < j PROVE ab[i].id < ab[j].id
        <5>1. j > Len(a) /\ j - Len(a) \in DOMAIN b /\ ab[j] = b[j - Len(a)]
          BY <2>3, <3>2, <4>2
        <5>2. i - Len(a) < j - Len(a)
          BY <2>3, <3>2, <4>2, <5>1
        <5> QED
          BY <2>2, <3>2, <4>2, <5>1, <5>2 DEF Ordered, Ascending
      <4> QED
        BY <3>2, <4>1, <4>2
    <3> QED
      BY <2>3, <3>1, <3>2
  <2> SUFFICES ASSUME NEW i \in DOMAIN s, s[i].type = DATA
               PROVE  /\ seen < s[i].id
                      /\ \A j \in DOMAIN s : s[j].type = DATA /\ i < j => s[i].id < s[j].id
    OBVIOUS
  <2>7. CASE i \in DOMAIN ab /\ s[i] = ab[i]
    <3>1. ASSUME NEW j \in DOMAIN s, s[j].type = DATA, i < j PROVE s[i].id < s[j].id
      <4>1. CASE j \in DOMAIN ab /\ s[j] = ab[j]
        BY <2>6, <2>7, <3>1, <4>1
      <4>2. CASE j - Len(ab) \in DOMAIN c /\ s[j] = c[j - Len(ab)]
        BY <2>5, <2>6, <2>7, <3>1, <4>2
      <4> QED
        BY <2>4, <4>1, <4>2
    <3> QED
      BY <2>6, <2>7, <3>1
  <2>8. CASE i > Len(ab) /\ i - Len(ab) \in DOMAIN c /\ s[i] = c[i - Len(ab)]
    <3>1. seen < s[i].id
      BY <2>2, <2>5, <2>8 DEF Ordered, Before
    <3>2. ASSUME NEW j \in DOMAIN s, s[j].type = DATA, i < j PROVE s[i].id < s[j].id
      <4>1. j > Len(ab) /\ j - Len(ab) \in DOMAIN c /\ s[j] = c[j - Len(ab)]
        BY <2>3, <2>4, <2>8, <3>2
      <4>2. i - Len(ab) < j - Len(ab)
        BY <2>3, <2>4, <2>8, <3>2, <4>1
      <4> QED
        BY <2>2, <2>8, <3>2, <4>1, <4>2 DEF Ordered, Ascending
    <3> QED
      BY <3>1, <3>2
  <2> QED
    BY <2>4, <2>7, <2>8
<1> QED
  BY <1>1, ClientInvariant, PTL

(* As long as no reply has come late, all that is on its way is one        *)
(* request, the one on top of the stack, or one reply, to that request:    *)
(* playerc_client_request may take the first reply for its own.            *)
THEOREM RepliesMatchRequests == Spec => []OneOutstanding
<1>1. ASSUME IInv PROVE OneOutstanding
  <2> DEFINE A == {toServer[i].id : i \in DOMAIN toServer}
             B == {q.msgs[i].id : i \in {k \in DOMAIN q.msgs : IsResponse(q.msgs[k])}}
             C == {toClient[i].id : i \in {k \in DOMAIN toClient : IsResponse(toClient[k])}}
  <2> SUFFICES ASSUME InTime, A \cup B \cup C # {}
               PROVE  /\ stack # << >> /\ Top.fn = "request" /\ A \cup B \cup C = {Top.req.id}
                      /\ \A i, j \in DOMAIN toClient :
                           (IsResponse(toClient[i]) /\ IsResponse(toClient[j])) => i = j
    BY DEF OneOutstanding, InTime
  <2>1. /\ toServer = << >> => A = {}
        /\ toServer = <<Top.req>> => A = {Top.req.id}
    OBVIOUS
  <2>2. /\ Unanswered(q.msgs) => B = {}
        /\ Unanswered(toClient) => C = {}
    BY DEF Unanswered
  <2>3. AnsweredIn(q.msgs, Top.req, sub) => B = {Top.req.id}
    BY DEF AnsweredIn, Answers
  <2>4. /\ AnsweredIn(toClient, Top.req, sub) => C = {Top.req.id}
        /\ AnsweredIn(toClient, Top.req, sub) \/ Unanswered(toClient) =>
             \A i, j \in DOMAIN toClient :
               (IsResponse(toClient[i]) /\ IsResponse(toClient[j])) => i = j
    BY DEF AnsweredIn, Answers, Unanswered
  <2> HIDE DEF A, B, C
  <2>5. ~NothingAsked
    BY <2>1, <2>2 DEF NothingAsked
  <2>6. Awaiting /\ (Asked \/ HalfDone \/ Answered)
    BY <1>1, <2>5 DEF IInv, SessionInv, OutstandingInv
  <2>7. stack # << >> /\ Top.fn = "request"
    BY <2>6 DEF Awaiting, Asking
  <2>8. CASE Asked
    BY <2>1, <2>2, <2>4, <2>7, <2>8 DEF Asked
  <2>9. CASE HalfDone
    BY <2>1, <2>2, <2>3, <2>4, <2>7, <2>9 DEF HalfDone
  <2>10. CASE Answered
    BY <2>1, <2>2, <2>3, <2>4, <2>7, <2>10 DEF Answered
  <2> QED
    BY <2>6, <2>8, <2>9, <2>10
<1> QED
  BY <1>1, ClientInvariant, PTL

(* Between calls, on a standing connection, the server has the data mode   *)
(* and the subscription that the client believes in, after a first         *)
(* connection and after any reconnection of the library.                   *)
THEOREM SessionsAgree == Spec => []SessionAgrees
<1>1. ASSUME IInv PROVE SessionAgrees
  <2> SUFFICES ASSUME stack = << >>, Regular
               PROVE  /\ client.connected
                      /\ q.pull = (client.mode = PULL)
                      /\ (sub = "yes") = client.subscribed
    BY DEF SessionAgrees, Regular
  <2>1. ModeAgrees /\ SubAgrees
    BY <1>1, BetweenCalls, RegularIsInTime DEF IInv
  <2>2. client.connected
    <3>1. LinkInv /\ Depth = 0
      BY <1>1, BaseFacts DEF IInv, Depth
    <3> QED
      BY <3>1 DEF LinkInv, Regular
  <2> QED
    BY <2>1, <2>2 DEF ModeAgrees, SubAgrees
<1> QED
  BY <1>1, ClientInvariant, PTL
=============================================================================
