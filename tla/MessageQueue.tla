---------------------------- MODULE MessageQueue ----------------------------
(***************************************************************************)
(* libplayercore/message.{h,cc}: the value of one MessageQueue and the     *)
(* effect of its operations while the queue's own mutex is held.           *)
(*                                                                         *)
(* A queue is a record; an operation is an operator from a queue to the    *)
(* queue it leaves behind.  The modules that model threads (QueueThreads,  *)
(* DeviceRequest, ClientLibrary) apply one operator per critical section.  *)
(*                                                                         *)
(* Abstractions: a device address (host, robot, interf, index) is one      *)
(* natural number, its payload and time stamp are the message's id.  The   *)
(* doubly linked list and its Length are the sequence msgs and Len(msgs).  *)
(***************************************************************************)
EXTENDS Integers, Sequences, SequencesExt

(* libplayerinterface/player.h: message types *)
DATA      == 1
CMD       == 2
REQ       == 3
RESP_ACK  == 4
SYNCH     == 5
RESP_NACK == 6

(* interfaces/001_player.def: request subtypes, replacement rules and synch subtypes *)
REQ_DATA     == 4
REQ_DATAMODE == 5
ACCEPT  == 0
REPLACE == 1
IGNORE  == 2
SYNCH_OK       == 1
SYNCH_OVERFLOW == 2

(* "Set any of the first 6 arguments to -1 to indicate don't care" *)
DontCare == -1

(* The address of the player interface itself (host, robot, index zero). *)
PLAYER_PLAYER_CODE == 0

Header == [type : DATA..RESP_NACK, subtype : Nat, addr : Nat]
Message == [type : DATA..RESP_NACK, subtype : Nat, addr : Nat, id : Nat]
Rule == [type : Int, subtype : Int, addr : Int, replace : ACCEPT..IGNORE]
FilterSpec == [type : Int, subtype : Int, addr : Int]

WithId(h, n) ==
  [type |-> h.type, subtype |-> h.subtype, addr |-> h.addr, id |-> n]

IsResponse(m) == m.type \in {RESP_ACK, RESP_NACK}
IsDataOrCmd(m) == m.type \in {DATA, CMD}

(***************************************************************************)
(* Matching.                                                               *)
(***************************************************************************)
MatchMessage(m, type, subtype, addr) ==
  /\ type < 0 \/ m.type = type
  /\ subtype < 0 \/ m.subtype = subtype
  /\ m.addr = addr

Compare(m, other) == MatchMessage(m, other.type, other.subtype, other.addr)

RuleMatch(r, m) ==
  /\ r.addr < 0 \/ r.addr = m.addr
  /\ r.type < 0 \/ r.type = m.type
  /\ r.subtype < 0 \/ r.subtype = m.subtype

Equivalent(r, s) ==
  r.addr = s.addr /\ r.type = s.type /\ r.subtype = s.subtype

(* A negative filter type admits the two kinds of response and nothing else. *)
Filter(f, m) ==
  /\ f.addr < 0 \/ f.addr = m.addr
  /\ (f.type < 0 /\ IsResponse(m)) \/ f.type = m.type
  /\ f.subtype < 0 \/ f.subtype = m.subtype

(***************************************************************************)
(* The queue.                                                              *)
(***************************************************************************)
NoFilter == [type |-> 0, subtype |-> 0, addr |-> 0]

NewQueue(_Replace, _Maxlen) ==
  [msgs |-> << >>, rules |-> << >>, Replace |-> _Replace, Maxlen |-> _Maxlen,
   filter_on |-> FALSE, filter |-> NoFilter, pull |-> FALSE,
   data_requested |-> FALSE, data_delivered |-> FALSE, drop_count |-> FALSE]

QueueType ==
  [msgs : Seq(Message), rules : Seq(Rule), Replace : BOOLEAN, Maxlen : Nat,
   filter_on : BOOLEAN, filter : FilterSpec, pull : BOOLEAN,
   data_requested : BOOLEAN, data_delivered : BOOLEAN, drop_count : BOOLEAN]

FilterFriendly(q, m) == ~q.filter_on \/ Filter(q.filter, m)

(* An equivalent rule is overwritten in place, a new one goes to the end. *)
AddReplaceRule(q, r) ==
  IF \E i \in DOMAIN q.rules : Equivalent(q.rules[i], r)
  THEN [q EXCEPT !.rules =
          [i \in DOMAIN q.rules |->
             IF /\ Equivalent(q.rules[i], r)
                /\ \A j \in 1..(i-1) : ~Equivalent(q.rules[j], r)
             THEN r ELSE q.rules[i]]]
  ELSE [q EXCEPT !.rules = Append(q.rules, r)]

(* The first matching rule decides, and failing that the default rule.  A  *)
(* type with no default is reported and treated as "return(false)", which  *)
(* is the value of ACCEPT.                                                 *)
FirstMatch(q, m) ==
  {i \in DOMAIN q.rules : /\ RuleMatch(q.rules[i], m)
                          /\ \A j \in 1..(i-1) : ~RuleMatch(q.rules[j], m)}

CheckReplace(q, m) ==
  IF FirstMatch(q, m) # {}
  THEN q.rules[CHOOSE i \in FirstMatch(q, m) : TRUE].replace
  ELSE IF IsDataOrCmd(m) /\ q.Replace THEN REPLACE ELSE ACCEPT

(* MessageQueue::Remove unlinks one element. *)
RemoveElement(msgs, i) == RemoveAt(msgs, i)

(* The element nearest the tail with the signature of m. *)
LastSame(msgs, m) ==
  {i \in DOMAIN msgs : /\ Compare(msgs[i], m)
                       /\ \A j \in (i+1)..Len(msgs) : ~Compare(msgs[j], m)}

WithoutLastSame(msgs, m) ==
  IF LastSame(msgs, m) = {} THEN msgs
  ELSE RemoveElement(msgs, CHOOSE i \in LastSame(msgs, m) : TRUE)

PushBack(msgs, m) == Append(msgs, m)

PushFront(q, m) == [q EXCEPT !.msgs = <<m>> \o q.msgs]

(* Mutation: requests and replies are discarded too. *)
OverflowsAnyType(q, m) ==
  CheckReplace(q, m) = ACCEPT /\ Len(q.msgs) >= q.Maxlen

(* Mutation: a message that would replace another is discarded too. *)
OverflowsReplacing(q, m) == IsDataOrCmd(m) /\ Len(q.msgs) >= q.Maxlen

(* Mutation: off by one. *)
OverflowsLate(q, m) ==
  CheckReplace(q, m) = ACCEPT /\ IsDataOrCmd(m) /\ Len(q.msgs) > q.Maxlen

(* A message that overflows the queue: only data and commands are discarded. *)
Overflows(q, m) ==
  CheckReplace(q, m) = ACCEPT /\ IsDataOrCmd(m) /\ Len(q.msgs) >= q.Maxlen

(* Does Push put m on the queue (and so go on to wake the waiting thread)? *)
Queues(q, m) == CheckReplace(q, m) # IGNORE /\ ~Overflows(q, m)

(* drop_count is declared bool, so ++ leaves it true however many are lost. *)
Push(q, m) ==
  IF CheckReplace(q, m) = IGNORE THEN q
  ELSE IF Overflows(q, m) THEN [q EXCEPT !.drop_count = TRUE]
  ELSE IF CheckReplace(q, m) = REPLACE
       THEN [q EXCEPT !.msgs = PushBack(WithoutLastSame(q.msgs, m), m)]
       ELSE [q EXCEPT !.msgs = PushBack(q.msgs, m)]

SetFilter(q, f) == [q EXCEPT !.filter = f, !.filter_on = TRUE]
ClearFilter(q) == [q EXCEPT !.filter_on = FALSE]
SetReplace(q, b) == [q EXCEPT !.Replace = b]
SetPull(q, b) == [q EXCEPT !.pull = b]
(* Mutation: what the last frame delivered is not forgotten. *)
SetDataRequestedStale(q, d) == [q EXCEPT !.data_requested = d]

SetDataRequested(q, d) ==
  [q EXCEPT !.data_requested = d, !.data_delivered = FALSE]

(***************************************************************************)
(* Pop.  Outside a data request every message up to and including the last *)
(* response goes out; otherwise the first filter-friendly message does,    *)
(* and in pull mode only while data is requested.                          *)
(***************************************************************************)
ResponsePending(q) ==
  /\ ~q.filter_on /\ ~q.data_requested
  /\ \E i \in DOMAIN q.msgs : IsResponse(q.msgs[i])

Deliverable(q, i) ==
  \/ ResponsePending(q)
  \/ FilterFriendly(q, q.msgs[i]) /\ (~q.pull \/ q.data_requested)

(* Mutation: the search starts at the tail. *)
PopIndexFromTail(q) ==
  {i \in DOMAIN q.msgs : /\ Deliverable(q, i)
                         /\ \A j \in (i+1)..Len(q.msgs) : ~Deliverable(q, j)}

PopIndex(q) ==
  {i \in DOMAIN q.msgs : /\ Deliverable(q, i)
                         /\ \A j \in 1..(i-1) : ~Deliverable(q, j)}

(* Mutation: delivered data is not recorded. *)
PopAtUnrecorded(q, i) == [q EXCEPT !.msgs = RemoveElement(q.msgs, i)]

PopAt(q, i) ==
  [q EXCEPT !.msgs = RemoveElement(q.msgs, i),
            !.data_delivered = \/ q.data_delivered
                               \/ q.data_requested /\ q.msgs[i].type = DATA]

(* Nothing to deliver, but the frame of a pull request has to be closed. *)
SynchDue(q) ==
  PopIndex(q) = {} /\ q.pull /\ q.data_requested /\ q.data_delivered

(* The payload of an OVERFLOW synch is read through a pointer to the one   *)
(* byte drop_count; only that byte is the queue's, and it is 1.            *)
SynchMessage(q) ==
  [type |-> SYNCH, addr |-> PLAYER_PLAYER_CODE, id |-> 0,
   subtype |-> IF q.drop_count THEN SYNCH_OVERFLOW ELSE SYNCH_OK]

AfterSynch(q) == SetDataRequested([q EXCEPT !.drop_count = FALSE], FALSE)
=============================================================================
