--------------------------- MODULE DeviceRequest ---------------------------
(***************************************************************************)
(* Device::TimedRequest (libplayercore/device.cc): a driver, the           *)
(* requester, asks another driver, the server of the device, and waits for *)
(* the reply on its own InQueue.  It puts the request on the server's      *)
(* queue, sets a filter on its own, and takes what passes the filter.      *)
(* Between requests it runs Driver::ProcessMessages on the same queue.     *)
(*                                                                         *)
(* In a threaded call the requester sleeps in Wait and the server driver   *)
(* is run by another thread; otherwise the requester itself updates the    *)
(* server driver in its loop.  The requester's queue is a MessageQueue, so *)
(* Push, Pop, SetFilter and ClearFilter are those of message.cc; a         *)
(* message's id is the number of the request it asks or answers, and 0 for *)
(* data.                                                                   *)
(***************************************************************************)
EXTENDS MessageQueue

CONSTANTS
  Subtypes,       \* subtypes of the requests made
  Calls,          \* pairs of TimedRequest's arguments threaded and timeout (in
                  \* turns of the loop; 0 waits for ever)
  MaxRequests,    \* bound on the requests made
  MaxData,        \* bound on the data messages the server publishes
  MaxFlips        \* bound on the changes of HasSubscriptions

ASSUME ConstantsAssumption ==
  /\ Subtypes \subseteq Nat /\ Calls \subseteq BOOLEAN \X Nat
  /\ MaxRequests \in Nat /\ MaxData \in Nat /\ MaxFlips \in Nat

VARIABLES
  queue,        \* the requester's InQueue
  inbox,        \* the requests on the server driver's InQueue
  served,       \* HasSubscriptions() of the server driver
  pc,           \* where the requester is
  subtype,      \* subtype of the request in progress
  threaded,     \* is it a threaded one?
  timeout,      \* what is left of its timeout
  requests,     \* number of requests made so far
  published,    \* number of data messages published so far
  flips,        \* number of changes of served so far
  answered,     \* history: answered[n]: the request whose reply answered n
  abandoned     \* history: requests given up without a reply

vars == <<queue, inbox, served, pc, subtype, threaded, timeout, requests,
          published, flips, answered, abandoned>>

DeviceAddr == 1

PCs == {"idle", "sent", "loop", "asleep", "pop"}

TypeOK ==
  /\ queue \in QueueType
  /\ inbox \in Seq(Message)
  /\ served \in BOOLEAN
  /\ pc \in PCs
  /\ subtype \in Nat /\ threaded \in BOOLEAN /\ timeout \in Nat
  /\ requests \in Nat /\ published \in Nat /\ flips \in Nat
  /\ answered \in [1..MaxRequests -> Nat]
  /\ abandoned \subseteq 1..MaxRequests

Init ==
  /\ queue = NewQueue(FALSE, MaxData + MaxRequests)
  /\ inbox = << >>
  /\ served = TRUE
  /\ pc = "idle"
  /\ subtype = 0 /\ threaded = TRUE /\ timeout = 0
  /\ requests = 0 /\ published = 0 /\ flips = 0
  /\ answered = [n \in 1..MaxRequests |-> 0]
  /\ abandoned = {}

Msg(t, s, n) == [type |-> t, subtype |-> s, addr |-> DeviceAddr, id |-> n]

(***************************************************************************)
(* The requester.                                                          *)
(***************************************************************************)
requester == <<pc, subtype, threaded, timeout, requests, answered, abandoned>>
asked == <<subtype, threaded, requests>>
elsewhere == <<inbox, served, published, flips>>

PutRequest(s, call) ==
  /\ pc = "idle" /\ requests < MaxRequests
  /\ requests' = requests + 1
  /\ inbox' = Append(inbox, Msg(REQ, s, requests'))
  /\ subtype' = s /\ threaded' = call[1] /\ timeout' = call[2]
  /\ pc' = "sent"
  /\ UNCHANGED <<queue, served, published, flips, answered, abandoned>>

SetRequestFilter ==
  /\ pc = "sent"
  /\ queue' = SetFilter(queue, [type |-> DontCare, subtype |-> subtype,
                                addr |-> DeviceAddr])
  /\ pc' = "loop"
  /\ UNCHANGED <<elsewhere, asked, timeout, answered, abandoned>>

(* "return NULL", having cleared the filter or not *)
GiveUp(q) ==
  /\ queue' = q
  /\ pc' = "idle"
  /\ abandoned' = abandoned \cup {requests}
  /\ UNCHANGED <<asked, timeout, answered>>

(* Mutation: the loop goes on without subscriptions. *)
NoSubscriptionsIgnored ==
  /\ pc = "loop" /\ threaded /\ ~served
  /\ pc' = "asleep"
  /\ UNCHANGED <<queue, elsewhere, asked, timeout, answered, abandoned>>

(* The server driver has lost its last subscription: the loop ends with no *)
(* message, and TimedRequest returns before any of its ClearFilter calls.  *)
NoSubscriptions ==
  /\ pc = "loop" /\ threaded /\ ~served
  /\ GiveUp(queue)
  /\ UNCHANGED elsewhere

Friendly == \E i \in DOMAIN queue.msgs : FilterFriendly(queue, queue.msgs[i])

(* Wait finds a message, or goes to sleep ... *)
RequestWait ==
  /\ pc = "loop" /\ threaded /\ served
  /\ pc' = IF Friendly THEN "pop" ELSE "asleep"
  /\ timeout' = IF timeout > 1 /\ Friendly THEN timeout - 1 ELSE timeout
  /\ UNCHANGED <<queue, elsewhere, asked, answered, abandoned>>

(* ... until a signal, or the end of its second, ... *)
RequestWake ==
  /\ pc = "asleep"
  /\ pc' = "pop"
  /\ timeout' = IF timeout > 1 THEN timeout - 1 ELSE timeout
  /\ UNCHANGED <<queue, elsewhere, asked, answered, abandoned>>

(* ... which in the last second of a timeout ends the request. *)
RequestTimeout ==
  /\ pc = "asleep" /\ timeout = 1
  /\ GiveUp(ClearFilter(queue))
  /\ UNCHANGED elsewhere

(* Without threads: Update() of the server driver, then Pop.  The loop has *)
(* no test of HasSubscriptions.                                            *)
UpdateServer ==
  /\ pc = "loop" /\ ~threaded
  /\ IF served
     THEN /\ inbox' = << >>
          /\ \E reply \in [DOMAIN inbox -> {RESP_ACK, RESP_NACK}] :
               queue' = [queue EXCEPT !.msgs = queue.msgs \o
                          [i \in DOMAIN inbox |->
                             Msg(reply[i], inbox[i].subtype, inbox[i].id)]]
     ELSE UNCHANGED <<queue, inbox>>
  /\ pc' = "pop"
  /\ UNCHANGED <<served, published, flips, asked, timeout, answered, abandoned>>

(* Mutation: the reply is looked at and left on the queue. *)
RequestReplyPeeks ==
  /\ pc = "pop"
  /\ \E i \in PopIndex(queue) :
       /\ queue' = ClearFilter(queue)
       /\ answered' = [answered EXCEPT ![requests] = queue.msgs[i].id]
  /\ pc' = "idle"
  /\ UNCHANGED <<elsewhere, asked, timeout, abandoned>>

(* A reply: an ACK is returned, a NACK is returned as NULL.  The filter    *)
(* lets nothing else through.                                              *)
RequestReply ==
  /\ pc = "pop"
  /\ \E i \in PopIndex(queue) :
       /\ queue' = ClearFilter(PopAt(queue, i))
       /\ answered' = [answered EXCEPT ![requests] = queue.msgs[i].id]
  /\ pc' = "idle"
  /\ UNCHANGED <<elsewhere, asked, timeout, abandoned>>

(* No message: go on.  Without threads the time is looked at here; each    *)
(* turn of the loop takes some.                                            *)
RequestAgain ==
  /\ pc = "pop" /\ PopIndex(queue) = {}
  /\ threaded \/ timeout # 1
  /\ timeout' = IF ~threaded /\ timeout > 1 THEN timeout - 1 ELSE timeout
  /\ pc' = "loop"
  /\ UNCHANGED <<queue, elsewhere, asked, answered, abandoned>>

RequestTimeUp ==
  /\ pc = "pop" /\ PopIndex(queue) = {}
  /\ ~threaded /\ timeout = 1
  /\ GiveUp(ClearFilter(queue))
  /\ UNCHANGED elsewhere

(* Driver::ProcessMessages of the requester, one message. *)
ProcessMessage ==
  /\ pc = "idle"
  /\ \E i \in PopIndex(queue) : queue' = PopAt(queue, i)
  /\ UNCHANGED <<elsewhere, requester>>

(***************************************************************************)
(* The server driver's thread, and its subscriptions.                      *)
(***************************************************************************)
(* ProcessMessages of the server driver: a request is handled, refused, or *)
(* unhandled, which is answered with an empty NACK.  The thread is not the *)
(* requester's own, unless that is done with its request.                  *)
Reply(type) ==
  /\ threaded \/ pc = "idle"
  /\ served
  /\ inbox # << >>
  /\ queue' = Push(queue, Msg(type, Head(inbox).subtype, Head(inbox).id))
  /\ inbox' = Tail(inbox)
  /\ UNCHANGED <<served, published, flips, requester>>

PublishData(s) ==
  /\ served /\ published < MaxData
  /\ queue' = Push(queue, Msg(DATA, s, 0))
  /\ published' = published + 1
  /\ UNCHANGED <<inbox, served, flips, requester>>

Flip ==
  /\ flips < MaxFlips
  /\ flips' = flips + 1
  /\ served' = ~served
  /\ UNCHANGED <<queue, inbox, published, requester>>

RequesterStep ==
  \/ SetRequestFilter \/ NoSubscriptions
  \/ RequestWait \/ RequestWake \/ RequestTimeout
  \/ UpdateServer \/ RequestReply \/ RequestAgain \/ RequestTimeUp

ServerReplies == \E type \in {RESP_ACK, RESP_NACK} : Reply(type)

Next ==
  \/ \E s \in Subtypes, call \in Calls : PutRequest(s, call)
  \/ RequesterStep \/ ProcessMessage
  \/ ServerReplies
  \/ \E s \in Subtypes : PublishData(s)
  \/ Flip

Spec == Init /\ [][Next]_vars

(* The requester keeps running (its waits last a second at most), and a    *)
(* server driver with subscriptions processes its messages.                *)
FairSpec == Spec /\ WF_vars(RequesterStep) /\ WF_vars(ServerReplies)

-----------------------------------------------------------------------------
(***************************************************************************)
(* Properties.                                                             *)
(***************************************************************************)
(* What TimedRequest returns is the reply to the request it made as long   *)
(* as no request has been given up.  After that a late reply may answer a  *)
(* later request, whose own reply is then late in turn; but no reply       *)
(* answers twice or before its request was made.                           *)
RepliesMatch ==
  \A n \in 1..requests :
    answered[n] # 0 =>
      /\ abandoned = {} => answered[n] = n
      /\ answered[n] <= n
      /\ \A k \in 1..requests : answered[k] = answered[n] => k = n

(* A request comes back, with the reply or without: "test driver is still  *)
(* subscribed to prevent deadlocks on server shutdown".                    *)
RequestReturns == (pc # "idle") ~> (pc = "idle")
=============================================================================
