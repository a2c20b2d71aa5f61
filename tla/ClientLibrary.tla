--------------------------- MODULE ClientLibrary ---------------------------
(***************************************************************************)
(* client_libs/libplayerc/client.c and device.c: one client object, the    *)
(* calls a program makes on it, and the connection to a server whose side  *)
(* is the client's MessageQueue and the handlers of PlayerTCP for requests *)
(* of the player interface.                                                *)
(*                                                                         *)
(* The client is sequential, but its functions nest: a request made by a   *)
(* call may find the connection broken and reconnect, which makes requests *)
(* of its own, which may find it broken again.  stack is the C call stack: *)
(* one frame per activation of a call of the program (its fn is the call), *)
(* of playerc_client_request ("request"), of ..._disconnect_retry          *)
(* ("retry") and of ..._connect ("connect"); at is where the activation    *)
(* stands, ret the value just returned to the one on top.                  *)
(*                                                                         *)
(* One device is used.  A packet is read whole, with the poll before it;   *)
(* bytes are not modelled.  Closing by the server's side leaves a          *)
(* connection "fin" (what was sent can still be read, then end of file;    *)
(* poll does not say POLLHUP) or "reset" (poll says POLLHUP, send fails).  *)
(***************************************************************************)
EXTENDS MessageQueue, FiniteSets

CONSTANTS
  Modes,            \* data modes the program asks for
  RetryLimit,       \* retry_limit of the client
  RingSize,         \* PLAYERC_QUEUE_RING_SIZE
  Maxlen,           \* PLAYER_MSGQUEUE_DEFAULT_MAXLEN of the server's queue
  MayLack,          \* may the server a client connects to lack the device?
  MaxCalls,         \* bound on the calls of the program
  MaxData,          \* bound on the data messages ever published
  MaxFaults         \* bound on broken connections, late replies and refusals

(* libplayerinterface/interfaces/001_player.def *)
REQ_DEV == 3
PUSH == "push"
PULL == "pull"
OPEN == "open"
CLOSE == "close"

ASSUME ConstantsAssumption ==
  /\ Modes \subseteq {PUSH, PULL}
  /\ RetryLimit \in Nat /\ RingSize \in Nat \ {0} /\ Maxlen \in Nat \ {0}
  /\ MayLack \in BOOLEAN
  /\ MaxCalls \in Nat /\ MaxData \in Nat /\ MaxFaults \in Nat

VARIABLES
  link,       \* the client's socket: "up", "fin", "reset", or "none" (sock < 0)
  toServer,   \* requests on their way
  toClient,   \* messages on their way
  q,          \* the client's queue on the server
  sub,        \* is the queue subscribed to the device: "yes", "no", or "lacking"
  serving,    \* the request the server is in the middle of, or NoReq
  client,     \* the playerc_client_t, and the subscribed flag of its device
  stack,      \* activations of the client's functions
  ret,        \* value being returned to the top one, or NoRet
  calls, nextReq, nextData, faults,   \* counters
  seen,       \* history: the newest data message dispatched
  upset       \* history: which irregularities occurred

net == <<link, toServer, toClient>>
server == <<q, sub, serving>>
counters == <<calls, nextReq, nextData, faults>>
vars == <<link, toServer, toClient, q, sub, serving, client, stack, ret,
          calls, nextReq, nextData, faults, seen, upset>>

(* "session": a second connection was made; "reopen": by the program, and  *)
(* not by the library; "late": a reply came after its request had timed    *)
(* out; "overflow": the ring overflowed; "switch": the program changed the *)
(* data mode with a round of data outstanding; "refused": the driver       *)
(* refused to open or close the device.                                    *)
Irregularities == {"session", "reopen", "late", "overflow", "switch", "refused"}

NoRet == 2
Request == [subtype : {REQ_DEV, REQ_DATA, REQ_DATAMODE}, arg : {PUSH, PULL, OPEN, CLOSE}, id : Nat]
NoReq == [subtype |-> 0, arg |-> PUSH, id |-> 0]

(* The calls a program makes and where each can stand. *)
Calls == {"connect", "peek", "read", "read_nonblock", "datamode", "subscribe", "unsubscribe"}
Functions == Calls \cup {"request", "retry"}
Points == {"open", "datamode", "requestdata", "peek", "nonblock", "block", "request",
           "send", "await", "connect", "resub"}
Frame == [fn : Functions, at : Points, j : 0..RetryLimit, req : Request \cup {NoReq}]

F(f, p) == [fn |-> f, at |-> p, j |-> 0, req |-> NoReq]

TypeOK ==
  /\ link \in {"none", "up", "fin", "reset"}
  /\ toServer \in Seq(Request) /\ toClient \in Seq(Message)
  /\ q \in QueueType /\ sub \in {"yes", "no", "lacking"} /\ serving \in Request \cup {NoReq}
  /\ client \in [connected : BOOLEAN, mode : {PUSH, PULL}, data_requested : BOOLEAN,
                 data_received : BOOLEAN, ring : Seq(Message), subscribed : BOOLEAN]
  /\ Len(client.ring) <= RingSize
  /\ stack \in Seq(Frame)
  /\ ret \in {-2, -1, 0, 1, NoRet}
  /\ stack # << >> => stack[1].fn \in Calls
  /\ upset \subseteq Irregularities

(* playerc_client_create. *)
Created ==
  /\ link = "none"
  /\ q = NewQueue(FALSE, Maxlen) /\ sub = "no"
  /\ client = [connected |-> FALSE, mode |-> PUSH, data_requested |-> FALSE,
               data_received |-> FALSE, ring |-> << >>, subscribed |-> FALSE]
  /\ nextReq = 1

(* The state Created reaches by a connect and a subscribe that succeed:    *)
(* most programs start so, and MaxCalls counts what they do then.          *)
Settled ==
  /\ link = "up"
  /\ q = SetPull(NewQueue(FALSE, Maxlen), TRUE) /\ sub = "yes"
  /\ client = [connected |-> TRUE, mode |-> PULL, data_requested |-> FALSE,
               data_received |-> FALSE, ring |-> << >>, subscribed |-> TRUE]
  /\ nextReq = 3

Init ==
  /\ Created \/ Settled
  /\ toServer = << >> /\ toClient = << >> /\ serving = NoReq
  /\ stack = << >> /\ ret = NoRet
  /\ calls = 0 /\ nextData = 1 /\ faults = 0
  /\ seen = 0 /\ upset = {}

(***************************************************************************)
(* The call stack.                                                         *)
(***************************************************************************)
Top == stack[Len(stack)]
Running(fns, p) == stack # << >> /\ ret = NoRet /\ Top.fn \in fns /\ Top.at = p
Returned(fns, p) == stack # << >> /\ ret # NoRet /\ Top.fn \in fns /\ Top.at = p

Moved(p) == Append(Front(stack), [Top EXCEPT !.at = p])
Go(p) == stack' = Moved(p) /\ ret' = NoRet
Return(v) ==
  /\ stack' = Front(stack)
  /\ ret' = IF Len(stack) = 1 THEN NoRet ELSE v

(* Call a function: the top frame waits at p for its value. *)
Calling(p, f) == stack' = Append(Moved(p), f) /\ ret' = NoRet

RequestFrame(s, a) ==
  [fn |-> "request", at |-> "send", j |-> 0,
   req |-> [subtype |-> s, arg |-> a, id |-> nextReq]]

(* Call playerc_client_request. *)
Requesting(p, s, a) ==
  /\ Calling(p, RequestFrame(s, a))
  /\ nextReq' = nextReq + 1

(***************************************************************************)
(* playerc_client_disconnect and playerc_client_disconnect_retry.  The     *)
(* server loses the connection, its queue and its subscription with it.    *)
(***************************************************************************)
ServerForgets ==
  /\ toServer' = << >>
  /\ q' = NewQueue(FALSE, Maxlen) /\ serving' = NoReq

ServerLoses == ServerForgets /\ sub' = "no"

Disconnect ==
  /\ link' = "none" /\ toClient' = << >>
  /\ ServerLoses
  /\ client' = [client EXCEPT !.connected = client.connected /\ link = "none"]

(* The socket is found broken by the top frame, which waits at p. *)
HangUp(p) ==
  /\ link = "reset"
  /\ Disconnect
  /\ Calling(p, F("retry", "connect"))

RetryAttempt ==
  /\ Running({"retry"}, "connect") /\ Top.j < RetryLimit
  /\ Calling("connect", F("connect", "open"))
  /\ UNCHANGED <<net, server, client, counters, seen, upset>>

RetryExhausted ==
  /\ Running({"retry"}, "connect") /\ Top.j = RetryLimit
  /\ Return(-1)
  /\ UNCHANGED <<net, server, client, counters, seen, upset>>

NextAttempt ==
  /\ stack' = Append(Front(stack), [Top EXCEPT !.at = "connect", !.j = Top.j + 1])
  /\ ret' = NoRet

RetryConnected ==
  /\ Returned({"retry"}, "connect")
  /\ \/ /\ ret # 0
        /\ NextAttempt
        /\ UNCHANGED nextReq
     \/ /\ ret = 0 /\ client.subscribed
        /\ Requesting("resub", REQ_DEV, OPEN)
     \/ /\ ret = 0 /\ ~client.subscribed
        /\ Return(0)
        /\ UNCHANGED nextReq
  /\ UNCHANGED <<net, server, client, calls, nextData, faults, seen, upset>>

RetryResubscribed ==
  /\ Returned({"retry"}, "resub")
  /\ \/ /\ ret = 0
        /\ Return(0)
        /\ UNCHANGED <<net, server, client>>
     \/ /\ ret # 0
        /\ Disconnect
        /\ NextAttempt
  /\ UNCHANGED <<counters, seen, upset>>

(***************************************************************************)
(* playerc_client_connect.                                                 *)
(***************************************************************************)
ConnectOpens ==
  /\ Running({"connect"}, "open")
  /\ link' = "up" /\ toClient' = << >>
  /\ ServerForgets
  /\ sub' \in {"no"} \cup (IF MayLack THEN {"lacking"} ELSE {})
  /\ Requesting("datamode", REQ_DATAMODE, PULL)
  /\ upset' = IF nextReq = 1 THEN upset
              ELSE upset \cup {"session"} \cup (IF Len(stack) = 1 THEN {"reopen"} ELSE {})
  /\ UNCHANGED <<client, calls, nextData, faults, seen>>

(* connect fails, or the banner does not come. *)
ConnectFails ==
  /\ Running({"connect"}, "open")
  /\ client' = [client EXCEPT !.connected = FALSE]
  /\ Return(-1)
  /\ UNCHANGED <<net, server, counters, seen, upset>>

(* Mutation: the mode the server was asked for is not remembered. *)
ConnectDoneForgetsMode ==
  /\ Returned({"connect"}, "datamode")
  /\ client' = [client EXCEPT !.connected = TRUE]
  /\ Return(0)
  /\ UNCHANGED <<net, server, counters, seen, upset>>

(* The result of playerc_client_datamode is not looked at. *)
ConnectDone ==
  /\ Returned({"connect"}, "datamode")
  /\ client' = [client EXCEPT !.connected = TRUE,
                              !.mode = IF ret = 0 THEN PULL ELSE client.mode]
  /\ Return(0)
  /\ UNCHANGED <<net, server, counters, seen, upset>>

(***************************************************************************)
(* playerc_client_request.                                                 *)
(***************************************************************************)
RequestSend ==
  /\ Running({"request"}, "send")
  /\ \/ /\ link = "none"
        /\ Return(-1)
        /\ UNCHANGED <<net, server, client>>
     \/ /\ link = "up"
        /\ toServer' = Append(toServer, Top.req)
        /\ Go("await")
        /\ UNCHANGED <<link, toClient, server, client>>
     \/ /\ link = "fin"
        /\ link' \in {"fin", "reset"}
        /\ toClient' = IF link' = "reset" THEN << >> ELSE toClient
        /\ Go("await")
        /\ UNCHANGED <<toServer, server, client>>
     \/ HangUp("await")
  /\ UNCHANGED <<counters, seen, upset>>

(* Mutation: a full ring is noticed one packet too late. *)
PushedLate(m) ==
  IF Len(client.ring) > RingSize THEN Append(Tail(client.ring), m) ELSE Append(client.ring, m)

(* playerc_client_push: a full ring loses its oldest packet. *)
Pushed(m) ==
  IF Len(client.ring) = RingSize THEN Append(Tail(client.ring), m) ELSE Append(client.ring, m)

(* Mutation: a SYNCH that comes while a reply is awaited is skipped. *)
QueuedUpDataOnly(m) ==
  /\ client' = [client EXCEPT !.ring = IF m.type = DATA THEN Pushed(m) ELSE client.ring]
  /\ upset' = IF Len(client.ring) = RingSize THEN upset \cup {"overflow"} ELSE upset
  /\ UNCHANGED <<stack, ret>>

QueuedUp(m) ==
  /\ client' = [client EXCEPT !.ring = Pushed(m)]
  /\ upset' = IF Len(client.ring) = RingSize THEN upset \cup {"overflow"} ELSE upset
  /\ UNCHANGED <<stack, ret>>

ReplyResult(m) ==
  IF m.subtype # Top.req.subtype THEN -1 ELSE IF m.type = RESP_ACK THEN 0 ELSE -2

RequestPacket ==
  /\ Running({"request"}, "await")
  /\ link \in {"up", "fin"} /\ toClient # << >>
  /\ toClient' = Tail(toClient)
  /\ LET m == Head(toClient) IN
       IF IsResponse(m)
       THEN Return(ReplyResult(m)) /\ UNCHANGED <<client, upset>>
       ELSE QueuedUp(m)
  /\ UNCHANGED <<link, toServer, server, counters, seen>>

(* No socket, end of file, or a reconnection. *)
RequestBroken ==
  /\ Running({"request"}, "await")
  /\ \/ /\ link = "none" \/ (link = "fin" /\ toClient = << >>)
        /\ Return(-1)
        /\ UNCHANGED <<net, server, client>>
     \/ HangUp("await")
  /\ UNCHANGED <<counters, seen, upset>>

(* Back from a reconnection: the reply is awaited on the new connection. *)
RequestReconnected ==
  /\ Returned({"request"}, "await")
  /\ IF ret < 0 THEN Return(-1) ELSE Go("await")
  /\ UNCHANGED <<net, server, client, counters, seen, upset>>

(* Is the top request, or the reply to it, still on its way? *)
Coming ==
  \/ \E i \in DOMAIN toServer : toServer[i].id = Top.req.id
  \/ serving.id = Top.req.id
  \/ \E i \in DOMAIN q.msgs : IsResponse(q.msgs[i]) /\ q.msgs[i].id = Top.req.id
  \/ \E i \in DOMAIN toClient : IsResponse(toClient[i]) /\ toClient[i].id = Top.req.id

(* request_timeout passes, with the reply late or lost with its connection. *)
RequestLate ==
  /\ Running({"request"}, "await") /\ link = "up"
  /\ Coming /\ faults < MaxFaults
  /\ faults' = faults + 1
  /\ upset' = upset \cup {"late"}
  /\ Return(-1)
  /\ UNCHANGED <<net, server, client, calls, nextReq, nextData, seen>>

RequestLost ==
  /\ Running({"request"}, "await") /\ link = "up"
  /\ ~Coming
  /\ Return(-1)
  /\ UNCHANGED <<net, server, client, counters, seen, upset>>

(***************************************************************************)
(* playerc_client_peek and playerc_client_read.  Both start by asking for  *)
(* a round of data (playerc_client_requestdata), unless one has been asked *)
(* for, packets are queued or the server sends of its own accord.          *)
(***************************************************************************)
Starting(fn, p) ==
  /\ stack = << >> /\ calls < MaxCalls
  /\ calls' = calls + 1
  /\ stack' = <<F(fn, p)>> /\ ret' = NoRet
  /\ UNCHANGED <<net, server, client, nextReq, nextData, faults, seen, upset>>

StartRequest(fn, p, s, a) ==
  /\ stack = << >> /\ calls < MaxCalls
  /\ calls' = calls + 1
  /\ nextReq' = nextReq + 1
  /\ stack' = <<[F(fn, p) EXCEPT !.req = [subtype |-> s, arg |-> a, id |-> nextReq]],
                RequestFrame(s, a)>>
  /\ ret' = NoRet
  /\ UNCHANGED <<net, server, nextData, faults, seen>>

MustRequest == client.mode = PULL /\ ~client.data_requested

StartPeek(fn) ==
  /\ client.ring = << >>
  /\ \/ /\ MustRequest
        /\ StartRequest(fn, "requestdata", REQ_DATA, PULL)
        /\ UNCHANGED <<client, upset>>
     \/ /\ ~MustRequest
        /\ Starting(fn, "peek")

(* With packets in the ring read goes straight to them, and peek returns 1. *)
StartReadQueued ==
  /\ client.ring # << >>
  /\ Starting("read", "nonblock")

StartReadNonblock == Starting("read_nonblock", "nonblock")

DataRequested ==
  /\ Returned({"peek", "read"}, "requestdata")
  /\ \/ /\ ret = 0
        /\ client' = [client EXCEPT !.data_requested = TRUE, !.data_received = FALSE]
        /\ Go("peek")
     \/ /\ ret # 0
        /\ Return(-1)
        /\ UNCHANGED client
  /\ UNCHANGED <<net, server, counters, seen, upset>>

(* What follows a playerc_client_peek that did not fail. *)
Peeked == IF Top.fn = "read" THEN Go("nonblock") ELSE Return(0)

PeekPoll ==
  /\ Running({"peek", "read"}, "peek")
  /\ \/ /\ link = "none"
        /\ Return(-1)
        /\ UNCHANGED <<net, server, client>>
     \/ HangUp("peek")
     \/ /\ link \in {"up", "fin"}
        /\ Peeked
        /\ UNCHANGED <<net, server, client>>
  /\ UNCHANGED <<counters, seen, upset>>

PeekReconnected ==
  /\ Returned({"peek", "read"}, "peek")
  /\ IF ret < 0 THEN Return(-1) ELSE Peeked
  /\ UNCHANGED <<net, server, client, counters, seen, upset>>

(***************************************************************************)
(* playerc_client_read_nonblock_withproxy, by itself and in the loop of    *)
(* playerc_client_read.                                                    *)
(***************************************************************************)
(* Nothing to read: data got so far counts if no SYNCH is to be waited     *)
(* for; otherwise read goes on, to poll without a timeout, if it has a     *)
(* socket.                                                                 *)
NothingToRead ==
  \/ /\ ~client.data_requested /\ client.data_received
     /\ client' = [client EXCEPT !.data_received = FALSE]
     /\ Return(1)
  \/ /\ client.data_requested \/ ~client.data_received
     /\ IF Top.fn = "read" /\ link # "none" THEN Go("block") ELSE Return(0)
     /\ UNCHANGED client

(* The switch on the type of a data or synch packet; c is the client       *)
(* without the packet.                                                     *)
Process(m, c) ==
  \/ /\ m.type = SYNCH
     /\ client' = [c EXCEPT !.data_requested = FALSE]
     /\ Return(IF c.data_received THEN 1 ELSE -1)
     /\ UNCHANGED seen
  \/ /\ m.type = DATA
     /\ seen' = m.id
     /\ IF c.mode = PUSH
        THEN client' = c /\ Return(1)
        ELSE client' = [c EXCEPT !.data_received = TRUE] /\ UNCHANGED <<stack, ret>>

NonblockQueued ==
  /\ Running({"read", "read_nonblock"}, "nonblock")
  /\ client.ring # << >>
  /\ UNCHANGED <<net, server, counters, upset>>
  /\ Process(Head(client.ring), [client EXCEPT !.ring = Tail(client.ring)])

(* Mutation: the socket is looked at before the ring. *)
NonblockPacketFirst ==
  /\ Running({"read", "read_nonblock"}, "nonblock")
  /\ link \in {"up", "fin"} /\ toClient # << >>
  /\ toClient' = Tail(toClient)
  /\ UNCHANGED <<link, toServer, server, counters, upset>>
  /\ Process(Head(toClient), client)

NonblockPacket ==
  /\ Running({"read", "read_nonblock"}, "nonblock")
  /\ client.ring = << >>
  /\ link \in {"up", "fin"} /\ toClient # << >>
  /\ toClient' = Tail(toClient)
  /\ UNCHANGED <<link, toServer, server, counters, upset>>
  /\ Process(Head(toClient), client)

(* A reply nobody waits for: an ACK is skipped, a NACK is an error. *)
NonblockUnclaimed ==
  /\ Running({"read", "read_nonblock"}, "nonblock")
  /\ client.ring = << >>
  /\ link \in {"up", "fin"} /\ toClient # << >>
  /\ toClient' = Tail(toClient)
  /\ \/ Head(toClient).type = RESP_ACK /\ UNCHANGED <<stack, ret>>
     \/ Head(toClient).type = RESP_NACK /\ Return(-1)
  /\ UNCHANGED <<link, toServer, server, client, counters, seen, upset>>

NonblockNothing ==
  /\ \/ /\ Running({"read", "read_nonblock"}, "nonblock")
        /\ client.ring = << >>
        /\ link = "none" \/ (link = "up" /\ toClient = << >>)
     \/ Returned({"read", "read_nonblock"}, "nonblock")   \* reconnected, or not
  /\ UNCHANGED <<net, server, counters, seen, upset>>
  /\ NothingToRead

NonblockEndOfFile ==
  /\ Running({"read", "read_nonblock"}, "nonblock")
  /\ client.ring = << >>
  /\ link = "fin" /\ toClient = << >>
  /\ Return(-1)
  /\ UNCHANGED <<net, server, client, counters, seen, upset>>

NonblockHangUp ==
  /\ Running({"read", "read_nonblock"}, "nonblock")
  /\ client.ring = << >>
  /\ HangUp("nonblock")
  /\ UNCHANGED <<counters, seen, upset>>

(* The poll without a timeout in the loop of playerc_client_read. *)
BlockReadable ==
  /\ Running({"read"}, "block")
  /\ link = "fin" \/ (link = "up" /\ toClient # << >>)
  /\ Go("nonblock")
  /\ UNCHANGED <<net, server, client, counters, seen, upset>>

BlockHangUp ==
  /\ Running({"read"}, "block")
  /\ HangUp("block")
  /\ UNCHANGED <<counters, seen, upset>>

BlockReconnected ==
  /\ Returned({"read"}, "block")
  /\ IF ret < 0 THEN Return(-1) ELSE Go("nonblock")
  /\ UNCHANGED <<net, server, client, counters, seen, upset>>

(***************************************************************************)
(* The other calls.                                                        *)
(***************************************************************************)
StartConnect ==
  /\ link = "none"
  /\ Starting("connect", "open")

CallDisconnect ==
  /\ stack = << >> /\ link # "none" /\ calls < MaxCalls
  /\ calls' = calls + 1
  /\ Disconnect
  /\ UNCHANGED <<stack, ret, nextReq, nextData, faults, seen, upset>>

StartDatamode(m) ==
  /\ StartRequest("datamode", "request", REQ_DATAMODE, m)
  /\ upset' = IF m # client.mode /\ client.data_requested
              THEN upset \cup {"switch"} ELSE upset
  /\ UNCHANGED client

DatamodeDone ==
  /\ Returned({"datamode"}, "request")
  /\ client' = [client EXCEPT !.mode = IF ret = 0 THEN Top.req.arg ELSE client.mode]
  /\ Return(0)
  /\ UNCHANGED <<net, server, counters, seen, upset>>

StartSubscribe ==
  /\ ~client.subscribed
  /\ StartRequest("subscribe", "request", REQ_DEV, OPEN)
  /\ UNCHANGED <<client, upset>>

(* The access granted, which the reply carries, is not looked at: the      *)
(* comparison is of the request with itself.                               *)
SubscribeDone ==
  /\ Returned({"subscribe"}, "request")
  /\ client' = [client EXCEPT !.subscribed = client.subscribed \/ ret = 0]
  /\ Return(0)
  /\ UNCHANGED <<net, server, counters, seen, upset>>

StartUnsubscribe ==
  /\ client.subscribed
  /\ StartRequest("unsubscribe", "request", REQ_DEV, CLOSE)
  /\ client' = [client EXCEPT !.subscribed = FALSE]
  /\ UNCHANGED upset

UnsubscribeDone ==
  /\ Returned({"unsubscribe"}, "request")
  /\ Return(0)
  /\ UNCHANGED <<net, server, client, counters, seen, upset>>

(***************************************************************************)
(* The server: PlayerTCP::HandlePlayerMessage, in two steps where the      *)
(* queue's lock is taken twice or another thread sees the first, and       *)
(* WriteClient, which sends what Pop returns.                              *)
(***************************************************************************)
Reply(t, r) == [type |-> t, subtype |-> r.subtype, addr |-> PLAYER_PLAYER_CODE, id |-> r.id]

ServerIdle == serving = NoReq /\ link = "up"

HandleRequest ==
  /\ ServerIdle /\ toServer # << >>
  /\ toServer' = Tail(toServer)
  /\ LET r == Head(toServer) IN
       \/ /\ r.subtype = REQ_DATAMODE
          /\ q' = Push(SetPull(q, r.arg = PULL), Reply(RESP_ACK, r))
          /\ UNCHANGED <<sub, serving>>
       \/ /\ r.subtype = REQ_DATA
          /\ q' = PushFront(q, Reply(RESP_ACK, r))
          /\ serving' = r
          /\ UNCHANGED sub
       \/ /\ r.subtype = REQ_DEV /\ sub = "lacking"
          /\ q' = Push(q, Reply(RESP_NACK, r))
          /\ UNCHANGED <<sub, serving>>
       \/ /\ r.subtype = REQ_DEV /\ sub # "lacking"
          /\ sub' = IF r.arg = OPEN THEN "yes" ELSE "no"
          /\ serving' = r
          /\ UNCHANGED q
  /\ UNCHANGED <<link, toClient, client, stack, ret, counters, seen, upset>>

(* Device::Subscribe or Unsubscribe fails; HandleRest acknowledges it too, *)
(* with PLAYER_ERROR_MODE for the access granted.                          *)
HandleRefused ==
  /\ ServerIdle /\ toServer # << >> /\ faults < MaxFaults
  /\ Head(toServer).subtype = REQ_DEV /\ sub # "lacking"
  /\ toServer' = Tail(toServer) /\ serving' = Head(toServer)
  /\ faults' = faults + 1 /\ upset' = upset \cup {"refused"}
  /\ UNCHANGED <<link, toClient, q, sub, client, stack, ret, calls, nextReq, nextData, seen>>

(* Mutation: the request is acknowledged by both halves. *)
HandleRestAcksTwice ==
  /\ serving # NoReq
  /\ q' = Push(IF serving.subtype = REQ_DATA THEN SetDataRequested(q, TRUE) ELSE q,
               Reply(RESP_ACK, serving))
  /\ serving' = NoReq
  /\ UNCHANGED <<net, sub, client, stack, ret, counters, seen, upset>>

HandleRest ==
  /\ serving # NoReq
  /\ q' = IF serving.subtype = REQ_DATA THEN SetDataRequested(q, TRUE)
                                        ELSE Push(q, Reply(RESP_ACK, serving))
  /\ serving' = NoReq
  /\ UNCHANGED <<net, sub, client, stack, ret, counters, seen, upset>>

WriteClient ==
  /\ ServerIdle
  /\ \/ \E i \in PopIndex(q) :
          /\ q' = PopAt(q, i)
          /\ toClient' = Append(toClient, q.msgs[i])
     \/ /\ SynchDue(q)
        /\ q' = AfterSynch(q)
        /\ toClient' = Append(toClient, SynchMessage(q))
  /\ UNCHANGED <<link, toServer, sub, serving, client, stack, ret, counters, seen, upset>>

(* A driver publishes to the queues subscribed to its device. *)
PublishData ==
  /\ sub = "yes" /\ nextData <= MaxData
  /\ q' = Push(q, [type |-> DATA, subtype |-> 1, addr |-> 1, id |-> nextData])
  /\ nextData' = nextData + 1
  /\ UNCHANGED <<net, sub, serving, client, stack, ret, calls, nextReq, faults, seen, upset>>

(* The server closes the connection or dies, or the network does. *)
Break ==
  /\ link = "up" /\ faults < MaxFaults
  /\ faults' = faults + 1
  /\ link' \in {"fin", "reset"}
  /\ toClient' = IF link' = "reset" THEN << >> ELSE toClient
  /\ ServerLoses
  /\ UNCHANGED <<client, stack, ret, calls, nextReq, nextData, seen, upset>>

Program ==
  \/ StartConnect \/ CallDisconnect
  \/ \E fn \in {"peek", "read"} : StartPeek(fn)
  \/ StartReadQueued \/ StartReadNonblock
  \/ \E m \in Modes : StartDatamode(m)
  \/ StartSubscribe \/ StartUnsubscribe

(* The library, inside a call. *)
Library ==
  \/ RetryAttempt \/ RetryExhausted \/ RetryConnected \/ RetryResubscribed
  \/ ConnectOpens \/ ConnectDone
  \/ RequestSend \/ RequestPacket \/ RequestBroken \/ RequestReconnected \/ RequestLost
  \/ DataRequested \/ PeekPoll \/ PeekReconnected
  \/ NonblockQueued \/ NonblockPacket \/ NonblockUnclaimed \/ NonblockNothing
  \/ NonblockEndOfFile \/ NonblockHangUp
  \/ BlockReadable \/ BlockHangUp \/ BlockReconnected
  \/ DatamodeDone \/ SubscribeDone \/ UnsubscribeDone

Next ==
  \/ Program \/ Library
  \/ RequestLate \/ ConnectFails \/ Break
  \/ HandleRequest \/ HandleRefused \/ HandleRest \/ WriteClient
  \/ PublishData

Spec == Init /\ [][Next]_vars

(* A call that can go on does; the server reads, handles and writes.  No   *)
(* program has to make calls, no driver to publish, nothing has to fail.   *)
Fairness ==
  /\ WF_vars(Library) /\ WF_vars(HandleRequest) /\ WF_vars(HandleRest) /\ WF_vars(WriteClient)

FairSpec == Spec /\ Fairness

-----------------------------------------------------------------------------
(***************************************************************************)
(* Properties.                                                             *)
(***************************************************************************)
OfType(s, t) == \E i \in DOMAIN s : s[i].type = t

(* The SYNCH that will end the round asked for is on its way or can still  *)
(* be sent: a client that waits for it does not wait in vain.              *)
SynchToCome ==
  q.data_requested \/ OfType(toClient, SYNCH) \/ OfType(client.ring, SYNCH)

(* data_requested is "have we requested and not yet received a round of    *)
(* data": while it is set, playerc_client_read returns only for a SYNCH,   *)
(* so the server owes one.  Requests made, data pushed, modes cached and   *)
(* packets queued up in between do not lose it.                            *)
NoVainWait ==
  (upset = {} /\ link = "up" /\ client.data_requested) => SynchToCome

(* Every round the server closes has data in it, and none of it is         *)
(* forgotten: no read of a pulling client fails with "No data received".   *)
RoundHasData ==
  (upset = {} /\ link = "up") =>
    LET s == client.ring \o toClient IN
    \A i \in DOMAIN s : s[i].type = SYNCH =>
      client.data_received \/ \E j \in 1..(i-1) : s[j].type = DATA

(* Data is dispatched in the order of publication, each message once:      *)
(* through the server's queue, the connection and the ring, over data      *)
(* modes, late replies, overflows and reconnections.                       *)
DataInOrder ==
  LET s == client.ring \o toClient \o q.msgs
      places == {i \in DOMAIN s : s[i].type = DATA}
  IN \A i \in places : /\ seen < s[i].id
                       /\ \A j \in places : i < j => s[i].id < s[j].id

(* As long as no reply has come late, what is on its way is the request on *)
(* top of the stack, or the reply to it: the next reply answers the next   *)
(* request, although only the subtypes are compared.                       *)
OneOutstanding ==
  LET ids == {toServer[i].id : i \in DOMAIN toServer}
             \cup {q.msgs[i].id : i \in {k \in DOMAIN q.msgs : IsResponse(q.msgs[k])}}
             \cup {toClient[i].id : i \in {k \in DOMAIN toClient : IsResponse(toClient[k])}}
  IN ("late" \notin upset /\ link = "up" /\ ids # {}) =>
       /\ stack # << >> /\ Top.fn = "request" /\ ids = {Top.req.id}
       /\ \A i, j \in DOMAIN toClient :
            (IsResponse(toClient[i]) /\ IsResponse(toClient[j])) => i = j

(* Between calls, on a connection that stands, the server has the data     *)
(* mode and the subscription that the client believes in, first and after  *)
(* any reconnection by the library, unless a reply was late or a driver    *)
(* refused.                                                                *)
SessionAgrees ==
  (stack = << >> /\ link = "up" /\ upset \cap {"late", "reopen", "refused"} = {}) =>
    /\ client.connected
    /\ q.pull = (client.mode = PULL)
    /\ (sub = "yes") = client.subscribed

(* data_requested again, over reconnections too. *)
NoVainWaitReconnected ==
  (upset \subseteq {"session"} /\ link = "up" /\ stack = << >> /\ client.data_requested)
    => SynchToCome

(* A blocking read for which there is data comes back, unless the          *)
(* connection breaks, a reply is late, a queue overflows or the program    *)
(* changed the mode in mid-round.                                          *)
Reading == stack # << >> /\ stack[1].fn = "read"
ReadReturns ==
  (Reading /\ (OfType(q.msgs, DATA) \/ OfType(toClient, DATA) \/ OfType(client.ring, DATA)))
    ~> (~Reading \/ upset # {} \/ link # "up")
=============================================================================
