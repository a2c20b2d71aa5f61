---------------------------- MODULE ClientTable ----------------------------
(***************************************************************************)
(* PlayerTCP's table of connections (libplayertcp/playertcp.cc) and the    *)
(* threads that change it.  The server thread goes round the loop of       *)
(* server.cc: it accepts a client, reads and parses what came in, writes   *)
(* what is pending, and after reading and after writing closes and removes *)
(* the connections marked for deletion.                                    *)
(*                                                                         *)
(* Connections to other Player servers are in the same table: a driver     *)
(* that uses a remote device has a TCPRemoteDriverConnection, whose        *)
(* Subscribe adds its socket to the table and whose Unsubscribe marks it.  *)
(* Two drivers do so here.  "inhibitor" has no thread (shell/inhibitor.cc):*)
(* its Setup and Shutdown run in the server thread, inside the handling of *)
(* a client's request or inside Close.  "threaded" calls from its own      *)
(* thread and has to take clients_mutex first.                             *)
(*                                                                         *)
(* Encoding and time are left out, and messages are sent and received as a *)
(* whole.  Only a client's subscription requests are modelled: what goes   *)
(* to and from devices passes through ParseBuffer and WriteClient without  *)
(* touching the table.  A number stands for a connection, its socket and   *)
(* its queue.                                                              *)
(***************************************************************************)
EXTENDS Integers, FiniteSets, SequencesExt

CONSTANTS
  MaxConns,    \* bound on the connections ever made
  MaxUsers,    \* bound on the clients connected at the same time
  MaxSubs,     \* bound on the subscriptions of one client
  Sharing      \* may two clients use the inhibitor at the same time?

ASSUME ConstantsAssumption ==
  /\ MaxConns \in Nat /\ MaxUsers \in Nat /\ MaxSubs \in Nat
  /\ Sharing \in BOOLEAN

Drivers  == {"inhibitor", "threaded"}
Conns    == 1..MaxConns
NoConn   == 0
Requests == {"open", "close"}      \* PLAYER_PLAYER_REQ_DEV with its access
Revents  == {"none", "in", "err"}  \* no event, POLLIN, POLLERR or POLLHUP

(* playertcp_conn.  kill is the driver whose kill_flag the entry points to;*)
(* subs are the devices in dev_subs (all the inhibitor's); out are the     *)
(* replies on the queue.  A closed entry and a blank one have neither      *)
(* socket nor queue.                                                       *)
Entry ==
  [conn : Conns \cup {NoConn}, del : BOOLEAN, kill : Drivers \cup {"none"},
   subs : 0..MaxSubs, out : 0..1]

Blank == [conn |-> NoConn, del |-> FALSE, kill |-> "none", subs |-> 0,
          out |-> 0]

VARIABLES
  clients,       \* the table, of length size_clients
  num_clients,
  at,            \* where the server thread is
  i,             \* its loop variable
  revents,       \* of client_ufds, from Read's poll to the end of its loop
  readbuffer,    \* what ReadClient has received, if not parsed yet
  reading,       \* is DeleteClients called by Read (or by Write)?
  num_available, \* of Read
  num_deleted,   \* of DeleteClients
  polled,        \* history: num_clients when Read called poll
  made,          \* number of connections made so far
  users,         \* open sockets of accepted clients
  links,         \* open sockets to other servers
  hup,           \* open sockets whose peer has closed
  inbox,         \* what recv would return, by connection
  owed,          \* requests the client has no reply to, by connection
  count,         \* subscriptions of the inhibitor
  remote,        \* connection in a driver's TCPRemoteDriverConnection
  kill_flag,     \* its kill_flag
  tpc            \* where the thread of "threaded" is

reader  == <<revents, readbuffer, num_available, polled>>
deleter == <<reading, num_deleted>>
server  == <<at, i, reader, deleter>>
table   == <<clients, num_clients>>
net     == <<made, users, links, hup, inbox, owed>>
driver  == <<count, remote, kill_flag, tpc>>
vars    == <<server, table, net, driver>>

Places == {"wait", "poll", "read", "parse", "write", "delete"}

TypeOK ==
  /\ clients \in Seq(Entry) /\ num_clients \in 0..Len(clients)
  /\ at \in Places /\ i \in Nat /\ revents \in Seq(Revents)
  /\ readbuffer \in Requests \cup {"none"} /\ reading \in BOOLEAN
  /\ num_available \in Nat /\ num_deleted \in Nat /\ polled \in Nat
  /\ made \in 0..MaxConns
  /\ users \subseteq Conns /\ links \subseteq Conns
  /\ hup \subseteq users \cup links
  /\ inbox \in [Conns -> Requests \cup {"none"}]
  /\ owed \in [Conns -> 0..1]
  /\ count \in Nat
  /\ remote \in [Drivers -> Conns \cup {NoConn}]
  /\ kill_flag \in [Drivers -> BOOLEAN]
  /\ tpc \in {"out", "in", "deleting"}

Init ==
  /\ clients = <<>> /\ num_clients = 0
  /\ at = "wait" /\ i = 1
  /\ revents = <<>> /\ readbuffer = "none" /\ num_available = 0 /\ polled = 0
  /\ reading = FALSE /\ num_deleted = 0
  /\ made = 0 /\ users = {} /\ links = {} /\ hup = {}
  /\ inbox = [c \in Conns |-> "none"] /\ owed = [c \in Conns |-> 0]
  /\ count = 0 /\ remote = [d \in Drivers |-> NoConn]
  /\ kill_flag = [d \in Drivers |-> FALSE] /\ tpc = "out"

(* clients_mutex is held from the start of Read or Write to the end of     *)
(* their DeleteClients.                                                    *)
LockFree == at \in {"wait", "poll"}

Room    == made < MaxConns
NewConn == made + 1

-----------------------------------------------------------------------------
(* What the operations do to the table *)

(* AddClient: the entry after the last one, in new memory if need be.      *)
Added(c, k) ==
  LET new == [Blank EXCEPT !.conn = c, !.kill = k]
  IN  IF num_clients = Len(clients)
      THEN Append(clients, new)
      ELSE [clients EXCEPT ![num_clients + 1] = new]

(* The revents of the new entry: not defined in new memory, 0 in an entry  *)
(* that DeleteClients has freed.                                           *)
NewRevents == IF num_clients = Len(clients) THEN Revents ELSE {"none"}

(* Mutation: the pointer to the kill_flag stays in the entry. *)
MarkedStillPointing(q) ==
  LET hits == {k \in 1..num_clients : clients[k].conn = q}
  IN  [k \in DOMAIN clients |->
         IF k \in hits THEN [clients[k] EXCEPT !.del = TRUE] ELSE clients[k]]

(* DeleteClient: the first entry with queue q, if there is one.            *)
Marked(q) ==
  LET hits == {k \in 1..num_clients : clients[k].conn = q}
  IN  IF hits = {} THEN clients
      ELSE [clients EXCEPT ![Min(hits)].del = TRUE,
                           ![Min(hits)].kill = "none"]

(* Mutation: the loop steps over the entry that moved into a free place. *)
CompactedSkipping(n) ==
  LET kept == {k \in DOMAIN clients :
                 ~clients[k].del \/ (k > 1 /\ clients[k - 1].del)}
      s    == SetToSortSeq(kept, <)
  IN  [k \in DOMAIN clients |->
         IF k > n THEN Blank
         ELSE IF k > Len(s) THEN Last(clients) ELSE clients[s[k]]]

(* The second half of DeleteClients: memmove over every marked entry, so   *)
(* that the k-th of those kept comes to place k, the last entry staying    *)
(* behind in the places that become free; then memset.                     *)
Kept == {k \in DOMAIN clients : ~clients[k].del}

Rank(k) == Cardinality({j \in Kept : j <= k})

Compacted(n) ==
  [k \in DOMAIN clients |->
     IF k > n THEN Blank
     ELSE IF k > Cardinality(Kept) THEN Last(clients)
     ELSE clients[CHOOSE j \in Kept : Rank(j) = k]]

(* Device::Unsubscribe n times by the server thread: with the inhibitor's  *)
(* last subscription goes its Shutdown, which ends its own subscription to *)
(* the remote device: TCPRemoteDriverConnection::Unsubscribe.              *)
LastOf(n) == n > 0 /\ count = n

Unsubscribed(n) ==
  IF LastOf(n) /\ ~kill_flag["inhibitor"]
  THEN Marked(remote["inhibitor"])
  ELSE clients

(* Mutation: Close gives up one subscription, however many there are. *)
LeavesOnce(n) ==
  /\ count' = IF n > 0 THEN count - 1 ELSE count
  /\ remote' = IF LastOf(n) THEN [remote EXCEPT !["inhibitor"] = NoConn]
                            ELSE remote

InhibitorLeaves(n) ==
  /\ count' = count - n
  /\ remote' = IF LastOf(n) THEN [remote EXCEPT !["inhibitor"] = NoConn]
                            ELSE remote

(* A new TCPRemoteDriverConnection of d: a socket, the banner, and the     *)
(* request to open the device on the other server (SubscribeRemote), all   *)
(* before AddClient makes it known to the server thread.                   *)
Connect(d) ==
  /\ made' = NewConn /\ links' = links \cup {NewConn}
  /\ remote' = [remote EXCEPT ![d] = NewConn]
  /\ kill_flag' = [kill_flag EXCEPT ![d] = FALSE]

-----------------------------------------------------------------------------
(* The loop of the server *)

Readable(c) == c \in hup \/ inbox[c] # "none"

(* fileWatcher->Wait returns because its time is up.  Otherwise there is   *)
(* something to read or to accept, and Accept and Read follow.             *)
WaitTimeout ==
  /\ at = "wait"
  /\ \A c \in users \cup links : ~Readable(c)
  /\ at' = "write"
  /\ UNCHANGED <<i, reader, deleter, table, net, driver>>

AcceptClient ==
  /\ at = "wait"
  /\ Cardinality(users) < MaxUsers /\ Room
  /\ clients' = Added(NewConn, "none")
  /\ num_clients' = num_clients + 1
  /\ users' = users \cup {NewConn}
  /\ made' = NewConn
  /\ at' = "poll"
  /\ UNCHANGED <<i, reader, deleter, links, hup, inbox, owed, driver>>

AcceptNobody ==
  /\ at = "wait"
  /\ at' = "poll"
  /\ UNCHANGED <<i, reader, deleter, table, net, driver>>

PollResults(c) ==
  IF c \in hup THEN {"in", "err"}
  ELSE IF c # NoConn /\ inbox[c] # "none" THEN {"in"} ELSE {"none"}

(* Read up to its loop: nobody to poll or nothing available ends it.       *)
ReadNothing ==
  /\ at = "poll"
  /\ \A k \in 1..num_clients : "none" \in PollResults(clients[k].conn)
  /\ at' = "write"
  /\ UNCHANGED <<i, reader, deleter, table, net, driver>>

ReadPoll ==
  /\ at = "poll"
  /\ revents' \in [1..num_clients -> Revents]
  /\ \A k \in 1..num_clients : revents'[k] \in PollResults(clients[k].conn)
  /\ num_available' =
       Cardinality({k \in 1..num_clients : revents'[k] # "none"})
  /\ num_available' > 0
  /\ polled' = num_clients
  /\ at' = "read" /\ i' = 1
  /\ UNCHANGED <<readbuffer, deleter, table, net, driver>>

(* The entries with an event that the loop has not come to.                *)
Ready == {k \in i..num_clients : revents[k] # "none"}

(* Mutation: the loop goes through the table, whatever poll has returned. *)
ReadLoopToEnd == at = "read" /\ Ready # {}

ReadLoop == at = "read" /\ Ready # {} /\ num_available > 0

(* Mutation: POLLHUP and POLLERR are only reported. *)
ReadFailsOnRead ==
  LET k == Min(Ready)
  IN  /\ ReadLoop
      /\ revents[k] = "err" \/ clients[k].conn \in hup
      /\ clients' = [clients EXCEPT ![k].del = revents[k] = "in" \/ @]
      /\ num_available' = num_available - 1 /\ i' = k + 1
      /\ UNCHANGED <<at, revents, readbuffer, deleter, polled, num_clients,
                     net, driver>>

(* poll reports an error, or ReadClient fails: recv returns 0 or an error. *)
(* What arrived before is not parsed any more.                             *)
ReadFails ==
  LET k == Min(Ready)
  IN  /\ ReadLoop
      /\ revents[k] = "err" \/ clients[k].conn \in hup
      /\ clients' = [clients EXCEPT ![k].del = TRUE]
      /\ num_available' = num_available - 1 /\ i' = k + 1
      /\ UNCHANGED <<at, revents, readbuffer, deleter, polled, num_clients,
                     net, driver>>

ReadClient ==
  LET k == Min(Ready)
  IN  /\ ReadLoop
      /\ revents[k] = "in" /\ clients[k].conn \notin hup
      /\ readbuffer' = inbox[clients[k].conn]
      /\ inbox' = [inbox EXCEPT ![clients[k].conn] = "none"]
      /\ at' = "parse" /\ i' = k
      /\ UNCHANGED <<revents, deleter, num_available, polled, table, made,
                     users, links, hup, owed, driver>>

ParseEnd ==
  /\ at = "parse"
  /\ readbuffer = "none"
  /\ at' = "read" /\ num_available' = num_available - 1 /\ i' = i + 1
  /\ UNCHANGED <<revents, readbuffer, deleter, polled, table, net, driver>>

ReadEnd ==
  /\ at = "read" /\ ~ReadLoop
  /\ at' = "delete" /\ i' = 1 /\ reading' = TRUE
  /\ revents' = <<>> /\ num_available' = 0 /\ polled' = 0
  /\ UNCHANGED <<readbuffer, num_deleted, table, net, driver>>

(* ParseBuffer and HandlePlayerMessage.  The reply is pushed at the end.   *)
Parse(m) ==
  /\ at = "parse"
  /\ readbuffer = m
  /\ readbuffer' = "none"
  /\ UNCHANGED <<at, i, deleter, num_available, polled, users, hup, inbox,
                 owed, tpc>>

OpenMore ==
  /\ Parse("open")
  /\ count > 0
  /\ clients' = [clients EXCEPT ![i].subs = @ + 1, ![i].out = @ + 1]
  /\ count' = count + 1
  /\ UNCHANGED <<revents, num_clients, made, links, remote, kill_flag>>

(* The first subscription runs the inhibitor's Setup, which subscribes to  *)
(* the remote device: Connect, then AddClient, which does not take the     *)
(* lock because it is called by the server thread.                         *)
OpenFirst ==
  /\ Parse("open")
  /\ count = 0 /\ Room
  /\ clients' = [Added(NewConn, "inhibitor") EXCEPT
                   ![i].subs = @ + 1, ![i].out = @ + 1]
  /\ \E r \in NewRevents : revents' = Append(revents, r)
  /\ num_clients' = num_clients + 1
  /\ Connect("inhibitor")
  /\ count' = 1

(* Mutation: the failure returns before the reply is pushed. *)
OpenFailsSilently ==
  /\ Parse("open")
  /\ count = 0
  /\ clients' = Marked(NoConn)
  /\ UNCHANGED <<revents, num_clients, made, links, count, remote, kill_flag>>

(* The other server cannot be reached.  The exception ends in Unsubscribe, *)
(* which deletes the client of a queue that was never made.                *)
OpenFails ==
  /\ Parse("open")
  /\ count = 0
  /\ clients' = [Marked(NoConn) EXCEPT ![i].out = @ + 1]
  /\ UNCHANGED <<revents, num_clients, made, links, count, remote, kill_flag>>

CloseRequest ==
  /\ Parse("close")
  /\ clients' = [Unsubscribed(1) EXCEPT ![i].subs = @ - 1, ![i].out = @ + 1]
  /\ InhibitorLeaves(1)
  /\ UNCHANGED <<revents, num_clients, made, links, kill_flag>>

(* The entries with something to write that the loop of Write has not come *)
(* to.  What is on the queue of a link is left out; it matters only when   *)
(* the write fails.                                                        *)
Pending ==
  {k \in i..num_clients :
     clients[k].out > 0 \/ clients[k].conn \in links \cap hup}

(* WriteClient: what is pending is sent, or the socket's buffer is full.   *)
WriteClient ==
  LET k == Min(Pending)
  IN  /\ at = "write" /\ Pending # {}
      /\ \E n \in 0..clients[k].out :
           /\ clients' = [clients EXCEPT ![k].out = @ - n]
           /\ owed' = [owed EXCEPT ![clients[k].conn] = @ - n]
      /\ i' = k + 1
      /\ UNCHANGED <<at, reader, deleter, num_clients, made, users, links, hup,
                     inbox, driver>>

WriteFails ==
  LET k == Min(Pending)
  IN  /\ at = "write" /\ Pending # {}
      /\ clients[k].conn \in hup
      /\ clients' = [clients EXCEPT ![k].del = TRUE]
      /\ i' = k + 1
      /\ UNCHANGED <<at, reader, deleter, num_clients, net, driver>>

WriteEnd ==
  /\ at = "write" /\ Pending = {}
  /\ at' = "delete" /\ i' = 1 /\ reading' = FALSE
  /\ UNCHANGED <<reader, num_deleted, table, net, driver>>

(* The marked entries that the loop of DeleteClients has not come to.      *)
Doomed == {k \in i..num_clients : clients[k].del}

(* Close, in the loop of DeleteClients: it ends the client's subscriptions,*)
(* closes the socket, drops the queue with what is on it, and sets the     *)
(* kill_flag that the entry points to by then.                             *)
Close ==
  LET k  == Min(Doomed)
      c  == clients[k].conn
      cs == Unsubscribed(clients[k].subs)
  IN  /\ at = "delete" /\ Doomed # {}
      /\ clients' = [cs EXCEPT ![k].conn = NoConn, ![k].subs = 0, ![k].out = 0]
      /\ InhibitorLeaves(clients[k].subs)
      /\ kill_flag' = [d \in Drivers |-> kill_flag[d] \/ cs[k].kill = d]
      /\ users' = users \ {c} /\ links' = links \ {c} /\ hup' = hup \ {c}
      /\ inbox' = [inbox EXCEPT ![c] = "none"]
      /\ owed' = [owed EXCEPT ![c] = 0]
      /\ num_deleted' = num_deleted + 1 /\ i' = k + 1
      /\ UNCHANGED <<at, reader, reading, num_clients, made, tpc>>

DeleteEnd ==
  /\ at = "delete" /\ Doomed = {}
  /\ num_clients' = num_clients - num_deleted
  /\ clients' = Compacted(num_clients - num_deleted)
  /\ at' = IF reading THEN "write" ELSE "wait"
  /\ i' = 1 /\ num_deleted' = 0
  /\ UNCHANGED <<reader, reading, net, driver>>

Server ==
  \/ WaitTimeout \/ AcceptClient \/ AcceptNobody
  \/ ReadNothing \/ ReadPoll \/ ReadFails \/ ReadClient
  \/ OpenMore \/ OpenFirst \/ OpenFails \/ CloseRequest
  \/ ParseEnd \/ ReadEnd
  \/ WriteClient \/ WriteFails \/ WriteEnd
  \/ Close \/ DeleteEnd

-----------------------------------------------------------------------------
(* The driver with a thread of its own: TCPRemoteDriverConnection          *)

RemoteSubscribe ==
  /\ tpc = "out" /\ LockFree /\ Room
  /\ clients' = Added(NewConn, "threaded")
  /\ num_clients' = num_clients + 1
  /\ Connect("threaded")
  /\ tpc' = "in"
  /\ UNCHANGED <<server, users, hup, inbox, owed, count>>

(* Unsubscribe looks at kill_flag without the lock.  If it is set the      *)
(* connection object goes, otherwise the table comes first.                *)
RemoteKilled ==
  /\ tpc = "in" /\ kill_flag["threaded"]
  /\ remote' = [remote EXCEPT !["threaded"] = NoConn]
  /\ tpc' = "out"
  /\ UNCHANGED <<server, table, net, count, kill_flag>>

RemoteNotKilled ==
  /\ tpc = "in" /\ ~kill_flag["threaded"]
  /\ tpc' = "deleting"
  /\ UNCHANGED <<server, table, net, count, remote, kill_flag>>

RemoteDelete ==
  /\ tpc = "deleting" /\ LockFree
  /\ clients' = Marked(remote["threaded"])
  /\ remote' = [remote EXCEPT !["threaded"] = NoConn]
  /\ tpc' = "out"
  /\ UNCHANGED <<server, num_clients, net, count, kill_flag>>

-----------------------------------------------------------------------------
(* The other ends of the connections *)

Subs(c) == LET k == CHOOSE k \in DOMAIN clients : clients[k].conn = c
           IN  clients[k].subs

Uses(c) == Subs(c) > 0 \/ owed[c] > 0

(* A client makes one request at a time, as libplayerc does, and gives up  *)
(* only what it has.                                                       *)
Send(c, m) ==
  /\ c \in users \ hup /\ owed[c] = 0
  /\ inbox' = [inbox EXCEPT ![c] = m]
  /\ owed' = [owed EXCEPT ![c] = 1]
  /\ UNCHANGED <<server, table, made, users, links, hup, driver>>

SendOpen(c) ==
  /\ Send(c, "open")
  /\ Subs(c) < MaxSubs
  /\ Sharing \/ \A u \in users \ {c} : ~Uses(u)

SendClose(c) ==
  /\ Send(c, "close")
  /\ Subs(c) > 0

HangUp(c) ==
  /\ c \in (users \cup links) \ hup
  /\ hup' = hup \cup {c}
  /\ UNCHANGED <<server, table, made, users, links, inbox, owed, driver>>

Peers ==
  \E c \in Conns : SendOpen(c) \/ SendClose(c) \/ HangUp(c)

Next ==
  \/ Server
  \/ RemoteSubscribe \/ RemoteKilled \/ RemoteNotKilled \/ RemoteDelete
  \/ Peers

(* The server thread runs on; nothing is asked of drivers and peers.       *)
Spec == Init /\ [][Next]_vars /\ WF_vars(Server)

-----------------------------------------------------------------------------
(* Whenever the lock is free, the first num_clients entries are the open   *)
(* connections, each of them once: DeleteClients has closed exactly what   *)
(* it removed and counted exactly what it closed.                          *)
TableSound ==
  LockFree =>
    /\ {clients[k].conn : k \in 1..num_clients} = users \cup links
    /\ num_clients = Cardinality(users \cup links)

(* An entry that Close may still visit points to the kill_flag of a        *)
(* connection object that exists and is the entry's own; and a driver      *)
(* whose flag is not set has its connection open, and only such a driver.  *)
KillFlagAgrees ==
  /\ \A k \in 1..num_clients :
       clients[k].conn # NoConn /\ clients[k].kill # "none" =>
         remote[clients[k].kill] = clients[k].conn
  /\ \A d \in Drivers :
       remote[d] # NoConn => (kill_flag[d] <=> remote[d] \notin links)

(* Read acts only on entries its poll has filled in, although handling a   *)
(* request may append an entry with undefined revents.                     *)
OnlyPolledAreRead ==
  /\ at = "parse" => i <= polled
  /\ ReadLoop => Min(Ready) <= polled

(* The inhibitor counts what the table records, through failed Setups,     *)
(* requests and Close, and has a connection object while it is in use.     *)
CountMatchesTable ==
  /\ count = FoldSeq(LAMBDA e, n : e.subs + n, 0,
                     SubSeq(clients, 1, num_clients))
  /\ count = 0 <=> remote["inhibitor"] = NoConn

(* A client that has asked is answered once: its request is still to be    *)
(* parsed or its reply is on the queue.                                    *)
OneReplyEach ==
  \A k \in 1..num_clients :
    LET c == clients[k].conn
    IN  c \in users =>
          owed[c] = clients[k].out
                    + (IF inbox[c] # "none" THEN 1 ELSE 0)
                    + (IF at = "parse" /\ i = k /\ readbuffer # "none"
                       THEN 1 ELSE 0)

(* A connection whose peer has gone, or that no driver and no client uses  *)
(* any more, is closed in the end.                                         *)
Useless(c) ==
  c \in hup \/ (c \in links /\ \A d \in Drivers : remote[d] # c)

UselessIsClosed ==
  \A c \in Conns : Useless(c) ~> c \notin users \cup links
=============================================================================
