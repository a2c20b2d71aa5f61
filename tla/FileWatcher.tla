---------------------------- MODULE FileWatcher ----------------------------
(***************************************************************************)
(* libplayercore/filewatcher.cc and the descriptors it watches.            *)
(*                                                                         *)
(* The server thread runs the loop of server.cc: FileWatcher::Wait, then,  *)
(* if something other than a driver's descriptor is ready, PlayerTCP's     *)
(* Accept and Read and PlayerUDP's Read, and in any case their Write.      *)
(* select runs without the watcher's lock, so other threads add and remove *)
(* watches, open and close files, between its three parts.                 *)
(*                                                                         *)
(* The other thread is the driver of server/drivers/opaque/tcpstream.cc,   *)
(* the one that opens, watches and closes a socket again and again.        *)
(*                                                                         *)
(* A descriptor is a number; file says what the process has open under     *)
(* it, and an open takes the lowest free number, as POSIX has it.  Every   *)
(* watch is for reading.  What a connection carries is left out.           *)
(***************************************************************************)
EXTENDS Integers, Sequences, FiniteSets, FiniteSetsExt, SequencesExt

CONSTANTS
  Fds,          \* the descriptors the process may have open
  Peers,        \* programs that connect by TCP
  Ports,        \* programs that send datagrams
  MaxDatagrams  \* bound on the datagrams that wait to be read

CLOSED   == "closed"
LISTENER == "listener"     \* PlayerTCP's listening socket
UDP      == "udp"          \* PlayerUDP's only socket
STREAM   == "stream"       \* a socket the driver opened

ASSUME ConstantsAssumption ==
  /\ Fds \subseteq Nat \ {0} /\ IsFiniteSet(Fds) /\ Cardinality(Fds) >= 2
  /\ Peers \cap (Ports \cup {CLOSED, LISTENER, UDP, STREAM}) = {}
  /\ IsFiniteSet(Peers) /\ IsFiniteSet(Ports)
  /\ MaxDatagrams \in Nat

NoFd == -1

VARIABLES
  file,     \* file[fd]: what is open as fd: CLOSED, LISTENER, UDP, STREAM or a peer
  watches,  \* WatchedFiles: [fd, queue], fd = NoFd for a free entry
  peer,     \* peer[p]: "none", "pending", "open", "left" or "done"
  cfd,      \* clients[].fd of the peers in PlayerTCP's table
  udp,      \* the ports in PlayerUDP's table
  dgrams,   \* datagrams to read: [from, empty]
  pc,       \* the server thread
  sel,      \* the descriptors given to select
  ready,    \* the descriptors select returned
  stream,   \* the driver: [at, sock, connected]
  stray     \* history: who closed what was not his own

vars == <<file, watches, peer, cfd, udp, dgrams, pc, sel, ready, stream, stray>>

Watch == [fd : Fds \cup {NoFd}, queue : BOOLEAN]
ServerSteps == {"wait", "select", "match", "accept", "read", "readudp", "write", "writeudp", "quit"}
StreamSteps == {"off", "open", "connect", "run", "messages", "close", "quit"}

TypeOK ==
  /\ file \in [Fds -> {CLOSED, LISTENER, UDP, STREAM} \cup Peers]
  /\ watches \in Seq(Watch)
  /\ peer \in [Peers -> {"none", "pending", "open", "left", "done"}]
  /\ cfd \in [Peers -> Fds \cup {NoFd}]
  /\ udp \subseteq Ports
  /\ dgrams \in SeqOf([from : Ports, empty : BOOLEAN], MaxDatagrams)
  /\ pc \in ServerSteps
  /\ sel \subseteq Fds /\ ready \subseteq Fds
  /\ stream \in [at : StreamSteps, sock : Fds \cup {NoFd}, connected : BOOLEAN]
  /\ stray \subseteq {"tcp", "udp", "stream"}

First == Min(Fds)
Second == Min(Fds \ {First})
listenfd == First       \* listeners[0].fd of PlayerTCP
udpfd == Second         \* listeners[0].fd of PlayerUDP

Init ==
  /\ file = [fd \in Fds |-> IF fd = First THEN LISTENER
                            ELSE IF fd = Second THEN UDP ELSE CLOSED]
  /\ watches = <<[fd |-> First, queue |-> FALSE], [fd |-> Second, queue |-> FALSE]>>
  /\ peer = [p \in Peers |-> "none"] /\ cfd = [p \in Peers |-> NoFd]
  /\ udp = {} /\ dgrams = << >>
  /\ pc = "wait" /\ sel = {} /\ ready = {}
  /\ stream = [at |-> "off", sock |-> NoFd, connected |-> FALSE]
  /\ stray = {}

(***************************************************************************)
(* AddFileWatch, RemoveFileWatch.  queue: is there one to wake?            *)
(***************************************************************************)
FirstIn(w, S) == {i \in DOMAIN w : w[i] \in S /\ \A j \in 1..(i-1) : w[j] \notin S}

Free == [fd : {NoFd}, queue : BOOLEAN]

(* Mutation: the queue is not stored. *)
AddFileWatchNoQueue(w, fd, q) ==
  LET free == FirstIn(w, Free) IN
  IF free = {} THEN Append(w, [fd |-> fd, queue |-> FALSE])
  ELSE [i \in DOMAIN w |-> IF i \in free THEN [fd |-> fd, queue |-> FALSE] ELSE w[i]]

(* Mutation: entries are only ever appended. *)
AddFileWatchAtEnd(w, fd, q) == Append(w, [fd |-> fd, queue |-> q])

AddFileWatch(w, fd, q) ==
  LET free == FirstIn(w, Free) IN
  IF free = {} THEN Append(w, [fd |-> fd, queue |-> q])
  ELSE [i \in DOMAIN w |-> IF i \in free THEN [fd |-> fd, queue |-> q] ELSE w[i]]

RemoveFileWatch(w, fd, q) ==
  LET found == FirstIn(w, {[fd |-> fd, queue |-> q]}) IN
  [i \in DOMAIN w |-> IF i \in found THEN [w[i] EXCEPT !.fd = NoFd] ELSE w[i]]

(* RemoveFileWatch(fd, FALSE), n[fd] times for every fd: each call takes   *)
(* the first of the entries it finds.                                      *)
RemoveFileWatches(w, n) ==
  LET found == {i \in DOMAIN w :
                  /\ w[i].fd # NoFd /\ ~w[i].queue
                  /\ Cardinality({j \in 1..i : w[j] = w[i]}) <= n[w[i].fd]}
  IN  [i \in DOMAIN w |-> IF i \in found THEN [w[i] EXCEPT !.fd = NoFd] ELSE w[i]]

(***************************************************************************)
(* The operating system.                                                   *)
(***************************************************************************)
FreeFds == {fd \in Fds : file[fd] = CLOSED}
Lowest == Min(FreeFds)

Readable(fd) ==
  \/ file[fd] = LISTENER /\ \E p \in Peers : peer[p] = "pending"
  \/ file[fd] = UDP /\ dgrams # << >>
  \/ file[fd] \in Peers /\ peer[file[fd]] = "left"

(* close(fd) by who, to whom fd is what. *)
Closing(fd, who, what) ==
  /\ file' = IF fd = NoFd THEN file ELSE [file EXCEPT ![fd] = CLOSED]
  /\ stray' = IF fd = NoFd \/ file[fd] \in {what, CLOSED} THEN stray
              ELSE stray \cup {who}

PeerConnects(p) ==
  /\ peer[p] = "none"
  /\ peer' = [peer EXCEPT ![p] = "pending"]
  /\ UNCHANGED <<file, watches, cfd, udp, dgrams, pc, sel, ready, stream, stray>>

PeerLeaves(p) ==
  /\ peer[p] = "open"
  /\ peer' = [peer EXCEPT ![p] = "left"]
  /\ UNCHANGED <<file, watches, cfd, udp, dgrams, pc, sel, ready, stream, stray>>

(* A datagram that arrives; those that get lost are not sent. *)
Datagram(u, e) ==
  /\ file[udpfd] = UDP
  /\ Len(dgrams) < MaxDatagrams
  /\ dgrams' = Append(dgrams, [from |-> u, empty |-> e])
  /\ UNCHANGED <<file, watches, peer, cfd, udp, pc, sel, ready, stream, stray>>

(***************************************************************************)
(* FileWatcher::Wait: the sets are filled under the lock, select runs      *)
(* without it, and the result is matched with the watches of that moment.  *)
(***************************************************************************)
WaitBegin ==
  /\ pc = "wait"
  /\ sel' = {watches[i].fd : i \in DOMAIN watches} \ {NoFd}
  /\ pc' = "select"
  /\ UNCHANGED <<file, watches, peer, cfd, udp, dgrams, ready, stream, stray>>

SelectFails ==
  /\ pc = "select"
  /\ \E fd \in sel : file[fd] = CLOSED
  /\ pc' = "write" /\ sel' = {}
  /\ UNCHANGED <<file, watches, peer, cfd, udp, dgrams, ready, stream, stray>>

(* A driver's socket may have something to read at any time. *)
SelectReturns ==
  /\ pc = "select"
  /\ \A fd \in sel : file[fd] # CLOSED
  /\ \E s \in SUBSET {fd \in sel : file[fd] = STREAM} :
       ready' = s \cup {fd \in sel : Readable(fd)}
  /\ pc' = IF ready' = {} THEN "write" ELSE "match"
  /\ sel' = {}
  /\ UNCHANGED <<file, watches, peer, cfd, udp, dgrams, stream, stray>>

Hits == {i \in DOMAIN watches : watches[i].fd \in ready}

(* Mutation: the loop ends one match early. *)
MatchedShort ==
  {i \in Hits : Cardinality({j \in Hits : j < i}) < Cardinality(ready) - 1}

(* The loop stops when as many watches matched as select counted. *)
Matched ==
  {i \in Hits : Cardinality({j \in Hits : j < i}) < Cardinality(ready)}

WaitMatch ==
  /\ pc = "match"
  /\ pc' = IF \E i \in Matched : ~watches[i].queue THEN "accept" ELSE "write"
  /\ ready' = {}
  /\ UNCHANGED <<file, watches, peer, cfd, udp, dgrams, sel, stream, stray>>

(***************************************************************************)
(* PlayerTCP on the server thread.  Close of a client removes its watch    *)
(* and closes its descriptor; the clients of ps are closed one by one.     *)
(***************************************************************************)
Clients == {p \in Peers : cfd[p] # NoFd}

CloseClients(ps) ==
  /\ watches' = RemoveFileWatches(watches, [fd \in Fds |-> Cardinality({p \in ps : cfd[p] = fd})])
  /\ file' = [fd \in Fds |-> IF \E p \in ps : cfd[p] = fd THEN CLOSED ELSE file[fd]]
  /\ stray' = IF \E p \in ps : file[cfd[p]] \notin {p, CLOSED}
              THEN stray \cup {"tcp"} ELSE stray
  /\ cfd' = [p \in Peers |-> IF p \in ps THEN NoFd ELSE cfd[p]]
  /\ peer' = [p \in Peers |-> IF p \in ps THEN "done" ELSE peer[p]]

(* One connection of each listener per call.  An accept that fails ends    *)
(* the server's loop: no free descriptor is enough.                        *)
Accept ==
  /\ pc = "accept"
  /\ LET waiting == {p \in Peers : peer[p] = "pending"} IN
     \/ /\ waiting = {} /\ pc' = "read"
        /\ UNCHANGED <<file, watches, peer, cfd>>
     \/ /\ waiting # {} /\ FreeFds = {} /\ pc' = "quit"
        /\ UNCHANGED <<file, watches, peer, cfd>>
     \/ /\ FreeFds # {} /\ pc' = "read"
        /\ \E p \in waiting :
             /\ file' = [file EXCEPT ![Lowest] = p]
             /\ watches' = AddFileWatch(watches, Lowest, FALSE)
             /\ peer' = [peer EXCEPT ![p] = "open"] /\ cfd' = [cfd EXCEPT ![p] = Lowest]
  /\ UNCHANGED <<udp, dgrams, sel, ready, stream, stray>>

(* Clients whose descriptor poll or recv reports broken, and those whose   *)
(* descriptor now names something else, which recv may read as an end.     *)
Broken == {p \in Clients : \/ file[cfd[p]] = CLOSED
                           \/ file[cfd[p]] \in Peers /\ peer[file[cfd[p]]] = "left"}
Foreign == {p \in Clients : file[cfd[p]] # p}

Read ==
  /\ pc = "read"
  /\ \E ps \in SUBSET Foreign : CloseClients(Broken \cup ps)
  /\ pc' = "readudp"
  /\ UNCHANGED <<udp, dgrams, sel, ready, stream>>

(* Write: a send may fail where a read would have. *)
Write ==
  /\ pc = "write"
  /\ \E ps \in SUBSET (Broken \cup Foreign) : CloseClients(ps)
  /\ pc' = "writeudp"
  /\ UNCHANGED <<udp, dgrams, sel, ready, stream>>

(***************************************************************************)
(* PlayerUDP on the server thread.  Every client has the descriptor of the *)
(* listener, and Close of a client closes it.  The number stays in         *)
(* listen_ufds and in the table.                                           *)
(***************************************************************************)
CloseUdp(us) ==
  /\ watches' = RemoveFileWatches(watches,
                                 [fd \in Fds |-> IF fd = udpfd THEN Cardinality(us) ELSE 0])
  /\ IF us = {} THEN UNCHANGED <<file, stray>> ELSE Closing(udpfd, "udp", UDP)

(* What recvfrom may deliver.  From a stream it leaves the address unset. *)
Received ==
  CASE file[udpfd] = UDP    -> IF dgrams = << >> THEN {} ELSE {Head(dgrams)}
    [] file[udpfd] = STREAM -> [from : Ports, empty : BOOLEAN]
    [] file[udpfd] \in Peers -> [from : Ports, empty : {peer[file[udpfd]] = "left"}]
    [] OTHER                -> {}

(* An empty datagram makes a new client of a known one: the old entry is   *)
(* closed, with the socket, and one with the same descriptor is added.     *)
ReadUdp ==
  /\ pc = "readudp"
  /\ \/ /\ file[udpfd] # UDP \/ dgrams = << >>
        /\ UNCHANGED <<file, watches, udp, dgrams, stray>>
     \/ \E d \in Received :
          /\ CloseUdp(udp \cap IF d.empty THEN {d.from} ELSE {})
          /\ udp' = udp \cup {d.from}
          /\ dgrams' = IF file[udpfd] # UDP THEN dgrams
                       ELSE IF file'[udpfd] # UDP THEN << >> ELSE Tail(dgrams)
  /\ pc' = "write"
  /\ UNCHANGED <<peer, cfd, sel, ready, stream>>

(* The clients of us could not be written to; what the others are sent     *)
(* goes to whatever is open under the number.                              *)
WriteUdp ==
  /\ pc = "writeudp"
  /\ \E us \in SUBSET udp :
       /\ CloseUdp(us)
       /\ udp' = udp \ us
  /\ dgrams' = IF file'[udpfd] = UDP THEN dgrams ELSE << >>
  /\ pc' = "wait"
  /\ UNCHANGED <<peer, cfd, sel, ready, stream>>

(***************************************************************************)
(* TCPStream on its own thread.  A cancelled thread runs MainQuit, which   *)
(* is CloseTerm.  (fcntl of an open socket is taken not to fail.)          *)
(***************************************************************************)
StreamStart ==
  /\ stream.at = "off"
  /\ stream' = [stream EXCEPT !.at = "open"]
  /\ UNCHANGED <<file, watches, peer, cfd, udp, dgrams, pc, sel, ready, stray>>

(* OpenTerm: socket. *)
StreamOpen ==
  /\ stream.at = "open"
  /\ IF FreeFds = {}
     THEN /\ stream' = [stream EXCEPT !.at = "messages", !.sock = NoFd]
          /\ UNCHANGED file
     ELSE /\ stream' = [stream EXCEPT !.at = "connect", !.sock = Lowest]
          /\ file' = [file EXCEPT ![Lowest] = STREAM]
  /\ UNCHANGED <<watches, peer, cfd, udp, dgrams, pc, sel, ready, stray>>

(* OpenTerm: connect, then the driver's own AddFileWatch. *)
StreamConnect ==
  /\ stream.at = "connect"
  /\ stream' = [stream EXCEPT !.at = "run", !.connected = TRUE]
  /\ watches' = AddFileWatch(watches, stream.sock, TRUE)
  /\ UNCHANGED <<file, peer, cfd, udp, dgrams, pc, sel, ready, stray>>

(* A socket that did not connect is left open. *)
StreamRefused ==
  /\ stream.at = "connect"
  /\ stream' = [stream EXCEPT !.at = "messages"]
  /\ UNCHANGED <<file, watches, peer, cfd, udp, dgrams, pc, sel, ready, stray>>

(* ReadData in "run", send of a command in "messages": no error. *)
StreamGoes ==
  /\ \/ stream.at = "run" /\ stream' = [stream EXCEPT !.at = "messages"]
     \/ /\ stream.at = "messages"
        /\ stream' = [stream EXCEPT !.at = IF stream.connected THEN "run" ELSE "open"]
  /\ UNCHANGED <<file, watches, peer, cfd, udp, dgrams, pc, sel, ready, stray>>

(* CloseTerm, first half: recv or send failed.  A command is sent whether  *)
(* or not the driver is connected, and fails when it is not.               *)
StreamFails ==
  /\ stream.at \in {"run", "messages"}
  /\ stream' = [stream EXCEPT !.at = "close"]
  /\ watches' = RemoveFileWatch(watches, stream.sock, TRUE)
  /\ UNCHANGED <<file, peer, cfd, udp, dgrams, pc, sel, ready, stray>>

(* The last client unsubscribed. *)
StreamCancelled ==
  /\ stream.at \in {"connect", "run", "messages", "close"}
  /\ stream' = [stream EXCEPT !.at = "quit"]
  /\ watches' = RemoveFileWatch(watches, stream.sock, TRUE)
  /\ UNCHANGED <<file, peer, cfd, udp, dgrams, pc, sel, ready, stray>>

(* CloseTerm, second half. *)
StreamCloses ==
  /\ stream.at \in {"close", "quit"}
  /\ Closing(stream.sock, "stream", STREAM)
  /\ stream' = [stream EXCEPT !.at = IF @ = "close" THEN "messages" ELSE "off",
                              !.connected = FALSE]
  /\ dgrams' = IF file'[udpfd] = UDP THEN dgrams ELSE << >>
  /\ UNCHANGED <<watches, peer, cfd, udp, pc, sel, ready>>

Server ==
  \/ WaitBegin \/ SelectFails \/ SelectReturns \/ WaitMatch
  \/ Accept \/ Read \/ Write \/ ReadUdp \/ WriteUdp

Driver ==
  \/ StreamStart \/ StreamOpen \/ StreamConnect \/ StreamRefused
  \/ StreamGoes \/ StreamFails \/ StreamCancelled \/ StreamCloses

Next ==
  \/ Server \/ Driver
  \/ \E p \in Peers : PeerConnects(p) \/ PeerLeaves(p)
  \/ \E u \in Ports, e \in BOOLEAN : Datagram(u, e)

Spec == Init /\ [][Next]_vars

(* The server thread runs on, and select is not called each time just when *)
(* the driver has closed a descriptor it was given.                        *)
FairSpec == Spec /\ WF_vars(Server) /\ SF_vars(SelectReturns)

(***************************************************************************)
(* Properties.                                                             *)
(***************************************************************************)

(* Open descriptors and whether they have a queue to wake. *)
Owned == {<<fd, FALSE>> : fd \in {fd \in Fds : file[fd] \in {LISTENER, UDP} \cup Peers}}
         \cup IF stream.connected /\ stream.at \in {"run", "messages"}
              THEN {<<stream.sock, TRUE>>} ELSE {}

(* As long as nobody closed what was not his own, AddFileWatch and         *)
(* RemoveFileWatch keep the list equal to what is open: the listeners, the *)
(* clients and the driver's connected socket are each watched once, with   *)
(* the right queue, and nothing closed is watched.                         *)
WatchesMatchFiles ==
  stray = {} =>
    LET live == {i \in DOMAIN watches : watches[i].fd # NoFd} IN
    /\ {<<watches[i].fd, watches[i].queue>> : i \in live} = Owned
    /\ Cardinality(live) = Cardinality(Owned)

(* AddFileWatch reuses the entries RemoveFileWatch freed: the list is no   *)
(* longer than the most descriptors that were open at once, however often  *)
(* the driver reconnects.                                                  *)
WatchListBounded == stray = {} => Len(watches) <= Cardinality(Fds)

(* A program that connects is accepted, whatever the driver does with its  *)
(* own descriptors meanwhile, unless a descriptor was closed under its     *)
(* owner or the server gave up: Wait may miss events or wake in vain, as   *)
(* its comment says, but not for ever.                                     *)
PeersAccepted ==
  \A p \in Peers :
    (peer[p] = "pending") ~> (peer[p] # "pending" \/ pc = "quit" \/ stray # {})

(* PlayerUDP::Read: an empty datagram signals a new client, even if he is  *)
(* using an old port; the client in the table has a socket to be heard on. *)
UdpClientsHaveSocket == udp # {} => file[udpfd] = UDP
=============================================================================
