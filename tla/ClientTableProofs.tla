------------------------- MODULE ClientTableProofs -------------------------
(***************************************************************************)
(* Proofs about ClientTable, for any number of connections, clients and    *)
(* subscriptions, when no two clients use the inhibitor at the same time   *)
(* (Sharing is FALSE; with Sharing TableSound does not hold).              *)
(***************************************************************************)
EXTENDS ClientTable, ListFacts, FiniteSetTheorems, TLAPS

Rows == 1..num_clients

Open(k) == clients[k].conn # NoConn

Closed == {k \in Rows : ~Open(k)}

(* The rows of the table and the open sockets: each socket has one row.  A *)
(* row without is one that the loop of DeleteClients has closed.           *)
RowsInv ==
  /\ \A k \in DOMAIN clients : k > num_clients => clients[k] = Blank
  /\ \A k, l \in Rows : Open(k) /\ clients[k].conn = clients[l].conn => k = l
  /\ \A k \in Rows : Open(k) => clients[k].conn \in users \cup links
  /\ \A c \in users \cup links : \E k \in Rows : clients[k].conn = c
  /\ \A k \in Rows : Open(k) <=> ~(at = "delete" /\ k < i /\ clients[k].del)
  /\ num_deleted = Cardinality(Closed)
  /\ i >= 1 /\ (at = "delete" => i <= num_clients + 1)

(* Connections are numbered in the order in which they are made. *)
NetInv ==
  /\ users \cup links \subseteq 1..made
  /\ users \cap links = {}
  /\ \A d \in Drivers : remote[d] \in 0..made /\ remote[d] \notin users
  /\ \A c \in Conns \ users : inbox[c] = "none" /\ owed[c] = 0

(* The loop of Read: num_available counts the events it has not come to,   *)
(* all among the entries that were polled.                                 *)
ReadInv ==
  /\ at \in {"read", "parse"} =>
       /\ Len(revents) = num_clients /\ polled <= num_clients
       /\ num_available = Cardinality({k \in i..polled : revents[k] # "none"})
  /\ at = "parse" => i <= polled /\ revents[i] # "none"
  /\ at # "parse" => readbuffer = "none"

(* What a client has asked for, and where its request is. *)
Parsing(k) == at = "parse" /\ i = k /\ readbuffer # "none"
Asks(k, m) == inbox[clients[k].conn] = m \/ (Parsing(k) /\ readbuffer = m)

RequestInv ==
  \A k \in Rows :
    /\ clients[k].conn \in users =>
         /\ owed[clients[k].conn] = clients[k].out
              + (IF inbox[clients[k].conn] # "none" THEN 1 ELSE 0)
              + (IF Parsing(k) THEN 1 ELSE 0)
         /\ Asks(k, "open") => clients[k].subs < MaxSubs
         /\ Asks(k, "close") => clients[k].subs > 0
         /\ clients[k].kill = "none"
    /\ clients[k].conn \notin users =>
         clients[k].subs = 0 /\ clients[k].out = 0 /\ ~Parsing(k)

(* A driver, its connection object, and the row of its connection. *)
LinkInv ==
  /\ KillFlagAgrees
  /\ \A d \in Drivers :
       remote[d] \in links =>
         \E k \in Rows : clients[k].conn = remote[d] /\ clients[k].kill = d
  /\ tpc = "out" <=> remote["threaded"] = NoConn
  /\ count = 0 <=> remote["inhibitor"] = NoConn

(* One client at a time uses the inhibitor; its connection comes after     *)
(* that client in the table.                                               *)
Busy(k) == clients[k].subs > 0 \/ (Open(k) /\ owed[clients[k].conn] > 0)

InhibitorInv ==
  /\ \A k, l \in Rows : Busy(k) /\ Busy(l) => k = l
  /\ \A k \in Rows : clients[k].subs > 0 => count = clients[k].subs
  /\ count > 0 => \E k \in Rows : clients[k].subs > 0
  /\ \A k, l \in Rows : clients[k].subs > 0 /\ clients[l].kill = "inhibitor" => k < l

IInv ==
  /\ TypeOK /\ RowsInv /\ NetInv /\ ReadInv /\ RequestInv /\ LinkInv /\ InhibitorInv

-----------------------------------------------------------------------------
(***************************************************************************)
(* The table.                                                              *)
(***************************************************************************)

(* Rows are places of the table, and their fields have their types. *)
LEMMA RowTypes ==
  ASSUME TypeOK
  PROVE  /\ num_clients \in Nat /\ num_clients <= Len(clients) /\ Len(clients) \in Nat
         /\ DOMAIN clients = 1..Len(clients) /\ Rows \subseteq DOMAIN clients
         /\ \A k \in DOMAIN clients :
              /\ clients[k] \in Entry
              /\ clients[k].conn \in Conns \cup {NoConn} /\ clients[k].del \in BOOLEAN
              /\ clients[k].kill \in Drivers \cup {"none"}
              /\ clients[k].subs \in 0..MaxSubs /\ clients[k].out \in 0..1
<1>1. clients \in Seq(Entry) /\ num_clients \in 0..Len(clients)
  BY DEF TypeOK
<1>2. DOMAIN clients = 1..Len(clients) /\ Len(clients) \in Nat
  BY <1>1, LenProperties
<1>3. \A k \in DOMAIN clients : clients[k] \in Entry
  BY <1>1, <1>2, ElementOfSeq
<1>4. \A e \in Entry : /\ e.conn \in Conns \cup {NoConn} /\ e.del \in BOOLEAN
                       /\ e.kill \in Drivers \cup {"none"}
                       /\ e.subs \in 0..MaxSubs /\ e.out \in 0..1
  BY DEF Entry
<1>5. num_clients \in Nat /\ num_clients <= Len(clients) /\ Rows \subseteq DOMAIN clients
  BY <1>1, <1>2 DEF Rows
<1> QED
  BY <1>2, <1>3, <1>4, <1>5

(* A function on the places of the table is a table. *)
LEMMA TableOf ==
  ASSUME TypeOK, NEW t, t = [k \in DOMAIN clients |-> t[k]],
         \A k \in DOMAIN clients : t[k] \in Entry
  PROVE  t \in Seq(Entry) /\ DOMAIN t = DOMAIN clients /\ Len(t) = Len(clients)
<1>1. DOMAIN clients = 1..Len(clients) /\ Len(clients) \in Nat
  BY RowTypes
<1>2. DOMAIN t = DOMAIN clients
  OBVIOUS
<1>3. t \in [1..Len(clients) -> Entry]
  BY <1>1
<1>4. t \in Seq(Entry)
  BY <1>1, <1>3, SeqDef
<1>5. DOMAIN t = 1..Len(t) /\ Len(t) \in Nat
  BY <1>4, LenProperties
<1> QED
  BY <1>1, <1>2, <1>4, <1>5

(* The place a search from the head comes upon. *)
LEMMA MinIsLeast ==
  ASSUME NEW S \in SUBSET Nat, S # {}
  PROVE  Min(S) \in S /\ \A x \in S : Min(S) <= x
BY LeastElement DEF Min

(* DeleteClient marks the one row of a connection, if it has one. *)
LEMMA MarkedEffect ==
  ASSUME TypeOK, NEW q,
         \A k, l \in Rows : clients[k].conn = q /\ clients[l].conn = q => k = l
  PROVE  /\ Marked(q) \in Seq(Entry)
         /\ DOMAIN Marked(q) = DOMAIN clients /\ Len(Marked(q)) = Len(clients)
         /\ \A k \in DOMAIN clients :
              /\ Marked(q)[k].conn = clients[k].conn
              /\ Marked(q)[k].subs = clients[k].subs
              /\ Marked(q)[k].out = clients[k].out
              /\ k \in Rows /\ clients[k].conn = q =>
                   Marked(q)[k].del = TRUE /\ Marked(q)[k].kill = "none"
              /\ ~(k \in Rows /\ clients[k].conn = q) => Marked(q)[k] = clients[k]
<1> DEFINE hits == {k \in 1..num_clients : clients[k].conn = q}
           m == Min(hits)
           t == Marked(q)
<1>1. /\ num_clients \in Nat /\ Rows \subseteq DOMAIN clients
      /\ \A k \in DOMAIN clients : clients[k] \in Entry
      /\ clients \in Seq(Entry) /\ DOMAIN clients = 1..Len(clients)
  BY RowTypes DEF TypeOK
<1>2. CASE hits = {}
  <2>1. t = clients
    BY <1>2 DEF Marked
  <2> QED
    BY <1>1, <1>2, <2>1 DEF Rows
<1>3. CASE hits # {}
  <2>1. m \in hits
    BY <1>3, MinIsLeast
  <2>2. \A k \in Rows : clients[k].conn = q <=> k = m
    BY <2>1 DEF Rows
  <2> DEFINE new == [clients[m] EXCEPT !.del = TRUE, !.kill = "none"]
  <2>3. m \in DOMAIN clients /\ m \in Rows
    BY <1>1, <2>1 DEF Rows
  <2>4. t = [clients EXCEPT ![m].del = TRUE, ![m].kill = "none"]
    BY <1>3 DEF Marked
  <2> HIDE DEF m, t
  <2>5. /\ new \in Entry /\ new.conn = clients[m].conn /\ new.subs = clients[m].subs
        /\ new.out = clients[m].out /\ new.del = TRUE /\ new.kill = "none"
    BY <1>1, <2>3 DEF Entry
  <2>6. t = [k \in DOMAIN clients |-> IF k = m THEN new ELSE clients[k]]
    BY <1>1, <2>3, <2>4
  <2> HIDE DEF new
  <2>7. \A k \in DOMAIN clients : t[k] = IF k = m THEN new ELSE clients[k]
    BY <2>6
  <2>8. t = [k \in DOMAIN clients |-> t[k]] /\ \A k \in DOMAIN clients : t[k] \in Entry
    BY <1>1, <2>5, <2>6, <2>7
  <2>9. t \in Seq(Entry) /\ DOMAIN t = DOMAIN clients /\ Len(t) = Len(clients)
    BY <2>8, TableOf
  <2> QED
    BY <2>2, <2>3, <2>5, <2>7, <2>9 DEF t
<1> QED
  BY <1>2, <1>3

-----------------------------------------------------------------------------
(***************************************************************************)
(* Steps that move the server thread.                                      *)
(***************************************************************************)

(* A step that opens and closes no connection: the rows stay those of the  *)
(* open sockets.                                                           *)
LEMMA RowsKept ==
  ASSUME IInv, TypeOK', num_clients' = num_clients, DOMAIN clients' = DOMAIN clients,
         \A k \in DOMAIN clients : clients'[k].conn = clients[k].conn,
         \A k \in DOMAIN clients : k \notin Rows => clients'[k] = clients[k],
         UNCHANGED <<users, links, num_deleted>>, i' >= 1,
         at = "delete" => /\ at' = "delete" /\ i' = i
                          /\ \A k \in Rows : clients'[k].del = clients[k].del,
         at # "delete" /\ at' = "delete" => i' = 1
  PROVE  RowsInv'
<1>1. /\ num_clients \in Nat /\ Rows \subseteq DOMAIN clients /\ i \in Nat
      /\ DOMAIN clients = 1..Len(clients)
  BY RowTypes DEF IInv, TypeOK
<1>2. Rows' = Rows /\ \A k \in Rows : clients'[k].conn = clients[k].conn
  BY <1>1 DEF Rows
<1>3. Closed' = Closed
  BY <1>2 DEF Closed, Open
<1>4. \A k \in Rows : Open(k)' <=> ~(at' = "delete" /\ k < i' /\ clients'[k].del)
  BY <1>1, <1>2 DEF IInv, RowsInv, Open, Rows
<1>5. \A k \in DOMAIN clients' : k > num_clients' => clients'[k] = Blank
  BY <1>1 DEF IInv, RowsInv, Rows
<1>6. \A k, l \in Rows : Open(k)' /\ clients'[k].conn = clients'[l].conn => k = l
  BY <1>2 DEF IInv, RowsInv, Open
<1>7. \A k \in Rows : Open(k)' => clients'[k].conn \in users \cup links
  BY <1>2 DEF IInv, RowsInv, Open
<1>8. \A c \in users \cup links : \E k \in Rows : clients'[k].conn = c
  BY <1>2 DEF IInv, RowsInv
<1>9. at' = "delete" => i' <= num_clients + 1
  BY <1>1 DEF IInv, RowsInv
<1>10. num_deleted' = Cardinality(Closed')
  BY <1>3 DEF IInv, RowsInv
<1> QED
  BY <1>2, <1>4, <1>5, <1>6, <1>7, <1>8, <1>9, <1>10 DEF RowsInv

(* A step of the server thread that touches neither table nor sockets. *)
LEMMA QuietInductive ==
  ASSUME IInv, UNCHANGED <<table, net, driver, num_deleted>>, TypeOK', ReadInv',
         readbuffer' = "none", at' # "parse", at # "delete", readbuffer = "none",
         i' >= 1, at' = "delete" => i' = 1
  PROVE  IInv'
<1>1. RowsInv'
  BY RowsKept DEF table, net
<1>2. NetInv' /\ LinkInv' /\ InhibitorInv'
  BY DEF IInv, NetInv, LinkInv, KillFlagAgrees, InhibitorInv, Busy, Open, Rows, table, net, driver
<1>3. RequestInv'
  BY DEF IInv, RequestInv, Asks, Parsing, Rows, table, net
<1> QED
  BY <1>1, <1>2, <1>3 DEF IInv

(* The loop of Read goes on to the next entry. *)
LEMMA NextEvent ==
  ASSUME IInv, NEW k \in i..polled, at \in {"read", "parse"},
         \A j \in i..polled : revents[j] # "none" => k <= j, revents[k] # "none"
  PROVE  Cardinality({j \in (k+1)..polled : revents[j] # "none"}) = num_available - 1
<1> DEFINE S == {j \in i..polled : revents[j] # "none"}
           R == {j \in (k+1)..polled : revents[j] # "none"}
<1>1. i \in Nat /\ polled \in Nat /\ k \in Nat
  BY DEF IInv, TypeOK
<1>2. IsFiniteSet(i..polled)
  BY <1>1, FS_Interval
<1>3. S \in SUBSET (i..polled)
  OBVIOUS
<1>4. IsFiniteSet(S)
  BY <1>2, <1>3, FS_Subset
<1>5. k \in S /\ R = S \ {k}
  BY <1>1
<1>6. num_available = Cardinality(S)
  BY DEF IInv, ReadInv
<1> HIDE DEF S, R
<1>7. Cardinality(S \ {k}) = Cardinality(S) - 1
  BY <1>4, <1>5, FS_RemoveElement
<1> QED
  BY <1>5, <1>6, <1>7 DEF R

(* While num_available is positive the next event is one of poll's. *)
LEMMA NextIsPolled ==
  ASSUME IInv, ReadLoop
  PROVE  /\ Min(Ready) \in i..polled /\ Min(Ready) \in Rows /\ revents[Min(Ready)] # "none"
         /\ \A j \in i..polled : revents[j] # "none" => Min(Ready) <= j
<1>1. /\ i \in Nat /\ polled \in Nat /\ num_clients \in Nat /\ num_available \in Nat
      /\ i >= 1 /\ polled <= num_clients /\ num_available > 0
      /\ num_available = Cardinality({k \in i..polled : revents[k] # "none"})
  BY RowTypes DEF IInv, TypeOK, ReadInv, ReadLoop, RowsInv
<1>2. {k \in i..polled : revents[k] # "none"} # {}
  BY <1>1, FS_EmptySet
<1>3. Ready \in SUBSET Nat /\ Ready # {}
  BY <1>1 DEF Ready, ReadLoop
<1>4. Min(Ready) \in Ready /\ \A x \in Ready : Min(Ready) <= x
  BY <1>3, MinIsLeast
<1>5. \A k \in i..polled : revents[k] # "none" => k \in Ready
  BY <1>1 DEF Ready
<1>6. Min(Ready) <= polled /\ Min(Ready) >= i /\ Min(Ready) \in Nat /\ Min(Ready) <= num_clients
  BY <1>1, <1>2, <1>3, <1>4, <1>5 DEF Ready
<1> QED
  BY <1>1, <1>4, <1>5, <1>6 DEF Ready, Rows

(* The server thread goes round its loop. *)
LEMMA LoopInductive ==
  ASSUME IInv, \/ WaitTimeout \/ AcceptNobody \/ ReadNothing \/ ReadPoll \/ ParseEnd
               \/ ReadEnd \/ WriteEnd
  PROVE  IInv'
<1>1. /\ TypeOK /\ i \in Nat /\ i >= 1 /\ num_clients \in Nat
      /\ num_available \in Nat /\ polled \in Nat
  BY RowTypes DEF IInv, TypeOK, RowsInv
<1>2. CASE WaitTimeout \/ AcceptNobody \/ ReadNothing \/ WriteEnd
  <2>1. /\ at \in {"wait", "poll", "write"} /\ at' \in {"poll", "write", "delete"}
        /\ i' \in {i, 1} /\ (at' = "delete" => i' = 1) /\ reading' \in BOOLEAN
        /\ UNCHANGED <<table, net, driver, num_deleted, reader>>
    BY <1>1, <1>2 DEF WaitTimeout, AcceptNobody, ReadNothing, WriteEnd, deleter, TypeOK
  <2>2. TypeOK'
    BY <1>1, <2>1 DEF TypeOK, Places, table, net, driver, reader
  <2>3. ReadInv' /\ readbuffer = "none" /\ readbuffer' = "none"
    BY <2>1 DEF IInv, ReadInv, reader
  <2> QED
    BY <1>1, <2>1, <2>2, <2>3, QuietInductive
<1>3. CASE ReadEnd
  <2>1. /\ at = "read" /\ at' = "delete" /\ i' = 1 /\ reading' = TRUE
        /\ revents' = << >> /\ num_available' = 0 /\ polled' = 0
        /\ UNCHANGED <<readbuffer, num_deleted, table, net, driver>>
    BY <1>3 DEF ReadEnd
  <2>2. revents' \in Seq(Revents)
    BY <2>1
  <2>3. TypeOK'
    BY <1>1, <2>1, <2>2 DEF TypeOK, Places, table, net, driver
  <2>4. ReadInv' /\ readbuffer = "none" /\ readbuffer' = "none"
    BY <2>1 DEF IInv, ReadInv
  <2> QED
    BY <2>1, <2>3, <2>4, QuietInductive
<1>4. CASE ParseEnd
  <2>1. /\ at = "parse" /\ at' = "read" /\ i' = i + 1 /\ num_available' = num_available - 1
        /\ readbuffer = "none"
        /\ UNCHANGED <<revents, readbuffer, deleter, polled, table, net, driver>>
    BY <1>4 DEF ParseEnd
  <2>2. i \in i..polled /\ revents[i] # "none" /\ \A j \in i..polled : i <= j
    BY <1>1, <2>1 DEF IInv, ReadInv
  <2>3. Cardinality({j \in (i+1)..polled : revents[j] # "none"}) = num_available - 1
    BY <2>1, <2>2, NextEvent
  <2>4. IsFiniteSet((i+1)..polled)
    BY <1>1, FS_Interval
  <2>5. {j \in (i+1)..polled : revents[j] # "none"} \in SUBSET ((i+1)..polled)
    OBVIOUS
  <2>6. num_available' \in Nat
    BY <2>1, <2>3, <2>4, <2>5, FS_Subset, FS_CardinalityType
  <2>7. TypeOK'
    BY <1>1, <2>1, <2>6 DEF TypeOK, Places, table, net, driver, deleter
  <2>8. ReadInv'
    BY <2>1, <2>3 DEF IInv, ReadInv, table
  <2>9. i' >= 1
    BY <1>1, <2>1
  <2> QED
    BY <2>1, <2>7, <2>8, <2>9, QuietInductive DEF deleter
<1>5. CASE ReadPoll
  <2>1. /\ at = "poll" /\ at' = "read" /\ i' = 1 /\ polled' = num_clients
        /\ revents' \in [1..num_clients -> Revents]
        /\ num_available' = Cardinality({k \in 1..num_clients : revents'[k] # "none"})
        /\ UNCHANGED <<readbuffer, deleter, table, net, driver>>
    BY <1>5 DEF ReadPoll
  <2>2. revents' \in Seq(Revents)
    BY <1>1, <2>1, SeqDef
  <2>3. DOMAIN revents' = 1..num_clients
    BY <2>1
  <2>4. DOMAIN revents' = 1..Len(revents') /\ Len(revents') \in Nat
    BY <2>2, LenProperties
  <2>5. Len(revents') = num_clients
    BY <1>1, <2>3, <2>4
  <2>6. IsFiniteSet(1..num_clients)
    BY <1>1, FS_Interval
  <2>7. {k \in 1..num_clients : revents'[k] # "none"} \in SUBSET (1..num_clients)
    OBVIOUS
  <2>8. num_available' \in Nat
    BY <2>1, <2>6, <2>7, FS_Subset, FS_CardinalityType
  <2>9. TypeOK'
    BY <1>1, <2>1, <2>2, <2>8 DEF TypeOK, Places, table, net, driver, deleter
  <2>10. ReadInv'
    BY <1>1, <2>1, <2>5 DEF IInv, ReadInv, table
  <2>11. readbuffer = "none" /\ readbuffer' = "none"
    BY <2>1 DEF IInv, ReadInv
  <2> QED
    BY <2>1, <2>9, <2>10, <2>11, QuietInductive DEF deleter
<1> QED
  BY <1>2, <1>3, <1>4, <1>5

-----------------------------------------------------------------------------
(***************************************************************************)
(* Steps that change what a row says of its connection.                    *)
(***************************************************************************)

(* One entry of a table is changed. *)
LEMMA RowChanged ==
  ASSUME NEW t \in Seq(Entry), NEW k \in DOMAIN t, NEW new \in Entry
  PROVE  LET u == [t EXCEPT ![k] = new] IN
         /\ u \in Seq(Entry)
         /\ DOMAIN u = DOMAIN t /\ Len(u) = Len(t)
         /\ \A j \in DOMAIN t : u[j] = IF j = k THEN new ELSE t[j]
<1> DEFINE u == [t EXCEPT ![k] = new]
<1>1. DOMAIN t = 1..Len(t) /\ Len(t) \in Nat
  BY LenProperties
<1>2. \A j \in DOMAIN t : t[j] \in Entry
  BY <1>1, ElementOfSeq
<1>3. t = [j \in DOMAIN t |-> t[j]]
  OBVIOUS
<1>4. \A j \in DOMAIN t : u[j] = IF j = k THEN new ELSE t[j]
  BY <1>3
<1>5. DOMAIN u = DOMAIN t /\ u = [j \in DOMAIN t |-> u[j]]
  BY <1>3
<1> HIDE DEF u
<1>6. u \in [1..Len(t) -> Entry]
  BY <1>1, <1>2, <1>4, <1>5
<1>7. u \in Seq(Entry)
  BY <1>1, <1>6, SeqDef
<1>8. DOMAIN u = 1..Len(u) /\ Len(u) \in Nat
  BY <1>7, LenProperties
<1>9. Len(u) = Len(t)
  BY <1>1, <1>5, <1>8
<1> QED
  BY <1>4, <1>5, <1>7, <1>9 DEF u

(* Reading or writing fails: the row is marked. *)
LEMMA FailInductive ==
  ASSUME IInv, ReadFails \/ WriteFails
  PROVE  IInv'
<1> DEFINE k == IF at = "read" THEN Min(Ready) ELSE Min(Pending)
<1>1. /\ TypeOK /\ i \in Nat /\ i >= 1 /\ num_clients \in Nat /\ polled \in Nat
      /\ Rows \subseteq DOMAIN clients
  BY RowTypes DEF IInv, TypeOK, RowsInv
<1>2. /\ at \in {"read", "write"} /\ at' = at /\ i' = k + 1
      /\ clients' = [clients EXCEPT ![k].del = TRUE]
      /\ UNCHANGED <<revents, readbuffer, deleter, polled, num_clients, net, driver>>
  BY DEF ReadFails, WriteFails, ReadLoop, reader
<1>3. k \in Rows /\ ReadInv' /\ num_available' \in Nat
  <2>1. CASE ReadFails
    <3>1. ReadLoop /\ k = Min(Ready) /\ num_available' = num_available - 1 /\ at = "read"
      BY <2>1 DEF ReadFails, ReadLoop
    <3>2. /\ k \in i..polled /\ k \in Rows /\ revents[k] # "none"
          /\ \A j \in i..polled : revents[j] # "none" => k <= j
      BY <3>1, NextIsPolled
    <3> HIDE DEF k
    <3>3. Cardinality({j \in (k+1)..polled : revents[j] # "none"}) = num_available - 1
      BY <3>1, <3>2, NextEvent
    <3>4. num_available \in Nat /\ num_available > 0
      BY <3>1 DEF ReadLoop, IInv, TypeOK
    <3> QED
      BY <1>2, <3>1, <3>2, <3>3, <3>4 DEF IInv, ReadInv
  <2>2. CASE WriteFails
    <3>1. k = Min(Pending) /\ Pending # {} /\ at = "write" /\ UNCHANGED reader
      BY <2>2 DEF WriteFails
    <3>2. Pending \in SUBSET Nat
      BY <1>1 DEF Pending
    <3>3. k \in Pending
      BY <3>1, <3>2, MinIsLeast
    <3> HIDE DEF k
    <3>4. k \in Rows
      BY <1>1, <3>3 DEF Pending, Rows
    <3> QED
      BY <1>2, <3>1, <3>4 DEF IInv, ReadInv, reader, TypeOK
  <2> QED
    BY <2>1, <2>2
<1> HIDE DEF k
<1> DEFINE new == [clients[k] EXCEPT !.del = TRUE]
<1>4. /\ new \in Entry /\ new.conn = clients[k].conn /\ new.subs = clients[k].subs
      /\ new.out = clients[k].out /\ new.kill = clients[k].kill
  BY <1>1, <1>3, RowTypes DEF Entry
<1>5. k \in DOMAIN clients /\ clients' = [clients EXCEPT ![k] = new]
  BY <1>1, <1>2, <1>3
<1> HIDE DEF new
<1>6. /\ clients' \in Seq(Entry)
      /\ DOMAIN clients' = DOMAIN clients /\ Len(clients') = Len(clients)
      /\ \A j \in DOMAIN clients : clients'[j] = IF j = k THEN new ELSE clients[j]
  BY <1>1, <1>4, <1>5, RowChanged DEF TypeOK
<1>7. \A j \in DOMAIN clients :
        /\ clients'[j].conn = clients[j].conn /\ clients'[j].subs = clients[j].subs
        /\ clients'[j].out = clients[j].out /\ clients'[j].kill = clients[j].kill
        /\ j \notin Rows => clients'[j] = clients[j]
  BY <1>3, <1>4, <1>6
<1>8. TypeOK'
  BY <1>1, <1>2, <1>3, <1>6 DEF TypeOK, net, driver, deleter, Rows
<1>9. RowsInv'
  <2>1. at # "delete" /\ at' # "delete" /\ i' >= 1
    BY <1>2, <1>3 DEF Rows
  <2> QED
    BY <1>2, <1>6, <1>7, <1>8, <2>1, RowsKept DEF net, deleter
<1>10. Rows' = Rows
  BY <1>2 DEF Rows
<1>11. NetInv'
  BY <1>2 DEF IInv, NetInv, net, driver
<1>12. RequestInv'
  BY <1>1, <1>2, <1>7, <1>10 DEF IInv, RequestInv, Asks, Parsing, net
<1>13. LinkInv'
  BY <1>1, <1>2, <1>7, <1>10 DEF IInv, LinkInv, KillFlagAgrees, Rows, net, driver
<1>14. InhibitorInv'
  BY <1>1, <1>2, <1>7, <1>10 DEF IInv, InhibitorInv, Busy, Open, net, driver
<1> QED
  BY <1>3, <1>8, <1>9, <1>11, <1>12, <1>13, <1>14 DEF IInv

(* A peer hangs up, or the thread of "threaded" looks at its kill_flag. *)
LEMMA LookInductive ==
  ASSUME IInv, RemoteKilled \/ RemoteNotKilled \/ \E c \in Conns : HangUp(c)
  PROVE  IInv'
<1>1. /\ UNCHANGED <<server, table, made, users, links, inbox, owed, count, kill_flag>>
      /\ i >= 1 /\ TypeOK
  BY DEF RemoteKilled, RemoteNotKilled, HangUp, net, driver, IInv, RowsInv
<1>2. /\ tpc' \in {"out", "in", "deleting"} /\ hup' \subseteq users \cup links
      /\ remote' \in [Drivers -> Conns \cup {NoConn}]
  BY <1>1 DEF RemoteKilled, RemoteNotKilled, HangUp, net, driver, TypeOK
<1>3. TypeOK'
  BY <1>1, <1>2 DEF TypeOK, server, table, reader, deleter
<1>4. RowsInv'
  BY <1>1, <1>3, RowsKept DEF server, table, deleter, IInv
<1>5. ReadInv'
  BY <1>1 DEF IInv, ReadInv, server, reader, table
<1>6. RequestInv'
  BY <1>1 DEF IInv, RequestInv, Asks, Parsing, Rows, server, reader, table
<1>7. InhibitorInv'
  BY <1>1 DEF IInv, InhibitorInv, Busy, Open, Rows, table
<1>8. NetInv' /\ LinkInv'
  <2>1. CASE RemoteNotKilled \/ \E c \in Conns : HangUp(c)
    <3>1. remote' = remote /\ (tpc' = "out" <=> tpc = "out")
      BY <2>1 DEF RemoteNotKilled, HangUp, driver
    <3> QED
      BY <1>1, <3>1 DEF IInv, NetInv, LinkInv, KillFlagAgrees, Rows, table
  <2>2. CASE RemoteKilled
    <3>1. /\ remote' = [remote EXCEPT !["threaded"] = NoConn] /\ tpc' = "out"
          /\ tpc = "in" /\ kill_flag["threaded"]
      BY <2>2 DEF RemoteKilled
    <3>2. /\ remote'["threaded"] = NoConn /\ "threaded" \in Drivers
          /\ \A d \in Drivers : d # "threaded" => remote'[d] = remote[d]
          /\ remote'["inhibitor"] = remote["inhibitor"]
      BY <1>1, <3>1 DEF TypeOK, Drivers
    <3>3. remote["threaded"] # NoConn /\ remote["threaded"] \notin users \cup links
      BY <3>1, <3>2 DEF IInv, LinkInv, KillFlagAgrees, NetInv
    <3>4. \A k \in Rows : Open(k) /\ clients[k].kill = "threaded" => FALSE
      BY <3>3 DEF IInv, LinkInv, KillFlagAgrees, RowsInv, Rows, Open
    <3>5. made \in Nat /\ NoConn \in 0..made /\ NoConn \notin users \cup links
      BY <1>1 DEF TypeOK, NoConn, Conns
    <3>6. NetInv'
      BY <1>1, <3>2, <3>5 DEF IInv, NetInv
    <3>7. \A k \in 1..num_clients :
            clients[k].conn # NoConn /\ clients[k].kill # "none" =>
              remote'[clients[k].kill] = clients[k].conn
      <4>1. \A k \in 1..num_clients : clients[k].kill \in Drivers \cup {"none"}
        BY <1>1, RowTypes DEF Rows
      <4> QED
        BY <3>2, <3>4, <4>1 DEF IInv, LinkInv, KillFlagAgrees, Rows, Open
    <3>8. KillFlagAgrees'
      BY <1>1, <3>2, <3>7 DEF IInv, LinkInv, KillFlagAgrees, table
    <3>9. LinkInv'
      BY <1>1, <3>1, <3>2, <3>5, <3>8 DEF IInv, LinkInv, Rows, table
    <3> QED
      BY <3>6, <3>9
  <2> QED
    BY <2>1, <2>2
<1> QED
  BY <1>3, <1>4, <1>5, <1>6, <1>7, <1>8 DEF IInv

-----------------------------------------------------------------------------
(***************************************************************************)
(* Requests and replies.                                                   *)
(***************************************************************************)

(* The row of a client. *)
LEMMA RowOf ==
  ASSUME IInv, NEW c \in users
  PROVE  /\ c \in Conns /\ c # NoConn
         /\ \E k \in Rows : /\ clients[k].conn = c /\ Subs(c) = clients[k].subs
                            /\ \A l \in Rows : clients[l].conn = c => l = k
<1>1. c \in Conns /\ c # NoConn
  BY DEF IInv, TypeOK, NoConn, Conns
<1>2. PICK k \in Rows : clients[k].conn = c
  BY DEF IInv, RowsInv
<1>3. \A l \in DOMAIN clients : clients[l].conn = c => l \in Rows
  <2>1. \A l \in DOMAIN clients : l \notin Rows => clients[l] = Blank
    BY RowTypes DEF IInv, RowsInv, Rows
  <2>2. Blank.conn = NoConn
    BY DEF Blank
  <2> QED
    BY <1>1, <2>1, <2>2
<1>4. \A l \in Rows : clients[l].conn = c => l = k
  BY <1>1, <1>2 DEF IInv, RowsInv, Open
<1>5. Rows \subseteq DOMAIN clients
  BY RowTypes DEF IInv
<1>6. (CHOOSE l \in DOMAIN clients : clients[l].conn = c) = k
  BY <1>2, <1>3, <1>4, <1>5
<1>7. Subs(c) = clients[k].subs
  BY <1>6 DEF Subs
<1> QED
  BY <1>1, <1>2, <1>4, <1>7

(* A client sends a request. *)
LEMMA SendInductive ==
  ASSUME IInv, ~Sharing, NEW c \in Conns, SendOpen(c) \/ SendClose(c)
  PROVE  IInv'
<1>1. PICK m \in Requests :
        /\ inbox' = [inbox EXCEPT ![c] = m]
        /\ m = "open" => /\ Subs(c) < MaxSubs
                         /\ \A u \in users \ {c} : Subs(u) = 0 /\ owed[u] = 0
        /\ m = "close" => Subs(c) > 0
  <2>1. CASE SendOpen(c)
    <3>1. \A u \in users \ {c} : ~Uses(u)
      BY <2>1 DEF SendOpen
    <3>2. ASSUME NEW u \in users
          PROVE  Subs(u) \in 0..MaxSubs /\ owed[u] \in 0..1 /\ MaxSubs \in Nat
      <4>1. PICK k \in Rows : Subs(u) = clients[k].subs
        BY RowOf
      <4>2. clients[k].subs \in 0..MaxSubs
        BY RowTypes DEF IInv
      <4>3. owed[u] \in 0..1
        BY DEF IInv, TypeOK
      <4> QED
        BY <4>1, <4>2, <4>3, ConstantsAssumption
    <3>3. \A u \in users \ {c} : Subs(u) = 0 /\ owed[u] = 0
      BY <3>1, <3>2 DEF Uses
    <3> QED
      BY <2>1, <3>3 DEF SendOpen, Send, Requests
  <2>2. CASE SendClose(c)
    BY <2>2 DEF SendClose, Send, Requests
  <2> QED
    BY <2>1, <2>2
<1>2. /\ c \in users /\ owed[c] = 0 /\ owed' = [owed EXCEPT ![c] = 1]
      /\ UNCHANGED <<server, table, made, users, links, hup, driver>>
  BY DEF SendOpen, SendClose, Send
<1>3. PICK k \in Rows : /\ clients[k].conn = c /\ Subs(c) = clients[k].subs
                        /\ \A l \in Rows : clients[l].conn = c => l = k
  BY <1>2, RowOf
<1>4. /\ \A d \in Conns : inbox'[d] = IF d = c THEN m ELSE inbox[d]
      /\ \A d \in Conns : owed'[d] = IF d = c THEN 1 ELSE owed[d]
      /\ inbox' \in [Conns -> Requests \cup {"none"}] /\ owed' \in [Conns -> 0..1]
  BY <1>1, <1>2 DEF IInv, TypeOK
<1>5. /\ Rows \subseteq DOMAIN clients /\ clients[k].out \in 0..1
      /\ \A l \in Rows : clients[l].conn \in Conns \cup {NoConn}
      /\ \A l \in Rows : clients[l].conn \in users => clients[l].conn \in Conns
      /\ m # "none"
  BY <1>3, RowTypes DEF IInv, TypeOK, Requests
<1>6. clients[k].out = 0 /\ ~Parsing(k)
  <2>1. owed[c] = clients[k].out + (IF inbox[c] # "none" THEN 1 ELSE 0)
                                 + (IF Parsing(k) THEN 1 ELSE 0)
    BY <1>2, <1>3 DEF IInv, RequestInv
  <2> QED
    BY <1>2, <1>5, <2>1
<1>7. TypeOK'
  BY <1>2, <1>4 DEF IInv, TypeOK, server, reader, deleter, table, driver
<1>8. RowsInv'
  <2>1. i' >= 1
    BY <1>2 DEF IInv, RowsInv, server
  <2> QED
    BY <1>2, <1>7, <2>1, RowsKept DEF server, deleter, table
<1>9. NetInv'
  BY <1>2, <1>4 DEF IInv, NetInv, driver
<1>10. ReadInv' /\ LinkInv'
  BY <1>2 DEF IInv, ReadInv, LinkInv, KillFlagAgrees, Rows, server, reader, table, driver
<1>11. Rows' = Rows /\ clients' = clients /\ \A l \in Rows : Parsing(l)' <=> Parsing(l)
  BY <1>2 DEF Rows, Parsing, server, reader, table
<1>12. RequestInv'
  <2> SUFFICES ASSUME NEW l \in Rows
               PROVE /\ clients[l].conn \in users =>
                          /\ owed'[clients[l].conn] = clients[l].out
                               + (IF inbox'[clients[l].conn] # "none" THEN 1 ELSE 0)
                               + (IF Parsing(l) THEN 1 ELSE 0)
                          /\ Asks(l, "open")' => clients[l].subs < MaxSubs
                          /\ Asks(l, "close")' => clients[l].subs > 0
                          /\ clients[l].kill = "none"
                     /\ clients[l].conn \notin users =>
                          clients[l].subs = 0 /\ clients[l].out = 0 /\ ~Parsing(l)
    BY <1>2, <1>11 DEF RequestInv
  <2>1. CASE l = k
    BY <1>1, <1>2, <1>3, <1>4, <1>5, <1>6, <1>11, <2>1 DEF IInv, RequestInv, Asks
  <2>2. CASE l # k
    <3>1. clients[l].conn # c
      BY <1>3, <2>2
    <3>2. clients[l].conn \in users => /\ inbox'[clients[l].conn] = inbox[clients[l].conn]
                                       /\ owed'[clients[l].conn] = owed[clients[l].conn]
      BY <1>4, <1>5, <3>1
    <3>3. readbuffer' = readbuffer
      BY <1>2 DEF server, reader
    <3> QED
      BY <1>11, <3>2, <3>3 DEF IInv, RequestInv, Asks
  <2> QED
    BY <2>1, <2>2
<1>13. InhibitorInv'
  <2>1. \A l \in Rows : Busy(l)' => Busy(l) \/ l = k
    <3> SUFFICES ASSUME NEW l \in Rows, l # k, Busy(l)' PROVE Busy(l)
      OBVIOUS
    <3>1. clients[l].conn # c
      BY <1>3
    <3> QED
      BY <1>4, <1>5, <1>11, <3>1 DEF Busy, Open
  <2>2. \A l \in Rows : Busy(l) => l = k
    <3> SUFFICES ASSUME NEW l \in Rows, Busy(l), l # k PROVE FALSE
      OBVIOUS
    <3>1. CASE m = "close"
      <4>1. Busy(k)
        BY <1>1, <1>3, <3>1 DEF Busy
      <4> QED
        BY <4>1 DEF IInv, InhibitorInv
    <3>2. CASE m = "open"
      <4>1. clients[l].conn # c
        BY <1>3
      <4>2. clients[l].conn \in users
        BY <1>5 DEF Busy, Open, IInv, RequestInv, NetInv
      <4>3. PICK x \in Rows : /\ clients[x].conn = clients[l].conn
                              /\ Subs(clients[l].conn) = clients[x].subs
                              /\ \A y \in Rows : clients[y].conn = clients[l].conn => y = x
        BY <4>2, RowOf
      <4>4. x = l
        BY <4>3
      <4> QED
        BY <1>1, <3>2, <4>1, <4>2, <4>3, <4>4 DEF Busy
    <3> QED
      BY <3>1, <3>2 DEF Requests
  <2>3. \A l, n \in Rows : Busy(l)' /\ Busy(n)' => l = n
    BY <2>1, <2>2
  <2> QED
    BY <1>2, <1>11, <2>3 DEF IInv, InhibitorInv, driver
<1> QED
  BY <1>7, <1>8, <1>9, <1>10, <1>12, <1>13 DEF IInv

(* ReadClient receives it. *)
LEMMA ReadClientInductive ==
  ASSUME IInv, ReadClient
  PROVE  IInv'
<1> DEFINE k == Min(Ready)
           c == clients[k].conn
<1>1. /\ ReadLoop /\ at = "read" /\ readbuffer' = inbox[c]
      /\ inbox' = [inbox EXCEPT ![c] = "none"]
      /\ at' = "parse" /\ i' = k
      /\ UNCHANGED <<revents, deleter, num_available, polled, table, made,
                     users, links, hup, owed, driver>>
  BY DEF ReadClient, ReadLoop
<1>2. /\ k \in i..polled /\ k \in Rows /\ revents[k] # "none"
      /\ \A j \in i..polled : revents[j] # "none" => k <= j
  BY <1>1, NextIsPolled
<1> HIDE DEF k
<1>3. /\ Rows \subseteq DOMAIN clients /\ num_clients \in Nat /\ i \in Nat /\ i >= 1
      /\ polled \in Nat /\ polled <= num_clients
      /\ \A l \in Rows : Open(l) /\ clients[l].conn \in Conns
  BY <1>1, RowTypes DEF IInv, TypeOK, RowsInv, Open, Rows, ReadInv
<1>4. c \in Conns /\ \A l \in Rows : clients[l].conn = c => l = k
  BY <1>2, <1>3 DEF IInv, RowsInv
<1> HIDE DEF c
<1>5. /\ \A d \in Conns : inbox'[d] = IF d = c THEN "none" ELSE inbox[d]
      /\ inbox' \in [Conns -> Requests \cup {"none"}] /\ inbox[c] \in Requests \cup {"none"}
  BY <1>1, <1>4 DEF IInv, TypeOK
<1>6. i' \in Nat /\ i' >= 1
  BY <1>1, <1>2, <1>3
<1>7. TypeOK'
  BY <1>1, <1>5, <1>6 DEF IInv, TypeOK, Places, deleter, table, driver
<1>8. RowsInv'
  BY <1>1, <1>6, <1>7, RowsKept DEF deleter, table
<1>9. NetInv'
  BY <1>1, <1>5 DEF IInv, NetInv, driver
<1>10. LinkInv' /\ InhibitorInv'
  BY <1>1 DEF IInv, LinkInv, KillFlagAgrees, InhibitorInv, Busy, Open, Rows, table, driver
<1>11. ReadInv'
  <2>1. {j \in k..polled : revents[j] # "none"} = {j \in i..polled : revents[j] # "none"}
    BY <1>2, <1>3
  <2>2. k <= polled
    BY <1>2, <1>3
  <2> QED
    BY <1>1, <1>2, <2>1, <2>2 DEF IInv, ReadInv, table
<1>12. RequestInv'
  <2>1. Rows' = Rows /\ clients' = clients /\ users' = users /\ owed' = owed
    BY <1>1 DEF Rows, table
  <2>2. \A l \in Rows : ~Parsing(l) /\ (Parsing(l)' <=> l = k /\ inbox[c] # "none")
    BY <1>1 DEF Parsing
  <2>3. c \notin users => inbox[c] = "none"
    BY <1>4 DEF IInv, NetInv
  <2>4. c = clients[k].conn
    BY DEF c
  <2> SUFFICES ASSUME NEW l \in Rows
               PROVE /\ clients[l].conn \in users =>
                          /\ owed[clients[l].conn] = clients[l].out
                               + (IF inbox'[clients[l].conn] # "none" THEN 1 ELSE 0)
                               + (IF Parsing(l)' THEN 1 ELSE 0)
                          /\ Asks(l, "open")' => clients[l].subs < MaxSubs
                          /\ Asks(l, "close")' => clients[l].subs > 0
                          /\ clients[l].kill = "none"
                     /\ clients[l].conn \notin users =>
                          clients[l].subs = 0 /\ clients[l].out = 0 /\ ~Parsing(l)'
    BY <2>1 DEF RequestInv
  <2>5. CASE l = k
    <3>1. inbox'[c] = "none" /\ clients[l].conn = c /\ clients[l].out \in 0..1
      BY <1>2, <1>3, <1>4, <1>5, <2>4, <2>5, RowTypes DEF IInv
    <3>2. \A m : m # "none" => (Asks(l, m)' <=> inbox[c] = m)
      BY <1>1, <2>1, <2>2, <2>5, <3>1 DEF Asks
    <3>3. \A m : inbox[c] = m => Asks(l, m)
      BY <3>1 DEF Asks
    <3> QED
      BY <2>2, <2>3, <2>5, <3>1, <3>2, <3>3 DEF IInv, RequestInv
  <2>6. CASE l # k
    <3>1. inbox'[clients[l].conn] = inbox[clients[l].conn]
      BY <1>3, <1>4, <1>5, <2>6
    <3>2. \A m : Asks(l, m)' => Asks(l, m)
      BY <2>1, <2>2, <2>6, <3>1 DEF Asks
    <3> QED
      BY <2>2, <2>6, <3>1, <3>2 DEF IInv, RequestInv
  <2> QED
    BY <2>5, <2>6
<1> QED
  BY <1>7, <1>8, <1>9, <1>10, <1>11, <1>12 DEF IInv

(* WriteClient sends replies, all or some of those pending. *)
LEMMA WriteInductive ==
  ASSUME IInv, WriteClient
  PROVE  IInv'
<1> DEFINE k == Min(Pending)
           c == clients[k].conn
<1>1. PICK n \in 0..clients[k].out :
        /\ clients' = [clients EXCEPT ![k].out = @ - n]
        /\ owed' = [owed EXCEPT ![c] = @ - n]
  BY DEF WriteClient
<1>2. /\ at = "write" /\ Pending # {} /\ i' = k + 1
      /\ UNCHANGED <<at, reader, deleter, num_clients, made, users, links, hup,
                     inbox, driver>>
  BY DEF WriteClient
<1>3. /\ Rows \subseteq DOMAIN clients /\ num_clients \in Nat /\ i \in Nat /\ i >= 1
      /\ \A l \in Rows : Open(l) /\ clients[l].conn \in Conns /\ clients[l].out \in 0..1
      /\ TypeOK
  BY <1>2, RowTypes DEF IInv, TypeOK, RowsInv, Open, Rows
<1>4. k \in Rows
  <2>1. Pending \in SUBSET Nat
    BY <1>3 DEF Pending
  <2>2. k \in Pending
    BY <1>2, <2>1, MinIsLeast
  <2> HIDE DEF k
  <2> QED
    BY <1>3, <2>2 DEF Pending, Rows
<1> HIDE DEF k
<1>5. c \in Conns /\ \A l \in Rows : clients[l].conn = c => l = k
  BY <1>3, <1>4 DEF IInv, RowsInv
<1>6. c = clients[k].conn
  OBVIOUS
<1> HIDE DEF c
<1> DEFINE new == [clients[k] EXCEPT !.out = @ - n]
<1>7. /\ clients[k] \in Entry /\ clients[k].out \in 0..1
      /\ n \in Nat /\ n <= clients[k].out /\ clients[k].out - n \in 0..1
  BY <1>3, <1>4, RowTypes DEF IInv
<1>8. /\ new \in Entry /\ new.conn = clients[k].conn /\ new.subs = clients[k].subs
      /\ new.out = clients[k].out - n /\ new.kill = clients[k].kill
  BY <1>7 DEF Entry
<1>9. k \in DOMAIN clients /\ clients' = [clients EXCEPT ![k] = new]
  BY <1>1, <1>3, <1>4
<1> HIDE DEF new
<1>10. /\ clients' \in Seq(Entry)
       /\ DOMAIN clients' = DOMAIN clients /\ Len(clients') = Len(clients)
       /\ \A j \in DOMAIN clients : clients'[j] = IF j = k THEN new ELSE clients[j]
  BY <1>3, <1>8, <1>9, RowChanged DEF TypeOK
<1>11. \A j \in DOMAIN clients :
        /\ clients'[j].conn = clients[j].conn /\ clients'[j].subs = clients[j].subs
        /\ clients'[j].kill = clients[j].kill
        /\ clients'[j].out = IF j = k THEN clients[j].out - n ELSE clients[j].out
        /\ j \notin Rows => clients'[j] = clients[j]
  BY <1>4, <1>8, <1>10
<1>12. owed[c] - n \in 0..1 /\ owed[c] \in Nat /\ (n > 0 => c \in users)
  <2>1. owed[c] \in 0..1
    BY <1>5 DEF IInv, TypeOK
  <2>2. CASE c \in users
    <3>1. owed[c] = clients[k].out + (IF inbox[c] # "none" THEN 1 ELSE 0)
                                   + (IF Parsing(k) THEN 1 ELSE 0)
      BY <1>4, <1>6, <2>2 DEF IInv, RequestInv
    <3>2. owed[c] >= clients[k].out
      BY <1>7, <3>1
    <3> QED
      BY <1>7, <2>1, <2>2, <3>2
  <2>3. CASE c \notin users
    <3>1. clients[k].out = 0
      BY <1>4, <1>6, <2>3 DEF IInv, RequestInv
    <3> QED
      BY <1>7, <2>1, <3>1
  <2> QED
    BY <2>2, <2>3
<1>13. /\ \A d \in Conns : owed'[d] = IF d = c THEN owed[c] - n ELSE owed[d]
       /\ owed' \in [Conns -> 0..1]
  BY <1>1, <1>3, <1>5, <1>12 DEF TypeOK
<1>14. i' \in Nat /\ i' >= 1 /\ Rows' = Rows
  BY <1>2, <1>3, <1>4 DEF Rows
<1>15. TypeOK'
  BY <1>2, <1>3, <1>10, <1>13, <1>14 DEF TypeOK, reader, deleter, driver
<1>16. RowsInv'
  BY <1>2, <1>10, <1>11, <1>14, <1>15, RowsKept DEF deleter
<1>17. NetInv'
  BY <1>2, <1>12, <1>13 DEF IInv, NetInv, driver
<1>18. ReadInv'
  BY <1>2 DEF IInv, ReadInv, reader
<1>19. LinkInv'
  BY <1>2, <1>3, <1>11, <1>14 DEF IInv, LinkInv, KillFlagAgrees, Rows, driver
<1>20. RequestInv'
  <2>1. \A l \in Rows : ~Parsing(l) /\ ~Parsing(l)'
    BY <1>2 DEF Parsing
  <2>2. \A l \in Rows : \A m : Asks(l, m)' <=> Asks(l, m)
    BY <1>2, <1>3, <1>11, <2>1 DEF Asks
  <2>3. ASSUME NEW l \in Rows, clients[l].conn \in users
        PROVE  owed'[clients[l].conn] = clients'[l].out
                 + (IF inbox[clients[l].conn] # "none" THEN 1 ELSE 0)
                 + (IF Parsing(l)' THEN 1 ELSE 0)
    <3>1. owed[clients[l].conn] = clients[l].out
            + (IF inbox[clients[l].conn] # "none" THEN 1 ELSE 0) + 0
      BY <2>1, <2>3 DEF IInv, RequestInv
    <3>2. CASE l = k
      BY <1>3, <1>4, <1>5, <1>6, <1>7, <1>11, <1>12, <1>13, <2>1, <3>1, <3>2
    <3>3. CASE l # k
      BY <1>3, <1>5, <1>11, <1>13, <2>1, <3>1, <3>3
    <3> QED
      BY <3>2, <3>3
  <2>4. ASSUME NEW l \in Rows, clients[l].conn \notin users
        PROVE  clients'[l].subs = 0 /\ clients'[l].out = 0
    <3>1. clients[l].subs = 0 /\ clients[l].out = 0
      BY <2>4 DEF IInv, RequestInv
    <3> QED
      BY <1>3, <1>7, <1>11, <3>1
  <2> QED
    BY <1>2, <1>3, <1>11, <1>14, <2>1, <2>2, <2>3, <2>4 DEF IInv, RequestInv
<1>21. InhibitorInv'
  <2>1. \A l \in Rows : Busy(l)' => Busy(l)
    <3> SUFFICES ASSUME NEW l \in Rows PROVE Busy(l)' => Busy(l)
      OBVIOUS
    <3>1. /\ clients'[l].conn = clients[l].conn /\ clients'[l].subs = clients[l].subs
          /\ clients[l].conn \in Conns /\ clients[l].conn # NoConn
      BY <1>3, <1>11 DEF Open
    <3>2. owed[clients[l].conn] \in Nat /\ owed'[clients[l].conn] <= owed[clients[l].conn]
      <4>1. CASE clients[l].conn = c
        BY <1>5, <1>7, <1>12, <1>13, <4>1
      <4>2. CASE clients[l].conn # c
        <5>1. owed[clients[l].conn] \in 0..1
          BY <1>3, <3>1 DEF TypeOK
        <5>2. owed'[clients[l].conn] = owed[clients[l].conn]
          BY <1>13, <3>1, <4>2
        <5> QED
          BY <5>1, <5>2
      <4> QED
        BY <4>1, <4>2
    <3> QED
      BY <1>13, <3>1, <3>2 DEF Busy, Open
  <2> QED
    BY <1>2, <1>3, <1>11, <1>14, <2>1 DEF IInv, InhibitorInv, driver
<1> QED
  BY <1>15, <1>16, <1>17, <1>18, <1>19, <1>20, <1>21 DEF IInv

(* Two rows do not have the same connection, unless both are closed. *)
LEMMA OneRowEach ==
  ASSUME IInv, NEW q, q # NoConn
  PROVE  \A k, l \in Rows : clients[k].conn = q /\ clients[l].conn = q => k = l
BY DEF IInv, RowsInv, Open

(* The thread of "threaded" gives up its connection. *)
LEMMA RemoteDeleteInductive ==
  ASSUME IInv, RemoteDelete
  PROVE  IInv'
<1> DEFINE q == remote["threaded"]
<1>1. /\ at \in {"wait", "poll"} /\ clients' = Marked(q)
      /\ remote' = [remote EXCEPT !["threaded"] = NoConn] /\ tpc' = "out"
      /\ tpc = "deleting"
      /\ UNCHANGED <<server, num_clients, net, count, kill_flag>>
  BY DEF RemoteDelete, LockFree
<1>2. TypeOK /\ Rows \subseteq DOMAIN clients /\ Rows' = Rows /\ num_clients \in Nat
  BY <1>1, RowTypes DEF IInv, Rows
<1>3. q # NoConn
  BY <1>1 DEF IInv, LinkInv
<1> HIDE DEF q
<1>4. /\ clients' \in Seq(Entry)
      /\ DOMAIN clients' = DOMAIN clients /\ Len(clients') = Len(clients)
      /\ \A k \in DOMAIN clients :
              /\ clients'[k].conn = clients[k].conn
              /\ clients'[k].subs = clients[k].subs
              /\ clients'[k].out = clients[k].out
              /\ k \in Rows /\ clients[k].conn = q =>
                   clients'[k].del = TRUE /\ clients'[k].kill = "none"
              /\ ~(k \in Rows /\ clients[k].conn = q) => clients'[k] = clients[k]
  <2>1. \A k, l \in Rows : clients[k].conn = q /\ clients[l].conn = q => k = l
    BY <1>3, OneRowEach
  <2> QED
    BY ZenonT(60), <1>1, <1>2, <2>1, MarkedEffect
<1>5. /\ remote'["threaded"] = NoConn /\ remote'["inhibitor"] = remote["inhibitor"]
      /\ \A d \in Drivers : d # "threaded" => remote'[d] = remote[d]
      /\ remote' \in [Drivers -> Conns \cup {NoConn}]
      /\ q = remote["threaded"]
  BY <1>1, <1>2 DEF TypeOK, Drivers, q
<1>6. TypeOK'
  BY <1>1, <1>2, <1>4, <1>5 DEF TypeOK, server, reader, deleter, net
<1>7. RowsInv'
  <2>1. i' >= 1
    BY <1>1 DEF IInv, RowsInv, server
  <2> QED
    BY <1>1, <1>4, <1>6, <2>1, RowsKept DEF server, deleter, net
<1>8. NetInv'
  <2>1. made \in Nat /\ NoConn \in 0..made /\ NoConn \notin users
    BY <1>2 DEF TypeOK, NoConn, Conns
  <2> QED
    BY <1>1, <1>5, <2>1 DEF IInv, NetInv, net
<1>9. ReadInv'
  BY <1>1 DEF IInv, ReadInv, server, reader
<1>10. InhibitorInv'
  <2>1. \A k \in Rows : clients'[k].kill = "inhibitor" => clients[k].kill = "inhibitor"
    BY <1>2, <1>4
  <2> QED
    BY <1>1, <1>2, <1>4, <2>1 DEF IInv, InhibitorInv, Busy, Open, net
<1>11. RequestInv'
  <2>1. \A l \in Rows : \A m : (Asks(l, m)' <=> Asks(l, m)) /\ (Parsing(l)' <=> Parsing(l))
    BY <1>1, <1>2, <1>4 DEF Asks, Parsing, server, reader, net
  <2>2. \A l \in Rows : clients[l].kill = "none" => clients'[l].kill = "none"
    BY <1>2, <1>4
  <2> QED
    BY <1>1, <1>2, <1>4, <2>1, <2>2 DEF IInv, RequestInv, net
<1>12. LinkInv'
  <2>0. \A k \in Rows : clients[k].kill \in Drivers \cup {"none"}
    BY <1>2, RowTypes
  <2>1. \A k \in Rows : /\ clients'[k].conn = clients[k].conn
                        /\ clients[k].conn = q => clients'[k].kill = "none"
                        /\ clients[k].conn # q => clients'[k].kill = clients[k].kill
    BY <1>2, <1>4
  <2>2. ASSUME NEW k \in Rows, clients'[k].conn # NoConn, clients'[k].kill # "none"
        PROVE  remote'[clients'[k].kill] = clients'[k].conn
    <3>1. clients[k].conn # q /\ clients'[k].kill = clients[k].kill
      BY <2>1, <2>2
    <3>2. remote[clients[k].kill] = clients[k].conn
      BY <2>1, <2>2, <3>1 DEF IInv, LinkInv, KillFlagAgrees, Rows
    <3> QED
      BY <1>5, <2>0, <2>1, <2>2, <3>1, <3>2
  <2>3. \A d \in Drivers : remote'[d] # NoConn => (kill_flag'[d] <=> remote'[d] \notin links')
    BY <1>1, <1>5 DEF IInv, LinkInv, KillFlagAgrees, net
  <2>4. KillFlagAgrees'
    BY <1>2, <2>2, <2>3 DEF KillFlagAgrees, Rows
  <2>5. ASSUME NEW d \in Drivers, remote'[d] \in links'
        PROVE  \E k \in Rows : clients'[k].conn = remote'[d] /\ clients'[k].kill = d
    <3>1. d = "inhibitor" /\ remote'[d] = remote[d] /\ remote[d] \in links
      BY <1>1, <1>2, <1>5, <2>5 DEF TypeOK, NoConn, Conns, Drivers, net
    <3>2. PICK k \in Rows : clients[k].conn = remote[d] /\ clients[k].kill = d
      BY <3>1 DEF IInv, LinkInv
    <3>3. clients[k].conn # q
      <4> SUFFICES ASSUME clients[k].conn = q PROVE FALSE
        OBVIOUS
      <4>1. q \in links
        BY <3>1, <3>2
      <4>2. PICK l \in Rows : clients[l].conn = q /\ clients[l].kill = "threaded"
        BY <1>5, <4>1 DEF IInv, LinkInv, Drivers
      <4>3. l = k
        BY <1>3, <4>2, OneRowEach
      <4> QED
        BY <3>1, <3>2, <4>2, <4>3
    <3> QED
      BY <2>1, <3>1, <3>2, <3>3
  <2> QED
    BY <1>1, <1>2, <1>5, <2>4, <2>5 DEF IInv, LinkInv
<1> QED
  BY <1>6, <1>7, <1>8, <1>9, <1>10, <1>11, <1>12 DEF IInv

-----------------------------------------------------------------------------
(***************************************************************************)
(* HandlePlayerMessage.                                                    *)
(***************************************************************************)

(* The client whose request is parsed has no other request and no reply on *)
(* its way, and is the only one that uses the inhibitor.                   *)
LEMMA ParseFacts ==
  ASSUME IInv, NEW m, m # "none", Parse(m)
  PROVE  /\ i \in Rows /\ clients[i].conn \in users /\ Parsing(i) /\ readbuffer = m
         /\ clients[i].out = 0 /\ inbox[clients[i].conn] = "none"
         /\ owed[clients[i].conn] = 1 /\ clients[i].kill = "none"
         /\ \A k \in Rows : Open(k) /\ clients[k].conn \in Conns
         /\ \A k \in Rows : clients[k].subs > 0 => k = i
         /\ \A k \in Rows : Busy(k) => k = i
         /\ m = "open" => clients[i].subs < MaxSubs
         /\ m = "close" => clients[i].subs > 0
<1>1. at = "parse" /\ readbuffer = m
  BY DEF Parse
<1>2. /\ i \in Nat /\ i >= 1 /\ i <= num_clients /\ num_clients \in Nat
      /\ Rows \subseteq DOMAIN clients
  BY <1>1, RowTypes DEF IInv, TypeOK, RowsInv, ReadInv
<1>3. i \in Rows /\ Parsing(i)
  BY <1>1, <1>2 DEF Rows, Parsing
<1>4. \A k \in Rows : Open(k) /\ clients[k].conn \in Conns
  BY <1>1, <1>2, RowTypes DEF IInv, RowsInv, Open
<1>5. clients[i].conn \in users /\ clients[i].kill = "none"
  BY <1>3 DEF IInv, RequestInv
<1>6. owed[clients[i].conn] \in 0..1 /\ clients[i].out \in 0..1
  BY <1>2, <1>3, <1>4, RowTypes DEF IInv, TypeOK
<1>7. owed[clients[i].conn] = clients[i].out
        + (IF inbox[clients[i].conn] # "none" THEN 1 ELSE 0)
        + (IF Parsing(i) THEN 1 ELSE 0)
  BY <1>3, <1>5 DEF IInv, RequestInv
<1>8. clients[i].out = 0 /\ inbox[clients[i].conn] = "none" /\ owed[clients[i].conn] = 1
  BY <1>3, <1>6, <1>7
<1>9. Busy(i)
  BY <1>3, <1>4, <1>8 DEF Busy
<1>10. \A k \in Rows : Busy(k) => k = i
  BY <1>3, <1>9 DEF IInv, InhibitorInv
<1>11. \A k \in Rows : clients[k].subs > 0 => k = i
  BY <1>10 DEF Busy
<1>12. /\ m = "open" => clients[i].subs < MaxSubs
       /\ m = "close" => clients[i].subs > 0
  BY <1>1, <1>3, <1>5 DEF IInv, RequestInv, Asks
<1> QED
  BY <1>1, <1>3, <1>4, <1>5, <1>8, <1>10, <1>11, <1>12

(* A request has been handled in row i: it is off the readbuffer, its      *)
(* reply is on the queue.                                                  *)
LEMMA HandledRequest ==
  ASSUME IInv, NEW m, m # "none", Parse(m), num_clients' = num_clients,
         Rows \subseteq DOMAIN clients',
         \A k \in Rows : k # i => /\ clients'[k].subs = clients[k].subs
                                  /\ clients'[k].out = clients[k].out
                                  /\ clients[k].kill = "none" => clients'[k].kill = "none",
         \A k \in Rows : clients'[k].conn = clients[k].conn,
         clients'[i].out = clients[i].out + 1, clients'[i].kill = "none"
  PROVE  RequestInv'
<1>1. /\ readbuffer' = "none" /\ at = "parse" /\ at' = at /\ i' = i
      /\ UNCHANGED <<users, inbox, owed>>
  BY DEF Parse
<1>2. /\ i \in Rows /\ clients[i].conn \in users /\ Parsing(i)
      /\ clients[i].out = 0 /\ inbox[clients[i].conn] = "none"
      /\ owed[clients[i].conn] = 1
  BY ParseFacts
<1>3. Rows' = Rows /\ \A k \in Rows : ~Parsing(k)' /\ (k # i => ~Parsing(k))
  BY <1>1 DEF Rows, Parsing
<1>4. \A k \in Rows : \A r : Asks(k, r)' <=> inbox[clients[k].conn] = r
  BY <1>1, <1>3 DEF Asks
<1>5. ASSUME NEW k \in Rows
      PROVE  /\ clients'[k].conn \in users =>
                  /\ owed[clients[k].conn] = clients'[k].out
                       + (IF inbox[clients[k].conn] # "none" THEN 1 ELSE 0)
                       + (IF Parsing(k)' THEN 1 ELSE 0)
                  /\ Asks(k, "open")' => clients'[k].subs < MaxSubs
                  /\ Asks(k, "close")' => clients'[k].subs > 0
                  /\ clients'[k].kill = "none"
             /\ clients'[k].conn \notin users =>
                  clients'[k].subs = 0 /\ clients'[k].out = 0 /\ ~Parsing(k)'
  <2>1. CASE k = i
    BY <1>2, <1>3, <1>4, <2>1
  <2>2. CASE k # i
    <3>1. \A r : Asks(k, r)' => Asks(k, r)
      BY <1>4 DEF Asks
    <3>2. ~Parsing(k) /\ ~Parsing(k)'
      BY <1>3, <2>2
    <3> QED
      BY <2>2, <3>1, <3>2 DEF IInv, RequestInv
  <2> QED
    BY <2>1, <2>2
<1> QED
  BY <1>1, <1>3, <1>5 DEF RequestInv

(* What the handling of a request does to the entry of its client. *)
LEMMA EntryChanged ==
  ASSUME NEW e \in Entry, NEW n, NEW o
  PROVE  [e EXCEPT !.subs = n, !.out = o]
           = [conn |-> e.conn, del |-> e.del, kill |-> e.kill, subs |-> n, out |-> o]
<1> DEFINE f == [conn |-> e.conn, del |-> e.del, kill |-> e.kill, subs |-> n, out |-> e.out]
<1>1. [e EXCEPT !.subs = n] = f
  BY DEF Entry
<1>2. [f EXCEPT !.out = o]
        = [conn |-> e.conn, del |-> e.del, kill |-> e.kill, subs |-> n, out |-> o]
  OBVIOUS
<1> HIDE DEF f
<1> QED
  BY <1>1, <1>2

(* The inhibitor is in use already, or its Setup fails. *)
LEMMA OpenInductive ==
  ASSUME IInv, OpenMore \/ OpenFails
  PROVE  IInv'
<1> DEFINE x == IF OpenMore THEN 1 ELSE 0
           e == clients[i]
           new == [conn |-> e.conn, del |-> e.del, kill |-> e.kill, subs |-> e.subs + x, out |-> 1]
<1>1. Parse("open") /\ (x = 1 => count > 0) /\ (x = 0 => count = 0) /\ x \in {0, 1}
  BY DEF OpenMore, OpenFails
<1>2. /\ i \in Rows /\ clients[i].conn \in users /\ Parsing(i)
      /\ clients[i].out = 0 /\ clients[i].kill = "none"
      /\ clients[i].subs < MaxSubs /\ owed[clients[i].conn] = 1
      /\ \A k \in Rows : Open(k) /\ clients[k].conn \in Conns
      /\ \A k \in Rows : clients[k].subs > 0 => k = i
      /\ \A k \in Rows : Busy(k) => k = i
  BY <1>1, ParseFacts
<1>3. /\ TypeOK /\ Rows \subseteq DOMAIN clients /\ clients \in Seq(Entry)
      /\ i \in DOMAIN clients /\ clients[i] \in Entry /\ clients[i].subs \in 0..MaxSubs
      /\ MaxSubs \in Nat /\ count \in Nat
  BY <1>2, RowTypes, ConstantsAssumption DEF IInv, TypeOK
<1>4. /\ at = "parse" /\ readbuffer = "open" /\ readbuffer' = "none"
      /\ UNCHANGED <<at, i, deleter, num_available, polled, users, hup, inbox,
                     owed, tpc, revents, num_clients, made, links, remote, kill_flag>>
  BY <1>1 DEF Parse, OpenMore, OpenFails
<1>5. clients' = [clients EXCEPT ![i] = new] /\ count' = count + x
  <2>1. CASE OpenMore
    <3>1. /\ x = 1 /\ clients' = [clients EXCEPT ![i].subs = @ + 1, ![i].out = @ + 1]
          /\ count' = count + 1
      BY <2>1 DEF OpenMore
    <3> HIDE DEF x
    <3>2. [e EXCEPT !.subs = @ + 1, !.out = @ + 1] = new
      <4>1. e \in Entry /\ e.out + 1 = 1 /\ e.subs + x = e.subs + 1
        BY <1>2, <1>3, <3>1
      <4> HIDE DEF e
      <4>2. \A n : [e EXCEPT !.subs = n, !.out = 1]
              = [conn |-> e.conn, del |-> e.del, kill |-> e.kill, subs |-> n, out |-> 1]
        BY <4>1, EntryChanged
      <4>3. [e EXCEPT !.subs = e.subs + 1, !.out = 1] = new
        BY <4>1, <4>2
      <4> QED
        BY <4>1, <4>3
    <3> HIDE DEF new
    <3>3. clients' = [clients EXCEPT ![i] = [e EXCEPT !.subs = @ + 1, !.out = @ + 1]]
      BY <1>3, <3>1
    <3> QED
      BY <3>1, <3>2, <3>3
  <2>2. CASE OpenFails /\ ~OpenMore
    <3>1. Marked(NoConn) = clients
      BY <1>2 DEF Marked, Rows, Open
    <3>2. x = 0 /\ clients' = [clients EXCEPT ![i].out = @ + 1] /\ count' = count
      BY <2>2, <3>1 DEF OpenFails
    <3> HIDE DEF x
    <3>3. [e EXCEPT !.out = @ + 1] = new
      BY <1>2, <1>3, <3>2 DEF Entry
    <3> HIDE DEF new
    <3>4. clients' = [clients EXCEPT ![i] = [e EXCEPT !.out = @ + 1]] /\ count + x = count
      BY <1>3, <3>2
    <3> QED
      BY <3>2, <3>3, <3>4
  <2> QED
    BY <2>1, <2>2
<1> HIDE DEF x
<1>6. /\ new \in Entry /\ new.conn = clients[i].conn /\ new.kill = clients[i].kill
      /\ new.subs = clients[i].subs + x /\ new.out = clients[i].out + 1
      /\ new.del = clients[i].del
  <2>1. clients[i].subs + x \in 0..MaxSubs
    BY <1>1, <1>2, <1>3
  <2> QED
    BY <1>2, <1>3, <2>1 DEF Entry
<1> HIDE DEF new
<1>7. /\ clients' \in Seq(Entry)
      /\ DOMAIN clients' = DOMAIN clients /\ Len(clients') = Len(clients)
      /\ \A j \in DOMAIN clients : clients'[j] = IF j = i THEN new ELSE clients[j]
  BY <1>3, <1>5, <1>6, RowChanged
<1>8. \A k \in DOMAIN clients :
        /\ clients'[k].conn = clients[k].conn /\ clients'[k].kill = clients[k].kill
        /\ clients'[k].subs = IF k = i THEN clients[i].subs + x ELSE clients[k].subs
        /\ clients'[k].out = IF k = i THEN 1 ELSE clients[k].out
        /\ k \notin Rows => clients'[k] = clients[k]
  BY <1>2, <1>6, <1>7
<1>9. TypeOK'
  <2>1. count' \in Nat
    BY <1>1, <1>3, <1>5
  <2> QED
    BY <1>3, <1>4, <1>7, <2>1 DEF TypeOK, deleter
<1>10. RowsInv'
  <2>1. i' >= 1
    BY <1>4 DEF IInv, RowsInv
  <2> QED
    BY <1>4, <1>7, <1>8, <1>9, <2>1, RowsKept DEF deleter
<1>11. NetInv'
  BY <1>4 DEF IInv, NetInv
<1>12. ReadInv'
  BY <1>4 DEF IInv, ReadInv
<1>13. RequestInv'
  <2>1. "open" # "none"
    OBVIOUS
  <2> QED
    BY <1>1, <1>2, <1>3, <1>4, <1>7, <1>8, <2>1, HandledRequest
<1>14. Rows' = Rows /\ \A k \in Rows : clients'[k].conn = clients[k].conn
  BY <1>3, <1>4, <1>8 DEF Rows
<1>15. LinkInv'
  <2>1. count' = 0 <=> count = 0
    BY <1>1, <1>3, <1>5
  <2>2. KillFlagAgrees'
    BY <1>3, <1>4, <1>8 DEF IInv, LinkInv, KillFlagAgrees, Rows
  <2> QED
    BY <1>3, <1>4, <1>8, <1>14, <2>1, <2>2 DEF IInv, LinkInv
<1>16. InhibitorInv'
  <2>1. \A k \in Rows : Busy(k)' => k = i
    BY <1>2, <1>3, <1>4, <1>8 DEF Busy, Open
  <2>2. clients'[i].subs = clients[i].subs + x /\ count' = clients'[i].subs
    <3>1. CASE x = 1
      <4>1. PICK k \in Rows : clients[k].subs > 0
        BY <1>1, <3>1 DEF IInv, InhibitorInv
      <4>2. count = clients[i].subs
        BY <1>2, <4>1 DEF IInv, InhibitorInv
      <4> QED
        BY <1>3, <1>5, <1>8, <4>2
    <3>2. CASE x = 0
      <4>1. clients[i].subs = 0
        BY <1>1, <1>2, <1>3, <3>2 DEF IInv, InhibitorInv
      <4> QED
        BY <1>1, <1>3, <1>5, <1>8, <3>2, <4>1
    <3> QED
      BY <1>1, <3>1, <3>2
  <2>3. \A k \in Rows : clients'[k].subs > 0 => k = i
    BY <1>2, <1>3, <1>8
  <2>4. \A l \in Rows : clients'[i].subs > 0 /\ clients'[l].kill = "inhibitor" => i < l
    <3> SUFFICES ASSUME NEW l \in Rows, clients'[i].subs > 0, clients'[l].kill = "inhibitor"
                 PROVE  i < l
      OBVIOUS
    <3>1. clients[i].subs > 0
      <4>1. x = 1 \/ x = 0
        BY <1>1
      <4>2. x = 1 => \E k \in Rows : clients[k].subs > 0
        BY <1>1 DEF IInv, InhibitorInv
      <4> QED
        BY <1>2, <1>3, <2>2, <4>1, <4>2
    <3> QED
      BY <1>2, <1>3, <1>8, <3>1 DEF IInv, InhibitorInv
  <2> QED
    BY <1>2, <1>14, <2>1, <2>2, <2>3, <2>4 DEF InhibitorInv
<1> QED
  BY <1>9, <1>10, <1>11, <1>12, <1>13, <1>15, <1>16 DEF IInv

(* The table when a client gives up n subscriptions: with the last one the *)
(* row of the inhibitor's connection is marked, and points to nothing any  *)
(* more.                                                                   *)
LEMMA UnsubscribedEffect ==
  ASSUME IInv, NEW n \in Nat
  PROVE  LET cs == Unsubscribed(n) IN
         /\ cs \in Seq(Entry) /\ DOMAIN cs = DOMAIN clients /\ Len(cs) = Len(clients)
         /\ \A k \in DOMAIN clients :
              /\ cs[k].conn = clients[k].conn /\ cs[k].subs = clients[k].subs
              /\ cs[k].out = clients[k].out
              /\ k \notin Rows => cs[k] = clients[k]
         /\ ~LastOf(n) => cs = clients
         /\ \A k \in Rows : cs[k] # clients[k] =>
              /\ clients[k].kill = "inhibitor" /\ clients[k].conn = remote["inhibitor"]
              /\ clients[k].conn \in links /\ cs[k].kill = "none"
         /\ LastOf(n) => \A k \in Rows : Open(k) => cs[k].kill # "inhibitor"
<1> DEFINE q == remote["inhibitor"]
           cs == Unsubscribed(n)
<1>1. /\ TypeOK /\ Rows \subseteq DOMAIN clients /\ clients \in Seq(Entry)
      /\ "inhibitor" \in Drivers
  BY RowTypes DEF IInv, TypeOK, Drivers
<1>2. CASE ~LastOf(n)
  <2>1. cs = clients
    BY <1>2 DEF Unsubscribed
  <2> QED
    BY <1>1, <1>2, <2>1
<1>3. CASE LastOf(n)
  <2>1. q # NoConn
    BY <1>3 DEF LastOf, IInv, LinkInv
  <2>2. \A k \in Rows : Open(k) /\ clients[k].kill = "inhibitor" => clients[k].conn = q
    BY DEF IInv, LinkInv, KillFlagAgrees, Rows, Open
  <2>3. CASE kill_flag["inhibitor"]
    <3>1. cs = clients
      BY <2>3 DEF Unsubscribed
    <3>2. q \notin links /\ q \notin users
      BY <1>1, <2>1, <2>3 DEF IInv, LinkInv, KillFlagAgrees, NetInv
    <3>3. \A k \in Rows : Open(k) => clients[k].conn # q
      BY <3>2 DEF IInv, RowsInv
    <3> QED
      BY <1>1, <1>3, <2>2, <3>1, <3>3
  <2>4. CASE ~kill_flag["inhibitor"]
    <3>1. cs = Marked(q)
      BY <1>3, <2>4 DEF Unsubscribed
    <3>2. q \in links
      BY <1>1, <2>1, <2>4 DEF IInv, LinkInv, KillFlagAgrees
    <3>3. PICK r \in Rows : clients[r].conn = q /\ clients[r].kill = "inhibitor"
      BY <1>1, <3>2 DEF IInv, LinkInv
    <3>4. \A k, l \in Rows : clients[k].conn = q /\ clients[l].conn = q => k = l
      BY <2>1, OneRowEach
    <3> HIDE DEF cs, q
    <3>5. /\ cs \in Seq(Entry)
          /\ DOMAIN cs = DOMAIN clients /\ Len(cs) = Len(clients)
          /\ \A k \in DOMAIN clients :
              /\ cs[k].conn = clients[k].conn
              /\ cs[k].subs = clients[k].subs
              /\ cs[k].out = clients[k].out
              /\ k \in Rows /\ clients[k].conn = q =>
                   cs[k].del = TRUE /\ cs[k].kill = "none"
              /\ ~(k \in Rows /\ clients[k].conn = q) => cs[k] = clients[k]
      BY ZenonT(60), <1>1, <3>1, <3>4, MarkedEffect
    <3>6. \A k \in Rows : cs[k] # clients[k] =>
              /\ clients[k].kill = "inhibitor" /\ clients[k].conn = q
              /\ clients[k].conn \in links /\ cs[k].kill = "none"
      BY <1>1, <3>2, <3>3, <3>4, <3>5
    <3>7. \A k \in Rows : Open(k) => cs[k].kill # "inhibitor"
      BY <1>1, <2>2, <3>5
    <3> QED
      BY <1>3, <3>5, <3>6, <3>7 DEF cs, q
  <2> QED
    BY <2>3, <2>4
<1> QED
  BY <1>2, <1>3

(* What InhibitorLeaves does to the connection objects. *)
LEMMA LeavesEffect ==
  ASSUME IInv, NEW n \in Nat, InhibitorLeaves(n)
  PROVE  /\ remote' \in [Drivers -> Conns \cup {NoConn}]
         /\ remote'["threaded"] = remote["threaded"]
         /\ remote'["inhibitor"] = IF LastOf(n) THEN NoConn ELSE remote["inhibitor"]
         /\ \A d \in Drivers : /\ d # "inhibitor" => remote'[d] = remote[d]
                               /\ remote'[d] \in {remote[d], NoConn}
BY DEF InhibitorLeaves, IInv, TypeOK, Drivers

(* A client closes one of its subscriptions. *)
LEMMA CloseRequestInductive ==
  ASSUME IInv, CloseRequest
  PROVE  IInv'
<1> DEFINE cs == Unsubscribed(1)
           e == clients[i]
           new == [conn |-> e.conn, del |-> e.del, kill |-> e.kill, subs |-> e.subs - 1, out |-> 1]
<1>1. /\ Parse("close") /\ clients' = [cs EXCEPT ![i].subs = @ - 1, ![i].out = @ + 1]
      /\ InhibitorLeaves(1)
      /\ UNCHANGED <<revents, num_clients, made, links, kill_flag>>
  BY DEF CloseRequest
<1>2. /\ i \in Rows /\ clients[i].conn \in users /\ Parsing(i)
      /\ clients[i].out = 0 /\ clients[i].kill = "none"
      /\ clients[i].subs > 0 /\ owed[clients[i].conn] = 1
      /\ \A k \in Rows : Open(k) /\ clients[k].conn \in Conns
      /\ \A k \in Rows : clients[k].subs > 0 => k = i
      /\ \A k \in Rows : Busy(k) => k = i
  BY <1>1, ParseFacts
<1>3. /\ TypeOK /\ Rows \subseteq DOMAIN clients /\ clients \in Seq(Entry)
      /\ i \in DOMAIN clients /\ clients[i] \in Entry /\ clients[i].subs \in 0..MaxSubs
      /\ MaxSubs \in Nat /\ count \in Nat
  BY <1>2, RowTypes, ConstantsAssumption DEF IInv, TypeOK
<1>4. /\ at = "parse" /\ readbuffer' = "none"
      /\ UNCHANGED <<at, i, deleter, num_available, polled, users, hup, inbox, owed, tpc>>
  BY <1>1 DEF Parse
<1>5. count = clients[i].subs /\ count' = count - 1 /\ count' \in Nat
      /\ (LastOf(1) <=> count' = 0)
  <2>1. count = clients[i].subs
    BY <1>2 DEF IInv, InhibitorInv
  <2>2. count' = count - 1
    BY <1>1 DEF InhibitorLeaves
  <2> QED
    BY <1>2, <1>3, <2>1, <2>2 DEF LastOf
<1>6. /\ cs \in Seq(Entry) /\ DOMAIN cs = DOMAIN clients /\ Len(cs) = Len(clients)
      /\ \A k \in DOMAIN clients :
              /\ cs[k].conn = clients[k].conn /\ cs[k].subs = clients[k].subs
              /\ cs[k].out = clients[k].out
              /\ k \notin Rows => cs[k] = clients[k]
      /\ ~LastOf(1) => cs = clients
      /\ \A k \in Rows : cs[k] # clients[k] =>
              /\ clients[k].kill = "inhibitor" /\ clients[k].conn = remote["inhibitor"]
              /\ clients[k].conn \in links /\ cs[k].kill = "none"
      /\ LastOf(1) => \A k \in Rows : Open(k) => cs[k].kill # "inhibitor"
  BY UnsubscribedEffect
<1> HIDE DEF cs
<1>7. cs[i] = e
  BY <1>2, <1>6
<1>8. clients' = [cs EXCEPT ![i] = new]
  <2>1. [e EXCEPT !.subs = @ - 1, !.out = @ + 1] = new
    <3>1. e \in Entry /\ e.out + 1 = 1
      BY <1>2, <1>3
    <3> HIDE DEF e
    <3>2. \A m : [e EXCEPT !.subs = m, !.out = 1]
            = [conn |-> e.conn, del |-> e.del, kill |-> e.kill, subs |-> m, out |-> 1]
      BY <3>1, EntryChanged
    <3>3. [e EXCEPT !.subs = e.subs - 1, !.out = 1] = new
      BY <3>1, <3>2
    <3> QED
      BY <3>1, <3>3
  <2> HIDE DEF new
  <2>2. clients' = [cs EXCEPT ![i] = [e EXCEPT !.subs = @ - 1, !.out = @ + 1]]
    BY <1>1, <1>3, <1>6, <1>7
  <2> QED
    BY <2>1, <2>2
<1>9. /\ new \in Entry /\ new.conn = clients[i].conn /\ new.kill = "none"
      /\ new.subs = clients[i].subs - 1 /\ new.out = 1
  <2>1. clients[i].subs - 1 \in 0..MaxSubs
    BY <1>2, <1>3
  <2> QED
    BY <1>2, <1>3, <2>1 DEF Entry
<1> HIDE DEF new, e
<1>10. /\ clients' \in Seq(Entry)
       /\ DOMAIN clients' = DOMAIN clients /\ Len(clients') = Len(clients)
       /\ \A j \in DOMAIN clients : clients'[j] = IF j = i THEN new ELSE cs[j]
  BY <1>3, <1>6, <1>8, <1>9, RowChanged
<1>11. \A k \in DOMAIN clients :
        /\ clients'[k].conn = clients[k].conn
        /\ clients'[k].subs = IF k = i THEN clients[i].subs - 1 ELSE clients[k].subs
        /\ clients'[k].out = IF k = i THEN 1 ELSE clients[k].out
        /\ k \notin Rows => clients'[k] = clients[k]
  BY <1>2, <1>6, <1>9, <1>10
<1>12. \A k \in Rows :
         \/ clients'[k].kill = clients[k].kill
         \/ /\ clients[k].kill = "inhibitor" /\ clients'[k].kill = "none" /\ LastOf(1)
            /\ clients[k].conn = remote["inhibitor"]
  BY <1>2, <1>3, <1>6, <1>9, <1>10
<1>13. LastOf(1) => \A k \in Rows : clients'[k].kill # "inhibitor"
  BY <1>2, <1>3, <1>6, <1>9, <1>10
<1>14. /\ remote' \in [Drivers -> Conns \cup {NoConn}]
       /\ remote'["threaded"] = remote["threaded"]
       /\ remote'["inhibitor"] = IF LastOf(1) THEN NoConn ELSE remote["inhibitor"]
       /\ \A d \in Drivers : /\ d # "inhibitor" => remote'[d] = remote[d]
                             /\ remote'[d] \in {remote[d], NoConn}
  BY <1>1, LeavesEffect
<1>15. TypeOK'
  BY <1>1, <1>3, <1>4, <1>5, <1>10, <1>14 DEF TypeOK, deleter
<1>16. RowsInv'
  <2>1. i' >= 1
    BY <1>4 DEF IInv, RowsInv
  <2> QED
    BY <1>1, <1>4, <1>10, <1>11, <1>15, <2>1, RowsKept DEF deleter
<1>17. made \in Nat /\ NoConn \in 0..made /\ NoConn \notin users \cup links
  BY <1>3 DEF TypeOK, NoConn, Conns
<1>18. NetInv'
  BY <1>1, <1>4, <1>14, <1>17 DEF IInv, NetInv
<1>19. ReadInv'
  BY <1>1, <1>4 DEF IInv, ReadInv
<1>20. Rows' = Rows
  BY <1>1 DEF Rows
<1>21. RequestInv'
  <2>1. "close" # "none"
    OBVIOUS
  <2>2. \A k \in Rows : clients[k].kill = "none" => clients'[k].kill = "none"
    BY <1>12
  <2>3. clients'[i].kill = "none" /\ clients'[i].out = clients[i].out + 1
    BY <1>2, <1>3, <1>9, <1>10
  <2> QED
    BY <1>1, <1>2, <1>3, <1>10, <1>11, <2>1, <2>2, <2>3, HandledRequest
<1>22. LinkInv'
  <2>1. ASSUME NEW k \in Rows, clients'[k].conn # NoConn, clients'[k].kill # "none"
        PROVE  remote'[clients'[k].kill] = clients'[k].conn
    <3>1. clients'[k].kill = clients[k].kill /\ clients[k].kill \in Drivers
      BY <1>3, <1>12, <2>1, RowTypes
    <3>2. remote[clients[k].kill] = clients[k].conn
      BY <1>3, <1>11, <2>1, <3>1 DEF IInv, LinkInv, KillFlagAgrees, Rows
    <3>3. remote'[clients[k].kill] = remote[clients[k].kill]
      BY <1>13, <1>14, <3>1
    <3> QED
      BY <1>3, <1>11, <3>1, <3>2, <3>3
  <2>2. \A d \in Drivers : remote'[d] # NoConn => (kill_flag'[d] <=> remote'[d] \notin links')
    BY <1>1, <1>14 DEF IInv, LinkInv, KillFlagAgrees
  <2>3. KillFlagAgrees'
    BY <1>20, <2>1, <2>2 DEF KillFlagAgrees, Rows
  <2>4. ASSUME NEW d \in Drivers, remote'[d] \in links'
        PROVE  \E k \in Rows : clients'[k].conn = remote'[d] /\ clients'[k].kill = d
    <3>1. remote'[d] = remote[d] /\ remote[d] \in links /\ (d = "inhibitor" => ~LastOf(1))
      BY <1>1, <1>14, <1>17, <2>4
    <3>2. PICK k \in Rows : clients[k].conn = remote[d] /\ clients[k].kill = d
      BY <3>1 DEF IInv, LinkInv
    <3>3. clients'[k].kill = d
      BY <1>12, <3>1, <3>2
    <3> QED
      BY <1>3, <1>11, <3>1, <3>2, <3>3
  <2>5. count' = 0 <=> remote'["inhibitor"] = NoConn
    <3>1. remote["inhibitor"] # NoConn
      BY <1>2, <1>3, <1>5 DEF IInv, LinkInv
    <3> QED
      BY <1>5, <1>14, <3>1
  <2> QED
    BY <1>4, <1>14, <1>20, <2>3, <2>4, <2>5 DEF IInv, LinkInv
<1>23. InhibitorInv'
  <2>1. \A k \in Rows : Busy(k)' => k = i
    <3> SUFFICES ASSUME NEW k \in Rows, k # i, Busy(k)' PROVE Busy(k)
      BY <1>2
    <3> QED
      BY <1>3, <1>4, <1>11 DEF Busy, Open
  <2>2. \A k \in Rows : clients'[k].subs > 0 => k = i
    BY <1>2, <1>3, <1>11
  <2>3. count' = clients'[i].subs
    BY <1>3, <1>5, <1>11
  <2>4. \A l \in Rows : clients'[l].kill = "inhibitor" => i < l
    BY <1>2, <1>12 DEF IInv, InhibitorInv
  <2> QED
    BY <1>2, <1>20, <2>1, <2>2, <2>3, <2>4 DEF InhibitorInv
<1> QED
  BY <1>15, <1>16, <1>18, <1>19, <1>21, <1>22, <1>23 DEF IInv

-----------------------------------------------------------------------------
(***************************************************************************)
(* AddClient.                                                              *)
(***************************************************************************)

(* The new entry comes right after the rows, and behind it there are only  *)
(* free places.                                                            *)
LEMMA AddedEffect ==
  ASSUME IInv, NEW c \in Conns, NEW d \in Drivers \cup {"none"}
  PROVE  LET t == Added(c, d) IN
         /\ t \in Seq(Entry) /\ num_clients + 1 \in DOMAIN t
         /\ num_clients + 1 <= Len(t) /\ DOMAIN t = 1..Len(t)
         /\ \A k \in Rows : k \in DOMAIN t /\ t[k] = clients[k]
         /\ LET new == t[num_clients + 1] IN
              /\ new \in Entry /\ new.conn = c /\ new.kill = d
              /\ new.subs = 0 /\ new.out = 0
         /\ \A k \in DOMAIN t : k > num_clients + 1 => t[k] = Blank
<1> DEFINE new == [Blank EXCEPT !.conn = c, !.kill = d]
           t == Added(c, d)
           n == num_clients + 1
<1>1. /\ TypeOK /\ clients \in Seq(Entry) /\ num_clients \in Nat /\ num_clients <= Len(clients)
      /\ Len(clients) \in Nat /\ DOMAIN clients = 1..Len(clients)
      /\ \A k \in DOMAIN clients : k > num_clients => clients[k] = Blank
  BY RowTypes DEF IInv, TypeOK, RowsInv
<1>2. /\ new \in Entry /\ new.conn = c /\ new.kill = d
      /\ new.subs = 0 /\ new.out = 0
  <2>1. 0 \in 0..MaxSubs /\ 0 \in 0..1
    BY ConstantsAssumption
  <2>2. Blank \in Entry /\ Blank.subs = 0 /\ Blank.out = 0
    BY <2>1 DEF Blank, Entry
  <2>3. \A e \in Entry :
          [e EXCEPT !.conn = c, !.kill = d]
            = [conn |-> c, del |-> e.del, kill |-> d, subs |-> e.subs, out |-> e.out]
    <3> SUFFICES ASSUME NEW e \in Entry
                 PROVE  [e EXCEPT !.conn = c, !.kill = d]
                          = [conn |-> c, del |-> e.del, kill |-> d, subs |-> e.subs, out |-> e.out]
      OBVIOUS
    <3> DEFINE f == [conn |-> c, del |-> e.del, kill |-> e.kill, subs |-> e.subs, out |-> e.out]
    <3>1. [e EXCEPT !.conn = c] = f
      BY DEF Entry
    <3>2. [f EXCEPT !.kill = d]
            = [conn |-> c, del |-> e.del, kill |-> d, subs |-> e.subs, out |-> e.out]
      OBVIOUS
    <3> HIDE DEF f
    <3> QED
      BY <3>1, <3>2
  <2>4. Blank.del \in BOOLEAN
    BY <2>2 DEF Entry
  <2>5. new = [conn |-> c, del |-> Blank.del, kill |-> d, subs |-> Blank.subs, out |-> Blank.out]
    BY <2>2, <2>3
  <2> QED
    BY <2>1, <2>2, <2>4, <2>5 DEF Entry
<1>3. CASE num_clients = Len(clients)
  <2>1. t = Append(clients, new)
    BY <1>3 DEF Added
  <2> HIDE DEF new
  <2>2. /\ Append(clients, new) \in Seq(Entry)
        /\ Len(Append(clients, new)) = Len(clients) + 1
        /\ \A k \in 1..Len(clients) : Append(clients, new)[k] = clients[k]
        /\ Append(clients, new)[Len(clients) + 1] = new
    BY <1>1, <1>2, AppendProperties
  <2>3. t \in Seq(Entry) /\ Len(t) = n /\ t[n] = new /\ \A k \in Rows : t[k] = clients[k]
    BY <1>1, <1>3, <2>1, <2>2 DEF Rows
  <2> HIDE DEF t
  <2>4. DOMAIN t = 1..Len(t)
    BY <2>3, LenProperties
  <2> QED
    BY <1>1, <1>2, <2>3, <2>4 DEF Rows, t
<1>4. CASE num_clients # Len(clients)
  <2>1. t = [clients EXCEPT ![n] = new]
    BY <1>4 DEF Added
  <2>2. n \in DOMAIN clients
    <3>1. \A a, b \in Nat : a <= b /\ a # b => a + 1 \in 1..b
      OBVIOUS
    <3> QED
      BY <1>1, <1>4, <3>1
  <2> HIDE DEF new
  <2>3. /\ t \in Seq(Entry) /\ DOMAIN t = DOMAIN clients /\ Len(t) = Len(clients)
        /\ \A j \in DOMAIN clients : t[j] = IF j = n THEN new ELSE clients[j]
    BY <1>1, <1>2, <2>1, <2>2, RowChanged
  <2> HIDE DEF t
  <2> QED
    BY <1>1, <1>2, <2>2, <2>3 DEF Rows, t
<1> QED
  BY <1>3, <1>4

(* The next connection is one that nobody has. *)
LEMMA NewConnIsNew ==
  ASSUME IInv, Room
  PROVE  /\ NewConn \in Conns /\ NewConn # NoConn /\ NewConn = made + 1 /\ made \in Nat
         /\ NewConn \notin users \cup links /\ made + 1 \in 0..MaxConns
         /\ \A d \in Drivers : remote[d] # NewConn
         /\ inbox[NewConn] = "none" /\ owed[NewConn] = 0
         /\ \A k \in Rows : clients[k].conn # NewConn
<1>1. /\ made \in Nat /\ MaxConns \in Nat /\ made < MaxConns
      /\ NewConn = made + 1
  BY ConstantsAssumption DEF IInv, TypeOK, Room, NewConn
<1>2. NewConn \in Conns /\ NewConn # NoConn /\ made + 1 \in 0..MaxConns
  BY <1>1 DEF Conns, NoConn
<1>3. NewConn \notin users \cup links /\ \A d \in Drivers : remote[d] # NewConn
  BY <1>1 DEF IInv, NetInv
<1>4. inbox[NewConn] = "none" /\ owed[NewConn] = 0
  BY <1>2, <1>3 DEF IInv, NetInv
<1>5. \A k \in Rows : clients[k].conn # NewConn
  BY <1>2, <1>3 DEF IInv, RowsInv, Open
<1> QED
  BY <1>1, <1>2, <1>3, <1>4, <1>5

(* A connection is made and gets the next row. *)
LEMMA RowsGrown ==
  ASSUME IInv, Room, at # "delete", at' # "delete", i' = i, num_clients' = num_clients + 1,
         \A k \in Rows : clients'[k].conn = clients[k].conn,
         clients'[num_clients + 1].conn = NewConn,
         \A k \in DOMAIN clients' : k > num_clients + 1 => clients'[k] = Blank,
         users' \cup links' = users \cup links \cup {NewConn}, num_deleted' = num_deleted
  PROVE  RowsInv' /\ Rows' = Rows \cup {num_clients + 1} /\ num_clients + 1 \notin Rows
<1> DEFINE n == num_clients + 1
<1>1. num_clients \in Nat /\ i \in Nat /\ i >= 1 /\ TypeOK
  BY RowTypes DEF IInv, TypeOK, RowsInv
<1>2. Rows' = Rows \cup {n} /\ n \notin Rows
  BY <1>1 DEF Rows
<1>3. /\ NewConn # NoConn /\ NewConn \notin users \cup links
      /\ \A k \in Rows : clients[k].conn # NewConn
  BY NewConnIsNew
<1>4. \A k \in Rows : Open(k) /\ Open(k)'
  BY DEF IInv, RowsInv, Open
<1>5. \A k \in Rows' : Open(k)'
  BY <1>2, <1>3, <1>4 DEF Open
<1>6. Closed = {} /\ Closed' = {}
  BY <1>4, <1>5 DEF Closed
<1>7. num_deleted' = Cardinality(Closed')
  BY <1>6 DEF IInv, RowsInv
<1>8. \A k, l \in Rows' : Open(k)' /\ clients'[k].conn = clients'[l].conn => k = l
  <2>1. \A k, l \in Rows : clients'[k].conn = clients'[l].conn => k = l
    BY <1>4 DEF IInv, RowsInv
  <2>2. \A k \in Rows : clients'[k].conn # clients'[n].conn
    BY <1>3
  <2> QED
    BY <1>2, <2>1, <2>2
<1>9. \A k \in Rows' : Open(k)' => clients'[k].conn \in users' \cup links'
  <2>1. \A k \in Rows : clients'[k].conn \in users \cup links
    BY <1>4 DEF IInv, RowsInv
  <2> QED
    BY <1>2, <2>1
<1>10. \A c \in users' \cup links' : \E k \in Rows' : clients'[k].conn = c
  <2>1. \A c \in users \cup links : \E k \in Rows : clients'[k].conn = c
    BY DEF IInv, RowsInv
  <2> QED
    BY <1>2, <2>1
<1>11. \A k \in Rows' : Open(k)' <=> ~(at' = "delete" /\ k < i' /\ clients'[k].del)
  BY <1>5
<1>12. \A k \in DOMAIN clients' : k > num_clients' => clients'[k] = Blank
  OBVIOUS
<1> QED
  BY <1>1, <1>2, <1>7, <1>8, <1>9, <1>10, <1>11, <1>12 DEF RowsInv

(* A client is accepted, or the thread of "threaded" makes a connection.   *)
LEMMA AddInductive ==
  ASSUME IInv, AcceptClient \/ RemoteSubscribe
  PROVE  IInv'
<1> DEFINE d == IF AcceptClient THEN "none" ELSE "threaded"
           n == num_clients + 1
           c == NewConn
<1>1. /\ Room /\ at \in {"wait", "poll"} /\ at' \in {"wait", "poll"} /\ made' = c
      /\ clients' = Added(c, d) /\ num_clients' = n
      /\ d = "none" => users' = users \cup {c} /\ links' = links /\ UNCHANGED driver
      /\ d # "none" => /\ users' = users /\ links' = links \cup {c} /\ tpc = "out" /\ tpc' = "in"
                       /\ remote' = [remote EXCEPT !["threaded"] = c]
                       /\ kill_flag' = [kill_flag EXCEPT !["threaded"] = FALSE]
      /\ UNCHANGED <<i, reader, deleter, hup, inbox, owed, count>>
  BY DEF AcceptClient, RemoteSubscribe, LockFree, Connect, driver, server
<1>2. d \in {"none", "threaded"} /\ "none" # "threaded"
  OBVIOUS
<1> HIDE DEF d
<1>3. d \in Drivers \cup {"none"} /\ "threaded" \in Drivers /\ "inhibitor" \in Drivers
  BY <1>2 DEF Drivers
<1>4. /\ c \in Conns /\ c # NoConn /\ c = made + 1 /\ made \in Nat
      /\ c \notin users \cup links /\ made + 1 \in 0..MaxConns
      /\ \A x \in Drivers : remote[x] # c
      /\ inbox[c] = "none" /\ owed[c] = 0
      /\ \A k \in Rows : clients[k].conn # c
  BY <1>1, NewConnIsNew
<1> HIDE DEF c
<1>5. /\ clients' \in Seq(Entry) /\ n \in DOMAIN clients'
      /\ n <= Len(clients') /\ DOMAIN clients' = 1..Len(clients')
      /\ \A k \in Rows : k \in DOMAIN clients' /\ clients'[k] = clients[k]
      /\ clients'[n].conn = c /\ clients'[n].kill = d
      /\ clients'[n].subs = 0 /\ clients'[n].out = 0
      /\ \A k \in DOMAIN clients' : k > n => clients'[k] = Blank
  BY <1>1, <1>3, <1>4, AddedEffect
<1>6. users' \cup links' = users \cup links \cup {c}
  BY <1>1
<1>7. RowsInv' /\ Rows' = Rows \cup {n} /\ n \notin Rows
  BY <1>1, <1>5, <1>6, RowsGrown DEF deleter, c
<1>8. TypeOK /\ num_clients \in Nat /\ i \in Nat /\ Rows \subseteq DOMAIN clients
  BY RowTypes DEF IInv, TypeOK
<1>9. /\ remote' \in [Drivers -> Conns \cup {NoConn}] /\ kill_flag' \in [Drivers -> BOOLEAN]
      /\ tpc' \in {"out", "in", "deleting"} /\ remote'["inhibitor"] = remote["inhibitor"]
      /\ tpc' = "out" <=> remote'["threaded"] = NoConn
      /\ \A x \in Drivers : x # d => remote'[x] = remote[x] /\ kill_flag'[x] = kill_flag[x]
      /\ d # "none" => remote'[d] = c /\ kill_flag'[d] = FALSE /\ remote[d] = NoConn
  <2>1. CASE d = "none"
    <3>1. UNCHANGED <<remote, kill_flag, tpc>>
      BY <1>1, <2>1 DEF driver
    <3>2. tpc = "out" <=> remote["threaded"] = NoConn
      BY DEF IInv, LinkInv
    <3> QED
      BY <1>8, <2>1, <3>1, <3>2 DEF TypeOK
  <2>2. CASE d = "threaded"
    <3>1. /\ tpc = "out" /\ tpc' = "in" /\ remote' = [remote EXCEPT !["threaded"] = c]
          /\ kill_flag' = [kill_flag EXCEPT !["threaded"] = FALSE]
      BY <1>1, <2>2
    <3>2. remote["threaded"] = NoConn
      BY <3>1 DEF IInv, LinkInv
    <3> QED
      BY <1>3, <1>4, <1>8, <2>2, <3>1, <3>2 DEF TypeOK, Drivers
  <2> QED
    BY <1>2, <2>1, <2>2
<1>10. TypeOK'
  <2>1. num_clients' \in 0..Len(clients')
    BY <1>1, <1>5, <1>8, LenProperties
  <2>2. /\ users' \subseteq Conns /\ links' \subseteq Conns /\ hup' \subseteq users' \cup links'
        /\ made' \in 0..MaxConns
    BY <1>1, <1>2, <1>4, <1>8 DEF TypeOK
  <2>3. at' \in Places
    BY <1>1 DEF Places
  <2> QED
    BY <1>1, <1>5, <1>8, <1>9, <2>1, <2>2, <2>3 DEF TypeOK, reader, deleter
<1>11. NetInv'
  <2>1. users' \cup links' \subseteq 1..made' /\ users' \cap links' = {}
    BY <1>1, <1>2, <1>4 DEF IInv, NetInv
  <2>2. \A x \in Drivers : remote'[x] \in 0..made' /\ remote'[x] \notin users'
    <3> SUFFICES ASSUME NEW x \in Drivers
                 PROVE  remote'[x] \in 0..made' /\ remote'[x] \notin users'
      OBVIOUS
    <3>1. CASE x # d
      <4>1. remote'[x] = remote[x] /\ remote[x] \in 0..made /\ remote[x] \notin users
        BY <1>9, <3>1 DEF IInv, NetInv
      <4> QED
        BY <1>1, <1>2, <1>4, <4>1
    <3>2. CASE x = d
      BY <1>1, <1>2, <1>4, <1>9, <3>2 DEF Drivers
    <3> QED
      BY <3>1, <3>2
  <2>3. \A x \in Conns \ users' : inbox'[x] = "none" /\ owed'[x] = 0
    BY <1>1, <1>2 DEF IInv, NetInv
  <2> QED
    BY <2>1, <2>2, <2>3 DEF NetInv
<1>12. ReadInv' /\ readbuffer = "none" /\ readbuffer' = "none"
  BY <1>1 DEF IInv, ReadInv, reader
<1>13. \A k \in Rows' : ~Parsing(k)'
  BY <1>12 DEF Parsing
<1>14. RequestInv'
  <2>1. ASSUME NEW k \in Rows
        PROVE  /\ clients'[k].conn \in users' =>
                    /\ owed'[clients'[k].conn] = clients'[k].out
                         + (IF inbox'[clients'[k].conn] # "none" THEN 1 ELSE 0) + 0
                    /\ inbox'[clients'[k].conn] = "open" => clients'[k].subs < MaxSubs
                    /\ inbox'[clients'[k].conn] = "close" => clients'[k].subs > 0
                    /\ clients'[k].kill = "none"
               /\ clients'[k].conn \notin users' => clients'[k].subs = 0 /\ clients'[k].out = 0
    <3>1. clients'[k] = clients[k] /\ (clients[k].conn \in users' <=> clients[k].conn \in users)
      BY <1>1, <1>2, <1>4, <1>5
    <3>2. ~Parsing(k) /\ \A m : inbox[clients[k].conn] = m => Asks(k, m)
      BY <1>12 DEF Parsing, Asks
    <3> QED
      BY <1>1, <3>1, <3>2 DEF IInv, RequestInv
  <2>2. /\ owed'[clients'[n].conn] = 0 /\ clients'[n].out = 0
        /\ inbox'[clients'[n].conn] = "none" /\ clients'[n].subs = 0
        /\ c \in users' => clients'[n].kill = "none"
    BY <1>1, <1>2, <1>4, <1>5
  <2>3. \A k \in Rows', m \in {"open", "close"} : Asks(k, m)' => inbox'[clients'[k].conn] = m
    BY <1>12 DEF Asks
  <2>4. ASSUME NEW k \in Rows'
        PROVE  /\ clients'[k].conn \in users' =>
                    /\ owed'[clients'[k].conn] = clients'[k].out
                         + (IF inbox'[clients'[k].conn] # "none" THEN 1 ELSE 0)
                         + (IF Parsing(k)' THEN 1 ELSE 0)
                    /\ Asks(k, "open")' => clients'[k].subs < MaxSubs
                    /\ Asks(k, "close")' => clients'[k].subs > 0
                    /\ clients'[k].kill = "none"
               /\ clients'[k].conn \notin users' =>
                    clients'[k].subs = 0 /\ clients'[k].out = 0 /\ ~Parsing(k)'
    <3>1. CASE k = n
      BY <1>5, <1>13, <2>2, <2>3, <3>1
    <3>2. CASE k \in Rows
      BY <1>13, <2>1, <2>3, <3>2
    <3> QED
      BY <1>7, <3>1, <3>2
  <2> QED
    BY <2>4 DEF RequestInv
<1>15. LinkInv'
  <2>1. ASSUME NEW k \in Rows', clients'[k].conn # NoConn, clients'[k].kill # "none"
        PROVE  remote'[clients'[k].kill] = clients'[k].conn
    <3>1. CASE k = n
      BY <1>5, <1>9, <2>1, <3>1
    <3>2. CASE k \in Rows
      <4>1. clients'[k] = clients[k] /\ clients[k].kill \in Drivers
        BY <1>5, <1>8, <2>1, <3>2, RowTypes
      <4>2. remote[clients[k].kill] = clients[k].conn
        BY <2>1, <3>2, <4>1 DEF IInv, LinkInv, KillFlagAgrees, Rows
      <4>3. clients[k].kill # d
        BY <1>9, <2>1, <4>1, <4>2
      <4> QED
        BY <1>9, <4>1, <4>2, <4>3
    <3> QED
      BY <1>7, <3>1, <3>2
  <2>2. \A x \in Drivers : remote'[x] # NoConn => (kill_flag'[x] <=> remote'[x] \notin links')
    <3> SUFFICES ASSUME NEW x \in Drivers, remote'[x] # NoConn
                 PROVE  kill_flag'[x] <=> remote'[x] \notin links'
      OBVIOUS
    <3>1. CASE x # d
      <4>1. remote'[x] = remote[x] /\ kill_flag'[x] = kill_flag[x] /\ remote[x] # c
        BY <1>4, <1>9, <3>1
      <4>2. kill_flag[x] <=> remote[x] \notin links
        BY <4>1 DEF IInv, LinkInv, KillFlagAgrees
      <4>3. remote[x] \in links <=> remote[x] \in links'
        BY <1>1, <1>2, <4>1
      <4> QED
        BY <4>1, <4>2, <4>3
    <3>2. CASE x = d
      BY <1>1, <1>2, <1>9, <3>2 DEF Drivers
    <3> QED
      BY <3>1, <3>2
  <2>3. KillFlagAgrees'
    BY <2>1, <2>2 DEF KillFlagAgrees, Rows
  <2>4. ASSUME NEW x \in Drivers, remote'[x] \in links'
        PROVE  \E k \in Rows' : clients'[k].conn = remote'[x] /\ clients'[k].kill = x
    <3>1. CASE x # d
      <4>1. remote'[x] = remote[x] /\ remote[x] \in links
        BY <1>1, <1>2, <1>4, <1>9, <2>4, <3>1
      <4>2. PICK k \in Rows : clients[k].conn = remote[x] /\ clients[k].kill = x
        BY <4>1 DEF IInv, LinkInv
      <4> QED
        BY <1>5, <1>7, <4>1, <4>2
    <3>2. CASE x = d
      BY <1>2, <1>5, <1>7, <1>9, <3>2 DEF Drivers
    <3> QED
      BY <3>1, <3>2
  <2>5. count' = 0 <=> remote'["inhibitor"] = NoConn
    BY <1>1, <1>9 DEF IInv, LinkInv
  <2> QED
    BY <1>9, <2>3, <2>4, <2>5 DEF LinkInv
<1>16. InhibitorInv'
  <2>1. \A k \in Rows : (Busy(k)' <=> Busy(k)) /\ clients'[k] = clients[k]
    BY <1>1, <1>5 DEF Busy, Open
  <2>2. owed'[clients'[n].conn] = 0 /\ clients'[n].subs = 0 /\ clients'[n].kill # "inhibitor"
    BY <1>1, <1>2, <1>4, <1>5
  <2>3. \A k \in Rows' : Busy(k)' => k # n
    BY <2>2 DEF Busy
  <2>4. \A k, l \in Rows' : Busy(k)' /\ Busy(l)' => k = l
    BY <1>7, <2>1, <2>3 DEF IInv, InhibitorInv
  <2>5. \A k \in Rows' : clients'[k].subs > 0 => k \in Rows /\ count' = clients'[k].subs
    BY <1>1, <1>7, <2>1, <2>2 DEF IInv, InhibitorInv
  <2>6. \A k, l \in Rows' : clients'[k].subs > 0 /\ clients'[l].kill = "inhibitor" => k < l
    BY <1>7, <2>1, <2>2 DEF IInv, InhibitorInv
  <2>7. count' > 0 => \E k \in Rows' : clients'[k].subs > 0
    BY <1>1, <1>7, <2>1 DEF IInv, InhibitorInv
  <2> QED
    BY <2>4, <2>5, <2>6, <2>7 DEF InhibitorInv
<1> QED
  BY <1>7, <1>10, <1>11, <1>12, <1>14, <1>15, <1>16 DEF IInv

(* A client's first subscription: the inhibitor's Setup makes a connection *)
(* to the other server and adds it to the table behind the client, while   *)
(* Read is in its loop.                                                    *)
LEMMA OpenFirstInductive ==
  ASSUME IInv, OpenFirst
  PROVE  IInv'
<1> DEFINE n == num_clients + 1
           c == NewConn
           t == Added(c, "inhibitor")
           e == clients[i]
           new == [conn |-> e.conn, del |-> e.del, kill |-> e.kill, subs |-> e.subs + 1, out |-> 1]
<1>1. /\ Parse("open") /\ count = 0 /\ Room /\ made' = c /\ links' = links \cup {c}
      /\ clients' = [t EXCEPT ![i].subs = @ + 1, ![i].out = @ + 1]
      /\ num_clients' = n /\ count' = 1
      /\ remote' = [remote EXCEPT !["inhibitor"] = c]
      /\ kill_flag' = [kill_flag EXCEPT !["inhibitor"] = FALSE]
  BY DEF OpenFirst, Connect
<1>2. /\ i \in Rows /\ clients[i].conn \in users /\ Parsing(i)
      /\ clients[i].out = 0 /\ clients[i].kill = "none"
      /\ inbox[clients[i].conn] = "none"
      /\ clients[i].subs < MaxSubs /\ owed[clients[i].conn] = 1
      /\ \A k \in Rows : Open(k) /\ clients[k].conn \in Conns
      /\ \A k \in Rows : clients[k].subs > 0 => k = i
      /\ \A k \in Rows : Busy(k) => k = i
  BY <1>1, ParseFacts
<1>3. /\ TypeOK /\ Rows \subseteq DOMAIN clients /\ clients \in Seq(Entry)
      /\ i \in DOMAIN clients /\ clients[i] \in Entry /\ clients[i].subs \in 0..MaxSubs
      /\ MaxSubs \in Nat /\ num_clients \in Nat /\ i \in Nat /\ i >= 1
  BY <1>2, RowTypes, ConstantsAssumption DEF IInv, TypeOK, RowsInv
<1>4. /\ at = "parse" /\ at' = "parse" /\ readbuffer' = "none"
      /\ UNCHANGED <<at, i, deleter, num_available, polled, users, hup, inbox, owed, tpc>>
  BY <1>1 DEF Parse
<1>5. /\ c \in Conns /\ c # NoConn /\ c = made + 1 /\ made \in Nat
      /\ c \notin users \cup links /\ made + 1 \in 0..MaxConns
      /\ \A x \in Drivers : remote[x] # c
      /\ inbox[c] = "none" /\ owed[c] = 0
      /\ \A k \in Rows : clients[k].conn # c
  BY <1>1, NewConnIsNew
<1> HIDE DEF c
<1>6. \A k \in Rows : clients[k].subs = 0
  <2>1. \A k \in Rows : clients[k].subs \in 0..MaxSubs
    BY <1>3, RowTypes
  <2> QED
    BY <1>1, <1>3, <2>1 DEF IInv, InhibitorInv
<1>7. "inhibitor" \in Drivers /\ "threaded" \in Drivers
  BY DEF Drivers
<1>8. /\ t \in Seq(Entry) /\ n \in DOMAIN t
      /\ n <= Len(t) /\ DOMAIN t = 1..Len(t)
      /\ \A k \in Rows : k \in DOMAIN t /\ t[k] = clients[k]
      /\ t[n] \in Entry /\ t[n].conn = c /\ t[n].kill = "inhibitor"
      /\ t[n].subs = 0 /\ t[n].out = 0
      /\ \A k \in DOMAIN t : k > n => t[k] = Blank
  BY <1>5, <1>7, AddedEffect
<1> HIDE DEF t
<1>9. t[i] = e /\ i \in DOMAIN t
  BY <1>2, <1>8
<1>10. clients' = [t EXCEPT ![i] = new]
  <2>1. [e EXCEPT !.subs = @ + 1, !.out = @ + 1] = new
    <3>1. e \in Entry /\ e.out + 1 = 1
      BY <1>2, <1>3
    <3> HIDE DEF e
    <3>2. \A m : [e EXCEPT !.subs = m, !.out = 1]
            = [conn |-> e.conn, del |-> e.del, kill |-> e.kill, subs |-> m, out |-> 1]
      BY <3>1, EntryChanged
    <3>3. [e EXCEPT !.subs = e.subs + 1, !.out = 1] = new
      BY <3>1, <3>2
    <3> QED
      BY <3>1, <3>3
  <2> HIDE DEF new
  <2>2. clients' = [t EXCEPT ![i] = [e EXCEPT !.subs = @ + 1, !.out = @ + 1]]
    BY <1>1, <1>9
  <2> QED
    BY <2>1, <2>2
<1>11. /\ new \in Entry /\ new.conn = clients[i].conn /\ new.kill = "none"
       /\ new.subs = 1 /\ new.out = 1
  <2>1. clients[i].subs + 1 \in 0..MaxSubs /\ clients[i].subs + 1 = 1
    BY <1>2, <1>3, <1>6
  <2> QED
    BY <1>2, <1>3, <2>1 DEF Entry
<1> HIDE DEF new, e
<1>12. /\ clients' \in Seq(Entry) /\ DOMAIN clients' = DOMAIN t /\ Len(clients') = Len(t)
       /\ \A j \in DOMAIN t : clients'[j] = IF j = i THEN new ELSE t[j]
  BY <1>8, <1>9, <1>10, <1>11, RowChanged
<1>13. n \notin Rows /\ n # i /\ n > i
  BY <1>2, <1>3 DEF Rows
<1>14. /\ \A k \in Rows : clients'[k].conn = clients[k].conn
       /\ \A k \in Rows : k # i => clients'[k] = clients[k]
       /\ clients'[i].subs = 1 /\ clients'[i].out = 1 /\ clients'[i].kill = "none"
       /\ clients'[n].conn = c /\ clients'[n].kill = "inhibitor"
       /\ clients'[n].subs = 0 /\ clients'[n].out = 0
       /\ \A k \in DOMAIN clients' : k > n => clients'[k] = Blank
  BY <1>2, <1>8, <1>9, <1>11, <1>12, <1>13
<1>15. users' \cup links' = users \cup links \cup {c}
  BY <1>1, <1>4
<1>16. RowsInv' /\ Rows' = Rows \cup {n}
  BY <1>1, <1>4, <1>14, <1>15, RowsGrown DEF deleter, c
<1>17. PICK r \in Revents : revents' = Append(revents, r)
  BY DEF OpenFirst, NewRevents, Revents
<1>18. /\ Len(revents) = num_clients /\ polled \in Nat /\ polled <= num_clients
       /\ revents \in Seq(Revents) /\ i <= polled
  BY <1>3, <1>4 DEF IInv, ReadInv, TypeOK
<1>19. /\ revents' \in Seq(Revents) /\ Len(revents') = n
       /\ \A k \in 1..num_clients : revents'[k] = revents[k]
  BY <1>17, <1>18, AppendProperties
<1>20. /\ remote' \in [Drivers -> Conns \cup {NoConn}] /\ kill_flag' \in [Drivers -> BOOLEAN]
       /\ remote'["threaded"] = remote["threaded"]
       /\ \A x \in Drivers : x # "inhibitor" =>
            remote'[x] = remote[x] /\ kill_flag'[x] = kill_flag[x]
       /\ remote'["inhibitor"] = c /\ kill_flag'["inhibitor"] = FALSE
       /\ remote["inhibitor"] = NoConn
  <2>1. remote["inhibitor"] = NoConn
    BY <1>1 DEF IInv, LinkInv
  <2> QED
    BY <1>1, <1>3, <1>5, <1>7, <2>1 DEF TypeOK, Drivers
<1>21. TypeOK'
  <2>1. num_clients' \in 0..Len(clients')
    BY <1>1, <1>3, <1>8, <1>12, LenProperties
  <2>2. /\ users' \subseteq Conns /\ links' \subseteq Conns /\ hup' \subseteq users' \cup links'
        /\ made' \in 0..MaxConns /\ count' \in Nat
    BY <1>1, <1>3, <1>4, <1>5 DEF TypeOK
  <2> QED
    BY <1>3, <1>4, <1>12, <1>19, <1>20, <2>1, <2>2 DEF TypeOK, deleter
<1>22. NetInv'
  <2>1. users' \cup links' \subseteq 1..made' /\ users' \cap links' = {}
    BY <1>1, <1>4, <1>5 DEF IInv, NetInv
  <2>2. \A x \in Drivers : remote'[x] \in 0..made' /\ remote'[x] \notin users'
    <3> SUFFICES ASSUME NEW x \in Drivers
                 PROVE  remote'[x] \in 0..made' /\ remote'[x] \notin users'
      OBVIOUS
    <3>1. CASE x # "inhibitor"
      <4>1. remote'[x] = remote[x] /\ remote[x] \in 0..made /\ remote[x] \notin users
        BY <1>20, <3>1 DEF IInv, NetInv
      <4> QED
        BY <1>1, <1>4, <1>5, <4>1
    <3>2. CASE x = "inhibitor"
      BY <1>1, <1>4, <1>5, <1>20, <3>2
    <3> QED
      BY <3>1, <3>2
  <2> QED
    BY <1>4, <2>1, <2>2 DEF IInv, NetInv
<1>23. ReadInv'
  <2>1. {k \in i..polled : revents'[k] # "none"} = {k \in i..polled : revents[k] # "none"}
    BY <1>3, <1>18, <1>19
  <2>2. revents'[i] = revents[i] /\ revents[i] # "none"
    BY <1>3, <1>4, <1>18, <1>19 DEF IInv, ReadInv
  <2>3. polled <= n
    BY <1>3, <1>18
  <2> QED
    BY <1>1, <1>4, <1>18, <1>19, <2>1, <2>2, <2>3 DEF IInv, ReadInv
<1>24. RequestInv'
  <2>1. \A k \in Rows' : ~Parsing(k)'
    BY <1>4 DEF Parsing
  <2>2. \A k \in Rows', m \in {"open", "close"} : Asks(k, m)' => inbox[clients'[k].conn] = m
    BY <1>4 DEF Asks
  <2>3. ASSUME NEW k \in Rows'
        PROVE  /\ clients'[k].conn \in users =>
                    /\ owed[clients'[k].conn] = clients'[k].out
                         + (IF inbox[clients'[k].conn] # "none" THEN 1 ELSE 0)
                         + (IF Parsing(k)' THEN 1 ELSE 0)
                    /\ Asks(k, "open")' => clients'[k].subs < MaxSubs
                    /\ Asks(k, "close")' => clients'[k].subs > 0
                    /\ clients'[k].kill = "none"
               /\ clients'[k].conn \notin users =>
                    clients'[k].subs = 0 /\ clients'[k].out = 0 /\ ~Parsing(k)'
    <3>1. CASE k = n
      BY <1>5, <1>14, <2>1, <3>1
    <3>2. CASE k = i
      BY <1>2, <1>14, <2>1, <2>2, <3>2
    <3>3. CASE k \in Rows /\ k # i
      <4>1. clients'[k] = clients[k] /\ ~Parsing(k)
        BY <1>14, <3>3 DEF Parsing
      <4>2. \A m : inbox[clients[k].conn] = m => Asks(k, m)
        BY DEF Asks
      <4> QED
        BY <2>1, <2>2, <3>3, <4>1, <4>2 DEF IInv, RequestInv
    <3> QED
      BY <1>16, <3>1, <3>2, <3>3
  <2> QED
    BY <1>4, <2>3 DEF RequestInv
<1>25. LinkInv'
  <2>1. ASSUME NEW k \in Rows', clients'[k].conn # NoConn, clients'[k].kill # "none"
        PROVE  remote'[clients'[k].kill] = clients'[k].conn
    <3>1. CASE k = n
      BY <1>14, <1>20, <3>1
    <3>2. CASE k \in Rows
      <4>1. k # i
        BY <1>14, <2>1
      <4>2. clients'[k] = clients[k] /\ clients[k].kill \in Drivers
        BY <1>3, <1>14, <2>1, <3>2, <4>1, RowTypes
      <4>3. remote[clients[k].kill] = clients[k].conn
        BY <2>1, <3>2, <4>2 DEF IInv, LinkInv, KillFlagAgrees, Rows
      <4>4. clients[k].kill # "inhibitor"
        BY <1>20, <2>1, <4>2, <4>3
      <4> QED
        BY <1>20, <4>2, <4>3, <4>4
    <3> QED
      BY <1>16, <3>1, <3>2
  <2>2. \A x \in Drivers : remote'[x] # NoConn => (kill_flag'[x] <=> remote'[x] \notin links')
    <3> SUFFICES ASSUME NEW x \in Drivers, remote'[x] # NoConn
                 PROVE  kill_flag'[x] <=> remote'[x] \notin links'
      OBVIOUS
    <3>1. CASE x # "inhibitor"
      <4>1. remote'[x] = remote[x] /\ kill_flag'[x] = kill_flag[x] /\ remote[x] # c
        BY <1>5, <1>20, <3>1
      <4>2. kill_flag[x] <=> remote[x] \notin links
        BY <4>1 DEF IInv, LinkInv, KillFlagAgrees
      <4>3. remote[x] \in links <=> remote[x] \in links'
        BY <1>1, <4>1
      <4> QED
        BY <4>1, <4>2, <4>3
    <3>2. CASE x = "inhibitor"
      BY <1>1, <1>20, <3>2
    <3> QED
      BY <3>1, <3>2
  <2>3. KillFlagAgrees'
    BY <2>1, <2>2 DEF KillFlagAgrees, Rows
  <2>4. ASSUME NEW x \in Drivers, remote'[x] \in links'
        PROVE  \E k \in Rows' : clients'[k].conn = remote'[x] /\ clients'[k].kill = x
    <3>1. CASE x # "inhibitor"
      <4>1. remote'[x] = remote[x] /\ remote[x] \in links
        BY <1>1, <1>5, <1>20, <2>4, <3>1
      <4>2. PICK k \in Rows : clients[k].conn = remote[x] /\ clients[k].kill = x
        BY <4>1 DEF IInv, LinkInv
      <4>3. k # i
        BY <1>2, <4>2 DEF Drivers
      <4> QED
        BY <1>14, <1>16, <4>1, <4>2, <4>3
    <3>2. CASE x = "inhibitor"
      BY <1>14, <1>16, <1>20, <3>2
    <3> QED
      BY <3>1, <3>2
  <2>5. count' = 0 <=> remote'["inhibitor"] = NoConn
    BY <1>1, <1>5, <1>20
  <2> QED
    BY <1>4, <1>20, <2>3, <2>4, <2>5 DEF IInv, LinkInv
<1>26. InhibitorInv'
  <2>1. \A k \in Rows' : clients'[k].subs > 0 => k = i
    BY <1>6, <1>14, <1>16
  <2>2. \A k \in Rows' : Busy(k)' => k = i
    <3> SUFFICES ASSUME NEW k \in Rows', k # i, Busy(k)' PROVE FALSE
      OBVIOUS
    <3>1. CASE k = n
      BY <1>4, <1>5, <1>14, <3>1 DEF Busy
    <3>2. CASE k \in Rows
      <4>1. Busy(k)
        BY <1>4, <1>14, <3>2 DEF Busy, Open
      <4> QED
        BY <1>2, <3>2, <4>1
    <3> QED
      BY <1>16, <3>1, <3>2
  <2>3. \A l \in Rows' : clients'[l].kill = "inhibitor" => i < l
    <3> SUFFICES ASSUME NEW l \in Rows, clients'[l].kill = "inhibitor" PROVE FALSE
      BY <1>13, <1>16
    <3>1. l # i
      BY <1>14
    <3>2. clients[l].kill = "inhibitor" /\ Open(l)
      BY <1>2, <1>14, <3>1
    <3> QED
      BY <1>20, <3>2 DEF IInv, LinkInv, KillFlagAgrees, Open, Rows
  <2>4. i \in Rows' /\ clients'[i].subs = 1
    BY <1>2, <1>14, <1>16
  <2> QED
    BY <1>1, <2>1, <2>2, <2>3, <2>4 DEF InhibitorInv
<1> QED
  BY <1>16, <1>21, <1>22, <1>23, <1>24, <1>25, <1>26 DEF IInv

-----------------------------------------------------------------------------
(***************************************************************************)
(* DeleteClients.                                                          *)
(***************************************************************************)

(* What Close leaves of an entry. *)
LEMMA EntryClosed ==
  ASSUME NEW e \in Entry
  PROVE  LET new == [e EXCEPT !.conn = NoConn, !.subs = 0, !.out = 0] IN
         /\ new \in Entry /\ new.conn = NoConn /\ new.subs = 0 /\ new.out = 0
         /\ new.kill = e.kill /\ new.del = e.del
<1> DEFINE f == [conn |-> NoConn, del |-> e.del, kill |-> e.kill, subs |-> e.subs, out |-> e.out]
           g == [conn |-> NoConn, del |-> e.del, kill |-> e.kill, subs |-> 0, out |-> e.out]
           h == [conn |-> NoConn, del |-> e.del, kill |-> e.kill, subs |-> 0, out |-> 0]
<1>1. [e EXCEPT !.conn = NoConn] = f
  BY DEF Entry
<1>2. [f EXCEPT !.subs = 0] = g
  OBVIOUS
<1>3. [g EXCEPT !.out = 0] = h
  OBVIOUS
<1>4. 0 \in 0..MaxSubs /\ 0 \in 0..1
  BY ConstantsAssumption
<1>5. /\ h \in Entry /\ h.conn = NoConn /\ h.subs = 0 /\ h.out = 0
      /\ h.kill = e.kill /\ h.del = e.del
  BY <1>4 DEF Entry
<1> HIDE DEF f, g, h
<1> QED
  BY <1>1, <1>2, <1>3, <1>5

(* Close.  When the client it closes was the inhibitor's, the inhibitor's  *)
(* connection is marked too: it is further on in the table, so that the    *)
(* loop has not passed it yet.                                             *)
LEMMA CloseInductive ==
  ASSUME IInv, Close
  PROVE  IInv'
<1> DEFINE k == Min(Doomed)
           c == clients[k].conn
           n == clients[k].subs
           cs == Unsubscribed(n)
           new == [clients[k] EXCEPT !.conn = NoConn, !.subs = 0, !.out = 0]
<1>1. /\ at = "delete" /\ at' = "delete" /\ Doomed # {}
      /\ clients' = [cs EXCEPT ![k].conn = NoConn, ![k].subs = 0, ![k].out = 0]
      /\ InhibitorLeaves(n)
      /\ kill_flag' = [d \in Drivers |-> kill_flag[d] \/ cs[k].kill = d]
      /\ users' = users \ {c} /\ links' = links \ {c} /\ hup' = hup \ {c}
      /\ inbox' = [inbox EXCEPT ![c] = "none"]
      /\ owed' = [owed EXCEPT ![c] = 0]
      /\ num_deleted' = num_deleted + 1 /\ i' = k + 1
      /\ UNCHANGED <<reader, reading, num_clients, made, tpc>>
  BY DEF Close
<1>2. /\ TypeOK /\ Rows \subseteq DOMAIN clients /\ clients \in Seq(Entry)
      /\ num_clients \in Nat /\ i \in Nat /\ i >= 1
      /\ MaxSubs \in Nat /\ count \in Nat
  BY RowTypes, ConstantsAssumption DEF IInv, TypeOK, RowsInv
<1>3. k \in Rows /\ k \in Nat /\ k >= i /\ k <= num_clients /\ clients[k].del
      /\ \A j \in Rows : j >= i /\ clients[j].del => k <= j
  <2>1. Doomed \in SUBSET Nat
    BY <1>2 DEF Doomed
  <2>2. k \in Doomed /\ \A j \in Doomed : k <= j
    BY <1>1, <2>1, MinIsLeast
  <2> HIDE DEF k
  <2> QED
    BY <1>2, <2>2 DEF Doomed, Rows
<1> HIDE DEF k
<1>4. /\ Open(k) /\ c \in Conns /\ c # NoConn /\ c \in users \cup links
      /\ \A j \in Rows : clients[j].conn = c => j = k
      /\ clients[k] \in Entry /\ n \in 0..MaxSubs /\ n \in Nat
  <2>1. Open(k)
    BY <1>2, <1>3 DEF IInv, RowsInv
  <2>2. c \in Conns /\ c # NoConn /\ c \in users \cup links
    BY <1>2, <1>3, <2>1, RowTypes DEF IInv, RowsInv, Open
  <2>3. \A j \in Rows : clients[j].conn = c => j = k
    BY <1>3, <2>2, OneRowEach
  <2> QED
    BY <1>2, <1>3, <2>1, <2>2, <2>3, RowTypes
<1>5. /\ n > 0 => count = n /\ Busy(k)
      /\ n > 0 => c \in users /\ clients[k].kill = "none"
      /\ \A l \in Rows : n > 0 /\ clients[l].kill = "inhibitor" => k < l
      /\ LastOf(n) <=> n > 0
  BY <1>3 DEF IInv, InhibitorInv, RequestInv, Busy, LastOf
<1>6. count' = (IF n > 0 THEN 0 ELSE count) /\ count' \in Nat
  BY <1>1, <1>2, <1>4, <1>5 DEF InhibitorLeaves
<1>7. /\ cs \in Seq(Entry) /\ DOMAIN cs = DOMAIN clients /\ Len(cs) = Len(clients)
      /\ \A j \in DOMAIN clients :
              /\ cs[j].conn = clients[j].conn /\ cs[j].subs = clients[j].subs
              /\ cs[j].out = clients[j].out
              /\ j \notin Rows => cs[j] = clients[j]
      /\ ~LastOf(n) => cs = clients
      /\ \A j \in Rows : cs[j] # clients[j] =>
              /\ clients[j].kill = "inhibitor" /\ clients[j].conn = remote["inhibitor"]
              /\ clients[j].conn \in links /\ cs[j].kill = "none"
      /\ LastOf(n) => \A j \in Rows : Open(j) => cs[j].kill # "inhibitor"
  BY <1>4, UnsubscribedEffect
<1>8. /\ remote' \in [Drivers -> Conns \cup {NoConn}]
      /\ remote'["threaded"] = remote["threaded"]
      /\ remote'["inhibitor"] = IF LastOf(n) THEN NoConn ELSE remote["inhibitor"]
      /\ \A d \in Drivers : /\ d # "inhibitor" => remote'[d] = remote[d]
                            /\ remote'[d] \in {remote[d], NoConn}
  BY <1>1, <1>4, LeavesEffect
<1> HIDE DEF cs
<1>9. cs[k] = clients[k]
  BY <1>2, <1>3, <1>5, <1>7
<1>10. clients' = [cs EXCEPT ![k] = new]
  BY <1>1, <1>2, <1>3, <1>7, <1>9
<1>11. /\ new \in Entry /\ new.conn = NoConn /\ new.subs = 0 /\ new.out = 0
       /\ new.kill = clients[k].kill /\ new.del = clients[k].del
  BY <1>4, EntryClosed
<1> HIDE DEF new
<1>12. /\ clients' \in Seq(Entry)
       /\ DOMAIN clients' = DOMAIN clients /\ Len(clients') = Len(clients)
       /\ \A j \in DOMAIN clients : clients'[j] = IF j = k THEN new ELSE cs[j]
  BY <1>2, <1>3, <1>7, <1>10, <1>11, RowChanged
<1>13. /\ \A j \in Rows : j # k => /\ clients'[j].conn = clients[j].conn
                                   /\ clients'[j].subs = clients[j].subs
                                   /\ clients'[j].out = clients[j].out
       /\ clients'[k].conn = NoConn /\ clients'[k].subs = 0 /\ clients'[k].out = 0
       /\ clients'[k].kill = clients[k].kill /\ clients'[k].del
       /\ \A j \in DOMAIN clients : j \notin Rows => clients'[j] = clients[j]
  BY <1>2, <1>3, <1>7, <1>11, <1>12
<1>14. \A j \in Rows : j # k =>
         \/ clients'[j] = clients[j]
         \/ /\ clients[j].kill = "inhibitor" /\ clients'[j].kill = "none" /\ LastOf(n) /\ k < j
  BY <1>2, <1>3, <1>5, <1>7, <1>12
<1>15. /\ Rows' = Rows /\ c = clients[k].conn /\ n = clients[k].subs
  BY <1>1 DEF Rows
<1> HIDE DEF c, n
<1>16. TypeOK'
  <2>1. /\ users' \subseteq Conns /\ links' \subseteq Conns /\ hup' \subseteq users' \cup links'
    BY <1>1, <1>2 DEF TypeOK
  <2>2. inbox' \in [Conns -> Requests \cup {"none"}] /\ owed' \in [Conns -> 0..1]
    BY <1>1, <1>2, <1>4 DEF TypeOK
  <2>3. kill_flag' \in [Drivers -> BOOLEAN]
    BY <1>1
  <2>4. num_deleted' \in Nat /\ i' \in Nat
    BY SMTT(30), <1>1, <1>2, <1>3 DEF TypeOK
  <2> QED
    BY <1>1, <1>2, <1>6, <1>8, <1>12, <2>1, <2>2, <2>3, <2>4 DEF TypeOK, reader, Places
<1>17. /\ \A x \in Conns : x # c => inbox'[x] = inbox[x] /\ owed'[x] = owed[x]
       /\ inbox'[c] = "none" /\ owed'[c] = 0
  BY <1>1, <1>2, <1>4 DEF TypeOK
<1>18. \A j \in Rows : /\ j # k => clients[j].conn # c
                       /\ Open(j)' <=> (Open(j) /\ j # k)
  BY <1>4, <1>13 DEF Open
<1>19. RowsInv'
  <2>1. \A j \in DOMAIN clients' : j > num_clients' => clients'[j] = Blank
    BY <1>1, <1>2, <1>12, <1>13 DEF IInv, RowsInv, Rows
  <2>2. \A j, l \in Rows : Open(j)' /\ clients'[j].conn = clients'[l].conn => j = l
    BY <1>13, <1>18 DEF IInv, RowsInv, Open
  <2>3. \A j \in Rows : Open(j)' => clients'[j].conn \in users' \cup links'
    <3> SUFFICES ASSUME NEW j \in Rows, Open(j)' PROVE clients'[j].conn \in users' \cup links'
      OBVIOUS
    <3>1. Open(j) /\ j # k /\ clients[j].conn # c /\ clients'[j].conn = clients[j].conn
      BY <1>13, <1>18
    <3>2. clients[j].conn \in users \cup links
      BY <3>1 DEF IInv, RowsInv
    <3> QED
      BY <1>1, <3>1, <3>2
  <2>4. \A x \in users' \cup links' : \E j \in Rows : clients'[j].conn = x
    <3> SUFFICES ASSUME NEW x \in users' \cup links'
                 PROVE  \E j \in Rows : clients'[j].conn = x
      OBVIOUS
    <3>1. x \in users \cup links /\ x # c
      BY <1>1
    <3>2. PICK j \in Rows : clients[j].conn = x
      BY <3>1 DEF IInv, RowsInv
    <3> QED
      BY <1>13, <1>15, <3>1, <3>2
  <2>5. \A j \in Rows : Open(j)' <=> ~(at' = "delete" /\ j < i' /\ clients'[j].del)
    <3> SUFFICES ASSUME NEW j \in Rows PROVE Open(j)' <=> ~(j < k + 1 /\ clients'[j].del)
      BY <1>1
    <3>1. j \in Nat
      BY <1>2 DEF Rows
    <3>2. CASE j = k
      BY <1>3, <1>13, <1>18, <3>2
    <3>3. CASE j < k
      <4>1. clients'[j] = clients[j]
        BY <1>3, <1>14, <3>1, <3>3
      <4>2. Open(j) <=> ~(j < i /\ clients[j].del)
        BY <1>1 DEF IInv, RowsInv
      <4>3. j >= i => ~clients[j].del
        BY <1>3, <3>1, <3>3
      <4> QED
        BY <1>2, <1>3, <1>18, <3>1, <3>3, <4>1, <4>2, <4>3
    <3>4. CASE j > k
      <4>1. Open(j)
        BY <1>2, <1>3, <3>1, <3>4 DEF IInv, RowsInv
      <4> QED
        BY <1>3, <1>18, <3>1, <3>4, <4>1
    <3> QED
      BY <1>3, <3>1, <3>2, <3>3, <3>4
  <2>6. num_deleted' = Cardinality(Closed')
    <3>1. Closed' = Closed \cup {k} /\ k \notin Closed
      BY <1>3, <1>4, <1>15, <1>18 DEF Closed
    <3>2. IsFiniteSet(Rows)
      BY <1>2, FS_Interval DEF Rows
    <3>3. Closed \in SUBSET Rows
      BY DEF Closed
    <3>4. IsFiniteSet(Closed)
      BY <3>2, <3>3, FS_Subset
    <3>5. Cardinality(Closed \cup {k}) = Cardinality(Closed) + 1
      BY <3>1, <3>4, FS_AddElement
    <3> QED
      BY <1>1, <3>1, <3>5 DEF IInv, RowsInv
  <2>7. i' >= 1 /\ i' <= num_clients' + 1
    BY <1>1, <1>2, <1>3
  <2> QED
    BY <1>15, <2>1, <2>2, <2>3, <2>4, <2>5, <2>6, <2>7 DEF RowsInv
<1>20. NoConn \notin users \cup links /\ made \in Nat
  BY <1>2 DEF TypeOK, NoConn, Conns
<1>21. NetInv'
  <2>1. \A d \in Drivers : remote'[d] \in 0..made' /\ remote'[d] \notin users'
    BY <1>1, <1>8, <1>20 DEF IInv, NetInv, NoConn
  <2>2. \A x \in Conns \ users' : inbox'[x] = "none" /\ owed'[x] = 0
    BY <1>1, <1>17 DEF IInv, NetInv
  <2> QED
    BY <1>1, <2>1, <2>2 DEF IInv, NetInv
<1>22. ReadInv' /\ readbuffer = "none" /\ readbuffer' = "none"
  BY <1>1 DEF IInv, ReadInv, reader
<1>23. RequestInv'
  <2>1. \A j \in Rows : ~Parsing(j) /\ ~Parsing(j)'
    BY <1>22 DEF Parsing
  <2>2. \A j \in Rows, m \in {"open", "close"} :
          Asks(j, m)' => inbox'[clients'[j].conn] = m
    BY <1>22 DEF Asks
  <2>3. ASSUME NEW j \in Rows
        PROVE  /\ clients'[j].conn \in users' =>
                    /\ owed'[clients'[j].conn] = clients'[j].out
                         + (IF inbox'[clients'[j].conn] # "none" THEN 1 ELSE 0)
                         + (IF Parsing(j)' THEN 1 ELSE 0)
                    /\ Asks(j, "open")' => clients'[j].subs < MaxSubs
                    /\ Asks(j, "close")' => clients'[j].subs > 0
                    /\ clients'[j].kill = "none"
               /\ clients'[j].conn \notin users' =>
                    clients'[j].subs = 0 /\ clients'[j].out = 0 /\ ~Parsing(j)'
    <3>1. CASE j = k
      BY <1>1, <1>13, <1>20, <2>1, <3>1
    <3>2. CASE j # k
      <4>1. /\ clients'[j].conn = clients[j].conn /\ clients'[j].subs = clients[j].subs
            /\ clients'[j].out = clients[j].out /\ clients[j].conn # c
            /\ clients[j].kill = "none" => clients'[j].kill = "none"
        BY <1>13, <1>14, <1>18, <3>2
      <4>2. clients[j].conn \in users <=> clients'[j].conn \in users'
        BY <1>1, <4>1
      <4>3. clients[j].conn \in users => clients[j].conn \in Conns
        BY <1>2 DEF TypeOK
      <4>4. \A m : inbox[clients[j].conn] = m => Asks(j, m)
        BY DEF Asks
      <4> QED
        BY <1>17, <2>1, <2>2, <4>1, <4>2, <4>3, <4>4 DEF IInv, RequestInv
    <3> QED
      BY <3>1, <3>2
  <2> QED
    BY <1>15, <2>3 DEF RequestInv
<1>24. LinkInv'
  <2>1. ASSUME NEW j \in Rows, clients'[j].conn # NoConn, clients'[j].kill # "none"
        PROVE  remote'[clients'[j].kill] = clients'[j].conn
    <3>1. j # k /\ Open(j) /\ clients'[j].conn = clients[j].conn
      BY <1>13, <2>1 DEF Open
    <3>2. clients'[j] = clients[j] /\ clients[j].kill \in Drivers
      BY <1>2, <1>14, <2>1, <3>1, RowTypes
    <3>3. remote[clients[j].kill] = clients[j].conn
      BY <2>1, <3>1, <3>2 DEF IInv, LinkInv, KillFlagAgrees, Rows
    <3>4. LastOf(n) => clients[j].kill # "inhibitor"
      BY <1>2, <1>7, <1>12, <3>1, <3>2
    <3> QED
      BY <1>8, <3>2, <3>3, <3>4
  <2>2. ASSUME NEW d \in Drivers, remote'[d] # NoConn
        PROVE  kill_flag'[d] <=> remote'[d] \notin links'
    <3>1. /\ remote'[d] = remote[d] /\ (kill_flag'[d] <=> kill_flag[d] \/ clients[k].kill = d)
      BY <1>1, <1>8, <1>9, <2>2
    <3>2. kill_flag[d] <=> remote[d] \notin links
      BY <2>2, <3>1 DEF IInv, LinkInv, KillFlagAgrees
    <3>3. CASE clients[k].kill = d
      <4>1. remote[d] = c
        BY <1>3, <1>4, <1>15, <3>3 DEF IInv, LinkInv, KillFlagAgrees, Rows, Drivers
      <4> QED
        BY <1>1, <3>1, <3>3, <4>1
    <3>4. CASE clients[k].kill # d
      <4>1. remote[d] \in links => remote[d] # c
        <5> SUFFICES ASSUME remote[d] \in links, remote[d] = c PROVE FALSE
          OBVIOUS
        <5>1. PICK j \in Rows : clients[j].conn = remote[d] /\ clients[j].kill = d
          BY DEF IInv, LinkInv
        <5> QED
          BY <1>4, <3>4, <5>1
      <4> QED
        BY <1>1, <3>1, <3>2, <3>4, <4>1
    <3> QED
      BY <3>3, <3>4
  <2>3. KillFlagAgrees'
    BY <1>15, <2>1, <2>2 DEF KillFlagAgrees, Rows
  <2>4. ASSUME NEW d \in Drivers, remote'[d] \in links'
        PROVE  \E j \in Rows : clients'[j].conn = remote'[d] /\ clients'[j].kill = d
    <3>1. remote'[d] = remote[d] /\ remote[d] \in links /\ remote[d] # c
          /\ (d = "inhibitor" => ~LastOf(n))
      BY <1>1, <1>8, <1>20, <2>4
    <3>2. PICK j \in Rows : clients[j].conn = remote[d] /\ clients[j].kill = d
      BY <3>1 DEF IInv, LinkInv
    <3>3. j # k /\ clients'[j].kill = d
      BY <1>14, <1>15, <3>1, <3>2
    <3> QED
      BY <1>13, <3>1, <3>2, <3>3
  <2>5. count' = 0 <=> remote'["inhibitor"] = NoConn
    BY <1>5, <1>6, <1>8 DEF IInv, LinkInv
  <2>6. tpc' = "out" <=> remote'["threaded"] = NoConn
    BY <1>1, <1>8 DEF IInv, LinkInv
  <2> QED
    BY <1>15, <2>3, <2>4, <2>5, <2>6 DEF LinkInv
<1>25. InhibitorInv'
  <2>1. \A j \in Rows : clients'[j].subs > 0 => j # k /\ clients[j].subs = clients'[j].subs
    BY <1>13
  <2>2. \A j \in Rows : clients'[j].subs > 0 => n = 0
    <3> SUFFICES ASSUME NEW j \in Rows, clients'[j].subs > 0, n > 0 PROVE FALSE
      BY <1>4
    <3>1. Busy(j) /\ Busy(k) /\ j # k
      BY <1>5, <2>1 DEF Busy
    <3> QED
      BY <1>3, <3>1 DEF IInv, InhibitorInv
  <2>3. \A j \in Rows : Busy(j)' => Busy(j)
    <3> SUFFICES ASSUME NEW j \in Rows, Busy(j)' PROVE Busy(j)
      OBVIOUS
    <3>1. j # k
      BY <1>13 DEF Busy, Open
    <3>2. /\ clients'[j].conn = clients[j].conn /\ clients'[j].subs = clients[j].subs
          /\ clients[j].conn # c /\ clients[j].conn \in Conns \cup {NoConn}
      BY <1>2, <1>13, <1>18, <3>1, RowTypes
    <3> QED
      BY <1>17, <3>2 DEF Busy, Open
  <2>4. \A j, l \in Rows : Busy(j)' /\ Busy(l)' => j = l
    BY <2>3 DEF IInv, InhibitorInv
  <2>5. \A j \in Rows : clients'[j].subs > 0 => count' = clients'[j].subs
    BY <1>6, <2>1, <2>2 DEF IInv, InhibitorInv
  <2>6. count' > 0 => \E j \in Rows : clients'[j].subs > 0
    <3> SUFFICES ASSUME count' > 0 PROVE \E j \in Rows : clients'[j].subs > 0
      OBVIOUS
    <3>1. ~(n > 0) /\ count > 0
      BY <1>6
    <3>2. PICK j \in Rows : clients[j].subs > 0
      BY <3>1 DEF IInv, InhibitorInv
    <3> QED
      BY <1>13, <1>15, <3>1, <3>2
  <2>7. \A l \in Rows : clients'[l].kill = "inhibitor" => clients[l].kill = "inhibitor"
    BY <1>13, <1>14
  <2>8. \A j, l \in Rows : clients'[j].subs > 0 /\ clients'[l].kill = "inhibitor" => j < l
    BY <2>1, <2>7 DEF IInv, InhibitorInv
  <2> QED
    BY <1>15, <2>4, <2>5, <2>6, <2>8 DEF InhibitorInv
<1> QED
  BY <1>16, <1>19, <1>21, <1>22, <1>23, <1>24, <1>25 DEF IInv

(* When the loop has come to the end, the rows that are marked are those   *)
(* it has closed; so the number of rows that are left is right, and the    *)
(* rows move up in their order.                                            *)
LEMMA CompactedEffect ==
  ASSUME IInv, at = "delete", Doomed = {}
  PROVE  LET n == num_clients - num_deleted
             t == Compacted(n)
         IN  /\ n \in Nat /\ n <= num_clients
             /\ t \in Seq(Entry) /\ DOMAIN t = DOMAIN clients /\ Len(t) = Len(clients)
             /\ \A k \in DOMAIN t : k > n => t[k] = Blank
             /\ \E f \in [1..n -> Rows] :
                  /\ \A k \in 1..n : Open(f[k]) /\ t[k] = clients[f[k]]
                  /\ \A k, l \in 1..n : k < l => f[k] < f[l]
                  /\ \A j \in Rows : Open(j) => \E k \in 1..n : f[k] = j
<1> DEFINE n == num_clients - num_deleted
           t == Compacted(n)
           N == Len(clients)
           f == [k \in 1..n |-> CHOOSE j \in Kept : Rank(j) = k]
<1>1. /\ TypeOK /\ num_clients \in Nat /\ num_clients <= N /\ N \in Nat
      /\ DOMAIN clients = 1..N /\ Rows \subseteq DOMAIN clients /\ i \in Nat
      /\ \A k \in DOMAIN clients : clients[k] \in Entry
      /\ num_deleted \in Nat
  BY RowTypes DEF IInv, TypeOK
<1>2. \A k \in Rows : Open(k) <=> ~clients[k].del
  <2> SUFFICES ASSUME NEW k \in Rows PROVE Open(k) <=> ~clients[k].del
    OBVIOUS
  <2>1. Open(k) <=> ~(k < i /\ clients[k].del)
    BY DEF IInv, RowsInv
  <2>2. clients[k].del => k < i
    BY <1>1 DEF Doomed, Rows
  <2> QED
    BY <2>1, <2>2
<1>3. /\ Kept \in SUBSET (1..N)
      /\ \A k \in Rows : k \in Kept <=> Open(k)
      /\ \A k \in DOMAIN clients : k > num_clients => k \in Kept
  <2>1. \A k \in DOMAIN clients : k > num_clients => clients[k] = Blank
    BY DEF IInv, RowsInv
  <2>2. ~Blank.del
    BY DEF Blank
  <2> QED
    BY <1>1, <1>2, <2>1, <2>2 DEF Kept
<1>4. /\ IsFiniteSet(Kept) /\ Cardinality(Kept) \in Nat
      /\ \A j \in Int : Rank(j) \in Nat /\ Rank(j) <= Cardinality(Kept)
      /\ \A j, l \in Int : j <= l => Rank(j) <= Rank(l)
      /\ \A j \in Int, l \in Kept : j < l => Rank(j) < Rank(l)
  BY <1>1, <1>3, RankIncreases DEF Rank
<1>5. \A r \in 1..Cardinality(Kept) : \E j \in Kept : Rank(j) = r
  BY <1>1, <1>3, RankIsTaken DEF Rank
<1>6. Rank(num_clients) = n /\ n \in Nat /\ n <= num_clients
  <2>1. {j \in Kept : j <= num_clients} = Rows \ Closed
    <3>1. \A j \in 1..N : j <= num_clients <=> j \in Rows
      BY <1>1 DEF Rows
    <3>2. \A j \in Rows : j \in 1..N
      BY <1>1
    <3> QED
      BY <1>3, <3>1, <3>2 DEF Closed
  <2>2. IsFiniteSet(Rows) /\ Cardinality(Rows) = num_clients
    BY <1>1, FS_Interval DEF Rows
  <2>3. Closed \in SUBSET Rows
    BY DEF Closed
  <2>4. IsFiniteSet(Closed)
    BY <2>2, <2>3, FS_Subset
  <2>5. Rows \cap Closed = Closed
    BY <2>3
  <2>6. Cardinality(Rows \ Closed) = Cardinality(Rows) - Cardinality(Rows \cap Closed)
    BY <2>2, FS_Difference
  <2>7. num_deleted = Cardinality(Closed)
    BY DEF IInv, RowsInv
  <2>8. Rank(num_clients) = n
    BY <2>1, <2>2, <2>5, <2>6, <2>7 DEF Rank
  <2>9. Rank(num_clients) \in Nat
    BY <1>1, <1>4
  <2> QED
    BY <1>1, <2>8, <2>9
<1> HIDE DEF n
<1>7. \A j \in Kept : j \in Int /\ (j \in Rows <=> Rank(j) <= n) /\ Rank(j) >= 1
  <2> SUFFICES ASSUME NEW j \in Kept
               PROVE  j \in Int /\ (j \in Rows <=> Rank(j) <= n) /\ Rank(j) >= 1
    OBVIOUS
  <2>1. j \in Int /\ j >= 1 /\ j <= N /\ (j \in Rows <=> j <= num_clients)
    BY <1>1, <1>3 DEF Rows
  <2>2. j <= num_clients => Rank(j) <= n
    BY <1>1, <1>4, <1>6, <2>1
  <2>3. num_clients < j => n < Rank(j)
    BY <1>1, <1>4, <1>6, <2>1
  <2>4. Rank(0) < Rank(j) /\ Rank(0) \in Nat /\ Rank(j) \in Nat
    BY <1>4, <2>1
  <2> QED
    BY <1>1, <1>6, <2>1, <2>2, <2>3, <2>4
<1>8. \A j, l \in Kept : Rank(j) = Rank(l) => j = l
  <2>1. \A j, l \in Kept : j \in Int /\ l \in Int /\ Rank(j) \in Nat /\ Rank(l) \in Nat
    BY <1>4, <1>7
  <2> QED
    BY <1>4, <2>1
<1>9. n <= Cardinality(Kept)
  BY <1>1, <1>4, <1>6
<1>10. ASSUME NEW k \in 1..n
       PROVE  f[k] \in Kept /\ Rank(f[k]) = k /\ f[k] \in Rows /\ Open(f[k])
  <2>1. k \in 1..Cardinality(Kept)
    BY <1>4, <1>6, <1>9
  <2>2. \E j \in Kept : Rank(j) = k
    BY <1>5, <2>1
  <2>3. f[k] \in Kept /\ Rank(f[k]) = k
    BY <2>2
  <2> HIDE DEF f
  <2>4. k <= n
    BY <1>6
  <2>5. f[k] \in Rows
    BY <1>7, <2>3, <2>4
  <2> QED
    BY <1>3, <2>3, <2>5
<1>11. t = [k \in DOMAIN clients |-> t[k]]
  BY DEF Compacted
<1>12. \A k \in DOMAIN clients : k > n => t[k] = Blank
  BY DEF Compacted
<1>13. \A k \in DOMAIN clients : k <= n => t[k] = clients[f[k]]
  <2> SUFFICES ASSUME NEW k \in DOMAIN clients, k <= n PROVE t[k] = clients[f[k]]
    OBVIOUS
  <2>0. k \in Int /\ k >= 1
    BY <1>1
  <2>1. k \in 1..n /\ ~(k > n) /\ ~(k > Cardinality(Kept))
    BY <1>4, <1>6, <1>9, <2>0
  <2>2. f[k] = CHOOSE j \in Kept : Rank(j) = k
    BY <2>1
  <2> HIDE DEF f
  <2> QED
    BY <2>1, <2>2 DEF Compacted
<1> HIDE DEF t
<1>14. f \in [1..n -> Rows]
  BY <1>10
<1>15. \A k \in 1..n : Open(f[k]) /\ t[k] = clients[f[k]]
  <2>1. \A k \in 1..n : k \in DOMAIN clients /\ k <= n
    BY <1>1, <1>6
  <2> QED
    BY <1>10, <1>13, <2>1
<1>16. \A k, l \in 1..n : k < l => f[k] < f[l]
  <2> SUFFICES ASSUME NEW k \in 1..n, NEW l \in 1..n, k < l PROVE f[k] < f[l]
    OBVIOUS
  <2>1. Rank(f[k]) = k /\ Rank(f[l]) = l /\ f[k] \in Kept /\ f[l] \in Kept
    BY <1>10
  <2> HIDE DEF f
  <2>2. f[k] \in Int /\ f[l] \in Int
    BY <1>7, <2>1
  <2>3. f[l] <= f[k] => Rank(f[l]) <= Rank(f[k])
    BY <1>4, <2>2
  <2> QED
    BY <1>6, <2>1, <2>2, <2>3
<1>17. \A j \in Rows : Open(j) => \E k \in 1..n : f[k] = j
  <2> SUFFICES ASSUME NEW j \in Rows, Open(j) PROVE \E k \in 1..n : f[k] = j
    OBVIOUS
  <2>1. j \in Kept /\ Rank(j) <= n /\ Rank(j) >= 1 /\ Rank(j) \in Nat
    BY <1>3, <1>4, <1>7
  <2>2. Rank(j) \in 1..n
    BY <1>6, <2>1
  <2>3. f[Rank(j)] \in Kept /\ Rank(f[Rank(j)]) = Rank(j)
    BY <1>10, <2>2
  <2> HIDE DEF f
  <2>4. f[Rank(j)] = j
    BY <1>8, <2>1, <2>3
  <2> QED
    BY <2>2, <2>4
<1> HIDE DEF f
<1>18. \A k \in DOMAIN clients : t[k] \in Entry
  <2> SUFFICES ASSUME NEW k \in DOMAIN clients PROVE t[k] \in Entry
    OBVIOUS
  <2>1. CASE k > n
    <3>1. 0 \in 0..MaxSubs /\ 0 \in 0..1
      BY ConstantsAssumption
    <3>2. Blank \in Entry
      BY <3>1 DEF Blank, Entry
    <3> QED
      BY <1>12, <2>1, <3>2
  <2>2. CASE ~(k > n)
    <3>1. k \in 1..n
      BY <1>1, <1>6, <2>2
    <3>2. f[k] \in Rows /\ t[k] = clients[f[k]]
      BY <1>14, <1>15, <3>1
    <3> QED
      BY <1>1, <3>2
  <2> QED
    BY <2>1, <2>2
<1>19. t \in Seq(Entry) /\ DOMAIN t = DOMAIN clients /\ Len(t) = Len(clients)
  BY <1>1, <1>11, <1>18, TableOf
<1> QED
  BY <1>6, <1>12, <1>14, <1>15, <1>16, <1>17, <1>19 DEF n, t

(* The end of DeleteClients. *)
LEMMA DeleteEndInductive ==
  ASSUME IInv, DeleteEnd
  PROVE  IInv'
<1> DEFINE n == num_clients - num_deleted
<1>1. /\ at = "delete" /\ Doomed = {} /\ num_clients' = n /\ clients' = Compacted(n)
      /\ at' \in {"write", "wait"} /\ i' = 1 /\ num_deleted' = 0
      /\ UNCHANGED <<reader, reading, net, driver>>
  BY DEF DeleteEnd
<1>2. /\ n \in Nat /\ n <= num_clients
      /\ clients' \in Seq(Entry) /\ DOMAIN clients' = DOMAIN clients
      /\ Len(clients') = Len(clients)
      /\ \A k \in DOMAIN clients' : k > n => clients'[k] = Blank
      /\ \E f \in [1..n -> Rows] :
           /\ \A k \in 1..n : Open(f[k]) /\ clients'[k] = clients[f[k]]
           /\ \A k, l \in 1..n : k < l => f[k] < f[l]
           /\ \A j \in Rows : Open(j) => \E k \in 1..n : f[k] = j
  BY <1>1, CompactedEffect
<1>3. PICK f \in [1..n -> Rows] :
           /\ \A k \in 1..n : Open(f[k]) /\ clients'[k] = clients[f[k]]
           /\ \A k, l \in 1..n : k < l => f[k] < f[l]
           /\ \A j \in Rows : Open(j) => \E k \in 1..n : f[k] = j
  BY <1>2
<1>4. Rows' = 1..n /\ \A k \in Rows' : f[k] \in Rows /\ Open(f[k]) /\ clients'[k] = clients[f[k]]
  BY <1>1, <1>3 DEF Rows
<1>5. /\ TypeOK /\ num_clients \in Nat /\ num_clients <= Len(clients) /\ Len(clients) \in Nat
      /\ Rows \subseteq Nat
  BY RowTypes DEF IInv, Rows
<1>6. \A k, l \in Rows' : (f[k] < f[l] <=> k < l) /\ (f[k] = f[l] => k = l)
  <2> SUFFICES ASSUME NEW k \in 1..n, NEW l \in 1..n
               PROVE  (f[k] < f[l] <=> k < l) /\ (f[k] = f[l] => k = l)
    BY <1>4
  <2>1. f[k] \in Rows /\ f[l] \in Rows
    BY <1>3
  <2>2. f[k] \in Nat /\ f[l] \in Nat
    BY <1>5, <2>1
  <2> HIDE DEF n
  <2>3. k \in Int /\ l \in Int
    BY <1>2
  <2>4. (k < l => f[k] < f[l]) /\ (l < k => f[l] < f[k])
    BY <1>3
  <2> QED
    BY <2>2, <2>3, <2>4
<1>7. \A j \in Rows : Open(j) => \E k \in Rows' : clients'[k] = clients[j] /\ f[k] = j
  BY <1>3, <1>4
<1> HIDE DEF n
<1>8. NoConn \notin users \cup links
  BY <1>5 DEF TypeOK, NoConn, Conns
<1>9. TypeOK'
  <2>1. num_clients' \in 0..Len(clients')
    BY <1>1, <1>2, <1>5
  <2>2. at' \in Places
    BY <1>1 DEF Places
  <2> QED
    BY <1>1, <1>2, <1>5, <2>1, <2>2 DEF TypeOK, reader, net, driver
<1>10. \A k \in Rows' : Open(k)'
  BY <1>4 DEF Open
<1>11. RowsInv'
  <2>1. Closed' = {}
    BY <1>10 DEF Closed
  <2>2. num_deleted' = Cardinality(Closed')
    BY <1>1, <2>1, FS_EmptySet
  <2>3. \A k, l \in Rows' : clients'[k].conn = clients'[l].conn => k = l
    <3> SUFFICES ASSUME NEW k \in Rows', NEW l \in Rows', clients'[k].conn = clients'[l].conn
                 PROVE  k = l
      OBVIOUS
    <3>1. f[k] = f[l]
      BY <1>4 DEF IInv, RowsInv
    <3> QED
      BY <1>6, <3>1
  <2>4. \A k \in Rows' : clients'[k].conn \in users' \cup links'
    BY <1>1, <1>4 DEF IInv, RowsInv, net
  <2>5. \A c \in users' \cup links' : \E k \in Rows' : clients'[k].conn = c
    <3> SUFFICES ASSUME NEW c \in users \cup links PROVE \E k \in Rows' : clients'[k].conn = c
      BY <1>1 DEF net
    <3>1. PICK j \in Rows : clients[j].conn = c
      BY DEF IInv, RowsInv
    <3>2. Open(j)
      BY <1>8, <3>1 DEF Open
    <3> QED
      BY <1>7, <3>1, <3>2
  <2>6. at' # "delete" /\ i' >= 1
    BY <1>1
  <2> QED
    BY <1>1, <1>2, <1>10, <2>2, <2>3, <2>4, <2>5, <2>6 DEF RowsInv
<1>12. NetInv'
  BY <1>1 DEF IInv, NetInv, net, driver
<1>13. ReadInv' /\ readbuffer = "none" /\ readbuffer' = "none"
  BY <1>1 DEF IInv, ReadInv, reader
<1>14. RequestInv'
  <2>1. \A k \in Rows' : ~Parsing(k)' /\ ~Parsing(f[k])
    BY <1>13 DEF Parsing
  <2>2. \A k \in Rows', m \in {"open", "close"} : Asks(k, m)' => Asks(f[k], m)
    BY <1>1, <1>4, <1>13 DEF Asks, net
  <2>3. ASSUME NEW k \in Rows'
        PROVE  /\ clients'[k].conn \in users' =>
                    /\ owed'[clients'[k].conn] = clients'[k].out
                         + (IF inbox'[clients'[k].conn] # "none" THEN 1 ELSE 0)
                         + (IF Parsing(k)' THEN 1 ELSE 0)
                    /\ Asks(k, "open")' => clients'[k].subs < MaxSubs
                    /\ Asks(k, "close")' => clients'[k].subs > 0
                    /\ clients'[k].kill = "none"
               /\ clients'[k].conn \notin users' =>
                    clients'[k].subs = 0 /\ clients'[k].out = 0 /\ ~Parsing(k)'
    <3>1. f[k] \in Rows /\ clients'[k] = clients[f[k]] /\ ~Parsing(f[k]) /\ ~Parsing(k)'
      BY <1>4, <2>1
    <3>2. users' = users /\ owed' = owed /\ inbox' = inbox
      BY <1>1 DEF net
    <3>3. (Asks(k, "open")' => Asks(f[k], "open")) /\ (Asks(k, "close")' => Asks(f[k], "close"))
      BY <2>2
    <3> QED
      BY <3>1, <3>2, <3>3 DEF IInv, RequestInv
  <2> QED
    BY <2>3 DEF RequestInv
<1>15. LinkInv'
  <2>1. UNCHANGED <<remote, kill_flag, links, count, tpc>>
    BY <1>1 DEF net, driver
  <2>2. \A k \in Rows' : clients'[k].conn # NoConn /\ clients'[k].kill # "none" =>
                           remote'[clients'[k].kill] = clients'[k].conn
    BY <1>4, <2>1 DEF IInv, LinkInv, KillFlagAgrees, Rows
  <2>3. KillFlagAgrees'
    BY <2>1, <2>2 DEF IInv, LinkInv, KillFlagAgrees, Rows
  <2>4. ASSUME NEW d \in Drivers, remote'[d] \in links'
        PROVE  \E k \in Rows' : clients'[k].conn = remote'[d] /\ clients'[k].kill = d
    <3>1. PICK j \in Rows : clients[j].conn = remote[d] /\ clients[j].kill = d
      BY <2>1, <2>4 DEF IInv, LinkInv
    <3>2. Open(j)
      BY <1>8, <2>1, <2>4, <3>1 DEF Open
    <3> QED
      BY <1>7, <2>1, <3>1, <3>2
  <2> QED
    BY <2>1, <2>3, <2>4 DEF IInv, LinkInv
<1>16. InhibitorInv'
  <2>1. count' = count /\ owed' = owed
    BY <1>1 DEF net, driver
  <2>2. \A k \in Rows' : Busy(k)' => Busy(f[k])
    BY <1>4, <2>1 DEF Busy, Open
  <2>3. \A k, l \in Rows' : Busy(k)' /\ Busy(l)' => k = l
    BY <1>4, <1>6, <2>2 DEF IInv, InhibitorInv
  <2>4. \A k \in Rows' : clients'[k].subs > 0 => count' = clients'[k].subs
    BY <1>4, <2>1 DEF IInv, InhibitorInv
  <2>5. count' > 0 => \E k \in Rows' : clients'[k].subs > 0
    <3> SUFFICES ASSUME count > 0 PROVE \E k \in Rows' : clients'[k].subs > 0
      BY <2>1
    <3>1. PICK j \in Rows : clients[j].subs > 0
      BY DEF IInv, InhibitorInv
    <3>2. Open(j)
      BY <1>8, <3>1 DEF Open, IInv, RequestInv
    <3> QED
      BY <1>7, <3>1, <3>2
  <2>6. \A k, l \in Rows' : clients'[k].subs > 0 /\ clients'[l].kill = "inhibitor" => k < l
    <3> SUFFICES ASSUME NEW k \in Rows', NEW l \in Rows', clients'[k].subs > 0,
                        clients'[l].kill = "inhibitor"
                 PROVE  k < l
      OBVIOUS
    <3>1. f[k] < f[l]
      BY <1>4 DEF IInv, InhibitorInv
    <3> QED
      BY <1>6, <3>1
  <2> QED
    BY <2>3, <2>4, <2>5, <2>6 DEF InhibitorInv
<1> QED
  BY <1>9, <1>11, <1>12, <1>13, <1>14, <1>15, <1>16 DEF IInv

-----------------------------------------------------------------------------
(***************************************************************************)
(* The theorems.                                                           *)
(***************************************************************************)

LEMMA InitInductive == Init => IInv
<1> SUFFICES ASSUME Init PROVE IInv
  OBVIOUS
<1>1. /\ clients \in Seq(Entry) /\ Len(clients) = 0 /\ DOMAIN clients = {} /\ num_clients = 0
      /\ revents \in Seq(Revents)
  BY DEF Init
<1>2. /\ MaxConns \in Nat /\ NoConn = 0 /\ NoConn \notin Conns
      /\ "inhibitor" \in Drivers /\ "threaded" \in Drivers
  BY ConstantsAssumption DEF NoConn, Conns, Drivers
<1>3. TypeOK
  <2>1. inbox \in [Conns -> Requests \cup {"none"}] /\ owed \in [Conns -> 0..1]
    BY DEF Init
  <2>2. remote \in [Drivers -> Conns \cup {NoConn}] /\ kill_flag \in [Drivers -> BOOLEAN]
    BY DEF Init
  <2>3. made \in 0..MaxConns
    BY <1>2 DEF Init
  <2>4. /\ num_clients \in 0..Len(clients) /\ reading \in BOOLEAN /\ at \in Places
        /\ i \in Nat /\ num_available \in Nat /\ num_deleted \in Nat /\ polled \in Nat
    <3>1. num_clients \in 0..Len(clients)
      BY <1>1
    <3>2. reading \in BOOLEAN
      BY DEF Init
    <3>3. at \in Places
      BY DEF Init, Places
    <3>4. i \in Nat /\ num_available \in Nat /\ num_deleted \in Nat /\ polled \in Nat
      BY DEF Init
    <3> QED
      BY <3>1, <3>2, <3>3, <3>4
  <2>5. /\ readbuffer \in Requests \cup {"none"} /\ count \in Nat
        /\ users \subseteq Conns /\ links \subseteq Conns /\ hup \subseteq users \cup links
        /\ tpc \in {"out", "in", "deleting"}
    BY DEF Init
  <2> QED
    BY <1>1, <2>1, <2>2, <2>3, <2>4, <2>5 DEF TypeOK
<1>4. Rows = {} /\ Closed = {}
  BY <1>1 DEF Rows, Closed
<1>5. RowsInv
  BY <1>1, <1>4, FS_EmptySet DEF Init, RowsInv
<1>6. NetInv
  BY <1>2 DEF Init, NetInv
<1>7. ReadInv /\ RequestInv
  BY <1>4 DEF Init, ReadInv, RequestInv
<1>8. LinkInv
  BY <1>1, <1>2, <1>4 DEF Init, LinkInv, KillFlagAgrees
<1>9. InhibitorInv
  BY <1>4 DEF Init, InhibitorInv
<1> QED
  BY <1>3, <1>5, <1>6, <1>7, <1>8, <1>9 DEF IInv

LEMMA NextInductive ==
  ASSUME IInv, ~Sharing, [Next]_vars
  PROVE  IInv'
<1>1. CASE UNCHANGED vars
  BY <1>1 DEF IInv, TypeOK, RowsInv, NetInv, ReadInv, RequestInv, LinkInv, KillFlagAgrees,
              InhibitorInv, Rows, Closed, Open, Parsing, Asks, Busy,
              vars, server, reader, deleter, table, net, driver
<1>2. CASE \/ WaitTimeout \/ AcceptNobody \/ ReadNothing \/ ReadPoll \/ ParseEnd
           \/ ReadEnd \/ WriteEnd
  BY <1>2, LoopInductive
<1>3. CASE AcceptClient \/ RemoteSubscribe
  BY <1>3, AddInductive
<1>4. CASE ReadFails \/ WriteFails
  BY <1>4, FailInductive
<1>5. CASE ReadClient
  BY <1>5, ReadClientInductive
<1>6. CASE OpenMore \/ OpenFails
  BY <1>6, OpenInductive
<1>7. CASE OpenFirst
  BY <1>7, OpenFirstInductive
<1>8. CASE CloseRequest
  BY <1>8, CloseRequestInductive
<1>9. CASE WriteClient
  BY <1>9, WriteInductive
<1>10. CASE Close
  BY <1>10, CloseInductive
<1>11. CASE DeleteEnd
  BY <1>11, DeleteEndInductive
<1>12. CASE RemoteKilled \/ RemoteNotKilled \/ \E c \in Conns : HangUp(c)
  BY <1>12, LookInductive
<1>13. CASE RemoteDelete
  BY <1>13, RemoteDeleteInductive
<1>14. CASE \E c \in Conns : SendOpen(c) \/ SendClose(c)
  BY <1>14, SendInductive
<1> QED
  BY <1>1, <1>2, <1>3, <1>4, <1>5, <1>6, <1>7, <1>8, <1>9, <1>10, <1>11, <1>12, <1>13, <1>14
  DEF Next, Server, Peers

(* The invariant of the table, of the loop that reads it, of the drivers   *)
(* whose connections are in it and of the clients' requests.  Sharing must *)
(* be ruled out: the run TableShared shows what happens with it.           *)
THEOREM TableInvariant ==
  ASSUME ~Sharing
  PROVE  Spec => []IInv
<1>1. Init => IInv
  BY InitInductive
<1>2. IInv /\ [Next]_vars => IInv'
  BY NextInductive
<1> QED
  BY <1>1, <1>2, PTL DEF Spec

(* Whenever no thread holds clients_mutex, num_clients and the first       *)
(* entries of clients are the open sockets, each of them once, however     *)
(* many were closed and moved by DeleteClients, and appended behind its    *)
(* back by a driver's Subscribe.                                           *)
THEOREM TableIsSound ==
  ASSUME ~Sharing
  PROVE  Spec => []TableSound
<1>1. ASSUME IInv PROVE TableSound
  <2> SUFFICES ASSUME LockFree
               PROVE  /\ {clients[k].conn : k \in 1..num_clients} = users \cup links
                      /\ num_clients = Cardinality(users \cup links)
    BY DEF TableSound
  <2>1. num_clients \in Nat /\ at # "delete"
    BY <1>1, RowTypes DEF IInv, LockFree
  <2>2. \A k \in Rows : Open(k) /\ clients[k].conn \in users \cup links
    BY <1>1, <2>1 DEF IInv, RowsInv
  <2>3. \A c \in users \cup links : \E k \in Rows : clients[k].conn = c
    BY <1>1 DEF IInv, RowsInv
  <2>4. \A k, l \in Rows : clients[k].conn = clients[l].conn => k = l
    BY <1>1, <2>2 DEF IInv, RowsInv
  <2>5. {clients[k].conn : k \in 1..num_clients} = users \cup links
    BY <2>2, <2>3 DEF Rows
  <2> DEFINE g == [k \in Rows |-> clients[k].conn]
  <2>6. g \in Bijection(Rows, users \cup links)
    <3>1. g \in [Rows -> users \cup links] /\ \A k \in Rows : g[k] = clients[k].conn
      BY <2>2
    <3> HIDE DEF g
    <3>2. \A k, l \in Rows : g[k] = g[l] => k = l
      BY <2>4, <3>1
    <3>3. \A c \in users \cup links : \E k \in Rows : g[k] = c
      BY <2>3, <3>1
    <3> QED
      BY <3>1, <3>2, <3>3 DEF Bijection, Injection, Surjection, IsInjective
  <2>7. ExistsBijection(Rows, users \cup links)
    BY <2>6 DEF ExistsBijection
  <2>8. IsFiniteSet(Rows) /\ Cardinality(Rows) = num_clients
    BY <2>1, FS_Interval DEF Rows
  <2>9. Cardinality(users \cup links) = Cardinality(Rows)
    BY <2>7, <2>8, FS_Bijection
  <2> QED
    BY <2>5, <2>8, <2>9
<1>2. Spec => []IInv
  BY TableInvariant
<1> QED
  BY <1>1, <1>2, PTL

(* No entry points to the kill_flag of a connection object that is gone or *)
(* is another's, and a driver's kill_flag is set exactly when the server   *)
(* has closed its connection: Close may set it and Unsubscribe may trust   *)
(* it.                                                                     *)
THEOREM KillFlagIsRight ==
  ASSUME ~Sharing
  PROVE  Spec => []KillFlagAgrees
<1>1. IInv => KillFlagAgrees
  BY DEF IInv, LinkInv
<1>2. Spec => []IInv
  BY TableInvariant
<1> QED
  BY <1>1, <1>2, PTL

(* The loop of Read never comes to an entry that was appended while it was *)
(* running, whose revents are not defined: num_available is 0 by then.     *)
THEOREM ReadStopsInTime ==
  ASSUME ~Sharing
  PROVE  Spec => []OnlyPolledAreRead
<1>1. ASSUME IInv PROVE OnlyPolledAreRead
  <2>1. at = "parse" => i <= polled
    BY <1>1 DEF IInv, ReadInv
  <2>2. ReadLoop => Min(Ready) \in i..polled
    BY <1>1, NextIsPolled
  <2> QED
    BY <2>1, <2>2 DEF OnlyPolledAreRead
<1>2. Spec => []IInv
  BY TableInvariant
<1> QED
  BY <1>1, <1>2, PTL

(* Every request has its one reply: it is on its way to the server, being  *)
(* parsed, or answered on the queue of the client's entry, wherever that   *)
(* entry has moved.                                                        *)
THEOREM EveryRequestIsAnswered ==
  ASSUME ~Sharing
  PROVE  Spec => []OneReplyEach
<1>1. IInv => OneReplyEach
  BY DEF IInv, RequestInv, OneReplyEach, Parsing, Rows
<1>2. Spec => []IInv
  BY TableInvariant
<1> QED
  BY <1>1, <1>2, PTL
=============================================================================
