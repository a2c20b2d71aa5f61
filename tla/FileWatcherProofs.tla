------------------------- MODULE FileWatcherProofs -------------------------
(***************************************************************************)
(* Proofs about FileWatcher, for any number of descriptors, of peers and   *)
(* of ports: as long as no descriptor was closed by one who did not own    *)
(* it, the list of watches is what is open, and is not longer than that.   *)
(***************************************************************************)
EXTENDS FileWatcher, ListFacts, FiniteSetTheorems, TLAPS

Served == {LISTENER, UDP} \cup Peers

Streaming == stream.connected /\ stream.at \in {"run", "messages"}

(* The two sockets of the server: the listener stays, and UDP's, once      *)
(* closed, is not opened again.                                            *)
SocketInv ==
  /\ \A fd \in Fds : file[fd] = LISTENER <=> fd = First
  /\ \A fd \in Fds : file[fd] = UDP => fd = Second

(* A peer has one descriptor, the one in the table, between accept and     *)
(* Close.                                                                  *)
ClientInv ==
  /\ \A p \in Peers : cfd[p] # NoFd => file[cfd[p]] = p /\ peer[p] \in {"open", "left"}
  /\ \A fd \in Fds : file[fd] \in Peers => cfd[file[fd]] = fd

(* While it connects and while it is connected, the driver has the socket  *)
(* it opened last.                                                         *)
StreamInv ==
  /\ stream.at = "connect" \/ Streaming => stream.sock \in Fds /\ file[stream.sock] = STREAM
  /\ stream.at \in {"off", "open", "connect"} => ~stream.connected

(* The list w has an entry without a queue for every descriptor of S, one  *)
(* with a queue for every descriptor of T, and none beside them.           *)
Agree(w, S, T) ==
  /\ \A i \in DOMAIN w :
       w[i].fd # NoFd => IF w[i].queue THEN w[i].fd \in T ELSE w[i].fd \in S
  /\ \A fd \in S : \E i \in DOMAIN w : w[i].fd = fd /\ ~w[i].queue
  /\ \A fd \in T : \E i \in DOMAIN w : w[i].fd = fd /\ w[i].queue
  /\ \A i, j \in DOMAIN w : w[i].fd # NoFd /\ w[i].fd = w[j].fd => i = j

(* The descriptors of the server, and of the driver, that are watched. *)
Watched == {fd \in Fds : file[fd] \in Served}
Driven == {fd \in Fds : Streaming /\ fd = stream.sock}

WatchInv == Agree(watches, Watched, Driven)

Orderly ==
  SocketInv /\ ClientInv /\ StreamInv /\ WatchInv /\ Len(watches) <= Cardinality(Fds)

(* Nothing can be said once a descriptor was closed by a stranger. *)
IInv == TypeOK /\ (stray = {} => Orderly)

-----------------------------------------------------------------------------
(***************************************************************************)
(* Descriptors.                                                            *)
(***************************************************************************)

LEMMA FdFacts ==
  /\ \A fd \in Fds : fd \in Nat /\ fd # NoFd
  /\ NoFd \notin Fds
  /\ First \in Fds /\ Second \in Fds /\ First # Second
<1>1. /\ \A fd \in Fds : fd \in Nat /\ fd # NoFd
      /\ NoFd \notin Fds /\ Fds \in SUBSET Nat
  BY ConstantsAssumption DEF NoFd
<1>2. IsFiniteSet(Fds) /\ Cardinality(Fds) >= 2
  BY ConstantsAssumption
<1>3. Fds # {}
  BY <1>2, FS_EmptySet
<1>4. \A S \in SUBSET Nat : S # {} => Min(S) \in S
  BY LeastElement DEF Min
<1>5. First \in Fds
  BY <1>1, <1>3, <1>4 DEF First
<1>6. Fds \ {First} # {}
  <2> SUFFICES ASSUME Fds = {First} PROVE FALSE
    BY <1>5
  <2>1. Cardinality({First}) = 1
    BY FS_Singleton
  <2> QED
    BY <1>2, <2>1
<1>7. Second \in Fds \ {First}
  <2>1. Fds \ {First} \in SUBSET Nat
    BY <1>1
  <2> QED
    BY <1>4, <1>6, <2>1 DEF Second
<1> QED
  BY <1>1, <1>5, <1>7

(* What is open under a descriptor: the kinds are different. *)
LEMMA KindFacts ==
  /\ CLOSED # LISTENER /\ CLOSED # UDP /\ CLOSED # STREAM
  /\ LISTENER # UDP /\ LISTENER # STREAM /\ UDP # STREAM
  /\ \A p \in Peers : p # CLOSED /\ p # LISTENER /\ p # UDP /\ p # STREAM
  /\ CLOSED \notin Served /\ STREAM \notin Served
  /\ LISTENER \in Served /\ UDP \in Served /\ Peers \subseteq Served
<1>1. /\ CLOSED # LISTENER /\ CLOSED # UDP /\ CLOSED # STREAM
      /\ LISTENER # UDP /\ LISTENER # STREAM /\ UDP # STREAM
  BY DEF CLOSED, LISTENER, UDP, STREAM
<1>2. \A p \in Peers : p # CLOSED /\ p # LISTENER /\ p # UDP /\ p # STREAM
  BY ConstantsAssumption
<1> QED
  BY <1>1, <1>2 DEF Served

LEMMA LowestIsFree ==
  ASSUME FreeFds # {}
  PROVE  Lowest \in Fds /\ file[Lowest] = CLOSED
<1>1. FreeFds \in SUBSET Nat
  BY FdFacts DEF FreeFds
<1>2. Lowest \in FreeFds
  BY <1>1, LeastElement DEF Lowest, Min
<1> QED
  BY <1>2 DEF FreeFds

(* A list with a bound on its length. *)
LEMMA BoundedList ==
  ASSUME NEW D, NEW n \in Nat
  PROVE  /\ \A s \in SeqOf(D, n) : s \in Seq(D) /\ Len(s) <= n
         /\ \A s \in Seq(D) : Len(s) <= n => s \in SeqOf(D, n)
<1>1. ASSUME NEW s \in SeqOf(D, n) PROVE s \in Seq(D) /\ Len(s) <= n
  <2>1. PICK m \in 0..n : s \in [1..m -> D]
    BY <1>1 DEF SeqOf
  <2>2. s \in Seq(D)
    BY <2>1, SeqDef
  <2>3. Len(s) \in Nat /\ DOMAIN s = 1..Len(s) /\ DOMAIN s = 1..m
    BY <2>1, <2>2, LenProperties
  <2>4. Len(s) = m
    BY <2>1, <2>3
  <2> QED
    BY <2>1, <2>2, <2>4
<1>2. ASSUME NEW s \in Seq(D), Len(s) <= n PROVE s \in SeqOf(D, n)
  <2>1. Len(s) \in 0..n /\ s \in [1..Len(s) -> D]
    BY <1>2, LenProperties
  <2> QED
    BY <2>1 DEF SeqOf
<1> QED
  BY <1>1, <1>2

-----------------------------------------------------------------------------
(***************************************************************************)
(* AddFileWatch and RemoveFileWatch.                                       *)
(***************************************************************************)

(* A list changed place by place. *)
LEMMA ListOf ==
  ASSUME NEW w \in Seq(Watch), NEW a, a = [i \in DOMAIN w |-> a[i]],
         \A i \in DOMAIN w : a[i] \in Watch
  PROVE  a \in Seq(Watch) /\ DOMAIN a = DOMAIN w /\ Len(a) = Len(w)
<1>1. DOMAIN w = 1..Len(w) /\ Len(w) \in Nat
  BY LenProperties
<1>2. DOMAIN a = DOMAIN w
  OBVIOUS
<1>3. a \in [1..Len(w) -> Watch]
  BY <1>1
<1>4. a \in Seq(Watch)
  BY <1>1, <1>3, SeqDef
<1>5. DOMAIN a = 1..Len(a) /\ Len(a) \in Nat
  BY <1>4, LenProperties
<1> QED
  BY <1>1, <1>2, <1>4, <1>5

LEMMA EntryFreed ==
  ASSUME NEW e \in Watch
  PROVE  LET f == [e EXCEPT !.fd = NoFd] IN f \in Watch /\ f.fd = NoFd /\ f.queue = e.queue
BY DEF Watch

(* The search for an entry: it finds at most one place, and one if there   *)
(* is any.                                                                 *)
LEMMA FirstInFacts ==
  ASSUME NEW w \in Seq(Watch), NEW S
  PROVE  /\ \A i \in FirstIn(w, S) : i \in DOMAIN w /\ w[i] \in S
         /\ \A i, j \in FirstIn(w, S) : i = j
         /\ FirstIn(w, S) = {} => \A i \in DOMAIN w : w[i] \notin S
<1>1. DOMAIN w = 1..Len(w) /\ Len(w) \in Nat
  BY LenProperties
<1>2. \A i, j \in FirstIn(w, S) : i = j
  <2> SUFFICES ASSUME NEW i \in FirstIn(w, S), NEW j \in FirstIn(w, S), i < j PROVE FALSE
    BY <1>1 DEF FirstIn
  <2>1. i \in 1..(j-1)
    BY <1>1 DEF FirstIn
  <2> QED
    BY <2>1 DEF FirstIn
<1>3. ASSUME NEW k \in DOMAIN w, w[k] \in S PROVE FirstIn(w, S) # {}
  <2> DEFINE T == {i \in DOMAIN w : w[i] \in S}
  <2>1. T \in SUBSET Nat /\ T # {}
    BY <1>1, <1>3
  <2>2. PICK i \in T : \A y \in T : i <= y
    BY <2>1, LeastElement
  <2>3. \A j \in 1..(i-1) : j \in DOMAIN w /\ j < i
    BY <1>1, <2>2
  <2>4. \A j \in 1..(i-1) : w[j] \notin S
    <3> SUFFICES ASSUME NEW j \in 1..(i-1), w[j] \in S PROVE FALSE
      OBVIOUS
    <3>1. j \in T /\ j < i /\ i \in Nat /\ j \in Nat
      BY <1>1, <2>2, <2>3
    <3> QED
      BY <2>2, <3>1
  <2>5. i \in FirstIn(w, S)
    BY <2>2, <2>4 DEF FirstIn
  <2> QED
    BY <2>5
<1> QED
  BY <1>2, <1>3 DEF FirstIn

(* a is w with one entry more, put into a free place, or into a new one if *)
(* there is none.                                                          *)
Added(w, fd, q, a) ==
  \E k \in DOMAIN a :
    /\ a[k].fd = fd /\ a[k].queue = q
    /\ k \in DOMAIN w => w[k].fd = NoFd
    /\ DOMAIN a = DOMAIN w \cup {k}
    /\ \A i \in DOMAIN w : i # k => a[i] = w[i]
    /\ Len(a) = Len(w) \/ \A i \in DOMAIN w : w[i].fd # NoFd

LEMMA AddEffect ==
  ASSUME NEW w \in Seq(Watch), NEW fd \in Fds \cup {NoFd}, NEW q \in BOOLEAN,
         NEW a, a = AddFileWatch(w, fd, q)
  PROVE  a \in Seq(Watch) /\ Added(w, fd, q, a)
<1> DEFINE free == FirstIn(w, Free)
           new == [fd |-> fd, queue |-> q]
<1>1. /\ \A i \in free : i \in DOMAIN w /\ w[i] \in Free
      /\ \A i, j \in free : i = j
      /\ free = {} => \A i \in DOMAIN w : w[i] \notin Free
  BY FirstInFacts
<1> HIDE DEF free
<1>2. /\ DOMAIN w = 1..Len(w) /\ Len(w) \in Nat /\ \A i \in DOMAIN w : w[i] \in Watch
  BY LenProperties, ElementOfSeq
<1>3. new \in Watch /\ new.fd = fd /\ new.queue = q
  BY DEF Watch
<1>4. \A e \in Watch : e \in Free <=> e.fd = NoFd
  BY DEF Watch, Free
<1> HIDE DEF new
<1>5. CASE free = {}
  <2>1. a = Append(w, new)
    BY <1>5 DEF AddFileWatch, free, new
  <2>2. /\ Append(w, new) \in Seq(Watch) /\ Len(Append(w, new)) = Len(w) + 1
        /\ \A i \in 1..Len(w) : Append(w, new)[i] = w[i]
        /\ Append(w, new)[Len(w) + 1] = new
    BY <1>3, AppendProperties
  <2>3. a \in Seq(Watch) /\ Len(a) = Len(w) + 1
    BY <2>1, <2>2
  <2>4. DOMAIN a = 1..Len(a)
    BY <2>3, LenProperties
  <2> DEFINE k == Len(w) + 1
  <2>5. k \in DOMAIN a /\ DOMAIN a = DOMAIN w \cup {k} /\ k \notin DOMAIN w
    BY <1>2, <2>3, <2>4
  <2>6. a[k] = new /\ \A i \in DOMAIN w : a[i] = w[i]
    BY <1>2, <2>1, <2>2
  <2>7. \A i \in DOMAIN w : w[i].fd # NoFd
    BY <1>1, <1>2, <1>4, <1>5
  <2> HIDE DEF k
  <2> QED
    BY <1>3, <2>3, <2>5, <2>6, <2>7 DEF Added
<1>6. CASE free # {}
  <2>1. PICK k \in free : TRUE
    BY <1>6
  <2>2. free = {k} /\ k \in DOMAIN w /\ w[k].fd = NoFd
    BY <1>1, <1>2, <1>4, <2>1
  <2>3. a = [i \in DOMAIN w |-> IF i \in free THEN new ELSE w[i]]
    BY <1>6 DEF AddFileWatch, free, new
  <2>4. a = [i \in DOMAIN w |-> a[i]] /\ \A i \in DOMAIN w : a[i] = IF i = k THEN new ELSE w[i]
    BY <2>2, <2>3
  <2>5. \A i \in DOMAIN w : a[i] \in Watch
    BY <1>2, <1>3, <2>4
  <2>6. a \in Seq(Watch) /\ DOMAIN a = DOMAIN w /\ Len(a) = Len(w)
    BY <2>4, <2>5, ListOf
  <2>7. DOMAIN a = DOMAIN w \cup {k}
    BY <2>2, <2>6
  <2> QED
    BY <1>3, <2>2, <2>4, <2>6, <2>7 DEF Added
<1> QED
  BY <1>5, <1>6

(* Some entries are freed. *)
LEMMA FreedEffect ==
  ASSUME NEW w \in Seq(Watch), NEW F, NEW a,
         a = [i \in DOMAIN w |-> IF i \in F THEN [w[i] EXCEPT !.fd = NoFd] ELSE w[i]]
  PROVE  /\ a \in Seq(Watch) /\ DOMAIN a = DOMAIN w /\ Len(a) = Len(w)
         /\ \A i \in DOMAIN w : IF i \in F THEN a[i].fd = NoFd ELSE a[i] = w[i]
<1>1. \A i \in DOMAIN w : w[i] \in Watch
  BY ElementOfSeq, LenProperties
<1>2. a = [i \in DOMAIN w |-> a[i]]
  OBVIOUS
<1>3. \A i \in DOMAIN w : a[i] \in Watch /\ IF i \in F THEN a[i].fd = NoFd ELSE a[i] = w[i]
  BY <1>1, EntryFreed
<1>4. a \in Seq(Watch) /\ DOMAIN a = DOMAIN w /\ Len(a) = Len(w)
  BY <1>2, <1>3, ListOf
<1> QED
  BY <1>3, <1>4

LEMMA RemoveTypes ==
  ASSUME NEW w \in Seq(Watch), NEW fd, NEW q, NEW n
  PROVE  RemoveFileWatch(w, fd, q) \in Seq(Watch) /\ RemoveFileWatches(w, n) \in Seq(Watch)
<1>1. RemoveFileWatch(w, fd, q) \in Seq(Watch)
  <2> DEFINE F == FirstIn(w, {[fd |-> fd, queue |-> q]})
             a == RemoveFileWatch(w, fd, q)
  <2>1. a = [i \in DOMAIN w |-> IF i \in F THEN [w[i] EXCEPT !.fd = NoFd] ELSE w[i]]
    BY DEF RemoveFileWatch
  <2> HIDE DEF F, a
  <2>2. a \in Seq(Watch)
    BY <2>1, FreedEffect
  <2> QED
    BY <2>2 DEF a
<1>2. RemoveFileWatches(w, n) \in Seq(Watch)
  <2> DEFINE F == {i \in DOMAIN w :
                    /\ w[i].fd # NoFd /\ ~w[i].queue
                    /\ Cardinality({j \in 1..i : w[j] = w[i]}) <= n[w[i].fd]}
             a == RemoveFileWatches(w, n)
  <2>1. a = [i \in DOMAIN w |-> IF i \in F THEN [w[i] EXCEPT !.fd = NoFd] ELSE w[i]]
    BY DEF RemoveFileWatches
  <2> HIDE DEF F, a
  <2>2. a \in Seq(Watch)
    BY <2>1, FreedEffect
  <2> QED
    BY <2>2 DEF a
<1> QED
  BY <1>1, <1>2

Distinct(w) == \A i, j \in DOMAIN w : w[i].fd # NoFd /\ w[i].fd = w[j].fd => i = j

(* a is w without the entry for fd that has a queue. *)
Removed(w, fd, a) ==
  /\ DOMAIN a = DOMAIN w /\ Len(a) = Len(w)
  /\ \A i \in DOMAIN w :
       IF w[i].fd = fd /\ w[i].queue THEN a[i].fd = NoFd ELSE a[i] = w[i]

LEMMA RemoveEffect ==
  ASSUME NEW w \in Seq(Watch), NEW fd, NEW a, a = RemoveFileWatch(w, fd, TRUE), Distinct(w)
  PROVE  Removed(w, fd, a)
<1> DEFINE found == FirstIn(w, {[fd |-> fd, queue |-> TRUE]})
<1>1. /\ \A i \in found : i \in DOMAIN w /\ w[i] = [fd |-> fd, queue |-> TRUE]
      /\ found = {} => \A i \in DOMAIN w : w[i] # [fd |-> fd, queue |-> TRUE]
  BY FirstInFacts
<1>2. \A i \in DOMAIN w : w[i] \in Watch
  BY ElementOfSeq, LenProperties
<1>3. \A e \in Watch : e = [fd |-> fd, queue |-> TRUE] <=> e.fd = fd /\ e.queue
  BY DEF Watch
<1>4. a = [i \in DOMAIN w |-> IF i \in found THEN [w[i] EXCEPT !.fd = NoFd] ELSE w[i]]
  BY DEF RemoveFileWatch
<1> HIDE DEF found
<1>5. /\ \A i \in found : w[i].fd = fd /\ w[i].queue
      /\ \A i \in DOMAIN w : w[i].fd # NoFd /\ w[i].fd = fd /\ w[i].queue => i \in found
  BY <1>1, <1>2, <1>3 DEF Distinct
<1>6. /\ a \in Seq(Watch) /\ DOMAIN a = DOMAIN w /\ Len(a) = Len(w)
      /\ \A i \in DOMAIN w : IF i \in found THEN a[i].fd = NoFd ELSE a[i] = w[i]
  BY ONLY ZenonT(60), w \in Seq(Watch), <1>4, FreedEffect
<1> QED
  BY <1>5, <1>6 DEF Removed

(* RemoveFileWatches frees the entries without a queue. *)
LEMMA RemovesEffect ==
  ASSUME NEW w \in Seq(Watch), NEW n \in [Fds -> Nat],
         \A i, j \in DOMAIN w : w[i].fd # NoFd /\ w[i].fd = w[j].fd => i = j
  PROVE  LET a == RemoveFileWatches(w, n) IN
         /\ a \in Seq(Watch) /\ DOMAIN a = DOMAIN w /\ Len(a) = Len(w)
         /\ \A i \in DOMAIN w :
              IF w[i].fd # NoFd /\ ~w[i].queue /\ n[w[i].fd] > 0
              THEN a[i].fd = NoFd ELSE a[i] = w[i]
<1> DEFINE found == {i \in DOMAIN w :
                  /\ w[i].fd # NoFd /\ ~w[i].queue
                  /\ Cardinality({j \in 1..i : w[j] = w[i]}) <= n[w[i].fd]}
           a == RemoveFileWatches(w, n)
<1>1. \A i \in DOMAIN w : w[i] \in Watch /\ w[i].fd \in Fds \cup {NoFd}
  <2>1. \A i \in DOMAIN w : w[i] \in Watch
    BY ElementOfSeq, LenProperties
  <2> QED
    BY <2>1 DEF Watch
<1>2. DOMAIN w = 1..Len(w) /\ Len(w) \in Nat
  BY LenProperties
<1>3. \A i \in DOMAIN w : w[i].fd # NoFd => Cardinality({j \in 1..i : w[j] = w[i]}) = 1
  <2> SUFFICES ASSUME NEW i \in DOMAIN w, w[i].fd # NoFd
               PROVE  Cardinality({j \in 1..i : w[j] = w[i]}) = 1
    OBVIOUS
  <2>1. \A j \in 1..i : j \in DOMAIN w
    BY <1>2
  <2>2. i \in 1..i
    BY <1>2
  <2>3. {j \in 1..i : w[j] = w[i]} = {i}
    BY <2>1, <2>2
  <2> QED
    BY <2>3, FS_Singleton
<1>4. \A i \in DOMAIN w : i \in found <=> w[i].fd # NoFd /\ ~w[i].queue /\ n[w[i].fd] > 0
  <2> SUFFICES ASSUME NEW i \in DOMAIN w, w[i].fd # NoFd
               PROVE  1 <= n[w[i].fd] <=> n[w[i].fd] > 0
    BY <1>3
  <2>1. n[w[i].fd] \in Nat
    BY <1>1
  <2> QED
    BY <2>1
<1>5. a = [i \in DOMAIN w |-> IF i \in found THEN [w[i] EXCEPT !.fd = NoFd] ELSE w[i]]
  BY DEF RemoveFileWatches
<1> HIDE DEF found, a
<1>6. /\ a \in Seq(Watch) /\ DOMAIN a = DOMAIN w /\ Len(a) = Len(w)
      /\ \A i \in DOMAIN w : IF i \in found THEN a[i].fd = NoFd ELSE a[i] = w[i]
  BY ONLY ZenonT(60), w \in Seq(Watch), <1>5, FreedEffect
<1> QED
  BY <1>4, <1>6 DEF a

(* Entries in use, each for another descriptor, are no more than those.    *)
LEMMA ListIsShort ==
  ASSUME NEW w \in Seq(Watch),
         \A i \in DOMAIN w : w[i].fd # NoFd,
         \A i, j \in DOMAIN w : w[i].fd # NoFd /\ w[i].fd = w[j].fd => i = j
  PROVE  Len(w) <= Cardinality(Fds)
<1> DEFINE f == [i \in 1..Len(w) |-> w[i].fd]
<1>1. DOMAIN w = 1..Len(w) /\ Len(w) \in Nat
  BY LenProperties
<1>2. \A i \in DOMAIN w : w[i].fd \in Fds
  <2>1. \A i \in DOMAIN w : w[i] \in Watch
    BY ElementOfSeq, LenProperties
  <2> QED
    BY <2>1 DEF Watch
<1>3. f \in Injection(1..Len(w), Fds)
  BY <1>1, <1>2 DEF Injection, IsInjective
<1>4. IsFiniteSet(Fds)
  BY ConstantsAssumption
<1>5. Cardinality(1..Len(w)) <= Cardinality(Fds)
  BY <1>3, <1>4, FS_Injection
<1>6. Cardinality(1..Len(w)) = Len(w)
  BY SMTT(30), <1>1, FS_Interval
<1> QED
  BY <1>5, <1>6

(* A descriptor that is not watched is added. *)
LEMMA AddAgrees ==
  ASSUME NEW w \in Seq(Watch), NEW S \in SUBSET Fds, NEW T \in SUBSET Fds,
         Agree(w, S, T), NEW fd \in Fds,
         fd \notin S \cup T, NEW q \in BOOLEAN, NEW S1, NEW T1,
         S1 = IF q THEN S ELSE S \cup {fd}, T1 = IF q THEN T \cup {fd} ELSE T,
         Len(w) <= Cardinality(Fds), NEW a, a = AddFileWatch(w, fd, q)
  PROVE  Agree(a, S1, T1) /\ Len(a) <= Cardinality(Fds)
<1>1. a \in Seq(Watch) /\ Added(w, fd, q, a)
  BY AddEffect
<1>2. PICK k \in DOMAIN a :
        /\ a[k].fd = fd /\ a[k].queue = q
        /\ k \in DOMAIN w => w[k].fd = NoFd
        /\ DOMAIN a = DOMAIN w \cup {k}
        /\ \A i \in DOMAIN w : i # k => a[i] = w[i]
        /\ Len(a) = Len(w) \/ \A i \in DOMAIN w : w[i].fd # NoFd
  BY <1>1 DEF Added
<1>3. fd # NoFd
  BY FdFacts
<1>4. /\ \A i \in DOMAIN w :
           w[i].fd # NoFd => IF w[i].queue THEN w[i].fd \in T ELSE w[i].fd \in S
      /\ \A x \in S : \E i \in DOMAIN w : w[i].fd = x /\ ~w[i].queue
      /\ \A x \in T : \E i \in DOMAIN w : w[i].fd = x /\ w[i].queue
      /\ \A i, j \in DOMAIN w : w[i].fd # NoFd /\ w[i].fd = w[j].fd => i = j
  BY DEF Agree
<1>5. \A i \in DOMAIN w : w[i].fd # NoFd => i # k /\ w[i].fd # fd /\ a[i] = w[i]
  BY <1>2, <1>4
<1>6. \A i \in DOMAIN a : i = k \/ (i \in DOMAIN w /\ a[i] = w[i])
  BY <1>2
<1>7. \A i \in DOMAIN a :
        a[i].fd # NoFd => IF a[i].queue THEN a[i].fd \in T1 ELSE a[i].fd \in S1
  BY <1>2, <1>4, <1>6
<1>8. \A x \in S1 : \E i \in DOMAIN a : a[i].fd = x /\ ~a[i].queue
  <2> SUFFICES ASSUME NEW x \in S1 PROVE \E i \in DOMAIN a : a[i].fd = x /\ ~a[i].queue
    OBVIOUS
  <2>1. CASE x = fd
    BY <1>2, <2>1
  <2>2. CASE x # fd
    <3>1. x \in S
      BY <2>2
    <3>2. PICK i \in DOMAIN w : w[i].fd = x /\ ~w[i].queue
      BY <1>4, <3>1
    <3>3. w[i].fd # NoFd
      BY <3>1, <3>2, FdFacts
    <3> QED
      BY <1>2, <1>5, <3>2, <3>3
  <2> QED
    BY <2>1, <2>2
<1>9. \A x \in T1 : \E i \in DOMAIN a : a[i].fd = x /\ a[i].queue
  <2> SUFFICES ASSUME NEW x \in T1 PROVE \E i \in DOMAIN a : a[i].fd = x /\ a[i].queue
    OBVIOUS
  <2>1. CASE x = fd
    BY <1>2, <2>1
  <2>2. CASE x # fd
    <3>1. x \in T
      BY <2>2
    <3>2. PICK i \in DOMAIN w : w[i].fd = x /\ w[i].queue
      BY <1>4, <3>1
    <3>3. w[i].fd # NoFd
      BY <3>1, <3>2, FdFacts
    <3> QED
      BY <1>2, <1>5, <3>2, <3>3
  <2> QED
    BY <2>1, <2>2
<1>10. \A i, j \in DOMAIN a : a[i].fd # NoFd /\ a[i].fd = a[j].fd => i = j
  BY <1>2, <1>4, <1>5, <1>6
<1>11. Len(a) <= Cardinality(Fds)
  <2>1. CASE Len(a) = Len(w)
    BY <2>1
  <2>2. CASE \A i \in DOMAIN w : w[i].fd # NoFd
    <3>1. \A i \in DOMAIN a : a[i].fd # NoFd
      BY <1>2, <1>3, <1>6, <2>2
    <3> QED
      BY <1>1, <1>10, <3>1, ListIsShort
  <2> QED
    BY <1>2, <2>1, <2>2
<1>12. Agree(a, S1, T1)
  BY <1>7, <1>8, <1>9, <1>10 DEF Agree
<1> QED
  BY <1>11, <1>12

(* The entry of the driver is removed. *)
LEMMA RemoveAgrees ==
  ASSUME NEW w \in Seq(Watch), NEW S \in SUBSET Fds, NEW T \in SUBSET Fds,
         Agree(w, S, T), NEW fd, NEW a, a = RemoveFileWatch(w, fd, TRUE), NEW T1, T1 = T \ {fd}
  PROVE  Agree(a, S, T1) /\ Len(a) = Len(w)
<1>1. /\ \A i \in DOMAIN w :
           w[i].fd # NoFd => IF w[i].queue THEN w[i].fd \in T ELSE w[i].fd \in S
      /\ \A x \in S : \E i \in DOMAIN w : w[i].fd = x /\ ~w[i].queue
      /\ \A x \in T : \E i \in DOMAIN w : w[i].fd = x /\ w[i].queue
      /\ \A i, j \in DOMAIN w : w[i].fd # NoFd /\ w[i].fd = w[j].fd => i = j
  BY DEF Agree
<1>2. \A i \in DOMAIN w : w[i].queue \in BOOLEAN
  <2>1. \A i \in DOMAIN w : w[i] \in Watch
    BY ElementOfSeq, LenProperties
  <2> QED
    BY <2>1 DEF Watch
<1>3. /\ DOMAIN a = DOMAIN w /\ Len(a) = Len(w)
      /\ \A i \in DOMAIN w :
           IF w[i].fd = fd /\ w[i].queue THEN a[i].fd = NoFd ELSE a[i] = w[i]
  <2>1. Distinct(w)
    BY <1>1 DEF Distinct
  <2>2. Removed(w, fd, a)
    BY <2>1, RemoveEffect
  <2> QED
    BY <2>2 DEF Removed
<1>4. \A i \in DOMAIN a : a[i].fd # NoFd => a[i] = w[i] /\ ~(w[i].fd = fd /\ w[i].queue)
  BY <1>3
<1>5. \A i \in DOMAIN w : w[i].fd # NoFd /\ ~(w[i].fd = fd /\ w[i].queue) => a[i] = w[i]
  BY <1>3
<1>6. \A x \in S : \E i \in DOMAIN a : a[i].fd = x /\ ~a[i].queue
  <2> SUFFICES ASSUME NEW x \in S PROVE \E i \in DOMAIN a : a[i].fd = x /\ ~a[i].queue
    OBVIOUS
  <2>1. PICK i \in DOMAIN w : w[i].fd = x /\ ~w[i].queue
    BY <1>1
  <2>2. x # NoFd
    BY FdFacts
  <2> QED
    BY <1>3, <1>5, <2>1, <2>2
<1>7. \A x \in T1 : \E i \in DOMAIN a : a[i].fd = x /\ a[i].queue
  <2> SUFFICES ASSUME NEW x \in T1 PROVE \E i \in DOMAIN a : a[i].fd = x /\ a[i].queue
    OBVIOUS
  <2>1. PICK i \in DOMAIN w : w[i].fd = x /\ w[i].queue
    BY <1>1
  <2>2. x # NoFd /\ x # fd
    BY FdFacts
  <2> QED
    BY <1>3, <1>5, <2>1, <2>2
<1>8. \A i \in DOMAIN a :
        a[i].fd # NoFd => IF a[i].queue THEN a[i].fd \in T1 ELSE a[i].fd \in S
  BY ZenonT(60), <1>1, <1>3, <1>4
<1>9. \A i, j \in DOMAIN a : a[i].fd # NoFd /\ a[i].fd = a[j].fd => i = j
  <2> SUFFICES ASSUME NEW i \in DOMAIN a, NEW j \in DOMAIN a,
                      a[i].fd # NoFd, a[i].fd = a[j].fd
               PROVE  i = j
    OBVIOUS
  <2>1. i \in DOMAIN w /\ j \in DOMAIN w /\ a[i] = w[i] /\ a[j] = w[j]
    BY <1>3, <1>4
  <2>2. w[i].fd # NoFd /\ w[i].fd = w[j].fd
    BY <2>1
  <2> QED
    BY <1>1, <2>1, <2>2
<1> QED
  BY <1>3, <1>6, <1>7, <1>8, <1>9 DEF Agree

(* Entries of the server are removed, n[fd] times for every descriptor. *)
LEMMA RemovesAgree ==
  ASSUME NEW w \in Seq(Watch), NEW S \in SUBSET Fds, NEW T \in SUBSET Fds,
         Agree(w, S, T), NEW n \in [Fds -> Nat], NEW a, a = RemoveFileWatches(w, n),
         NEW S1, S1 = {fd \in S : n[fd] = 0}
  PROVE  Agree(a, S1, T) /\ Len(a) = Len(w)
<1>1. /\ \A i \in DOMAIN w :
           w[i].fd # NoFd => IF w[i].queue THEN w[i].fd \in T ELSE w[i].fd \in S
      /\ \A x \in S : \E i \in DOMAIN w : w[i].fd = x /\ ~w[i].queue
      /\ \A x \in T : \E i \in DOMAIN w : w[i].fd = x /\ w[i].queue
      /\ \A i, j \in DOMAIN w : w[i].fd # NoFd /\ w[i].fd = w[j].fd => i = j
  BY DEF Agree
<1>2. /\ DOMAIN a = DOMAIN w /\ Len(a) = Len(w)
      /\ \A i \in DOMAIN w :
           IF w[i].fd # NoFd /\ ~w[i].queue /\ n[w[i].fd] > 0
           THEN a[i].fd = NoFd ELSE a[i] = w[i]
  BY ONLY w \in Seq(Watch), n \in [Fds -> Nat], a = RemoveFileWatches(w, n), <1>1, RemovesEffect
<1>3. \A x \in Fds : n[x] \in Nat /\ x # NoFd
  BY FdFacts
<1>4. \A i \in DOMAIN a :
        a[i].fd # NoFd => IF a[i].queue THEN a[i].fd \in T ELSE a[i].fd \in S1
  <2> SUFFICES ASSUME NEW i \in DOMAIN w, a[i].fd # NoFd
               PROVE  IF a[i].queue THEN a[i].fd \in T ELSE a[i].fd \in S1
    BY <1>2
  <2>1. a[i] = w[i] /\ ~(~w[i].queue /\ n[w[i].fd] > 0)
    BY <1>2
  <2>2. CASE w[i].queue
    BY <1>1, <2>1, <2>2
  <2>3. CASE ~w[i].queue
    <3>1. w[i].fd \in S
      BY <1>1, <2>1, <2>3
    <3>2. n[w[i].fd] = 0
      BY <1>3, <2>1, <2>3, <3>1
    <3> QED
      BY <2>1, <2>3, <3>1, <3>2
  <2> QED
    BY <2>2, <2>3
<1>5. \A x \in S1 : \E i \in DOMAIN a : a[i].fd = x /\ ~a[i].queue
  <2> SUFFICES ASSUME NEW x \in S1 PROVE \E i \in DOMAIN a : a[i].fd = x /\ ~a[i].queue
    OBVIOUS
  <2>1. PICK i \in DOMAIN w : w[i].fd = x /\ ~w[i].queue
    BY <1>1
  <2>2. ~(n[x] > 0)
    OBVIOUS
  <2> QED
    BY <1>2, <2>1, <2>2
<1>6. \A x \in T : \E i \in DOMAIN a : a[i].fd = x /\ a[i].queue
  <2> SUFFICES ASSUME NEW x \in T PROVE \E i \in DOMAIN a : a[i].fd = x /\ a[i].queue
    OBVIOUS
  <2>1. PICK i \in DOMAIN w : w[i].fd = x /\ w[i].queue
    BY <1>1
  <2> QED
    BY <1>2, <2>1
<1>7. \A i, j \in DOMAIN a : a[i].fd # NoFd /\ a[i].fd = a[j].fd => i = j
  BY <1>1, <1>2
<1> QED
  BY <1>2, <1>4, <1>5, <1>6, <1>7 DEF Agree

-----------------------------------------------------------------------------
(***************************************************************************)
(* Type correctness.                                                       *)
(***************************************************************************)
Kinds == {CLOSED, LISTENER, UDP, STREAM} \cup Peers
Item == [from : Ports, empty : BOOLEAN]

LEMMA ListTypes ==
  ASSUME TypeOK
  PROVE  /\ dgrams \in Seq(Item) /\ Len(dgrams) <= MaxDatagrams
         /\ << >> \in SeqOf(Item, MaxDatagrams)
         /\ \A s \in Seq(Item) : Len(s) <= MaxDatagrams => s \in SeqOf(Item, MaxDatagrams)
         /\ MaxDatagrams \in Nat
<1>1. MaxDatagrams \in Nat
  BY ConstantsAssumption
<1>2. dgrams \in SeqOf(Item, MaxDatagrams)
  BY DEF TypeOK, Item
<1>3. /\ \A s \in SeqOf(Item, MaxDatagrams) : s \in Seq(Item) /\ Len(s) <= MaxDatagrams
      /\ \A s \in Seq(Item) : Len(s) <= MaxDatagrams => s \in SeqOf(Item, MaxDatagrams)
  BY <1>1, BoundedList
<1>4. << >> \in Seq(Item) /\ Len(<< >>) = 0
  BY EmptySeq
<1>5. Len(<< >>) <= MaxDatagrams
  BY <1>1, <1>4
<1>6. << >> \in SeqOf(Item, MaxDatagrams)
  BY <1>3, <1>4, <1>5, Zenon
<1> QED
  BY <1>1, <1>2, <1>3, <1>6

LEMMA ReceivedTypes ==
  ASSUME TypeOK, NEW d \in Received
  PROVE  d.from \in Ports /\ (file[udpfd] = UDP => dgrams # << >>)
<1>1. file[udpfd] \in Kinds
  BY FdFacts DEF TypeOK, udpfd, Kinds
<1>2. CASE file[udpfd] = UDP
  <2>1. dgrams # << >> /\ d = Head(dgrams)
    BY <1>2, KindFacts DEF Received
  <2>2. d \in Item
    BY <2>1, ListTypes, HeadTailProperties
  <2> QED
    BY <2>1, <2>2 DEF Item
<1>3. CASE file[udpfd] = STREAM
  BY <1>3, KindFacts DEF Received
<1>4. CASE file[udpfd] \in Peers
  BY <1>4, KindFacts DEF Received
<1>5. CASE file[udpfd] \in {CLOSED, LISTENER}
  <2>1. Received = {}
    BY <1>5, KindFacts DEF Received
  <2> QED
    BY <2>1
<1> QED
  BY <1>1, <1>2, <1>3, <1>4, <1>5, KindFacts DEF Kinds

LEMMA CloseClientsTypes ==
  ASSUME TypeOK, NEW ps \in SUBSET Clients, CloseClients(ps)
  PROVE  /\ file' \in [Fds -> Kinds] /\ watches' \in Seq(Watch)
         /\ peer' \in [Peers -> {"none", "pending", "open", "left", "done"}]
         /\ cfd' \in [Peers -> Fds \cup {NoFd}]
         /\ stray' \subseteq {"tcp", "udp", "stream"}
<1>1. watches' \in Seq(Watch)
  BY RemoveTypes DEF TypeOK, CloseClients
<1>2. file' \in [Fds -> Kinds]
  BY DEF TypeOK, CloseClients, Kinds
<1>3. stray' \subseteq {"tcp", "udp", "stream"}
  BY DEF TypeOK, CloseClients
<1>4. cfd' \in [Peers -> Fds \cup {NoFd}]
  BY DEF TypeOK, CloseClients
<1>5. peer' \in [Peers -> {"none", "pending", "open", "left", "done"}]
  BY DEF TypeOK, CloseClients
<1> QED
  BY <1>1, <1>2, <1>3, <1>4, <1>5

LEMMA CloseUdpTypes ==
  ASSUME TypeOK, NEW us, CloseUdp(us)
  PROVE  /\ file' \in [Fds -> Kinds] /\ watches' \in Seq(Watch)
         /\ stray' \subseteq {"tcp", "udp", "stream"}
<1>1. watches' \in Seq(Watch)
  BY RemoveTypes DEF TypeOK, CloseUdp
<1>2. file' \in [Fds -> Kinds]
  BY DEF TypeOK, CloseUdp, Closing, Kinds
<1>3. stray' \subseteq {"tcp", "udp", "stream"}
  BY DEF TypeOK, CloseUdp, Closing
<1> QED
  BY <1>1, <1>2, <1>3

LEMMA TypeStep ==
  ASSUME TypeOK, [Next]_vars
  PROVE  TypeOK'
<1> USE DEF Kinds
<1>0. ASSUME UNCHANGED vars PROVE TypeOK'
  BY <1>0 DEF TypeOK, vars
<1>1. ASSUME WaitBegin PROVE TypeOK'
  <2>1. \A i \in DOMAIN watches : watches[i] \in Watch
    BY ElementOfSeq, LenProperties DEF TypeOK
  <2>2. \A e \in Watch : e.fd \in Fds \cup {NoFd}
    BY DEF Watch
  <2>3. sel' \subseteq Fds
    BY <1>1, <2>1, <2>2 DEF WaitBegin
  <2> QED
    BY <1>1, <2>3 DEF TypeOK, WaitBegin, ServerSteps
<1>2. ASSUME SelectFails PROVE TypeOK'
  BY <1>2 DEF TypeOK, SelectFails, ServerSteps
<1>3. ASSUME SelectReturns PROVE TypeOK'
  BY <1>3 DEF TypeOK, SelectReturns, ServerSteps
<1>4. ASSUME WaitMatch PROVE TypeOK'
  BY <1>4 DEF TypeOK, WaitMatch, ServerSteps
<1>5. ASSUME Accept PROVE TypeOK'
  <2>1. pc' \in ServerSteps
    BY <1>5 DEF Accept, ServerSteps
  <2>2. CASE UNCHANGED <<file, watches, peer, cfd>>
    BY <1>5, <2>1, <2>2 DEF TypeOK, Accept
  <2>3. CASE FreeFds # {} /\ \E p \in {p \in Peers : peer[p] = "pending"} :
               /\ file' = [file EXCEPT ![Lowest] = p]
               /\ watches' = AddFileWatch(watches, Lowest, FALSE)
               /\ peer' = [peer EXCEPT ![p] = "open"] /\ cfd' = [cfd EXCEPT ![p] = Lowest]
    <3>1. Lowest \in Fds
      BY <2>3, LowestIsFree
    <3>2. watches \in Seq(Watch) /\ FALSE \in BOOLEAN
      BY DEF TypeOK
    <3>3. watches' \in Seq(Watch)
      BY <2>3, <3>1, <3>2, AddEffect
    <3>4. file' \in [Fds -> Kinds]
      <4>1. file \in [Fds -> Kinds]
        BY DEF TypeOK
      <4> QED
        BY <2>3, <4>1
    <3>5. peer' \in [Peers -> {"none", "pending", "open", "left", "done"}]
      BY <2>3 DEF TypeOK
    <3>6. cfd' \in [Peers -> Fds \cup {NoFd}]
      BY <2>3, <3>1 DEF TypeOK
    <3> QED
      BY <1>5, <2>1, <3>3, <3>4, <3>5, <3>6 DEF TypeOK, Accept
  <2> QED
    BY <1>5, <2>2, <2>3 DEF Accept
<1>6. ASSUME Read PROVE TypeOK'
  <2>1. PICK ps \in SUBSET Foreign : CloseClients(Broken \cup ps)
    BY <1>6 DEF Read
  <2>2. Broken \cup ps \in SUBSET Clients
    BY <2>1 DEF Foreign, Broken
  <2>3. pc' \in ServerSteps
    BY <1>6 DEF Read, ServerSteps
  <2> QED
    BY <1>6, <2>1, <2>2, <2>3, CloseClientsTypes DEF TypeOK, Read
<1>7. ASSUME Write PROVE TypeOK'
  <2>1. PICK ps \in SUBSET (Broken \cup Foreign) : CloseClients(ps)
    BY <1>7 DEF Write
  <2>2. ps \in SUBSET Clients
    BY <2>1 DEF Foreign, Broken
  <2>3. pc' \in ServerSteps
    BY <1>7 DEF Write, ServerSteps
  <2> QED
    BY <1>7, <2>1, <2>2, <2>3, CloseClientsTypes DEF TypeOK, Write
<1>8. ASSUME ReadUdp PROVE TypeOK'
  <2>1. pc' \in ServerSteps
    BY <1>8 DEF ReadUdp, ServerSteps
  <2>2. CASE UNCHANGED <<file, watches, udp, dgrams, stray>>
    BY <1>8, <2>1, <2>2 DEF TypeOK, ReadUdp
  <2>3. ASSUME NEW d \in Received,
               CloseUdp(udp \cap IF d.empty THEN {d.from} ELSE {}),
               udp' = udp \cup {d.from},
               dgrams' = IF file[udpfd] # UDP THEN dgrams
                         ELSE IF file'[udpfd] # UDP THEN << >> ELSE Tail(dgrams)
        PROVE  TypeOK'
    <3>1. udp' \subseteq Ports
      BY <2>3, ReceivedTypes DEF TypeOK
    <3>2. dgrams' \in SeqOf(Item, MaxDatagrams)
      <4>1. CASE file[udpfd] # UDP
        BY <2>3, <4>1 DEF TypeOK, Item
      <4>2. CASE file[udpfd] = UDP
        <5>1. dgrams # << >>
          BY <4>2, ReceivedTypes
        <5>2. Tail(dgrams) \in Seq(Item) /\ Len(Tail(dgrams)) = Len(dgrams) - 1
          BY <5>1, ListTypes, HeadTailProperties
        <5>3. Len(dgrams) \in Nat
          BY ListTypes, LenProperties
        <5>4. Tail(dgrams) \in SeqOf(Item, MaxDatagrams)
          <6>1. Len(Tail(dgrams)) <= MaxDatagrams
            BY <5>2, <5>3, ListTypes
          <6> QED
            BY <5>2, <6>1, ListTypes, Zenon
        <5> QED
          BY <2>3, <4>2, <5>4, ListTypes
      <4> QED
        BY <4>1, <4>2
    <3>3. /\ file' \in [Fds -> Kinds] /\ watches' \in Seq(Watch)
          /\ stray' \subseteq {"tcp", "udp", "stream"}
      BY <2>3, CloseUdpTypes
    <3> QED
      BY <1>8, <2>1, <3>1, <3>2, <3>3 DEF TypeOK, ReadUdp, Item
  <2> QED
    BY <1>8, <2>2, <2>3 DEF ReadUdp
<1>9. ASSUME WriteUdp PROVE TypeOK'
  <2>1. PICK us \in SUBSET udp : CloseUdp(us) /\ udp' = udp \ us
    BY <1>9 DEF WriteUdp
  <2>2. /\ file' \in [Fds -> Kinds] /\ watches' \in Seq(Watch)
        /\ stray' \subseteq {"tcp", "udp", "stream"}
    BY <2>1, CloseUdpTypes
  <2>3. udp' \subseteq Ports
    BY <2>1 DEF TypeOK
  <2>4. dgrams' \in SeqOf(Item, MaxDatagrams)
    BY <1>9, ListTypes DEF TypeOK, WriteUdp, Item
  <2>5. pc' \in ServerSteps
    BY <1>9 DEF WriteUdp, ServerSteps
  <2> QED
    BY <1>9, <2>2, <2>3, <2>4, <2>5 DEF TypeOK, WriteUdp, Item
<1>10. ASSUME StreamStart \/ StreamRefused \/ StreamGoes PROVE TypeOK'
  <2>1. stream' \in [at : StreamSteps, sock : Fds \cup {NoFd}, connected : BOOLEAN]
    BY <1>10 DEF TypeOK, StreamStart, StreamRefused, StreamGoes, StreamSteps
  <2> QED
    BY <1>10, <2>1 DEF TypeOK, StreamStart, StreamRefused, StreamGoes
<1>11. ASSUME StreamOpen PROVE TypeOK'
  <2>1. FreeFds # {} => Lowest \in Fds
    BY LowestIsFree
  <2>2. stream' \in [at : StreamSteps, sock : Fds \cup {NoFd}, connected : BOOLEAN]
    BY <1>11, <2>1 DEF TypeOK, StreamOpen, StreamSteps
  <2>3. file' \in [Fds -> Kinds]
    BY <1>11 DEF TypeOK, StreamOpen
  <2> QED
    BY <1>11, <2>2, <2>3 DEF TypeOK, StreamOpen
<1>12. ASSUME StreamFails \/ StreamCancelled PROVE TypeOK'
  <2>1. stream' \in [at : StreamSteps, sock : Fds \cup {NoFd}, connected : BOOLEAN]
    BY <1>12 DEF TypeOK, StreamFails, StreamCancelled, StreamSteps
  <2>2. watches' \in Seq(Watch)
    <3>1. watches \in Seq(Watch) /\ watches' = RemoveFileWatch(watches, stream.sock, TRUE)
      BY <1>12 DEF TypeOK, StreamFails, StreamCancelled
    <3> QED
      BY <3>1, RemoveTypes
  <2> QED
    BY <1>12, <2>1, <2>2 DEF TypeOK, StreamFails, StreamCancelled
<1>13. ASSUME StreamCloses PROVE TypeOK'
  <2>1. stream' \in [at : StreamSteps, sock : Fds \cup {NoFd}, connected : BOOLEAN]
    BY <1>13 DEF TypeOK, StreamCloses, StreamSteps
  <2>2. file' \in [Fds -> Kinds]
    BY <1>13 DEF TypeOK, StreamCloses, Closing
  <2>3. stray' \subseteq {"tcp", "udp", "stream"}
    BY <1>13 DEF TypeOK, StreamCloses, Closing
  <2>4. dgrams' \in SeqOf(Item, MaxDatagrams)
    BY <1>13, ListTypes DEF TypeOK, Item, StreamCloses
  <2> QED
    BY <1>13, <2>1, <2>2, <2>3, <2>4 DEF TypeOK, StreamCloses, Item
<1>14. ASSUME NEW p \in Peers, PeerConnects(p) \/ PeerLeaves(p) PROVE TypeOK'
  <2>1. peer' \in [Peers -> {"none", "pending", "open", "left", "done"}]
    BY <1>14 DEF TypeOK, PeerConnects, PeerLeaves
  <2> QED
    BY <1>14, <2>1 DEF TypeOK, PeerConnects, PeerLeaves
<1>15. ASSUME NEW u \in Ports, NEW e \in BOOLEAN, Datagram(u, e) PROVE TypeOK'
  <2> DEFINE m == [from |-> u, empty |-> e]
  <2>1. m \in Item
    BY DEF Item
  <2> HIDE DEF m
  <2>2. Append(dgrams, m) \in Seq(Item) /\ Len(Append(dgrams, m)) = Len(dgrams) + 1
    BY <2>1, ListTypes, AppendProperties
  <2>3. Len(dgrams) \in Nat
    BY ListTypes, LenProperties
  <2>4. Len(dgrams) < MaxDatagrams /\ dgrams' = Append(dgrams, m)
    BY <1>15 DEF Datagram, m
  <2>5. dgrams' \in SeqOf(Item, MaxDatagrams)
    <3>1. dgrams' \in Seq(Item) /\ Len(dgrams') <= MaxDatagrams
      BY <2>2, <2>3, <2>4, ListTypes
    <3> QED
      BY <3>1, ListTypes, Zenon
  <2> QED
    BY <1>15, <2>5 DEF TypeOK, Datagram, Item
<1>16. ASSUME StreamConnect PROVE TypeOK'
  <2>1. stream' \in [at : StreamSteps, sock : Fds \cup {NoFd}, connected : BOOLEAN]
    BY <1>16 DEF TypeOK, StreamConnect, StreamSteps
  <2>2. watches \in Seq(Watch) /\ stream.sock \in Fds \cup {NoFd} /\ TRUE \in BOOLEAN
    BY DEF TypeOK
  <2>3. watches' \in Seq(Watch)
    BY <1>16, <2>2, AddEffect DEF StreamConnect
  <2> QED
    BY <1>16, <2>1, <2>3 DEF TypeOK, StreamConnect
<1> QED
  BY <1>0, <1>1, <1>2, <1>3, <1>4, <1>5, <1>6, <1>7, <1>8, <1>9, <1>10, <1>11, <1>12,
     <1>13, <1>14, <1>15, <1>16 DEF Next, Server, Driver

-----------------------------------------------------------------------------
(***************************************************************************)
(* The list and what is open.                                              *)
(***************************************************************************)

LEMMA WatchSets == Watched \in SUBSET Fds /\ Driven \in SUBSET Fds
BY DEF Watched, Driven

(* Nothing was opened or closed, and the driver's socket is as before. *)
LEMMA QuietStep ==
  ASSUME TypeOK, Orderly, UNCHANGED <<file, watches, cfd, stream>>,
         \A p \in Peers : peer[p] \in {"open", "left"} => peer'[p] \in {"open", "left"}
  PROVE  Orderly'
<1>1. SocketInv'
  BY DEF Orderly, SocketInv
<1>2. ClientInv'
  BY DEF Orderly, ClientInv
<1>3. Streaming' = Streaming
  BY DEF Streaming
<1>4. StreamInv'
  BY <1>3 DEF Orderly, StreamInv
<1>5. Watched' = Watched /\ Driven' = Driven
  BY <1>3 DEF Watched, Driven, Served
<1>6. WatchInv' /\ Len(watches') <= Cardinality(Fds)
  BY <1>5 DEF Orderly, WatchInv
<1> QED
  BY <1>1, <1>2, <1>4, <1>6 DEF Orderly

(* A client is accepted: its descriptor was free. *)
LEMMA AcceptStep ==
  ASSUME TypeOK, Orderly, FreeFds # {}, NEW p \in Peers, peer[p] = "pending",
         file' = [file EXCEPT ![Lowest] = p],
         watches' = AddFileWatch(watches, Lowest, FALSE),
         peer' = [peer EXCEPT ![p] = "open"], cfd' = [cfd EXCEPT ![p] = Lowest],
         stream' = stream
  PROVE  Orderly'
<1> DEFINE n == Lowest
<1>1. n \in Fds /\ file[n] = CLOSED
  BY LowestIsFree
<1>2. /\ file' = [file EXCEPT ![n] = p] /\ watches' = AddFileWatch(watches, n, FALSE)
      /\ cfd' = [cfd EXCEPT ![p] = n]
  OBVIOUS
<1> HIDE DEF n
<1>3. file \in [Fds -> Kinds] /\ cfd \in [Peers -> Fds \cup {NoFd}]
      /\ peer \in [Peers -> {"none", "pending", "open", "left", "done"}]
      /\ watches \in Seq(Watch)
  BY DEF TypeOK, Kinds
<1>4. /\ \A fd \in Fds : file'[fd] = IF fd = n THEN p ELSE file[fd]
      /\ \A q \in Peers : cfd'[q] = IF q = p THEN n ELSE cfd[q]
      /\ \A q \in Peers : peer'[q] = IF q = p THEN "open" ELSE peer[q]
  BY <1>2, <1>3
<1>5. SocketInv'
  BY <1>1, <1>4, KindFacts DEF Orderly, SocketInv
<1>6. ClientInv'
  <2>1. cfd[p] = NoFd
    BY <1>3 DEF Orderly, ClientInv
  <2>2. ASSUME NEW q \in Peers, cfd'[q] # NoFd
        PROVE  file'[cfd'[q]] = q /\ peer'[q] \in {"open", "left"}
    <3>1. CASE q = p
      BY <1>1, <1>4, <3>1
    <3>2. CASE q # p
      <4>1. cfd'[q] = cfd[q] /\ cfd[q] \in Fds /\ peer'[q] = peer[q]
        BY <1>3, <1>4, <2>2, <3>2
      <4>2. file[cfd[q]] = q /\ peer[q] \in {"open", "left"}
        BY <2>2, <4>1 DEF Orderly, ClientInv
      <4>3. cfd[q] # n
        BY <1>1, <4>2, KindFacts
      <4> QED
        BY <1>4, <4>1, <4>2, <4>3
    <3> QED
      BY <3>1, <3>2
  <2>3. ASSUME NEW fd \in Fds, file'[fd] \in Peers PROVE cfd'[file'[fd]] = fd
    <3>1. CASE fd = n
      BY <1>4, <3>1
    <3>2. CASE fd # n
      <4>1. file'[fd] = file[fd] /\ file[fd] \in Peers
        BY <1>4, <2>3, <3>2
      <4>2. cfd[file[fd]] = fd
        BY <4>1 DEF Orderly, ClientInv
      <4>3. file[fd] # p
        BY <2>1, <4>2, FdFacts
      <4> QED
        BY <1>4, <4>1, <4>2, <4>3
    <3> QED
      BY <3>1, <3>2
  <2> QED
    BY <2>2, <2>3 DEF ClientInv
<1>7. Streaming' = Streaming
  BY DEF Streaming
<1>8. StreamInv'
  <2>1. ASSUME stream.at = "connect" \/ Streaming
        PROVE  stream.sock \in Fds /\ file'[stream.sock] = STREAM
    <3>1. stream.sock \in Fds /\ file[stream.sock] = STREAM
      BY <2>1 DEF Orderly, StreamInv
    <3> QED
      BY <1>1, <1>4, <3>1, KindFacts
  <2> QED
    BY <1>7, <2>1 DEF Orderly, StreamInv
<1>9. Watched' = Watched \cup {n} /\ Driven' = Driven
  <2>1. p \in Served /\ Served' = Served
    BY KindFacts DEF Served
  <2>2. \A fd \in Fds : file'[fd] \in Served <=> file[fd] \in Served \/ fd = n
    BY <1>4, <2>1
  <2>3. Watched' = Watched \cup {n}
    BY <1>1, <2>1, <2>2 DEF Watched
  <2> QED
    BY <1>7, <2>3 DEF Driven
<1>10. n \notin Watched \cup Driven
  <2>1. n \notin Watched
    BY <1>1, KindFacts DEF Watched
  <2>2. n \notin Driven
    BY <1>1, KindFacts DEF Driven, Orderly, StreamInv
  <2> QED
    BY <2>1, <2>2
<1>11. WatchInv' /\ Len(watches') <= Cardinality(Fds)
  <2>1. Agree(watches, Watched, Driven) /\ Len(watches) <= Cardinality(Fds)
    BY DEF Orderly, WatchInv
  <2> DEFINE S1 == Watched' T1 == Driven' q == FALSE
  <2>2. /\ S1 = IF q THEN Watched ELSE Watched \cup {n}
        /\ T1 = IF q THEN Driven \cup {n} ELSE Driven
        /\ q \in BOOLEAN /\ watches' = AddFileWatch(watches, n, q)
    BY <1>2, <1>9
  <2> HIDE DEF S1, T1, q
  <2>3. Agree(watches', S1, T1) /\ Len(watches') <= Cardinality(Fds)
    BY <1>1, <1>3, <1>10, <2>1, <2>2, WatchSets, AddAgrees
  <2> QED
    BY <2>3 DEF WatchInv, S1, T1
<1> QED
  BY <1>5, <1>6, <1>8, <1>11 DEF Orderly

(* Clients are closed: what is closed is theirs. *)
LEMMA CloseClientsStep ==
  ASSUME TypeOK, Orderly, NEW ps \in SUBSET Clients, CloseClients(ps), stream' = stream
  PROVE  Orderly'
<1> DEFINE n == [fd \in Fds |-> Cardinality({p \in ps : cfd[p] = fd})]
<1>1. \A fd \in Fds : n[fd] \in Nat /\ (n[fd] = 0 <=> ~\E p \in ps : cfd[p] = fd)
  <2> SUFFICES ASSUME NEW fd \in Fds
               PROVE  /\ Cardinality({p \in ps : cfd[p] = fd}) \in Nat
                      /\ Cardinality({p \in ps : cfd[p] = fd}) = 0 <=> ~\E p \in ps : cfd[p] = fd
    OBVIOUS
  <2> DEFINE A == {p \in ps : cfd[p] = fd}
  <2>1. A \subseteq Peers /\ IsFiniteSet(Peers)
    BY ConstantsAssumption DEF Clients
  <2>2. A = {} <=> ~\E p \in ps : cfd[p] = fd
    OBVIOUS
  <2> HIDE DEF A
  <2>3. IsFiniteSet(A)
    BY <2>1, FS_Subset
  <2>4. Cardinality(A) \in Nat /\ (Cardinality(A) = 0 <=> A = {})
    BY <2>3, FS_CardinalityType, FS_EmptySet
  <2> QED
    BY <2>2, <2>4 DEF A
<1>2. n \in [Fds -> Nat] /\ watches' = RemoveFileWatches(watches, n)
  <2>1. n = [fd \in Fds |-> n[fd]]
    OBVIOUS
  <2>2. watches' = RemoveFileWatches(watches, n)
    BY DEF CloseClients
  <2> HIDE DEF n
  <2> QED
    BY <1>1, <2>1, <2>2
<1> HIDE DEF n
<1>3. file \in [Fds -> Kinds] /\ cfd \in [Peers -> Fds \cup {NoFd}] /\ watches \in Seq(Watch)
  BY DEF TypeOK, Kinds
<1>4. /\ \A fd \in Fds : file'[fd] = IF \E p \in ps : cfd[p] = fd THEN CLOSED ELSE file[fd]
      /\ \A p \in Peers : cfd'[p] = IF p \in ps THEN NoFd ELSE cfd[p]
      /\ \A p \in Peers : p \notin ps => peer'[p] = peer[p]
  BY DEF CloseClients
<1>5. \A p \in ps : p \in Peers /\ cfd[p] \in Fds /\ file[cfd[p]] = p
  BY <1>3 DEF Clients, Orderly, ClientInv
<1>6. SocketInv'
  <2>1. \A fd \in Fds : (\E p \in ps : cfd[p] = fd) => file[fd] \in Peers
    BY <1>5
  <2> QED
    BY <1>4, <2>1, KindFacts DEF Orderly, SocketInv
<1>7. ClientInv'
  <2>1. ASSUME NEW q \in Peers, cfd'[q] # NoFd
        PROVE  file'[cfd'[q]] = q /\ peer'[q] \in {"open", "left"}
    <3>1. q \notin ps /\ cfd'[q] = cfd[q] /\ cfd[q] \in Fds /\ peer'[q] = peer[q]
      BY <1>3, <1>4, <2>1
    <3>2. file[cfd[q]] = q /\ peer[q] \in {"open", "left"}
      BY <2>1, <3>1 DEF Orderly, ClientInv
    <3>3. ~\E p \in ps : cfd[p] = cfd[q]
      BY <1>5, <3>1, <3>2
    <3> QED
      BY <1>4, <3>1, <3>2, <3>3
  <2>2. ASSUME NEW fd \in Fds, file'[fd] \in Peers PROVE cfd'[file'[fd]] = fd
    <3>1. file'[fd] = file[fd] /\ ~\E p \in ps : cfd[p] = fd
      BY <1>4, <2>2, KindFacts
    <3>2. cfd[file[fd]] = fd
      BY <2>2, <3>1 DEF Orderly, ClientInv
    <3>3. file[fd] \notin ps
      BY <3>1, <3>2
    <3> QED
      BY <1>4, <2>2, <3>1, <3>2, <3>3
  <2> QED
    BY <2>1, <2>2 DEF ClientInv
<1>8. Streaming' = Streaming
  BY DEF Streaming
<1>9. StreamInv'
  <2>1. ASSUME stream.at = "connect" \/ Streaming
        PROVE  stream.sock \in Fds /\ file'[stream.sock] = STREAM
    <3>1. stream.sock \in Fds /\ file[stream.sock] = STREAM
      BY <2>1 DEF Orderly, StreamInv
    <3>2. ~\E p \in ps : cfd[p] = stream.sock
      BY <1>5, <3>1, KindFacts
    <3> QED
      BY <1>4, <3>1, <3>2
  <2> QED
    BY <1>8, <2>1 DEF Orderly, StreamInv
<1>10. Watched' = {fd \in Watched : n[fd] = 0} /\ Driven' = Driven
  <2>1. Served' = Served
    BY DEF Served
  <2>2. \A fd \in Fds : file'[fd] \in Served <=> file[fd] \in Served /\ n[fd] = 0
    BY <1>1, <1>4, KindFacts
  <2>3. Watched' = {fd \in Watched : n[fd] = 0}
    BY <2>1, <2>2 DEF Watched
  <2> QED
    BY <1>8, <2>3 DEF Driven
<1>11. WatchInv' /\ Len(watches') <= Cardinality(Fds)
  <2>1. Agree(watches, Watched, Driven) /\ Len(watches) <= Cardinality(Fds)
    BY DEF Orderly, WatchInv
  <2> DEFINE S1 == Watched'
  <2>2. S1 = {fd \in Watched : n[fd] = 0}
    BY <1>10
  <2> HIDE DEF S1
  <2>3. Agree(watches', S1, Driven) /\ Len(watches') = Len(watches)
    BY ZenonT(60), <1>2, <1>3, <2>1, <2>2, WatchSets, RemovesAgree
  <2> QED
    BY <1>10, <2>1, <2>3 DEF WatchInv, S1
<1> QED
  BY <1>6, <1>7, <1>9, <1>11 DEF Orderly

(* PlayerUDP closes its socket, if it was not closed before. *)
LEMMA CloseUdpStep ==
  ASSUME TypeOK, Orderly, NEW us \in SUBSET Ports, CloseUdp(us), stray' = {},
         UNCHANGED <<cfd, peer, stream>>
  PROVE  Orderly'
<1> DEFINE n == [fd \in Fds |-> IF fd = udpfd THEN Cardinality(us) ELSE 0]
<1>1. Cardinality(us) \in Nat /\ (Cardinality(us) = 0 <=> us = {})
  <2>1. IsFiniteSet(us)
    BY ConstantsAssumption, FS_Subset
  <2> QED
    BY <2>1, FS_CardinalityType, FS_EmptySet
<1>2. n \in [Fds -> Nat] /\ watches' = RemoveFileWatches(watches, n)
  BY <1>1 DEF CloseUdp
<1>3. \A fd \in Fds : n[fd] = 0 <=> ~(fd = udpfd /\ us # {})
  BY <1>1
<1> HIDE DEF n
<1>4. file \in [Fds -> Kinds] /\ cfd \in [Peers -> Fds \cup {NoFd}] /\ watches \in Seq(Watch)
  BY DEF TypeOK, Kinds
<1>5. udpfd \in Fds /\ udpfd # NoFd
  BY FdFacts DEF udpfd
<1>6. \A fd \in Fds : file'[fd] = IF fd = udpfd /\ us # {} THEN CLOSED ELSE file[fd]
  <2>1. CASE us = {}
    BY <2>1 DEF CloseUdp
  <2>2. CASE us # {}
    <3>1. file' = [file EXCEPT ![udpfd] = CLOSED]
      BY <1>5, <2>2 DEF CloseUdp, Closing
    <3> QED
      BY <1>4, <1>5, <2>2, <3>1
  <2> QED
    BY <2>1, <2>2
<1>7. us # {} => file[udpfd] \in {UDP, CLOSED}
  BY <1>5 DEF CloseUdp, Closing
<1>8. SocketInv'
  BY <1>6, <1>7, KindFacts DEF Orderly, SocketInv
<1>9. ClientInv'
  <2>1. \A q \in Peers : cfd[q] # NoFd => cfd[q] \in Fds /\ file'[cfd[q]] = q
    BY <1>4, <1>6, <1>7, KindFacts DEF Orderly, ClientInv
  <2>2. \A fd \in Fds : file'[fd] \in Peers => file'[fd] = file[fd]
    BY <1>6, KindFacts
  <2> QED
    BY <2>1, <2>2 DEF Orderly, ClientInv
<1>10. Streaming' = Streaming
  BY DEF Streaming
<1>11. StreamInv'
  <2>1. ASSUME stream.at = "connect" \/ Streaming
        PROVE  stream.sock \in Fds /\ file'[stream.sock] = STREAM
    BY <1>6, <1>7, <2>1, KindFacts DEF Orderly, StreamInv
  <2> QED
    BY <1>10, <2>1 DEF Orderly, StreamInv
<1>12. Watched' = {fd \in Watched : n[fd] = 0} /\ Driven' = Driven
  <2>1. Served' = Served
    BY DEF Served
  <2>2. \A fd \in Fds : file'[fd] \in Served <=> file[fd] \in Served /\ n[fd] = 0
    BY <1>3, <1>6, KindFacts
  <2>3. Watched' = {fd \in Watched : n[fd] = 0}
    BY <2>1, <2>2 DEF Watched
  <2> QED
    BY <1>10, <2>3 DEF Driven
<1>13. WatchInv' /\ Len(watches') <= Cardinality(Fds)
  <2>1. Agree(watches, Watched, Driven) /\ Len(watches) <= Cardinality(Fds)
    BY DEF Orderly, WatchInv
  <2> DEFINE S1 == Watched'
  <2>2. S1 = {fd \in Watched : n[fd] = 0}
    BY <1>12
  <2> HIDE DEF S1
  <2>3. Agree(watches', S1, Driven) /\ Len(watches') = Len(watches)
    BY ZenonT(60), <1>2, <1>4, <2>1, <2>2, WatchSets, RemovesAgree
  <2> QED
    BY <1>12, <2>1, <2>3 DEF WatchInv, S1
<1> QED
  BY <1>8, <1>9, <1>11, <1>13 DEF Orderly

(* The driver opens or closes a socket of its own: neither the server's    *)
(* sockets nor the clients' are touched.                                   *)
LEMMA DriverFile ==
  ASSUME TypeOK, Orderly, UNCHANGED <<cfd, peer>>,
         \A fd \in Fds : \/ file'[fd] = file[fd]
                         \/ file[fd] \in {STREAM, CLOSED} /\ file'[fd] \in {STREAM, CLOSED}
  PROVE  SocketInv' /\ ClientInv' /\ Watched' = Watched
<1>1. cfd \in [Peers -> Fds \cup {NoFd}]
  BY DEF TypeOK
<1>2. SocketInv'
  BY KindFacts DEF Orderly, SocketInv
<1>3. ClientInv'
  <2>1. \A q \in Peers : cfd[q] # NoFd => cfd[q] \in Fds /\ file'[cfd[q]] = q
    BY <1>1, KindFacts DEF Orderly, ClientInv
  <2>2. \A fd \in Fds : file'[fd] \in Peers => file'[fd] = file[fd]
    BY KindFacts
  <2> QED
    BY <2>1, <2>2 DEF Orderly, ClientInv
<1>4. Watched' = Watched
  <2>1. Served' = Served
    BY DEF Served
  <2>2. \A fd \in Fds : file'[fd] \in Served <=> file[fd] \in Served
    BY KindFacts
  <2> QED
    BY <2>1, <2>2 DEF Watched
<1> QED
  BY <1>2, <1>3, <1>4

LEMMA StreamType ==
  ASSUME TypeOK
  PROVE  /\ stream.at \in StreamSteps /\ stream.sock \in Fds \cup {NoFd}
         /\ stream.connected \in BOOLEAN
BY DEF TypeOK

(* Steps of the driver that leave the list alone: it was not connected and *)
(* is not, or it was and is, with the same socket.                         *)
LEMMA DriverSameList ==
  ASSUME TypeOK, Orderly, UNCHANGED <<cfd, peer, watches>>,
         StreamStart \/ StreamRefused \/ StreamGoes \/ StreamOpen \/ StreamCloses,
         stray' = {}
  PROVE  Orderly'
<1> USE StreamType DEF StreamSteps
<1>1. \A fd \in Fds : \/ file'[fd] = file[fd]
                      \/ file[fd] \in {STREAM, CLOSED} /\ file'[fd] \in {STREAM, CLOSED}
  <2>1. CASE StreamStart \/ StreamRefused \/ StreamGoes
    BY <2>1 DEF StreamStart, StreamRefused, StreamGoes
  <2>2. CASE StreamOpen
    <3>1. CASE FreeFds = {}
      BY <2>2, <3>1 DEF StreamOpen
    <3>2. CASE FreeFds # {}
      <4>1. file[Lowest] = CLOSED /\ file' = [file EXCEPT ![Lowest] = STREAM]
        BY <2>2, <3>2, LowestIsFree DEF StreamOpen
      <4> QED
        BY <4>1 DEF TypeOK
    <3> QED
      BY <3>1, <3>2
  <2>3. CASE StreamCloses
    <3>1. stray = {} /\ Closing(stream.sock, "stream", STREAM)
      BY <2>3 DEF StreamCloses, Closing
    <3>2. CASE stream.sock = NoFd
      BY <3>1, <3>2 DEF Closing
    <3>3. CASE stream.sock # NoFd
      <4>1. file[stream.sock] \in {STREAM, CLOSED} /\ file' = [file EXCEPT ![stream.sock] = CLOSED]
        BY <3>1, <3>3 DEF Closing
      <4> QED
        BY <4>1 DEF TypeOK
    <3> QED
      BY <3>2, <3>3
  <2> QED
    BY <2>1, <2>2, <2>3
<1>2. SocketInv' /\ ClientInv' /\ Watched' = Watched
  BY <1>1, DriverFile
<1>3. CASE StreamStart
  <2>1. stream'.at = "open" /\ stream'.connected = stream.connected /\ stream.at = "off" /\ file' = file
    BY <1>3 DEF StreamStart, TypeOK
  <2>2. ~stream.connected
    BY <2>1 DEF Orderly, StreamInv
  <2>3. StreamInv' /\ Driven' = Driven
    BY <2>1, <2>2 DEF StreamInv, Driven, Streaming
  <2> QED
    BY <1>2, <2>3 DEF Orderly, WatchInv
<1>4. CASE StreamRefused
  <2>1. stream'.at = "messages" /\ stream'.connected = stream.connected /\ stream.at = "connect"
    BY <1>4 DEF StreamRefused, TypeOK
  <2>2. ~stream.connected
    BY <2>1 DEF Orderly, StreamInv
  <2>3. StreamInv' /\ Driven' = Driven
    BY <2>1, <2>2 DEF StreamInv, Driven, Streaming
  <2> QED
    BY <1>2, <2>3 DEF Orderly, WatchInv
<1>5. CASE StreamGoes
  <2>1. /\ stream.at \in {"run", "messages"} /\ file' = file
        /\ stream'.connected = stream.connected /\ stream'.sock = stream.sock
        /\ stream'.at \in {"run", "messages"} \/ (stream'.at = "open" /\ ~stream.connected)
    BY <1>5 DEF StreamGoes, TypeOK
  <2>2. Streaming' <=> Streaming
    BY <2>1 DEF Streaming
  <2>3. StreamInv'
    BY <2>1, <2>2 DEF Orderly, StreamInv
  <2>4. Driven' = Driven
    BY <2>1, <2>2 DEF Driven
  <2> QED
    BY <1>2, <2>3, <2>4 DEF Orderly, WatchInv
<1>6. CASE StreamOpen
  <2>1. /\ stream.at = "open" /\ stream'.connected = stream.connected
        /\ stream'.at \in {"connect", "messages"}
    <3>1. CASE FreeFds = {}
      BY ZenonT(60), <1>6, <3>1 DEF StreamOpen, TypeOK
    <3>2. CASE FreeFds # {}
      BY <1>6, <3>2 DEF StreamOpen, TypeOK
    <3> QED
      BY <3>1, <3>2
  <2>2. ~stream.connected
    BY <2>1 DEF Orderly, StreamInv
  <2>3. stream'.at = "connect" => stream'.sock \in Fds /\ file'[stream'.sock] = STREAM
    <3> SUFFICES ASSUME stream'.at = "connect"
                 PROVE  stream'.sock \in Fds /\ file'[stream'.sock] = STREAM
      OBVIOUS
    <3>1. FreeFds # {}
      BY <1>6 DEF StreamOpen, TypeOK
    <3>2. stream'.sock = Lowest /\ file' = [file EXCEPT ![Lowest] = STREAM]
      BY <1>6, <3>1 DEF StreamOpen, TypeOK
    <3>3. Lowest \in Fds
      BY <3>1, LowestIsFree
    <3> QED
      BY <3>2, <3>3 DEF TypeOK
  <2>4. StreamInv' /\ Driven' = Driven
    BY <2>1, <2>2, <2>3 DEF StreamInv, Driven, Streaming
  <2> QED
    BY <1>2, <2>4 DEF Orderly, WatchInv
<1>7. CASE StreamCloses
  <2>1. /\ stream.at \in {"close", "quit"} /\ ~stream'.connected
        /\ stream'.at \in {"messages", "off"}
    BY <1>7 DEF StreamCloses, TypeOK
  <2>2. StreamInv' /\ Driven' = Driven
    BY <2>1 DEF StreamInv, Driven, Streaming
  <2> QED
    BY <1>2, <2>2 DEF Orderly, WatchInv
<1> QED
  BY <1>3, <1>4, <1>5, <1>6, <1>7

LEMMA DriverAdds ==
  ASSUME TypeOK, Orderly, StreamConnect
  PROVE  Orderly'
<1> DEFINE n == stream.sock
<1>1. /\ stream.at = "connect" /\ stream'.at = "run" /\ stream'.connected
      /\ stream'.sock = n
  BY DEF StreamConnect, TypeOK
<1>2. n \in Fds /\ file[n] = STREAM /\ ~stream.connected
  BY <1>1 DEF Orderly, StreamInv
<1>3. SocketInv' /\ ClientInv' /\ Watched' = Watched
  BY DriverFile DEF StreamConnect
<1>4. file' = file /\ watches' = AddFileWatch(watches, n, TRUE)
  BY DEF StreamConnect
<1> HIDE DEF n
<1>5. StreamInv'
  BY <1>1, <1>2, <1>4 DEF StreamInv, Streaming
<1>6. Driven = {} /\ Driven' = {n}
  BY <1>1, <1>2 DEF Driven, Streaming
<1>7. WatchInv' /\ Len(watches') <= Cardinality(Fds)
  <2>1. /\ Agree(watches, Watched, Driven) /\ Len(watches) <= Cardinality(Fds)
        /\ watches \in Seq(Watch)
    BY DEF Orderly, WatchInv, TypeOK
  <2> DEFINE S1 == Watched' T1 == Driven' q == TRUE
  <2>2. /\ S1 = IF q THEN Watched ELSE Watched \cup {n}
        /\ T1 = IF q THEN Driven \cup {n} ELSE Driven
        /\ q \in BOOLEAN /\ watches' = AddFileWatch(watches, n, q)
    BY <1>3, <1>4, <1>6
  <2>3. n \notin Watched \cup Driven
    BY <1>2, <1>6, KindFacts DEF Watched
  <2> HIDE DEF S1, T1, q
  <2>4. Agree(watches', S1, T1) /\ Len(watches') <= Cardinality(Fds)
    BY <1>2, <2>1, <2>2, <2>3, WatchSets, AddAgrees
  <2> QED
    BY <2>4 DEF WatchInv, S1, T1
<1> QED
  BY <1>3, <1>5, <1>7 DEF Orderly

(* CloseTerm takes the entry away before it closes the socket. *)
LEMMA DriverRemoves ==
  ASSUME TypeOK, Orderly, StreamFails \/ StreamCancelled
  PROVE  Orderly'
<1> DEFINE n == stream.sock
<1>1. stream'.at \in {"close", "quit"}
  BY DEF StreamFails, StreamCancelled, TypeOK
<1>2. SocketInv' /\ ClientInv' /\ Watched' = Watched
  BY DriverFile DEF StreamFails, StreamCancelled
<1>3. watches' = RemoveFileWatch(watches, n, TRUE)
  BY DEF StreamFails, StreamCancelled
<1>4. StreamInv' /\ Driven' = {}
  BY <1>1 DEF StreamInv, Driven, Streaming
<1>5. Driven \ {n} = {}
  BY DEF Driven
<1> HIDE DEF n
<1>6. WatchInv' /\ Len(watches') <= Cardinality(Fds)
  <2>1. /\ Agree(watches, Watched, Driven) /\ Len(watches) <= Cardinality(Fds)
        /\ watches \in Seq(Watch)
    BY DEF Orderly, WatchInv, TypeOK
  <2> DEFINE T1 == Driven' a == watches'
  <2>2. T1 = Driven \ {n} /\ a = RemoveFileWatch(watches, n, TRUE)
    BY <1>3, <1>4, <1>5
  <2> HIDE DEF T1, a
  <2>3. Agree(a, Watched, T1) /\ Len(a) = Len(watches)
    BY <2>1, <2>2, WatchSets, RemoveAgrees
  <2> QED
    BY <1>2, <2>1, <2>3 DEF WatchInv, T1, a
<1> QED
  BY <1>2, <1>4, <1>6 DEF Orderly

-----------------------------------------------------------------------------
(***************************************************************************)
(* The theorems.                                                           *)
(***************************************************************************)

LEMMA InitStep == Init => IInv
<1> SUFFICES ASSUME Init PROVE IInv
  OBVIOUS
<1> DEFINE e1 == [fd |-> First, queue |-> FALSE] e2 == [fd |-> Second, queue |-> FALSE]
<1>1. e1 \in Watch /\ e2 \in Watch /\ e1.fd = First /\ e2.fd = Second /\ ~e1.queue /\ ~e2.queue
  BY FdFacts DEF Watch
<1>2. watches = <<e1, e2>>
  BY DEF Init
<1> HIDE DEF e1, e2
<1>3. watches \in Seq(Watch) /\ Len(watches) = 2 /\ DOMAIN watches = {1, 2}
  <2>1. watches \in Seq(Watch) /\ Len(watches) = 2
    BY <1>1, <1>2
  <2>2. DOMAIN watches = 1..2
    BY <2>1, LenProperties
  <2> QED
    BY <2>1, <2>2
<1>4. watches[1] = e1 /\ watches[2] = e2
  BY <1>2
<1>5. \A fd \in Fds : file[fd] = IF fd = First THEN LISTENER ELSE IF fd = Second THEN UDP ELSE CLOSED
  BY DEF Init
<1>6. << >> \in SeqOf(Item, MaxDatagrams)
  <2>1. MaxDatagrams \in Nat
    BY ConstantsAssumption
  <2>2. \A s \in Seq(Item) : Len(s) <= MaxDatagrams => s \in SeqOf(Item, MaxDatagrams)
    BY <2>1, BoundedList
  <2>3. << >> \in Seq(Item) /\ Len(<< >>) <= MaxDatagrams
    BY <2>1, EmptySeq
  <2> QED
    BY <2>2, <2>3, Zenon
<1>7. TypeOK
  <2>1. stream \in [at : StreamSteps, sock : Fds \cup {NoFd}, connected : BOOLEAN]
    BY DEF Init, StreamSteps
  <2>2. file \in [Fds -> {CLOSED, LISTENER, UDP, STREAM} \cup Peers]
    BY DEF Init
  <2>3. /\ peer \in [Peers -> {"none", "pending", "open", "left", "done"}]
        /\ cfd \in [Peers -> Fds \cup {NoFd}]
    BY DEF Init
  <2>4. dgrams \in SeqOf([from : Ports, empty : BOOLEAN], MaxDatagrams)
    BY <1>6 DEF Init, Item
  <2>5. pc \in ServerSteps
    BY DEF Init, ServerSteps
  <2> QED
    BY <1>3, <2>1, <2>2, <2>3, <2>4, <2>5 DEF Init, TypeOK
<1>8. SocketInv
  BY <1>5, FdFacts, KindFacts DEF SocketInv
<1>9. ClientInv
  BY <1>5, KindFacts DEF ClientInv, Init
<1>10. StreamInv /\ Driven = {}
  BY DEF StreamInv, Streaming, Driven, Init
<1>11. Watched = {First, Second}
  BY <1>5, FdFacts, KindFacts DEF Watched
<1>12. WatchInv
  BY <1>1, <1>3, <1>4, <1>10, <1>11, FdFacts DEF WatchInv, Agree
<1>13. Len(watches) <= Cardinality(Fds)
  <2>1. Cardinality(Fds) >= 2 /\ Cardinality(Fds) \in Nat
    BY ConstantsAssumption, FS_CardinalityType
  <2> QED
    BY <1>3, <2>1
<1> QED
  BY <1>7, <1>8, <1>9, <1>10, <1>12, <1>13 DEF IInv, Orderly

LEMMA StrayStays ==
  ASSUME [Next]_vars
  PROVE  stray \subseteq stray'
BY DEF Next, Server, Driver, vars, WaitBegin, SelectFails, SelectReturns, WaitMatch, Accept,
       Read, Write, ReadUdp, WriteUdp, CloseClients, CloseUdp, Closing, StreamStart, StreamOpen,
       StreamConnect, StreamRefused, StreamGoes, StreamFails, StreamCancelled, StreamCloses,
       PeerConnects, PeerLeaves, Datagram

LEMMA OrderStep ==
  ASSUME TypeOK, Orderly, [Next]_vars, stray' = {}
  PROVE  Orderly'
<1>1. ASSUME WaitBegin \/ SelectFails \/ SelectReturns \/ WaitMatch \/ UNCHANGED vars
      PROVE  Orderly'
  BY <1>1, QuietStep DEF WaitBegin, SelectFails, SelectReturns, WaitMatch, vars
<1>2. ASSUME NEW p \in Peers, PeerConnects(p) \/ PeerLeaves(p) PROVE Orderly'
  <2>1. \A q \in Peers : peer[q] \in {"open", "left"} => peer'[q] \in {"open", "left"}
    BY <1>2 DEF PeerConnects, PeerLeaves, TypeOK
  <2> QED
    BY <1>2, <2>1, QuietStep DEF PeerConnects, PeerLeaves
<1>3. ASSUME NEW u \in Ports, NEW e \in BOOLEAN, Datagram(u, e) PROVE Orderly'
  BY <1>3, QuietStep DEF Datagram
<1>4. ASSUME Accept PROVE Orderly'
  <2>1. CASE UNCHANGED <<file, watches, peer, cfd>>
    BY <1>4, <2>1, QuietStep DEF Accept
  <2>2. ASSUME FreeFds # {}, NEW p \in {p \in Peers : peer[p] = "pending"},
               file' = [file EXCEPT ![Lowest] = p],
               watches' = AddFileWatch(watches, Lowest, FALSE),
               peer' = [peer EXCEPT ![p] = "open"], cfd' = [cfd EXCEPT ![p] = Lowest]
        PROVE  Orderly'
    <3>1. stream' = stream /\ p \in Peers /\ peer[p] = "pending"
      BY <1>4 DEF Accept
    <3> QED
      BY <2>2, <3>1, AcceptStep
  <2> QED
    BY <1>4, <2>1, <2>2 DEF Accept
<1>5. ASSUME Read PROVE Orderly'
  <2>1. PICK ps \in SUBSET Foreign : CloseClients(Broken \cup ps)
    BY <1>5 DEF Read
  <2>2. Broken \cup ps \in SUBSET Clients /\ stream' = stream
    BY <1>5, <2>1 DEF Foreign, Broken, Read
  <2> QED
    BY <2>1, <2>2, CloseClientsStep
<1>6. ASSUME Write PROVE Orderly'
  <2>1. PICK ps \in SUBSET (Broken \cup Foreign) : CloseClients(ps)
    BY <1>6 DEF Write
  <2>2. ps \in SUBSET Clients /\ stream' = stream
    BY <1>6, <2>1 DEF Foreign, Broken, Write
  <2> QED
    BY <2>1, <2>2, CloseClientsStep
<1>7. ASSUME ReadUdp PROVE Orderly'
  <2>1. CASE UNCHANGED <<file, watches, udp, dgrams, stray>>
    BY <1>7, <2>1, QuietStep DEF ReadUdp
  <2>2. ASSUME NEW d \in Received, CloseUdp(udp \cap IF d.empty THEN {d.from} ELSE {})
        PROVE  Orderly'
    <3>1. udp \cap (IF d.empty THEN {d.from} ELSE {}) \in SUBSET Ports
      BY DEF TypeOK
    <3>2. UNCHANGED <<cfd, peer, stream>>
      BY <1>7 DEF ReadUdp
    <3> QED
      BY <2>2, <3>1, <3>2, CloseUdpStep
  <2> QED
    BY <1>7, <2>1, <2>2 DEF ReadUdp
<1>8. ASSUME WriteUdp PROVE Orderly'
  <2>1. PICK us \in SUBSET udp : CloseUdp(us)
    BY <1>8 DEF WriteUdp
  <2>2. us \in SUBSET Ports /\ UNCHANGED <<cfd, peer, stream>>
    BY <1>8, <2>1 DEF TypeOK, WriteUdp
  <2> QED
    BY <2>1, <2>2, CloseUdpStep
<1>9. ASSUME StreamStart \/ StreamRefused \/ StreamGoes \/ StreamOpen \/ StreamCloses
      PROVE  Orderly'
  <2>1. UNCHANGED <<cfd, peer, watches>>
    BY <1>9 DEF StreamStart, StreamRefused, StreamGoes, StreamOpen, StreamCloses
  <2> QED
    BY <1>9, <2>1, DriverSameList
<1> QED
  BY <1>1, <1>2, <1>3, <1>4, <1>5, <1>6, <1>7, <1>8, <1>9, DriverAdds, DriverRemoves
     DEF Next, Server, Driver

(* The inductive invariant of FileWatcher and of the threads that open,    *)
(* watch and close descriptors.                                            *)
THEOREM WatchInvariant == Spec => []IInv
<1>1. IInv /\ [Next]_vars => IInv'
  BY TypeStep, StrayStays, OrderStep DEF IInv
<1> QED
  BY <1>1, InitStep, PTL DEF Spec

(* AddFileWatch and RemoveFileWatch keep the list of watches equal to what *)
(* is open and should be watched, each once and with its queue, whatever   *)
(* the order in which the server thread and the driver open and close,     *)
(* until somebody closes a descriptor that is not his.                     *)
THEOREM ListIsWhatIsOpen == Spec => []WatchesMatchFiles
<1>1. IInv => WatchesMatchFiles
  <2> SUFFICES ASSUME TypeOK, Orderly PROVE WatchesMatchFiles
    BY DEF IInv, WatchesMatchFiles
  <2> DEFINE live == {i \in DOMAIN watches : watches[i].fd # NoFd}
             f == [i \in live |-> <<watches[i].fd, watches[i].queue>>]
  <2>1. Agree(watches, Watched, Driven)
    BY DEF Orderly, WatchInv
  <2>2. \A i \in DOMAIN watches : watches[i].queue \in BOOLEAN
    <3>1. \A i \in DOMAIN watches : watches[i] \in Watch
      BY ElementOfSeq, LenProperties DEF TypeOK
    <3> QED
      BY <3>1 DEF Watch
  <2>3. Owned = {<<fd, FALSE>> : fd \in Watched} \cup {<<fd, TRUE>> : fd \in Driven}
    <3>1. Watched = {fd \in Fds : file[fd] \in {LISTENER, UDP} \cup Peers}
      BY DEF Watched, Served
    <3>2. CASE Streaming
      <4>1. Driven = {stream.sock}
        BY <3>2 DEF Driven, Orderly, StreamInv
      <4>2. {<<fd, TRUE>> : fd \in Driven} = {<<stream.sock, TRUE>>}
        BY <4>1
      <4> QED
        BY <3>1, <3>2, <4>2 DEF Owned, Streaming
    <3>3. CASE ~Streaming
      <4>1. Driven = {}
        BY <3>3 DEF Driven
      <4>2. {<<fd, TRUE>> : fd \in Driven} = {}
        BY <4>1
      <4> QED
        BY <3>1, <3>3, <4>2 DEF Owned, Streaming
    <3> QED
      BY <3>2, <3>3
  <2>4. \A i \in live : f[i] \in Owned
    <3> SUFFICES ASSUME NEW i \in live PROVE <<watches[i].fd, watches[i].queue>> \in Owned
      OBVIOUS
    <3>1. CASE watches[i].queue
      <4>1. watches[i].queue = TRUE /\ watches[i].fd \in Driven
        BY <2>1, <2>2, <3>1 DEF Agree
      <4> QED
        BY <2>3, <4>1
    <3>2. CASE ~watches[i].queue
      <4>1. watches[i].queue = FALSE /\ watches[i].fd \in Watched
        BY <2>1, <2>2, <3>2 DEF Agree
      <4> QED
        BY <2>3, <4>1
    <3> QED
      BY <3>1, <3>2
  <2>5. \A o \in Owned : \E i \in live : f[i] = o
    <3> SUFFICES ASSUME NEW o \in Owned
                 PROVE  \E i \in live : <<watches[i].fd, watches[i].queue>> = o
      OBVIOUS
    <3>1. CASE \E fd \in Watched : o = <<fd, FALSE>>
      <4>1. PICK fd \in Watched : o = <<fd, FALSE>>
        BY <3>1
      <4>2. PICK i \in DOMAIN watches : watches[i].fd = fd /\ ~watches[i].queue
        BY <2>1 DEF Agree
      <4>3. fd # NoFd /\ watches[i].queue = FALSE
        BY <2>2, <4>2, FdFacts DEF Watched
      <4> QED
        BY <4>1, <4>2, <4>3
    <3>2. CASE \E fd \in Driven : o = <<fd, TRUE>>
      <4>1. PICK fd \in Driven : o = <<fd, TRUE>>
        BY <3>2
      <4>2. PICK i \in DOMAIN watches : watches[i].fd = fd /\ watches[i].queue
        BY <2>1 DEF Agree
      <4>3. fd # NoFd /\ watches[i].queue = TRUE
        BY <2>2, <4>2, FdFacts DEF Driven
      <4> QED
        BY <4>1, <4>2, <4>3
    <3> QED
      BY <2>3, <3>1, <3>2
  <2>6. \A i, j \in live : f[i] = f[j] => i = j
    BY <2>1 DEF Agree
  <2>7. {<<watches[i].fd, watches[i].queue>> : i \in live} = Owned
    BY <2>4, <2>5
  <2>8. Cardinality(live) = Cardinality(Owned)
    <3>0. IsFiniteSet(live)
      <4>1. Len(watches) \in Nat /\ live \subseteq 1..Len(watches)
        BY LenProperties DEF TypeOK
      <4>2. IsFiniteSet(1..Len(watches))
        BY <4>1, FS_Interval
      <4> HIDE DEF live
      <4> QED
        BY <4>1, <4>2, FS_Subset
    <3>1. f \in [live -> Owned]
      BY <2>4
    <3> HIDE DEF f, live
    <3>2. f \in Injection(live, Owned)
      BY <2>6, <3>1 DEF Injection, IsInjective
    <3>3. f \in Surjection(live, Owned)
      BY <2>5, <3>1 DEF Surjection
    <3> QED
      BY <3>0, <3>2, <3>3, FS_Surjection
  <2> QED
    BY <2>7, <2>8 DEF WatchesMatchFiles
<1> QED
  BY <1>1, WatchInvariant, PTL

(* The list does not grow with the number of times the driver connects: it *)
(* is never longer than the descriptors are many.                          *)
THEOREM ListIsBounded == Spec => []WatchListBounded
<1>1. IInv => WatchListBounded
  BY DEF IInv, Orderly, WatchListBounded
<1> QED
  BY <1>1, WatchInvariant, PTL
=============================================================================
