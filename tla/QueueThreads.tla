---------------------------- MODULE QueueThreads ----------------------------
(***************************************************************************)
(* One MessageQueue shared by the threads that push onto it and the one    *)
(* thread that owns it: the server thread for a client's queue, the driver *)
(* thread for a driver's InQueue.  Each critical section of message.cc is  *)
(* one step; what the code does after Unlock() is a step of its own, so    *)
(*   Push  = Push (locked part), Notify (unlocked filter test, broadcast)  *)
(*   Wait  = WaitCheck (locked scan), WaitBlock (condMutex, cond_wait),    *)
(*           ended by a broadcast, a timeout or a spurious wakeup.         *)
(* The owner pops, waits, and sets filters, rules and the replace flag.    *)
(* The pull mode of a client's queue is in ClientLibrary, with the client. *)
(***************************************************************************)
EXTENDS MessageQueue, FiniteSets

CONSTANTS
  Producers,      \* threads that push onto the queue
  Headers,        \* headers they push
  Rules,          \* replacement rules the owner may add
  Filters,        \* filters the owner may set
  ReplaceFlags,   \* Replace arguments of the constructor and of SetReplace
  Timeouts,       \* does the owner pass a timeout to Wait?
  MaxlenInit,     \* the constructor's Maxlen argument
  MaxMsgs         \* bound on the number of messages ever created

ASSUME ConstantsAssumption ==
  /\ Headers \subseteq Header
  /\ Rules \subseteq Rule
  /\ Filters \subseteq FilterSpec
  /\ ReplaceFlags \subseteq BOOLEAN /\ Timeouts \subseteq BOOLEAN
  /\ MaxlenInit \in Nat /\ MaxMsgs \in Nat

VARIABLES
  q,          \* the queue
  notify,     \* notify[p]: message p has queued and not yet signalled, or None
  owner,      \* what the owning thread is doing
  timed,      \* the owner's current Wait has a timeout
  nextId,     \* number of the next message
  sent,       \* history: the messages Push was called with
  got,        \* history: the messages Pop returned
  replaced,   \* history: the values q.Replace has had
  since       \* history: nextId when the owner went to sleep

vars == <<q, notify, owner, timed, nextId, sent, got, replaced, since>>
histories == <<sent, got, replaced, since>>

None == [type |-> 0, subtype |-> 0, addr |-> 0, id |-> 0]

OwnerStates == {"idle", "checked", "blocked"}

TypeOK ==
  /\ q \in QueueType
  /\ notify \in [Producers -> Message \cup {None}]
  /\ owner \in OwnerStates
  /\ timed \in BOOLEAN
  /\ nextId \in Nat
  /\ sent \subseteq Message /\ got \subseteq Message
  /\ replaced \subseteq BOOLEAN /\ since \in Nat

Init ==
  /\ \E b \in ReplaceFlags : q = NewQueue(b, MaxlenInit)
  /\ notify = [p \in Producers |-> None]
  /\ owner = "idle" /\ timed = FALSE
  /\ nextId = 1
  /\ sent = {} /\ got = {} /\ replaced = {q.Replace} /\ since = 0

(***************************************************************************)
(* Producers.                                                              *)
(***************************************************************************)
PushMsg(p, h) ==
  LET m == WithId(h, nextId) IN
  /\ notify[p] = None
  /\ nextId <= MaxMsgs
  /\ nextId' = nextId + 1
  /\ q' = Push(q, m)
  /\ notify' = IF Queues(q, m) THEN [notify EXCEPT ![p] = m] ELSE notify
  /\ sent' = sent \cup {m}
  /\ UNCHANGED <<owner, timed, got, replaced, since>>

(* pthread_cond_broadcast wakes the owner only if it is in cond_wait. *)
DataAvailable == owner' = IF owner = "blocked" THEN "idle" ELSE owner

(* Mutation: signal only a queue that was empty before. *)
NotifyIfFirst(p) ==
  /\ notify[p] # None
  /\ IF FilterFriendly(q, notify[p]) /\ Len(q.msgs) = 1
     THEN DataAvailable ELSE owner' = owner
  /\ notify' = [notify EXCEPT ![p] = None]
  /\ UNCHANGED <<q, timed, nextId, histories>>

(* The test of the filter in Push, made after the lock has been released. *)
Notify(p) ==
  /\ notify[p] # None
  /\ IF FilterFriendly(q, notify[p]) THEN DataAvailable ELSE owner' = owner
  /\ notify' = [notify EXCEPT ![p] = None]
  /\ UNCHANGED <<q, timed, nextId, histories>>

(***************************************************************************)
(* The owner.                                                              *)
(***************************************************************************)
PopMsg ==
  /\ owner = "idle"
  /\ \E i \in PopIndex(q) :
       /\ q' = PopAt(q, i)
       /\ got' = got \cup {q.msgs[i]}
  /\ UNCHANGED <<notify, owner, timed, nextId, sent, replaced, since>>

SetQueueFilter(f) ==
  /\ owner = "idle"
  /\ q' = SetFilter(q, f)
  /\ UNCHANGED <<notify, owner, timed, nextId, histories>>

ClearQueueFilter ==
  /\ owner = "idle"
  /\ q' = ClearFilter(q)
  /\ UNCHANGED <<notify, owner, timed, nextId, histories>>

AddRule(r) ==
  /\ owner = "idle"
  /\ q' = AddReplaceRule(q, r)
  /\ UNCHANGED <<notify, owner, timed, nextId, histories>>

SetQueueReplace(b) ==
  /\ owner = "idle"
  /\ q' = SetReplace(q, b)
  /\ replaced' = replaced \cup {b}
  /\ UNCHANGED <<notify, owner, timed, nextId, sent, got, since>>

WaitCheck(t) ==
  /\ owner = "idle"
  /\ ~\E i \in DOMAIN q.msgs : FilterFriendly(q, q.msgs[i])
  /\ owner' = "checked"
  /\ timed' = t
  /\ UNCHANGED <<q, notify, nextId, histories>>

WaitBlock ==
  /\ owner = "checked"
  /\ owner' = "blocked"
  /\ since' = nextId
  /\ UNCHANGED <<q, notify, timed, nextId, sent, got, replaced>>

(* Mutation: wait again instead of returning. *)
WaitAgain ==
  /\ owner = "blocked" /\ timed
  /\ UNCHANGED <<q, notify, owner, timed, nextId, histories>>

WaitTimeout ==
  /\ owner = "blocked" /\ timed
  /\ owner' = "idle"
  /\ UNCHANGED <<q, notify, timed, nextId, histories>>

SpuriousWakeup ==
  /\ owner = "blocked"
  /\ owner' = "idle"
  /\ UNCHANGED <<q, notify, timed, nextId, histories>>

Next ==
  \/ \E p \in Producers : (\E h \in Headers : PushMsg(p, h)) \/ Notify(p)
  \/ PopMsg
  \/ \E f \in Filters : SetQueueFilter(f)
  \/ ClearQueueFilter
  \/ \E r \in Rules : AddRule(r)
  \/ \E b \in ReplaceFlags : SetQueueReplace(b)
  \/ \E t \in Timeouts : WaitCheck(t)
  \/ WaitBlock \/ WaitTimeout \/ SpuriousWakeup

Spec == Init /\ [][Next]_vars

(* Producers finish their Push, the owner keeps draining its queue and runs *)
(* on; a timed cond_wait ends at the latest when its time is up.            *)
Fairness ==
  /\ \A p \in Producers : WF_vars(Notify(p))
  /\ WF_vars(PopMsg) /\ WF_vars(WaitBlock) /\ WF_vars(WaitTimeout)

FairSpec == Spec /\ Fairness

-----------------------------------------------------------------------------
(***************************************************************************)
(* Properties.                                                             *)
(***************************************************************************)
InQueue(m) == \E i \in DOMAIN q.msgs : q.msgs[i] = m

(* A rule the owner may add speaks about m: then m may be dropped on demand. *)
Governed(m) == \E r \in Rules : RuleMatch(r, m)

(* Push lets requests and replies through however full the queue is ("if   *)
(* we discard requests or replies this will potentially lock up the        *)
(* client"): one that no rule speaks about is on the queue until popped,   *)
(* whatever is pushed, replaced, filtered or popped around it.             *)
RepliesNeverLost ==
  \A m \in sent : (~IsDataOrCmd(m) /\ ~Governed(m)) => (InQueue(m) \/ m \in got)

(* Messages of one signature leave Pop in the order in which they entered  *)
(* Push, each at most once, although filters, replacement and pending      *)
(* responses let messages of different signatures overtake each other.     *)
SignatureOrder ==
  /\ \A i, j \in DOMAIN q.msgs :
       (i < j /\ Compare(q.msgs[i], q.msgs[j]))
         => q.msgs[i].id < q.msgs[j].id
  /\ \A m \in got, i \in DOMAIN q.msgs :
       Compare(m, q.msgs[i]) => m.id < q.msgs[i].id

(* In a queue that always replaces, Push keeps exactly the newest value of *)
(* each data or command signature, even when the queue is at Maxlen.       *)
LatestValueKept ==
  replaced = {TRUE} =>
    /\ \A i, j \in DOMAIN q.msgs :
         (i # j /\ Compare(q.msgs[i], q.msgs[j]) /\ IsDataOrCmd(q.msgs[i]))
           => Governed(q.msgs[i])
    /\ \A m \in sent :
         (IsDataOrCmd(m) /\ ~Governed(m))
           => \/ InQueue(m) \/ m \in got
              \/ \E n \in sent : Compare(n, m) /\ n.id > m.id

(* In a queue that never replaces, data and commands fill at most Maxlen   *)
(* places: the overflow test of Push is not off by one and replies pushed  *)
(* beyond Maxlen do not let more data in.                                  *)
DataWithinMaxlen ==
  (replaced = {FALSE} /\ \A r \in Rules : r.replace # REPLACE) =>
    Cardinality({i \in DOMAIN q.msgs : IsDataOrCmd(q.msgs[i])}) <= MaxlenInit

(* A message pushed while the owner sleeps in cond_wait, and that passes   *)
(* its filter, is still to be signalled by the thread that pushed it: the  *)
(* test of the filter after Unlock() in Push misses no sleeping owner.     *)
SleeperIsWoken ==
  owner = "blocked" =>
    \A i \in DOMAIN q.msgs :
      (q.msgs[i].id >= since /\ FilterFriendly(q, q.msgs[i]))
        => \E p \in Producers : notify[p] = q.msgs[i]

(* Driver::Wait promises to "block until a new message arrives".  An owner *)
(* asleep over a message it asked for, with no signal on its way, has been *)
(* missed between the scan of Wait and its cond_wait.                      *)
NoSleepOverMessage ==
  (owner = "blocked" /\ \E i \in DOMAIN q.msgs : FilterFriendly(q, q.msgs[i]))
    => \E p \in Producers : notify[p] # None

(* An owner that polls with a timeout drains its queue whenever producers  *)
(* pause, even when the signal for a message fell between the two halves   *)
(* of Wait, unless it sets a filter, which may hold messages back.         *)
TimedWaitDrains == (q.msgs # << >>) ~> (q.msgs = << >> \/ q.filter_on)
=============================================================================
