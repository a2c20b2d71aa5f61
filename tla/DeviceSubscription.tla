------------------------- MODULE DeviceSubscription -------------------------
(***************************************************************************)
(* libplayercore/device.cc: the list of queues subscribed to one device,   *)
(* together with the driver's count of subscriptions (driver.cc), the loop *)
(* of Driver::Publish over the list, the record of subscriptions that      *)
(* PlayerTCP keeps for a client (playertcp.cc) and the subscription that   *)
(* DeviceTable makes for an alwayson driver, whose queue is null.          *)
(*                                                                         *)
(* Subscribers are threads: the server's, acting for a client, and those   *)
(* of other drivers.  Device::Subscribe holds the device's accessMutex all *)
(* the way; Device::Unsubscribe calls the driver first and takes it only   *)
(* to clear the slot; Publish holds the driver's mutex, not the device's.  *)
(* So every access of Publish to the list is a step of its own, and so are *)
(* the three by which Subscribe enlarges the list.                         *)
(***************************************************************************)
EXTENDS Integers, Sequences, FiniteSets

CONSTANTS
  Subscribers,      \* each with a queue of its own ...
  AlwaysOn,         \* ... but for this one (a subscriber or Nobody)
  Nobody,           \* the null queue, and the holder of a free mutex
  Wild,             \* what is found in memory nobody has written
  Strangers,        \* clients that may ask to close what they never opened
  HookResults,      \* results of Driver::Subscribe(queue, addr)
  UnhookResults,    \* results of Driver::Unsubscribe(queue, addr)
  SetupResults,     \* results of Driver::Setup
  ShutdownResults,  \* results of Driver::Shutdown
  MaxSubs           \* bound on the subscriptions one subscriber records

ASSUME ConstantsAssumption ==
  /\ Nobody \notin Subscribers
  /\ Wild \notin Subscribers \cup {Nobody}
  /\ AlwaysOn \in Subscribers \cup {Nobody}
  /\ Strangers \subseteq Subscribers \ {AlwaysOn}
  /\ HookResults \subseteq Int /\ UnhookResults \subseteq Int
  /\ SetupResults \subseteq Int /\ ShutdownResults \subseteq Int
  /\ MaxSubs \in Nat

VARIABLES
  queues,         \* the slots, as far as they are allocated and cleared;
                  \* Nobody in a free one
  len_queues,     \* the number of slots as Publish reads it
  accessMutex,    \* the device's lock
  subscriptions,  \* the driver's count
  setUp,          \* Setup has succeeded and Shutdown has not been called since
  at,             \* the slot chosen by the Subscribe in progress, or 0
  pc,
  dev_subs,       \* dev_subs[s]: subscriptions recorded by (or for) s
  leaving,        \* clients being closed or gone; alwayson at the server's end
  left,           \* history: slots whose record they dropped on an error
  pos,            \* the slot Publish is at, 0 outside Publish
  phase,          \* what it does there
  old,            \* what the memory may hold that Publish still reads after
                  \* the list has moved away; {} while its address is good
  target,         \* the queue it is about to push onto
  owed,           \* history: subscribed since before the current Publish,
                  \* which has not pushed onto their queues yet
  entitled        \* history: had a subscription, or a call for one, at some
                  \* moment since Publish came to this slot

vars == <<queues, len_queues, accessMutex, subscriptions, setUp, at, pc,
          dev_subs, leaving, left, pos, phase, old, target, owed, entitled>>
records == <<dev_subs, leaving, left>>
loop == <<pos, phase, target>>
device == <<queues, len_queues, accessMutex, subscriptions, setUp, at, pc,
            records>>

TypeOK ==
  /\ queues \in Seq(Subscribers \cup {Nobody}) /\ len_queues \in Nat
  /\ accessMutex \in Subscribers \cup {Nobody}
  /\ subscriptions \in Nat /\ setUp \in BOOLEAN
  /\ at \in Nat
  /\ pc \in [Subscribers -> {"idle", "grown", "moved", "cleared", "inserted",
                             "removing"}]
  /\ dev_subs \in [Subscribers -> Nat]
  /\ leaving \subseteq Subscribers /\ left \in [Subscribers -> Nat]
  /\ pos \in Nat
  /\ phase \in {"idle", "look", "test", "fetch", "push", "crashed"}
  /\ old \subseteq Subscribers \cup {Nobody, Wild}
  /\ target \in Subscribers \cup {Nobody}
  /\ owed \subseteq Subscribers /\ entitled \subseteq Subscribers

Init ==
  /\ queues = <<Nobody, Nobody>> /\ len_queues = 2
  /\ accessMutex = Nobody
  /\ subscriptions = 0 /\ setUp = FALSE
  /\ at = 0
  /\ pc = [s \in Subscribers |-> "idle"]
  /\ dev_subs = [s \in Subscribers |-> 0]
  /\ leaving = {} /\ left = [s \in Subscribers |-> 0]
  /\ pos = 0 /\ phase = "idle" /\ old = {} /\ target = Nobody
  /\ owed = {} /\ entitled = {}

QueueOf(s) == IF s = AlwaysOn THEN Nobody ELSE s

(***************************************************************************)
(* Device::Subscribe.                                                      *)
(***************************************************************************)
Free(slots) == {i \in DOMAIN slots : slots[i] = Nobody}

FirstFree(slots) == {i \in Free(slots) : \A j \in 1..(i-1) : slots[j] # Nobody}

(* twice the slots, the new half cleared *)
Doubled(slots) == slots \o [i \in 1..Len(slots) |-> Nobody]

(* s calls Device::Subscribe and gets the lock. *)
MaySubscribe(s) ==
  /\ pc[s] = "idle" /\ accessMutex = Nobody
  /\ s \notin leaving
  /\ dev_subs[s] < (IF s = AlwaysOn THEN 1 ELSE MaxSubs)

(* Publish is about to load from a slot, or to push onto what was there. *)
Reading == phase \in {"test", "fetch", "push"}

Joins(s) == entitled' = IF Reading THEN entitled \cup {s} ELSE entitled

(* len_queues is doubled before there is room for as many. *)
SubscribeGrow(s) ==
  /\ MaySubscribe(s) /\ Free(queues) = {}
  /\ len_queues' = 2 * len_queues
  /\ accessMutex' = s
  /\ pc' = [pc EXCEPT ![s] = "grown"]
  /\ Joins(s)
  /\ UNCHANGED <<queues, subscriptions, setUp, at, records, loop, old, owed>>

(* realloc: a Publish that has the slot's address, and has still to load   *)
(* from it, loads from a block that may be free: what was there, or not.   *)
SubscribeMove(s) ==
  /\ pc[s] = "grown"
  /\ old' = IF phase \in {"test", "fetch"}
            THEN old \cup {IF pos \in DOMAIN queues THEN queues[pos] ELSE Wild}
            ELSE old
  /\ pc' = [pc EXCEPT ![s] = "moved"]
  /\ UNCHANGED <<queues, len_queues, accessMutex, subscriptions, setUp, at,
                 records, loop, owed, entitled>>

(* memset of the new half *)
SubscribeClear(s) ==
  /\ pc[s] = "moved"
  /\ queues' = Doubled(queues)
  /\ pc' = [pc EXCEPT ![s] = "cleared"]
  /\ UNCHANGED <<len_queues, accessMutex, subscriptions, setUp, at, records,
                 loop, old, owed, entitled>>

SubscribeInsert(s) ==
  /\ MaySubscribe(s) \/ pc[s] = "cleared"
  /\ accessMutex' = s
  /\ \E i \in FirstFree(queues) :
       /\ queues' = [queues EXCEPT ![i] = QueueOf(s)]
       /\ at' = i
  /\ pc' = [pc EXCEPT ![s] = "inserted"]
  /\ Joins(s)
  /\ UNCHANGED <<len_queues, subscriptions, setUp, records, loop, old, owed>>

(* Mutation: a failed subscription keeps its slot. *)
SubscribeEndKeepsSlot(s, r) ==
  /\ dev_subs' = IF r < 0 THEN dev_subs ELSE [dev_subs EXCEPT ![s] = @ + 1]
  /\ accessMutex' = Nobody /\ at' = 0
  /\ pc' = [pc EXCEPT ![s] = "idle"]
  /\ UNCHANGED <<queues, len_queues, leaving, left, loop, old, owed, entitled>>

(* The driver's part, its result r, and what is done about r: the slot is  *)
(* cleared unless r = 0; PlayerTCP records the subscription unless r < 0.  *)
SubscribeEnd(s, r) ==
  /\ queues' = IF r = 0 THEN queues ELSE [queues EXCEPT ![at] = Nobody]
  /\ dev_subs' = IF r < 0 THEN dev_subs ELSE [dev_subs EXCEPT ![s] = @ + 1]
  /\ accessMutex' = Nobody /\ at' = 0
  /\ pc' = [pc EXCEPT ![s] = "idle"]
  /\ UNCHANGED <<len_queues, leaving, left, loop, old, owed, entitled>>

SubscribeHook(s, r) ==
  /\ pc[s] = "inserted"
  /\ r # 1
  /\ SubscribeEnd(s, IF r < 0 THEN r ELSE 0)
  /\ UNCHANGED <<subscriptions, setUp>>

SubscribeFirst(s, r) ==
  /\ pc[s] = "inserted" /\ 1 \in HookResults
  /\ subscriptions = 0
  /\ subscriptions' = IF r = 0 THEN 1 ELSE 0
  /\ setUp' = (r = 0)
  /\ SubscribeEnd(s, r)

SubscribeMore(s) ==
  /\ pc[s] = "inserted" /\ 1 \in HookResults
  /\ subscriptions > 0
  /\ subscriptions' = subscriptions + 1
  /\ SubscribeEnd(s, 0)
  /\ UNCHANGED setUp

(***************************************************************************)
(* Device::Unsubscribe: for a client that closes the device, a driver that *)
(* no longer needs it, and whoever is leaving: PlayerTCP::Close walks the  *)
(* record of a client that has gone, StopAlwaysonDrivers the table.        *)
(***************************************************************************)

(* Only who has a subscription makes a difference by going.  Nobody comes  *)
(* back: another client has another queue.                                 *)
Leave(s) ==
  /\ pc[s] = "idle" /\ dev_subs[s] > 0 /\ s \notin leaving
  /\ leaving' = leaving \cup {s}
  /\ UNCHANGED <<queues, len_queues, accessMutex, subscriptions, setUp, at, pc,
                 dev_subs, left, loop, old, owed, entitled>>

MayUnsubscribe(s) ==
  /\ pc[s] = "idle"
  /\ dev_subs[s] > 0 \/ (s \in Strangers /\ s \notin leaving)
  /\ s = AlwaysOn => s \in leaving

Less(n) == IF n > 0 THEN n - 1 ELSE 0

(* What comes of an error, which ends the call and leaves n slots: a       *)
(* client that wanted to close the device keeps its record, but Close      *)
(* drops it whatever Unsubscribe has returned, and StopAlwaysonDrivers is  *)
(* never called again.                                                     *)
Refused(s, n) ==
  IF s \in leaving
  THEN /\ dev_subs' = [dev_subs EXCEPT ![s] = Less(@)]
       /\ left' = [left EXCEPT ![s] = @ + n]
  ELSE UNCHANGED <<dev_subs, left>>

(* Mutation: shut down when one subscription is left. *)
UnsubscribeOneEarly(s, r) ==
  /\ MayUnsubscribe(s) /\ 1 \in UnhookResults
  /\ subscriptions > 0
  /\ subscriptions' = subscriptions - 1
  /\ setUp' = (subscriptions > 2)
  /\ pc' = [pc EXCEPT ![s] = "removing"]
  /\ owed' = owed \ {s}
  /\ UNCHANGED <<queues, len_queues, accessMutex, at, records, loop, old, entitled>>

(* Mutation: the count is tested after it has been decremented. *)
UnsubscribeOneLate(s, r) ==
  /\ MayUnsubscribe(s) /\ 1 \in UnhookResults
  /\ subscriptions > 0
  /\ subscriptions' = subscriptions - 1
  /\ setUp' = (subscriptions' # 1)
  /\ pc' = [pc EXCEPT ![s] = "removing"]
  /\ owed' = owed \ {s}
  /\ UNCHANGED <<queues, len_queues, accessMutex, at, records, loop, old, entitled>>

(* The driver counts down, and shuts down with the last subscription: when *)
(* Shutdown returns r # 0 the count is down but the call ends there.       *)
UnsubscribeDriver(s, r) ==
  /\ MayUnsubscribe(s) /\ 1 \in UnhookResults
  /\ subscriptions > 0
  /\ subscriptions' = subscriptions - 1
  /\ setUp' = (subscriptions # 1)
  /\ IF subscriptions = 1 /\ r # 0
     THEN pc' = pc /\ Refused(s, 1)
     ELSE pc' = [pc EXCEPT ![s] = "removing"] /\ UNCHANGED <<dev_subs, left>>
  /\ owed' = owed \ {s}
  /\ UNCHANGED <<queues, len_queues, accessMutex, at, leaving, loop, old, entitled>>

(* Results with which the driver leaves its count alone: those other than  *)
(* 1 of a hook of its own (RemoteDriver's returns 0), and -1 when there is *)
(* no subscription to give up.                                             *)
Uncounted == {IF r = 1 THEN -1 ELSE r :
                r \in {x \in UnhookResults : x # 1 \/ subscriptions = 0}}

(* An error ends the call; otherwise the queue is taken off the list. *)
UnsubscribeHook(s, r) ==
  /\ MayUnsubscribe(s)
  /\ IF r < 0
     THEN pc' = pc /\ Refused(s, 1)
     ELSE pc' = [pc EXCEPT ![s] = "removing"] /\ UNCHANGED <<dev_subs, left>>
  /\ owed' = IF r < 0 /\ s \notin leaving THEN owed ELSE owed \ {s}
  /\ UNCHANGED <<queues, len_queues, accessMutex, subscriptions, setUp, at,
                 leaving, loop, old, entitled>>

FirstOf(slots, x) ==
  {i \in DOMAIN slots : slots[i] = x /\ \A j \in 1..(i-1) : slots[j] # x}

(* Mutation: the slots behind the removed one move up. *)
UnsubscribeCompacts(s) ==
  /\ pc[s] = "removing" /\ accessMutex = Nobody
  /\ \E i \in FirstOf(queues, QueueOf(s)) :
       queues' = SubSeq(queues, 1, i-1)
                 \o SubSeq(queues, i+1, Len(queues)) \o <<Nobody>>
  /\ dev_subs' = [dev_subs EXCEPT ![s] = Less(@)]
  /\ pc' = [pc EXCEPT ![s] = "idle"]
  /\ UNCHANGED <<len_queues, accessMutex, subscriptions, setUp, at, leaving, left,
                 loop, old, owed, entitled>>

UnsubscribeRemove(s) ==
  /\ pc[s] = "removing" /\ accessMutex = Nobody
  /\ \E i \in FirstOf(queues, QueueOf(s)) :
       queues' = [queues EXCEPT ![i] = Nobody]
  /\ dev_subs' = [dev_subs EXCEPT ![s] = Less(@)]
  /\ pc' = [pc EXCEPT ![s] = "idle"]
  /\ UNCHANGED <<len_queues, accessMutex, subscriptions, setUp, at, leaving, left,
                 loop, old, owed, entitled>>

(* The queue is not in the list: -1, and no slot stays. *)
UnsubscribeMissing(s) ==
  /\ pc[s] = "removing" /\ accessMutex = Nobody
  /\ FirstOf(queues, QueueOf(s)) = {}
  /\ Refused(s, 0)
  /\ pc' = [pc EXCEPT ![s] = "idle"]
  /\ UNCHANGED <<queues, len_queues, accessMutex, subscriptions, setUp, at, leaving,
                 loop, old, owed, entitled>>

(***************************************************************************)
(* Driver::Publish, with no lock of the device: for each i < len_queues it *)
(* tests queues[i], reads it again and pushes onto what it finds then.     *)
(***************************************************************************)
Subscribed == {s \in Subscribers : dev_subs[s] > 0 /\ pc[s] = "idle"}

PublishBegin ==
  /\ phase = "idle"
  /\ phase' = "look" /\ pos' = 1
  /\ owed' = Subscribed \ {AlwaysOn}
  /\ UNCHANGED <<device, old, target, entitled>>

(* Another slot, at an address that is good until the list moves. *)
PublishLook ==
  /\ phase = "look" /\ pos <= len_queues
  /\ phase' = "test" /\ old' = {}
  /\ entitled' = {s \in Subscribers : dev_subs[s] + left[s] > 0 \/ pc[s] # "idle"}
  /\ UNCHANGED <<device, pos, target, owed>>

(* What a load from the slot may give: the slot as it is; whatever memory  *)
(* holds that has not been cleared; and when the list has moved, what was  *)
(* there before or whatever the freed block holds by now.                  *)
Memory ==
  old \cup (IF pos \in DOMAIN queues THEN {queues[pos]} ELSE {Nobody, Wild})
      \cup (IF old = {} THEN {} ELSE {Nobody, Wild})

(* After a load of the latter kinds this Publish owes nobody anything. *)
Loads == owed' = IF old = {} /\ pos \in DOMAIN queues THEN owed ELSE {}

(* A null slot is passed over. *)
PublishTest ==
  /\ phase = "test"
  /\ \E v \in Memory :
       IF v = Nobody
       THEN phase' = "look" /\ pos' = pos + 1 /\ entitled' = {}
       ELSE phase' = "fetch" /\ pos' = pos /\ entitled' = entitled
  /\ Loads /\ old' = {}
  /\ UNCHANGED <<device, target>>

(* If the slot has become null since it was tested, the assertion of       *)
(* QueuePointer::operator-> ends the program; so may a wild pointer.       *)
PublishFetch ==
  /\ phase = "fetch"
  /\ \E v \in Memory :
       IF v \in Subscribers THEN phase' = "push" /\ target' = v
                            ELSE phase' = "crashed" /\ target' = target
  /\ Loads /\ old' = {}
  /\ UNCHANGED <<device, pos, entitled>>

PublishPush ==
  /\ phase = "push"
  /\ owed' = owed \ {target}
  /\ phase' = "look" /\ pos' = pos + 1
  /\ target' = Nobody /\ entitled' = {}
  /\ UNCHANGED <<device, old>>

PublishEnd ==
  /\ phase = "look" /\ pos > len_queues
  /\ phase' = "idle" /\ pos' = 0
  /\ owed' = {}
  /\ UNCHANGED <<device, old, target, entitled>>

Next ==
  /\ phase # "crashed"
  /\ \/ \E s \in Subscribers :
          \/ SubscribeGrow(s) \/ SubscribeMove(s) \/ SubscribeClear(s)
          \/ SubscribeInsert(s) \/ SubscribeMore(s)
          \/ \E r \in HookResults : SubscribeHook(s, r)
          \/ \E r \in SetupResults : SubscribeFirst(s, r)
          \/ Leave(s)
          \/ \E r \in ShutdownResults : UnsubscribeDriver(s, r)
          \/ \E r \in Uncounted : UnsubscribeHook(s, r)
          \/ UnsubscribeRemove(s) \/ UnsubscribeMissing(s)
     \/ PublishBegin \/ PublishLook \/ PublishTest \/ PublishFetch
     \/ PublishPush \/ PublishEnd

Spec == Init /\ [][Next]_vars

-----------------------------------------------------------------------------
(***************************************************************************)
(* Properties.                                                             *)
(***************************************************************************)
SlotsOf(s) == {i \in DOMAIN queues : queues[i] = s}
Quiet == \A s \in Subscribers : pc[s] = "idle"

(* Records of the same fact, changed under different mutexes and in the    *)
(* opposite order by Subscribe and Unsubscribe, agree whenever no call is  *)
(* in progress: the driver counts as many subscriptions as the device      *)
(* lists queues (and one more for alwayson), and every subscriber has the  *)
(* slots it has subscriptions recorded for, and besides those only the     *)
(* ones of which PlayerTCP::Close has dropped the record although the      *)
(* driver refused.                                                         *)
CountMatchesSlots ==
  Quiet =>
    /\ subscriptions = Cardinality({i \in DOMAIN queues : queues[i] # Nobody})
                       + (IF AlwaysOn = Nobody THEN 0
                          ELSE dev_subs[AlwaysOn] + left[AlwaysOn])
    /\ \A s \in Subscribers \ {AlwaysOn} :
         Cardinality(SlotsOf(s)) = dev_subs[s] + left[s]

(* Publish reaches every queue that stays subscribed from its beginning to *)
(* its end, although slots are filled, cleared and added while it walks    *)
(* them.  Nothing is said of a walk that read memory realloc had freed, or *)
(* memset had not yet cleared.                                             *)
PublishReachesSteady ==
  phase = "look" /\ pos > len_queues => owed = {}

(* What Publish is about to push onto is the queue of somebody who had a   *)
(* subscription, or one that Close left behind, or was in a call for one,  *)
(* at some moment since the loop came to this slot.  A subscription that   *)
(* failed, or was given up before, leaves nothing to push onto; one given  *)
(* up meanwhile may get this last message after its call has returned.     *)
NothingPushedToStrangers == phase = "push" => target \in entitled

(* "This function is called with the last client unsubscribes": as long as *)
(* somebody is subscribed the driver has not been shut down.               *)
ShutdownOnlyByLast == \A s \in Subscribed : setUp

(* The same sentence the other way round: when the last subscription has   *)
(* been given up, and none left behind, the driver has been shut down.     *)
ShutdownByLast ==
  (Quiet /\ \A s \in Subscribers : dev_subs[s] + left[s] = 0) => ~setUp
=============================================================================
