---------------------- MODULE DeviceSubscriptionProofs ----------------------
(***************************************************************************)
(* Proofs about DeviceSubscription, for any set of subscribers, any bound  *)
(* on their subscriptions and a list of queues of any length.              *)
(*                                                                         *)
(* ListInv holds under the one condition that Driver::Setup returns zero   *)
(* or an error: it says who is inside Device::Subscribe, that every        *)
(* subscriber has the slots it has subscriptions for, recorded or left     *)
(* behind, where Publish will still find those it owes a message, and      *)
(* whom it may find there.  CountInv adds the driver's count; it needs a   *)
(* driver that leaves the counting to Driver::Subscribe and Unsubscribe.   *)
(***************************************************************************)
EXTENDS DeviceSubscription, ListFacts, FiniteSetTheorems, TLAPS

(* Driver::Setup "Returns 0 on success"; nothing is said of failures.  The  *)
(* device takes any other result for one, PlayerTCP only a negative one,   *)
(* so they agree if a driver fails with negative numbers.                  *)
SetupNeverPositive == \A r \in SetupResults : r <= 0

(* The driver leaves counting to the code of driver.cc: its Subscribe and  *)
(* Unsubscribe hooks, if it has them, return the default's 1 or an error,  *)
(* which a client that closes the device minds and PlayerTCP::Close does   *)
(* not; Shutdown succeeds, and nobody closes what he has not opened.       *)
DriverCounts ==
  /\ \A r \in HookResults \cup UnhookResults : r = 1 \/ r < 0
  /\ ShutdownResults \subseteq {0}
  /\ Strangers = {}

Queues == Subscribers \cup {Nobody}

(* Device::Subscribe holds accessMutex all the way, and from the insertion *)
(* to the result the slot it has chosen is there.                          *)
InSubscribe == {"grown", "moved", "cleared", "inserted"}

MutexInv ==
  \A s \in Subscribers :
    /\ pc[s] \in InSubscribe <=> accessMutex = s
    /\ pc[s] = "inserted" => at \in DOMAIN queues /\ queues[at] = QueueOf(s)

(* Publish looks at no fewer slots than there are. *)
LenInv ==
  /\ len_queues >= Len(queues)
  /\ \A s \in Subscribers :
       pc[s] \in {"grown", "moved"} => len_queues >= 2 * Len(queues)

Inserting(s) == IF pc[s] = "inserted" THEN 1 ELSE 0

(* A queue is listed once per subscription, be it recorded or left behind, *)
(* and once more while its subscriber is inside Device::Subscribe.         *)
SlotsInv ==
  \A s \in Subscribers \ {AlwaysOn} :
    Cardinality(SlotsOf(s)) = dev_subs[s] + left[s] + Inserting(s)

(* The alwayson subscription is made with the null queue. *)
NullInv == AlwaysOn \in Subscribers => SlotsOf(AlwaysOn) = {}

(* Only who leaves forgets; a stranger, who asks to close what he has not  *)
(* opened, has nothing listed.                                             *)
LeftInv ==
  \A s \in Subscribers :
    /\ left[s] > 0 => s \in leaving
    /\ pc[s] = "removing" => dev_subs[s] > 0 \/ left[s] = 0
    /\ pc[s] = "removing" /\ s = AlwaysOn => s \in leaving

(* A slot of s that Publish has not passed, that it has not read yet or    *)
(* found s in, and that is not the one a failing Subscribe would clear.    *)
Ahead(s) == {i \in SlotsOf(s) :
               /\ i >= pos
               /\ ~(pc[s] = "inserted" /\ i = at)
               /\ i = pos /\ phase = "push" => target = s}

OwedInv ==
  \A s \in owed :
    /\ s \in Subscribers \ {AlwaysOn} /\ pc[s] # "removing"
    /\ Ahead(s) # {}

(* Publish is about to load from a slot, or from where it was, and may     *)
(* find whoever is listed now or was when the list moved.                  *)
EntitledInv ==
  Reading =>
    /\ \A s \in Subscribers :
         SlotsOf(s) # {} \/ pc[s] \in InSubscribe \/ s \in old => s \in entitled
    /\ phase = "push" => target \in entitled

ListInv == TypeOK /\ MutexInv /\ LenInv /\ SlotsInv /\ NullInv /\ LeftInv
           /\ OwedInv /\ EntitledInv

Removing == {s \in Subscribers : pc[s] = "removing"}
Occupied == {i \in DOMAIN queues : queues[i] # Nobody}
AlwaysOnSubs == IF AlwaysOn = Nobody THEN 0 ELSE dev_subs[AlwaysOn] + left[AlwaysOn]

(* The subscriber between the insertion and the result, if there is one. *)
Filling == IF accessMutex # Nobody /\ pc[accessMutex] = "inserted"
           THEN accessMutex ELSE Nobody
PendingSlot == IF Filling \in {Nobody, AlwaysOn} THEN 0 ELSE 1

(* The driver has counted every listed queue but the one being inserted,   *)
(* and has already discounted those on their way out.                      *)
CountInv ==
  /\ IsFiniteSet(Removing)
  /\ \A s \in Removing : dev_subs[s] > 0
  /\ subscriptions + Cardinality(Removing) + PendingSlot
       = Cardinality(Occupied) + AlwaysOnSubs
  /\ setUp <=> subscriptions > 0

IInv == ListInv /\ CountInv

-----------------------------------------------------------------------------
(***************************************************************************)
(* The list of slots.                                                      *)
(***************************************************************************)
Places(slots, x) == {i \in DOMAIN slots : slots[i] = x}
Taken(slots) == {i \in DOMAIN slots : slots[i] # Nobody}
Write(slots, i, x) == [slots EXCEPT ![i] = x]

(* Doubling keeps every slot and adds free ones at the end. *)
LEMMA DoubledProperties ==
  ASSUME NEW slots \in Seq(Queues)
  PROVE  /\ Doubled(slots) \in Seq(Queues)
         /\ Len(Doubled(slots)) = 2 * Len(slots)
         /\ \A i \in DOMAIN slots : i \in DOMAIN Doubled(slots) /\ Doubled(slots)[i] = slots[i]
         /\ \A i \in DOMAIN Doubled(slots) : i \notin DOMAIN slots => Doubled(slots)[i] = Nobody
<1> DEFINE more == [i \in 1..Len(slots) |-> Nobody]
<1>1. more \in Seq(Queues) /\ Len(more) = Len(slots) /\ Len(slots) \in Nat
  BY LenProperties DEF Queues
<1>2. Doubled(slots) = slots \o more
  BY DEF Doubled
<1>3. \A i \in 1..Len(slots) : more[i] = Nobody
  OBVIOUS
<1> HIDE DEF more
<1>a. Len(slots \o more) = Len(slots) + Len(more)
  BY <1>1, ConcatProperties
<1>b. slots \o more \in Seq(Queues)
  BY <1>1, ConcatProperties
<1>c. \A i \in 1..(Len(slots) + Len(more)) :
        (slots \o more)[i] = IF i <= Len(slots) THEN slots[i] ELSE more[i - Len(slots)]
  BY <1>1, ConcatProperties
<1>4. /\ Doubled(slots) \in Seq(Queues)
      /\ Len(Doubled(slots)) = Len(slots) + Len(slots)
      /\ \A i \in 1..(Len(slots) + Len(slots)) :
           Doubled(slots)[i] = IF i <= Len(slots) THEN slots[i] ELSE more[i - Len(slots)]
  BY <1>1, <1>2, <1>a, <1>b, <1>c
<1>5. DOMAIN Doubled(slots) = 1..(Len(slots) + Len(slots)) /\ DOMAIN slots = 1..Len(slots)
  BY <1>4, LenProperties
<1>6. \A i \in DOMAIN Doubled(slots) : i \notin DOMAIN slots => Doubled(slots)[i] = Nobody
  BY <1>1, <1>3, <1>4, <1>5
<1>7. \A i \in DOMAIN slots : i \in DOMAIN Doubled(slots) /\ Doubled(slots)[i] = slots[i]
  BY <1>1, <1>4, <1>5
<1> QED
  BY <1>1, <1>4, <1>6, <1>7

(* So no queue moves, and none appears. *)
LEMMA DoubledPlaces ==
  ASSUME NEW slots \in Seq(Queues)
  PROVE  /\ \A x : x # Nobody => Places(Doubled(slots), x) = Places(slots, x)
         /\ Taken(Doubled(slots)) = Taken(slots)
BY DoubledProperties DEF Places, Taken

(* Counting the slots of a list. *)
LEMMA PlacesFinite ==
  ASSUME NEW slots \in Seq(Queues)
  PROVE  /\ \A x : /\ IsFiniteSet(Places(slots, x))
                   /\ Cardinality(Places(slots, x)) \in Nat
                   /\ Cardinality(Places(slots, x)) = 0 <=> Places(slots, x) = {}
         /\ IsFiniteSet(Taken(slots)) /\ Cardinality(Taken(slots)) \in Nat
         /\ Cardinality(Taken(slots)) = 0 <=> Taken(slots) = {}
<1>1. DOMAIN slots = 1..Len(slots) /\ Len(slots) \in Nat
  BY LenProperties
<1>2. IsFiniteSet(DOMAIN slots)
  BY <1>1, FS_Interval
<1>3. \A x : Places(slots, x) \in SUBSET (DOMAIN slots)
  BY DEF Places
<1>4. Taken(slots) \in SUBSET (DOMAIN slots)
  BY DEF Taken
<1> QED
  BY <1>2, <1>3, <1>4, FS_Subset, FS_CardinalityType, FS_EmptySet

(* A free slot is given to x. *)
LEMMA FillSlot ==
  ASSUME NEW slots \in Seq(Queues), NEW i \in DOMAIN slots, slots[i] = Nobody,
         NEW x \in Subscribers
  PROVE  LET new == Write(slots, i, x) IN
         /\ new \in Seq(Queues) /\ Len(new) = Len(slots)
         /\ Places(new, x) = Places(slots, x) \cup {i}
         /\ Cardinality(Places(new, x)) = Cardinality(Places(slots, x)) + 1
         /\ \A y : y # x /\ y # Nobody => Places(new, y) = Places(slots, y)
         /\ Taken(new) = Taken(slots) \cup {i}
         /\ Cardinality(Taken(new)) = Cardinality(Taken(slots)) + 1
<1> DEFINE new == Write(slots, i, x)
<1>1. /\ new \in Seq(Queues) /\ Len(new) = Len(slots)
      /\ DOMAIN new = DOMAIN slots
      /\ \A j \in DOMAIN slots : new[j] = IF j = i THEN x ELSE slots[j]
  BY DEF Queues, Write
<1> HIDE DEF new
<1>2. /\ Places(new, x) = Places(slots, x) \cup {i} /\ i \notin Places(slots, x)
      /\ Taken(new) = Taken(slots) \cup {i} /\ i \notin Taken(slots)
  BY <1>1, ConstantsAssumption DEF Places, Taken
<1>3. \A y : y # x /\ y # Nobody => Places(new, y) = Places(slots, y)
  BY <1>1 DEF Places
<1>4. /\ IsFiniteSet(Places(slots, x)) /\ IsFiniteSet(Taken(slots))
  BY PlacesFinite
<1>5. Cardinality(Places(new, x)) = Cardinality(Places(slots, x)) + 1
  BY <1>2, <1>4, FS_AddElement
<1>6. Cardinality(Taken(new)) = Cardinality(Taken(slots)) + 1
  BY <1>2, <1>4, FS_AddElement
<1> QED
  BY <1>1, <1>2, <1>3, <1>5, <1>6 DEF new

(* The slot of x is cleared. *)
LEMMA ClearSlot ==
  ASSUME NEW slots \in Seq(Queues), NEW i \in DOMAIN slots, NEW x \in Subscribers,
         slots[i] = x
  PROVE  LET new == Write(slots, i, Nobody) IN
         /\ new \in Seq(Queues) /\ Len(new) = Len(slots)
         /\ Places(new, x) = Places(slots, x) \ {i}
         /\ Cardinality(Places(new, x)) = Cardinality(Places(slots, x)) - 1
         /\ \A y : y # x /\ y # Nobody => Places(new, y) = Places(slots, y)
         /\ Taken(new) = Taken(slots) \ {i}
         /\ Cardinality(Taken(new)) = Cardinality(Taken(slots)) - 1
<1> DEFINE new == Write(slots, i, Nobody)
<1>1. /\ new \in Seq(Queues) /\ Len(new) = Len(slots)
      /\ DOMAIN new = DOMAIN slots
      /\ \A j \in DOMAIN slots : new[j] = IF j = i THEN Nobody ELSE slots[j]
  BY DEF Queues, Write
<1> HIDE DEF new
<1>2. /\ Places(new, x) = Places(slots, x) \ {i} /\ i \in Places(slots, x)
      /\ Taken(new) = Taken(slots) \ {i} /\ i \in Taken(slots)
  BY <1>1, ConstantsAssumption DEF Places, Taken
<1>3. \A y : y # x /\ y # Nobody => Places(new, y) = Places(slots, y)
  BY <1>1 DEF Places
<1>4. /\ IsFiniteSet(Places(slots, x)) /\ IsFiniteSet(Taken(slots))
  BY PlacesFinite
<1>5. Cardinality(Places(new, x)) = Cardinality(Places(slots, x)) - 1
  BY ZenonT(60), <1>2, <1>4, FS_RemoveElement
<1>6. Cardinality(Taken(new)) = Cardinality(Taken(slots)) - 1
  BY <1>2, <1>4, FS_RemoveElement
<1> QED
  BY <1>1, <1>2, <1>3, <1>5, <1>6 DEF new

(* Writing the null queue over a free slot changes nothing. *)
LEMMA NullSlot ==
  ASSUME NEW slots \in Seq(Queues), NEW i \in DOMAIN slots, slots[i] = Nobody
  PROVE  Write(slots, i, Nobody) = slots
BY DEF Write

-----------------------------------------------------------------------------
(***************************************************************************)
(* What each of the three calls that write a slot does to the list.        *)
(***************************************************************************)

(* The slots the properties speak about, before and after a step. *)
LEMMA SlotsAre ==
  /\ \A s : SlotsOf(s) = Places(queues, s) /\ SlotsOf(s)' = Places(queues', s)
  /\ Occupied = Taken(queues) /\ Occupied' = Taken(queues')
BY DEF SlotsOf, Places, Occupied, Taken

(* Other subscribers keep their slots. *)
OthersKeep(s) == \A y \in Subscribers : y # QueueOf(s) => SlotsOf(y)' = SlotsOf(y)

(* Device::Subscribe puts the queue into a free slot. *)
LEMMA InsertEffect ==
  ASSUME TypeOK, NEW s \in Subscribers, SubscribeInsert(s)
  PROVE  /\ queues' \in Seq(Queues) /\ Len(queues') = Len(queues)
         /\ at' \in DOMAIN queues' /\ queues'[at'] = QueueOf(s)
         /\ OthersKeep(s)
         /\ s = AlwaysOn => Cardinality(Occupied') = Cardinality(Occupied)
         /\ s # AlwaysOn =>
              /\ SlotsOf(s)' = SlotsOf(s) \cup {at'} /\ at' \notin SlotsOf(s)
              /\ Cardinality(SlotsOf(s)') = Cardinality(SlotsOf(s)) + 1
              /\ Cardinality(Occupied') = Cardinality(Occupied) + 1
<1>1. queues \in Seq(Queues)
  BY DEF TypeOK, Queues
<1>2. PICK i \in FirstFree(queues) :
        queues' = Write(queues, i, QueueOf(s)) /\ at' = i
  BY DEF SubscribeInsert, Write
<1>3. i \in DOMAIN queues /\ queues[i] = Nobody
  BY <1>2 DEF FirstFree, Free
<1>4. s # Nobody
  BY ConstantsAssumption
<1>5. CASE s = AlwaysOn
  <2>1. queues' = queues
    BY <1>1, <1>2, <1>3, <1>5, NullSlot DEF QueueOf
  <2> QED
    BY <1>1, <1>2, <1>3, <1>4, <1>5, <2>1, SlotsAre, ConstantsAssumption
    DEF OthersKeep, QueueOf
<1>6. CASE s # AlwaysOn
  <2>1. queues' = Write(queues, i, s) /\ QueueOf(s) = s
    BY <1>2, <1>6 DEF QueueOf
  <2>2. /\ queues' \in Seq(Queues) /\ Len(queues') = Len(queues)
        /\ Places(queues', s) = Places(queues, s) \cup {i}
        /\ Cardinality(Places(queues', s)) = Cardinality(Places(queues, s)) + 1
        /\ \A y : y # s /\ y # Nobody => Places(queues', y) = Places(queues, y)
        /\ Cardinality(Taken(queues')) = Cardinality(Taken(queues)) + 1
    BY <1>1, <1>3, <1>4, <2>1, FillSlot, ConstantsAssumption
  <2>3. i \in DOMAIN queues' /\ queues'[i] = s
    BY <1>1, <1>3, <2>1 DEF Write
  <2>4. i \notin Places(queues, s)
    BY <1>1, <1>3, <1>4 DEF Places
  <2> QED
    BY <1>2, <1>4, <1>6, <2>1, <2>2, <2>3, <2>4, SlotsAre, ConstantsAssumption
    DEF OthersKeep
<1> QED
  BY <1>5, <1>6

(* The end of Device::Subscribe, with the result r. *)
LEMMA EndEffect ==
  ASSUME TypeOK, MutexInv, NEW s \in Subscribers, NEW r, pc[s] = "inserted",
         SubscribeEnd(s, r)
  PROVE  /\ queues' \in Seq(Queues) /\ Len(queues') = Len(queues)
         /\ OthersKeep(s)
         /\ r = 0 \/ s = AlwaysOn => queues' = queues
         /\ r # 0 /\ s # AlwaysOn =>
              /\ SlotsOf(s)' = SlotsOf(s) \ {at}
              /\ Cardinality(SlotsOf(s)') = Cardinality(SlotsOf(s)) - 1
              /\ Cardinality(Occupied') = Cardinality(Occupied) - 1
<1>1. /\ at \in DOMAIN queues /\ queues[at] = QueueOf(s) /\ s # Nobody
      /\ queues \in Seq(Queues)
  BY ConstantsAssumption DEF MutexInv, TypeOK, Queues
<1>2. CASE r = 0 \/ s = AlwaysOn
  <2>1. queues' = queues
    BY <1>1, <1>2, NullSlot DEF SubscribeEnd, QueueOf, Write
  <2> QED
    BY <1>1, <1>2, <2>1 DEF OthersKeep, SlotsOf
<1>3. CASE r # 0 /\ s # AlwaysOn
  <2>1. queues' = Write(queues, at, Nobody) /\ QueueOf(s) = s
    BY <1>3 DEF Write, SubscribeEnd, QueueOf
  <2>2. /\ queues' \in Seq(Queues) /\ Len(queues') = Len(queues)
        /\ Places(queues', s) = Places(queues, s) \ {at}
        /\ Cardinality(Places(queues', s)) = Cardinality(Places(queues, s)) - 1
        /\ \A y : y # s /\ y # Nobody => Places(queues', y) = Places(queues, y)
        /\ Cardinality(Taken(queues')) = Cardinality(Taken(queues)) - 1
    BY <1>1, <2>1, ClearSlot, ConstantsAssumption
  <2> QED
    BY <1>3, <2>1, <2>2, SlotsAre, ConstantsAssumption
    DEF OthersKeep
<1> QED
  BY <1>2, <1>3

(* Device::Unsubscribe clears the first slot with the queue. *)
LEMMA RemoveEffect ==
  ASSUME TypeOK, NEW s \in Subscribers, UnsubscribeRemove(s)
  PROVE  /\ queues' \in Seq(Queues) /\ Len(queues') = Len(queues)
         /\ OthersKeep(s)
         /\ s = AlwaysOn => queues' = queues
         /\ s # AlwaysOn =>
              /\ Cardinality(SlotsOf(s)') = Cardinality(SlotsOf(s)) - 1
              /\ Cardinality(Occupied') = Cardinality(Occupied) - 1
<1>1. PICK i \in FirstOf(queues, QueueOf(s)) : queues' = Write(queues, i, Nobody)
  BY DEF UnsubscribeRemove, Write
<1>2. /\ i \in DOMAIN queues /\ queues[i] = QueueOf(s) /\ s # Nobody
      /\ queues \in Seq(Queues)
  BY <1>1, ConstantsAssumption DEF FirstOf, TypeOK, Queues
<1>3. CASE s = AlwaysOn
  <2>1. queues' = queues
    BY <1>1, <1>2, <1>3, NullSlot DEF QueueOf
  <2> QED
    BY <1>2, <1>3, <2>1 DEF OthersKeep, SlotsOf
<1>4. CASE s # AlwaysOn
  <2>1. QueueOf(s) = s
    BY <1>4 DEF QueueOf
  <2>2. /\ queues' \in Seq(Queues) /\ Len(queues') = Len(queues)
        /\ Cardinality(Places(queues', s)) = Cardinality(Places(queues, s)) - 1
        /\ \A y : y # s /\ y # Nobody => Places(queues', y) = Places(queues, y)
        /\ Cardinality(Taken(queues')) = Cardinality(Taken(queues)) - 1
    BY <1>1, <1>2, <2>1, ClearSlot, ConstantsAssumption
  <2> QED
    BY <1>4, <2>1, <2>2, SlotsAre, ConstantsAssumption
    DEF OthersKeep
<1> QED
  BY <1>3, <1>4

(* The slots of a list are counted by natural numbers. *)
LEMMA SlotsCounted ==
  ASSUME TypeOK
  PROVE  /\ \A s : Cardinality(SlotsOf(s)) \in Nat
         /\ \A s : Cardinality(SlotsOf(s)) = 0 <=> SlotsOf(s) = {}
         /\ IsFiniteSet(Occupied) /\ Cardinality(Occupied) \in Nat
         /\ Cardinality(Occupied) = 0 <=> Occupied = {}
BY PlacesFinite DEF TypeOK, Queues, SlotsOf, Occupied, Places, Taken

(* The search of Device::Unsubscribe finds a queue that is listed. *)
LEMMA ListedIsFound ==
  ASSUME TypeOK, NEW s, SlotsOf(s) # {}
  PROVE  FirstOf(queues, s) # {}
<1>1. DOMAIN queues = 1..Len(queues) /\ Len(queues) \in Nat
  BY LenProperties DEF TypeOK
<1>2. SlotsOf(s) \in SUBSET Nat
  BY <1>1 DEF SlotsOf
<1>3. PICK i \in SlotsOf(s) : \A j \in SlotsOf(s) : i <= j
  BY <1>2, LeastElement
<1>4. i \in DOMAIN queues /\ queues[i] = s /\ i \in Nat /\ i <= Len(queues)
  BY <1>1 DEF SlotsOf
<1>5. \A j \in 1..(i-1) : queues[j] # s
  BY <1>1, <1>3, <1>4 DEF SlotsOf
<1> QED
  BY <1>4, <1>5 DEF FirstOf

-----------------------------------------------------------------------------
(***************************************************************************)
(* ListInv is inductive.                                                   *)
(***************************************************************************)

(* len_queues is doubled. *)
LEMMA GrowList ==
  ASSUME ListInv, NEW s \in Subscribers, SubscribeGrow(s)
  PROVE  ListInv'
<1> USE DEF ListInv
<1>1. /\ accessMutex = Nobody /\ accessMutex' = s /\ pc[s] = "idle"
      /\ len_queues' = 2 * len_queues
      /\ entitled' = IF Reading THEN entitled \cup {s} ELSE entitled
      /\ UNCHANGED <<queues, subscriptions, setUp, at, dev_subs, leaving, left,
                     pos, phase, target, old, owed>>
  BY DEF SubscribeGrow, MaySubscribe, Joins, records, loop
<1>2. \A y \in Subscribers : pc'[y] = IF y = s THEN "grown" ELSE pc[y]
  BY DEF SubscribeGrow, TypeOK
<1>3. TypeOK'
  BY <1>1 DEF SubscribeGrow, TypeOK
<1>4. \A y : SlotsOf(y)' = SlotsOf(y)
  BY <1>1 DEF SlotsOf
<1>5. \A y \in Subscribers : Inserting(y)' = Inserting(y)
  BY <1>1, <1>2 DEF Inserting
<1>6. \A y \in Subscribers : Ahead(y)' = Ahead(y)
  BY <1>1, <1>2, <1>4 DEF Ahead
<1>7. MutexInv'
  BY <1>1, <1>2, ConstantsAssumption DEF MutexInv, InSubscribe, QueueOf
<1>8. LenInv'
  BY <1>1, <1>2, LenProperties DEF LenInv, MutexInv, InSubscribe, TypeOK
<1>9. SlotsInv'
  BY <1>1, <1>4, <1>5 DEF SlotsInv
<1>10. NullInv' /\ LeftInv'
  BY <1>1, <1>2, <1>4 DEF NullInv, LeftInv
<1>11. OwedInv'
  BY <1>1, <1>2, <1>6 DEF OwedInv
<1>12. EntitledInv'
  BY <1>1, <1>2, <1>4 DEF EntitledInv, Reading
<1> QED
  BY <1>3, <1>7, <1>8, <1>9, <1>10, <1>11, <1>12

(* The list moves: who is in the slot that Publish still has the address   *)
(* of may be found there after it has gone.                                *)
LEMMA MoveList ==
  ASSUME ListInv, NEW s \in Subscribers, SubscribeMove(s)
  PROVE  ListInv'
<1> USE DEF ListInv
<1> DEFINE seen == IF pos \in DOMAIN queues THEN queues[pos] ELSE Wild
<1>1. /\ pc[s] = "grown" /\ accessMutex = s
      /\ old' = old \/ (old' = old \cup {seen})
      /\ UNCHANGED <<queues, len_queues, accessMutex, subscriptions, setUp, at,
                     dev_subs, leaving, left, pos, phase, target, owed, entitled>>
  BY DEF SubscribeMove, MutexInv, InSubscribe, records, loop
<1>2. \A y \in Subscribers : pc'[y] = IF y = s THEN "moved" ELSE pc[y]
  BY DEF SubscribeMove, TypeOK
<1>3. /\ seen \in Subscribers \cup {Nobody, Wild}
      /\ \A y \in Subscribers : seen = y => SlotsOf(y) # {}
  <2>1. pos \in DOMAIN queues => queues[pos] \in Subscribers \cup {Nobody}
    BY LenProperties, ElementOfSeq DEF TypeOK
  <2> QED
    BY <2>1, ConstantsAssumption DEF SlotsOf
<1> HIDE DEF seen
<1>4. TypeOK'
  BY <1>1, <1>3 DEF SubscribeMove, TypeOK
<1>5. \A y : SlotsOf(y)' = SlotsOf(y)
  BY <1>1 DEF SlotsOf
<1>6. \A y \in Subscribers : Inserting(y)' = Inserting(y)
  BY <1>1, <1>2 DEF Inserting
<1>7. \A y \in Subscribers : Ahead(y)' = Ahead(y)
  BY <1>1, <1>2, <1>5 DEF Ahead
<1>8. MutexInv'
  BY <1>1, <1>2, ConstantsAssumption DEF MutexInv, InSubscribe, QueueOf
<1>9. LenInv'
  BY <1>1, <1>2 DEF LenInv
<1>10. SlotsInv'
  BY <1>1, <1>5, <1>6 DEF SlotsInv
<1>11. NullInv' /\ LeftInv'
  BY <1>1, <1>2, <1>5 DEF NullInv, LeftInv
<1>12. OwedInv'
  BY <1>1, <1>2, <1>7 DEF OwedInv
<1>13. EntitledInv'
  BY <1>1, <1>2, <1>3, <1>5 DEF EntitledInv, Reading, InSubscribe
<1> QED
  BY <1>4, <1>8, <1>9, <1>10, <1>11, <1>12, <1>13

(* The new half is cleared, and with it the list is longer. *)
LEMMA ClearList ==
  ASSUME ListInv, NEW s \in Subscribers, SubscribeClear(s)
  PROVE  ListInv'
<1> USE DEF ListInv
<1>1. /\ pc[s] = "moved" /\ accessMutex = s /\ queues' = Doubled(queues)
      /\ UNCHANGED <<len_queues, accessMutex, subscriptions, setUp, at, dev_subs,
                     leaving, left, pos, phase, target, old, owed, entitled>>
  BY DEF SubscribeClear, MutexInv, InSubscribe, records, loop
<1>2. \A y \in Subscribers : pc'[y] = IF y = s THEN "cleared" ELSE pc[y]
  BY DEF SubscribeClear, TypeOK
<1>3. /\ queues' \in Seq(Queues) /\ Len(queues') = 2 * Len(queues)
      /\ Len(queues) \in Nat
  BY <1>1, DoubledProperties, LenProperties DEF TypeOK, Queues
<1>4. TypeOK'
  BY <1>1, <1>3 DEF SubscribeClear, TypeOK, Queues
<1>5. \A y \in Subscribers : SlotsOf(y)' = SlotsOf(y)
  BY <1>1, DoubledPlaces, SlotsAre, ConstantsAssumption DEF TypeOK, Queues
<1>6. \A y \in Subscribers : Inserting(y)' = Inserting(y)
  BY <1>1, <1>2 DEF Inserting
<1>7. \A y \in Subscribers : Ahead(y)' = Ahead(y)
  BY <1>1, <1>2, <1>5 DEF Ahead
<1>8. MutexInv'
  BY <1>1, <1>2, ConstantsAssumption DEF MutexInv, InSubscribe, QueueOf
<1>9. LenInv'
  BY <1>1, <1>2, <1>3 DEF LenInv, MutexInv, InSubscribe
<1>10. SlotsInv'
  BY <1>1, <1>5, <1>6 DEF SlotsInv
<1>11. NullInv' /\ LeftInv'
  BY <1>1, <1>2, <1>5 DEF NullInv, LeftInv
<1>12. OwedInv'
  BY <1>1, <1>2, <1>7 DEF OwedInv
<1>13. EntitledInv'
  BY <1>1, <1>2, <1>5 DEF EntitledInv, Reading, InSubscribe
<1> QED
  BY <1>4, <1>8, <1>9, <1>10, <1>11, <1>12, <1>13

(* A queue is put into a free slot. *)
LEMMA InsertList ==
  ASSUME ListInv, NEW s \in Subscribers, SubscribeInsert(s)
  PROVE  ListInv'
<1> USE DEF ListInv
<1>1. /\ queues' \in Seq(Queues) /\ Len(queues') = Len(queues)
      /\ at' \in DOMAIN queues' /\ queues'[at'] = QueueOf(s)
      /\ OthersKeep(s)
      /\ s # AlwaysOn =>
           /\ SlotsOf(s)' = SlotsOf(s) \cup {at'} /\ at' \notin SlotsOf(s)
           /\ Cardinality(SlotsOf(s)') = Cardinality(SlotsOf(s)) + 1
  BY InsertEffect
<1>2. /\ accessMutex \in {Nobody, s} /\ accessMutex' = s /\ pc[s] \in {"idle", "cleared"}
      /\ entitled' = IF Reading THEN entitled \cup {s} ELSE entitled
      /\ UNCHANGED <<len_queues, subscriptions, setUp, dev_subs, leaving, left,
                     pos, phase, target, old, owed>>
  BY DEF SubscribeInsert, MaySubscribe, MutexInv, InSubscribe, Joins, records, loop
<1>3. \A y \in Subscribers : pc'[y] = IF y = s THEN "inserted" ELSE pc[y]
  BY DEF SubscribeInsert, TypeOK
<1>4. \A y \in Subscribers : y # s => pc[y] \notin InSubscribe
  BY <1>2, ConstantsAssumption DEF MutexInv
<1>5. DOMAIN queues' = 1..Len(queues') /\ Len(queues') \in Nat
  BY <1>1, LenProperties
<1>6. TypeOK'
  BY <1>1, <1>2, <1>5 DEF SubscribeInsert, TypeOK, Queues
<1>7. MutexInv'
  BY <1>1, <1>2, <1>3, <1>4, ConstantsAssumption DEF MutexInv, InSubscribe, QueueOf
<1>8. LenInv'
  BY <1>1, <1>2, <1>3 DEF LenInv
<1>9. SlotsInv'
  <2> SUFFICES ASSUME NEW y \in Subscribers \ {AlwaysOn}
               PROVE  Cardinality(SlotsOf(y)') = dev_subs'[y] + left'[y] + Inserting(y)'
    BY DEF SlotsInv
  <2>1. CASE y = s
    <3>1. Inserting(s) = 0 /\ Inserting(s)' = 1
      BY <1>2, <1>3 DEF Inserting
    <3>2. Cardinality(SlotsOf(s)) = dev_subs[s] + left[s] + Inserting(s)
      BY <2>1 DEF SlotsInv
    <3>3. dev_subs[s] \in Nat /\ left[s] \in Nat /\ UNCHANGED <<dev_subs, left>>
      BY <1>2 DEF TypeOK
    <3> QED
      BY <1>1, <2>1, <3>1, <3>2, <3>3
  <2>2. CASE y # s
    BY <1>1, <1>2, <1>3, <2>2, ConstantsAssumption
    DEF SlotsInv, Inserting, OthersKeep, QueueOf
  <2> QED
    BY <2>1, <2>2
<1>10. NullInv' /\ LeftInv'
  BY <1>1, <1>2, <1>3, ConstantsAssumption DEF NullInv, LeftInv, OthersKeep, QueueOf
<1>11. OwedInv'
  <2>1. ASSUME NEW y \in owed'
        PROVE  Ahead(y)' # {}
    <3>1. y \in Subscribers \ {AlwaysOn} /\ Ahead(y) # {}
      BY <1>2, <2>1 DEF OwedInv
    <3>2. PICK i \in Ahead(y) : TRUE
      BY <3>1
    <3>3. /\ i \in SlotsOf(y) /\ i >= pos /\ (i = pos /\ phase = "push" => target = y)
      BY <3>2 DEF Ahead
    <3>4. i \in SlotsOf(y)'
      BY <1>1, <3>1, <3>3, ConstantsAssumption DEF OthersKeep, QueueOf
    <3>5. ~(pc'[y] = "inserted" /\ i = at')
      BY <1>1, <1>3, <1>4, <3>1, <3>3 DEF InSubscribe
    <3> QED
      BY <1>2, <3>3, <3>4, <3>5 DEF Ahead
  <2> QED
    BY <1>2, <1>3, <2>1 DEF OwedInv
<1>12. EntitledInv'
  BY <1>1, <1>2, <1>3, ConstantsAssumption
  DEF EntitledInv, Reading, OthersKeep, QueueOf
<1> QED
  BY <1>6, <1>7, <1>8, <1>9, <1>10, <1>11, <1>12

(* Device::Subscribe ends, successfully or with an error. *)
LEMMA EndList ==
  ASSUME ListInv, NEW s \in Subscribers, NEW r \in Int, r <= 0, pc[s] = "inserted",
         SubscribeEnd(s, r), subscriptions' \in Nat, setUp' \in BOOLEAN
  PROVE  ListInv'
<1> USE DEF ListInv
<1>1. /\ queues' \in Seq(Queues) /\ Len(queues') = Len(queues)
      /\ OthersKeep(s)
      /\ r = 0 \/ s = AlwaysOn => queues' = queues
      /\ r # 0 /\ s # AlwaysOn =>
           /\ SlotsOf(s)' = SlotsOf(s) \ {at}
           /\ Cardinality(SlotsOf(s)') = Cardinality(SlotsOf(s)) - 1
  BY EndEffect
<1>2. /\ accessMutex = s /\ accessMutex' = Nobody /\ at' = 0
      /\ UNCHANGED <<len_queues, leaving, left, pos, phase, target, old, owed, entitled>>
  BY DEF SubscribeEnd, loop, MutexInv, InSubscribe
<1>3. \A y \in Subscribers :
        /\ pc'[y] = IF y = s THEN "idle" ELSE pc[y]
        /\ dev_subs'[y] = IF y = s /\ r = 0 THEN dev_subs[y] + 1 ELSE dev_subs[y]
  BY DEF SubscribeEnd, TypeOK
<1>4. \A y \in Subscribers : y # s => pc[y] \notin InSubscribe
  BY <1>2 DEF MutexInv
<1>5. \A y \in Subscribers : /\ Cardinality(SlotsOf(y)) \in Nat
                             /\ dev_subs[y] \in Nat /\ left[y] \in Nat
  BY SlotsCounted DEF TypeOK
<1>6. TypeOK'
  BY <1>1, <1>2 DEF SubscribeEnd, TypeOK, Queues
<1>7. MutexInv'
  BY <1>2, <1>3, <1>4, ConstantsAssumption DEF MutexInv, InSubscribe
<1>8. LenInv'
  BY <1>1, <1>2, <1>3 DEF LenInv
<1>9. SlotsInv'
  <2> SUFFICES ASSUME NEW y \in Subscribers \ {AlwaysOn}
               PROVE  Cardinality(SlotsOf(y)') = dev_subs'[y] + left'[y] + Inserting(y)'
    BY DEF SlotsInv
  <2>1. CASE y = s /\ r = 0
    <3>1. SlotsOf(y)' = SlotsOf(y)
      BY <1>1, <2>1 DEF SlotsOf
    <3> QED
      BY <1>2, <1>3, <1>5, <2>1, <3>1 DEF SlotsInv, Inserting
  <2>2. CASE y = s /\ r # 0
    BY <1>1, <1>2, <1>3, <1>5, <2>2 DEF SlotsInv, Inserting
  <2>3. CASE y # s
    <3>1. SlotsOf(y)' = SlotsOf(y)
      BY <1>1, <2>3, ConstantsAssumption DEF OthersKeep, QueueOf
    <3> QED
      BY <1>2, <1>3, <2>3, <3>1 DEF SlotsInv, Inserting
  <2> QED
    BY <2>1, <2>2, <2>3
<1>10. NullInv' /\ LeftInv'
  BY <1>1, <1>2, <1>3, ConstantsAssumption DEF NullInv, LeftInv, OthersKeep, QueueOf
<1>11. \A y \in Subscribers \ {AlwaysOn} : SlotsOf(y)' \in SUBSET SlotsOf(y)
  <2> SUFFICES ASSUME NEW y \in Subscribers \ {AlwaysOn}
               PROVE  SlotsOf(y)' \in SUBSET SlotsOf(y)
    OBVIOUS
  <2>1. CASE y = s /\ r = 0
    BY <1>1, <2>1 DEF SlotsOf
  <2>2. CASE y = s /\ r # 0
    BY <1>1, <2>2
  <2>3. CASE y # s
    BY <1>1, <2>3, ConstantsAssumption DEF OthersKeep, QueueOf
  <2> QED
    BY <2>1, <2>2, <2>3
<1>12. OwedInv'
  <2>1. ASSUME NEW y \in owed'
        PROVE  Ahead(y)' # {}
    <3>1. y \in Subscribers \ {AlwaysOn} /\ Ahead(y) # {}
      BY <1>2, <2>1 DEF OwedInv
    <3>2. PICK i \in Ahead(y) : TRUE
      BY <3>1
    <3>3. /\ i \in SlotsOf(y) /\ i >= pos /\ (i = pos /\ phase = "push" => target = y)
          /\ ~(pc[y] = "inserted" /\ i = at)
      BY <3>2 DEF Ahead
    <3>4. i \in SlotsOf(y)'
      <4>1. CASE y = s /\ r = 0
        BY <1>1, <3>3, <4>1 DEF SlotsOf
      <4>2. CASE y = s /\ r # 0
        BY <1>1, <3>1, <3>3, <4>2
      <4>3. CASE y # s
        BY <1>1, <3>1, <3>3, <4>3, ConstantsAssumption DEF OthersKeep, QueueOf
      <4> QED
        BY <4>1, <4>2, <4>3
    <3>5. pc'[y] # "inserted"
      BY <1>3, <1>4, <3>1 DEF InSubscribe
    <3> QED
      BY <1>2, <3>3, <3>4, <3>5 DEF Ahead
  <2> QED
    BY <1>2, <1>3, <2>1 DEF OwedInv
<1>13. EntitledInv'
  BY <1>2, <1>3, <1>10, <1>11 DEF EntitledInv, Reading, InSubscribe, NullInv
<1> QED
  BY <1>6, <1>7, <1>8, <1>9, <1>10, <1>12, <1>13

(* Somebody goes away. *)
LEMMA LeaveList ==
  ASSUME ListInv, NEW s \in Subscribers, Leave(s)
  PROVE  ListInv'
<1> USE DEF ListInv
<1>1. /\ leaving' = leaving \cup {s}
      /\ UNCHANGED <<queues, len_queues, accessMutex, subscriptions, setUp, at, pc,
                     dev_subs, left, pos, phase, target, old, owed, entitled>>
  BY DEF Leave, loop
<1>2. TypeOK'
  BY <1>1 DEF TypeOK
<1>3. \A y : SlotsOf(y)' = SlotsOf(y) /\ Inserting(y)' = Inserting(y)
  BY <1>1 DEF SlotsOf, Inserting
<1>4. \A y : Ahead(y)' = Ahead(y)
  BY <1>1, <1>3 DEF Ahead
<1>5. MutexInv' /\ LenInv'
  BY <1>1 DEF MutexInv, LenInv, QueueOf
<1>6. SlotsInv'
  BY <1>1, <1>3 DEF SlotsInv
<1>7. NullInv' /\ LeftInv'
  BY <1>1, <1>3 DEF NullInv, LeftInv
<1>8. OwedInv' /\ EntitledInv'
  BY <1>1, <1>3, <1>4 DEF OwedInv, EntitledInv, Reading
<1> QED
  BY <1>2, <1>5, <1>6, <1>7, <1>8

(* What an error does to the record, when n slots stay: what is not        *)
(* recorded any more is left behind.                                       *)
LEMMA RefusedEffect ==
  ASSUME TypeOK, NEW s \in Subscribers, NEW n \in Nat, Refused(s, n)
  PROVE  /\ dev_subs' \in [Subscribers -> Nat] /\ left' \in [Subscribers -> Nat]
         /\ \A y \in Subscribers : y # s \/ s \notin leaving =>
              dev_subs'[y] = dev_subs[y] /\ left'[y] = left[y]
         /\ s \in leaving =>
              dev_subs'[s] = Less(dev_subs[s]) /\ left'[s] = left[s] + n
<1>1. dev_subs \in [Subscribers -> Nat] /\ left \in [Subscribers -> Nat]
  BY DEF TypeOK
<1>2. \A m \in Nat : Less(m) \in Nat
  BY DEF Less
<1>3. CASE s \in leaving
  <2>1. /\ dev_subs' = [dev_subs EXCEPT ![s] = Less(dev_subs[s])]
        /\ left' = [left EXCEPT ![s] = left[s] + n]
    BY <1>3 DEF Refused
  <2>2. Less(dev_subs[s]) \in Nat /\ left[s] + n \in Nat
    BY <1>1, <1>2
  <2> QED
    BY <1>1, <1>3, <2>1, <2>2
<1>4. CASE s \notin leaving
  BY <1>1, <1>4 DEF Refused
<1> QED
  BY <1>3, <1>4

(* The driver's part of Device::Unsubscribe leaves the list alone. *)
LEMMA UnsubscribeList ==
  ASSUME ListInv, NEW s \in Subscribers, MayUnsubscribe(s),
         \/ pc' = pc /\ Refused(s, 1)
         \/ pc' = [pc EXCEPT ![s] = "removing"] /\ UNCHANGED <<dev_subs, left>>,
         owed' = owed \ {s} \/ (owed' = owed /\ pc' = pc),
         subscriptions' \in Nat, setUp' \in BOOLEAN,
         UNCHANGED <<queues, len_queues, accessMutex, at, leaving, loop, old, entitled>>
  PROVE  ListInv'
<1> USE DEF ListInv
<1>1. /\ pc[s] = "idle" /\ (s = AlwaysOn => s \in leaving)
      /\ dev_subs[s] > 0 \/ s \notin leaving
      /\ UNCHANGED <<queues, len_queues, accessMutex, at, leaving, pos, phase, target,
                     old, entitled>>
  BY DEF MayUnsubscribe, loop
<1>2. \A y \in Subscribers : dev_subs[y] \in Nat /\ left[y] \in Nat
  BY DEF TypeOK
<1>3. /\ dev_subs' \in [Subscribers -> Nat] /\ left' \in [Subscribers -> Nat]
      /\ \A y \in Subscribers :
           /\ dev_subs'[y] + left'[y] = dev_subs[y] + left[y]
           /\ left'[y] > left[y] => y \in leaving
           /\ y # s => dev_subs'[y] = dev_subs[y] /\ left'[y] = left[y]
  <2>1. CASE Refused(s, 1)
    <3>1. s \in leaving =>
            dev_subs'[s] = dev_subs[s] - 1 /\ left'[s] = left[s] + 1
      BY <1>1, <1>2, <2>1, RefusedEffect DEF Less
    <3> QED
      BY <1>2, <2>1, <3>1, RefusedEffect
  <2>2. CASE UNCHANGED <<dev_subs, left>>
    BY <1>2, <2>2 DEF TypeOK
  <2> QED
    BY <2>1, <2>2
<1>4. \A y \in Subscribers :
        pc'[y] = pc[y] \/ (y = s /\ pc'[y] = "removing" /\ UNCHANGED <<dev_subs, left>>)
  BY DEF TypeOK
<1>5. TypeOK'
  BY <1>1, <1>3 DEF TypeOK
<1>6. MutexInv' /\ LenInv'
  BY <1>1, <1>4 DEF MutexInv, LenInv, QueueOf, InSubscribe
<1>7. \A y \in Subscribers : /\ SlotsOf(y)' = SlotsOf(y)
                             /\ Inserting(y)' = Inserting(y)
  BY <1>1, <1>4 DEF SlotsOf, Inserting
<1>8. \A y \in Subscribers : Ahead(y)' = Ahead(y)
  BY <1>1, <1>4, <1>7 DEF Ahead
<1>9. SlotsInv'
  BY <1>3, <1>7 DEF SlotsInv
<1>10. NullInv'
  BY <1>7 DEF NullInv
<1>11. LeftInv'
  <2> SUFFICES ASSUME NEW y \in Subscribers
               PROVE  /\ left'[y] > 0 => y \in leaving
                      /\ pc'[y] = "removing" => dev_subs'[y] > 0 \/ left'[y] = 0
                      /\ pc'[y] = "removing" /\ y = AlwaysOn => y \in leaving
    BY <1>1 DEF LeftInv
  <2>1. left'[y] > 0 => y \in leaving
    BY <1>2, <1>3 DEF LeftInv
  <2>2. CASE y = s
    BY <1>1, <1>2, <1>4, <2>1, <2>2 DEF LeftInv
  <2>3. CASE y # s
    BY <1>3, <1>4, <2>3 DEF LeftInv
  <2> QED
    BY <2>1, <2>2, <2>3
<1>12. OwedInv'
  BY <1>4, <1>8 DEF OwedInv
<1>13. EntitledInv'
  BY <1>1, <1>4, <1>7 DEF EntitledInv, Reading, InSubscribe
<1> QED
  BY <1>5, <1>6, <1>9, <1>10, <1>11, <1>12, <1>13

(* A queue is taken off the list. *)
LEMMA RemoveList ==
  ASSUME ListInv, NEW s \in Subscribers, UnsubscribeRemove(s)
  PROVE  ListInv'
<1> USE DEF ListInv
<1>1. /\ queues' \in Seq(Queues) /\ Len(queues') = Len(queues)
      /\ OthersKeep(s)
      /\ s = AlwaysOn => queues' = queues
      /\ s # AlwaysOn => Cardinality(SlotsOf(s)') = Cardinality(SlotsOf(s)) - 1
  BY RemoveEffect
<1>2. /\ pc[s] = "removing" /\ accessMutex = Nobody
      /\ UNCHANGED <<len_queues, accessMutex, subscriptions, setUp, at, leaving, left,
                     pos, phase, target, old, owed, entitled>>
  BY DEF UnsubscribeRemove, loop
<1>3. \A y \in Subscribers :
        /\ pc'[y] = IF y = s THEN "idle" ELSE pc[y]
        /\ dev_subs'[y] = IF y = s THEN Less(dev_subs[y]) ELSE dev_subs[y]
  BY DEF UnsubscribeRemove, TypeOK
<1>4. \A y \in Subscribers : /\ Cardinality(SlotsOf(y)) \in Nat
                             /\ dev_subs[y] \in Nat /\ left[y] \in Nat
  BY SlotsCounted DEF TypeOK
<1>5. TypeOK'
  BY <1>1, <1>2 DEF UnsubscribeRemove, TypeOK, Queues, Less
<1>6. MutexInv' /\ LenInv'
  BY <1>1, <1>2, <1>3, ConstantsAssumption DEF MutexInv, LenInv, InSubscribe
<1>7. SlotsInv'
  <2> SUFFICES ASSUME NEW y \in Subscribers \ {AlwaysOn}
               PROVE  Cardinality(SlotsOf(y)') = dev_subs'[y] + left'[y] + Inserting(y)'
    BY DEF SlotsInv
  <2>1. CASE y = s
    <3>1. Cardinality(SlotsOf(s)') \in Nat
      BY <1>5, PlacesFinite, SlotsAre DEF TypeOK, Queues
    <3>2. Cardinality(SlotsOf(s)) = dev_subs[s] + left[s]
      BY <1>2, <1>4, <2>1 DEF SlotsInv, Inserting
    <3>3. dev_subs[s] > 0
      BY <1>1, <1>2, <1>4, <2>1, <3>1, <3>2 DEF LeftInv
    <3>4. Inserting(s)' = 0 /\ dev_subs'[s] = dev_subs[s] - 1 /\ left'[s] = left[s]
      BY <1>2, <1>3, <3>3 DEF Inserting, Less
    <3> QED
      BY <1>1, <1>4, <2>1, <3>2, <3>4
  <2>2. CASE y # s
    <3>1. SlotsOf(y)' = SlotsOf(y)
      BY <1>1, <2>2, ConstantsAssumption DEF OthersKeep, QueueOf
    <3> QED
      BY <1>2, <1>3, <2>2, <3>1 DEF SlotsInv, Inserting
  <2> QED
    BY <2>1, <2>2
<1>8. NullInv' /\ LeftInv'
  BY <1>1, <1>2, <1>3, ConstantsAssumption DEF NullInv, LeftInv, OthersKeep, QueueOf
<1>9. \A y \in Subscribers : y # s => SlotsOf(y)' = SlotsOf(y)
  <2> SUFFICES ASSUME NEW y \in Subscribers, y # s
               PROVE  SlotsOf(y)' = SlotsOf(y)
    OBVIOUS
  <2>1. CASE s = AlwaysOn
    BY <1>1, <2>1 DEF SlotsOf
  <2>2. CASE s # AlwaysOn
    BY <1>1, <2>2 DEF OthersKeep, QueueOf
  <2> QED
    BY <2>1, <2>2
<1>10. OwedInv'
  <2>1. ASSUME NEW y \in owed'
        PROVE  Ahead(y)' # {} /\ y # s
    <3>1. y \in Subscribers \ {AlwaysOn} /\ Ahead(y) # {} /\ y # s
      BY <1>2, <2>1 DEF OwedInv
    <3>2. SlotsOf(y)' = SlotsOf(y) /\ pc'[y] = pc[y]
      BY <1>3, <1>9, <3>1
    <3> QED
      BY <1>2, <3>1, <3>2 DEF Ahead
  <2> QED
    BY <1>2, <1>3, <2>1 DEF OwedInv
<1>11. \A y \in Subscribers : SlotsOf(y) = {} => SlotsOf(y)' = {}
  <2>1. s # AlwaysOn => SlotsOf(s) # {}
    <3>1. PICK i \in FirstOf(queues, QueueOf(s)) : TRUE
      BY DEF UnsubscribeRemove
    <3> QED
      BY <3>1 DEF FirstOf, QueueOf, SlotsOf
  <2>2. s = AlwaysOn => SlotsOf(s)' = SlotsOf(s)
    BY <1>1 DEF SlotsOf
  <2> QED
    BY <1>9, <2>1, <2>2
<1>12. EntitledInv'
  BY <1>2, <1>3, <1>11 DEF EntitledInv, Reading, InSubscribe
<1> QED
  BY <1>5, <1>6, <1>7, <1>8, <1>10, <1>12

(* Only the null queue, or that of a stranger, is missing from the list. *)
LEMMA MissingList ==
  ASSUME ListInv, NEW s \in Subscribers, UnsubscribeMissing(s)
  PROVE  ListInv'
<1> USE DEF ListInv
<1>1. /\ pc[s] = "removing" /\ accessMutex = Nobody /\ Refused(s, 0)
      /\ FirstOf(queues, QueueOf(s)) = {}
      /\ UNCHANGED <<queues, len_queues, accessMutex, subscriptions, setUp, at, leaving,
                     pos, phase, target, old, owed, entitled>>
  BY DEF UnsubscribeMissing, loop
<1>2. \A y \in Subscribers : pc'[y] = IF y = s THEN "idle" ELSE pc[y]
  BY DEF UnsubscribeMissing, TypeOK
<1>3. /\ \A y \in Subscribers : dev_subs[y] \in Nat /\ left[y] \in Nat
      /\ dev_subs' \in [Subscribers -> Nat] /\ left' \in [Subscribers -> Nat]
      /\ \A y \in Subscribers :
           /\ y # s => dev_subs'[y] = dev_subs[y]
           /\ left'[y] = left[y]
      /\ dev_subs'[s] \in {dev_subs[s], Less(dev_subs[s])}
  BY <1>1, RefusedEffect DEF TypeOK
<1>4. \A y : SlotsOf(y)' = SlotsOf(y)
  BY <1>1 DEF SlotsOf
<1>5. s # AlwaysOn => dev_subs[s] = 0 /\ left[s] = 0
  <2> SUFFICES ASSUME s # AlwaysOn PROVE dev_subs[s] = 0 /\ left[s] = 0
    OBVIOUS
  <2>1. SlotsOf(s) = {}
    BY <1>1, ListedIsFound DEF QueueOf
  <2>2. Cardinality(SlotsOf(s)) = 0
    BY <2>1, FS_EmptySet
  <2>3. Cardinality(SlotsOf(s)) = dev_subs[s] + left[s] + Inserting(s)
    BY DEF SlotsInv
  <2>4. Inserting(s) = 0
    BY <1>1 DEF Inserting
  <2> QED
    BY <1>3, <2>2, <2>3, <2>4
<1>6. \A y \in Subscribers \ {AlwaysOn} : dev_subs'[y] = dev_subs[y]
  BY <1>3, <1>5 DEF Less
<1>7. TypeOK'
  BY <1>1, <1>3 DEF UnsubscribeMissing, TypeOK
<1>8. MutexInv' /\ LenInv'
  BY <1>1, <1>2, ConstantsAssumption DEF MutexInv, LenInv, InSubscribe
<1>9. \A y \in Subscribers : Inserting(y)' = Inserting(y)
  BY <1>1, <1>2 DEF Inserting
<1>10. \A y \in Subscribers : Ahead(y)' = Ahead(y)
  BY <1>1, <1>2, <1>4 DEF Ahead
<1>11. SlotsInv'
  BY <1>3, <1>4, <1>6, <1>9 DEF SlotsInv
<1>12. NullInv' /\ LeftInv'
  BY <1>1, <1>2, <1>3, <1>4 DEF NullInv, LeftInv
<1>13. OwedInv'
  BY <1>1, <1>2, <1>10 DEF OwedInv
<1>14. EntitledInv'
  BY <1>1, <1>2, <1>4 DEF EntitledInv, Reading, InSubscribe
<1> QED
  BY <1>7, <1>8, <1>11, <1>12, <1>13, <1>14

(* Publish leaves the device alone ... *)
PublishStep == PublishBegin \/ PublishLook \/ PublishTest \/ PublishFetch
               \/ PublishPush \/ PublishEnd

(* ... and what it loads is a queue that it may find there. *)
LEMMA MemoryKnown ==
  ASSUME TypeOK
  PROVE  /\ Memory \subseteq Subscribers \cup {Nobody, Wild}
         /\ \A s \in Subscribers : s \in Memory => s \in old \/ SlotsOf(s) # {}
<1>1. pos \in DOMAIN queues => queues[pos] \in Subscribers \cup {Nobody}
  BY LenProperties, ElementOfSeq DEF TypeOK
<1>2. Memory \subseteq Subscribers \cup {Nobody, Wild}
  BY <1>1 DEF Memory, TypeOK
<1> QED
  BY <1>2, ConstantsAssumption DEF Memory, SlotsOf

(* A load that found the list where it was: somebody else is in the slot,  *)
(* or s is.                                                                *)
LEMMA GoodLoad ==
  ASSUME TypeOK, Loads, NEW s \in owed', NEW v \in Memory
  PROVE  s \in owed /\ pos \in DOMAIN queues /\ v = queues[pos]
BY DEF Loads, Memory

(* Publish keeps the types: a load gives what memory may hold. *)
LEMMA PublishTypes ==
  ASSUME TypeOK, PublishStep
  PROVE  TypeOK'
<1>1. CASE PublishBegin
  BY <1>1 DEF PublishBegin, TypeOK, Subscribed, device, records
<1>2. CASE PublishLook
  BY <1>2 DEF PublishLook, TypeOK, device, records
<1>3. CASE PublishTest
  BY <1>3 DEF PublishTest, Loads, TypeOK, device, records
<1>4. CASE PublishFetch
  BY <1>4 DEF PublishFetch, Loads, TypeOK, device, records
<1>5. CASE PublishPush
  BY <1>5 DEF PublishPush, TypeOK, device, records
<1>6. CASE PublishEnd
  BY <1>6 DEF PublishEnd, TypeOK, device, records
<1> QED
  BY <1>1, <1>2, <1>3, <1>4, <1>5, <1>6 DEF PublishStep

(* Whom Publish owes a message is still ahead of it. *)
LEMMA PublishOwed ==
  ASSUME ListInv, PublishStep
  PROVE  OwedInv'
<1> USE DEF ListInv
<1>1. UNCHANGED <<queues, at, pc, dev_subs>>
  BY DEF PublishStep, PublishBegin, PublishLook, PublishTest, PublishFetch,
     PublishPush, PublishEnd, device, records
<1>2. \A y : SlotsOf(y)' = SlotsOf(y)
  BY <1>1 DEF SlotsOf
<1>3. DOMAIN queues = 1..Len(queues) /\ Len(queues) \in Nat /\ pos \in Nat
  BY LenProperties DEF TypeOK
<1>4. CASE PublishBegin
  <2>1. pos' = 1 /\ phase' = "look" /\ owed' = Subscribed \ {AlwaysOn}
    BY <1>4 DEF PublishBegin
  <2> SUFFICES ASSUME NEW y \in Subscribed \ {AlwaysOn}
               PROVE  Ahead(y)' # {} /\ pc[y] = "idle" /\ y \in Subscribers \ {AlwaysOn}
    BY <1>1, <2>1 DEF OwedInv
  <2>2. y \in Subscribers /\ dev_subs[y] > 0 /\ pc[y] = "idle"
    BY DEF Subscribed
  <2>3. SlotsOf(y) # {}
    <3>1. /\ Cardinality(SlotsOf(y)) = dev_subs[y] + left[y] + Inserting(y)
          /\ Inserting(y) = 0 /\ dev_subs[y] \in Nat /\ left[y] \in Nat
      BY <2>2 DEF SlotsInv, Inserting, TypeOK
    <3>2. Cardinality(SlotsOf(y)) # 0
      BY <2>2, <3>1
    <3> QED
      BY <3>2, FS_EmptySet
  <2>4. \A i \in SlotsOf(y) : i >= 1
    BY <1>3 DEF SlotsOf
  <2> QED
    BY <1>1, <1>2, <2>1, <2>2, <2>3, <2>4 DEF Ahead
<1>5. CASE PublishLook
  <2>1. pos' = pos /\ phase' = "test" /\ owed' = owed /\ phase = "look"
    BY <1>5 DEF PublishLook
  <2>2. \A y : Ahead(y)' = Ahead(y)
    BY <1>1, <1>2, <2>1 DEF Ahead
  <2> QED
    BY <1>1, <2>1, <2>2 DEF OwedInv
<1>6. CASE PublishTest
  <2>1. PICK v \in Memory :
          IF v = Nobody THEN phase' = "look" /\ pos' = pos + 1
                        ELSE phase' = "fetch" /\ pos' = pos
    BY <1>6 DEF PublishTest
  <2>2. phase = "test" /\ Loads
    BY <1>6 DEF PublishTest
  <2>3. ASSUME NEW y \in owed'
        PROVE  /\ y \in Subscribers \ {AlwaysOn} /\ pc'[y] # "removing"
               /\ Ahead(y)' # {}
    <3>1. y \in owed /\ pos \in DOMAIN queues /\ v = queues[pos]
      BY <2>2, <2>3, GoodLoad
    <3>2. y \in Subscribers \ {AlwaysOn} /\ pc'[y] # "removing"
      BY <1>1, <3>1 DEF OwedInv
    <3>3. PICK i \in Ahead(y) : TRUE
      BY <3>1 DEF OwedInv
    <3>4. i \in SlotsOf(y) /\ i >= pos /\ ~(pc[y] = "inserted" /\ i = at) /\ i \in Nat
      BY <1>3, <3>3 DEF Ahead, SlotsOf
    <3>5. v = Nobody => i # pos
      BY <3>1, <3>2, <3>4, ConstantsAssumption DEF SlotsOf
    <3>6. i >= pos' /\ phase' # "push"
      BY <1>3, <2>1, <3>4, <3>5
    <3>7. i \in Ahead(y)'
      BY <1>1, <1>2, <3>4, <3>6 DEF Ahead
    <3> QED
      BY <3>2, <3>7
  <2> QED
    BY <2>3 DEF OwedInv
<1>7. CASE PublishFetch
  <2>1. PICK v \in Memory :
          IF v \in Subscribers THEN phase' = "push" /\ target' = v
                               ELSE phase' = "crashed" /\ target' = target
    BY <1>7 DEF PublishFetch
  <2>2. phase = "fetch" /\ pos' = pos /\ Loads
    BY <1>7 DEF PublishFetch
  <2>3. ASSUME NEW y \in owed'
        PROVE  /\ y \in Subscribers \ {AlwaysOn} /\ pc'[y] # "removing"
               /\ Ahead(y)' # {}
    <3>1. y \in owed /\ pos \in DOMAIN queues /\ v = queues[pos]
      BY <2>2, <2>3, GoodLoad
    <3>2. y \in Subscribers \ {AlwaysOn} /\ pc'[y] # "removing"
      BY <1>1, <3>1 DEF OwedInv
    <3>3. PICK i \in Ahead(y) : TRUE
      BY <3>1 DEF OwedInv
    <3>4. i \in SlotsOf(y) /\ i >= pos /\ ~(pc[y] = "inserted" /\ i = at)
      BY <3>3 DEF Ahead
    <3>5. i = pos => v = y
      BY <3>1, <3>4 DEF SlotsOf
    <3>6. i = pos' /\ phase' = "push" => target' = y
      BY <2>1, <2>2, <3>5
    <3>7. i \in Ahead(y)'
      BY <1>1, <1>2, <2>2, <3>4, <3>6 DEF Ahead
    <3> QED
      BY <3>2, <3>7
  <2> QED
    BY <2>3 DEF OwedInv
<1>8. CASE PublishPush
  <2>1. /\ phase = "push" /\ phase' = "look" /\ pos' = pos + 1
        /\ owed' = owed \ {target}
    BY <1>8 DEF PublishPush
  <2>2. ASSUME NEW y \in owed'
        PROVE  /\ y \in Subscribers \ {AlwaysOn} /\ pc'[y] # "removing"
               /\ Ahead(y)' # {}
    <3>1. y \in owed /\ y # target
      BY <2>1, <2>2
    <3>2. y \in Subscribers \ {AlwaysOn} /\ pc'[y] # "removing"
      BY <1>1, <3>1 DEF OwedInv
    <3>3. PICK i \in Ahead(y) : TRUE
      BY <3>1 DEF OwedInv
    <3>4. /\ i \in SlotsOf(y) /\ i >= pos /\ ~(pc[y] = "inserted" /\ i = at)
          /\ i # pos /\ i \in Nat
      BY <1>3, <2>1, <3>1, <3>3 DEF Ahead, SlotsOf
    <3>5. i >= pos'
      BY <1>3, <2>1, <3>4
    <3>6. i \in Ahead(y)'
      BY <1>1, <1>2, <2>1, <3>4, <3>5 DEF Ahead
    <3> QED
      BY <3>2, <3>6
  <2> QED
    BY <2>2 DEF OwedInv
<1>9. CASE PublishEnd
  BY <1>9 DEF PublishEnd, OwedInv
<1> QED
  BY <1>4, <1>5, <1>6, <1>7, <1>8, <1>9 DEF PublishStep

(* Publish finds nobody but those that had to do with the device. *)
LEMMA PublishEntitled ==
  ASSUME ListInv, PublishStep
  PROVE  EntitledInv'
<1> USE DEF ListInv
<1>1. UNCHANGED <<queues, pc, dev_subs, left>>
  BY DEF PublishStep, PublishBegin, PublishLook, PublishTest, PublishFetch,
     PublishPush, PublishEnd, device, records
<1>2. \A y : SlotsOf(y)' = SlotsOf(y)
  BY <1>1 DEF SlotsOf
<1>3. CASE PublishBegin \/ PublishPush \/ PublishEnd
  BY <1>3 DEF PublishBegin, PublishPush, PublishEnd, EntitledInv, Reading
<1>4. CASE PublishLook
  <2>1. /\ phase' = "test" /\ old' = {}
        /\ entitled' = {y \in Subscribers : dev_subs[y] + left[y] > 0 \/ pc[y] # "idle"}
    BY <1>4 DEF PublishLook
  <2>2. ASSUME NEW y \in Subscribers, SlotsOf(y) # {}
        PROVE  y \in entitled'
    <3>1. y # AlwaysOn
      BY <2>2 DEF NullInv
    <3>2. Cardinality(SlotsOf(y)) \in Nat /\ Cardinality(SlotsOf(y)) # 0
      BY <2>2, SlotsCounted
    <3>3. Cardinality(SlotsOf(y)) = dev_subs[y] + left[y] + Inserting(y)
      BY <3>1 DEF SlotsInv
    <3>4. dev_subs[y] \in Nat /\ left[y] \in Nat
      BY DEF TypeOK
    <3>5. pc[y] = "idle" => dev_subs[y] + left[y] > 0
      BY <3>2, <3>3, <3>4 DEF Inserting
    <3> QED
      BY <2>1, <3>5
  <2>3. ASSUME NEW y \in Subscribers, pc[y] \in InSubscribe
        PROVE  y \in entitled'
    BY <2>1, <2>3 DEF InSubscribe
  <2> QED
    BY <1>1, <1>2, <2>1, <2>2, <2>3 DEF EntitledInv
<1>5. CASE PublishTest
  <2>1. phase = "test" /\ old' = {} /\ phase' \in {"look", "fetch"}
    BY <1>5 DEF PublishTest
  <2>2. phase' = "fetch" => entitled' = entitled
    BY <1>5 DEF PublishTest
  <2> QED
    BY <1>1, <1>2, <2>1, <2>2 DEF EntitledInv, Reading
<1>6. CASE PublishFetch
  <2>1. phase = "fetch" /\ old' = {} /\ entitled' = entitled
    BY <1>6 DEF PublishFetch
  <2>2. phase' = "crashed" \/ (phase' = "push" /\ target' \in Memory /\ target' \in Subscribers)
    BY <1>6 DEF PublishFetch
  <2>3. target' \in Memory /\ target' \in Subscribers => target' \in entitled
    BY <2>1, MemoryKnown DEF EntitledInv, Reading
  <2> QED
    BY <1>1, <1>2, <2>1, <2>2, <2>3 DEF EntitledInv, Reading
<1> QED
  BY <1>3, <1>4, <1>5, <1>6 DEF PublishStep

(* The steps of Publish. *)
LEMMA PublishList ==
  ASSUME ListInv, PublishStep
  PROVE  ListInv'
<1> USE DEF ListInv
<1>1. UNCHANGED <<queues, len_queues, accessMutex, at, pc, dev_subs, leaving, left>>
  BY DEF PublishStep, PublishBegin, PublishLook, PublishTest, PublishFetch,
     PublishPush, PublishEnd, device, records
<1>2. \A y : SlotsOf(y)' = SlotsOf(y) /\ Inserting(y)' = Inserting(y)
  BY <1>1 DEF SlotsOf, Inserting
<1>3. MutexInv' /\ LenInv' /\ LeftInv'
  BY <1>1 DEF MutexInv, QueueOf, LenInv, LeftInv
<1>4. SlotsInv' /\ NullInv'
  BY <1>1, <1>2 DEF SlotsInv, NullInv
<1> QED
  BY <1>3, <1>4, PublishTypes, PublishOwed, PublishEntitled

(* Every step, of any subscriber or of Publish. *)
LEMMA NextList ==
  ASSUME SetupNeverPositive, ListInv, [Next]_vars
  PROVE  ListInv'
<1>1. ASSUME NEW s \in Subscribers,
             SubscribeGrow(s) \/ SubscribeMove(s) \/ SubscribeClear(s)
             \/ SubscribeInsert(s) \/ Leave(s)
      PROVE  ListInv'
  BY <1>1, GrowList, MoveList, ClearList, InsertList, LeaveList
<1>2. ASSUME NEW s \in Subscribers, SubscribeMore(s) PROVE ListInv'
  <2>1. subscriptions' \in Nat /\ setUp' \in BOOLEAN
    BY <1>2 DEF SubscribeMore, ListInv, TypeOK
  <2> QED
    BY <1>2, <2>1, EndList DEF SubscribeMore
<1>3. ASSUME NEW s \in Subscribers, NEW r \in HookResults, SubscribeHook(s, r)
      PROVE  ListInv'
  <2> DEFINE res == IF r < 0 THEN r ELSE 0
  <2>1. res \in Int /\ res <= 0
    BY ConstantsAssumption
  <2>2. pc[s] = "inserted" /\ SubscribeEnd(s, res)
    BY <1>3 DEF SubscribeHook
  <2>3. subscriptions' \in Nat /\ setUp' \in BOOLEAN
    BY <1>3 DEF SubscribeHook, ListInv, TypeOK
  <2> HIDE DEF res
  <2> QED
    BY <2>1, <2>2, <2>3, EndList
<1>4. ASSUME NEW s \in Subscribers, NEW r \in SetupResults, SubscribeFirst(s, r)
      PROVE  ListInv'
  <2>1. r \in Int /\ r <= 0 /\ subscriptions' \in Nat /\ setUp' \in BOOLEAN
    BY <1>4, ConstantsAssumption DEF SubscribeFirst, SetupNeverPositive
  <2> QED
    BY <1>4, <2>1, EndList DEF SubscribeFirst
<1>5. ASSUME NEW s \in Subscribers, NEW r \in ShutdownResults, UnsubscribeDriver(s, r)
      PROVE  ListInv'
  <2>1. subscriptions' \in Nat /\ setUp' \in BOOLEAN
    BY <1>5 DEF UnsubscribeDriver, ListInv, TypeOK
  <2> QED
    BY <1>5, <2>1, UnsubscribeList DEF UnsubscribeDriver
<1>6. ASSUME NEW s \in Subscribers, NEW r \in Uncounted, UnsubscribeHook(s, r)
      PROVE  ListInv'
  <2>1. subscriptions' \in Nat /\ setUp' \in BOOLEAN
    BY <1>6 DEF UnsubscribeHook, ListInv, TypeOK
  <2>2. owed' = owed \ {s} \/ (owed' = owed /\ pc' = pc)
    BY <1>6 DEF UnsubscribeHook
  <2>3. /\ \/ pc' = pc /\ Refused(s, 1)
           \/ pc' = [pc EXCEPT ![s] = "removing"] /\ UNCHANGED <<dev_subs, left>>
        /\ MayUnsubscribe(s)
        /\ UNCHANGED <<queues, len_queues, accessMutex, at, leaving, loop, old, entitled>>
    BY <1>6 DEF UnsubscribeHook
  <2> QED
    BY <2>1, <2>2, <2>3, UnsubscribeList
<1>7. ASSUME NEW s \in Subscribers, UnsubscribeRemove(s) PROVE ListInv'
  BY <1>7, RemoveList
<1>8. ASSUME NEW s \in Subscribers, UnsubscribeMissing(s) PROVE ListInv'
  BY <1>8, MissingList
<1>9. CASE PublishStep
  BY <1>9, PublishList
<1>10. CASE UNCHANGED vars
  <2>1. TypeOK' /\ MutexInv' /\ LenInv' /\ SlotsInv' /\ NullInv' /\ LeftInv'
    BY <1>10 DEF vars, ListInv, TypeOK, MutexInv, LenInv, SlotsInv, NullInv, LeftInv,
       SlotsOf, Inserting, QueueOf
  <2>2. OwedInv' /\ EntitledInv'
    BY <1>10 DEF vars, ListInv, OwedInv, EntitledInv, Ahead, SlotsOf, Reading
  <2> QED
    BY <2>1, <2>2 DEF ListInv
<1> QED
  BY <1>1, <1>2, <1>3, <1>4, <1>5, <1>6, <1>7, <1>8, <1>9, <1>10 DEF Next, PublishStep

(* The list starts with two free slots and no subscriber. *)
LEMMA InitList ==
  ASSUME Init
  PROVE  ListInv
<1>1. TypeOK
  <2>1. <<Nobody, Nobody>> \in Seq(Subscribers \cup {Nobody})
    OBVIOUS
  <2> QED
    BY <2>1 DEF Init, TypeOK
<1>2. MutexInv /\ LenInv /\ LeftInv
  BY ConstantsAssumption DEF Init, MutexInv, LenInv, LeftInv, InSubscribe
<1>3. \A s \in Subscribers : SlotsOf(s) = {}
  BY ConstantsAssumption DEF Init, SlotsOf
<1>4. SlotsInv
  BY <1>3, FS_EmptySet DEF Init, SlotsInv, Inserting
<1>5. OwedInv /\ NullInv /\ EntitledInv
  BY <1>3 DEF Init, OwedInv, NullInv, EntitledInv, Reading
<1> QED
  BY <1>1, <1>2, <1>4, <1>5 DEF ListInv

(* At all times the state has its types, one caller at most is inside      *)
(* Device::Subscribe, and every subscriber has exactly the slots that its  *)
(* subscriptions account for: those recorded, and those that went with a   *)
(* record which PlayerTCP::Close dropped although the driver refused.      *)
THEOREM ListInvariant ==
  ASSUME SetupNeverPositive
  PROVE  Spec => []ListInv
<1>1. Init => ListInv
  BY InitList
<1>2. ListInv /\ [Next]_vars => ListInv'
  BY NextList
<1> QED
  BY <1>1, <1>2, PTL DEF Spec

(* Driver::Publish walks slots that are filled, cleared and added under    *)
(* its feet, and still misses no queue subscribed from its beginning to    *)
(* its end, as long as every load finds the list where it was.             *)
THEOREM PublishMissesNobody ==
  ASSUME SetupNeverPositive
  PROVE  Spec => []PublishReachesSteady
<1>1. ListInv => PublishReachesSteady
  <2> SUFFICES ASSUME ListInv, phase = "look", pos > len_queues, NEW s \in owed
               PROVE  FALSE
    BY DEF PublishReachesSteady
  <2>1. /\ DOMAIN queues = 1..Len(queues) /\ Len(queues) \in Nat /\ pos \in Nat
        /\ len_queues \in Nat /\ len_queues >= Len(queues)
    BY LenProperties DEF ListInv, TypeOK, LenInv
  <2>2. Ahead(s) = {}
    BY <2>1 DEF Ahead, SlotsOf
  <2> QED
    BY <2>2 DEF ListInv, OwedInv
<1> QED
  BY <1>1, ListInvariant, PTL

(* Between two accesses of Driver::Publish to a slot everything may happen *)
(* to it, the list being moved included; but whoever Publish pushes onto   *)
(* has had a subscription, or a call for one, since it came to the slot.   *)
THEOREM PublishReachesNoStranger ==
  ASSUME SetupNeverPositive
  PROVE  Spec => []NothingPushedToStrangers
<1>1. ListInv => NothingPushedToStrangers
  BY DEF ListInv, EntitledInv, Reading, NothingPushedToStrangers
<1> QED
  BY <1>1, ListInvariant, PTL

-----------------------------------------------------------------------------
(***************************************************************************)
(* The driver's count.                                                     *)
(***************************************************************************)

(* The numbers CountInv speaks about are naturals. *)
LEMMA CountTypes ==
  ASSUME IInv
  PROVE  /\ subscriptions \in Nat /\ Cardinality(Occupied) \in Nat
         /\ Cardinality(Removing) \in Nat
         /\ AlwaysOnSubs \in Nat /\ PendingSlot \in {0, 1}
         /\ \A s \in Subscribers : dev_subs[s] \in Nat /\ left[s] \in Nat
<1>1. Cardinality(Removing) \in Nat
  BY FS_CardinalityType DEF IInv, CountInv
<1>2. AlwaysOnSubs \in Nat
  <2>1. \A s \in Subscribers : dev_subs[s] \in Nat /\ left[s] \in Nat
    BY DEF IInv, ListInv, TypeOK
  <2> QED
    BY <2>1, ConstantsAssumption DEF AlwaysOnSubs
<1> QED
  BY <1>1, <1>2, SlotsCounted DEF IInv, ListInv, TypeOK, PendingSlot

(* Who is between the insertion and the result, if anybody is. *)
LEMMA WhoIsFilling ==
  ASSUME MutexInv, accessMutex \in Subscribers \cup {Nobody}
  PROVE  /\ \A s \in Subscribers : pc[s] = "inserted" <=> Filling = s
         /\ Filling \in Subscribers \cup {Nobody}
BY ConstantsAssumption DEF MutexInv, Filling, InSubscribe

(* A step that leaves the calls, the list and the count as they are. *)
LEMMA SameCount ==
  ASSUME IInv, ListInv',
         \A s \in Subscribers : /\ (pc'[s] = "removing") <=> (pc[s] = "removing")
                                /\ (pc'[s] = "inserted") <=> (pc[s] = "inserted")
                                /\ dev_subs'[s] + left'[s] = dev_subs[s] + left[s]
                                /\ pc[s] = "removing" => dev_subs'[s] = dev_subs[s],
         Occupied' = Occupied, UNCHANGED <<subscriptions, setUp>>
  PROVE  IInv'
<1>1. Removing' = Removing
  BY DEF Removing
<1>2. Filling' = Filling
  <2>1. /\ Filling \in Subscribers \cup {Nobody}
        /\ \A s \in Subscribers : pc[s] = "inserted" <=> Filling = s
    BY WhoIsFilling DEF IInv, ListInv, TypeOK
  <2>2. /\ Filling' \in Subscribers \cup {Nobody}
        /\ \A s \in Subscribers : pc'[s] = "inserted" <=> Filling' = s
    <3>1. MutexInv' /\ accessMutex' \in Subscribers \cup {Nobody}
      BY DEF ListInv, TypeOK
    <3> QED
      BY <3>1, ConstantsAssumption DEF MutexInv, Filling, InSubscribe
  <2> QED
    BY <2>1, <2>2, ConstantsAssumption
<1>3. AlwaysOnSubs' = AlwaysOnSubs /\ PendingSlot' = PendingSlot
  BY <1>2, ConstantsAssumption DEF AlwaysOnSubs, PendingSlot
<1>4. \A y \in Removing' : dev_subs'[y] > 0
  BY <1>1 DEF Removing, IInv, CountInv
<1> QED
  BY <1>1, <1>3, <1>4 DEF IInv, CountInv

(* The new slot is not counted yet. *)
LEMMA InsertCount ==
  ASSUME IInv, ListInv', NEW s \in Subscribers, SubscribeInsert(s)
  PROVE  IInv'
<1>1. /\ s = AlwaysOn => Cardinality(Occupied') = Cardinality(Occupied)
      /\ s # AlwaysOn => Cardinality(Occupied') = Cardinality(Occupied) + 1
  BY InsertEffect DEF IInv, ListInv
<1>2. /\ accessMutex \in {Nobody, s} /\ accessMutex' = s /\ pc[s] \in {"idle", "cleared"}
      /\ UNCHANGED <<subscriptions, setUp, dev_subs, left>>
  BY DEF SubscribeInsert, MaySubscribe, MutexInv, InSubscribe, IInv, ListInv, records
<1>3. \A y \in Subscribers : pc'[y] = IF y = s THEN "inserted" ELSE pc[y]
  BY DEF SubscribeInsert, IInv, ListInv, TypeOK
<1>4. Removing' = Removing /\ AlwaysOnSubs' = AlwaysOnSubs
  BY <1>2, <1>3 DEF Removing, AlwaysOnSubs
<1>5. Filling = Nobody /\ Filling' = s
  BY <1>2, <1>3, ConstantsAssumption DEF Filling
<1>6. /\ PendingSlot = 0
      /\ PendingSlot' = IF s = AlwaysOn THEN 0 ELSE 1
  BY <1>5, ConstantsAssumption DEF PendingSlot
<1>7. CountInv'
  BY <1>1, <1>2, <1>4, <1>6, CountTypes DEF CountInv, IInv
<1> QED
  BY <1>7 DEF IInv

(* It is counted when the driver agrees, or gone. *)
LEMMA EndCount ==
  ASSUME IInv, ListInv', NEW s \in Subscribers, NEW r \in Int, r <= 0, pc[s] = "inserted",
         SubscribeEnd(s, r),
         subscriptions' = IF r = 0 THEN subscriptions + 1 ELSE subscriptions,
         setUp' <=> subscriptions' > 0
  PROVE  IInv'
<1>1. /\ r = 0 \/ s = AlwaysOn => queues' = queues
      /\ r # 0 /\ s # AlwaysOn => Cardinality(Occupied') = Cardinality(Occupied) - 1
  BY EndEffect DEF IInv, ListInv
<1>2. accessMutex = s /\ accessMutex' = Nobody /\ left' = left
  BY DEF SubscribeEnd, IInv, ListInv, MutexInv, InSubscribe
<1>3. \A y \in Subscribers :
        /\ pc'[y] = IF y = s THEN "idle" ELSE pc[y]
        /\ dev_subs'[y] = IF y = s /\ r = 0 THEN dev_subs[y] + 1 ELSE dev_subs[y]
  BY DEF SubscribeEnd, IInv, ListInv, TypeOK
<1>4. r = 0 \/ s = AlwaysOn => Occupied' = Occupied
  BY <1>1 DEF Occupied
<1>5. Removing' = Removing
  BY <1>3 DEF Removing
<1>6. Filling = s /\ Filling' = Nobody
  BY <1>2, ConstantsAssumption DEF Filling
<1>7. /\ PendingSlot = IF s = AlwaysOn THEN 0 ELSE 1
      /\ PendingSlot' = 0
  BY <1>6, ConstantsAssumption DEF PendingSlot
<1>8. /\ s # AlwaysOn \/ r < 0 => AlwaysOnSubs' = AlwaysOnSubs
      /\ s = AlwaysOn /\ r = 0 => AlwaysOnSubs' = AlwaysOnSubs + 1
  <2>1. AlwaysOn = Nobody => AlwaysOnSubs' = AlwaysOnSubs /\ s # AlwaysOn
    BY ConstantsAssumption DEF AlwaysOnSubs
  <2>2. ASSUME AlwaysOn # Nobody
        PROVE  /\ AlwaysOnSubs = dev_subs[AlwaysOn] + left[AlwaysOn]
               /\ AlwaysOnSubs' = dev_subs'[AlwaysOn] + left[AlwaysOn]
               /\ dev_subs[AlwaysOn] \in Nat /\ left[AlwaysOn] \in Nat
               /\ AlwaysOn \in Subscribers
    BY <1>2, <2>2, CountTypes, ConstantsAssumption DEF AlwaysOnSubs
  <2> QED
    BY <1>3, <2>1, <2>2
<1>9. \A y \in Removing' : dev_subs'[y] > 0
  BY <1>3, <1>5 DEF Removing, IInv, CountInv
<1>10. CountInv'
  BY <1>1, <1>4, <1>5, <1>7, <1>8, <1>9, CountTypes DEF CountInv, IInv
<1> QED
  BY <1>10 DEF IInv

(* The driver counts down before the slot is cleared. *)
LEMMA UnsubscribeCount ==
  ASSUME DriverCounts, IInv, ListInv', NEW s \in Subscribers, NEW r \in ShutdownResults,
         UnsubscribeDriver(s, r)
  PROVE  IInv'
<1>1. r = 0
  BY DEF DriverCounts
<1>2. /\ pc[s] = "idle" /\ dev_subs[s] > 0
      /\ subscriptions > 0 /\ subscriptions' = subscriptions - 1
      /\ setUp' = (subscriptions # 1)
      /\ pc' = [pc EXCEPT ![s] = "removing"]
      /\ UNCHANGED <<queues, accessMutex, dev_subs, left>>
  BY <1>1 DEF UnsubscribeDriver, MayUnsubscribe, DriverCounts
<1>3. \A y \in Subscribers : pc'[y] = IF y = s THEN "removing" ELSE pc[y]
  BY <1>2 DEF IInv, ListInv, TypeOK
<1>4. Removing' = Removing \cup {s} /\ s \notin Removing
  BY <1>2, <1>3 DEF Removing
<1>5. IsFiniteSet(Removing') /\ Cardinality(Removing') = Cardinality(Removing) + 1
  BY <1>4, FS_AddElement DEF IInv, CountInv
<1>6. Filling' = Filling
  <2>1. accessMutex \in Subscribers \cup {Nobody}
    BY DEF IInv, ListInv, TypeOK
  <2>2. accessMutex # Nobody => (pc'[accessMutex] = "inserted" <=> pc[accessMutex] = "inserted")
    BY <1>2, <1>3, <2>1
  <2> QED
    BY <1>2, <2>2 DEF Filling
<1>7. Occupied' = Occupied /\ AlwaysOnSubs' = AlwaysOnSubs /\ PendingSlot' = PendingSlot
  BY <1>2, <1>6 DEF Occupied, AlwaysOnSubs, PendingSlot
<1>8. \A y \in Removing' : dev_subs'[y] > 0
  BY <1>2, <1>4 DEF IInv, CountInv
<1>9. setUp' <=> subscriptions' > 0
  <2>1. setUp' <=> subscriptions # 1
    BY <1>2, Zenon
  <2> QED
    BY <1>2, <2>1, CountTypes
<1>10. subscriptions' + Cardinality(Removing') + PendingSlot'
        = Cardinality(Occupied') + AlwaysOnSubs'
  BY <1>2, <1>5, <1>7, CountTypes DEF CountInv, IInv
<1>11. CountInv'
  BY <1>5, <1>8, <1>9, <1>10 DEF CountInv
<1> QED
  BY <1>11 DEF IInv

(* A refusal leaves the count and the slot; the record may go. *)
LEMMA RefusedCount ==
  ASSUME IInv, ListInv', NEW s \in Subscribers, NEW r \in Int, r < 0,
         UnsubscribeHook(s, r)
  PROVE  IInv'
<1>1. /\ pc[s] = "idle" /\ pc' = pc /\ Refused(s, 1)
      /\ dev_subs[s] > 0 \/ s \notin leaving
      /\ UNCHANGED <<queues, subscriptions, setUp>>
  BY DEF UnsubscribeHook, MayUnsubscribe
<1>2. \A y \in Subscribers : /\ dev_subs'[y] + left'[y] = dev_subs[y] + left[y]
                             /\ y # s => dev_subs'[y] = dev_subs[y]
  <2>1. s \in leaving => dev_subs'[s] = dev_subs[s] - 1 /\ left'[s] = left[s] + 1
    BY <1>1, RefusedEffect, CountTypes DEF Less, IInv, ListInv
  <2>2. \A y \in Subscribers : y # s \/ s \notin leaving =>
          dev_subs'[y] = dev_subs[y] /\ left'[y] = left[y]
    BY <1>1, RefusedEffect DEF IInv, ListInv
  <2> QED
    BY <2>1, <2>2, CountTypes
<1>3. Occupied' = Occupied
  BY <1>1 DEF Occupied
<1> QED
  BY <1>1, <1>2, <1>3, SameCount

(* The driver's count is down since UnsubscribeDriver: now the slot goes. *)
LEMMA RemoveCount ==
  ASSUME IInv, ListInv', NEW s \in Subscribers, UnsubscribeRemove(s)
  PROVE  IInv'
<1>1. /\ s = AlwaysOn => queues' = queues
      /\ s # AlwaysOn => Cardinality(Occupied') = Cardinality(Occupied) - 1
  BY RemoveEffect DEF IInv, ListInv
<1>2. pc[s] = "removing" /\ accessMutex = Nobody
      /\ UNCHANGED <<subscriptions, setUp, accessMutex, left>>
  BY DEF UnsubscribeRemove
<1>3. \A y \in Subscribers :
        /\ pc'[y] = IF y = s THEN "idle" ELSE pc[y]
        /\ dev_subs'[y] = IF y = s THEN Less(dev_subs[y]) ELSE dev_subs[y]
  BY DEF UnsubscribeRemove, IInv, ListInv, TypeOK
<1>4. Removing' = Removing \ {s} /\ s \in Removing
  BY <1>2, <1>3 DEF Removing
<1>5. IsFiniteSet(Removing') /\ Cardinality(Removing') = Cardinality(Removing) - 1
  BY <1>4, FS_RemoveElement DEF IInv, CountInv
<1>6. dev_subs[s] > 0 /\ dev_subs'[s] = dev_subs[s] - 1
  BY <1>3, <1>4 DEF IInv, CountInv, Less
<1>7. /\ s = AlwaysOn => AlwaysOnSubs' = AlwaysOnSubs - 1 /\ Occupied' = Occupied
      /\ s # AlwaysOn => AlwaysOnSubs' = AlwaysOnSubs
      /\ PendingSlot' = PendingSlot
  <2>1. s = AlwaysOn => AlwaysOnSubs' = AlwaysOnSubs - 1
    <3>1. \A y \in Subscribers : dev_subs[y] \in Nat /\ left[y] \in Nat
      BY CountTypes
    <3> QED
      BY <1>2, <1>6, <3>1, ConstantsAssumption DEF AlwaysOnSubs
  <2>2. s = AlwaysOn => Occupied' = Occupied
    BY <1>1 DEF Occupied
  <2>3. s # AlwaysOn => AlwaysOnSubs' = AlwaysOnSubs
    BY <1>2, <1>3, ConstantsAssumption DEF AlwaysOnSubs
  <2> QED
    BY <1>2, <2>1, <2>2, <2>3 DEF PendingSlot, Filling
<1>8. \A y \in Removing' : dev_subs'[y] > 0
  BY <1>3, <1>4 DEF Removing, IInv, CountInv
<1>9. CountInv'
  BY <1>1, <1>2, <1>5, <1>7, <1>8, CountTypes DEF CountInv, IInv
<1> QED
  BY <1>9 DEF IInv

(* Only the null queue of alwayson can be missing, when the list is full. *)
LEMMA MissingCount ==
  ASSUME IInv, ListInv', NEW s \in Subscribers, UnsubscribeMissing(s)
  PROVE  IInv'
<1>1. /\ pc[s] = "removing" /\ FirstOf(queues, QueueOf(s)) = {} /\ Refused(s, 0)
      /\ accessMutex = Nobody
      /\ UNCHANGED <<queues, subscriptions, setUp, accessMutex>>
  BY DEF UnsubscribeMissing
<1>2. \A y \in Subscribers : pc'[y] = IF y = s THEN "idle" ELSE pc[y]
  BY DEF UnsubscribeMissing, IInv, ListInv, TypeOK
<1>3. Removing' = Removing \ {s} /\ s \in Removing
  BY <1>1, <1>2 DEF Removing
<1>4. dev_subs[s] > 0 /\ dev_subs[s] \in Nat /\ left[s] \in Nat
  BY <1>3, CountTypes DEF IInv, CountInv
<1>5. s = AlwaysOn
  <2> SUFFICES ASSUME s # AlwaysOn PROVE FALSE
    OBVIOUS
  <2>1. Cardinality(SlotsOf(s)) = dev_subs[s] + left[s] + Inserting(s)
    BY DEF IInv, ListInv, SlotsInv
  <2>2. Cardinality(SlotsOf(s)) # 0
    BY <1>4, <2>1 DEF Inserting
  <2>3. SlotsOf(s) # {}
    BY <2>2, FS_EmptySet
  <2> QED
    BY <1>1, <2>3, ListedIsFound DEF QueueOf, IInv, ListInv
<1>6. s \in leaving
  BY <1>1, <1>5 DEF IInv, ListInv, LeftInv
<1>7. /\ dev_subs'[s] = dev_subs[s] - 1 /\ left'[s] = left[s]
      /\ \A y \in Subscribers : y # s => dev_subs'[y] = dev_subs[y]
  BY <1>1, <1>4, <1>6, RefusedEffect DEF Less, IInv, ListInv
<1>8. IsFiniteSet(Removing') /\ Cardinality(Removing') = Cardinality(Removing) - 1
  BY <1>3, FS_RemoveElement DEF IInv, CountInv
<1>9. AlwaysOnSubs' = AlwaysOnSubs - 1 /\ Occupied' = Occupied /\ PendingSlot' = PendingSlot
  BY <1>1, <1>4, <1>5, <1>7, ConstantsAssumption
  DEF AlwaysOnSubs, Occupied, PendingSlot, Filling
<1>10. \A y \in Removing' : dev_subs'[y] > 0
  BY <1>3, <1>7 DEF Removing, IInv, CountInv
<1>11. CountInv'
  BY <1>1, <1>8, <1>9, <1>10, CountTypes DEF CountInv, IInv
<1> QED
  BY <1>11 DEF IInv

(* The steps in which nobody's call gets anywhere near the count. *)
LEMMA OtherCount ==
  ASSUME IInv, ListInv', NEW s \in Subscribers,
         SubscribeGrow(s) \/ SubscribeMove(s) \/ SubscribeClear(s) \/ Leave(s)
  PROVE  IInv'
<1>1. /\ UNCHANGED <<subscriptions, setUp, dev_subs, left>>
      /\ queues' = queues \/ queues' = Doubled(queues)
  BY DEF SubscribeGrow, SubscribeMove, SubscribeClear, Leave, records
<1>2. \A y \in Subscribers : /\ (pc'[y] = "removing") <=> (pc[y] = "removing")
                             /\ (pc'[y] = "inserted") <=> (pc[y] = "inserted")
  BY DEF SubscribeGrow, MaySubscribe, SubscribeMove, SubscribeClear, Leave, IInv, ListInv, TypeOK
<1>3. Occupied' = Occupied
  BY <1>1, SlotsAre, DoubledPlaces DEF IInv, ListInv, TypeOK, Queues
<1> QED
  BY <1>1, <1>2, <1>3, SameCount

(* Every step, of any subscriber or of Publish. *)
LEMMA NextCount ==
  ASSUME SetupNeverPositive, DriverCounts, IInv, [Next]_vars
  PROVE  IInv'
<1>1. ListInv'
  BY NextList DEF IInv
<1>2. ASSUME NEW s \in Subscribers, SubscribeInsert(s) PROVE IInv'
  BY <1>1, <1>2, InsertCount
<1>3. ASSUME NEW s \in Subscribers, SubscribeMore(s) PROVE IInv'
  <2>1. /\ pc[s] = "inserted" /\ SubscribeEnd(s, 0)
        /\ subscriptions' = subscriptions + 1 /\ setUp' = setUp
        /\ subscriptions > 0 /\ subscriptions \in Nat
    BY <1>3, CountTypes DEF SubscribeMore
  <2>2. setUp' <=> subscriptions' > 0
    BY <2>1 DEF IInv, CountInv
  <2> QED
    BY <1>1, <2>1, <2>2, EndCount
<1>4. ASSUME NEW s \in Subscribers, NEW r \in HookResults, SubscribeHook(s, r)
      PROVE  IInv'
  <2>1. /\ r < 0 /\ r \in Int /\ pc[s] = "inserted" /\ SubscribeEnd(s, r)
        /\ subscriptions' = subscriptions /\ setUp' = setUp
    BY <1>4, ConstantsAssumption DEF SubscribeHook, DriverCounts
  <2>2. setUp' <=> subscriptions' > 0
    BY <2>1 DEF IInv, CountInv
  <2> QED
    BY <1>1, <2>1, <2>2, EndCount
<1>5. ASSUME NEW s \in Subscribers, NEW r \in SetupResults, SubscribeFirst(s, r)
      PROVE  IInv'
  <2>1. /\ r <= 0 /\ r \in Int /\ pc[s] = "inserted" /\ SubscribeEnd(s, r)
        /\ subscriptions = 0 /\ subscriptions' = IF r = 0 THEN 1 ELSE 0
        /\ setUp' = (r = 0)
    BY <1>5, ConstantsAssumption DEF SubscribeFirst, SetupNeverPositive
  <2>2. setUp' <=> subscriptions' > 0
    <3>1. setUp' <=> r = 0
      BY <2>1, Zenon
    <3> QED
      BY <2>1, <3>1
  <2>3. subscriptions' = IF r = 0 THEN subscriptions + 1 ELSE subscriptions
    BY <2>1
  <2> QED
    BY <1>1, <2>1, <2>2, <2>3, EndCount
<1>6. ASSUME NEW s \in Subscribers, NEW r \in ShutdownResults, UnsubscribeDriver(s, r)
      PROVE  IInv'
  BY <1>1, <1>6, UnsubscribeCount
<1>7. ASSUME NEW s \in Subscribers, NEW r \in Uncounted, UnsubscribeHook(s, r)
      PROVE  IInv'
  <2>1. r < 0 /\ r \in Int
    BY ConstantsAssumption DEF Uncounted, DriverCounts
  <2> QED
    BY <1>1, <1>7, <2>1, RefusedCount
<1>8. ASSUME NEW s \in Subscribers, UnsubscribeRemove(s) PROVE IInv'
  BY <1>1, <1>8, RemoveCount
<1>9. ASSUME NEW s \in Subscribers, UnsubscribeMissing(s) PROVE IInv'
  BY <1>1, <1>9, MissingCount
<1>10. ASSUME NEW s \in Subscribers,
              SubscribeGrow(s) \/ SubscribeMove(s) \/ SubscribeClear(s) \/ Leave(s)
       PROVE  IInv'
  BY <1>1, <1>10, OtherCount
<1>11. CASE PublishStep \/ UNCHANGED vars
  <2>1. UNCHANGED <<queues, subscriptions, setUp, pc, dev_subs, left>>
    BY <1>11 DEF PublishStep, PublishBegin, PublishLook, PublishTest, PublishFetch,
       PublishPush, PublishEnd, device, records, vars
  <2> QED
    BY <1>1, <2>1, SameCount DEF Occupied
<1> QED
  BY <1>2, <1>3, <1>4, <1>5, <1>6, <1>7, <1>8, <1>9, <1>10, <1>11 DEF Next, PublishStep

(* The invariant behind the three properties of the count. *)
LEMMA CountInvariant ==
  ASSUME SetupNeverPositive, DriverCounts
  PROVE  Spec => []IInv
<1>1. Init => IInv
  <2> SUFFICES ASSUME Init PROVE CountInv
    BY InitList DEF IInv
  <2>1. Removing = {} /\ Occupied = {}
    BY DEF Init, Removing, Occupied
  <2>2. AlwaysOnSubs = 0 /\ PendingSlot = 0
    BY ConstantsAssumption DEF Init, AlwaysOnSubs, PendingSlot, Filling
  <2> QED
    BY <2>1, <2>2, FS_EmptySet DEF Init, CountInv
<1>2. IInv /\ [Next]_vars => IInv'
  BY NextCount
<1> QED
  BY <1>1, <1>2, PTL DEF Spec

(* The driver's count and the device's list, kept under different mutexes, *)
(* agree whenever no call is in progress, for any number of subscribers;   *)
(* and so do they with the clients' records, but for what Close has left.  *)
THEOREM CountAgreesWithList ==
  ASSUME SetupNeverPositive, DriverCounts
  PROVE  Spec => []CountMatchesSlots
<1>1. IInv => CountMatchesSlots
  <2> SUFFICES ASSUME IInv, Quiet PROVE
        /\ subscriptions = Cardinality(Occupied)
                       + (IF AlwaysOn = Nobody THEN 0
                          ELSE dev_subs[AlwaysOn] + left[AlwaysOn])
        /\ \A s \in Subscribers \ {AlwaysOn} :
             Cardinality(SlotsOf(s)) = dev_subs[s] + left[s]
    BY DEF CountMatchesSlots, Occupied
  <2>1. Removing = {} /\ Cardinality(Removing) = 0
    BY FS_EmptySet DEF Quiet, Removing
  <2>2. PendingSlot = 0
    BY DEF Quiet, PendingSlot, Filling, IInv, ListInv, TypeOK
  <2>3. subscriptions = Cardinality(Occupied) + AlwaysOnSubs
    BY <2>1, <2>2, CountTypes DEF IInv, CountInv
  <2>4. \A s \in Subscribers \ {AlwaysOn} :
          Cardinality(SlotsOf(s)) = dev_subs[s] + left[s]
    BY CountTypes DEF Quiet, IInv, ListInv, SlotsInv, Inserting
  <2> QED
    BY <2>3, <2>4 DEF AlwaysOnSubs
<1> QED
  BY <1>1, CountInvariant, PTL

(* When the last subscription has been given up, its call has returned and *)
(* Close has left none behind, Driver::Shutdown has been called.           *)
THEOREM LastOneShutsDown ==
  ASSUME SetupNeverPositive, DriverCounts
  PROVE  Spec => []ShutdownByLast
<1>1. IInv => ShutdownByLast
  <2> SUFFICES ASSUME IInv, Quiet, \A s \in Subscribers : dev_subs[s] + left[s] = 0
               PROVE  ~setUp
    BY DEF ShutdownByLast
  <2>1. Removing = {} /\ Cardinality(Removing) = 0
    BY FS_EmptySet DEF Quiet, Removing
  <2>2. AlwaysOnSubs = 0
    BY ConstantsAssumption DEF AlwaysOnSubs
  <2>3. \A s \in Subscribers : SlotsOf(s) = {}
    BY SlotsCounted DEF Quiet, IInv, ListInv, SlotsInv, NullInv, Inserting
  <2>4. Occupied = {}
    <3> SUFFICES ASSUME NEW i \in DOMAIN queues, queues[i] # Nobody
                 PROVE  FALSE
      BY DEF Occupied
    <3>1. queues[i] \in Subscribers
      BY LenProperties, ElementOfSeq DEF IInv, ListInv, TypeOK
    <3> QED
      BY <2>3, <3>1 DEF SlotsOf
  <2>5. Cardinality(Occupied) = 0
    BY <2>4, FS_EmptySet
  <2>6. subscriptions = 0
    BY <2>1, <2>2, <2>5, CountTypes DEF IInv, CountInv
  <2> QED
    BY <2>6 DEF IInv, CountInv
<1> QED
  BY <1>1, CountInvariant, PTL

(* As long as somebody is subscribed, Driver::Shutdown has not been called *)
(* by those who come and go: every subscriber still on its way out, and    *)
(* the one on its way in, has a slot of its own besides his.               *)
THEOREM NobodyElseShutsDown ==
  ASSUME SetupNeverPositive, DriverCounts
  PROVE  Spec => []ShutdownOnlyByLast
<1>1. IInv => ShutdownOnlyByLast
  <2> SUFFICES ASSUME IInv, NEW s \in Subscribed
               PROVE  setUp
    BY DEF ShutdownOnlyByLast
  <2>1. s \in Subscribers /\ dev_subs[s] > 0 /\ dev_subs[s] \in Nat /\ pc[s] = "idle"
    BY DEF Subscribed, IInv, ListInv, TypeOK
  <2> DEFINE Others == IF Filling = Nobody THEN Removing
                       ELSE Removing \cup {Filling}
             Party == Others \cup {s}
             Listed == Party \ {AlwaysOn}
  <2>2. Filling # Nobody => Filling \in Subscribers /\ pc[Filling] = "inserted"
    BY WhoIsFilling DEF IInv, ListInv, TypeOK
  <2>3. \A y \in Listed : y \in Subscribers /\ SlotsOf(y) # {}
    <3> SUFFICES ASSUME NEW y \in Listed PROVE y \in Subscribers /\ SlotsOf(y) # {}
      OBVIOUS
    <3>1. y \in Subscribers /\ y # AlwaysOn
      BY <2>1, <2>2 DEF Removing
    <3>2. dev_subs[y] > 0 \/ pc[y] = "inserted"
      BY <2>1, <2>2 DEF IInv, CountInv
    <3>3. /\ Cardinality(SlotsOf(y)) = dev_subs[y] + left[y] + Inserting(y)
          /\ dev_subs[y] \in Nat /\ left[y] \in Nat
      BY <3>1, CountTypes DEF IInv, ListInv, SlotsInv
    <3>4. Cardinality(SlotsOf(y)) # 0
      BY <3>2, <3>3 DEF Inserting
    <3> QED
      BY <3>1, <3>4, FS_EmptySet
  <2>4. Cardinality(Listed) <= Cardinality(Occupied) /\ IsFiniteSet(Listed)
    <3> DEFINE f == [y \in Listed |-> CHOOSE i \in SlotsOf(y) : TRUE]
    <3>1. \A y \in Listed : f[y] \in SlotsOf(y)
      BY <2>3
    <3> HIDE DEF Listed
    <3>2. \A y \in Listed : f[y] \in Occupied /\ queues[f[y]] = y
      BY <2>3, <3>1, ConstantsAssumption DEF SlotsOf, Occupied
    <3>3. f \in [Listed -> Occupied]
      BY <3>2
    <3> HIDE DEF f
    <3>4. \A y, z \in Listed : f[y] = f[z] => y = z
      BY <3>2
    <3>5. f \in Injection(Listed, Occupied)
      BY <3>3, <3>4 DEF Injection, IsInjective
    <3>6. IsFiniteSet(Occupied)
      BY SlotsCounted DEF IInv, ListInv
    <3> QED
      BY <3>5, <3>6, FS_Injection
  <2>5. /\ IsFiniteSet(Others)
        /\ Cardinality(Others) = Cardinality(Removing)
                                 + (IF Filling = Nobody THEN 0 ELSE 1)
    <3>1. Filling \notin Removing
      BY <2>2, ConstantsAssumption DEF Removing
    <3>2. IsFiniteSet(Removing)
      BY DEF IInv, CountInv
    <3>3. CASE Filling = Nobody
      BY <3>2, <3>3, CountTypes
    <3>4. CASE Filling # Nobody
      BY <3>1, <3>2, <3>4, FS_AddElement
    <3> QED
      BY <3>3, <3>4
  <2>6. s \notin Others
    BY <2>1, <2>2 DEF Removing
  <2> HIDE DEF Others
  <2>7. IsFiniteSet(Party) /\ Cardinality(Party) = Cardinality(Others) + 1
    BY <2>5, <2>6, FS_AddElement
  <2>8. Cardinality(Listed) = IF AlwaysOn \in Party THEN Cardinality(Party) - 1
                              ELSE Cardinality(Party)
    BY <2>7, FS_RemoveElement
  <2>9. Nobody \notin Party /\ (AlwaysOn \in Party <=> AlwaysOn = s \/ AlwaysOn \in Others)
    BY <2>1, <2>2, ConstantsAssumption DEF Others, Removing
  <2>10. /\ AlwaysOn \notin Party =>
              PendingSlot = IF Filling = Nobody THEN 0 ELSE 1
         /\ AlwaysOn \in Party /\ Filling # AlwaysOn =>
              /\ PendingSlot = IF Filling = Nobody THEN 0 ELSE 1
              /\ AlwaysOnSubs >= 1
         /\ Filling = AlwaysOn /\ AlwaysOn \in Party => PendingSlot = 0 /\ Filling # Nobody
    <3>1. AlwaysOn \in Party /\ Filling # AlwaysOn =>
            AlwaysOn = s \/ AlwaysOn \in Removing
      BY <2>9 DEF Others
    <3>2. AlwaysOn \in Party /\ Filling # AlwaysOn => AlwaysOnSubs >= 1
      <4>1. AlwaysOn \in Party /\ Filling # AlwaysOn =>
              AlwaysOn \in Subscribers /\ dev_subs[AlwaysOn] > 0
        BY <2>1, <3>1 DEF Removing, IInv, CountInv
      <4> QED
        BY <4>1, CountTypes, ConstantsAssumption DEF AlwaysOnSubs
    <3>3. AlwaysOn \notin Party /\ Filling # Nobody => Filling # AlwaysOn
      BY <2>9 DEF Others
    <3> QED
      BY <2>9, <3>2, <3>3 DEF PendingSlot
  <2>11. /\ Cardinality(Listed) \in Nat /\ Cardinality(Party) \in Nat
         /\ Cardinality(Others) \in Nat
    BY <2>4, <2>5, <2>7, FS_CardinalityType
  <2> HIDE DEF Party, Listed
  <2>12. subscriptions + Cardinality(Removing) + PendingSlot
           = Cardinality(Occupied) + AlwaysOnSubs
    BY DEF IInv, CountInv
  <2>13. subscriptions > 0
    <3>1. CASE AlwaysOn \notin Party
      BY <2>4, <2>5, <2>7, <2>8, <2>10, <2>11, <2>12, <3>1, CountTypes
    <3>2. CASE AlwaysOn \in Party /\ Filling # AlwaysOn
      BY <2>4, <2>5, <2>7, <2>8, <2>10, <2>11, <2>12, <3>2, CountTypes
    <3>3. CASE AlwaysOn \in Party /\ Filling = AlwaysOn
      BY <2>4, <2>5, <2>7, <2>8, <2>10, <2>11, <2>12, <3>3, CountTypes
    <3> QED
      BY <3>1, <3>2, <3>3
  <2> QED
    BY <2>13 DEF IInv, CountInv
<1> QED
  BY <1>1, CountInvariant, PTL
=============================================================================
