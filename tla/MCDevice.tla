------------------------------ MODULE MCDevice ------------------------------
(***************************************************************************)
(* Instances of DeviceSubscription for TLC.  The list starts with two      *)
(* slots, so two queues subscribed twice make it grow while Publish walks  *)
(* it; the third subscriber is the alwayson one.                           *)
(***************************************************************************)
EXTENDS DeviceSubscription, TLC

FailingSetup == {0, -1}
FailingHook  == {1, -1}

(* The clients are alike: the properties are of safety and name none. *)
Clients == Permutations(Subscribers \ {AlwaysOn})
=============================================================================
