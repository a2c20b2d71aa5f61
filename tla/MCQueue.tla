------------------------------ MODULE MCQueue ------------------------------
(***************************************************************************)
(* Instances of QueueThreads for TLC.  One device (address 1); data and    *)
(* command messages and the two kinds of reply that tell the properties    *)
(* apart.                                                                  *)
(***************************************************************************)
EXTENDS QueueThreads

H(t, s) == [type |-> t, subtype |-> s, addr |-> 1]

DataHeader  == {H(DATA, 1)}
AllHeaders  == {H(DATA, 1), H(CMD, 1), H(RESP_ACK, 1)}

(* Device::TimedRequest filters on any response of one subtype. *)
RequestFilter == {[type |-> DontCare, subtype |-> 1, addr |-> 1]}

CmdRule(r) == [type |-> CMD, subtype |-> 1, addr |-> DontCare, replace |-> r]
CmdRules == {CmdRule(ACCEPT), CmdRule(IGNORE)}
=============================================================================
