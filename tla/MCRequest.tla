------------------------------ MODULE MCRequest ------------------------------
(***************************************************************************)
(* Instances of DeviceRequest for TLC.  Three requests are enough for a    *)
(* late reply to answer a later request and to be answered late in turn.   *)
(***************************************************************************)
EXTENDS DeviceRequest

(* Nobody waits for ever in the loop that updates the drivers itself. *)
AllCalls == {<<TRUE, 0>>, <<TRUE, 1>>, <<TRUE, 2>>, <<FALSE, 1>>, <<FALSE, 2>>}
=============================================================================
