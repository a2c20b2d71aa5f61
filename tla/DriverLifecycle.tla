-------------------------- MODULE DriverLifecycle --------------------------
(***************************************************************************)
(* What the class comment of ThreadedDriver (libplayercore/driver.h)       *)
(* promises about a driver's thread: the four states and the only          *)
(* transitions between them.                                               *)
(***************************************************************************)
VARIABLE state

Init == state = "STOPPED"

StartFromStopped == state = "STOPPED" /\ state' = "RUNNING"
StopRunning      == state = "RUNNING" /\ state' = "STOPPING"
QuitStopping     == state = "STOPPING" /\ state' = "STOPPED"
RestartStopping  == state = "STOPPING" /\ state' = "RESTARTING"
Relaunch         == state = "RESTARTING" /\ state' = "RUNNING"
StopRestarting   == state = "RESTARTING" /\ state' = "STOPPING"

Next ==
  \/ StartFromStopped \/ StopRunning
  \/ QuitStopping \/ RestartStopping
  \/ Relaunch \/ StopRestarting

Spec == Init /\ [][Next]_state
=============================================================================
