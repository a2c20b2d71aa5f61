--------------------------- MODULE ThreadedDriver ---------------------------
(***************************************************************************)
(* libplayercore/driver.cc and threaded_driver.cc: subscriptions to one    *)
(* driver and the life of its thread.                                      *)
(*                                                                         *)
(* Callers run Driver::Subscribe, Unsubscribe and Terminate, which hold    *)
(* subscriptionMutex while Setup or Shutdown takes accessMutex to start or *)
(* stop the driver thread.  The driver thread runs DummyMain, ends in      *)
(* DummyMainQuit and, when it was asked to restart, creates its successor  *)
(* there with accessMutex held.  Creator and new thread meet at            *)
(* SetupBarrier.  A thread that has exited may be created again: a member  *)
(* of Threads is a place for a thread, not one thread for all time.        *)
(***************************************************************************)
EXTENDS Integers, FiniteSets

CONSTANTS
  Callers,        \* threads that subscribe and unsubscribe
  Threads,        \* places for driver threads
  Nobody,         \* the holder of a free mutex, the thread of a null handle
  Terminators,    \* callers that run Terminate (the server's Cleanup)
  SetupMayFail,   \* can MainSetup return an error?
  MainMayReturn,  \* can Main return of its own accord?
  LateSubscribers,\* can a Subscribe arrive once Terminate has begun?
  MaxSubs         \* bound on the subscriptions one caller holds

ASSUME ConstantsAssumption ==
  /\ Callers \cap Threads = {} /\ Nobody \notin Callers \cup Threads
  /\ Terminators \subseteq Callers
  /\ SetupMayFail \in BOOLEAN /\ MainMayReturn \in BOOLEAN
  /\ LateSubscribers \in BOOLEAN /\ MaxSubs \in Nat

VARIABLES
  subscriptions,      \* Driver::subscriptions
  held,               \* held[c]: subscriptions c has and has not given up
  subscriptionMutex,  \* who holds it
  accessMutex,        \* who holds it
  ThreadState,
  driverthread,       \* the handle StopThread would cancel
  SetupSuccessful,
  barrierValue,
  cancelled,          \* cancelled[t]: a cancellation request is pending
  pc,                 \* where each caller and each thread is
  opened              \* history: whose MainSetup succeeded without MainQuit yet

vars == <<subscriptions, held, subscriptionMutex, accessMutex, ThreadState,
          driverthread, SetupSuccessful, barrierValue, cancelled, pc, opened>>

Actors == Callers \cup Threads

CallerPCs == {"idle", "setup", "barrier", "asleep", "running", "counted",
              "shutdown", "uncounted", "terminate", "reset", "poll", "terminated"}
ThreadPCs == {"none", "created", "barrier", "asleep", "running",
              "arrive", "await", "mainsetup", "main", "quit", "mainquit",
              "lock", "stopped", "unlock"}

TypeOK ==
  /\ subscriptions \in Nat
  /\ held \in [Callers -> Nat]
  /\ subscriptionMutex \in Callers \cup {Nobody}
  /\ accessMutex \in Actors \cup {Nobody}
  /\ ThreadState \in {"STOPPED", "RUNNING", "STOPPING", "RESTARTING"}
  /\ driverthread \in Threads \cup {Nobody}
  /\ SetupSuccessful \in BOOLEAN
  /\ barrierValue \in 0..2
  /\ cancelled \in [Threads -> BOOLEAN]
  /\ pc \in [Actors -> CallerPCs \cup ThreadPCs]
  /\ \A c \in Callers : pc[c] \in CallerPCs
  /\ \A t \in Threads : pc[t] \in ThreadPCs
  /\ opened \in Threads \cup {Nobody}

Init ==
  /\ subscriptions = 0
  /\ held = [c \in Callers |-> 0]
  /\ subscriptionMutex = Nobody /\ accessMutex = Nobody
  /\ ThreadState = "STOPPED"
  /\ driverthread = Nobody
  /\ SetupSuccessful = FALSE
  /\ barrierValue = 0
  /\ cancelled = [t \in Threads |-> FALSE]
  /\ pc = [a \in Actors |-> IF a \in Callers THEN "idle" ELSE "none"]
  /\ opened = Nobody

Goto(a, there) == pc' = [pc EXCEPT ![a] = there]

(* When Terminate has returned the device table deletes the devices, and   *)
(* with them the way to subscribe to the driver.                           *)
Deleted == \E c \in Callers : pc[c] = "terminated"

Terminating ==
  \E c \in Callers : pc[c] \in {"terminate", "reset", "poll", "terminated"}

(* The server's Cleanup runs after its main loop: no client subscribes any *)
(* more, but a driver that is itself starting up may (LateSubscribers).    *)
MaySubscribe == ~Deleted /\ (LateSubscribers \/ ~Terminating)

(***************************************************************************)
(* Driver::Subscribe.                                                      *)
(***************************************************************************)
SubscribeMore(c) ==
  /\ pc[c] = "idle" /\ subscriptionMutex = Nobody /\ MaySubscribe
  /\ held[c] < MaxSubs
  /\ subscriptions > 0
  /\ subscriptions' = subscriptions + 1
  /\ held' = [held EXCEPT ![c] = @ + 1]
  /\ UNCHANGED <<subscriptionMutex, accessMutex, ThreadState, driverthread,
                 SetupSuccessful, barrierValue, cancelled, pc, opened>>

SubscribeFirst(c) ==
  /\ pc[c] = "idle" /\ subscriptionMutex = Nobody /\ MaySubscribe
  /\ held[c] < MaxSubs
  /\ subscriptions = 0
  /\ subscriptionMutex' = c
  /\ Goto(c, "setup")
  /\ UNCHANGED <<subscriptions, held, accessMutex, ThreadState, driverthread,
                 SetupSuccessful, barrierValue, cancelled, opened>>

(* Mutation: the barrier is set for one party. *)
CreateThreadShortBarrier(a, t) ==
  /\ pc[t] = "none"
  /\ barrierValue' = 1
  /\ driverthread' = t
  /\ cancelled' = [cancelled EXCEPT ![t] = FALSE]
  /\ pc' = [pc EXCEPT ![a] = "barrier", ![t] = "created"]

(* StartThread in state STOPPED, up to the creator's SetupBarrier.Wait().  *)
(* The creator a holds accessMutex.                                        *)
CreateThread(a, t) ==
  /\ pc[t] = "none"
  /\ barrierValue' = 2
  /\ driverthread' = t
  /\ cancelled' = [cancelled EXCEPT ![t] = FALSE]
  /\ pc' = [pc EXCEPT ![a] = "barrier", ![t] = "created"]

(* Mutation: a thread that is only stopping counts as stopped. *)
SetupStartEarly(c) ==
  /\ pc[c] = "setup" /\ accessMutex = Nobody
  /\ ThreadState \in {"STOPPED", "STOPPING"}
  /\ accessMutex' = c
  /\ \E t \in Threads : CreateThread(c, t)
  /\ UNCHANGED <<subscriptions, held, subscriptionMutex, ThreadState,
                 SetupSuccessful, opened>>

(* ThreadedDriver::Setup, which calls StartThread under accessMutex. *)
SetupStart(c) ==
  /\ pc[c] = "setup" /\ accessMutex = Nobody
  /\ ThreadState = "STOPPED"
  /\ accessMutex' = c
  /\ \E t \in Threads : CreateThread(c, t)
  /\ UNCHANGED <<subscriptions, held, subscriptionMutex, ThreadState,
                 SetupSuccessful, opened>>

(* Mutation: StartThread has no case for STOPPING. *)
SetupForgetsRestart(c) ==
  /\ pc[c] = "setup" /\ accessMutex = Nobody
  /\ ThreadState # "STOPPED"
  /\ Goto(c, "counted")
  /\ UNCHANGED <<subscriptions, held, subscriptionMutex, accessMutex, ThreadState,
                 driverthread, SetupSuccessful, barrierValue, cancelled, opened>>

(* Mutation: StartThread takes a stopping thread for a running one. *)
SetupResurrects(c) ==
  /\ pc[c] = "setup" /\ accessMutex = Nobody
  /\ ThreadState # "STOPPED"
  /\ ThreadState' = IF ThreadState = "STOPPING" THEN "RUNNING" ELSE ThreadState
  /\ Goto(c, "counted")
  /\ UNCHANGED <<subscriptions, held, subscriptionMutex, accessMutex,
                 driverthread, SetupSuccessful, barrierValue, cancelled, opened>>

SetupRestart(c) ==
  /\ pc[c] = "setup" /\ accessMutex = Nobody
  /\ ThreadState # "STOPPED"
  /\ ThreadState' = IF ThreadState = "STOPPING" THEN "RESTARTING" ELSE ThreadState
  /\ Goto(c, "counted")
  /\ UNCHANGED <<subscriptions, held, subscriptionMutex, accessMutex,
                 driverthread, SetupSuccessful, barrierValue, cancelled, opened>>

(* The end of StartThread, and of Setup. *)
SetupRunning(c) ==
  /\ pc[c] = "running"
  /\ ThreadState' = "RUNNING"
  /\ accessMutex' = Nobody
  /\ Goto(c, "counted")
  /\ UNCHANGED <<subscriptions, held, subscriptionMutex, driverthread,
                 SetupSuccessful, barrierValue, cancelled, opened>>

SubscribeCount(c) ==
  /\ pc[c] = "counted"
  /\ subscriptions' = subscriptions + 1
  /\ held' = [held EXCEPT ![c] = @ + 1]
  /\ subscriptionMutex' = Nobody
  /\ Goto(c, "idle")
  /\ UNCHANGED <<accessMutex, ThreadState, driverthread, SetupSuccessful,
                 barrierValue, cancelled, opened>>

(***************************************************************************)
(* PlayerBarrier::Wait, called by the creator ("barrier") and by the new   *)
(* thread ("arrive").  The last to arrive wakes the other; cond_wait is    *)
(* not in a loop, so a spurious wakeup lets one side through early.        *)
(***************************************************************************)
Asleep(place) == IF place = "barrier" THEN "asleep" ELSE "await"
Beyond(place) == IF place \in {"barrier", "asleep"} THEN "running" ELSE "mainsetup"

BarrierWait(a) ==
  /\ pc[a] \in {"barrier", "arrive"}
  /\ barrierValue' = barrierValue - 1
  /\ IF barrierValue' # 0
     THEN Goto(a, Asleep(pc[a]))
     ELSE pc' = [b \in Actors |->
                   IF b = a \/ pc[b] \in {"asleep", "await"}
                   THEN Beyond(pc[b]) ELSE pc[b]]
  /\ UNCHANGED <<subscriptions, held, subscriptionMutex, accessMutex,
                 ThreadState, driverthread, SetupSuccessful, cancelled, opened>>

BarrierSpurious(a) ==
  /\ pc[a] \in {"asleep", "await"}
  /\ Goto(a, Beyond(pc[a]))
  /\ UNCHANGED <<subscriptions, held, subscriptionMutex, accessMutex,
                 ThreadState, driverthread, SetupSuccessful, barrierValue,
                 cancelled, opened>>

(***************************************************************************)
(* Driver::Unsubscribe and ThreadedDriver::Shutdown.                       *)
(***************************************************************************)
(* Mutation: no test for a count of zero. *)
UnsubscribeBelowZero(c) ==
  /\ pc[c] = "idle" /\ subscriptionMutex = Nobody /\ ~Deleted
  /\ held[c] > 0
  /\ subscriptions # 1
  /\ subscriptions' = subscriptions - 1
  /\ held' = [held EXCEPT ![c] = @ - 1]
  /\ UNCHANGED <<subscriptionMutex, accessMutex, ThreadState, driverthread,
                 SetupSuccessful, barrierValue, cancelled, pc, opened>>

UnsubscribeMore(c) ==
  /\ pc[c] = "idle" /\ subscriptionMutex = Nobody /\ ~Deleted
  /\ held[c] > 0
  /\ subscriptions # 1
  /\ subscriptions' = IF subscriptions = 0 THEN 0 ELSE subscriptions - 1
  /\ held' = [held EXCEPT ![c] = @ - 1]
  /\ UNCHANGED <<subscriptionMutex, accessMutex, ThreadState, driverthread,
                 SetupSuccessful, barrierValue, cancelled, pc, opened>>

UnsubscribeLast(c) ==
  /\ pc[c] = "idle" /\ subscriptionMutex = Nobody /\ ~Deleted
  /\ held[c] > 0
  /\ subscriptions = 1
  /\ subscriptionMutex' = c
  /\ Goto(c, "shutdown")
  /\ UNCHANGED <<subscriptions, held, accessMutex, ThreadState, driverthread,
                 SetupSuccessful, barrierValue, cancelled, opened>>

(* Mutation: no pthread_cancel. *)
StopThreadNoCancel ==
  /\ ThreadState' = IF ThreadState \in {"RUNNING", "RESTARTING"}
                    THEN "STOPPING" ELSE ThreadState
  /\ UNCHANGED cancelled

(* Mutation: stopped as soon as the cancellation is requested. *)
StopThreadAtOnce ==
  /\ ThreadState' = "STOPPED"
  /\ cancelled' = IF ThreadState = "RUNNING" /\ driverthread # Nobody
                  THEN [cancelled EXCEPT ![driverthread] = TRUE]
                  ELSE cancelled

(* StopThread cancels and detaches a running thread and does not wait. *)
StopThread ==
  /\ ThreadState' = IF ThreadState \in {"RUNNING", "RESTARTING"}
                    THEN "STOPPING" ELSE ThreadState
  /\ cancelled' = IF ThreadState = "RUNNING" /\ driverthread # Nobody
                  THEN [cancelled EXCEPT ![driverthread] = TRUE]
                  ELSE cancelled

Shutdown(c) ==
  /\ pc[c] \in {"shutdown", "terminate"} /\ accessMutex = Nobody
  /\ StopThread
  /\ Goto(c, IF pc[c] = "shutdown" THEN "uncounted" ELSE "reset")
  /\ UNCHANGED <<subscriptions, held, subscriptionMutex, accessMutex,
                 driverthread, SetupSuccessful, barrierValue, opened>>

UnsubscribeCount(c) ==
  /\ pc[c] = "uncounted"
  /\ subscriptions' = subscriptions - 1
  /\ held' = [held EXCEPT ![c] = @ - 1]
  /\ subscriptionMutex' = Nobody
  /\ Goto(c, "idle")
  /\ UNCHANGED <<accessMutex, ThreadState, driverthread, SetupSuccessful,
                 barrierValue, cancelled, opened>>

(***************************************************************************)
(* Driver::Terminate, then the wait of ThreadedDriver::Terminate, which    *)
(* polls ThreadState without a lock.                                       *)
(***************************************************************************)
Terminate(c) ==
  /\ pc[c] = "idle" /\ subscriptionMutex = Nobody
  /\ IF subscriptions > 0
     THEN subscriptionMutex' = c /\ Goto(c, "terminate")
     ELSE Goto(c, "poll") /\ UNCHANGED subscriptionMutex
  /\ UNCHANGED <<subscriptions, held, accessMutex, ThreadState, driverthread,
                 SetupSuccessful, barrierValue, cancelled, opened>>

TerminateReset(c) ==
  /\ pc[c] = "reset"
  /\ subscriptions' = 0
  /\ subscriptionMutex' = Nobody
  /\ Goto(c, "poll")
  /\ UNCHANGED <<held, accessMutex, ThreadState, driverthread,
                 SetupSuccessful, barrierValue, cancelled, opened>>

TerminatePoll(c) ==
  /\ pc[c] = "poll"
  /\ ThreadState = "STOPPED"
  /\ Goto(c, "terminated")
  /\ UNCHANGED <<subscriptions, held, subscriptionMutex, accessMutex,
                 ThreadState, driverthread, SetupSuccessful, barrierValue,
                 cancelled, opened>>

(***************************************************************************)
(* The driver thread: DummyMain and DummyMainQuit.                         *)
(***************************************************************************)
threadOnly == <<subscriptions, held, subscriptionMutex, accessMutex,
                ThreadState, driverthread, barrierValue, cancelled>>

(* Mutation: SetupSuccessful keeps the last thread's value. *)
DummyMainStaleFlag(t) ==
  /\ pc[t] = "created"
  /\ Goto(t, "arrive")
  /\ UNCHANGED <<threadOnly, SetupSuccessful, opened>>

DummyMain(t) ==
  /\ pc[t] = "created"
  /\ SetupSuccessful' = FALSE
  /\ Goto(t, "arrive")
  /\ UNCHANGED <<threadOnly, opened>>

MainSetup(t, ok) ==
  /\ pc[t] = "mainsetup"
  /\ SetupSuccessful' = (ok \/ SetupSuccessful)
  /\ Goto(t, IF ok THEN "main" ELSE "quit")
  /\ opened' = IF ok THEN t ELSE opened
  /\ UNCHANGED threadOnly

(* Wait, TestCancel and ProcessMessages are the only cancellation points; *)
(* MainSetup may contain one as well as Main.                             *)
CancellationPoint(t) ==
  /\ pc[t] \in {"mainsetup", "main"}
  /\ cancelled[t]
  /\ Goto(t, "quit")
  /\ UNCHANGED <<threadOnly, SetupSuccessful, opened>>

MainReturns(t) ==
  /\ pc[t] = "main"
  /\ Goto(t, "quit")
  /\ UNCHANGED <<threadOnly, SetupSuccessful, opened>>

DummyMainQuit(t) ==
  /\ pc[t] = "quit"
  /\ Goto(t, IF SetupSuccessful THEN "mainquit" ELSE "lock")
  /\ UNCHANGED <<threadOnly, SetupSuccessful, opened>>

MainQuit(t) ==
  /\ pc[t] = "mainquit"
  /\ Goto(t, "lock")
  /\ opened' = Nobody
  /\ UNCHANGED <<threadOnly, SetupSuccessful>>

(* Mutation: the state is not reset when the thread ends. *)
QuitStaleState(t) ==
  /\ pc[t] = "lock" /\ accessMutex = Nobody
  /\ ThreadState # "RESTARTING"
  /\ accessMutex' = t
  /\ driverthread' = Nobody
  /\ Goto(t, "unlock")
  /\ UNCHANGED <<subscriptions, held, subscriptionMutex, SetupSuccessful,
                 ThreadState, barrierValue, cancelled, opened>>

QuitStopped(t) ==
  /\ pc[t] = "lock" /\ accessMutex = Nobody
  /\ ThreadState # "RESTARTING"
  /\ accessMutex' = t
  /\ driverthread' = Nobody
  /\ ThreadState' = "STOPPED"
  /\ Goto(t, "unlock")
  /\ UNCHANGED <<subscriptions, held, subscriptionMutex, SetupSuccessful,
                 barrierValue, cancelled, opened>>

QuitRestarting(t) ==
  /\ pc[t] = "lock" /\ accessMutex = Nobody
  /\ ThreadState = "RESTARTING"
  /\ accessMutex' = t
  /\ driverthread' = Nobody
  /\ ThreadState' = "STOPPED"
  /\ Goto(t, "stopped")
  /\ UNCHANGED <<subscriptions, held, subscriptionMutex, SetupSuccessful,
                 barrierValue, cancelled, opened>>

(* Mutation: no thread is created. *)
QuitStartNoThread(t) ==
  /\ pc[t] = "stopped"
  /\ Goto(t, "running")
  /\ UNCHANGED <<subscriptions, held, subscriptionMutex, accessMutex,
                 ThreadState, driverthread, SetupSuccessful, barrierValue,
                 cancelled, opened>>

QuitStart(t) ==
  /\ pc[t] = "stopped"
  /\ \E n \in Threads : CreateThread(t, n)
  /\ UNCHANGED <<subscriptions, held, subscriptionMutex, accessMutex,
                 ThreadState, SetupSuccessful, opened>>

QuitRunning(t) ==
  /\ pc[t] = "running"
  /\ ThreadState' = "RUNNING"
  /\ Goto(t, "unlock")
  /\ UNCHANGED <<subscriptions, held, subscriptionMutex, accessMutex,
                 driverthread, SetupSuccessful, barrierValue, cancelled, opened>>

(* Unlock() and the end of the thread. *)
QuitUnlock(t) ==
  /\ pc[t] = "unlock"
  /\ accessMutex' = Nobody
  /\ Goto(t, "none")
  /\ UNCHANGED <<subscriptions, held, subscriptionMutex, ThreadState,
                 driverthread, SetupSuccessful, barrierValue, cancelled, opened>>

ThreadStep(t) ==
  \/ DummyMain(t)
  \/ MainSetup(t, TRUE) \/ (SetupMayFail /\ MainSetup(t, FALSE))
  \/ CancellationPoint(t) \/ DummyMainQuit(t) \/ MainQuit(t)
  \/ QuitStopped(t) \/ QuitRestarting(t) \/ QuitStart(t)
  \/ QuitRunning(t) \/ QuitUnlock(t)

CallStep(c) ==
  \/ SetupStart(c) \/ SetupRestart(c) \/ SetupRunning(c) \/ SubscribeCount(c)
  \/ Shutdown(c) \/ UnsubscribeCount(c) \/ TerminateReset(c) \/ TerminatePoll(c)

CallBegins(c) ==
  \/ SubscribeMore(c) \/ SubscribeFirst(c)
  \/ UnsubscribeMore(c) \/ UnsubscribeLast(c)
  \/ c \in Terminators /\ Terminate(c)

Next ==
  \/ \E c \in Callers : CallBegins(c) \/ CallStep(c)
  \/ \E t \in Threads : ThreadStep(t) \/ (MainMayReturn /\ MainReturns(t))
  \/ \E a \in Actors : BarrierWait(a) \/ BarrierSpurious(a)

Spec == Init /\ [][Next]_vars

(* Mutexes are granted, threads are scheduled, MainSetup and MainQuit end,  *)
(* and a cancelled Main comes to a cancellation point (what the class       *)
(* comment asks of every driver).  Nobody has to subscribe or unsubscribe.  *)
Fairness ==
  /\ \A t \in Threads : WF_vars(ThreadStep(t))
  /\ \A c \in Callers : WF_vars(CallStep(c))
  /\ \A a \in Actors : WF_vars(BarrierWait(a))

FairSpec == Spec /\ Fairness

-----------------------------------------------------------------------------
(***************************************************************************)
(* Properties.                                                             *)
(***************************************************************************)
(* From its creation until its MainQuit is over and it waits for the lock. *)
Working(t) == pc[t] \in {"created", "arrive", "await", "mainsetup", "main",
                         "quit", "mainquit", "lock"}

(* "it is gaurunteed that there is only ever one thread running for the    *)
(* driver": whatever the order of subscriptions, unsubscriptions, restarts *)
(* and failures, no two threads are between creation and the end of        *)
(* MainQuit.                                                               *)
OneThread == \A t, u \in Threads : (Working(t) /\ Working(u)) => t = u

(* "Main is always proceeded by MainSetup and followed by MainQuit before  *)
(* any new threads are launched": a new thread finds everything released,  *)
(* Main and MainQuit run only after this thread's own MainSetup succeeded, *)
(* and an ending thread has released what it set up.                       *)
MainBracketed ==
  \A t \in Threads :
    /\ pc[t] \in {"created", "arrive", "await", "mainsetup"} => opened = Nobody
    /\ pc[t] \in {"main", "mainquit"} => opened = t
    /\ pc[t] \in {"lock", "stopped", "unlock"} => opened # t

(* When MainSetup succeeds and Main runs until cancelled, a driver nobody  *)
(* is busy with has a thread, or will have it when the old one ends, if    *)
(* and only if somebody is subscribed.                                     *)
SubscribedIsServed ==
  (subscriptionMutex = Nobody /\ accessMutex = Nobody)
    => (subscriptions > 0 <=> ThreadState \in {"RUNNING", "RESTARTING"})

(* StopThread never hands pthread_cancel the handle of a thread that has   *)
(* ended: in state RUNNING the handle is that of a thread still to pass    *)
(* through DummyMainQuit.                                                  *)
CancelTargetsLiveThread ==
  (accessMutex = Nobody /\ ThreadState = "RUNNING")
    => (driverthread \in Threads /\ Working(driverthread))

(* A stop or a restart that has been promised has a cancelled thread that  *)
(* will come by DummyMainQuit and carry it out.                            *)
PromiseHasThread ==
  ThreadState \in {"STOPPING", "RESTARTING"}
    => \E t \in Threads : Working(t) /\ cancelled[t]

(* assert(barrierValue) in PlayerBarrier::Wait. *)
BarrierAssert == \A a \in Actors : pc[a] \in {"barrier", "arrive"} => barrierValue > 0

(* DummyMainQuit passes through STOPPED, under accessMutex, on its way to  *)
(* the next thread.  The documented lifecycle calls this RESTARTING.       *)
Relaunching ==
  \E t \in Threads : pc[t] \in {"stopped", "barrier", "asleep", "running"}

Shown == IF Relaunching THEN "RESTARTING" ELSE ThreadState

Lifecycle == INSTANCE DriverLifecycle WITH state <- Shown

(* ThreadState moves only along the transitions the class comment of       *)
(* ThreadedDriver lists.                                                   *)
DocumentedLifecycle == Lifecycle!Spec

(* "wait for the thread to actually stop": when Terminate returns and the  *)
(* devices are deleted, no code of the driver (MainSetup, Main, MainQuit)  *)
(* is running or will run, so none can use a deleted device.               *)
TerminateWaits ==
  (\E c \in Callers : pc[c] = "terminated")
    => \A t \in Threads : ~Working(t)

(* A subscription is served: Main runs, or the subscribers leave again.    *)
ServedEventually ==
  (subscriptions > 0) ~> (subscriptions = 0 \/ \E t \in Threads : pc[t] = "main")

(* Terminate returns, whatever state it found the thread in. *)
TerminateReturns ==
  \A c \in Callers : (pc[c] = "poll") ~> (pc[c] = "terminated")
=============================================================================
