------------------------ MODULE ThreadedDriverProofs ------------------------
(***************************************************************************)
(* Proofs about ThreadedDriver, for any number of callers and threads, any *)
(* bound on subscriptions, and whatever MainSetup and Main do.             *)
(*                                                                         *)
(* None of the safety properties is inductive.  IInv adds what the code    *)
(* relies on without saying so: who holds which mutex where, that the      *)
(* handle in driverthread is that of the only working thread, that         *)
(* SetupSuccessful speaks about this thread, and how many are still to     *)
(* arrive at the barrier.                                                  *)
(***************************************************************************)
EXTENDS ThreadedDriver, TLAPS

(* Inside StartThread, between pthread_create and ThreadState = RUNNING. *)
Launching(a) == pc[a] \in {"barrier", "asleep", "running"}

SubscriptionMutexInv ==
  \A c \in Callers :
    pc[c] \in {"setup", "barrier", "asleep", "running", "counted", "shutdown",
               "uncounted", "terminate", "reset"}
      => subscriptionMutex = c

AccessMutexInv ==
  /\ \A a \in Actors : Launching(a) => accessMutex = a
  /\ \A t \in Threads : pc[t] \in {"stopped", "unlock"} => accessMutex = t

CountInv ==
  \A c \in Callers :
    pc[c] \in {"shutdown", "uncounted"} => subscriptions = 1 /\ held[c] > 0

ThreadInv ==
  /\ \A t \in Threads :
       Working(t) => /\ driverthread = t
                     /\ ThreadState = "STOPPED"
                          => accessMutex \in Actors /\ Launching(accessMutex)
  /\ ThreadState # "STOPPED" => driverthread \in Threads /\ Working(driverthread)
  /\ \A a \in Actors :
       Launching(a) => /\ ThreadState = "STOPPED"
                       /\ driverthread \in Threads /\ Working(driverthread)
  /\ \A t \in Threads : pc[t] = "stopped" => ThreadState = "STOPPED"

CancelInv ==
  ThreadState \in {"STOPPING", "RESTARTING"} => cancelled[driverthread]

BarrierInv ==
  /\ \A a \in Actors : pc[a] \in {"barrier", "created", "arrive"} => barrierValue > 0
  /\ \A a \in Actors, t \in Threads :
       (pc[a] = "barrier" /\ pc[t] \in {"created", "arrive"}) => barrierValue = 2

OpenedInv ==
  \A t \in Threads :
    /\ pc[t] \in {"arrive", "await", "mainsetup"} => ~SetupSuccessful
    /\ pc[t] \in {"main", "mainquit"} => opened = t
    /\ pc[t] = "main" => SetupSuccessful
    /\ pc[t] = "quit" => (SetupSuccessful <=> opened = t)
    /\ opened = t => pc[t] \in {"main", "quit", "mainquit"}

IInv ==
  /\ TypeOK /\ SubscriptionMutexInv /\ AccessMutexInv /\ CountInv
  /\ ThreadInv /\ CancelInv /\ BarrierInv /\ OpenedInv

(* A second subscription only counts. *)
LEMMA SubscribeMoreInductive ==
  ASSUME IInv, NEW c \in Callers, SubscribeMore(c)
  PROVE  IInv'
<1>1. TypeOK'
  BY ConstantsAssumption DEF SubscribeMore, Goto, Actors, IInv, TypeOK,
      CallerPCs, ThreadPCs
<1>2. SubscriptionMutexInv' /\ AccessMutexInv' /\ CountInv'
  BY ConstantsAssumption DEF SubscribeMore, Goto, Actors, IInv, TypeOK,
      SubscriptionMutexInv, AccessMutexInv, CountInv, Launching
<1>3. ThreadInv' /\ CancelInv'
  BY ConstantsAssumption DEF SubscribeMore, Goto, Actors, IInv, TypeOK,
      AccessMutexInv, ThreadInv, CancelInv, Working, Launching
<1>4. BarrierInv'
  BY ConstantsAssumption DEF SubscribeMore, Goto, Actors, IInv, TypeOK,
      BarrierInv
<1>5. OpenedInv'
  BY ConstantsAssumption DEF SubscribeMore, Goto, Actors, IInv, TypeOK,
      OpenedInv
<1> QED BY <1>1, <1>2, <1>3, <1>4, <1>5 DEF IInv

(* The first subscription takes subscriptionMutex. *)
LEMMA SubscribeFirstInductive ==
  ASSUME IInv, NEW c \in Callers, SubscribeFirst(c)
  PROVE  IInv'
<1>1. TypeOK'
  BY ConstantsAssumption DEF SubscribeFirst, Goto, Actors, IInv, TypeOK,
      CallerPCs, ThreadPCs
<1>2. SubscriptionMutexInv' /\ AccessMutexInv' /\ CountInv'
  BY ConstantsAssumption DEF SubscribeFirst, Goto, Actors, IInv, TypeOK,
      SubscriptionMutexInv, AccessMutexInv, CountInv, Launching
<1>3. ThreadInv' /\ CancelInv'
  BY ConstantsAssumption DEF SubscribeFirst, Goto, Actors, IInv, TypeOK,
      AccessMutexInv, ThreadInv, CancelInv, Working, Launching
<1>4. BarrierInv'
  BY ConstantsAssumption DEF SubscribeFirst, Goto, Actors, IInv, TypeOK,
      BarrierInv
<1>5. OpenedInv'
  BY ConstantsAssumption DEF SubscribeFirst, Goto, Actors, IInv, TypeOK,
      OpenedInv
<1> QED BY <1>1, <1>2, <1>3, <1>4, <1>5 DEF IInv

(* With ThreadState STOPPED and accessMutex free no thread is working, so   *)
(* the new one is alone.                                                   *)
LEMMA SetupStartInductive ==
  ASSUME IInv, NEW c \in Callers, SetupStart(c)
  PROVE  IInv'
<1>1. TypeOK'
  BY ConstantsAssumption DEF SetupStart, Goto, Actors, CreateThread, IInv,
      TypeOK, CallerPCs, ThreadPCs
<1>2. SubscriptionMutexInv' /\ AccessMutexInv' /\ CountInv'
  BY ConstantsAssumption DEF SetupStart, Goto, Actors, CreateThread, IInv,
      TypeOK, SubscriptionMutexInv, AccessMutexInv, CountInv, Launching
<1>3. ThreadInv' /\ CancelInv'
  BY ConstantsAssumption DEF SetupStart, Goto, Actors, CreateThread, IInv,
      TypeOK, AccessMutexInv, ThreadInv, CancelInv, Working, Launching
<1>4. BarrierInv'
  BY ConstantsAssumption DEF SetupStart, Goto, Actors, CreateThread, IInv,
      TypeOK, BarrierInv, AccessMutexInv, ThreadInv, Working, Launching
<1>5. OpenedInv'
  BY ConstantsAssumption DEF SetupStart, Goto, Actors, CreateThread, IInv,
      TypeOK, OpenedInv
<1> QED BY <1>1, <1>2, <1>3, <1>4, <1>5 DEF IInv

(* A stopping thread is asked to restart; it stays cancelled. *)
LEMMA SetupRestartInductive ==
  ASSUME IInv, NEW c \in Callers, SetupRestart(c)
  PROVE  IInv'
<1>1. TypeOK'
  BY ConstantsAssumption DEF SetupRestart, Goto, Actors, IInv, TypeOK,
      CallerPCs, ThreadPCs
<1>2. SubscriptionMutexInv' /\ AccessMutexInv' /\ CountInv'
  BY ConstantsAssumption DEF SetupRestart, Goto, Actors, IInv, TypeOK,
      SubscriptionMutexInv, AccessMutexInv, CountInv, Launching
<1>3. ThreadInv' /\ CancelInv'
  BY ConstantsAssumption DEF SetupRestart, Goto, Actors, IInv, TypeOK,
      AccessMutexInv, ThreadInv, CancelInv, Working, Launching
<1>4. BarrierInv'
  BY ConstantsAssumption DEF SetupRestart, Goto, Actors, IInv, TypeOK,
      BarrierInv
<1>5. OpenedInv'
  BY ConstantsAssumption DEF SetupRestart, Goto, Actors, IInv, TypeOK,
      OpenedInv
<1> QED BY <1>1, <1>2, <1>3, <1>4, <1>5 DEF IInv

(* The end of a launch. *)
LEMMA SetupRunningInductive ==
  ASSUME IInv, NEW c \in Callers, SetupRunning(c)
  PROVE  IInv'
<1>1. TypeOK'
  BY ConstantsAssumption DEF SetupRunning, Goto, Actors, IInv, TypeOK,
      CallerPCs, ThreadPCs
<1>2. SubscriptionMutexInv' /\ AccessMutexInv' /\ CountInv'
  BY ConstantsAssumption DEF SetupRunning, Goto, Actors, IInv, TypeOK,
      SubscriptionMutexInv, AccessMutexInv, CountInv, Launching
<1>3. ThreadInv' /\ CancelInv'
  BY ConstantsAssumption DEF SetupRunning, Goto, Actors, IInv, TypeOK,
      AccessMutexInv, ThreadInv, CancelInv, Working, Launching
<1>4. BarrierInv'
  BY ConstantsAssumption DEF SetupRunning, Goto, Actors, IInv, TypeOK,
      BarrierInv
<1>5. OpenedInv'
  BY ConstantsAssumption DEF SetupRunning, Goto, Actors, IInv, TypeOK,
      OpenedInv
<1> QED BY <1>1, <1>2, <1>3, <1>4, <1>5 DEF IInv

(* Driver::Subscribe counts and unlocks. *)
LEMMA SubscribeCountInductive ==
  ASSUME IInv, NEW c \in Callers, SubscribeCount(c)
  PROVE  IInv'
<1>1. TypeOK'
  BY ConstantsAssumption DEF SubscribeCount, Goto, Actors, IInv, TypeOK,
      CallerPCs, ThreadPCs
<1>2. SubscriptionMutexInv' /\ AccessMutexInv' /\ CountInv'
  BY ConstantsAssumption DEF SubscribeCount, Goto, Actors, IInv, TypeOK,
      SubscriptionMutexInv, AccessMutexInv, CountInv, Launching
<1>3. ThreadInv' /\ CancelInv'
  BY ConstantsAssumption DEF SubscribeCount, Goto, Actors, IInv, TypeOK,
      AccessMutexInv, ThreadInv, CancelInv, Working, Launching
<1>4. BarrierInv'
  BY ConstantsAssumption DEF SubscribeCount, Goto, Actors, IInv, TypeOK,
      BarrierInv
<1>5. OpenedInv'
  BY ConstantsAssumption DEF SubscribeCount, Goto, Actors, IInv, TypeOK,
      OpenedInv
<1> QED BY <1>1, <1>2, <1>3, <1>4, <1>5 DEF IInv

(* One of several subscriptions, or one Terminate has already forgotten. *)
LEMMA UnsubscribeMoreInductive ==
  ASSUME IInv, NEW c \in Callers, UnsubscribeMore(c)
  PROVE  IInv'
<1>1. TypeOK'
  BY ConstantsAssumption DEF UnsubscribeMore, Goto, Actors, IInv, TypeOK,
      CallerPCs, ThreadPCs
<1>2. SubscriptionMutexInv' /\ AccessMutexInv' /\ CountInv'
  BY ConstantsAssumption DEF UnsubscribeMore, Goto, Actors, IInv, TypeOK,
      SubscriptionMutexInv, AccessMutexInv, CountInv, Launching
<1>3. ThreadInv' /\ CancelInv'
  BY ConstantsAssumption DEF UnsubscribeMore, Goto, Actors, IInv, TypeOK,
      AccessMutexInv, ThreadInv, CancelInv, Working, Launching
<1>4. BarrierInv'
  BY ConstantsAssumption DEF UnsubscribeMore, Goto, Actors, IInv, TypeOK,
      BarrierInv
<1>5. OpenedInv'
  BY ConstantsAssumption DEF UnsubscribeMore, Goto, Actors, IInv, TypeOK,
      OpenedInv
<1> QED BY <1>1, <1>2, <1>3, <1>4, <1>5 DEF IInv

(* The last subscription takes subscriptionMutex. *)
LEMMA UnsubscribeLastInductive ==
  ASSUME IInv, NEW c \in Callers, UnsubscribeLast(c)
  PROVE  IInv'
<1>1. TypeOK'
  BY ConstantsAssumption DEF UnsubscribeLast, Goto, Actors, IInv, TypeOK,
      CallerPCs, ThreadPCs
<1>2. SubscriptionMutexInv' /\ AccessMutexInv' /\ CountInv'
  BY ConstantsAssumption DEF UnsubscribeLast, Goto, Actors, IInv, TypeOK,
      SubscriptionMutexInv, AccessMutexInv, CountInv, Launching
<1>3. ThreadInv' /\ CancelInv'
  BY ConstantsAssumption DEF UnsubscribeLast, Goto, Actors, IInv, TypeOK,
      AccessMutexInv, ThreadInv, CancelInv, Working, Launching
<1>4. BarrierInv'
  BY ConstantsAssumption DEF UnsubscribeLast, Goto, Actors, IInv, TypeOK,
      BarrierInv
<1>5. OpenedInv'
  BY ConstantsAssumption DEF UnsubscribeLast, Goto, Actors, IInv, TypeOK,
      OpenedInv
<1> QED BY <1>1, <1>2, <1>3, <1>4, <1>5 DEF IInv

(* StopThread cancels the working thread. *)
LEMMA ShutdownInductive ==
  ASSUME IInv, NEW c \in Callers, Shutdown(c)
  PROVE  IInv'
<1>1. TypeOK'
  BY ConstantsAssumption DEF Shutdown, Goto, Actors, StopThread, IInv,
      TypeOK, CallerPCs, ThreadPCs
<1>2. SubscriptionMutexInv' /\ AccessMutexInv' /\ CountInv'
  BY ConstantsAssumption DEF Shutdown, Goto, Actors, StopThread, IInv,
      TypeOK, SubscriptionMutexInv, AccessMutexInv, CountInv, Launching
<1>3. ThreadInv' /\ CancelInv'
  BY ConstantsAssumption DEF Shutdown, Goto, Actors, StopThread, IInv,
      TypeOK, AccessMutexInv, ThreadInv, CancelInv, Working, Launching
<1>4. BarrierInv'
  BY ConstantsAssumption DEF Shutdown, Goto, Actors, StopThread, IInv,
      TypeOK, BarrierInv
<1>5. OpenedInv'
  BY ConstantsAssumption DEF Shutdown, Goto, Actors, StopThread, IInv,
      TypeOK, OpenedInv
<1> QED BY <1>1, <1>2, <1>3, <1>4, <1>5 DEF IInv

(* The count is still one: nobody else changed it under the mutex. *)
LEMMA UnsubscribeCountInductive ==
  ASSUME IInv, NEW c \in Callers, UnsubscribeCount(c)
  PROVE  IInv'
<1>1. TypeOK'
  BY ConstantsAssumption DEF UnsubscribeCount, Goto, Actors, IInv, TypeOK,
      CountInv, CallerPCs, ThreadPCs
<1>2. SubscriptionMutexInv' /\ AccessMutexInv' /\ CountInv'
  BY ConstantsAssumption DEF UnsubscribeCount, Goto, Actors, IInv, TypeOK,
      SubscriptionMutexInv, AccessMutexInv, CountInv, Launching
<1>3. ThreadInv' /\ CancelInv'
  BY ConstantsAssumption DEF UnsubscribeCount, Goto, Actors, IInv, TypeOK,
      AccessMutexInv, ThreadInv, CancelInv, Working, Launching
<1>4. BarrierInv'
  BY ConstantsAssumption DEF UnsubscribeCount, Goto, Actors, IInv, TypeOK,
      BarrierInv
<1>5. OpenedInv'
  BY ConstantsAssumption DEF UnsubscribeCount, Goto, Actors, IInv, TypeOK,
      OpenedInv
<1> QED BY <1>1, <1>2, <1>3, <1>4, <1>5 DEF IInv

(* Driver::Terminate begins. *)
LEMMA TerminateInductive ==
  ASSUME IInv, NEW c \in Callers, Terminate(c)
  PROVE  IInv'
<1>1. TypeOK'
  BY ConstantsAssumption DEF Terminate, Goto, Actors, IInv, TypeOK,
      CallerPCs, ThreadPCs
<1>2. SubscriptionMutexInv' /\ AccessMutexInv' /\ CountInv'
  BY ConstantsAssumption DEF Terminate, Goto, Actors, IInv, TypeOK,
      SubscriptionMutexInv, AccessMutexInv, CountInv, Launching
<1>3. ThreadInv' /\ CancelInv'
  BY ConstantsAssumption DEF Terminate, Goto, Actors, IInv, TypeOK,
      AccessMutexInv, ThreadInv, CancelInv, Working, Launching
<1>4. BarrierInv'
  BY ConstantsAssumption DEF Terminate, Goto, Actors, IInv, TypeOK,
      BarrierInv
<1>5. OpenedInv'
  BY ConstantsAssumption DEF Terminate, Goto, Actors, IInv, TypeOK,
      OpenedInv
<1> QED BY <1>1, <1>2, <1>3, <1>4, <1>5 DEF IInv

(* The holder of subscriptionMutex resets the count. *)
LEMMA TerminateResetInductive ==
  ASSUME IInv, NEW c \in Callers, TerminateReset(c)
  PROVE  IInv'
<1>1. TypeOK'
  BY ConstantsAssumption DEF TerminateReset, Goto, Actors, IInv, TypeOK,
      CallerPCs, ThreadPCs
<1>2. SubscriptionMutexInv' /\ AccessMutexInv' /\ CountInv'
  BY ConstantsAssumption DEF TerminateReset, Goto, Actors, IInv, TypeOK,
      SubscriptionMutexInv, AccessMutexInv, CountInv, Launching
<1>3. ThreadInv' /\ CancelInv'
  BY ConstantsAssumption DEF TerminateReset, Goto, Actors, IInv, TypeOK,
      AccessMutexInv, ThreadInv, CancelInv, Working, Launching
<1>4. BarrierInv'
  BY ConstantsAssumption DEF TerminateReset, Goto, Actors, IInv, TypeOK,
      BarrierInv
<1>5. OpenedInv'
  BY ConstantsAssumption DEF TerminateReset, Goto, Actors, IInv, TypeOK,
      OpenedInv
<1> QED BY <1>1, <1>2, <1>3, <1>4, <1>5 DEF IInv

(* Terminate returns. *)
LEMMA TerminatePollInductive ==
  ASSUME IInv, NEW c \in Callers, TerminatePoll(c)
  PROVE  IInv'
<1>1. TypeOK'
  BY ConstantsAssumption DEF TerminatePoll, Goto, Actors, IInv, TypeOK,
      CallerPCs, ThreadPCs
<1>2. SubscriptionMutexInv' /\ AccessMutexInv' /\ CountInv'
  BY ConstantsAssumption DEF TerminatePoll, Goto, Actors, IInv, TypeOK,
      SubscriptionMutexInv, AccessMutexInv, CountInv, Launching
<1>3. ThreadInv' /\ CancelInv'
  BY ConstantsAssumption DEF TerminatePoll, Goto, Actors, IInv, TypeOK,
      AccessMutexInv, ThreadInv, CancelInv, Working, Launching
<1>4. BarrierInv'
  BY ConstantsAssumption DEF TerminatePoll, Goto, Actors, IInv, TypeOK,
      BarrierInv
<1>5. OpenedInv'
  BY ConstantsAssumption DEF TerminatePoll, Goto, Actors, IInv, TypeOK,
      OpenedInv
<1> QED BY <1>1, <1>2, <1>3, <1>4, <1>5 DEF IInv

(* SetupSuccessful is reset before anything of the new thread reads it. *)
LEMMA DummyMainInductive ==
  ASSUME IInv, NEW t \in Threads, DummyMain(t)
  PROVE  IInv'
<1>1. TypeOK'
  BY ConstantsAssumption DEF DummyMain, Goto, Actors, threadOnly, IInv,
      TypeOK, CallerPCs, ThreadPCs
<1>2. SubscriptionMutexInv' /\ AccessMutexInv' /\ CountInv'
  BY ConstantsAssumption DEF DummyMain, Goto, Actors, threadOnly, IInv,
      TypeOK, SubscriptionMutexInv, AccessMutexInv, CountInv, Launching
<1>3. ThreadInv' /\ CancelInv'
  BY ConstantsAssumption DEF DummyMain, Goto, Actors, threadOnly, IInv,
      TypeOK, AccessMutexInv, ThreadInv, CancelInv, Working, Launching
<1>4. BarrierInv'
  BY ConstantsAssumption DEF DummyMain, Goto, Actors, threadOnly, IInv,
      TypeOK, BarrierInv
<1>5. OpenedInv'
  BY ConstantsAssumption DEF DummyMain, Goto, Actors, threadOnly, IInv,
      TypeOK, OpenedInv, ThreadInv, Working
<1> QED BY <1>1, <1>2, <1>3, <1>4, <1>5 DEF IInv

(* A cancelled thread goes to DummyMainQuit. *)
LEMMA CancellationPointInductive ==
  ASSUME IInv, NEW t \in Threads, CancellationPoint(t)
  PROVE  IInv'
<1>1. TypeOK'
  BY ConstantsAssumption DEF CancellationPoint, Goto, Actors, threadOnly,
      IInv, TypeOK, CallerPCs, ThreadPCs
<1>2. SubscriptionMutexInv' /\ AccessMutexInv' /\ CountInv'
  BY ConstantsAssumption DEF CancellationPoint, Goto, Actors, threadOnly,
      IInv, TypeOK, SubscriptionMutexInv, AccessMutexInv, CountInv,
      Launching
<1>3. ThreadInv' /\ CancelInv'
  BY ConstantsAssumption DEF CancellationPoint, Goto, Actors, threadOnly,
      IInv, TypeOK, AccessMutexInv, ThreadInv, CancelInv, Working, Launching
<1>4. BarrierInv'
  BY ConstantsAssumption DEF CancellationPoint, Goto, Actors, threadOnly,
      IInv, TypeOK, BarrierInv
<1>5. OpenedInv'
  BY ConstantsAssumption DEF CancellationPoint, Goto, Actors, threadOnly,
      IInv, TypeOK, OpenedInv
<1> QED BY <1>1, <1>2, <1>3, <1>4, <1>5 DEF IInv

(* So does one whose Main returns. *)
LEMMA MainReturnsInductive ==
  ASSUME IInv, NEW t \in Threads, MainReturns(t)
  PROVE  IInv'
<1>1. TypeOK'
  BY ConstantsAssumption DEF MainReturns, Goto, Actors, threadOnly, IInv,
      TypeOK, CallerPCs, ThreadPCs
<1>2. SubscriptionMutexInv' /\ AccessMutexInv' /\ CountInv'
  BY ConstantsAssumption DEF MainReturns, Goto, Actors, threadOnly, IInv,
      TypeOK, SubscriptionMutexInv, AccessMutexInv, CountInv, Launching
<1>3. ThreadInv' /\ CancelInv'
  BY ConstantsAssumption DEF MainReturns, Goto, Actors, threadOnly, IInv,
      TypeOK, AccessMutexInv, ThreadInv, CancelInv, Working, Launching
<1>4. BarrierInv'
  BY ConstantsAssumption DEF MainReturns, Goto, Actors, threadOnly, IInv,
      TypeOK, BarrierInv
<1>5. OpenedInv'
  BY ConstantsAssumption DEF MainReturns, Goto, Actors, threadOnly, IInv,
      TypeOK, OpenedInv
<1> QED BY <1>1, <1>2, <1>3, <1>4, <1>5 DEF IInv

(* SetupSuccessful decides whether there is anything to release. *)
LEMMA DummyMainQuitInductive ==
  ASSUME IInv, NEW t \in Threads, DummyMainQuit(t)
  PROVE  IInv'
<1>1. TypeOK'
  BY ConstantsAssumption DEF DummyMainQuit, Goto, Actors, threadOnly, IInv,
      TypeOK, CallerPCs, ThreadPCs
<1>2. SubscriptionMutexInv' /\ AccessMutexInv' /\ CountInv'
  BY ConstantsAssumption DEF DummyMainQuit, Goto, Actors, threadOnly, IInv,
      TypeOK, SubscriptionMutexInv, AccessMutexInv, CountInv, Launching
<1>3. ThreadInv' /\ CancelInv'
  BY ConstantsAssumption DEF DummyMainQuit, Goto, Actors, threadOnly, IInv,
      TypeOK, AccessMutexInv, ThreadInv, CancelInv, Working, Launching
<1>4. BarrierInv'
  BY ConstantsAssumption DEF DummyMainQuit, Goto, Actors, threadOnly, IInv,
      TypeOK, BarrierInv
<1>5. OpenedInv'
  BY ConstantsAssumption DEF DummyMainQuit, Goto, Actors, threadOnly, IInv,
      TypeOK, OpenedInv
<1> QED BY <1>1, <1>2, <1>3, <1>4, <1>5 DEF IInv

(* The thread has released what it set up. *)
LEMMA MainQuitInductive ==
  ASSUME IInv, NEW t \in Threads, MainQuit(t)
  PROVE  IInv'
<1>1. TypeOK'
  BY ConstantsAssumption DEF MainQuit, Goto, Actors, threadOnly, IInv,
      TypeOK, CallerPCs, ThreadPCs
<1>2. SubscriptionMutexInv' /\ AccessMutexInv' /\ CountInv'
  BY ConstantsAssumption DEF MainQuit, Goto, Actors, threadOnly, IInv,
      TypeOK, SubscriptionMutexInv, AccessMutexInv, CountInv, Launching
<1>3. ThreadInv' /\ CancelInv'
  BY ConstantsAssumption DEF MainQuit, Goto, Actors, threadOnly, IInv,
      TypeOK, AccessMutexInv, ThreadInv, CancelInv, Working, Launching
<1>4. BarrierInv'
  BY ConstantsAssumption DEF MainQuit, Goto, Actors, threadOnly, IInv,
      TypeOK, BarrierInv
<1>5. OpenedInv'
  BY ConstantsAssumption DEF MainQuit, Goto, Actors, threadOnly, IInv,
      TypeOK, OpenedInv
<1> QED BY <1>1, <1>2, <1>3, <1>4, <1>5 DEF IInv

(* The only working thread stops. *)
LEMMA QuitStoppedInductive ==
  ASSUME IInv, NEW t \in Threads, QuitStopped(t)
  PROVE  IInv'
<1>1. TypeOK'
  BY ConstantsAssumption DEF QuitStopped, Goto, Actors, threadOnly, IInv,
      TypeOK, CallerPCs, ThreadPCs
<1>2. SubscriptionMutexInv' /\ AccessMutexInv' /\ CountInv'
  BY ConstantsAssumption DEF QuitStopped, Goto, Actors, threadOnly, IInv,
      TypeOK, SubscriptionMutexInv, AccessMutexInv, CountInv, Launching
<1>3. ThreadInv' /\ CancelInv'
  BY ConstantsAssumption DEF QuitStopped, Goto, Actors, threadOnly, IInv,
      TypeOK, AccessMutexInv, ThreadInv, CancelInv, Working, Launching
<1>4. BarrierInv'
  BY ConstantsAssumption DEF QuitStopped, Goto, Actors, threadOnly, IInv,
      TypeOK, BarrierInv
<1>5. OpenedInv'
  BY ConstantsAssumption DEF QuitStopped, Goto, Actors, threadOnly, IInv,
      TypeOK, OpenedInv
<1> QED BY <1>1, <1>2, <1>3, <1>4, <1>5 DEF IInv

(* The only working thread stops, and keeps accessMutex to launch the next. *)
LEMMA QuitRestartingInductive ==
  ASSUME IInv, NEW t \in Threads, QuitRestarting(t)
  PROVE  IInv'
<1>1. TypeOK'
  BY ConstantsAssumption DEF QuitRestarting, Goto, Actors, threadOnly, IInv,
      TypeOK, CallerPCs, ThreadPCs
<1>2. SubscriptionMutexInv' /\ AccessMutexInv' /\ CountInv'
  BY ConstantsAssumption DEF QuitRestarting, Goto, Actors, threadOnly, IInv,
      TypeOK, SubscriptionMutexInv, AccessMutexInv, CountInv, Launching
<1>3. ThreadInv' /\ CancelInv'
  BY ConstantsAssumption DEF QuitRestarting, Goto, Actors, threadOnly, IInv,
      TypeOK, AccessMutexInv, ThreadInv, CancelInv, Working, Launching
<1>4. BarrierInv'
  BY ConstantsAssumption DEF QuitRestarting, Goto, Actors, threadOnly, IInv,
      TypeOK, BarrierInv
<1>5. OpenedInv'
  BY ConstantsAssumption DEF QuitRestarting, Goto, Actors, threadOnly, IInv,
      TypeOK, OpenedInv
<1> QED BY <1>1, <1>2, <1>3, <1>4, <1>5 DEF IInv

(* Only the ending thread can launch now: it holds accessMutex. *)
LEMMA QuitStartInductive ==
  ASSUME IInv, NEW t \in Threads, QuitStart(t)
  PROVE  IInv'
<1>1. TypeOK'
  BY ConstantsAssumption DEF QuitStart, Goto, Actors, CreateThread,
      threadOnly, IInv, TypeOK, CallerPCs, ThreadPCs
<1>2. SubscriptionMutexInv' /\ AccessMutexInv' /\ CountInv'
  BY ConstantsAssumption DEF QuitStart, Goto, Actors, CreateThread,
      threadOnly, IInv, TypeOK, SubscriptionMutexInv, AccessMutexInv,
      CountInv, Launching
<1>3. ThreadInv' /\ CancelInv'
  BY ConstantsAssumption DEF QuitStart, Goto, Actors, CreateThread,
      threadOnly, IInv, TypeOK, AccessMutexInv, ThreadInv, CancelInv,
      Working, Launching
<1>4. BarrierInv'
  BY ConstantsAssumption DEF QuitStart, Goto, Actors, CreateThread,
      threadOnly, IInv, TypeOK, BarrierInv, AccessMutexInv, ThreadInv,
      Working, Launching
<1>5. OpenedInv'
  BY ConstantsAssumption DEF QuitStart, Goto, Actors, CreateThread,
      threadOnly, IInv, TypeOK, OpenedInv
<1> QED BY <1>1, <1>2, <1>3, <1>4, <1>5 DEF IInv

(* The end of a relaunch. *)
LEMMA QuitRunningInductive ==
  ASSUME IInv, NEW t \in Threads, QuitRunning(t)
  PROVE  IInv'
<1>1. TypeOK'
  BY ConstantsAssumption DEF QuitRunning, Goto, Actors, threadOnly, IInv,
      TypeOK, CallerPCs, ThreadPCs
<1>2. SubscriptionMutexInv' /\ AccessMutexInv' /\ CountInv'
  BY ConstantsAssumption DEF QuitRunning, Goto, Actors, threadOnly, IInv,
      TypeOK, SubscriptionMutexInv, AccessMutexInv, CountInv, Launching
<1>3. ThreadInv' /\ CancelInv'
  BY ConstantsAssumption DEF QuitRunning, Goto, Actors, threadOnly, IInv,
      TypeOK, AccessMutexInv, ThreadInv, CancelInv, Working, Launching
<1>4. BarrierInv'
  BY ConstantsAssumption DEF QuitRunning, Goto, Actors, threadOnly, IInv,
      TypeOK, BarrierInv
<1>5. OpenedInv'
  BY ConstantsAssumption DEF QuitRunning, Goto, Actors, threadOnly, IInv,
      TypeOK, OpenedInv
<1> QED BY <1>1, <1>2, <1>3, <1>4, <1>5 DEF IInv

(* The old thread is gone. *)
LEMMA QuitUnlockInductive ==
  ASSUME IInv, NEW t \in Threads, QuitUnlock(t)
  PROVE  IInv'
<1>1. TypeOK'
  BY ConstantsAssumption DEF QuitUnlock, Goto, Actors, threadOnly, IInv,
      TypeOK, CallerPCs, ThreadPCs
<1>2. SubscriptionMutexInv' /\ AccessMutexInv' /\ CountInv'
  BY ConstantsAssumption DEF QuitUnlock, Goto, Actors, threadOnly, IInv,
      TypeOK, SubscriptionMutexInv, AccessMutexInv, CountInv, Launching
<1>3. ThreadInv' /\ CancelInv'
  BY ConstantsAssumption DEF QuitUnlock, Goto, Actors, threadOnly, IInv,
      TypeOK, AccessMutexInv, ThreadInv, CancelInv, Working, Launching
<1>4. BarrierInv'
  BY ConstantsAssumption DEF QuitUnlock, Goto, Actors, threadOnly, IInv,
      TypeOK, BarrierInv
<1>5. OpenedInv'
  BY ConstantsAssumption DEF QuitUnlock, Goto, Actors, threadOnly, IInv,
      TypeOK, OpenedInv
<1> QED BY <1>1, <1>2, <1>3, <1>4, <1>5 DEF IInv

(* This thread's MainSetup decides about SetupSuccessful. *)
LEMMA MainSetupInductive ==
  ASSUME IInv, NEW t \in Threads, NEW ok \in BOOLEAN, MainSetup(t, ok)
  PROVE  IInv'
<1>1. TypeOK'
  BY ConstantsAssumption DEF MainSetup, Goto, Actors, threadOnly, IInv,
      TypeOK, CallerPCs, ThreadPCs
<1>2. SubscriptionMutexInv' /\ AccessMutexInv' /\ CountInv'
  BY ConstantsAssumption DEF MainSetup, Goto, Actors, threadOnly, IInv,
      TypeOK, SubscriptionMutexInv, AccessMutexInv, CountInv, Launching
<1>3. ThreadInv' /\ CancelInv'
  BY ConstantsAssumption DEF MainSetup, Goto, Actors, threadOnly, IInv,
      TypeOK, AccessMutexInv, ThreadInv, CancelInv, Working, Launching
<1>4. BarrierInv'
  BY ConstantsAssumption DEF MainSetup, Goto, Actors, threadOnly, IInv,
      TypeOK, BarrierInv
<1>5. OpenedInv'
  BY ConstantsAssumption DEF MainSetup, Goto, Actors, threadOnly, IInv,
      TypeOK, OpenedInv, ThreadInv, Working
<1> QED BY <1>1, <1>2, <1>3, <1>4, <1>5 DEF IInv

(* Creator and thread each arrive once. *)
LEMMA BarrierWaitInductive ==
  ASSUME IInv, NEW a \in Actors, BarrierWait(a)
  PROVE  IInv'
<1>1. TypeOK'
  BY ConstantsAssumption DEF BarrierWait, Goto, Actors, Asleep, Beyond,
      IInv, TypeOK, BarrierInv, CallerPCs, ThreadPCs
<1>2. SubscriptionMutexInv' /\ AccessMutexInv' /\ CountInv'
  BY ConstantsAssumption DEF BarrierWait, Goto, Actors, Asleep, Beyond,
      IInv, TypeOK, SubscriptionMutexInv, AccessMutexInv, CountInv,
      Launching
<1>3. ThreadInv' /\ CancelInv'
  BY ConstantsAssumption DEF BarrierWait, Goto, Actors, Asleep, Beyond,
      IInv, TypeOK, AccessMutexInv, ThreadInv, CancelInv, Working, Launching
<1>4. BarrierInv'
  BY ConstantsAssumption DEF BarrierWait, Goto, Actors, Asleep, Beyond,
      IInv, TypeOK, BarrierInv, AccessMutexInv, ThreadInv, Working,
      Launching, CallerPCs, ThreadPCs
<1>5. OpenedInv'
  BY ConstantsAssumption DEF BarrierWait, Goto, Actors, Asleep, Beyond,
      IInv, TypeOK, OpenedInv
<1> QED BY <1>1, <1>2, <1>3, <1>4, <1>5 DEF IInv

(* Waking up early changes nothing the launch relies on. *)
LEMMA BarrierSpuriousInductive ==
  ASSUME IInv, NEW a \in Actors, BarrierSpurious(a)
  PROVE  IInv'
<1>1. TypeOK'
  BY ConstantsAssumption DEF BarrierSpurious, Goto, Actors, Beyond, IInv,
      TypeOK, CallerPCs, ThreadPCs
<1>2. SubscriptionMutexInv' /\ AccessMutexInv' /\ CountInv'
  BY ConstantsAssumption DEF BarrierSpurious, Goto, Actors, Beyond, IInv,
      TypeOK, SubscriptionMutexInv, AccessMutexInv, CountInv, Launching
<1>3. ThreadInv' /\ CancelInv'
  BY ConstantsAssumption DEF BarrierSpurious, Goto, Actors, Beyond, IInv,
      TypeOK, AccessMutexInv, ThreadInv, CancelInv, Working, Launching
<1>4. BarrierInv'
  BY ConstantsAssumption DEF BarrierSpurious, Goto, Actors, Beyond, IInv,
      TypeOK, BarrierInv
<1>5. OpenedInv'
  BY ConstantsAssumption DEF BarrierSpurious, Goto, Actors, Beyond, IInv,
      TypeOK, OpenedInv
<1> QED BY <1>1, <1>2, <1>3, <1>4, <1>5 DEF IInv

(* The inductive invariant is preserved by every step. *)
LEMMA Inductive == IInv /\ [Next]_vars => IInv'
<1> SUFFICES ASSUME IInv, [Next]_vars PROVE IInv'
  OBVIOUS
<1>1. ASSUME NEW c \in Callers, CallBegins(c) PROVE IInv'
  BY <1>1, SubscribeMoreInductive, SubscribeFirstInductive,
     UnsubscribeMoreInductive, UnsubscribeLastInductive, TerminateInductive
  DEF CallBegins
<1>2. ASSUME NEW c \in Callers, CallStep(c) PROVE IInv'
  BY <1>2, SetupStartInductive, SetupRestartInductive, SetupRunningInductive,
     SubscribeCountInductive, ShutdownInductive, UnsubscribeCountInductive,
     TerminateResetInductive, TerminatePollInductive
  DEF CallStep
<1>3. ASSUME NEW t \in Threads, ThreadStep(t) PROVE IInv'
  BY <1>3, DummyMainInductive, MainSetupInductive, CancellationPointInductive,
     DummyMainQuitInductive, MainQuitInductive, QuitStoppedInductive,
     QuitRestartingInductive, QuitStartInductive, QuitRunningInductive,
     QuitUnlockInductive
  DEF ThreadStep
<1>4. ASSUME NEW t \in Threads, MainReturns(t) PROVE IInv'
  BY <1>4, MainReturnsInductive
<1>5. ASSUME NEW a \in Actors, BarrierWait(a) \/ BarrierSpurious(a) PROVE IInv'
  BY <1>5, BarrierWaitInductive, BarrierSpuriousInductive
<1>6. CASE UNCHANGED vars
  BY <1>6 DEF vars, IInv, TypeOK, SubscriptionMutexInv, AccessMutexInv,
     CountInv, ThreadInv, CancelInv, BarrierInv, OpenedInv, Working, Launching
<1> QED
  BY <1>1, <1>2, <1>3, <1>4, <1>5, <1>6 DEF Next

(* The inductive invariant holds initially: nobody is anywhere. *)
LEMMA Initial == Init => IInv
<1> SUFFICES ASSUME Init PROVE IInv
  OBVIOUS
<1>1. TypeOK
  <2>1. pc \in [Actors -> CallerPCs \cup ThreadPCs]
    BY DEF Init, CallerPCs, ThreadPCs
  <2>2. \A c \in Callers : pc[c] \in CallerPCs
    BY DEF Init, Actors, CallerPCs
  <2>3. \A t \in Threads : pc[t] \in ThreadPCs
    BY ConstantsAssumption DEF Init, Actors, ThreadPCs
  <2>4. cancelled \in [Threads -> BOOLEAN]
    BY Zenon DEF Init
  <2>5. subscriptions \in Nat /\ held \in [Callers -> Nat] /\ barrierValue \in 0..2
    BY DEF Init
  <2>6. /\ subscriptionMutex \in Callers \cup {Nobody}
        /\ accessMutex \in Actors \cup {Nobody}
        /\ driverthread \in Threads \cup {Nobody}
        /\ opened \in Threads \cup {Nobody}
    BY DEF Init
  <2>7. /\ ThreadState \in {"STOPPED", "RUNNING", "STOPPING", "RESTARTING"}
        /\ SetupSuccessful \in BOOLEAN
    BY Zenon DEF Init
  <2> QED BY <2>1, <2>2, <2>3, <2>4, <2>5, <2>6, <2>7 DEF TypeOK
<1>2. SubscriptionMutexInv /\ AccessMutexInv /\ CountInv
  BY ConstantsAssumption DEF Init, Actors, SubscriptionMutexInv, AccessMutexInv,
     CountInv, Launching
<1>3. ThreadInv /\ CancelInv
  BY ConstantsAssumption DEF Init, Actors, ThreadInv, CancelInv, Working, Launching
<1>4. BarrierInv /\ OpenedInv
  BY ConstantsAssumption DEF Init, Actors, BarrierInv, OpenedInv
<1> QED BY <1>1, <1>2, <1>3, <1>4 DEF IInv

(* Every reachable state satisfies the inductive invariant. *)
THEOREM Invariance == Spec => []IInv
BY Initial, Inductive, PTL DEF Spec

(* Subscribe, Unsubscribe, Terminate and the driver thread keep every      *)
(* variable in its type: the count is never negative, although it is       *)
(* decremented in three places, and PlayerBarrier's value stays in 0..2.   *)
THEOREM TypeCorrect == Spec => []TypeOK
<1>1. IInv => TypeOK
  BY DEF IInv
<1> QED BY <1>1, Invariance, PTL

(* DummyMain of one thread and of another never overlap: there is only     *)
(* ever one thread running for the driver, whatever the order of           *)
(* subscriptions, restarts, failures and spurious wakeups.                 *)
THEOREM OneThreadAlways == Spec => []OneThread
<1>1. IInv => OneThread
  BY DEF IInv, ThreadInv, OneThread
<1> QED BY <1>1, Invariance, PTL

(* MainSetup, Main and MainQuit of one thread bracket each other: Main and *)
(* MainQuit run only after this thread's MainSetup succeeded, and a thread *)
(* that ends has released what it set up.                                  *)
THEOREM MainBracketedAlways == Spec => []MainBracketed
<1>1. IInv => MainBracketed
  <2> SUFFICES ASSUME IInv, NEW t \in Threads
               PROVE  /\ pc[t] \in {"created", "arrive", "await", "mainsetup"}
                           => opened = Nobody
                      /\ pc[t] \in {"main", "mainquit"} => opened = t
                      /\ pc[t] \in {"lock", "stopped", "unlock"} => opened # t
    BY DEF MainBracketed
  <2>1. opened \in Threads => Working(opened)
    BY DEF IInv, OpenedInv, Working
  <2>2. ASSUME pc[t] \in {"created", "arrive", "await", "mainsetup"}
        PROVE  opened = Nobody
    <3>1. opened \in Threads => opened = t
      BY <2>1, <2>2 DEF IInv, ThreadInv, Working
    <3> QED BY <2>2, <3>1 DEF IInv, TypeOK, OpenedInv
  <2> QED BY <2>2 DEF IInv, OpenedInv
<1> QED BY <1>1, Invariance, PTL

(* StopThread never passes pthread_cancel the handle of a thread that has  *)
(* ended: in state RUNNING the handle belongs to a working thread.         *)
THEOREM CancelTargetsLiveThreadAlways == Spec => []CancelTargetsLiveThread
<1>1. IInv => CancelTargetsLiveThread
  BY DEF IInv, ThreadInv, CancelTargetsLiveThread
<1> QED BY <1>1, Invariance, PTL

(* A stop or a restart promised by StopThread or StartThread is always in  *)
(* the hands of a cancelled thread that has DummyMainQuit still to run.    *)
THEOREM PromiseHasThreadAlways == Spec => []PromiseHasThread
<1>1. IInv => PromiseHasThread
  BY DEF IInv, ThreadInv, CancelInv, PromiseHasThread
<1> QED BY <1>1, Invariance, PTL

(* The assertion in PlayerBarrier::Wait never fails. *)
THEOREM BarrierAssertAlways == Spec => []BarrierAssert
<1>1. IInv => BarrierAssert
  BY DEF IInv, BarrierInv, BarrierAssert
<1> QED BY <1>1, Invariance, PTL

-----------------------------------------------------------------------------
(***************************************************************************)
(* What subscriptions and Terminate mean for the thread.                   *)
(*                                                                         *)
(* UnwantedInv holds of every driver.  TerminateInv needs that nobody      *)
(* subscribes once Terminate has begun; CancelledInv and WantedInv need a  *)
(* driver whose MainSetup succeeds and whose Main runs until cancelled.    *)
(***************************************************************************)
(* In Driver::Subscribe, with the count still to come. *)
Starting(c) == pc[c] \in {"setup", "barrier", "asleep", "running", "counted"}

(* After Shutdown, with the count still to be taken down. *)
GivingUp == \E c \in Callers : pc[c] \in {"uncounted", "reset"}

UnwantedInv ==
  ((subscriptions = 0 /\ \A c \in Callers : ~Starting(c)) \/ GivingUp)
    => ThreadState \in {"STOPPED", "STOPPING"} /\ ~Relaunching

TerminateInv ==
  /\ Terminating => \A c \in Callers : ~Starting(c)
  /\ (\E c \in Callers : pc[c] \in {"poll", "terminated"}) => subscriptions = 0
  /\ Deleted => ThreadState = "STOPPED"

CancelledInv ==
  /\ \A t \in Threads : pc[t] \in {"quit", "mainquit", "lock"} => cancelled[t]
  /\ ThreadState = "RUNNING" => ~cancelled[driverthread]
  /\ \A a \in Actors : Launching(a) => ~cancelled[driverthread]

WantedInv ==
  ((subscriptions > 0 /\ ~GivingUp) \/ \E c \in Callers : pc[c] = "counted")
    => ThreadState \in {"RUNNING", "RESTARTING"} \/ Relaunching

(* Nobody starts, or restarts, the thread of a driver that is not wanted. *)
LEMMA UnwantedInductive ==
  ASSUME IInv, UnwantedInv,
         [Next]_vars
  PROVE  UnwantedInv'
<1> USE ConstantsAssumption DEF Goto, Actors, threadOnly, IInv, TypeOK,
  SubscriptionMutexInv, AccessMutexInv, CountInv, Launching, UnwantedInv,
  Starting, GivingUp, Relaunching
<1>1. ASSUME NEW c \in Callers, SubscribeMore(c) PROVE UnwantedInv'
  BY <1>1 DEF SubscribeMore, MaySubscribe
<1>2. ASSUME NEW c \in Callers, SubscribeFirst(c) PROVE UnwantedInv'
  BY <1>2 DEF SubscribeFirst, MaySubscribe
<1>3. ASSUME NEW c \in Callers, UnsubscribeMore(c) PROVE UnwantedInv'
  BY <1>3 DEF UnsubscribeMore
<1>4. ASSUME NEW c \in Callers, UnsubscribeLast(c) PROVE UnwantedInv'
  BY <1>4 DEF UnsubscribeLast
<1>5. ASSUME NEW c \in Callers, Terminate(c) PROVE UnwantedInv'
  BY <1>5 DEF Terminate
<1>6. ASSUME NEW c \in Callers, SetupStart(c) PROVE UnwantedInv'
  BY <1>6 DEF SetupStart, CreateThread
<1>7. ASSUME NEW c \in Callers, SetupRestart(c) PROVE UnwantedInv'
  BY <1>7 DEF SetupRestart
<1>8. ASSUME NEW c \in Callers, SetupRunning(c) PROVE UnwantedInv'
  BY <1>8 DEF SetupRunning
<1>9. ASSUME NEW c \in Callers, SubscribeCount(c) PROVE UnwantedInv'
  BY <1>9 DEF SubscribeCount
<1>10. ASSUME NEW c \in Callers, Shutdown(c) PROVE UnwantedInv'
  BY <1>10 DEF Shutdown, StopThread
<1>11. ASSUME NEW c \in Callers, UnsubscribeCount(c) PROVE UnwantedInv'
  BY <1>11 DEF UnsubscribeCount
<1>12. ASSUME NEW c \in Callers, TerminateReset(c) PROVE UnwantedInv'
  BY <1>12 DEF TerminateReset
<1>13. ASSUME NEW c \in Callers, TerminatePoll(c) PROVE UnwantedInv'
  BY <1>13 DEF TerminatePoll
<1>14. ASSUME NEW t \in Threads, DummyMain(t) PROVE UnwantedInv'
  BY <1>14 DEF DummyMain
<1>15. ASSUME NEW t \in Threads, NEW ok \in BOOLEAN, MainSetup(t, ok)
       PROVE  UnwantedInv'
  BY <1>15 DEF MainSetup
<1>16. ASSUME NEW t \in Threads, CancellationPoint(t) PROVE UnwantedInv'
  BY <1>16 DEF CancellationPoint
<1>17. ASSUME NEW t \in Threads, MainReturns(t) PROVE UnwantedInv'
  BY <1>17 DEF MainReturns
<1>18. ASSUME NEW t \in Threads, DummyMainQuit(t) PROVE UnwantedInv'
  BY <1>18 DEF DummyMainQuit
<1>19. ASSUME NEW t \in Threads, MainQuit(t) PROVE UnwantedInv'
  BY <1>19 DEF MainQuit
<1>20. ASSUME NEW t \in Threads, QuitStopped(t) PROVE UnwantedInv'
  BY <1>20 DEF QuitStopped
<1>21. ASSUME NEW t \in Threads, QuitRestarting(t) PROVE UnwantedInv'
  BY <1>21 DEF QuitRestarting
<1>22. ASSUME NEW t \in Threads, QuitStart(t) PROVE UnwantedInv'
  BY <1>22 DEF QuitStart, CreateThread
<1>23. ASSUME NEW t \in Threads, QuitRunning(t) PROVE UnwantedInv'
  BY <1>23 DEF QuitRunning
<1>24. ASSUME NEW t \in Threads, QuitUnlock(t) PROVE UnwantedInv'
  BY <1>24 DEF QuitUnlock
<1>25. ASSUME NEW a \in Actors, BarrierWait(a) PROVE UnwantedInv'
  BY <1>25 DEF BarrierWait, Asleep, Beyond
<1>26. ASSUME NEW a \in Actors, BarrierSpurious(a) PROVE UnwantedInv'
  BY <1>26 DEF BarrierSpurious, Beyond
<1>27. CASE UNCHANGED vars
  BY <1>27 DEF vars
<1> QED
  BY <1>1, <1>2, <1>3, <1>4, <1>5, <1>6, <1>7, <1>8, <1>9, <1>10, <1>11,
    <1>12, <1>13, <1>14, <1>15, <1>16, <1>17, <1>18, <1>19, <1>20, <1>21,
    <1>22, <1>23, <1>24, <1>25, <1>26, <1>27 DEF Next, CallBegins, CallStep,
    ThreadStep

(* Once Terminate has begun the count stays down and the thread stops. *)
LEMMA TerminationInductive ==
  ASSUME IInv, UnwantedInv, TerminateInv, ~LateSubscribers,
         [Next]_vars
  PROVE  TerminateInv'
<1> USE ConstantsAssumption DEF Goto, Actors, threadOnly, IInv, TypeOK,
  SubscriptionMutexInv, AccessMutexInv, CountInv, Launching, UnwantedInv,
  TerminateInv, Terminating, Deleted, Starting, GivingUp, Relaunching
<1>1. ASSUME NEW c \in Callers, SubscribeMore(c) PROVE TerminateInv'
  BY <1>1 DEF SubscribeMore, MaySubscribe
<1>2. ASSUME NEW c \in Callers, SubscribeFirst(c) PROVE TerminateInv'
  BY <1>2 DEF SubscribeFirst, MaySubscribe
<1>3. ASSUME NEW c \in Callers, UnsubscribeMore(c) PROVE TerminateInv'
  BY <1>3 DEF UnsubscribeMore
<1>4. ASSUME NEW c \in Callers, UnsubscribeLast(c) PROVE TerminateInv'
  BY <1>4 DEF UnsubscribeLast
<1>5. ASSUME NEW c \in Callers, Terminate(c) PROVE TerminateInv'
  BY <1>5 DEF Terminate
<1>6. ASSUME NEW c \in Callers, SetupStart(c) PROVE TerminateInv'
  BY <1>6 DEF SetupStart, CreateThread
<1>7. ASSUME NEW c \in Callers, SetupRestart(c) PROVE TerminateInv'
  BY <1>7 DEF SetupRestart
<1>8. ASSUME NEW c \in Callers, SetupRunning(c) PROVE TerminateInv'
  BY <1>8 DEF SetupRunning
<1>9. ASSUME NEW c \in Callers, SubscribeCount(c) PROVE TerminateInv'
  BY <1>9 DEF SubscribeCount
<1>10. ASSUME NEW c \in Callers, Shutdown(c) PROVE TerminateInv'
  BY <1>10 DEF Shutdown, StopThread
<1>11. ASSUME NEW c \in Callers, UnsubscribeCount(c) PROVE TerminateInv'
  BY <1>11 DEF UnsubscribeCount
<1>12. ASSUME NEW c \in Callers, TerminateReset(c) PROVE TerminateInv'
  BY <1>12 DEF TerminateReset
<1>13. ASSUME NEW c \in Callers, TerminatePoll(c) PROVE TerminateInv'
  BY <1>13 DEF TerminatePoll
<1>14. ASSUME NEW t \in Threads, DummyMain(t) PROVE TerminateInv'
  BY <1>14 DEF DummyMain
<1>15. ASSUME NEW t \in Threads, NEW ok \in BOOLEAN, MainSetup(t, ok)
       PROVE  TerminateInv'
  BY <1>15 DEF MainSetup
<1>16. ASSUME NEW t \in Threads, CancellationPoint(t) PROVE TerminateInv'
  BY <1>16 DEF CancellationPoint
<1>17. ASSUME NEW t \in Threads, MainReturns(t) PROVE TerminateInv'
  BY <1>17 DEF MainReturns
<1>18. ASSUME NEW t \in Threads, DummyMainQuit(t) PROVE TerminateInv'
  BY <1>18 DEF DummyMainQuit
<1>19. ASSUME NEW t \in Threads, MainQuit(t) PROVE TerminateInv'
  BY <1>19 DEF MainQuit
<1>20. ASSUME NEW t \in Threads, QuitStopped(t) PROVE TerminateInv'
  BY <1>20 DEF QuitStopped
<1>21. ASSUME NEW t \in Threads, QuitRestarting(t) PROVE TerminateInv'
  BY <1>21 DEF QuitRestarting
<1>22. ASSUME NEW t \in Threads, QuitStart(t) PROVE TerminateInv'
  BY <1>22 DEF QuitStart, CreateThread
<1>23. ASSUME NEW t \in Threads, QuitRunning(t) PROVE TerminateInv'
  BY <1>23 DEF QuitRunning
<1>24. ASSUME NEW t \in Threads, QuitUnlock(t) PROVE TerminateInv'
  BY <1>24 DEF QuitUnlock
<1>25. ASSUME NEW a \in Actors, BarrierWait(a) PROVE TerminateInv'
  BY <1>25 DEF BarrierWait, Asleep, Beyond
<1>26. ASSUME NEW a \in Actors, BarrierSpurious(a) PROVE TerminateInv'
  BY <1>26 DEF BarrierSpurious, Beyond
<1>27. CASE UNCHANGED vars
  BY <1>27 DEF vars
<1> QED
  BY <1>1, <1>2, <1>3, <1>4, <1>5, <1>6, <1>7, <1>8, <1>9, <1>10, <1>11,
    <1>12, <1>13, <1>14, <1>15, <1>16, <1>17, <1>18, <1>19, <1>20, <1>21,
    <1>22, <1>23, <1>24, <1>25, <1>26, <1>27 DEF Next, CallBegins, CallStep,
    ThreadStep

(* Only a cancelled thread ends. *)
LEMMA CancelledInductive ==
  ASSUME IInv, CancelledInv, ~SetupMayFail, ~MainMayReturn,
         [Next]_vars
  PROVE  CancelledInv'
<1> USE ConstantsAssumption DEF Goto, Actors, threadOnly, IInv, TypeOK,
  AccessMutexInv, ThreadInv, Working, Launching, CancelledInv
<1>1. ASSUME NEW c \in Callers, SubscribeMore(c) PROVE CancelledInv'
  BY <1>1 DEF SubscribeMore, MaySubscribe
<1>2. ASSUME NEW c \in Callers, SubscribeFirst(c) PROVE CancelledInv'
  BY <1>2 DEF SubscribeFirst, MaySubscribe
<1>3. ASSUME NEW c \in Callers, UnsubscribeMore(c) PROVE CancelledInv'
  BY <1>3 DEF UnsubscribeMore
<1>4. ASSUME NEW c \in Callers, UnsubscribeLast(c) PROVE CancelledInv'
  BY <1>4 DEF UnsubscribeLast
<1>5. ASSUME NEW c \in Callers, Terminate(c) PROVE CancelledInv'
  BY <1>5 DEF Terminate
<1>6. ASSUME NEW c \in Callers, SetupStart(c) PROVE CancelledInv'
  BY <1>6 DEF SetupStart, CreateThread
<1>7. ASSUME NEW c \in Callers, SetupRestart(c) PROVE CancelledInv'
  BY <1>7 DEF SetupRestart
<1>8. ASSUME NEW c \in Callers, SetupRunning(c) PROVE CancelledInv'
  BY <1>8 DEF SetupRunning
<1>9. ASSUME NEW c \in Callers, SubscribeCount(c) PROVE CancelledInv'
  BY <1>9 DEF SubscribeCount
<1>10. ASSUME NEW c \in Callers, Shutdown(c) PROVE CancelledInv'
  BY <1>10 DEF Shutdown, StopThread
<1>11. ASSUME NEW c \in Callers, UnsubscribeCount(c) PROVE CancelledInv'
  BY <1>11 DEF UnsubscribeCount
<1>12. ASSUME NEW c \in Callers, TerminateReset(c) PROVE CancelledInv'
  BY <1>12 DEF TerminateReset
<1>13. ASSUME NEW c \in Callers, TerminatePoll(c) PROVE CancelledInv'
  BY <1>13 DEF TerminatePoll
<1>14. ASSUME NEW t \in Threads, DummyMain(t) PROVE CancelledInv'
  BY <1>14 DEF DummyMain
<1>15. ASSUME NEW t \in Threads, MainSetup(t, TRUE) PROVE CancelledInv'
  BY <1>15 DEF MainSetup
<1>16. ASSUME NEW t \in Threads, CancellationPoint(t) PROVE CancelledInv'
  BY <1>16 DEF CancellationPoint
<1>17. ASSUME NEW t \in Threads, DummyMainQuit(t) PROVE CancelledInv'
  BY <1>17 DEF DummyMainQuit
<1>18. ASSUME NEW t \in Threads, MainQuit(t) PROVE CancelledInv'
  BY <1>18 DEF MainQuit
<1>19. ASSUME NEW t \in Threads, QuitStopped(t) PROVE CancelledInv'
  BY <1>19 DEF QuitStopped
<1>20. ASSUME NEW t \in Threads, QuitRestarting(t) PROVE CancelledInv'
  BY <1>20 DEF QuitRestarting
<1>21. ASSUME NEW t \in Threads, QuitStart(t) PROVE CancelledInv'
  BY <1>21 DEF QuitStart, CreateThread
<1>22. ASSUME NEW t \in Threads, QuitRunning(t) PROVE CancelledInv'
  BY <1>22 DEF QuitRunning
<1>23. ASSUME NEW t \in Threads, QuitUnlock(t) PROVE CancelledInv'
  BY <1>23 DEF QuitUnlock
<1>24. ASSUME NEW a \in Actors, BarrierWait(a) PROVE CancelledInv'
  BY <1>24 DEF BarrierWait, Asleep, Beyond
<1>25. ASSUME NEW a \in Actors, BarrierSpurious(a) PROVE CancelledInv'
  BY <1>25 DEF BarrierSpurious, Beyond
<1>26. CASE UNCHANGED vars
  BY <1>26 DEF vars
<1> QED
  BY <1>1, <1>2, <1>3, <1>4, <1>5, <1>6, <1>7, <1>8, <1>9, <1>10, <1>11,
    <1>12, <1>13, <1>14, <1>15, <1>16, <1>17, <1>18, <1>19, <1>20, <1>21,
    <1>22, <1>23, <1>24, <1>25, <1>26 DEF Next, CallBegins, CallStep,
    ThreadStep

(* A driver that is wanted keeps its thread, or the promise of one. *)
LEMMA WantedInductive ==
  ASSUME IInv, CancelledInv, WantedInv, ~SetupMayFail, ~MainMayReturn,
         [Next]_vars
  PROVE  WantedInv'
<1> USE ConstantsAssumption DEF Goto, Actors, threadOnly, IInv, TypeOK,
  SubscriptionMutexInv, AccessMutexInv, CountInv, ThreadInv, Working,
  Launching, CancelledInv, WantedInv, GivingUp, Relaunching
<1>1. ASSUME NEW c \in Callers, SubscribeMore(c) PROVE WantedInv'
  BY <1>1 DEF SubscribeMore, MaySubscribe
<1>2. ASSUME NEW c \in Callers, SubscribeFirst(c) PROVE WantedInv'
  BY <1>2 DEF SubscribeFirst, MaySubscribe
<1>3. ASSUME NEW c \in Callers, UnsubscribeMore(c) PROVE WantedInv'
  BY <1>3 DEF UnsubscribeMore
<1>4. ASSUME NEW c \in Callers, UnsubscribeLast(c) PROVE WantedInv'
  BY <1>4 DEF UnsubscribeLast
<1>5. ASSUME NEW c \in Callers, Terminate(c) PROVE WantedInv'
  BY <1>5 DEF Terminate
<1>6. ASSUME NEW c \in Callers, SetupStart(c) PROVE WantedInv'
  BY <1>6 DEF SetupStart, CreateThread
<1>7. ASSUME NEW c \in Callers, SetupRestart(c) PROVE WantedInv'
  BY <1>7 DEF SetupRestart
<1>8. ASSUME NEW c \in Callers, SetupRunning(c) PROVE WantedInv'
  BY <1>8 DEF SetupRunning
<1>9. ASSUME NEW c \in Callers, SubscribeCount(c) PROVE WantedInv'
  BY <1>9 DEF SubscribeCount
<1>10. ASSUME NEW c \in Callers, Shutdown(c) PROVE WantedInv'
  BY <1>10 DEF Shutdown, StopThread
<1>11. ASSUME NEW c \in Callers, UnsubscribeCount(c) PROVE WantedInv'
  BY <1>11 DEF UnsubscribeCount
<1>12. ASSUME NEW c \in Callers, TerminateReset(c) PROVE WantedInv'
  BY <1>12 DEF TerminateReset
<1>13. ASSUME NEW c \in Callers, TerminatePoll(c) PROVE WantedInv'
  BY <1>13 DEF TerminatePoll
<1>14. ASSUME NEW t \in Threads, DummyMain(t) PROVE WantedInv'
  BY <1>14 DEF DummyMain
<1>15. ASSUME NEW t \in Threads, MainSetup(t, TRUE) PROVE WantedInv'
  BY <1>15 DEF MainSetup
<1>16. ASSUME NEW t \in Threads, CancellationPoint(t) PROVE WantedInv'
  BY <1>16 DEF CancellationPoint
<1>17. ASSUME NEW t \in Threads, DummyMainQuit(t) PROVE WantedInv'
  BY <1>17 DEF DummyMainQuit
<1>18. ASSUME NEW t \in Threads, MainQuit(t) PROVE WantedInv'
  BY <1>18 DEF MainQuit
<1>19. ASSUME NEW t \in Threads, QuitStopped(t) PROVE WantedInv'
  BY <1>19 DEF QuitStopped
<1>20. ASSUME NEW t \in Threads, QuitRestarting(t) PROVE WantedInv'
  BY <1>20 DEF QuitRestarting
<1>21. ASSUME NEW t \in Threads, QuitStart(t) PROVE WantedInv'
  BY <1>21 DEF QuitStart, CreateThread
<1>22. ASSUME NEW t \in Threads, QuitRunning(t) PROVE WantedInv'
  BY <1>22 DEF QuitRunning
<1>23. ASSUME NEW t \in Threads, QuitUnlock(t) PROVE WantedInv'
  BY <1>23 DEF QuitUnlock
<1>24. ASSUME NEW a \in Actors, BarrierWait(a) PROVE WantedInv'
  BY <1>24 DEF BarrierWait, Asleep, Beyond
<1>25. ASSUME NEW a \in Actors, BarrierSpurious(a) PROVE WantedInv'
  BY <1>25 DEF BarrierSpurious, Beyond
<1>26. CASE UNCHANGED vars
  BY <1>26 DEF vars
<1> QED
  BY <1>1, <1>2, <1>3, <1>4, <1>5, <1>6, <1>7, <1>8, <1>9, <1>10, <1>11,
    <1>12, <1>13, <1>14, <1>15, <1>16, <1>17, <1>18, <1>19, <1>20, <1>21,
    <1>22, <1>23, <1>24, <1>25, <1>26 DEF Next, CallBegins, CallStep,
    ThreadStep

(* Every step is a documented transition or none. *)
LEMMA LifecycleStep ==
  ASSUME IInv, CancelledInv, ~SetupMayFail, ~MainMayReturn,
         [Next]_vars
  PROVE  [Lifecycle!Next]_Shown
<1> USE ConstantsAssumption DEF Goto, Actors, threadOnly, IInv, TypeOK,
  AccessMutexInv, ThreadInv, Working, Launching, CancelledInv, Shown,
  Relaunching, Lifecycle!Next, Lifecycle!StartFromStopped,
  Lifecycle!StopRunning, Lifecycle!QuitStopping, Lifecycle!RestartStopping,
  Lifecycle!Relaunch, Lifecycle!StopRestarting
<1>1. ASSUME NEW c \in Callers, SubscribeMore(c) PROVE [Lifecycle!Next]_Shown
  BY <1>1 DEF SubscribeMore, MaySubscribe
<1>2. ASSUME NEW c \in Callers, SubscribeFirst(c) PROVE [Lifecycle!Next]_Shown
  BY <1>2 DEF SubscribeFirst, MaySubscribe
<1>3. ASSUME NEW c \in Callers, UnsubscribeMore(c)
      PROVE  [Lifecycle!Next]_Shown
  BY <1>3 DEF UnsubscribeMore
<1>4. ASSUME NEW c \in Callers, UnsubscribeLast(c)
      PROVE  [Lifecycle!Next]_Shown
  BY <1>4 DEF UnsubscribeLast
<1>5. ASSUME NEW c \in Callers, Terminate(c) PROVE [Lifecycle!Next]_Shown
  BY <1>5 DEF Terminate
<1>6. ASSUME NEW c \in Callers, SetupStart(c) PROVE [Lifecycle!Next]_Shown
  BY <1>6 DEF SetupStart, CreateThread
<1>7. ASSUME NEW c \in Callers, SetupRestart(c) PROVE [Lifecycle!Next]_Shown
  BY <1>7 DEF SetupRestart
<1>8. ASSUME NEW c \in Callers, SetupRunning(c) PROVE [Lifecycle!Next]_Shown
  BY <1>8 DEF SetupRunning
<1>9. ASSUME NEW c \in Callers, SubscribeCount(c) PROVE [Lifecycle!Next]_Shown
  BY <1>9 DEF SubscribeCount
<1>10. ASSUME NEW c \in Callers, Shutdown(c) PROVE [Lifecycle!Next]_Shown
  BY <1>10 DEF Shutdown, StopThread
<1>11. ASSUME NEW c \in Callers, UnsubscribeCount(c)
       PROVE  [Lifecycle!Next]_Shown
  BY <1>11 DEF UnsubscribeCount
<1>12. ASSUME NEW c \in Callers, TerminateReset(c)
       PROVE  [Lifecycle!Next]_Shown
  BY <1>12 DEF TerminateReset
<1>13. ASSUME NEW c \in Callers, TerminatePoll(c) PROVE [Lifecycle!Next]_Shown
  BY <1>13 DEF TerminatePoll
<1>14. ASSUME NEW t \in Threads, DummyMain(t) PROVE [Lifecycle!Next]_Shown
  BY <1>14 DEF DummyMain
<1>15. ASSUME NEW t \in Threads, MainSetup(t, TRUE)
       PROVE  [Lifecycle!Next]_Shown
  BY <1>15 DEF MainSetup
<1>16. ASSUME NEW t \in Threads, CancellationPoint(t)
       PROVE  [Lifecycle!Next]_Shown
  BY <1>16 DEF CancellationPoint
<1>17. ASSUME NEW t \in Threads, DummyMainQuit(t) PROVE [Lifecycle!Next]_Shown
  BY <1>17 DEF DummyMainQuit
<1>18. ASSUME NEW t \in Threads, MainQuit(t) PROVE [Lifecycle!Next]_Shown
  BY <1>18 DEF MainQuit
<1>19. ASSUME NEW t \in Threads, QuitStopped(t) PROVE [Lifecycle!Next]_Shown
  BY <1>19 DEF QuitStopped
<1>20. ASSUME NEW t \in Threads, QuitRestarting(t)
       PROVE  [Lifecycle!Next]_Shown
  BY <1>20 DEF QuitRestarting
<1>21. ASSUME NEW t \in Threads, QuitStart(t) PROVE [Lifecycle!Next]_Shown
  BY <1>21 DEF QuitStart, CreateThread
<1>22. ASSUME NEW t \in Threads, QuitRunning(t) PROVE [Lifecycle!Next]_Shown
  BY <1>22 DEF QuitRunning
<1>23. ASSUME NEW t \in Threads, QuitUnlock(t) PROVE [Lifecycle!Next]_Shown
  BY <1>23 DEF QuitUnlock
<1>24. ASSUME NEW a \in Actors, BarrierWait(a) PROVE [Lifecycle!Next]_Shown
  BY <1>24 DEF BarrierWait, Asleep, Beyond
<1>25. ASSUME NEW a \in Actors, BarrierSpurious(a)
       PROVE  [Lifecycle!Next]_Shown
  BY <1>25 DEF BarrierSpurious, Beyond
<1>26. CASE UNCHANGED vars
  BY <1>26 DEF vars
<1> QED
  BY <1>1, <1>2, <1>3, <1>4, <1>5, <1>6, <1>7, <1>8, <1>9, <1>10, <1>11,
    <1>12, <1>13, <1>14, <1>15, <1>16, <1>17, <1>18, <1>19, <1>20, <1>21,
    <1>22, <1>23, <1>24, <1>25, <1>26 DEF Next, CallBegins, CallStep,
    ThreadStep

(* Terminate returns only when no code of the driver runs or will run,     *)
(* although it polls ThreadState without a lock while DummyMainQuit passes *)
(* through STOPPED on the way to a restart: by the time of the poll nobody *)
(* wants a restart any more.                                               *)
THEOREM TerminateWaitsAlways ==
  ASSUME ~LateSubscribers PROVE Spec => []TerminateWaits
<1>1. Init => UnwantedInv /\ TerminateInv
  BY ConstantsAssumption DEF Init, Actors, UnwantedInv, TerminateInv, Starting,
    GivingUp, Relaunching, Terminating, Deleted
<1>2. IInv /\ (UnwantedInv /\ TerminateInv) /\ [Next]_vars
        => (UnwantedInv /\ TerminateInv)'
  BY UnwantedInductive, TerminationInductive
<1>3. IInv /\ UnwantedInv /\ TerminateInv => TerminateWaits
  BY ConstantsAssumption DEF TerminateWaits, IInv, TypeOK, ThreadInv, Launching,
    Actors, UnwantedInv, TerminateInv, Terminating, Deleted, Starting,
    Relaunching
<1> QED BY <1>1, <1>2, <1>3, Invariance, PTL DEF Spec

(* When MainSetup succeeds and Main runs until cancelled, the thread is    *)
(* there, or promised, exactly while somebody is subscribed.               *)
THEOREM SubscribedIsServedAlways ==
  ASSUME ~SetupMayFail, ~MainMayReturn PROVE Spec => []SubscribedIsServed
<1> DEFINE SInv == UnwantedInv /\ CancelledInv /\ WantedInv
<1>1. Init => SInv
  BY ConstantsAssumption DEF Init, Actors, UnwantedInv, CancelledInv, WantedInv,
    Starting, GivingUp, Relaunching, Launching
<1>2. IInv /\ SInv /\ [Next]_vars => SInv'
  BY UnwantedInductive, CancelledInductive, WantedInductive
<1>3. IInv /\ SInv => SubscribedIsServed
  BY ConstantsAssumption DEF SubscribedIsServed, IInv, TypeOK, Actors,
    SubscriptionMutexInv, AccessMutexInv, UnwantedInv, WantedInv, Starting,
    GivingUp, Relaunching, Launching
<1> HIDE DEF SInv
<1> QED BY <1>1, <1>2, <1>3, Invariance, PTL DEF Spec

(* ThreadedDriver implements the lifecycle its class comment documents.    *)
THEOREM LifecycleImplemented ==
  ASSUME ~SetupMayFail, ~MainMayReturn PROVE Spec => DocumentedLifecycle
<1>1. Init => CancelledInv /\ Lifecycle!Init
  BY ConstantsAssumption DEF Init, Actors, CancelledInv, Launching,
    Lifecycle!Init, Shown, Relaunching
<1>2. IInv /\ CancelledInv /\ [Next]_vars => CancelledInv'
  BY CancelledInductive
<1>3. IInv /\ CancelledInv /\ [Next]_vars => [Lifecycle!Next]_Shown
  BY LifecycleStep
<1> QED
  BY <1>1, <1>2, <1>3, Invariance, PTL DEF Spec, DocumentedLifecycle,
    Lifecycle!Spec
=============================================================================
