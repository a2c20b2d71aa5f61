# Player: a TLA+ model of the server core

Player is a robot server. Drivers, most of them with a thread of their own,
talk to hardware and publish data; clients connect over TCP, subscribe to
devices, send commands and make requests. What holds this together is
`libplayercore`: message queues, devices with lists of subscribed queues, and
drivers whose threads are started by the first subscription and cancelled with
the last one. `libplayertcp` connects it to clients and to other servers, `libplayerc` is the
client's end of a connection. This directory models that core, the server's
table of connections and the descriptors under it, and the client library with
its half of the protocol; it checks them with TLC, and proves with TLAPS what
is safe about queues, driver threads, device lists, requests, connections and
watched descriptors for every number of threads, messages and clients.

## Inventory

| component | state | operations | talks to |
|---|---|---|---|
| `MessageQueue` (message.cc) | list of messages, filter, replacement rules, pull flags, drop flag; a lock, and a second mutex with a condition variable | Push, PushFront, Pop, Wait, DataAvailable, SetFilter, ClearFilter, AddReplaceRule, SetReplace, SetPull, SetDataRequested | pushed onto by every thread, popped by its owner |
| `Driver` (driver.cc) | subscription count, InQueue, two mutexes | Subscribe, Unsubscribe, Terminate, Publish, ProcessMessages | called by Device, publishes to the device's queues |
| `ThreadedDriver` (threaded_driver.cc) | ThreadState, driverthread, SetupSuccessful, SetupBarrier | Setup, Shutdown, StartThread, StopThread, DummyMain, DummyMainQuit, Terminate | its thread and the threads of its subscribers |
| `Device` (device.cc) | growing array of queues, a mutex | Subscribe, Unsubscribe, PutMsg, Request, TimedRequest | driver, queues |
| `DeviceTable` (devicetable.cc) | list of devices | AddDevice, GetDevice, UpdateDevices, Start/StopAlwaysonDrivers | devices, drivers |
| `PlayerTCP` (playertcp.cc) | array of clients, each with a queue, buffers and the devices it subscribed to | AddClient, Read, ReadClient, ParseBuffer, HandlePlayerMessage, Write, WriteClient, Close, DeleteClients | devices, a client's queue, sockets |
| `PlayerUDP` (playerudp.cc) | the same over datagrams | the same | the same |
| `RemoteDriver`, `TCPRemoteDriver` | connection to another server | Setup, Subscribe and Unsubscribe hooks, ProcessMessage | PlayerTCP's table of clients |
| client library (libplayerc/client.c) | socket, ring of received packets, data mode, flags of the round of data asked for, retry limit | create, connect, disconnect, disconnect_retry, request, peek, read, read_nonblock, subscribe, unsubscribe, datamode, requestdata | the server |
| `FileWatcher` (filewatcher.cc) | array of watched descriptors, each with or without a queue, a mutex | Wait, AddFileWatch, RemoveFileWatch | the server's loop, queues of drivers |
| configuration, properties, driver table, plugins, interface tables, encoding, discovery | - | start-up, lookup, conversion | - |

What is hard here:

* **Two locks for one fact.** A queue's contents and its condition variable,
  the device's list and the driver's count, the list and the loop of Publish
  that walks it are each guarded by different mutexes.
* **Cancellation and restart.** A driver thread is cancelled asynchronously and
  detached; a subscription may arrive while it is still cleaning up.
* **Order and limits.** Filters, replacement, pull mode and the length limit
  act on one list; replies must survive all of them.
* **Late answers.** A request that has timed out still has a reply under way.
* **Re-entrance.** The loops over the server's table of connections call
  drivers, which add and mark entries of the table they are in.
* **Nesting.** A call of the client library that finds its connection broken
  reconnects, which makes requests of its own, inside the call.
* **Two ends of one fact.** Data mode, subscription and the round of data asked
  for are kept by the client and by its queue on the server, and connections
  break between the one and the other.
* **Numbers that are used again.** A descriptor is closed by one thread while
  `select` waits for it in another, and the next open gets its number.
* **Undoing.** Subscriptions are recorded in three places (client, device,
  driver), each of which may fail.

`PROJECT.json` lists these hazards one by one, each at its line, with the
property that would catch it or a note why there is none yet. What makes each
component correct:

* queue: replies are never lost, messages of one signature keep their order,
  the newest value survives replacement, a sleeping owner is signalled;
* driver: at most one thread; MainSetup, Main and MainQuit bracketed; no
  cancellation of a thread that is gone; every subscription served; Terminate
  returns, and not too early;
* device: the three records agree, Shutdown comes with the last subscription
  and only then, Publish reaches every queue subscribed throughout and none that
  had no subscription since it came to the slot;
* requests: they come back, with the right reply;
* connections: outside the loops the table holds the open sockets and nothing
  else, a connection whose peer or whose user has gone is closed, its owner is
  told through a flag that still exists, and every request gets one reply;
* client library: a round of data that was asked for is ended, and not empty;
  data is dispatched in order; a reply meets its request; between calls client
  and server believe in the same mode and subscription;
* file watcher: exactly the open descriptors are watched, the list is bounded,
  whoever connects is accepted.

## Modules

**MessageQueue** has no state: a queue is a record (`QueueType`) and each
function of message.cc is an operator from queue to queue. `Push` is
CheckReplace, the overflow test (`Overflows`), the removal of the last message
of the same signature and PushBack; `PopIndex`/`PopAt` are the scan of Pop with
its filter, its test for pull mode and its rule that a pending response opens
the way; `SynchDue`, `SynchMessage`, `AfterSynch` are the SYNCH that ends a
frame. A message is a type, a subtype, an address and a number; payloads,
timestamps and reference counts are left out.

**QueueThreads** shares one queue between producers and the thread that owns
it. A critical section is one step, and what the code does after `Unlock()` is
another: `PushMsg` then `Notify`, `WaitCheck` then `WaitBlock`. `sent`, `got`,
`replaced` and `since` are histories that the properties refer to. Pull mode is
not used here: it is a matter between a client's queue and the client, and
ClientLibrary has both.

**ThreadedDriver** models `Subscribe`, `Unsubscribe` and `Terminate` of
driver.cc with the thread of threaded_driver.cc. Callers hold
`subscriptionMutex` while Setup or Shutdown takes `accessMutex`. `pc` gives
every caller and every thread its place; the two mutexes, the handle
`driverthread`, the flag `SetupSuccessful`, pending cancellations and the
barrier's counter are variables. The barrier's `cond_wait` is not in a loop, so
`BarrierSpurious` may let the sleeper go on. A thread acts on a cancellation
only inside MainSetup or Main, at `CancellationPoint`: DummyMain disables
cancellation and `TestCancel` enables it for a moment. `held` makes callers give up only what
they have.

**DriverLifecycle** is the abstract specification: the four states and the
transitions the comment of class ThreadedDriver (driver.h) documents, taken
from the comment and hence a promise, not a model. ThreadedDriver implements it
(`DocumentedLifecycle`) with the passage through STOPPED that DummyMainQuit
makes under `accessMutex` on its way to a restart seen as RESTARTING.

**DeviceSubscription** composes the device's list of queues, the driver's
count, the record a client has in PlayerTCP, the alwayson subscription of
DeviceTable, whose queue is null, and the loop of Publish. Subscribe holds the
device's mutex all the way, Publish the driver's, so what excludes two Subscribes
does not exclude a Publish, and both are cut where the other can see it:
Subscribe doubles `len_queues`, moves the list (realloc), clears the new half
(memset), inserts the queue and ends with the driver's result; Publish compares
its index with `len_queues`, tests the slot, reads it again, and pushes. A load
after the list has moved, or from slots not yet cleared, may give what was there,
null, or a wild pointer (`Memory`); a null or wild pointer at the second read ends
the program (`phase` "crashed"). Unsubscribe asks the driver first and then takes
the lock to clear the slot. When it fails, a client that wanted to close the
device keeps its record, but PlayerTCP::Close (and PlayerUDP's, and
StopAlwaysonDrivers) drops it: `leaving` says who is in Close or has gone, `left`
counts the slots that have lost their record. The results of the hooks, of Setup
and of Shutdown are CONSTANTS, because the code treats 0, 1 and negative results
differently in three places.

**DeviceRequest** is `TimedRequest` on the queue of MessageQueue: the request,
the filter, the loop in its two forms (threaded: Wait and Pop; otherwise
Update of the other drivers and Pop), its three ways out, the server driver
that answers, data that arrives meanwhile, and subscriptions that come and go.
Time is counted in turns of the loop.

**ClientTable** is PlayerTCP's array `clients` with the loop of server.cc
around it: `AcceptClient`; Read with its poll, ReadClient, ParseBuffer and
HandlePlayerMessage; Write; and after each of them DeleteClients, whose loop
calls Close (`Close`) before it compacts the array (`DeleteEnd`). Drivers that
use a device of another server keep their connection in the same array.
"threaded" calls AddClient and DeleteClient from its own thread, under
`clients_mutex`; "inhibitor" is a driver without a thread (shell/inhibitor.cc),
so its Setup and Shutdown, and with them AddClient and DeleteClient, run in the
server thread in the middle of its loops over the array. Entries with nothing
to do are passed over: a step of a loop goes to the next entry that has an
event (`Ready`), something to write (`Pending`) or the mark (`Doomed`), each of
them computed anew from the table as it then is. `revents` of an entry in
memory that realloc has added is any value.

**ClientLibrary** composes one client object of libplayerc with the queue of
MessageQueue that the server keeps for it and with the handlers of PlayerTCP for
its requests. The client is sequential but nested: `stack` is its C call stack,
with frames for the program's call, playerc_client_request,
playerc_client_disconnect_retry and playerc_client_connect, and `ret` the value
being returned. So a read may ask for data, find the connection gone while it
waits for the reply (`HangUp`), reconnect, subscribe again and lose that
connection too, up to `retry_limit` times. `link` distinguishes an end of file
(poll reports something to read, recv returns 0) from a reset (poll reports
POLLHUP), because the code reconnects only after the second. On the server a
request for data pushes its reply and sets data_requested in two critical
sections (`HandleRequest`, `HandleRest`), and a subscription is in force before
its reply is queued. `upset` records what went wrong in a behaviour (a late
reply, an overflow of the ring, a refusal, a second session, a change of mode in
mid-round); the properties say which of these they tolerate. `Init` is a fresh
client, or one that has connected and subscribed.

**FileWatcher** is Wait of filewatcher.cc in its three parts (`WaitBegin`,
`SelectReturns` or `SelectFails`, `WaitMatch`) in the server's loop, and the code that
opens and closes what it watches: Accept, Read and Write of PlayerTCP; Read and
Write of PlayerUDP, whose clients all have the listener's descriptor; and, in a
thread of its own, the driver tcpstream.cc, the one that connects, watches and
closes a socket over and over. A descriptor is a number, an open takes the
lowest free one, and `file` says what the number now means, so that a number
kept too long means something else. `RemoveFileWatches` is RemoveFileWatch
called in a loop over the clients that are closed in one step. `stray` records who closed a file that was
not his own.

**MCQueue, MCDriver, MCDevice, MCRequest** give the sets of headers, rules,
calls and results that the configurations use; the other modules need none.
**ThreadedDriverProofs**, **QueueThreadsProofs**, **DeviceSubscriptionProofs**,
**DeviceRequestProofs**, **ClientTableProofs**, **ClientLibraryProofs** and
**FileWatcherProofs** hold the theorems, and **ListFacts** the lemmas about
numbers and lists that several of them need.

## Runs

| run | what it shows | instance |
|---|---|---|
| queue | `RepliesNeverLost`, `SignatureOrder`, `LatestValueKept`, `DataWithinMaxlen`, `SleeperIsWoken`, `TimedWaitDrains` | two producers, three kinds of message, a filter, two rules, replacement on and off, waits with a timeout, Maxlen 1, 3 messages |
| driver_threads | `TypeOK`, `OneThread`, `MainBracketed`, `CancelTargetsLiveThread`, `PromiseHasThread`, `BarrierAssert`, `TerminateWaits` | 3 callers with 2 subscriptions each, 3 places for threads, failing MainSetup, returning Main, spurious wakeups |
| driver_service | `SubscribedIsServed`, `DocumentedLifecycle`, `ServedEventually`, `TerminateReturns` | 2 callers, one of which terminates; MainSetup succeeds and Main runs until cancelled |
| device_lists | `CountMatchesSlots`, `ShutdownOnlyByLast`, `ShutdownByLast`, `PublishReachesSteady`, `NothingPushedToStrangers` | 2 clients with 2 subscriptions each, alike (`SYMMETRY`), which may close the device or go away, and an alwayson one; failing hooks and Setup; deadlock is not checked, because Publish may end the program |
| client_table | `TableSound`, `KillFlagAgrees`, `OnlyPolledAreRead`, `CountMatchesTable`, `OneReplyEach`, `UselessIsClosed` | 3 connections ever made, 2 clients at a time with 2 subscriptions each, one client at a time using the inhibitor; any peer may hang up at any time |
| request | `RepliesMatch`, `RequestReturns` | threaded and unthreaded calls, with and without a timeout (not unthreaded without) |
| client_read | `TypeOK`, `NoVainWait`, `RoundHasData`, `DataInOrder`, `OneOutstanding`, `SessionAgrees`, `ReadReturns` | 3 calls, 2 data messages, 2 faults (broken connections, late replies, refusals), retry_limit 1, a ring of 2, Maxlen 1, both modes |
| file_watcher | `WatchesMatchFiles`, `WatchListBounded`, `PeersAccepted` | 4 descriptors, a TCP client, a UDP client, a driver that reconnects without bound |

Four runs show a promise of the code's own comments broken, each with a short
counterexample; `PROJECT.json` quotes the sentences under "findings".

| run | property | what happens |
|---|---|---|
| queue_lost_wakeup | `NoSleepOverMessage` | Push and its signal fall between Wait's scan and its cond_wait; the owner sleeps over a message. Waits with a timeout recover (`TimedWaitDrains`). |
| table_shared | `TableSound` | two clients share a driver without a thread that uses a remote device; the one that opened it leaves, then the other is closed by DeleteClients, and the driver's Shutdown marks a connection the loop has already passed: it is compacted away without being closed or counted |
| client_reconnect | `NoVainWaitReconnected` | the connection breaks in the middle of a round; the library reconnects and keeps data_requested, so the next read asks for nothing and waits for a SYNCH the new server does not owe |
| udp_old_port | `UdpClientsHaveSocket` | a known UDP client announces itself again with an empty datagram, as a restarted one does; its old entry is closed with the descriptor that all UDP clients share |

### Bounds

`MaxMsgs` caps the messages ever made in a run; 3 with Maxlen 1 fill the queue,
overflow it or replace in it, and leave one message to overtake.
`MaxSubs` 2 lets one subscriber hold a device twice, so that "the first slot
with this queue" and "this subscriber's slot" differ, and makes the list of two
slots double while Publish walks it; the two clients are interchangeable, and the
run checks safety only, so symmetry is sound. Three places for threads allow an ending
thread, its successor and one spare: the proofs show that two are never working
at once. `MaxRequests`, `MaxData` and `MaxFlips` let a reply come late for two
requests in a row with data in between. `MaxConns` counts the connections ever
made, so 3 give two clients and a link, or a link that is closed and made again;
`MaxUsers` 2 puts clients before and behind the link in the table, `MaxSubs` 2
makes Close give up more than one subscription. `Sharing` is FALSE in
client_table because table_shared shows `TableSound` broken with it.

In client_read a round takes a request, its reply, data and a SYNCH, so 3 calls
give a round, a call in the middle of it that makes data queue up in the ring,
and a third that finds them; 2 faults break the connection a reconnection has
just made; a ring of 2 (512 in the code) and Maxlen 1 overflow with 2 data
messages. The instance has also been checked without liveness with 5 calls and
3 data messages. In file_watcher a TCP client
connects once, UDP clients and the driver's connections come and go for ever;
only the datagrams that wait to be read are bounded. Two of the four descriptors are
the listeners, two are left for the client and the driver's socket, so that they
contend for numbers and run out of them; 5 descriptors have been checked too.

CHECK_DEADLOCK is off where behaviours end: when the messages or the calls are
used up, or when Terminate has returned and nobody subscribes any more.

### Fairness

Only steps that a running thread takes by itself are fair. QueueThreads: a
thread inside Push finishes it, the owner keeps calling Pop and goes through
Wait, a timed cond_wait ends when its time is up; no signal and no spurious
wakeup is assumed. ThreadedDriver: each caller and each thread inside a call
goes on, mutexes are granted, MainSetup and MainQuit end, and a cancelled Main
comes to a cancellation point, which the documentation asks of every driver;
weak fairness is enough, and nobody is obliged to subscribe or unsubscribe. DeviceRequest: the
requester runs on, and a server driver with subscriptions processes its
messages. ClientTable: the server thread goes on round its loop (`WF_vars(Server)`);
nothing is asked of drivers, clients and other servers. ClientLibrary: a call
that can go on does, and the server reads, handles and writes
(`WF_vars(Library)`, `HandleRequest`, `HandleRest`, `WriteClient`); programs
need not call, drivers need not publish, nothing need break or heal.
FileWatcher: the server thread goes round its loop (`WF_vars(Server)`), and
select, which fails when the driver has just closed one of its descriptors, does
not meet that moment every time (`SF_vars(SelectReturns)`): the driver's close
follows its RemoveFileWatch at once, so select fails only if it was called
before the one and runs after the other.

## Proofs

### Driver threads

`ThreadedDriverProofs` proves, for any callers, any set of places for threads
and any bound, with or without failing MainSetup, returning Main and late
subscribers:

* `TypeCorrect`: `Spec => []TypeOK`
* `OneThreadAlways`: `Spec => []OneThread`
* `MainBracketedAlways`: `Spec => []MainBracketed`
* `CancelTargetsLiveThreadAlways`: `Spec => []CancelTargetsLiveThread`
* `PromiseHasThreadAlways`: `Spec => []PromiseHasThread`
* `BarrierAssertAlways`: `Spec => []BarrierAssert`

The assumptions are those of `ConstantsAssumption` in ThreadedDriver. None of
the properties is inductive. `OneThread`, for instance, holds because StartThread
makes a thread only in state STOPPED; that STOPPED means "no thread is working"
holds because only DummyMainQuit sets it, with the lock; and in between a
creator waits at the barrier with the state still STOPPED and a thread already
there. The invariant `IInv` says all of this:

* `SubscriptionMutexInv`, `AccessMutexInv`: who is inside a call holds the
  mutex of that call, and nobody else does;
* `CountInv`: whoever is shutting down for the last subscription has it, and
  the count is 1;
* `ThreadInv`: only the thread `driverthread` names works; in STOPPED it does so
  only while it is being launched, and in every other state it does;
* `CancelInv`: in STOPPING and RESTARTING that thread has been cancelled;
* `BarrierInv`: the barrier's value covers those yet to arrive;
* `OpenedInv`: the flag SetupSuccessful speaks about the working thread.

There is one lemma `<Action>Inductive` per action, one step per conjunct in it,
and `Inductive` puts them together; `Invariance` is `Spec => []IInv`. TLC has
checked `IInv` as an invariant of the instance of driver_threads.

The second half of the module goes on from `IInv` to what subscriptions and Terminate
mean for the thread:

* `TerminateWaitsAlways`: `Spec => []TerminateWaits`, if nobody subscribes once
  Terminate has begun (`~LateSubscribers`);
* `SubscribedIsServedAlways`: `Spec => []SubscribedIsServed`, if MainSetup
  succeeds and Main runs until it is cancelled;
* `LifecycleImplemented`: `Spec => DocumentedLifecycle`, under the same two
  assumptions: ThreadedDriver implements DriverLifecycle.

The assumptions are necessary: a failing MainSetup or a returning Main ends the
thread under its subscribers, and a late subscription starts it again under
Terminate. Terminate polls ThreadState without a lock, and DummyMainQuit passes
through STOPPED when it is about to start the thread anew. That the poll cannot
be deceived takes two invariants: `UnwantedInv` (without subscribers, and with
none on the way, nobody starts or restarts the thread) and `TerminateInv` (once
Terminate has begun no subscription is under way, when it polls the count is 0,
and when it has returned the state is STOPPED). For
the other two theorems `CancelledInv` says that only a cancelled thread ends,
and `WantedInv` that while somebody is subscribed, and nobody is in the middle
of giving the last subscription up, the thread is running or promised.

### Queues

`QueueThreadsProofs`, for any producers, headers, filters, rules, Maxlen and
number of messages, without further assumptions:

* `NoReplyIsLost`: `Spec => []RepliesNeverLost`
* `OrderIsKept`: `Spec => []SignatureOrder`
* `NewestIsKept`: `Spec => []LatestValueKept`
* `DataIsBounded`: `Spec => []DataWithinMaxlen`
* `SleeperIsNotMissed`: `Spec => []SleeperIsWoken`

`QueueInvariant` is `Spec => []IInv`. To what the properties say of the list
`IInv` adds that messages are numbered in the order of Push and that the queue
holds only older ones than the next (`AgeInv`), and that the queue's rules and its
flag Replace are among those the histories speak of (`SettingsInv`). The proof
rests on two facts. Rules, filters and Compare see a message's type, subtype and
address only, so they cannot tell two messages of one signature apart. And every
critical section appends a message, takes one out of the list, or leaves the list
alone (`RemoveEffect`, and lemmas of the same kind for Push): the scans of Push and Pop
choose a place, and no property depends on which, beyond the tests the place has
passed.

### Device lists

`DeviceSubscriptionProofs`, for any subscribers, any bound on their
subscriptions, a list of any length, and drivers that fail with negative numbers
(`SetupNeverPositive`):

* `PublishMissesNobody`: `Spec => []PublishReachesSteady`
* `PublishReachesNoStranger`: `Spec => []NothingPushedToStrangers`

and if the driver leaves the counting to driver.cc, its Shutdown succeeds and
nobody closes what he has not opened (`DriverCounts`):

* `CountAgreesWithList`: `Spec => []CountMatchesSlots`
* `LastOneShutsDown`: `Spec => []ShutdownByLast`
* `NobodyElseShutsDown`: `Spec => []ShutdownOnlyByLast`

Both conditions are needed, and the code enforces neither. A Setup that returns
1 is a failure for Device::Subscribe and a success for PlayerTCP; a stranger's
Unsubscribe, or a Shutdown that fails, moves the count and not the list. A hook
that refuses is within the conditions, with Close ignoring it: then the slot and
the driver's count stay, with each other, and the theorems count them in `left`.
`ListInvariant` shows `ListInv`: who is inside Subscribe holds the device's mutex
and, once inserted, has its slot in the list; Publish looks at no fewer slots
than there are; a queue is listed once per subscription, recorded or left, and
once more while its subscriber is inside Subscribe (`SlotsInv`); for every queue
that Publish owes its message there is a slot ahead of the loop that is not the
one a failing Subscribe would clear, and not one at which Publish has read
somebody else (`OwedInv`); and whoever is listed, or was when the list moved
away under the loop, is among those entitled to this slot (`EntitledInv`), from
which the second theorem follows. `CountInv` adds the driver's count, with those who are between the
driver's Unsubscribe and the removal of their slot, and the slot of a Subscribe
in progress, on their own sides of the sum.

### Requests

`DeviceRequestProofs` has `ReplyBelongsToRequest`: `Spec => []RepliesMatch`, for
any subtypes, kinds of call and numbers of requests and losses. A reply is
somewhere exactly once: in the server's inbox, on the requester's queue, or
answered (`WayInv`, `AnswerInv`); as long as nothing was given up the only one
on its way is that of the request in progress (`PromptInv`). `RequestInvariant`
is the invariant.

### Connections

`ClientTableProofs`, for any number of connections, clients and subscriptions,
as long as no two clients use the driver without a thread at once (`~Sharing`):

* `TableIsSound`: `Spec => []TableSound`
* `KillFlagIsRight`: `Spec => []KillFlagAgrees`
* `ReadStopsInTime`: `Spec => []OnlyPolledAreRead`
* `EveryRequestIsAnswered`: `Spec => []OneReplyEach`

table_shared shows that `TableSound` needs the assumption. Outside the loops the
table is simple; the invariant has to say what it is like in the middle of them,
when Close calls a driver that adds and marks rows. `RowsInv`: every open socket
has one row, and a row without a socket is one that the loop of DeleteClients has
closed, of which num_deleted is the number. `ReadInv`: num_available counts the
events still ahead of Read, all of them among the rows that were polled.
`LinkInv`: the row of a driver's connection points to that driver's own flag.
And `InhibitorInv`: one client uses the inhibitor, and its connection stands
*behind* that client in the table, so that a mark which Close sets is
always ahead of the loop; this is what sharing breaks. `RequestInv` says where a
client's request is. That compaction keeps each remaining row once
is a matter of ranks: the k-th row that stays goes to the place given by the number of
rows that stay before it (`Rank`, with `RankIncreases` and `RankIsTaken` of ListFacts).

### The client library

`ClientLibraryProofs`, for any ring size, retry limit and Maxlen, any subset of
the data modes, and any number of calls, data messages, broken connections, late
replies and refusals, under `ConstantsAssumption` of ClientLibrary alone:

* `ClientTypes`: `Spec => []TypeOK`
* `DataKeepsOrder`: `Spec => []DataInOrder`
* `RepliesMatchRequests`: `Spec => []OneOutstanding`
* `SessionsAgree`: `Spec => []SessionAgrees`
* `RoundIsOwed`: `Spec => []NoVainWait`
* `RoundsAreNotEmpty`: `Spec => []RoundHasData`

`SessionAgrees` speaks of moments between calls, but a connection may be lost,
restored and lost again inside any call that waits, several calls deep. The
invariant (`ClientInvariant`) therefore has to say what client and server agree on
at every point of the stack:

* `BaseInv`. `StackInv`: each frame but the top one waits for the function of the
  next (`Waits`), the top one stands where that function runs or is
  returned to, and each suits the client's state (`Suits`: a frame that asks for
  data has data_requested unset; one that subscribes again works for a subscribed
  client). `LinkInv`: who finds out that the connection is gone, and where the
  connection is known to be closed. `CounterInv`, `QueueInv`: nothing is asked
  for before the first request, and a client's queue has no rule, filter or
  replacement.
* `OrderInv` holds unconditionally: ring, connection and queue each ascend, and
  each holds only older messages than the next.
* `SessionInv`. `OutstandingInv`: until a reply comes late, either nothing is
  under way, or the top of the stack awaits a reply and its one request is in one
  of three phases: on its way to the server (`Asked`), half done between two of
  the server's critical sections (`HalfDone`), or answered, with the only reply
  in the queue or on the connection (`Answered`). `ModeInv` and `SubInv`: client
  and server agree on mode and subscription except in the phases that
  `ModeUnderWay`, `SubUnderWay` and `Restoring` name, and there the side that
  knows has what was asked for (`ModeSettled`, `SubSettled`).
* `RoundInv`: in an undisturbed session a SYNCH is to come exactly if the client
  counts on one or is about to learn that it may (`RoundBegun`); there is one at
  most, with data before it (`RoundFlow`); and a round is open only in pull mode
  (`RoundMode`).

The conjuncts are proved in that order (`NextBase`, `NextOrder`, `NextSession`,
`NextRound`), each from the ones before. An action of the library is a change of
the stack (`ReturnEffect`, `GoEffect`, `AttemptEffect`, `CallEffect`) with a
change of the client or of the messages (`PushEffect`, `PopEffect` and others),
so the lemmas about those kinds of change carry most of the proof, and an action adds
which of them it is. `DataInOrder` compares every two data messages rather than
each with its predecessor in the filtered list, which would need induction.

### Descriptors

`FileWatcherProofs`, for any finite sets of at least two descriptors, of peers
and of ports:

* `ListIsWhatIsOpen`: `Spec => []WatchesMatchFiles`
* `ListIsBounded`: `Spec => []WatchListBounded`

Both speak of histories in which nobody has closed what was not his own, and so
does the invariant (`WatchInvariant`): `TypeOK`, and `Orderly` while `stray` is
empty. `SocketInv` and `ClientInv` say that the server's tables and the
descriptors name each other, `StreamInv` that the driver's socket is its own
from socket() until it is no longer connected, and `WatchInv` that the list
agrees (`Agree`) with the descriptors that should be watched, which AddFileWatch
and RemoveFileWatch preserve: three lemmas about lists, without the system. The
bound follows because AddFileWatch makes the list longer only when every entry
is in use, and entries in use have different descriptors.

### How the proofs are made

Each `IInv` was checked with TLC on the instance of its run before it was proved.
The theorems have the form `Spec => []P`, one lemma per action, with a lemma for
each operator (what AddFileWatch, Compacted, Push, Marked return) that the
actions share. Where an argument needs the first entry a scan finds, it takes
the least element of a set of places (`LeastElement` of ListFacts, from the
well-foundedness of the naturals) instead of induction over the list.

### Only model-checked

* Liveness (`ServedEventually`, `TerminateReturns`, `TimedWaitDrains`,
  `RequestReturns`, `UselessIsClosed`, `ReadReturns`, `PeersAccepted`): it needs
  fairness and ENABLED, which are out of the prover's reach.
* `CountMatchesTable`: it sums the table with a fold, and what a fold computes
  needs induction over data. What it says without the sum is part of the proved
  `InhibitorInv` and `LinkInv`: the count is the number of subscriptions of the
  one client that has any, and is 0 exactly when there is no connection object.

## Left out

* Memory: reference counts, the lifetime of messages and queues, a slot half
  written. That Publish may read a list that has moved is modelled; what happens
  to the program after it has followed a wild pointer is not.
* A driver that unsubscribes without minding the result, and later subscribes
  the same queue again: in DeviceSubscription who drops a record on an error does
  not come back.
* The order of a caller's record and the end of its call: a client records its
  subscription in the step that ends Subscribe, since only its own thread
  looks at the record.
* pthread_create always succeeds. Shutdown returns 0 in the runs: a Shutdown
  that fails leaves the queue in the list with the count down
  (`CountMatchesSlots`).
* Publish is not safe against Subscribe and Unsubscribe, whatever the comment
  at driver.cc:174 says of its lock ("because we're accessing our device's queue
  list": it is the driver's, and the list is changed under the device's). In
  DeviceSubscription an Unsubscribe, or a Subscribe that fails, between the test
  at driver.cc:189 and the read at :191 leads to the assertion of
  `QueuePointer::operator->` (`phase` "crashed" is reached), one after the read
  to a push onto a queue that has been given up, and a list enlarged meanwhile
  (device.cc:118-122) to either, or to a wild pointer. The properties say what
  holds in spite of it: `NothingPushedToStrangers` admits that one late message,
  `PublishReachesSteady` speaks of walks that read no list on the move.
* After PlayerTCP::Close has ignored a refusal, the driver stays counted and the
  queue listed with nobody to give them up; `CountMatchesSlots` and
  `ShutdownByLast` count such slots (`left`) as what they are, subscriptions.
* Three more facts the models show, but no run lists: with a client that closes a
  device it never opened (`Strangers` in DeviceSubscription)
  `ShutdownOnlyByLast` does not hold, because Device::Unsubscribe counts down
  before it looks for the queue; a TimedRequest whose driver lost its
  subscriptions returns with the filter of the requester's queue still set; and
  a subscription the driver refused is taken for granted by the client, because
  playerc_client_subscribe compares its own request with itself.
* The server terminates drivers when it no longer serves clients, so the runs
  of Terminate set `LateSubscribers` to FALSE. With it TRUE `TerminateWaits`
  and `TerminateReturns` do not hold.
* In ClientTable: the framing of partial messages, data, commands and requests
  to devices, which pass through without touching the table; requests to close
  what was never opened; the reuse of descriptors (FileWatcher has that);
  AddClient's last look at its entry after Unlock, whose assertion can fail in
  the driver's thread; the socket left open when the request to open a remote
  device is refused; the mutex of a remote device; and PlayerTCP's destructor.
* In ClientLibrary: bytes and partial packets, commands, callbacks, the list of
  devices, mclient, UDP as a transport.
* In FileWatcher: what connections carry; descriptors other than sockets; other
  drivers with watches. fcntl of an open socket does not fail.
* Encoding, configuration, plugins, properties and hardware drivers: see
  "components" in PROJECT.json. By lines they are nearly all of the repository
  (several hundred drivers, the generated and the vendored code): a driver's
  device protocol is a parser and a few formulas, written once for one device,
  with no state that others share but what the core keeps for it. The models
  cover the part with the concurrency: the files they map are the core, the two
  servers, the client library and the drivers that act on the core's tables.

## Plan

1. *ClientTable*, continued: the mutex of a remote device that two drivers use
   (lock order against `clients_mutex`), the refused subscription, PlayerTCP's
   destructor while driver threads run.
2. *DeviceTable*: the creation of remote devices by GetDevice under the lock.
3. PlayerUDP's handling of messages, as a second instance of PlayerTCP's.
