# TLA+ models of ENP

ENP is a mesh protocol for ESP32 nodes over ESP-NOW, in C, on a dual-core chip
under FreeRTOS. This directory holds TLA+ modules of the parts of
`src/main/core` and `src/main/link` in which tasks, queues, timeouts and
retries meet, the TLC configurations that check them, and proofs about them.
Paths below are relative to `src/main/`.

## The system

Four kinds of tasks run at the same time on two cores. Of the modules below only
the duplicate cache takes a lock:

| task | what it calls |
|---|---|
| maintenance (`core/enp_maintenance.c`, every 2 s) | discovery sends, neighbor expiry, `enp_reliability_tick()` |
| ESP-NOW worker (`link/enp_transport_espnow.c:650`) | received packets -> receive path -> dispatcher -> services; transmission results -> data path -> E5E |
| ESP-NOW TX task (`:778`) and driver callbacks (`:698`, `:748`) | the transmission queue; post to the worker's queue |
| repair task (`core/routing/enp_route_repair.c:51`) | requests -> route repair adapter |
| tick task and application (the build's `main`) | `enp_route_repair_adapter_tick()`; send, cancel, repair reports |

### Inventory

| component | state | operations | hard behaviour | what makes it correct |
|---|---|---|---|---|
| Reliability `core/reliability/enp_reliability.c` | 8 transaction slots with state, retry count, deadline, repair id | init, start, deinit, send, process_ack, begin_repair, repair_result, tick, cancel | wrapping clock; tick against ACK, cancel, repair; slot reuse | every transaction is tracked by one slot, submitted at most 1 + retries times, ends with one verdict; deadlines honoured; repairs suspend them |
| E5E `core/reliability/enp_e5e.c`, `enp_e5e_integration.c` | 8 correlations, two id counters | associate, release, transport result, repair result | asynchronous results, lost or repeated; two transactions to one destination | correlations and transactions stay in step; a result touches its own transaction only |
| Routing data path `core/routing/enp_routing_data_path.c` | callbacks; the route table | submit, forward, transport result | one failure breaks several routes | broken routes are invalidated and their repair is requested |
| ESP-NOW transport `link/enp_transport_espnow.c` | TX queue (8), event queue (8), one frame at the radio | send, TX task, driver callbacks, worker, init, deinit | full queues drop; callbacks against deinit | one frame at a time, each with one result that names it |
| Route repair coordinator `core/routing/enp_route_repair.c` | pending set (8), queue (8) | request, consume, release | requester against consumer | a destination is pending exactly while a request for it is queued or being consumed |
| Route repair adapter `core/routing/enp_route_repair_adapter.c` | active repair, waiting repairs (8), discovery | consume, RREQ, RREP, tick | three tasks; failures while starting | repairs are served one at a time, each waiting one gets its turn, a repaired route avoids the failed hop |
| Route discovery `core/routing/enp_route_discovery.c` | one state machine with retries | start, RREP, timeout | late RREP | bounded retries, then FAILED |
| RREQ/RREP/RERR processors, route table `core/routing/` | routes with sequence, lifetime, state (64) | learn, reply, forward, invalidate, expire | multi-hop, old sequences, full table | no routing loops; replies reach the node that asked |
| Data plane, duplicate cache `core/data`, `core/enp_duplicate.c` | caches of 32 packets and 8 ACKs | process, cache ACK, replay ACK | retransmission after a lost ACK; eviction | at most one delivery per transaction; a repeated DATA is acknowledged again |
| Dispatcher, receive path `core/dispatcher`, `core/enp_receive_path.c` | service table (8), bound path, init flags | init, register, bind, dispatch, deinit | teardown while the worker carries a frame | every frame that gets as far as the dispatcher finds its service |
| Maintenance `core/enp_maintenance.c` | flag, task handle, one static stack | init, cycle, deinit | stop does not wait, a start may follow at once | an accepted start lasts, a stop ends the task |
| Neighbor table, discovery service `core/network`, `core/service/discovery` | neighbors with last-seen times and state | announce, update, expire, remove, clear | restarts with old numbers, lost announcements, wrapping time | one entry per node; STALE only after silence; who is there becomes ACTIVE |
| Context, transport interface `core/enp_context.c`, `core/enp_transport.c` | sequence number, clock, function table | init, deinit | restart | part of the modules above |
| Packet, CRC, payload codecs, addresses, statistics, Wi-Fi transport | none over time | - | byte layouts | left to unit tests |

## Modules

| module | models | kind |
|---|---|---|
| `Reliability` | `enp_reliability.c` alone: one action per call, one step per slot of the tick | component |
| `ReliableDelivery` | what Reliability promises the application: a log of transactions | abstract specification |
| `ReliableRepair`, `MCReliableRepair` | Reliability over E5E, the data path and the ESP-NOW queues of one node | composition |
| `RouteRepair`, `MCRouteRepair` | coordinator, adapter and discovery by their three tasks | component |
| `RoutingNetwork`, `MCRoutingNetwork` | adapters, RREQ and RREP processors and route tables of several nodes | composition over nodes |
| `DataPlane`, `MCDataPlane` | source, relays and destination of reliable DATA: data planes, duplicate and ACK caches, forwarding, frames under way | composition over nodes |
| `EndToEnd` | what the two ends of a transaction see: one delivery, one verdict | abstract specification |
| `EspNowTransport`, `MCEspNowTransport` | the ESP-NOW transport with its tasks, driver callbacks, init and deinit | component |
| `FrameService` | what a transport promises the layers above | abstract specification |
| `Neighborhood`, `MCNeighborhood` | announcements, dispatcher duplicates, neighbor table and expiry of one node among others | composition |
| `NodeLifecycle`, `MCNodeLifecycle` | context, dispatcher, receive path and maintenance task from start to teardown | composition |
| `Reliability_proofs`, `RouteRepair_proofs`, `RoutingNetwork_proofs`, `DataPlane_proofs`, `EspNowTransport_proofs`, `NodeLifecycle_proofs`, `Neighborhood_proofs`, `ReliableRepair_proofs` | theorems | proofs |

How they fit: `ReliableRepair` uses of the transport what `EspNowTransport`
shows (one frame at a time, results in order that tell the truth, drops when the
event queue is full). `RouteRepair` looks at the three tasks inside one node and
takes the network as free; `RoutingNetwork` looks at the network and takes a
call of the adapter as one step. `DataPlane` takes routes as free.

### Reliability

`txn` is `s_transactions`; a slot that is not active is `FreeSlot`. `life`
holds `s_initialized`, `s_started` and whether a submit callback is set. `tick`
is the loop of `enp_reliability_tick()`: its slot and its `now_ms`, so that
every other call can run between two slots. `now` is a clock that wraps at
`TimeModulus`; `TimeReached` is the signed comparison of `time_reached()`.
What the submission returns is the parameter `ok`. `age` and `log` are history
variables: the time since the last submission, and what became of each
transaction. The check of `log` is what makes the properties talk about
transactions and not about slots, which are reused.

A call is one step. `send()` publishes the slot before it submits; a refused
submission is completed in the same call, so `Send` with `ok = FALSE` leaves
the slot free and the verdict `FAILED` in the log. The retransmissions of the
tick and of a finished repair are the shared operator `Resubmit`.
`TickKeepsUp` bounds how late the tick looks at a deadline; the C code would
need a delay of 2^31 ms to break the comparison, the model needs
`AckTimeout + MaxTickLag` below half the modulus, which is an assumption.

### ReliableRepair

The slots of Reliability without their clock (`Timeout` may fire for any
waiting transaction), `corr` for `s_correlations`, `route` for the ACTIVE next
hop of each destination, `pending` for the coordinator, `txq`, `inflight` and
`evq` for the transport. `Submit` is `e5e_reliability_submit()`: route lookup,
association, queueing, and the release when the queue is full. `Post` drops an
event when the queue is full, as `xQueueSend(..., 0)` does. The worker takes one
event per step: an ACK, or a result that goes through the data path (routes
invalidated) to `enp_e5e_on_transport_result()`. The repair side may report any
repair it was asked for, with success or failure, late or again. A received
ACK stands for any ACK of a packet that was on the air; other traffic shares
the queues.

### RouteRepair

The coordinator (`pending`, `queue`, `consuming`), the adapter (`active`,
`request`, `waiting`), the discovery `disc`, and `call`: where each of the
three tasks is. A step is a stretch of adapter code that another task may come
in between: `Claim` marks a repair active, `Launch` starts its discovery, chooses
the next hop and sends the RREQ (three calls in one step), `RrepArrives` installs the route and completes the
discovery, `RepairCompletes` finishes the repair. The dangerous window between
`active_repair = true` (`adapter.c:390`) and `enp_route_discovery_start()`
(`:395`) is therefore in the model. The history variable `mishap` records that
a repair was given up while it was being started: its RREQ could not be sent,
or the tick ended it because it still saw the previous discovery FAILED.

`Dests` are the destinations that have a route entry: without one
`adapter_start_request()` changes nothing. Lifetimes and deadlines are left
out, so any tick may find the deadline reached. An RREP with an insufficient
sequence changes nothing while its repair is active. RERR processing and route
expiry are called nowhere in the core, so routes change on the worker only.

### DataPlane

Every node has a data plane. `seen[n]` holds the entries of its two duplicate
caches, told apart by `kind`, `acks[n]` its cached ACKs, `air` the frames on
their way (`to` is the node that will receive the frame), and `txn[p]` what the
Reliability layer of the source knows of packet `p`. `inbox` and `met` are
history: what each application received, and what each data plane has processed.

`Receive(f)` is `enp_data_plane_process()`, with one disjunct per outcome: a
duplicate that brings back a cached ACK (`ReplaysAck`), one that is dropped
(`Suppresses`), delivery of DATA (`DeliversData`) or of an ACK (`DeliversAck`)
to the local service, a service that refuses the packet (`LocalFails`), and
forwarding (`Relays`), which caches a passing ACK first. In each of them the
packet is recorded before anything else is done with it, as in the code.
`Forwarded` reduces the TTL and sends nothing at a TTL of 1. The application at
the destination is outside the core; the model follows the test mains: one ACK
per delivery, with a sequence number of its own.

The source is Reliability without its slots: `Send`, `Timeout`, a transmission
result that begins a repair (`TransmissionFails`: the frame may have arrived
nevertheless), a repair that ends well, and `Abandon` for a failed repair, a
refused submission and a cancelled transaction. An ACK that comes while the
source waits for a repair is recorded and ignored
(`enp_reliability.c:134-140`).

Time passes in units (`ClockAdvances`): entries grow older and disappear at
`Window`, frames take at most `MaxFlight`, the tick is at most `TickLag` late and
a repair takes at most `MaxRepair`. `Toward[n][d]` is the set of next hops node
`n` may use for `d`: where it has several, routes change at will and may form
loops. `Lose` covers collisions, full queues and missing routes.
`Reset(n)` is `enp_data_plane_deinit()` and `_init()` on node `n`.

### RoutingNetwork

`routes[n]` is the table of node `n`, `seen[n]` the requests in its duplicate
cache, `asked[n]` what its coordinator holds, `adapter[n]` the adapter with its
one discovery, and `air` the frames under way. `LinkFails` is the failed
transmission result: all routes through the neighbor become STALE, and the repair
of some of them is requested, as the coordinator has room. A correlated failure
requests the repair of its transaction's destination, which by then may have
another next hop or be STALE already (`enp_e5e.c:251-255`). `Consume` starts a repair or queues it;
`Starts` and `Ends` are the outcomes of `adapter_start_request()` and of the end
of a repair followed by `adapter_start_next_pending()`. The reception of an RREQ
has one action per outcome: duplicate, no room for the way back, answered,
expired, forwarded; that of an RREP: rejected, installed without completing,
installed and completing. `Select[n][d]` is what the application's callback
`select_next_hop` may choose. The field `learned` of a route is history: the
request it was learned from.

What the code does and the module shows by being so short: an RREP is never
passed on, because `discovery_originator` is the local node of every processor
(`adapter.c:417-421`, `:592`), so a repair can find only the destination itself as
next hop (the finding ReplyForwarding);
retries repeat the identifier of the first RREQ, so nodes that have seen it drop
them for 10 s; a destination answers with the sequence it was asked for, and no
code increments one.

### EspNowTransport

`requests` and `events` are `s_tx_queue` and `s_queue`, `worker` and `tx` the two
tasks (with the frame of the iteration in hand), `pending` with `txStop` and
`notified` the record shared by TX task and send callback, `peers` the driver's
table, `stage` the progress of a deinit. `InitCall` and the `Deinit...` actions
follow the function from one call that can block to the next; `TxTake`,
`TxRefused`, `TxSubmitted`, `TxWake` are an iteration of the TX task;
`SendCallback` and `ReceiveCallback` are the driver's; `WorkerTake` and
`WorkerReturn` enclose the callback of an upper layer. `fate` and `told` are
history, and map the module to `FrameService`. Addresses are what the interface
passes around: `Broadcast` is the address of length zero, `BroadcastMac` the six
bytes `ff:ff:ff:ff:ff:ff` that stand for it on the radio (`MacOf`). The callback of
the driver compares the six bytes it is given with those of the record
(`Expected`) and overwrites the record's destination with them, so the result of a
frame that was on the air names the six bytes, and that of a submission the driver
refused the address of the sender. `DeinitUnregister` leaves out that
unregistering a callback may fail, which the code reports and ignores. A use of a queue that is gone, or
a task created in the memory of one that still runs, is a `fault` and ends the
program: an upper layer that sends while it takes the transport down, or starts
it again before the worker has ended, meets one (`enp_transport_espnow.c:441-449`).

### Neighborhood

One node (`table`, `count`, `cache` of the dispatcher, `worker`, `maint`) and its
peers, which announce themselves, crash and restart with number 1. Instead of
time stamps the model keeps ages. `maint.lag` is the time between the
maintenance task's reading of its clock and its use in the expiry, in between
which the reliability tick and other tasks run: `Elapsed` is the unsigned
difference, which wraps for an entry younger than that reading. Calls of the
table are one step each because the code holds its mutex. `heard` and `excused`
are history: when a peer was last heard, and whether the table has kept it.

### NodeLifecycle

The receive path is the one the production runtime's validation program (P4-E4D)
sets up; `main.c:266` installs a callback of its own that goes straight to the
dispatcher. `main` is the place of the application between two calls (for the
teardown of receive path and dispatcher between two stores another task looks at),
`call` its place in a maintenance call, `dispatcher` and
`path` the static state, `worker` the place of the worker with a frame and
whether that came after the teardown began (`late`), `maint` the flag, the handle and the place of the task. A `fault` is what no program may
do: a task created in the stack of one that is still there (`stack`), a
notification of a task that is gone (`notified`), a service entry followed after
it was zeroed (`service`). All three can happen: the first two when stop and start
follow each other within the last lines of the old task
(`enp_maintenance.c:76-80`, `:119-120`), the third between the lines 111 and 113
of `enp_dispatcher.c`. `StartIsKept` says that the first happens nowhere else, and
`FramesAreServed` that the third happens only to a frame that was under way when
the teardown began; the second ends the program, and `StopEnds` excuses it. Of the
stores of `enp_data_plane_deinit()` the model has one: the worker looks at
`plane->context` first, which is the first of the three pointers to be reset. Not in
the model: the maintenance task may still send after `enp_context_deinit()`,
which the transport refuses, as it is not initialised then.

## Runs

| run | instance | shows |
|---|---|---|
| Reliability | 2 slots, 2 packets, 2 sends, 1 retry, clock modulo 5, tick lag 1 | TypeOK, TransactionsTracked, RepairSuspends, TimerHonoured, ImplementsDelivery, EveryTransactionEnds |
| ReliableRepair | 2 slots, 2 sends to one destination, queues of 1, 1 retry | TypeOK, CorrelationsMatch, OneTransmission, ResultsStayHome, ImplementsDelivery, EveryTransactionEnds |
| RouteRepair | 2 destinations, 2 neighbors, pending and queue 2, 1 retry | TypeOK, PendingIsQueued, SerialService, WaitingRepairsStart |
| DataPlane | 2 packets of one sequence number, crossing over 2 relays that may loop, TTL 3, caches of 1, lifetime 3, 1 retry, 1 restart of a relay, the tick and a repair each up to 1 late | AcksAreEarned, NoAmplification, FreshPacketsPass, ReplayAnswers, ImplementsEndToEnd |
| EspNowTransport | 3 frames, one of them a broadcast, TX queue 1, event queue 2, 2 peers | TypeOK, ResultsAreTrue, NothingBehindStop, ImplementsFrameService, FramesSettle, WorkerEnds |
| Neighborhood | 3 peers, one that crashes once and is missed, table 2, cache 3 with lifetime 2, timeout 2, lag 1, numbers modulo 2 | TypeOK, OneEntryEach, StaleIsEarned, SilentBecomesStale, RunningIsHeard |
| RoutingNetwork | 4 nodes, one out of reach, tables of 3, TTL 2, 1 retry, 1 waiting repair, 2 link failures | TypeOK, RoutesContinue, HopsCountDown, RestoredAround, EveryRepairEnds |
| NodeLifecycle | 2 services, 2 lives, 3 starts of maintenance | FramesAreServed, StartIsKept, StopEnds |
| LostResult, RepairSuppression | those of ReliableRepair and RouteRepair | the first two findings |
| ReplyForwarding | that of RoutingNetwork | the third finding |
| SecondDelivery | 2 nodes; units of a second with the values of the code: timeout 1, tick 2, lifetime 10, 3 retries, caches of 32 and 8 | the fourth finding |

The bounds are the smallest at which the interesting cases happen. Two slots
and two sends give slot reuse, two transactions waiting at once and the first
one finishing before or after the second. One retry separates the first
submission, the last retry and an exhausted budget. Five clock units with a
timeout of one put the wrap before, between and after submission and deadline.
An event queue of one is full whenever anything is in it, so every drop is
possible. Two destinations and a pending set of two allow a repair that runs, one
that waits in the adapter and one in the coordinator's queue. The repair and
correlation identifiers grow only with the bounded sends and retries; the 32-bit
wrap of the counters, after 2^32 repairs, is not modelled.

Three frames through a TX queue of one put one at the radio, one in the queue and
one in a sender that waits; an event queue of two holds a result and the stop
event, or is full. A table of two with three peers is full of the other two when
the third is heard, and removals leave free entries in front of used ones; numbers
modulo two repeat within the memory of a cache of two periods, which is what a
restart does to real ones. Only the peer that crashes may be missed on the air, which
keeps the instance small and is what `RunningIsHeard` is about. With four
nodes a request comes back to a node by two ways and overtakes its own retry;
tables of three are full at times. Two lives and three starts let a life, a stop
and a start follow each other in every order.

In `DataPlane` frames for `b` pass the two relays `r` and `s` and those for `a` only
`s`; the relays' caches of one entry are replaced by the other packet, run out or
are forgotten in a restart of `s`. `s` may send a packet for `b` back to `r`, so that duplicates
come out of a loop as well as from retries. At most one delivery is a matter of
time: the last submission of a packet comes 2 units after the first (a timeout with
a late tick), so that every frame meets its entry at the destination while that
lives; 3 is the smallest such lifetime. It also needs destinations that forget
nothing: no DATA but its own reaches an end here, and the ends do not restart.
Frames and results take no time in this instance (`MaxFlight = 0`), but may be
processed in any order, so that a frame is overtaken by a retransmission after a
failed result and a short repair; longer flights are covered by the theorems below.
`SecondDelivery` has the proportions of the code, where a repair breaks the
condition.

`EspNowTransport`, `RoutingNetwork` and `NodeLifecycle` switch deadlock checking
off, because these systems may stop: all frames are sent and nobody
deinitialises, all failures have been used up, the lives are over or a fault has
ended the program. What must not stop there is stated as liveness.

### Fairness

`Reliability`: the maintenance task ticks for as long as the node runs and the
clock advances; each repair is reported (`WF` on the reports of each slot). The
last one is an assumption about the owner of repairs, which the code leaves
outside the core. `ReliableRepair`: the TX task, the worker and the tick run,
and repairs are reported. `RouteRepair`: the three tasks run; what arrives from
the network is free. `RoutingNetwork`: the ticks of each node run; every frame
may be lost. `EspNowTransport`: the two tasks and a call of deinit run, and the
driver calls back for each frame it has accepted, which the TX task relies on
when it waits without a limit. `Neighborhood`: time passes, the tasks run, the
running peers announce themselves, and of infinitely many announcements of the peer
that may be missed infinitely many arrive (`SF`); a crashed peer need not come back.
`RunningIsHeard` says of such a peer that it is down again, ACTIVE, or left out by a
table full of others, time and again. `NodeLifecycle`: the
worker, the maintenance task and a begun call run; nobody has to make a call.
Nothing assumes that a transmission succeeds, an ACK arrives or a route is found.

## Findings

- **LostResult**: a result dropped by the full event queue leaves its
  correlation in place, and the next retransmission is refused
  (`enp_e5e.c:172`): the transaction fails with retries left.
- **RepairSuppression**: when the first RREQ of a repair cannot be sent
  (`enp_route_repair_adapter.c:423`), the discovery stays REQUESTING without an
  owner and refuses every later repair. The tick race described under
  RouteRepair leads to the same state without any failed transmission.
- **ReplyForwarding**: an RREP ends at its first receiver, because every processor
  takes the local node for the originator of the request
  (`enp_route_repair_adapter.c:417-421`, `enp_rrep_processor.c:92`). The routing
  protocol has intermediate nodes forward it
  (`ENP_ROUTING_PROTOCOL_v0.2.md:522-530`), and so does the comment at
  `enp_rrep_processor.c:102-108`. In the counterexample a node asks over a relay,
  the destination answers over the relay, and the relay keeps the reply although it
  has the way back.
- **SecondDelivery**: an entry of the duplicate cache lives 10 s from the first
  reception and a duplicate does not renew it (`enp_duplicate.c:32`, `:155-160`).
  Four submissions with timeouts of 1 s and a tick of 2 s fit, but a repair
  suspends the timeout: a packet whose ACK was lost and whose retry waits for a
  repair arrives after its entry is gone and is delivered again.

Behaviour of the code that no run states, because the properties allow it or are
written around it:

- A transaction whose transmission fails while its destination is under repair
  for another one is failed at once (`enp_e5e.c:251`, `enp_route_repair.c:133-136`).
- Nothing bounds REPAIR_PENDING (`enp_reliability.c:410`) and the core never
  reports a failed repair; this is why fairness assumes the report.
- An ACK is cached by the relays that forward it (`enp_data_plane.c:261-268`), not
  by the destination that generates it. When it is lost on its first hop, the
  destination and every relay drop the retransmissions as duplicates in silence,
  and the source reports FAILED for a packet that was delivered. The same holds
  for DATA lost behind a relay.
- A neighbor whose announcement is entered between the maintenance task's reading
  of the clock and its expiry is marked STALE for one period
  (`enp_neighbor.c:307`; `excused` in `Neighborhood`).
- The result of a broadcast that was on the air names the six bytes
  `ff:ff:ff:ff:ff:ff` with length 6 (`enp_transport_espnow.c:766-769`, `:830`), which
  `enp_transport.h:41-50` calls a unicast address; the request's address had length
  0. `ResultsAreTrue` says which of the two a result names.
- The windows of `NodeLifecycle` and `EspNowTransport` described above.

## Proofs

TLAPS checks every theorem below, for all values of the constants that satisfy
the named assumptions (`PacketsAssumption`, `SizesAssumption`,
`TimeAssumption`, `RepairAssumption` of `Reliability`; `PipelineAssumption` of
`RouteRepair`; `PacketsAssumption`, `TowardAssumption`, `BoundsAssumption`,
`ResetsAssumption` of `DataPlane`; `NodesAssumption`, `SelectAssumption`,
`RoutesAssumption`, `BoundsAssumption` of `RoutingNetwork`; `SizesAssumption`,
`AddressesAssumption` of `EspNowTransport`; `LifecycleAssumption` of
`NodeLifecycle`; `NeighborhoodAssumption` of `Neighborhood`; `SizesAssumption`,
`RoutesAssumption` of `ReliableRepair`).

- `Reliability_proofs`. The inductive invariant is `TypeOK` together with
  `TransactionsTracked`; neither is inductive alone. That finishing a slot ends
  exactly one open transaction needs the one-to-one correspondence, and the
  bound on the submissions in `TypeOK` needs its clause
  `submits = retry + 1`. From it: `TypeCorrect`, `Tracked`,
  `RepairIsNeverTimedOut` and the refinement `Implements`, in which every step
  maps to a step of `ReliableDelivery` or leaves `log` alone. The clock has an
  invariant of its own: `TimerInv` measures, modulo `TimeModulus`, how far
  the clock has moved since the stamp of each waiting transaction: never more
  than `AckTimeout + MaxTickLag`, which makes it equal to the unwrapped history
  `age`; and the running tick's `now_ms` is at most `MaxTickLag` behind the
  clock. Under `TimeAssumption` the signed comparison is then exact, which
  gives `TimeoutsAreHonoured`.
- `RouteRepair_proofs`. `Inv` is `TypeOK`, `SerialService` and that waiting
  destinations are distinct. `CompletionRepairs` is the strengthening that
  matters: an RREP that completes the discovery of the active repair was not
  `Excluded`, so its route avoids the failed hop, and the rejection at
  `adapter.c:585-589`, which would leave the adapter active for ever, cannot
  happen. `ReservationsAreExact` is an invariant of its own, from the order of
  reservation, publication and release.

- `RoutingNetwork_proofs`. `Inv` is `TypeOK`, `RepairIsNamed` (a running repair has
  a destination and a failed neighbor, so that no reply is compared with the zero
  address) and `Routing`, which joins `RoutesContinue` and `HopsCountDown` with what
  makes them inductive. `RreqIsLearned`: the sender of a request on its way is its
  originator, or has an entry for the originator and the request in its cache, with
  the hop count of the frame if the entry still comes from that request.
  `LearnedIsSeen`: what a node has learned from a request it and its next hop have
  recorded. As an entry is never removed, routes lead on; as a recorded request is
  never learned from again, the entry at the next hop is older, and its hop count
  smaller. `RrepIsDirect` says that a reply comes from the destination itself. That
  a reply of the failed neighbor installs nothing while its repair is active gives
  the action property `RestoredAround` (theorem `RestorationGoesAround`).
- `NodeLifecycle_proofs`. The inductive invariant ties the stage of the
  application to the state it has built (which flags are set, how many services
  are registered, each at its own index), the worker's place to the stage (beyond
  the receive path's checks only while it is up, unless the frame was under way
  at the teardown; a frame that came later gets no further than the callback), and the maintenance flag and handle to the task. From it:
  `FramesAlwaysServed` and `StartsAreKept`.
- `DataPlane_proofs`. Four layers, each resting on the one before.
  - `Inv` is `Typed`, which is `TypeOK` with the finiteness of every cache added
    (without it the cardinality of a cache that gives up its oldest entry says
    nothing), together with `AcksAreEarned`. The argument for the latter is in
    four facts about each step: a new frame is a copy of a frame on its way, a copy
    of a cached ACK, DATA, or the ACK of the packet just delivered (`AirFollows`); a
    cached ACK is an earlier one or a copy of a frame (`AcksFollow`); a source turns
    to DELIVERED only by an ACK on its way (`VerdictsFollow`); and inboxes only grow
    (`InboxGrows`). ACKs are earned through loops, losses, replays and restarts.
  - `SeenIsMet` traces every entry of a duplicate cache to a frame its node has
    processed, and every such frame to the numbering of its source or to a
    delivery. An entry thus names one packet, which gives `FreshAlwaysPass` and
    `ReplaysAnswer`, at any cache size and through replacements and restarts.
  - `Sparse` counts: a reception takes a frame off the air and puts at most one of
    the same packet there, so that only submissions add any (`FramesStaySparse`).
  - `OnceInv` is about time. `Round` is the longest time from one submission to the
    next (a timeout with a late tick, or a flight and a repair), and `Outlives`
    says that the entry a first reception leaves lives longer than all submissions
    that may still follow and the longest way of a frame. It needs two things.
    `WindowSuffices`, that is `MaxRetries * Round + Ttl * MaxFlight < Window`, is a
    condition on the constants: `DataPlane.cfg` meets it with nothing to spare
    (1 * 2 + 3 * 0 < 3). The values of the code meet it for short repairs and break it for long
    ones, which nothing in the code bounds: that is the run SecondDelivery. `NothingForgotten` says that
    the destination of a packet gives up its entry of the DATA by age only, whatever
    relays forget; it is a hypothesis on the behaviour, because the code may replace
    an entry or restart a data plane at any time and a destination that forgets a
    packet delivers it again. Under both, `DeliveredAtMostOnce` and the refinement
    `WindowGivesEndToEnd` hold in any network. `CacheSuffices` (no restart of a
    destination, and an entry for every packet there is) is enough for the second by
    `NothingIsForgotten`, so that `Implements` is about the specification as it
    stands. `DataPlane.cfg` meets `NothingForgotten` in another way, with smaller
    caches: no DATA but its own reaches an end, and the ends do not restart.
- `EspNowTransport_proofs`. `Inv` joins what deinit has taken away at each of its
  stages (`LifeInv`, `StopInv`) with what orders the frames. `InOrder`: a frame is
  never further on its way than one accepted before it. `RequestInv`: the queue
  holds the accepted frames in order, save one that the TX task has taken.
  `TxInv` ties the record shared with the callback of the driver to the frame of
  the task: while it waits, the record is about its frame, the status is that of
  its fate, and every result in the queue or passed up is about an earlier frame.
  `FlyingInv` (one frame is on the air, the one the task waits for, unless deinit
  has stopped the task meanwhile) is why it is enough that the callback compares
  addresses: no callback can be about another frame than the one the task waits for.
  `ResultInv` puts the results in the order of their frames. None of these is
  inductive alone. From them: `Types`, `ResultsTellTheTruth`, `StopIsLast` and the
  refinement `Implements`, in which a step of the driver is a frame that starts or
  ends, the worker's callback a result, and an end of deinit the loss of what it drops.

- `ReliableRepair_proofs`. `Inv` adds to `TypeOK` and `CorrelationsMatch` what ties
  the two tables to the frames under way. `SlotsServe`: each slot in progress serves
  an open transaction of its own, submitted `retry + 1` times. `Apart`: no two
  frames in the queues and on the radio carry the same correlation. `FrameOK`: a
  correlation in the table that matches a frame belongs to the frame's transaction
  and is not under repair, and a transaction in progress with a frame under way
  holds that correlation. Only with the frames is `CorrelationsMatch` inductive: a
  successful result retires its correlation, which may not be the one a suspended
  transaction waits with. The transport's steps move frames between places without
  copying one (`ApartKept`), the tables change in four ways (`ConcludeTables`,
  `AcceptTables`, `SentTables`, `SuspendTables`), and each step combines the two.
  From it: `TypeCorrect`, `StayInStep`, `OneAtATime`, `ResultsAreConfined` and the
  refinement `Implements`, here of the whole stack.
- `Neighborhood_proofs`. `Inv` is `TypeOK`, with the cache finite, `OneEntryEach` and
  `Earned`: the entry of a peer is ACTIVE and no older than the last arrival the table
  has kept, unless the timeout has passed since. The counter of the table equals the
  number of its entries in use through every removal and clearing. `StalenessIsEarned`
  is the case of a STALE entry.

Every invariant, action property and refinement that a passing run checks is a
theorem as well. Model-checked only: the liveness properties `EveryTransactionEnds`,
`WaitingRepairsStart`, `FramesSettle`, `WorkerEnds`, `SilentBecomesStale`,
`RunningIsHeard`, `EveryRepairEnds` and `StopEnds`, as fairness is beyond TLAPS'
reach. The four findings are counterexamples of TLC.

## Abstractions and limits

- A call of the API is one step, except the tick of Reliability (one per slot), the
  adapter in `RouteRepair` (from one call into the coordinator or the discovery to
  the next, save that `Launch` joins the start of the discovery, the choice of the
  next hop and the submission of the RREQ), the transport (from one call that can
  block to the next), and start and teardown in `NodeLifecycle` (one per store that
  another task looks at). Races inside a call, between single loads and stores of two cores, are
  listed as hazards without a property: their outcomes are undefined in C.
- Packets, addresses and neighbors are model values. The checks of a packet's
  form on entry (`enp_reliability.c:104-132`) are left out: the models send
  well-formed packets.
- The result callback of Reliability is installed, and the neighbor of a route
  resolves to a transport address.
- In `DataPlane` the failure result of a frame that a relay forwarded is left
  out: it changes the routes of the relay, which are free to change anyway.
  DATA without the ACK flag has no transaction and is left out.
- The repair owner is outside the core and modelled by what the core accepts
  from it.
- A tick of FreeRTOS is 10 ms in the build, so the 20 polls with which
  `enp_transport_espnow_deinit()` waits for the TX task only yield; the model lets
  the wait end at any time.
- `RoutingNetwork` has no clock: a retry may come at any time, and a request stays
  recorded for as long as its discovery sends it. Routes learned from different
  requests may form a loop of several nodes; `HopsCountDown` is about those of one
  request.

### Not modelled

- The Wi-Fi transport (no queues, no retries), the packet and payload codecs with
  the CRC, addresses, statistics and utilities: sequential code whose branches unit
  tests reach.
- Code that nothing in the core calls: route expiry and removal, the RERR
  processor, cancellation of a discovery. The branch that forwards an RREP cannot
  be reached.
- Init and deinit of E5E and of the data path while traffic is under way.
- The test mains, except the order of their calls and the tasks and callbacks of
  the E5E main.
