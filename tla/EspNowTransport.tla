--------------------------- MODULE EspNowTransport ---------------------------
(***************************************************************************)
(* The ESP-NOW transport (link/enp_transport_espnow.c): its two bounded    *)
(* queues, the worker task that runs the callbacks of the upper layers,    *)
(* the TX task that keeps one transmission in flight, the two callbacks of *)
(* the ESP-NOW driver, and its life cycle, from init to a deinit that      *)
(* takes the transport apart while the tasks of both cores go on.          *)
(*                                                                         *)
(* One action is what a task does between two points where another can     *)
(* come in: a wait on a queue or a notification, a call of the driver, a   *)
(* callback.  A received frame has no identity; a sent frame is its number *)
(* and carries that number as its correlation.                             *)
(***************************************************************************)
EXTENDS Naturals, Sequences, FiniteSets

CONSTANTS
  MaxFrames,         \* bound of the model: frames accepted for transmission
  Addresses,         \* addresses of neighbors, all of six bytes
  Broadcast,         \* the address of length 0
  BroadcastMac,      \* s_broadcast_mac, the six bytes ff:ff:ff:ff:ff:ff
  DestOf,            \* destination of each frame
  TxQueueLength,     \* ENP_ESPNOW_TX_QUEUE_LENGTH
  EventQueueLength,  \* ENP_ESPNOW_QUEUE_LENGTH
  MaxPeers           \* entries of the driver's peer table

Frames == 1..MaxFrames
NoFrame == 0

ASSUME SizesAssumption ==
  /\ MaxFrames \in Nat
  /\ TxQueueLength \in Nat \ {0}
  /\ EventQueueLength \in Nat \ {0}
  /\ MaxPeers \in Nat \ {0}
ASSUME AddressesAssumption ==
  /\ Broadcast # BroadcastMac
  /\ {Broadcast, BroadcastMac} \cap Addresses = {}
  /\ DestOf \in [Frames -> Addresses \cup {Broadcast}]

VARIABLES
  initialized,  \* s_initialized
  stage,        \* where a call of deinit stands, "none" without one
  up,           \* the queue handles are not NULL
  callbacks,    \* callbacks of the upper layers that are installed
  registered,   \* the driver has our two callbacks
  peers,        \* the peer table of the driver
  sender,       \* the frame of a send call between its checks and its queueing
  requests,     \* s_tx_queue
  events,       \* s_queue
  worker,       \* state of the worker task and the callback it runs
  tx,           \* state of the TX task, and the frame it works on
  txStop,       \* s_tx_stop
  notified,     \* the notification of the TX task is pending
  pending,      \* s_tx_pending with the record of the transmission
  fault,        \* the access that has brought the program down, or "none"
  fate,         \* history: what became of each frame
  told          \* history: the results passed up, oldest first

taskVars == <<worker, tx, txStop, notified, pending>>
queueVars == <<requests, events>>
lifeVars == <<initialized, stage, up, callbacks, registered>>
vars == <<lifeVars, peers, sender, queueVars, taskVars, fault, fate, told>>

-----------------------------------------------------------------------------
(* The data *)

Service == INSTANCE FrameService

Verdicts == Service!Verdicts

\* The six bytes the driver knows an address by.
MacOf(address) == IF address = Broadcast THEN BroadcastMac ELSE address

Destinations == Addresses \cup {Broadcast, BroadcastMac}

\* enp_espnow_event_t
Stop == [type |-> "stop"]
Receive == [type |-> "receive"]
SendResult(f, dest, result) ==
  [type |-> "send_result", source |-> dest, result |-> result, correlation |-> f]
Events == {Stop, Receive} \cup
  [type : {"send_result"}, source : Destinations,
   result : {"ok", "failed"}, correlation : Frames \cup {NoFrame}]

\* The records the TX task and the callback of the driver share.
Nothing == [active |-> FALSE, expected |-> Broadcast, destination |-> Broadcast,
            status |-> "failed", correlation |-> NoFrame]
Started(f) == [active |-> TRUE, expected |-> DestOf[f], destination |-> DestOf[f],
               status |-> "failed", correlation |-> f]

WorkerStates == {"none", "blocked", "calling"}
TxStates == {"none", "blocked", "submitting", "awaiting"}
Callbacks == {"receive", "result"}
Stages == {"none", "stopTx", "unregister", "stopWorker", "driverOff"}
Faults == {"none", "null_queue", "task_reused"}

\* A mutant: the queue is taken to have room.
PostAlways(event) == Append(events, event)

\* xQueueSend with no time to wait: a full queue drops the event.
Post(event) ==
  IF Len(events) < EventQueueLength THEN Append(events, event) ELSE events

\* The next frame the upper layers send.
NextFrame == CHOOSE f \in Frames :
  fate[f] = "new" /\ \A g \in Frames : fate[g] = "new" => f <= g

Init ==
  /\ initialized = FALSE
  /\ stage = "none"
  /\ up = FALSE
  /\ callbacks = {}
  /\ registered = FALSE
  /\ peers = {}
  /\ sender = NoFrame
  /\ requests = <<>>
  /\ events = <<>>
  /\ worker = [pc |-> "none", event |-> Stop]
  /\ tx = [pc |-> "none", frame |-> NoFrame]
  /\ txStop = FALSE
  /\ notified = FALSE
  /\ pending = Nothing
  /\ fault = "none"
  /\ fate = [f \in Frames |-> "new"]
  /\ told = <<>>

-----------------------------------------------------------------------------
(* Life cycle.  The creation of static queues and tasks cannot fail; a     *)
(* failing call of the driver makes init return with nothing changed.      *)

\* init, once every call of the driver has succeeded.  The queues and both
\* tasks are created in static memory: a worker that is still there loses
\* its stack to the new one.
InitCall ==
  /\ ~initialized
  /\ IF worker.pc = "none"
     THEN /\ initialized' = TRUE
          /\ up' = TRUE
          /\ registered' = TRUE
          /\ peers' = {BroadcastMac}
          /\ requests' = <<>>
          /\ events' = <<>>
          /\ worker' = [pc |-> "blocked", event |-> Stop]
          /\ tx' = [pc |-> "blocked", frame |-> NoFrame]
          /\ txStop' = FALSE
          /\ notified' = FALSE
          /\ pending' = [pending EXCEPT !.active = FALSE]
          /\ UNCHANGED fault
     ELSE /\ fault' = "task_reused"
          /\ UNCHANGED <<initialized, up, registered, peers, queueVars, taskVars>>
  /\ UNCHANGED <<stage, callbacks, sender, fate, told>>

\* set_receive_callback, set_send_result_callback and its _ex form.
SetCallback(c) ==
  /\ initialized
  /\ stage = "none"
  /\ callbacks' = callbacks \cup {c}
  /\ UNCHANGED <<initialized, stage, up, registered, peers, sender, queueVars,
                 taskVars, fault, fate, told>>

\* deinit: no callbacks from here on, and the TX task is told to stop.
DeinitBegin ==
  /\ initialized
  /\ stage = "none"
  /\ callbacks' = {}
  /\ txStop' = TRUE
  /\ notified' = (notified \/ tx.pc # "none")
  /\ stage' = IF tx.pc = "none" THEN "unregister" ELSE "stopTx"
  /\ UNCHANGED <<initialized, up, registered, peers, sender, queueVars, worker,
                 tx, pending, fault, fate, told>>

\* After at most 20 polls, which do not sleep at a tick of 10 ms, a TX task
\* that is still there is deleted wherever it stands.
DeinitTx ==
  /\ stage = "stopTx"
  /\ stage' = "unregister"
  /\ tx' = [pc |-> "none", frame |-> NoFrame]
  /\ fate' = IF tx.pc = "submitting" THEN [fate EXCEPT ![tx.frame] = "lost"] ELSE fate
  /\ UNCHANGED <<initialized, up, callbacks, registered, peers, sender, queueVars,
                 worker, txStop, notified, pending, fault, told>>

\* A mutant: the driver keeps our callbacks while the worker is stopped.
DeinitStaysRegistered ==
  /\ stage = "unregister"
  /\ stage' = "stopWorker"
  /\ UNCHANGED <<initialized, up, callbacks, registered, peers, sender, queueVars,
                 taskVars, fault, fate, told>>

\* Unregistering fails only while the driver is not initialized, which it is
\* until the last step of deinit; the code would warn and go on.
DeinitUnregister ==
  /\ stage = "unregister"
  /\ registered' = FALSE
  /\ stage' = "stopWorker"
  /\ UNCHANGED <<initialized, up, callbacks, peers, sender, queueVars, taskVars,
                 fault, fate, told>>

\* The worker gets a stop event; when the queue stays full for 100 ms, it is
\* deleted instead, also inside a callback.
DeinitWorker ==
  /\ stage = "stopWorker"
  /\ stage' = "driverOff"
  /\ \/ /\ worker.pc # "none"
        /\ Len(events) < EventQueueLength
        /\ events' = Append(events, Stop)
        /\ UNCHANGED worker
     \/ /\ worker.pc # "none"
        /\ Len(events) = EventQueueLength
        /\ worker' = [worker EXCEPT !.pc = "none"]
        /\ UNCHANGED events
     \/ /\ worker.pc = "none"
        /\ UNCHANGED <<events, worker>>
  /\ UNCHANGED <<initialized, up, callbacks, registered, peers, sender, requests,
                 tx, txStop, notified, pending, fault, fate, told>>

\* esp_now_deinit() fails: deinit returns, initialized, without tasks.
DriverStays ==
  /\ stage = "driverOff"
  /\ stage' = "none"
  /\ UNCHANGED <<initialized, up, callbacks, registered, peers, sender, queueVars,
                 taskVars, fault, fate, told>>

\* esp_now_deinit() succeeds and forgets peers and frames; the handles are
\* reset whether or not the worker has taken its stop event.
DriverGone ==
  /\ stage = "driverOff"
  /\ stage' = "none"
  /\ initialized' = FALSE
  /\ up' = FALSE
  /\ peers' = {}
  /\ requests' = <<>>
  /\ txStop' = FALSE
  /\ pending' = [pending EXCEPT !.active = FALSE]
  /\ fate' = [f \in Frames |->
                IF fate[f] \in {"queued", "flying"} THEN "lost" ELSE fate[f]]
  /\ UNCHANGED <<callbacks, registered, sender, events, worker, tx, notified,
                 fault, told>>

-----------------------------------------------------------------------------
(* Sending *)

\* send_ex up to its last check: the destination is made known to the
\* driver, whose table may be full.
SendBegin ==
  /\ initialized
  /\ up
  /\ sender = NoFrame
  /\ \E f \in Frames : fate[f] = "new"
  /\ \/ MacOf(DestOf[NextFrame]) \in peers
     \/ Cardinality(peers) < MaxPeers
  /\ peers' = peers \cup {MacOf(DestOf[NextFrame])}
  /\ sender' = NextFrame
  /\ UNCHANGED <<lifeVars, queueVars, taskVars, fault, fate, told>>

\* The request is queued, or refused by a full queue.  A deinit since the
\* checks has reset the handle: the call uses NULL, or the handle it had
\* loaded, and then the request is accepted by a queue nobody reads.
SendQueue ==
  /\ sender # NoFrame
  /\ sender' = NoFrame
  /\ \/ /\ up
        /\ Len(requests) < TxQueueLength
        /\ requests' = Append(requests, sender)
        /\ fate' = [fate EXCEPT ![sender] = "queued"]
        /\ UNCHANGED fault
     \/ /\ up
        /\ Len(requests) = TxQueueLength
        /\ UNCHANGED <<requests, fate, fault>>
     \/ /\ ~up
        /\ fault' = "null_queue"
        /\ UNCHANGED <<requests, fate>>
     \/ /\ ~up
        /\ fate' = [fate EXCEPT ![sender] = "lost"]
        /\ UNCHANGED <<requests, fault>>
  /\ UNCHANGED <<lifeVars, peers, events, taskVars, told>>

-----------------------------------------------------------------------------
(* The TX task *)

\* The end of a round: the task ends when it was told to stop.
NextRound == [pc |-> IF txStop THEN "none" ELSE "blocked", frame |-> NoFrame]
Clear == [pending EXCEPT !.active = FALSE, !.expected = Broadcast,
                         !.correlation = NoFrame]

\* A request is taken and recorded, unless the task has to stop.
TxTake ==
  /\ tx.pc = "blocked"
  /\ requests # <<>>
  /\ requests' = Tail(requests)
  /\ IF txStop
     THEN /\ tx' = NextRound
          /\ pending' = [pending EXCEPT !.active = FALSE]
          /\ fate' = [fate EXCEPT ![Head(requests)] = "lost"]
     ELSE /\ tx' = [pc |-> "submitting", frame |-> Head(requests)]
          /\ pending' = Started(Head(requests))
          /\ UNCHANGED fate
  /\ UNCHANGED <<lifeVars, peers, sender, events, worker, txStop, notified,
                 fault, told>>

\* esp_now_send() refuses the frame: its result is posted at once.
TxRefused ==
  /\ tx.pc = "submitting"
  /\ events' = Post(SendResult(tx.frame, DestOf[tx.frame], "failed"))
  /\ fate' = [fate EXCEPT ![tx.frame] = "refused"]
  /\ pending' = Clear
  /\ tx' = NextRound
  /\ UNCHANGED <<lifeVars, peers, sender, requests, worker, txStop, notified,
                 fault, told>>

\* A mutant: the task goes on to the next frame instead of waiting.
TxSubmittedNoWait ==
  /\ tx.pc = "submitting"
  /\ MacOf(DestOf[tx.frame]) \in peers
  /\ fate' = [fate EXCEPT ![tx.frame] = "flying"]
  /\ tx' = NextRound
  /\ UNCHANGED <<lifeVars, peers, sender, queueVars, worker, txStop, notified,
                 pending, fault, told>>

\* The frame is with the driver; the task waits for its callback, without a
\* timeout.
TxSubmitted ==
  /\ tx.pc = "submitting"
  /\ MacOf(DestOf[tx.frame]) \in peers
  /\ fate' = [fate EXCEPT ![tx.frame] = "flying"]
  /\ tx' = [tx EXCEPT !.pc = "awaiting"]
  /\ UNCHANGED <<lifeVars, peers, sender, queueVars, worker, txStop, notified,
                 pending, fault, told>>

\* A mutant: the task gives up waiting after a while.
TxWakeTimeout ==
  /\ tx.pc = "awaiting"
  /\ notified' = FALSE
  /\ events' = IF txStop THEN events
               ELSE Post(SendResult(pending.correlation, pending.destination,
                                    pending.status))
  /\ pending' = Clear
  /\ tx' = NextRound
  /\ UNCHANGED <<lifeVars, peers, sender, requests, worker, txStop, fault, fate,
                 told>>

\* Notified by the callback, or by deinit, the task reports what the shared
\* record says.
TxWake ==
  /\ tx.pc = "awaiting"
  /\ notified
  /\ notified' = FALSE
  /\ events' = IF txStop THEN events
               ELSE Post(SendResult(pending.correlation, pending.destination,
                                    pending.status))
  /\ pending' = Clear
  /\ tx' = NextRound
  /\ UNCHANGED <<lifeVars, peers, sender, requests, worker, txStop, fault, fate,
                 told>>

-----------------------------------------------------------------------------
(* The driver and the worker task *)

\* A mutant: the address of a broadcast is compared without its translation.
ExpectedRaw(f) ==
  /\ tx.pc # "none"
  /\ pending.active
  /\ pending.expected = MacOf(DestOf[f])

\* The callback of the driver is for the transmission that is pending.
Expected(f) ==
  /\ tx.pc # "none"
  /\ pending.active
  /\ MacOf(pending.expected) = MacOf(DestOf[f])

\* A frame lands, or does not, and the driver calls back.  The callback is
\* ignored unless a transmission to that address is pending; it leaves the
\* driver's address in the record, that of a broadcast included.
SendCallback(f, end) ==
  /\ fate[f] = "flying"
  /\ registered
  /\ fate' = [fate EXCEPT ![f] = end]
  /\ IF Expected(f)
     THEN /\ pending' = [pending EXCEPT !.status = end,
                                          !.destination = MacOf(DestOf[f])]
          /\ notified' = TRUE
     ELSE UNCHANGED <<pending, notified>>
  /\ UNCHANGED <<lifeVars, peers, sender, queueVars, worker, tx, txStop, fault,
                 told>>

\* A frame of another node; the full queue drops it.
ReceiveCallback ==
  /\ registered
  /\ up
  /\ events' = Post(Receive)
  /\ UNCHANGED <<lifeVars, peers, sender, requests, taskVars, fault, fate, told>>

\* A mutant: the worker heeds a stop event only when deinit has finished.
EndsLate(event) == event = Stop /\ ~initialized

\* The callback the worker runs for each type of event.
CallbackOf == [receive |-> "receive", send_result |-> "result", stop |-> "none"]

\* The event that ends the worker.
Ends(event) == event = Stop

\* The worker looks for its next event through the handle of the queue.
WorkerLoops ==
  IF up THEN /\ worker' = [pc |-> "blocked", event |-> Stop]
             /\ UNCHANGED fault
  ELSE /\ fault' = "null_queue"
       /\ UNCHANGED worker

\* Blocked on the queue, the worker takes an event and calls the callback
\* that is installed for it at this moment.
WorkerTake ==
  /\ worker.pc = "blocked"
  /\ events # <<>>
  /\ events' = Tail(events)
  /\ LET event == Head(events)
         callback == CallbackOf[event.type]
     IN \/ /\ Ends(event)
           /\ worker' = [worker EXCEPT !.pc = "none"]
           /\ UNCHANGED <<fault, told>>
        \/ /\ ~Ends(event)
           /\ callback \notin callbacks
           /\ WorkerLoops
           /\ UNCHANGED told
        \/ /\ ~Ends(event)
           /\ callback \in callbacks
           /\ worker' = [pc |-> "calling", event |-> event]
           /\ told' = IF callback = "receive" THEN told
                      ELSE Append(told, [frame |-> event.correlation,
                                         result |-> event.result])
           /\ UNCHANGED fault
  /\ UNCHANGED <<lifeVars, peers, sender, requests, tx, txStop, notified, pending,
                 fate>>

WorkerReturn ==
  /\ worker.pc = "calling"
  /\ WorkerLoops
  /\ UNCHANGED <<lifeVars, peers, sender, queueVars, tx, txStop, notified, pending,
                 fate, told>>

-----------------------------------------------------------------------------
TxStep == TxTake \/ TxRefused \/ TxSubmitted \/ TxWake
WorkerStep == WorkerTake \/ WorkerReturn
DriverStep == \E f \in Frames, end \in {"ok", "failed"} : SendCallback(f, end)
DeinitStep == DeinitTx \/ DeinitUnregister \/ DeinitWorker

\* A fault ends the program.
Next ==
  /\ fault = "none"
  /\ \/ InitCall
     \/ \E c \in Callbacks : SetCallback(c)
     \/ DeinitBegin \/ DeinitStep \/ DriverStays \/ DriverGone
     \/ SendBegin \/ SendQueue
     \/ TxStep
     \/ DriverStep \/ ReceiveCallback
     \/ WorkerStep

Spec == Init /\ [][Next]_vars

\* The tasks and a call of deinit run, callbacks return, and the driver calls
\* back for every frame it has accepted, as the TX task takes for granted.
FairSpec ==
  /\ Spec
  /\ WF_vars(fault = "none" /\ TxStep)
  /\ WF_vars(fault = "none" /\ WorkerStep)
  /\ WF_vars(fault = "none" /\ DriverStep)
  /\ WF_vars(fault = "none" /\ (DeinitStep \/ DriverStays \/ DriverGone))

-----------------------------------------------------------------------------
(* Properties *)

\* Every variable keeps its type, the queues their bounds, the driver's table
\* its size.
TypeOK ==
  /\ initialized \in BOOLEAN
  /\ stage \in Stages
  /\ up \in BOOLEAN
  /\ callbacks \in SUBSET Callbacks
  /\ registered \in BOOLEAN
  /\ peers \in SUBSET (Addresses \cup {BroadcastMac}) /\ Cardinality(peers) <= MaxPeers
  /\ sender \in Frames \cup {NoFrame}
  /\ requests \in Seq(Frames) /\ Len(requests) <= TxQueueLength
  /\ events \in Seq(Events) /\ Len(events) <= EventQueueLength
  /\ worker \in [pc : WorkerStates, event : Events]
  /\ tx \in [pc : TxStates, frame : Frames \cup {NoFrame}]
  /\ txStop \in BOOLEAN
  /\ notified \in BOOLEAN
  /\ pending \in [active : BOOLEAN, expected : Addresses \cup {Broadcast},
                  destination : Destinations,
                  status : {"ok", "failed"}, correlation : Frames \cup {NoFrame}]
  /\ fault \in Faults
  /\ fate \in [Frames -> Service!Fates]
  /\ told \in Seq([frame : Frames, result : {"ok", "failed"}])

\* A result on its way to the upper layers names a frame whose transmission
\* is over, its true end and the node it went to, however the callback of the
\* driver, the TX task and a deinit interleave (s_pending_status, _destination
\* and _correlation_id are written and read without a lock).  The node is that
\* of the driver: a broadcast, asked for with the address of length 0, is
\* reported with the six bytes of s_broadcast_mac when the driver took it
\* (lines 766-769, 830), and as it was asked for when it was refused.
ResultsAreTrue ==
  \A k \in DOMAIN events :
    LET e == events[k] IN
    e.type = "send_result" =>
      /\ e.correlation \in Frames
      /\ fate[e.correlation] \in Verdicts
      /\ e.result = Service!ResultOf(fate[e.correlation])
      /\ MacOf(e.source) = MacOf(DestOf[e.correlation])

\* Nothing is queued behind the event that stops the worker: it would never
\* be delivered (the TX task and the driver are cut off before, lines 378-408).
NothingBehindStop ==
  \A j, k \in DOMAIN events : j < k /\ events[j] = Stop => events[k] = Stop

\* The transport keeps the promise of FrameService.
ImplementsFrameService == Service!Spec

\* A frame that was accepted is transmitted or refused, and its result passed
\* up unless no callback is installed or the event queue was full, for as
\* long as nobody stops the transport (tx task 778-844, worker 650-692).
Settled(f) ==
  \/ txStop \/ ~initialized \/ fault # "none"
  \/ /\ fate[f] \in Verdicts
     /\ \A k \in DOMAIN events :
          events[k].type = "send_result" => events[k].correlation # f
FramesSettle == \A f \in Frames : fate[f] = "queued" ~> Settled(f)

\* The stop event reaches the worker: it ends, or the program is down.
WorkerEnds ==
  (\E k \in DOMAIN events : events[k] = Stop) ~> (worker.pc = "none" \/ fault # "none")
=============================================================================
