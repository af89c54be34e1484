------------------------ MODULE EspNowTransport_proofs ------------------------
(***************************************************************************)
(* Proofs about the ESP-NOW transport, for any number of frames and        *)
(* addresses, every length of its queues and every interleaving of the     *)
(* senders, the two tasks, the driver and a deinit.                        *)
(*                                                                         *)
(* Inv is inductive.  Its heart is InOrder: a frame is never further on    *)
(* its way than one accepted before it.  TxInv ties the record the TX task *)
(* shares with the callback of the driver to the frame the task works on.  *)
(***************************************************************************)
EXTENDS EspNowTransport, FiniteSetTheorems, WellFoundedInduction, TLAPS

\* What a stage of deinit has already taken away.
LifeInv ==
  /\ up = initialized
  /\ stage # "none" => initialized
  /\ stage \in {"unregister", "stopWorker", "driverOff"} => tx.pc = "none"
  /\ stage \in {"stopWorker", "driverOff"} => ~registered
  /\ ~initialized => /\ ~registered /\ tx.pc = "none" /\ requests = <<>>
                     /\ \A f \in Frames : fate[f] \notin {"queued", "flying"}

\* Behind a stop event nobody is left who posts one.
StopInv ==
  /\ NothingBehindStop
  /\ (\E k \in DOMAIN events : events[k] = Stop) => tx.pc = "none" /\ ~registered

\* A frame is never further on its way than one accepted before it.
InOrder ==
  \A f, g \in Frames :
    \/ fate[f] = "new" /\ fate[g] # "new"
    \/ fate[f] = "queued" /\ fate[g] \in {"flying"} \cup Verdicts
    \/ fate[f] = "flying" /\ fate[g] \in Verdicts
    => g < f

SenderInv == sender # NoFrame =>
  fate[sender] = "new" /\ \A g \in Frames : g < sender => fate[g] # "new"

\* The queue holds the accepted frames in order; one may be out of it already.
RequestInv ==
  /\ \A k \in DOMAIN requests : fate[requests[k]] = "queued"
  /\ \A j, k \in DOMAIN requests : j < k => requests[j] < requests[k]
  /\ \A f \in Frames : fate[f] = "queued" =>
       \/ \E k \in DOMAIN requests : requests[k] = f
       \/ tx.pc = "submitting" /\ tx.frame = f

Results == {k \in DOMAIN events : events[k].type = "send_result"}

\* The shared record is about the frame of the TX task.
Submitting ==
  /\ tx.frame \in Frames
  /\ fate[tx.frame] = "queued"
  /\ pending = Started(tx.frame)
  /\ \A k \in DOMAIN requests : tx.frame < requests[k]
Awaiting ==
  /\ tx.frame \in Frames
  /\ fate[tx.frame] \in {"flying", "ok", "failed"}
  /\ pending.active /\ pending.expected = DestOf[tx.frame]
  /\ MacOf(pending.destination) = MacOf(DestOf[tx.frame])
  /\ pending.correlation = tx.frame
  /\ fate[tx.frame] # "flying" => pending.status = fate[tx.frame]
  /\ \A k \in Results : events[k].correlation < tx.frame
  /\ \A k \in DOMAIN told : told[k].frame < tx.frame
TxInv ==
  /\ tx.pc = "submitting" => Submitting
  /\ tx.pc = "awaiting" => Awaiting
  /\ tx.pc # "none" /\ notified /\ ~txStop =>
       tx.pc = "awaiting" /\ fate[tx.frame] # "flying"

FlyingInv ==
  \A f \in Frames : fate[f] = "flying" =>
    /\ tx.pc # "none" => tx.pc = "awaiting" /\ tx.frame = f
    /\ \A g \in Frames : fate[g] = "flying" => g = f

\* The results are in the order of their frames, those passed up before.
ResultInv ==
  /\ ResultsAreTrue
  /\ \A j, k \in Results : j < k =>
       events[j].correlation < events[k].correlation
  /\ \A j \in DOMAIN told :
       /\ fate[told[j].frame] \in Verdicts
       /\ \A k \in Results : told[j].frame < events[k].correlation

Inv ==
  /\ TypeOK /\ IsFiniteSet(peers)
  /\ LifeInv /\ StopInv /\ InOrder /\ SenderInv /\ RequestInv /\ TxInv /\ FlyingInv
  /\ ResultInv

-----------------------------------------------------------------------------
\* The verdicts and fates of FrameService.
LEMMA Fates ==
  /\ Verdicts = {"ok", "failed", "refused"}
  /\ Service!Fates = {"new", "queued", "flying", "lost", "ok", "failed", "refused"}
  /\ \A v : Service!ResultOf(v) = IF v = "ok" THEN "ok" ELSE "failed"
  BY DEF Verdicts, Service!Verdicts, Service!Fates, Service!ResultOf

LEMMA FramesAreNumbers ==
  /\ Frames \in SUBSET Nat /\ NoFrame \notin Frames /\ NoFrame \in Nat
  /\ \A f \in Frames : DestOf[f] \in Addresses \cup {Broadcast}
  BY SizesAssumption, AddressesAssumption DEF Frames, NoFrame

\* The driver's form of an address, which is its own.
LEMMA MacFacts ==
  /\ \A a \in Destinations : /\ MacOf(a) \in Addresses \cup {BroadcastMac}
                              /\ MacOf(a) \in Destinations
                              /\ MacOf(MacOf(a)) = MacOf(a)
  /\ \A f \in Frames : DestOf[f] \in Destinations
  BY AddressesAssumption, FramesAreNumbers DEF Destinations, MacOf

\* The constructors of events, and what tells them apart.
LEMMA EventFacts ==
  /\ Stop \in Events /\ Receive \in Events
  /\ \A f \in Frames, a \in Destinations, r \in {"ok", "failed"} :
       LET e == SendResult(f, a, r) IN
       /\ e \in Events /\ e # Stop
       /\ e.type = "send_result" /\ e.correlation = f /\ e.result = r
       /\ e.source = a
  /\ Stop.type = "stop" /\ Receive.type = "receive" /\ Receive # Stop
  /\ \A e \in Events : \/ e = Stop
                       \/ e = Receive
                       \/ /\ e.type = "send_result" /\ e # Stop
                          /\ e.result \in {"ok", "failed"}
                          /\ e.correlation \in Frames \cup {NoFrame}
<1>1. /\ Stop \in Events /\ Receive \in Events
      /\ Stop.type = "stop" /\ Receive.type = "receive" /\ Receive # Stop
  BY DEF Stop, Receive, Events
<1>2. ASSUME NEW f \in Frames, NEW a \in Destinations, NEW r \in {"ok", "failed"}
      PROVE  LET e == SendResult(f, a, r) IN
             /\ e \in Events /\ e # Stop
             /\ e.type = "send_result" /\ e.correlation = f /\ e.result = r
             /\ e.source = a
  <2>. DEFINE e == SendResult(f, a, r)
  <2>1. /\ e.type = "send_result" /\ e.correlation = f /\ e.result = r
        /\ e.source = a
    BY DEF SendResult
  <2>2. e \in Events
    BY FramesAreNumbers DEF SendResult, Events
  <2>3. e # Stop
    BY <1>1, <2>1
  <2>. QED
    BY <2>1, <2>2, <2>3
<1>3. ASSUME NEW e \in Events, e # Stop, e # Receive
      PROVE  /\ e.type = "send_result" /\ e.result \in {"ok", "failed"}
             /\ e.correlation \in Frames \cup {NoFrame}
  BY <1>3 DEF Events
<1>. QED
  BY <1>1, <1>2, <1>3

\* xQueueSend at the end of a queue.
LEMMA AppendFacts ==
  ASSUME NEW S, NEW s \in Seq(S), NEW e \in S
  PROVE  /\ Append(s, e) \in Seq(S) /\ Len(Append(s, e)) = Len(s) + 1
         /\ \A k \in DOMAIN s : k \in DOMAIN Append(s, e) /\ Append(s, e)[k] = s[k]
                                /\ k < Len(s) + 1
         /\ Len(s) + 1 \in DOMAIN Append(s, e) /\ Append(s, e)[Len(s) + 1] = e
         /\ \A k \in DOMAIN Append(s, e) : k \in DOMAIN s \/ k = Len(s) + 1
         /\ Len(s) \in Nat /\ DOMAIN s \in SUBSET Nat
  OBVIOUS

\* xQueueReceive at its front.
LEMMA TailFacts ==
  ASSUME NEW S, NEW s \in Seq(S), s # <<>>
  PROVE  /\ Tail(s) \in Seq(S) /\ Len(Tail(s)) = Len(s) - 1 /\ Len(Tail(s)) < Len(s)
         /\ 1 \in DOMAIN s /\ Head(s) = s[1] /\ Head(s) \in S
         /\ \A k \in DOMAIN Tail(s) : /\ k \in Nat /\ k + 1 \in DOMAIN s
                                      /\ Tail(s)[k] = s[k + 1] /\ 1 < k + 1
         /\ \A k \in DOMAIN s : k # 1 => k - 1 \in DOMAIN Tail(s)
                                         /\ Tail(s)[k - 1] = s[k]
<1>1. Len(s) \in Nat /\ Len(s) # 0 /\ DOMAIN s = 1..Len(s)
  OBVIOUS
<1>2. Tail(s) \in Seq(S) /\ Len(Tail(s)) = Len(s) - 1
  BY <1>1
<1>3. DOMAIN Tail(s) = 1..(Len(s) - 1)
  BY <1>2
<1>4. \A k \in 1..(Len(s) - 1) : Tail(s)[k] = s[k + 1]
  BY <1>1
<1>. QED
  BY <1>1, <1>2, <1>3, <1>4

\* The queue of events takes one more or drops it.
LEMMA PostFacts ==
  ASSUME TypeOK, NEW e \in Events
  PROVE  /\ Post(e) \in Seq(Events) /\ Len(Post(e)) <= EventQueueLength
         /\ \A k \in DOMAIN Post(e) :
              \/ k \in DOMAIN events /\ Post(e)[k] = events[k] /\ k < Len(events) + 1
              \/ k = Len(events) + 1 /\ Post(e)[k] = e
         /\ Len(events) \in Nat
<1>1. events \in Seq(Events) /\ Len(events) \in Nat /\ Len(events) <= EventQueueLength
  BY DEF TypeOK
<1>2. CASE Len(events) < EventQueueLength
  BY <1>1, <1>2, AppendFacts, SizesAssumption DEF Post
<1>3. CASE ~(Len(events) < EventQueueLength)
  BY <1>1, <1>3 DEF Post
<1>. QED
  BY <1>2, <1>3

\* The next frame is the first new one.
LEMMA NextFrameIsFirst ==
  ASSUME \E f \in Frames : fate[f] = "new"
  PROVE  /\ NextFrame \in Frames /\ fate[NextFrame] = "new"
         /\ \A g \in Frames : g < NextFrame => fate[g] # "new"
<1>. DEFINE T == {f \in Frames : fate[f] = "new"}
<1>1. T \in SUBSET Nat /\ T # {}
  BY FramesAreNumbers
<1>2. PICK f \in T : \A g \in T : ~(<<g, f>> \in OpToRel(<, Nat))
  BY <1>1, WFMin, NatLessThanWellFounded
<1>3. ASSUME NEW g \in T PROVE f <= g
  <2>1. ~(g < f)
    BY <1>1, <1>2 DEF OpToRel
  <2>. QED
    BY <1>1, <2>1
<1>4. fate[NextFrame] = "new" /\ NextFrame \in Frames /\ \A g \in T : NextFrame <= g
  BY <1>3 DEF NextFrame
<1>. QED
  BY <1>1, <1>4, FramesAreNumbers

-----------------------------------------------------------------------------
(* Types *)

WorkerTypes == [pc : WorkerStates, event : Events]
TxTypes == [pc : TxStates, frame : Frames \cup {NoFrame}]
RecordTypes == [active : BOOLEAN, expected : Addresses \cup {Broadcast},
                destination : Destinations,
                status : {"ok", "failed"}, correlation : Frames \cup {NoFrame}]

LEMMA RecordFacts ==
  /\ Nothing \in RecordTypes
  /\ \A f \in Frames : /\ Started(f) \in RecordTypes
                       /\ Started(f).active /\ Started(f).expected = DestOf[f]
                       /\ Started(f).correlation = f
                       /\ Started(f).destination = DestOf[f]
  /\ \A r \in RecordTypes : /\ [r EXCEPT !.active = FALSE] \in RecordTypes
                            /\ \A end \in {"ok", "failed"}, a \in Destinations :
                                 [r EXCEPT !.status = end, !.destination = a] \in RecordTypes
                            /\ [r EXCEPT !.active = FALSE, !.expected = Broadcast,
                                         !.correlation = NoFrame] \in RecordTypes
  BY FramesAreNumbers DEF Nothing, Started, RecordTypes, Destinations

LifeTyped ==
  /\ initialized \in BOOLEAN /\ up \in BOOLEAN /\ registered \in BOOLEAN
  /\ stage \in Stages /\ callbacks \in SUBSET Callbacks /\ fault \in Faults
  /\ sender \in Frames \cup {NoFrame}
PeersTyped == peers \in SUBSET (Addresses \cup {BroadcastMac}) /\ Cardinality(peers) <= MaxPeers
QueuesTyped ==
  /\ requests \in Seq(Frames) /\ Len(requests) <= TxQueueLength
  /\ events \in Seq(Events) /\ Len(events) <= EventQueueLength
TasksTyped ==
  /\ worker \in WorkerTypes /\ tx \in TxTypes /\ pending \in RecordTypes
  /\ txStop \in BOOLEAN /\ notified \in BOOLEAN
HistoryTyped ==
  /\ fate \in [Frames -> Service!Fates]
  /\ told \in Seq([frame : Frames, result : {"ok", "failed"}])

LEMMA TypeParts ==
  TypeOK <=> LifeTyped /\ PeersTyped /\ QueuesTyped /\ TasksTyped /\ HistoryTyped
  BY DEF TypeOK, LifeTyped, PeersTyped, QueuesTyped, TasksTyped, HistoryTyped,
         WorkerTypes, TxTypes, RecordTypes

LEMMA InitTypes == Init => TypeOK /\ IsFiniteSet(peers)
<1>. SUFFICES ASSUME Init PROVE TypeOK /\ IsFiniteSet(peers)
  OBVIOUS
<1>1. LifeTyped
  BY DEF Init, LifeTyped, Stages, Faults
<1>2. IsFiniteSet(peers) /\ PeersTyped
  BY FS_EmptySet, SizesAssumption DEF Init, PeersTyped
<1>3. QueuesTyped
  BY SizesAssumption DEF Init, QueuesTyped
<1>4. TasksTyped
  BY EventFacts, RecordFacts
  DEF Init, TasksTyped, WorkerTypes, WorkerStates, TxTypes, TxStates
<1>5. HistoryTyped
  BY Fates DEF Init, HistoryTyped
<1>. QED
  BY <1>1, <1>2, <1>3, <1>4, <1>5, TypeParts

\* The addresses the driver knows, after it has learnt one more.
LEMMA PeersGrow ==
  ASSUME IsFiniteSet(peers), PeersTyped,
         NEW a \in Addresses \cup {BroadcastMac}, a \in peers \/ Cardinality(peers) < MaxPeers
  PROVE  /\ IsFiniteSet(peers \cup {a})
         /\ peers \cup {a} \in SUBSET (Addresses \cup {BroadcastMac})
         /\ Cardinality(peers \cup {a}) <= MaxPeers
<1>. USE DEF PeersTyped
<1>1. CASE a \in peers
  <2>1. peers \cup {a} = peers
    BY <1>1
  <2>. QED
    BY <2>1
<1>2. CASE a \notin peers
  <2>1. IsFiniteSet(peers \cup {a}) /\ Cardinality(peers \cup {a}) = Cardinality(peers) + 1
    BY <1>2, FS_AddElement
  <2>2. Cardinality(peers) \in Nat
    BY FS_CardinalityType
  <2>. QED
    BY <1>2, <2>1, <2>2, SizesAssumption
<1>. QED
  BY <1>1, <1>2

LEMMA NextPeers ==
  ASSUME TypeOK, IsFiniteSet(peers), Next
  PROVE  IsFiniteSet(peers') /\ PeersTyped'
<1>. USE TypeParts
<1>1. CASE UNCHANGED peers
  BY <1>1 DEF PeersTyped
<1>2. CASE SendBegin
  <2>1. NextFrame \in Frames
    BY <1>2, NextFrameIsFirst DEF SendBegin
  <2>. QED
    BY <1>2, <2>1, PeersGrow, MacFacts DEF SendBegin, PeersTyped
<1>3. CASE peers' = {BroadcastMac}
  BY <1>3, FS_Singleton, SizesAssumption DEF PeersTyped
<1>4. CASE peers' = {}
  BY <1>4, FS_EmptySet, SizesAssumption DEF PeersTyped
<1>. QED
  BY <1>1, <1>2, <1>3, <1>4
  DEF Next, InitCall, SetCallback, DeinitBegin, DeinitStep, DeinitTx, DeinitUnregister,
      DeinitWorker, DriverStays, DriverGone, SendQueue, TxStep, TxTake, TxRefused,
      TxSubmitted, TxWake, DriverStep, SendCallback, ReceiveCallback, WorkerStep,
      WorkerTake, WorkerReturn, lifeVars, queueVars, taskVars

LEMMA NextLifeTyped ==
  ASSUME LifeTyped, Next
  PROVE  LifeTyped'
<1>1. CASE SendBegin
  <2>1. sender' \in Frames
    BY <1>1, NextFrameIsFirst DEF SendBegin
  <2>. QED
    BY <1>1, <2>1 DEF SendBegin, LifeTyped, lifeVars
<1>2. CASE InitCall \/ DeinitBegin \/ DeinitStep \/ DriverStays \/ DriverGone
             \/ \E c \in Callbacks : SetCallback(c)
  BY <1>2
  DEF InitCall, SetCallback, DeinitBegin, DeinitStep, DeinitTx, DeinitUnregister,
      DeinitWorker, DriverStays, DriverGone, LifeTyped, Stages, Faults
<1>3. CASE SendQueue \/ TxStep \/ DriverStep \/ ReceiveCallback \/ WorkerStep
  BY <1>3
  DEF SendQueue, TxStep, TxTake, TxRefused, TxSubmitted, TxWake, DriverStep, SendCallback,
      ReceiveCallback, WorkerStep, WorkerTake, WorkerReturn, WorkerLoops, lifeVars,
      LifeTyped, Faults
<1>. QED
  BY <1>1, <1>2, <1>3 DEF Next

\* A result the TX task posts is an event.
LEMMA PostsTyped ==
  ASSUME Inv, TxWake, ~txStop
  PROVE  /\ Awaiting /\ fate[tx.frame] \in {"ok", "failed"}
         /\ pending.destination \in Destinations
         /\ events' = Post(SendResult(tx.frame, pending.destination, fate[tx.frame]))
<1>1. Awaiting /\ fate[tx.frame] # "flying"
  BY DEF Inv, TxInv, TxWake
<1>2. pending.destination \in Destinations
  BY TypeParts DEF Inv, TasksTyped, RecordTypes
<1>. QED
  BY <1>1, <1>2 DEF Awaiting, TxWake

LEMMA NextQueuesTyped ==
  ASSUME Inv, Next
  PROVE  QueuesTyped'
<1>1. TypeOK /\ QueuesTyped
  BY TypeParts DEF Inv
<1>. USE SizesAssumption DEF QueuesTyped
<1>2. CASE UNCHANGED queueVars
  BY <1>1, <1>2 DEF queueVars
<1>3. CASE requests' = <<>> /\ (events' = <<>> \/ UNCHANGED events)
  <2>1. requests' \in Seq(Frames) /\ Len(requests') = 0
    BY <1>3
  <2>2. CASE events' = <<>>
    <3>1. events' \in Seq(Events) /\ Len(events') = 0
      BY <2>2
    <3>. QED
      BY <2>1, <3>1
  <2>3. CASE UNCHANGED events
    BY <1>1, <2>1, <2>3
  <2>. QED
    BY <1>3, <2>2, <2>3
<1>4. CASE DeinitWorker
  BY <1>1, <1>4, AppendFacts, EventFacts DEF DeinitWorker
<1>5. CASE SendQueue
  <2>1. sender \in Frames
    BY <1>1, <1>5, TypeParts DEF SendQueue, LifeTyped
  <2>2. /\ Append(requests, sender) \in Seq(Frames)
        /\ Len(Append(requests, sender)) = Len(requests) + 1 /\ Len(requests) \in Nat
    BY <1>1, <2>1, AppendFacts
  <2>3. \/ UNCHANGED requests
        \/ requests' = Append(requests, sender) /\ Len(requests) < TxQueueLength
    BY <1>5 DEF SendQueue
  <2>4. requests' \in Seq(Frames) /\ Len(requests') <= TxQueueLength
    BY <1>1, <2>2, <2>3
  <2>. QED
    BY <1>1, <1>5, <2>4 DEF SendQueue
<1>6. CASE TxTake
  BY <1>1, <1>6, TailFacts DEF TxTake
<1>7. CASE TxRefused
  <2>1. tx.frame \in Frames
    BY <1>7 DEF TxRefused, Inv, TxInv, Submitting
  <2>2. SendResult(tx.frame, DestOf[tx.frame], "failed") \in Events
    BY <2>1, EventFacts, MacFacts
  <2>. QED
    BY <1>1, <1>7, <2>2, PostFacts DEF TxRefused
<1>8. CASE TxWake
  <2>1. CASE txStop
    BY <1>1, <1>8, <2>1 DEF TxWake
  <2>2. CASE ~txStop
    <3>1. SendResult(tx.frame, pending.destination, fate[tx.frame]) \in Events
      BY <1>8, <2>2, PostsTyped, EventFacts DEF Awaiting
    <3>2. events' \in Seq(Events) /\ Len(events') <= EventQueueLength
      BY <1>1, <1>8, <2>2, <3>1, PostsTyped, PostFacts
    <3>. QED
      BY <1>1, <1>8, <3>2 DEF TxWake
  <2>. QED
    BY <2>1, <2>2
<1>9. CASE ReceiveCallback
  <2>1. events' \in Seq(Events) /\ Len(events') <= EventQueueLength
    BY <1>1, <1>9, EventFacts, PostFacts DEF ReceiveCallback
  <2>. QED
    BY <1>1, <1>9, <2>1 DEF ReceiveCallback
<1>10. CASE WorkerTake
  BY <1>1, <1>10, TailFacts DEF WorkerTake
<1>. QED
  BY <1>2, <1>3, <1>4, <1>5, <1>6, <1>7, <1>8, <1>9, <1>10
  DEF Next, InitCall, SetCallback, DeinitBegin, DeinitStep, DeinitTx, DeinitUnregister,
      DriverStays, DriverGone, SendBegin, TxStep, TxSubmitted, DriverStep, SendCallback,
      WorkerStep, WorkerReturn, queueVars

\* The end of a round of the TX task leaves its state and record typed.
LEMMA RoundEnds ==
  ASSUME TypeOK
  PROVE  /\ NextRound \in TxTypes /\ NextRound.frame = NoFrame
         /\ NextRound.pc = IF txStop THEN "none" ELSE "blocked"
         /\ Clear \in RecordTypes
  BY TypeParts, RecordFacts DEF TasksTyped, NextRound, TxTypes, TxStates, Clear

LEMMA NextTasksTyped ==
  ASSUME TypeOK, Next
  PROVE  TasksTyped'
<1>1. TasksTyped /\ QueuesTyped
  BY TypeParts
<1>2. CASE UNCHANGED taskVars
  BY <1>1, <1>2 DEF taskVars, TasksTyped
<1>3. ASSUME InitCall \/ DriverGone \/ DeinitBegin \/ DeinitTx \/ DeinitWorker
      PROVE  TasksTyped'
  <2>1. pending' \in RecordTypes
    BY <1>1, <1>3, RecordFacts
    DEF InitCall, DriverGone, DeinitBegin, DeinitTx, DeinitWorker, TasksTyped, taskVars
  <2>2. worker' \in WorkerTypes /\ tx' \in TxTypes
    BY <1>1, <1>3, EventFacts
    DEF InitCall, DriverGone, DeinitBegin, DeinitTx, DeinitWorker, TasksTyped, taskVars,
        WorkerTypes, WorkerStates, TxTypes, TxStates
  <2>. QED
    BY <1>1, <1>3, <2>1, <2>2
    DEF InitCall, DriverGone, DeinitBegin, DeinitTx, DeinitWorker, TasksTyped, taskVars
<1>4. CASE TxTake
  <2>1. Head(requests) \in Frames
    BY <1>1, <1>4, TailFacts DEF TxTake, QueuesTyped
  <2>2. pending' \in RecordTypes
    BY <1>1, <1>4, <2>1, RecordFacts DEF TxTake, TasksTyped
  <2>3. tx' \in TxTypes
    BY <1>4, <2>1, RoundEnds DEF TxTake, TxTypes, TxStates
  <2>. QED
    BY <1>1, <1>4, <2>2, <2>3 DEF TxTake, TasksTyped
<1>5. CASE TxRefused
  BY <1>1, <1>5, RoundEnds DEF TxRefused, TasksTyped
<1>6. CASE TxSubmitted
  BY <1>1, <1>6 DEF TxSubmitted, TasksTyped, TxTypes, TxStates
<1>7. CASE TxWake
  BY <1>1, <1>7, RoundEnds DEF TxWake, TasksTyped
<1>8. ASSUME NEW f \in Frames, NEW end \in {"ok", "failed"}, SendCallback(f, end)
      PROVE  TasksTyped'
  <2>1. [pending EXCEPT !.status = end, !.destination = MacOf(DestOf[f])] \in RecordTypes
    BY <1>1, RecordFacts, MacFacts DEF TasksTyped
  <2>. QED
    BY <1>1, <1>8, <2>1 DEF SendCallback, TasksTyped
<1>9. CASE WorkerTake
  <2>1. Head(events) \in Events
    BY <1>1, <1>9, TailFacts DEF WorkerTake, QueuesTyped
  <2>2. worker' \in WorkerTypes
    BY <1>1, <1>9, <2>1, EventFacts
    DEF WorkerTake, WorkerLoops, WorkerTypes, WorkerStates, TasksTyped
  <2>. QED
    BY <1>1, <1>9, <2>2 DEF WorkerTake, TasksTyped
<1>10. CASE WorkerReturn
  <2>1. worker' \in WorkerTypes
    BY <1>1, <1>10, EventFacts
    DEF WorkerReturn, WorkerLoops, WorkerTypes, WorkerStates, TasksTyped
  <2>. QED
    BY <1>1, <1>10, <2>1 DEF WorkerReturn, TasksTyped
<1>. QED
  BY <1>2, <1>3, <1>4, <1>5, <1>6, <1>7, <1>8, <1>9, <1>10
  DEF Next, SetCallback, DeinitStep, DeinitUnregister, DriverStays, SendBegin, SendQueue,
      TxStep, DriverStep, ReceiveCallback, WorkerStep, taskVars

\* The event that is passed up as a result is one, of a frame.
LEMMA TellsResult ==
  ASSUME Inv, WorkerTake, ~UNCHANGED told
  PROVE  /\ 1 \in Results
         /\ told' = Append(told, [frame |-> events[1].correlation,
                                  result |-> events[1].result])
         /\ events[1].correlation \in Frames /\ events[1].result \in {"ok", "failed"}
<1>1. events \in Seq(Events) /\ events # <<>>
  BY TypeParts DEF Inv, QueuesTyped, WorkerTake
<1>2. 1 \in DOMAIN events /\ Head(events) = events[1] /\ events[1] \in Events
  BY <1>1, TailFacts
<1>. DEFINE e == events[1]
<1>3. /\ told' = Append(told, [frame |-> e.correlation, result |-> e.result])
      /\ e # Stop /\ CallbackOf[e.type] # "receive"
  BY <1>2 DEF WorkerTake, Ends
<1>4. e.type = "send_result" /\ e.result \in {"ok", "failed"}
  BY <1>2, <1>3, EventFacts DEF CallbackOf
<1>5. 1 \in Results
  BY <1>2, <1>4 DEF Results
<1>6. e.correlation \in Frames
  BY <1>2, <1>4 DEF Inv, ResultInv, ResultsAreTrue
<1>. QED
  BY <1>3, <1>4, <1>5, <1>6

LEMMA NextHistoryTyped ==
  ASSUME Inv, Next
  PROVE  HistoryTyped'
<1>1. HistoryTyped
  BY TypeParts DEF Inv
<1>2. told' \in Seq([frame : Frames, result : {"ok", "failed"}])
  <2>1. CASE UNCHANGED told
    BY <1>1, <2>1 DEF HistoryTyped
  <2>2. CASE WorkerTake /\ ~UNCHANGED told
    <3>. DEFINE r == [frame |-> events[1].correlation, result |-> events[1].result]
    <3>1. told' = Append(told, r) /\ r \in [frame : Frames, result : {"ok", "failed"}]
      BY <2>2, TellsResult
    <3>. HIDE DEF r
    <3>. QED
      BY <1>1, <3>1 DEF HistoryTyped
  <2>. QED
    BY <2>1, <2>2
    DEF Next, InitCall, SetCallback, DeinitBegin, DeinitStep, DeinitTx, DeinitUnregister,
        DeinitWorker, DriverStays, DriverGone, SendBegin, SendQueue, TxStep, TxTake,
        TxRefused, TxSubmitted, TxWake, DriverStep, SendCallback, ReceiveCallback,
        WorkerStep, WorkerReturn
<1>3. fate' \in [Frames -> Service!Fates]
  <2>1. \A f \in Frames, to \in Service!Fates :
          [fate EXCEPT ![f] = to] \in [Frames -> Service!Fates]
    BY <1>1 DEF HistoryTyped
  <2>2. \A f, to : f \notin Frames => [fate EXCEPT ![f] = to] = fate
    BY <1>1 DEF HistoryTyped
  <2>3. CASE UNCHANGED fate
    BY <1>1, <2>3 DEF HistoryTyped
  <2>4. CASE DriverGone
    BY <1>1, <2>4, Fates DEF DriverGone, HistoryTyped
  <2>5. CASE \E f, to : to \in Service!Fates /\ fate' = [fate EXCEPT ![f] = to]
    BY <1>1, <2>1, <2>2, <2>5 DEF HistoryTyped
  <2>. QED
    BY <2>3, <2>4, <2>5, Fates
    DEF Next, InitCall, SetCallback, DeinitBegin, DeinitStep, DeinitTx, DeinitUnregister,
        DeinitWorker, DriverStays, SendBegin, SendQueue, TxStep, TxTake,
        TxRefused, TxSubmitted, TxWake, DriverStep, SendCallback, ReceiveCallback,
        WorkerStep, WorkerTake, WorkerReturn
<1>. QED
  BY <1>2, <1>3 DEF HistoryTyped

LEMMA NextTypes ==
  ASSUME Inv, Next
  PROVE  TypeOK' /\ IsFiniteSet(peers')
<1>1. LifeTyped' /\ QueuesTyped' /\ TasksTyped' /\ HistoryTyped' /\ PeersTyped'
      /\ IsFiniteSet(peers')
  BY NextLifeTyped, NextQueuesTyped, NextTasksTyped, NextHistoryTyped, NextPeers, TypeParts
  DEF Inv
<1>. QED
  BY <1>1
  DEF TypeOK, LifeTyped, PeersTyped, QueuesTyped, TasksTyped, HistoryTyped, WorkerTypes,
      TxTypes, RecordTypes

-----------------------------------------------------------------------------
(* How fates change *)

Goes(f, from, to) ==
  f \in Frames /\ fate[f] = from /\ fate' = [fate EXCEPT ![f] = to]

\* Where a frame stands that the TX task works on, or is about to.
LEMMA Handled ==
  ASSUME Inv
  PROVE  /\ tx.pc = "submitting" => tx.frame \in Frames /\ fate[tx.frame] = "queued"
         /\ requests # <<>> => Head(requests) \in Frames /\ fate[Head(requests)] = "queued"
         /\ sender # NoFrame => sender \in Frames /\ fate[sender] = "new"
<1>1. requests # <<>> => 1 \in DOMAIN requests /\ Head(requests) = requests[1]
                         /\ Head(requests) \in Frames
  BY TypeParts, TailFacts DEF Inv, QueuesTyped
<1>. QED
  BY <1>1, TypeParts DEF Inv, TxInv, Submitting, RequestInv, SenderInv, LifeTyped

LEMMA FateSteps ==
  ASSUME Inv, Next
  PROVE  \/ UNCHANGED fate
         \/ DriverGone
         \/ DeinitTx /\ tx.pc = "submitting" /\ Goes(tx.frame, "queued", "lost")
         \/ SendQueue /\ up /\ Goes(sender, "new", "queued")
         \/ SendQueue /\ Goes(sender, "new", "lost")
         \/ TxTake /\ txStop /\ Goes(Head(requests), "queued", "lost")
         \/ TxRefused /\ Goes(tx.frame, "queued", "refused")
         \/ TxSubmitted /\ Goes(tx.frame, "queued", "flying")
         \/ \E f \in Frames, end \in {"ok", "failed"} :
              SendCallback(f, end) /\ Goes(f, "flying", end)
<1>1. CASE DeinitTx
  BY <1>1, Handled DEF DeinitTx, Goes
<1>2. CASE SendQueue
  BY <1>2, Handled DEF SendQueue, Goes
<1>3. CASE TxTake
  BY <1>3, Handled DEF TxTake, Goes
<1>4. CASE TxRefused
  BY <1>4, Handled DEF TxRefused, Goes
<1>5. CASE TxSubmitted
  BY <1>5, Handled DEF TxSubmitted, Goes
<1>6. ASSUME NEW f \in Frames, NEW end \in {"ok", "failed"}, SendCallback(f, end)
      PROVE  Goes(f, "flying", end)
  BY <1>6 DEF SendCallback, Goes
<1>. QED
  BY <1>1, <1>2, <1>3, <1>4, <1>5, <1>6
  DEF Next, InitCall, SetCallback, DeinitBegin, DeinitStep, DeinitUnregister,
      DeinitWorker, DriverStays, SendBegin, TxStep, TxWake, DriverStep,
      ReceiveCallback, WorkerStep, WorkerTake, WorkerReturn

\* What a step cannot do to a frame.
LEMMA FatesMove ==
  ASSUME Inv, Next, NEW f \in Frames
  PROVE  /\ fate[f] \in Verdicts => fate'[f] = fate[f]
         /\ fate'[f] = "new" => fate[f] = "new"
         /\ fate'[f] # "new" /\ fate[f] = "new" => SendQueue /\ f = sender
         /\ fate'[f] = "queued" /\ fate[f] # "queued" => SendQueue /\ f = sender
         /\ fate'[f] = "flying" /\ fate[f] # "flying" => TxSubmitted /\ f = tx.frame
<1>1. fate \in [Frames -> Service!Fates]
  BY TypeParts DEF Inv, HistoryTyped
<1>2. CASE DriverGone
  BY <1>1, <1>2, Fates DEF DriverGone
<1>3. ASSUME NEW g, NEW from, NEW to, Goes(g, from, to)
      PROVE  /\ fate'[f] = IF f = g THEN to ELSE fate[f]
             /\ fate[g] = from
  BY <1>1, <1>3 DEF Goes
<1>. QED
  BY <1>1, <1>2, <1>3, FateSteps, Fates

-----------------------------------------------------------------------------
(* The invariant *)

LEMMA InitInv == Init => Inv
<1>. SUFFICES ASSUME Init PROVE Inv
  OBVIOUS
<1>1. TypeOK /\ IsFiniteSet(peers)
  BY InitTypes
<1>2. LifeInv /\ InOrder /\ SenderInv /\ TxInv /\ FlyingInv
  BY Fates DEF Init, LifeInv, InOrder, SenderInv, TxInv, FlyingInv
<1>3. DOMAIN events = {} /\ DOMAIN requests = {} /\ DOMAIN told = {}
  BY DEF Init
<1>4. StopInv /\ RequestInv /\ ResultInv
  BY <1>3
  DEF Init, StopInv, NothingBehindStop, RequestInv, ResultInv, Results, ResultsAreTrue
<1>. QED
  BY <1>1, <1>2, <1>4 DEF Inv

LEMMA NextOrder ==
  ASSUME Inv, Next
  PROVE  InOrder'
<1>. USE Fates
<1>1. fate \in [Frames -> Service!Fates] /\ Frames \in SUBSET Nat
  BY TypeParts, FramesAreNumbers DEF Inv, HistoryTyped
<1>2. InOrder
  BY DEF Inv
<1>3. CASE \A f \in Frames : \/ fate'[f] = fate[f]
                             \/ fate'[f] = "lost" /\ fate[f] # "new"
  BY <1>2, <1>3 DEF InOrder
<1>4. ASSUME NEW h, NEW from, NEW to, Goes(h, from, to)
      PROVE  \A f \in Frames : fate'[f] = IF f = h THEN to ELSE fate[f]
  BY <1>1, <1>4 DEF Goes
<1>5. CASE DriverGone
  BY <1>1, <1>3, <1>5 DEF DriverGone
<1>6. ASSUME SendQueue, NEW to \in {"queued", "lost"}, Goes(sender, "new", to)
      PROVE  InOrder'
  <2>1. sender \in Frames /\ fate[sender] = "new"
        /\ \A g \in Frames : g < sender => fate[g] # "new"
    BY <1>6, FramesAreNumbers DEF Goes, Inv, SenderInv
  <2>2. \A f \in Frames : fate'[f] = IF f = sender THEN to ELSE fate[f]
    BY <1>4, <1>6
  <2>3. \A f \in Frames : fate[f] = "new" /\ f # sender => sender < f
    BY <1>1, <2>1
  <2>. QED
    BY <1>2, <1>6, <2>1, <2>2, <2>3 DEF InOrder
<1>7. ASSUME tx.pc = "submitting"
      PROVE  /\ tx.frame \in Frames /\ fate[tx.frame] = "queued"
             /\ \A f \in Frames : fate[f] = "queued" /\ f # tx.frame => tx.frame < f
             /\ \A f \in Frames : fate[f] # "flying"
  BY <1>7 DEF Inv, TxInv, Submitting, RequestInv, FlyingInv
<1>8. ASSUME tx.pc = "submitting", NEW to \in {"flying", "refused"},
             Goes(tx.frame, "queued", to)
      PROVE  InOrder'
  <2>1. \A f \in Frames : fate'[f] = IF f = tx.frame THEN to ELSE fate[f]
    BY <1>4, <1>8
  <2>. QED
    BY <1>1, <1>2, <1>7, <1>8, <2>1 DEF InOrder
<1>9. ASSUME NEW h \in Frames, NEW end \in {"ok", "failed"}, Goes(h, "flying", end)
      PROVE  InOrder'
  <2>1. \A f \in Frames : fate'[f] = IF f = h THEN end ELSE fate[f]
    BY <1>4, <1>9
  <2>2. fate[h] = "flying" /\ \A f \in Frames : fate[f] = "flying" => f = h
    BY <1>9 DEF Goes, Inv, FlyingInv
  <2>. QED
    BY <1>1, <1>2, <2>1, <2>2 DEF InOrder
<1>10. ASSUME NEW h, Goes(h, "queued", "lost") PROVE InOrder'
  <2>1. \A f \in Frames : fate'[f] = IF f = h THEN "lost" ELSE fate[f]
    BY <1>4, <1>10
  <2>. QED
    BY <1>3, <1>10, <2>1 DEF Goes
<1>11. CASE UNCHANGED fate
  BY <1>3, <1>11
<1>. QED
  BY <1>5, <1>6, <1>8, <1>9, <1>10, <1>11, FateSteps DEF TxRefused, TxSubmitted

LEMMA NextSender ==
  ASSUME Inv, Next
  PROVE  SenderInv'
<1>1. CASE SendBegin
  BY <1>1, NextFrameIsFirst DEF SendBegin, SenderInv
<1>2. CASE SendQueue
  BY <1>2 DEF SendQueue, SenderInv
<1>3. CASE ~SendQueue /\ UNCHANGED sender
  <2>1. sender # NoFrame => sender \in Frames
    BY TypeParts DEF Inv, LifeTyped
  <2>. QED
    BY <1>3, <2>1, FatesMove DEF Inv, SenderInv
<1>. QED
  BY <1>1, <1>2, <1>3
  DEF Next, InitCall, SetCallback, DeinitBegin, DeinitStep, DeinitTx, DeinitUnregister,
      DeinitWorker, DriverStays, DriverGone, TxStep, TxTake, TxRefused,
      TxSubmitted, TxWake, DriverStep, SendCallback, ReceiveCallback, WorkerStep,
      WorkerTake, WorkerReturn

\* The driver calls back only while it has our callbacks; they leave the tasks alone.
LEMMA DriverKeeps ==
  ASSUME DriverStep
  PROVE  registered /\ UNCHANGED <<lifeVars, tx, worker, txStop>>
  BY DEF DriverStep, SendCallback

LEMMA NextLife ==
  ASSUME Inv, Next
  PROVE  LifeInv'
<1>1. LifeInv /\ fate \in [Frames -> Service!Fates]
  BY TypeParts DEF Inv, HistoryTyped
<1>2. CASE InitCall
  BY <1>1, <1>2 DEF InitCall, LifeInv, taskVars, queueVars
<1>3. CASE DriverGone
  BY <1>1, <1>3 DEF DriverGone, LifeInv
<1>4. CASE DeinitBegin \/ DeinitStep \/ DriverStays \/ \E c \in Callbacks : SetCallback(c)
  BY <1>1, <1>4
  DEF DeinitBegin, DeinitStep, DeinitTx, DeinitUnregister, DeinitWorker, DriverStays,
      SetCallback, LifeInv, taskVars, queueVars
<1>5. CASE SendQueue
  <2>1. sender \in Frames
    BY <1>5, Handled DEF SendQueue
  <2>. QED
    BY <1>1, <1>5, <2>1 DEF SendQueue, LifeInv, lifeVars, taskVars
<1>6. CASE TxStep
  <2>1. tx.pc # "none"
    BY <1>6 DEF TxStep, TxTake, TxRefused, TxSubmitted, TxWake
  <2>. QED
    BY <1>1, <1>6, <2>1
    DEF TxStep, TxTake, TxRefused, TxSubmitted, TxWake, LifeInv, lifeVars
<1>7. CASE SendBegin \/ DriverStep \/ ReceiveCallback \/ WorkerStep
  <2>1. CASE DriverStep
    BY <1>1, <2>1, DriverKeeps DEF LifeInv, lifeVars
  <2>2. CASE SendBegin \/ ReceiveCallback \/ WorkerStep
    BY <1>1, <2>2
    DEF SendBegin, ReceiveCallback, WorkerStep, WorkerTake, WorkerReturn, LifeInv,
        lifeVars, taskVars, queueVars
  <2>. QED
    BY <1>7, <2>1, <2>2
<1>. QED
  BY <1>2, <1>3, <1>4, <1>5, <1>6, <1>7 DEF Next

\* How the queue of events changes.
LEMMA EventSteps ==
  ASSUME Inv, Next
  PROVE  \/ UNCHANGED events
         \/ InitCall /\ events' = <<>>
         \/ DeinitWorker /\ events' = Append(events, Stop)
         \/ TxRefused /\ events' = Post(SendResult(tx.frame, DestOf[tx.frame], "failed"))
         \/ /\ TxWake /\ ~txStop
            /\ events' = Post(SendResult(tx.frame, pending.destination, fate[tx.frame]))
         \/ ReceiveCallback /\ events' = Post(Receive)
         \/ WorkerTake /\ events # <<>> /\ events' = Tail(events)
<1>1. CASE TxWake
  <2>1. CASE txStop
    BY <1>1, <2>1 DEF TxWake
  <2>2. CASE ~txStop
    BY <1>1, <2>2, PostsTyped
  <2>. QED
    BY <2>1, <2>2
<1>2. CASE InitCall \/ DeinitWorker \/ TxRefused \/ ReceiveCallback \/ WorkerTake
  BY <1>2 DEF InitCall, DeinitWorker, TxRefused, ReceiveCallback, WorkerTake, queueVars
<1>. QED
  BY <1>1, <1>2
  DEF Next, SetCallback, DeinitBegin, DeinitStep, DeinitTx, DeinitUnregister,
      DriverStays, DriverGone, SendBegin, SendQueue, TxStep, TxTake, TxSubmitted,
      DriverStep, SendCallback, WorkerStep, WorkerReturn, queueVars

\* Once the tasks and the callbacks are gone, only an init brings them back.
LEMMA StaysQuiet ==
  ASSUME Next, tx.pc = "none", ~registered
  PROVE  \/ tx'.pc = "none" /\ ~registered'
         \/ InitCall /\ events' = <<>>
<1>1. CASE InitCall
  BY <1>1 DEF InitCall, taskVars, queueVars
<1>2. CASE DriverStep
  BY <1>2, DriverKeeps DEF lifeVars
<1>. QED
  BY <1>1, <1>2
  DEF Next, SetCallback, DeinitBegin, DeinitStep, DeinitTx, DeinitUnregister,
      DeinitWorker, DriverStays, DriverGone, SendBegin, SendQueue, TxStep, TxTake,
      TxRefused, TxSubmitted, TxWake, ReceiveCallback, WorkerStep, WorkerTake,
      WorkerReturn, lifeVars, taskVars

LEMMA NextStop ==
  ASSUME Inv, Next
  PROVE  StopInv'
<1>1. TypeOK /\ events \in Seq(Events) /\ DOMAIN events \in SUBSET Nat /\ StopInv
  BY TypeParts DEF Inv, QueuesTyped
<1>2. CASE events' = <<>>
  BY <1>2 DEF StopInv, NothingBehindStop
<1>3. CASE UNCHANGED events
  BY <1>1, <1>2, <1>3, StaysQuiet DEF StopInv, NothingBehindStop
<1>4. ASSUME tx.pc # "none" \/ registered, NEW e \in Events, e # Stop, events' = Post(e)
      PROVE  StopInv'
  <2>1. \A k \in DOMAIN events : events[k] # Stop
    BY <1>1, <1>4 DEF StopInv
  <2>2. \A k \in DOMAIN events' : events'[k] # Stop
    BY <1>1, <1>4, <2>1, PostFacts
  <2>. QED
    BY <2>2 DEF StopInv, NothingBehindStop
<1>5. CASE TxRefused \/ (TxWake /\ ~txStop)
  <2>1. tx.frame \in Frames /\ tx.pc # "none"
        /\ (TxWake /\ ~txStop => fate[tx.frame] \in {"ok", "failed"})
    BY <1>5, Handled, PostsTyped DEF TxRefused, TxWake, Awaiting
  <2>2. PICK a \in Destinations, r \in {"ok", "failed"} :
          events' = Post(SendResult(tx.frame, a, r))
    BY <1>5, <2>1, PostsTyped, MacFacts DEF TxRefused
  <2>. QED
    BY <1>4, <2>1, <2>2, EventFacts
<1>6. CASE ReceiveCallback
  BY <1>4, <1>6, EventFacts DEF ReceiveCallback
<1>7. CASE DeinitWorker /\ events' = Append(events, Stop)
  <2>1. tx'.pc = "none" /\ ~registered'
    BY <1>7 DEF DeinitWorker, Inv, LifeInv
  <2>2. NothingBehindStop'
    <3>1. ASSUME NEW j \in DOMAIN events', NEW k \in DOMAIN events', j < k,
                 events'[j] = Stop
          PROVE  events'[k] = Stop
      <4>1. CASE k = Len(events) + 1
        BY <1>1, <1>7, <4>1, EventFacts, AppendFacts
      <4>2. CASE k # Len(events) + 1
        <5>1. k \in DOMAIN events /\ events'[k] = events[k]
          BY <1>1, <1>7, <4>2, EventFacts, AppendFacts
        <5>2. j \in DOMAIN events /\ events'[j] = events[j]
          BY <1>1, <1>7, <3>1, <5>1, EventFacts
        <5>. QED
          BY <1>1, <3>1, <5>1, <5>2 DEF StopInv, NothingBehindStop
      <4>. QED
        BY <4>1, <4>2
    <3>. QED
      BY <3>1 DEF NothingBehindStop
  <2>. QED
    BY <2>1, <2>2 DEF StopInv
<1>8. CASE WorkerTake /\ events # <<>> /\ events' = Tail(events)
  <2>1. \A k \in DOMAIN events' : /\ k \in Nat /\ k + 1 \in DOMAIN events
                                  /\ events'[k] = events[k + 1]
    BY <1>1, <1>8, TailFacts
  <2>2. NothingBehindStop'
    BY <1>1, <2>1 DEF StopInv, NothingBehindStop
  <2>3. UNCHANGED <<tx, registered>>
    BY <1>8 DEF WorkerTake, lifeVars
  <2>. QED
    BY <1>1, <2>1, <2>2, <2>3 DEF StopInv
<1>. QED
  BY <1>2, <1>3, <1>5, <1>6, <1>7, <1>8, EventSteps

-----------------------------------------------------------------------------
\* A frame that leaves the queued ones for good.
LEMMA QueueStays ==
  ASSUME Inv, RequestInv, NEW h, NEW to, to # "queued", Goes(h, fate[h], to),
         \A k \in DOMAIN requests : requests[k] # h,
         UNCHANGED requests,
         tx.pc = "submitting" => h = tx.frame \/ UNCHANGED tx
  PROVE  RequestInv'
<1>1. /\ \A f \in Frames : fate'[f] = IF f = h THEN to ELSE fate[f]
      /\ requests \in Seq(Frames)
  BY TypeParts DEF Goes, Inv, HistoryTyped, QueuesTyped
<1>2. \A k \in DOMAIN requests : requests[k] \in Frames
  BY <1>1
<1>. QED
  BY <1>1, <1>2 DEF RequestInv

LEMMA NextRequests ==
  ASSUME Inv, Next
  PROVE  RequestInv'
<1>1. /\ requests \in Seq(Frames) /\ Frames \in SUBSET Nat
      /\ fate \in [Frames -> Service!Fates] /\ RequestInv
  BY TypeParts, FramesAreNumbers DEF Inv, QueuesTyped, HistoryTyped
<1>2. \A k \in DOMAIN requests : requests[k] \in Frames /\ fate[requests[k]] = "queued"
  BY <1>1 DEF RequestInv
<1>3. ASSUME tx.pc = "submitting"
      PROVE  tx.frame \in Frames /\ \A k \in DOMAIN requests : requests[k] # tx.frame
  <2>1. Submitting
    BY <1>3 DEF Inv, TxInv
  <2>2. tx.frame \in Frames /\ \A k \in DOMAIN requests : tx.frame < requests[k]
    BY <2>1 DEF Submitting
  <2>3. \A x, y \in Nat : x < y => y # x
    OBVIOUS
  <2>. QED
    BY <1>1, <1>2, <2>2, <2>3
<1>4. CASE InitCall
  <2>1. CASE UNCHANGED <<requests, tx>>
    BY <1>1, <1>4, <2>1 DEF InitCall, RequestInv
  <2>2. CASE requests' = <<>>
    BY <1>4, <2>2 DEF InitCall, Inv, LifeInv, RequestInv
  <2>. QED
    BY <1>4, <2>1, <2>2 DEF InitCall, taskVars, queueVars
<1>5. CASE DriverGone
  <2>1. \A f \in Frames : fate'[f] # "queued"
    BY <1>1, <1>5 DEF DriverGone
  <2>. QED
    BY <1>5, <2>1 DEF DriverGone, RequestInv
<1>6. CASE DeinitTx
  <2>1. CASE tx.pc = "submitting"
    <3>1. Goes(tx.frame, fate[tx.frame], "lost") /\ UNCHANGED requests
      BY <1>3, <1>6, <2>1 DEF DeinitTx, Goes, queueVars
    <3>. QED
      BY <1>1, <1>3, <2>1, <3>1, QueueStays
  <2>2. CASE tx.pc # "submitting"
    BY <1>1, <1>6, <2>2 DEF DeinitTx, RequestInv, queueVars
  <2>. QED
    BY <2>1, <2>2
<1>7. CASE SendQueue
  <2>1. CASE UNCHANGED <<requests, fate>>
    BY <1>1, <1>7, <2>1 DEF SendQueue, RequestInv, taskVars
  <2>2. CASE ~up /\ fate' = [fate EXCEPT ![sender] = "lost"] /\ UNCHANGED requests
    <3>1. sender \in Frames /\ fate[sender] = "new"
      BY <1>7, Handled DEF SendQueue
    <3>2. Goes(sender, fate[sender], "lost")
      BY <2>2, <3>1 DEF Goes
    <3>3. UNCHANGED tx
      BY <1>7 DEF SendQueue, taskVars
    <3>. QED
      BY <1>1, <1>2, <2>2, <3>1, <3>2, <3>3, QueueStays
  <2>3. CASE requests' = Append(requests, sender)
             /\ fate' = [fate EXCEPT ![sender] = "queued"]
    <3>1. sender \in Frames /\ fate[sender] = "new" /\ UNCHANGED tx
      BY <1>7, Handled DEF SendQueue, taskVars
    <3>2. \A f \in Frames : fate'[f] = IF f = sender THEN "queued" ELSE fate[f]
      BY <1>1, <2>3
    <3>3. \A k \in DOMAIN requests : requests[k] < sender
      BY <1>2, <3>1 DEF Inv, InOrder
    <3>4. /\ \A k \in DOMAIN requests' :
               \/ k \in DOMAIN requests /\ requests'[k] = requests[k]
               \/ k = Len(requests) + 1 /\ requests'[k] = sender
          /\ \A k \in DOMAIN requests : k \in DOMAIN requests' /\ k < Len(requests) + 1
                                        /\ requests'[k] = requests[k]
          /\ Len(requests) + 1 \in DOMAIN requests'
          /\ requests'[Len(requests) + 1] = sender
          /\ Len(requests) \in Nat /\ DOMAIN requests \in SUBSET Nat
      BY <1>1, <2>3, <3>1, AppendFacts
    <3>5. \A k \in DOMAIN requests' : fate'[requests'[k]] = "queued"
      BY <1>2, <3>1, <3>2, <3>4
    <3>6. \A j, k \in DOMAIN requests' : j < k => requests'[j] < requests'[k]
      BY <1>1, <3>3, <3>4 DEF RequestInv
    <3>7. ASSUME NEW f \in Frames, fate'[f] = "queued"
          PROVE  \/ \E k \in DOMAIN requests' : requests'[k] = f
                 \/ tx'.pc = "submitting" /\ tx'.frame = f
      BY <1>1, <3>1, <3>2, <3>4, <3>7 DEF RequestInv
    <3>. QED
      BY <3>5, <3>6, <3>7 DEF RequestInv
  <2>. QED
    BY <1>7, <2>1, <2>2, <2>3 DEF SendQueue
<1>8. CASE TxTake
  <2>. DEFINE h == Head(requests)
  <2>1. requests # <<>> /\ requests' = Tail(requests) /\ tx.pc = "blocked"
        /\ \/ txStop /\ fate' = [fate EXCEPT ![h] = "lost"]
           \/ tx' = [pc |-> "submitting", frame |-> h] /\ UNCHANGED fate
    BY <1>8 DEF TxTake
  <2>2. /\ 1 \in DOMAIN requests /\ h = requests[1] /\ h \in Frames
        /\ \A k \in DOMAIN requests' : /\ k \in Nat /\ k + 1 \in DOMAIN requests
                                       /\ requests'[k] = requests[k + 1] /\ 1 < k + 1
        /\ \A k \in DOMAIN requests : k # 1 => /\ k - 1 \in DOMAIN requests'
                                               /\ requests'[k - 1] = requests[k]
    BY <1>1, <2>1, TailFacts
  <2>3. ASSUME NEW k \in DOMAIN requests' PROVE h < requests'[k]
    BY <1>1, <2>2 DEF RequestInv
  <2>4. \A f \in Frames : fate'[f] = fate[f] \/ (f = h /\ fate'[f] = "lost")
    BY <1>1, <2>1
  <2>. HIDE DEF h
  <2>5. \A k \in DOMAIN requests' : fate'[requests'[k]] = "queued"
    <3>1. ASSUME NEW k \in DOMAIN requests' PROVE fate'[requests'[k]] = "queued"
      <4>1. requests'[k] \in Frames /\ fate[requests'[k]] = "queued" /\ requests'[k] # h
        BY <1>1, <1>2, <2>2, <2>3
      <4>. QED
        BY <2>4, <4>1
    <3>. QED
      BY <3>1
  <2>6. \A j, k \in DOMAIN requests' : j < k => requests'[j] < requests'[k]
    BY <1>1, <2>2 DEF RequestInv
  <2>7. ASSUME NEW f \in Frames, fate'[f] = "queued"
        PROVE  \/ \E k \in DOMAIN requests' : requests'[k] = f
               \/ tx'.pc = "submitting" /\ tx'.frame = f
    <3>1. fate[f] = "queued"
      BY <2>4, <2>7
    <3>2. PICK k \in DOMAIN requests : requests[k] = f
      BY <1>1, <2>1, <3>1 DEF RequestInv
    <3>3. CASE k = 1
      <4>1. f = h /\ fate[h] = "queued"
        BY <2>2, <3>1, <3>2, <3>3
      <4>. QED
        BY <1>1, <2>1, <2>2, <2>7, <4>1
    <3>4. CASE k # 1
      BY <2>2, <3>2, <3>4
    <3>. QED
      BY <3>3, <3>4
  <2>. QED
    BY <2>5, <2>6, <2>7 DEF RequestInv
<1>9. CASE TxRefused
  <2>1. Goes(tx.frame, fate[tx.frame], "refused") /\ UNCHANGED requests /\ tx.pc = "submitting"
    BY <1>3, <1>9 DEF TxRefused, Goes
  <2>. QED
    BY <1>1, <1>3, <2>1, QueueStays
<1>10. CASE TxSubmitted
  <2>1. Goes(tx.frame, fate[tx.frame], "flying") /\ UNCHANGED requests /\ tx.pc = "submitting"
    BY <1>3, <1>10 DEF TxSubmitted, Goes, queueVars
  <2>. QED
    BY <1>1, <1>3, <2>1, QueueStays
<1>11. ASSUME NEW f \in Frames, NEW end \in {"ok", "failed"}, SendCallback(f, end)
       PROVE  RequestInv'
  <2>1. Goes(f, fate[f], end) /\ fate[f] = "flying" /\ UNCHANGED <<requests, tx>>
    BY <1>11 DEF SendCallback, Goes, queueVars
  <2>2. \A k \in DOMAIN requests : requests[k] # f
    BY <1>2, <2>1
  <2>. QED
    BY <1>1, <2>1, <2>2, QueueStays
<1>12. CASE TxWake
  <2>1. UNCHANGED <<requests, fate>> /\ tx.pc = "awaiting"
    BY <1>12 DEF TxWake
  <2>. QED
    BY <1>1, <2>1 DEF RequestInv
<1>13. CASE UNCHANGED <<requests, fate, tx>>
  BY <1>1, <1>13 DEF RequestInv
<1>. QED
  BY <1>4, <1>5, <1>6, <1>7, <1>8, <1>9, <1>10, <1>11, <1>12, <1>13
  DEF Next, SetCallback, DeinitBegin, DeinitStep, DeinitUnregister, DeinitWorker,
      DriverStays, SendBegin, TxStep, DriverStep, ReceiveCallback, WorkerStep, WorkerTake,
      WorkerReturn, queueVars, taskVars

-----------------------------------------------------------------------------
LEMMA NextFlying ==
  ASSUME Inv, Next
  PROVE  FlyingInv'
<1>1. /\ FlyingInv /\ fate \in [Frames -> Service!Fates]
      /\ stage = "driverOff" => tx.pc = "none"
  BY TypeParts DEF Inv, HistoryTyped, LifeInv
<1>2. CASE TxSubmitted
  <2>1. /\ tx.pc = "submitting" /\ tx' = [tx EXCEPT !.pc = "awaiting"]
        /\ fate' = [fate EXCEPT ![tx.frame] = "flying"] /\ tx \in TxTypes
    BY <1>2, TypeParts DEF TxSubmitted, Inv, TasksTyped
  <2>2. \A f \in Frames : fate'[f] = "flying" => f = tx.frame
    BY <1>1, <2>1 DEF FlyingInv
  <2>3. tx'.pc = "awaiting" /\ tx'.frame = tx.frame
    BY <2>1 DEF TxTypes
  <2>. QED
    BY <2>2, <2>3 DEF FlyingInv
<1>3. CASE ~TxSubmitted
  <2>1. \A f \in Frames : fate'[f] = "flying" => fate[f] = "flying"
    BY <1>3, FatesMove
  <2>2. CASE \E f \in Frames : fate'[f] = "flying"
    <3>1. PICK f \in Frames : fate'[f] = "flying" /\ fate[f] = "flying"
      BY <2>1, <2>2
    <3>2. tx.pc \notin {"blocked", "submitting"} /\ (tx.pc # "none" => fate[tx.frame] = "flying")
      BY <1>1, <3>1 DEF FlyingInv
    <3>3. UNCHANGED tx \/ tx'.pc = "none"
      <4>1. CASE InitCall
        BY <3>1, <4>1 DEF InitCall, Inv, LifeInv, taskVars
      <4>2. CASE TxWake
        BY <3>2, <4>2 DEF TxWake, NextRound, Inv, TxInv
      <4>3. CASE TxTake \/ TxRefused
        BY <3>2, <4>3 DEF TxTake, TxRefused
      <4>4. CASE DeinitTx
        BY <4>4 DEF DeinitTx
      <4>. QED
        BY <1>3, <4>1, <4>2, <4>3, <4>4
        DEF Next, SetCallback, DeinitBegin, DeinitStep, DeinitUnregister, DeinitWorker,
            DriverStays, DriverGone, SendBegin, SendQueue, TxStep, DriverStep,
            SendCallback, ReceiveCallback, WorkerStep, WorkerTake, WorkerReturn, taskVars
    <3>. QED
      BY <1>1, <2>1, <3>3 DEF FlyingInv
  <2>3. CASE ~\E f \in Frames : fate'[f] = "flying"
    BY <2>3 DEF FlyingInv
  <2>. QED
    BY <2>2, <2>3
<1>. QED
  BY <1>2, <1>3

-----------------------------------------------------------------------------
\* Results that are on their way, or passed up, stay true.
LEMMA ResultTyped ==
  ASSUME Inv, NEW k \in Results
  PROVE  /\ events[k].correlation \in Frames /\ fate[events[k].correlation] \in Verdicts
         /\ events[k].result = Service!ResultOf(fate[events[k].correlation])
         /\ MacOf(events[k].source) = MacOf(DestOf[events[k].correlation])
         /\ k \in DOMAIN events /\ k \in Nat
  BY TypeParts DEF Inv, ResultInv, ResultsAreTrue, Results, QueuesTyped

LEMMA ToldTyped ==
  ASSUME Inv, NEW j \in DOMAIN told
  PROVE  /\ told[j].frame \in Frames /\ fate[told[j].frame] \in Verdicts
<1>1. \A S : \A s \in Seq(S) : \A k \in DOMAIN s : s[k] \in S
  OBVIOUS
<1>2. told[j] \in [frame : Frames, result : {"ok", "failed"}]
  BY <1>1, TypeParts DEF Inv, HistoryTyped
<1>. QED
  BY <1>2 DEF Inv, ResultInv

\* A result is posted behind those of earlier frames.
LEMMA PostResult ==
  ASSUME Inv, Next, UNCHANGED told,
         NEW f \in Frames, NEW r \in {"ok", "failed"},
         NEW a \in Destinations, MacOf(a) = MacOf(DestOf[f]),
         events' = Post(SendResult(f, a, r)),
         fate'[f] \in Verdicts, r = Service!ResultOf(fate'[f]),
         \A k \in Results : events[k].correlation < f,
         \A j \in DOMAIN told : told[j].frame < f
  PROVE  ResultInv'
<1>. DEFINE e == SendResult(f, a, r)
<1>1. TypeOK
  BY DEF Inv
<1>2. /\ e \in Events /\ e.type = "send_result" /\ e.correlation = f /\ e.result = r
      /\ e.source = a
  BY EventFacts
<1>. HIDE DEF e
<1>3. \A k \in DOMAIN events' :
        \/ k \in DOMAIN events /\ events'[k] = events[k] /\ k < Len(events) + 1
        \/ k = Len(events) + 1 /\ events'[k] = e
  BY <1>1, <1>2, PostFacts DEF e
<1>4. Len(events) \in Nat /\ DOMAIN events = 1..Len(events)
  BY TypeParts DEF Inv, QueuesTyped
<1>5. \A k \in Results' : \/ k \in Results /\ events'[k] = events[k] /\ k < Len(events) + 1
                          \/ k = Len(events) + 1 /\ events'[k] = e
  BY <1>3 DEF Results
<1>6. ResultsAreTrue'
  <2>1. ASSUME NEW k \in DOMAIN events', events'[k].type = "send_result"
        PROVE  /\ events'[k].correlation \in Frames
               /\ fate'[events'[k].correlation] \in Verdicts
               /\ events'[k].result = Service!ResultOf(fate'[events'[k].correlation])
               /\ MacOf(events'[k].source) = MacOf(DestOf[events'[k].correlation])
    <3>1. k \in Results'
      BY <2>1 DEF Results
    <3>2. CASE k \in Results /\ events'[k] = events[k]
      BY <3>2, ResultTyped, FatesMove
    <3>3. CASE events'[k] = e
      BY <1>2, <3>3
    <3>. QED
      BY <1>5, <3>1, <3>2, <3>3
  <2>. QED
    BY <2>1 DEF ResultsAreTrue
<1>7. \A j, k \in Results' : j < k => events'[j].correlation < events'[k].correlation
  <2>1. ASSUME NEW j \in Results', NEW k \in Results', j < k
        PROVE  events'[j].correlation < events'[k].correlation
    <3>1. j \in Results /\ events'[j] = events[j]
      <4>1. k \in Nat /\ j \in Nat /\ k <= Len(events) + 1
        BY <1>4, <1>5 DEF Results
      <4>2. j # Len(events) + 1
        BY <1>4, <2>1, <4>1
      <4>. QED
        BY <1>5, <4>2
    <3>. QED
      BY <1>2, <1>5, <2>1, <3>1 DEF Inv, ResultInv
  <2>. QED
    BY <2>1
<1>8. \A j \in DOMAIN told :
        /\ fate'[told[j].frame] \in Verdicts
        /\ \A k \in Results' : told[j].frame < events'[k].correlation
  <2>1. ASSUME NEW j \in DOMAIN told
        PROVE  /\ fate'[told[j].frame] \in Verdicts
               /\ \A k \in Results' : told[j].frame < events'[k].correlation
    BY <1>2, <1>5, ToldTyped, FatesMove DEF Inv, ResultInv
  <2>. QED
    BY <2>1
<1>. QED
  BY <1>6, <1>7, <1>8 DEF ResultInv

\* The results of a queue that lost some events at its front or got others.
LEMMA FewerResults ==
  ASSUME Inv, Next, UNCHANGED told, NEW d \in Nat,
         \A k \in Results' : k \in Nat /\ k + d \in Results /\ events'[k] = events[k + d]
  PROVE  ResultInv'
<1>1. ResultsAreTrue'
  <2>1. ASSUME NEW k \in DOMAIN events', events'[k].type = "send_result"
        PROVE  /\ events'[k].correlation \in Frames
               /\ fate'[events'[k].correlation] \in Verdicts
               /\ events'[k].result = Service!ResultOf(fate'[events'[k].correlation])
               /\ MacOf(events'[k].source) = MacOf(DestOf[events'[k].correlation])
    <3>1. k \in Results'
      BY <2>1 DEF Results
    <3>2. k + d \in Results /\ events'[k] = events[k + d]
      BY <3>1
    <3>. QED
      BY <3>2, ResultTyped, FatesMove
  <2>. QED
    BY <2>1 DEF ResultsAreTrue
<1>2. ASSUME NEW j \in Results', NEW k \in Results', j < k
      PROVE  events'[j].correlation < events'[k].correlation
  <2>1. j + d \in Results /\ k + d \in Results /\ j + d < k + d
    BY <1>2
  <2>. QED
    BY <2>1 DEF Inv, ResultInv
<1>3. ASSUME NEW j \in DOMAIN told
      PROVE  /\ fate'[told[j].frame] \in Verdicts
             /\ \A k \in Results' : told[j].frame < events'[k].correlation
  BY ToldTyped, FatesMove DEF Inv, ResultInv
<1>. QED
  BY <1>1, <1>2, <1>3 DEF ResultInv

\* Every result known so far is of a frame before one that is queued.
LEMMA ResultsBefore ==
  ASSUME Inv, NEW f \in Frames, fate[f] = "queued"
  PROVE  /\ \A k \in Results : events[k].correlation < f
         /\ \A j \in DOMAIN told : told[j].frame < f
  BY ResultTyped, ToldTyped DEF Inv, InOrder

LEMMA NextResults ==
  ASSUME Inv, Next
  PROVE  ResultInv'
<1>1. /\ TypeOK /\ events \in Seq(Events) /\ DOMAIN events \in SUBSET Nat
      /\ Results \in SUBSET DOMAIN events
  BY TypeParts DEF Inv, QueuesTyped, Results
<1>2. ~WorkerTake => UNCHANGED told
  BY DEF Next, InitCall, SetCallback, DeinitBegin, DeinitStep, DeinitTx, DeinitUnregister,
         DeinitWorker, DriverStays, DriverGone, SendBegin, SendQueue, TxStep, TxTake,
         TxRefused, TxSubmitted, TxWake, DriverStep, SendCallback, ReceiveCallback,
         WorkerStep, WorkerReturn
<1>3. CASE UNCHANGED events /\ ~WorkerTake
  <2>1. \A k \in Results' : k \in Nat /\ k + 0 \in Results /\ events'[k] = events[k + 0]
    BY <1>1, <1>3 DEF Results
  <2>. QED
    BY <1>2, <1>3, <2>1, FewerResults
<1>4. CASE InitCall /\ events' = <<>>
  <2>1. Results' = {}
    BY <1>4 DEF Results
  <2>2. UNCHANGED told
    BY <1>4 DEF InitCall
  <2>. QED
    BY <2>1, <2>2, FewerResults
<1>5. ASSUME NEW e \in Events, e.type # "send_result", UNCHANGED told,
             \A k \in DOMAIN events' :
               (k \in DOMAIN events /\ events'[k] = events[k]) \/ events'[k] = e
      PROVE  ResultInv'
  <2>1. \A k \in Results' : k \in Nat /\ k + 0 \in Results /\ events'[k] = events[k + 0]
    BY <1>1, <1>5 DEF Results
  <2>. QED
    BY <1>5, <2>1, FewerResults
<1>6. CASE DeinitWorker /\ events' = Append(events, Stop)
  <2>1. \A k \in DOMAIN events' :
          (k \in DOMAIN events /\ events'[k] = events[k]) \/ events'[k] = Stop
    BY <1>1, <1>6, AppendFacts, EventFacts
  <2>2. Stop \in Events /\ Stop.type # "send_result" /\ UNCHANGED told
    BY <1>6, EventFacts DEF DeinitWorker
  <2>. QED
    BY <1>5, <2>1, <2>2
<1>7. CASE ReceiveCallback /\ events' = Post(Receive)
  <2>1. \A k \in DOMAIN events' :
          (k \in DOMAIN events /\ events'[k] = events[k]) \/ events'[k] = Receive
    BY <1>1, <1>7, PostFacts, EventFacts
  <2>2. Receive \in Events /\ Receive.type # "send_result" /\ UNCHANGED told
    BY <1>7, EventFacts DEF ReceiveCallback
  <2>. QED
    BY <1>5, <2>1, <2>2
<1>8. CASE TxRefused /\ events' = Post(SendResult(tx.frame, DestOf[tx.frame], "failed"))
  <2>1. tx.frame \in Frames /\ fate[tx.frame] = "queued" /\ UNCHANGED told
    BY <1>8, Handled DEF TxRefused
  <2>2. fate'[tx.frame] = "refused"
    BY <1>8, <2>1, TypeParts DEF TxRefused, HistoryTyped, Inv
  <2>3. fate'[tx.frame] \in Verdicts /\ "failed" = Service!ResultOf(fate'[tx.frame])
    BY <2>2, Fates
  <2>. QED
    BY <1>8, <2>1, <2>3, ResultsBefore, PostResult, MacFacts
<1>9. CASE /\ TxWake /\ ~txStop
           /\ events' = Post(SendResult(tx.frame, pending.destination, fate[tx.frame]))
  <2>1. /\ pending.destination \in Destinations
        /\ MacOf(pending.destination) = MacOf(DestOf[tx.frame])
        /\ tx.frame \in Frames /\ fate[tx.frame] \in {"ok", "failed"}
        /\ UNCHANGED <<told, fate>>
        /\ \A k \in Results : events[k].correlation < tx.frame
        /\ \A j \in DOMAIN told : told[j].frame < tx.frame
    BY <1>9, PostsTyped DEF Awaiting, TxWake
  <2>2. fate'[tx.frame] \in Verdicts /\ fate[tx.frame] = Service!ResultOf(fate'[tx.frame])
    BY <2>1, Fates
  <2>. QED
    BY <1>9, <2>1, <2>2, PostResult
<1>10. CASE WorkerTake /\ events # <<>> /\ events' = Tail(events)
  <2>1. \A k \in DOMAIN events' : /\ k \in Nat /\ k + 1 \in DOMAIN events
                                  /\ events'[k] = events[k + 1] /\ 1 < k + 1
    BY <1>1, <1>10, TailFacts
  <2>2. \A k \in Results' : /\ k \in Nat /\ k + 1 \in Results /\ events'[k] = events[k + 1]
                            /\ 1 < k + 1
    BY <2>1 DEF Results
  <2>3. CASE UNCHANGED told
    BY <2>2, <2>3, FewerResults
  <2>4. CASE ~UNCHANGED told
    <3>. DEFINE f == events[1].correlation
                r == [frame |-> f, result |-> events[1].result]
    <3>1. 1 \in Results /\ told' = Append(told, r) /\ f \in Frames
          /\ r \in [frame : Frames, result : {"ok", "failed"}] /\ r.frame = f
      BY <1>10, <2>4, TellsResult
    <3>2. \A k \in Results' : f < events'[k].correlation
      <4>1. ASSUME NEW k \in Results' PROVE f < events'[k].correlation
        <5>1. k + 1 \in Results /\ events'[k] = events[k + 1] /\ 1 < k + 1
          BY <2>2
        <5>. QED
          BY <3>1, <5>1 DEF Inv, ResultInv
      <4>. QED
        BY <4>1
    <3>3. fate[f] \in Verdicts
      BY <3>1, ResultTyped
    <3>. HIDE DEF f, r
    <3>4. \A j \in DOMAIN told' : \/ j \in DOMAIN told /\ told'[j] = told[j]
                                  \/ told'[j] = r
      BY <3>1, AppendFacts, TypeParts DEF Inv, HistoryTyped
    <3>5. ResultsAreTrue'
      <4>1. ASSUME NEW k \in DOMAIN events', events'[k].type = "send_result"
            PROVE  /\ events'[k].correlation \in Frames
                   /\ fate'[events'[k].correlation] \in Verdicts
                   /\ events'[k].result = Service!ResultOf(fate'[events'[k].correlation])
                   /\ MacOf(events'[k].source) = MacOf(DestOf[events'[k].correlation])
        <5>1. k \in Results'
          BY <4>1 DEF Results
        <5>2. k + 1 \in Results /\ events'[k] = events[k + 1]
          BY <2>2, <5>1
        <5>. QED
          BY <5>2, ResultTyped, FatesMove
      <4>. QED
        BY <4>1 DEF ResultsAreTrue
    <3>6. ASSUME NEW j \in Results', NEW k \in Results', j < k
          PROVE  events'[j].correlation < events'[k].correlation
      <4>1. j + 1 \in Results /\ k + 1 \in Results /\ j + 1 < k + 1
            /\ events'[j] = events[j + 1] /\ events'[k] = events[k + 1]
        BY <2>2, <3>6
      <4>. QED
        BY <4>1 DEF Inv, ResultInv
    <3>7. ASSUME NEW j \in DOMAIN told'
          PROVE  /\ fate'[told'[j].frame] \in Verdicts
                 /\ \A k \in Results' : told'[j].frame < events'[k].correlation
      <4>1. CASE told'[j] = r
        BY <3>1, <3>2, <3>3, <4>1, FatesMove
      <4>2. CASE j \in DOMAIN told /\ told'[j] = told[j]
        <5>1. \A k \in Results' : told[j].frame < events'[k].correlation
          BY <2>2, <4>2 DEF Inv, ResultInv
        <5>. QED
          BY <4>2, <5>1, ToldTyped, FatesMove
      <4>. QED
        BY <3>4, <4>1, <4>2
    <3>. QED
      BY <3>5, <3>6, <3>7 DEF ResultInv
  <2>. QED
    BY <2>3, <2>4
<1>11. CASE WorkerTake
  BY <1>10, <1>11 DEF WorkerTake
<1>. QED
  BY <1>3, <1>4, <1>6, <1>7, <1>8, <1>9, <1>11, EventSteps

-----------------------------------------------------------------------------
\* What the worker and the driver do to the results leaves them before a
\* frame they were before.
LEMMA StaysBefore ==
  ASSUME Inv, Next, ~TxStep, ~InitCall, ~DeinitWorker, NEW f \in Frames,
         \A k \in Results : events[k].correlation < f,
         \A j \in DOMAIN told : told[j].frame < f
  PROVE  /\ \A k \in Results' : events'[k].correlation < f
         /\ \A j \in DOMAIN told' : told'[j].frame < f
<1>1. TypeOK /\ events \in Seq(Events)
  BY TypeParts DEF Inv, QueuesTyped
<1>2. \A k \in Results' : \E j \in Results : events'[k] = events[j]
  <2>1. CASE UNCHANGED events
    BY <2>1 DEF Results
  <2>2. CASE events' = Post(Receive)
    <3>1. \A k \in DOMAIN events' :
            (k \in DOMAIN events /\ events'[k] = events[k]) \/ events'[k] = Receive
      BY <1>1, <2>2, PostFacts, EventFacts
    <3>. QED
      BY <3>1, EventFacts DEF Results
  <2>3. CASE events # <<>> /\ events' = Tail(events)
    BY <1>1, <2>3, TailFacts DEF Results
  <2>. QED
    BY <2>1, <2>2, <2>3, EventSteps DEF TxStep
<1>3. CASE UNCHANGED told
  BY <1>2, <1>3
<1>4. CASE WorkerTake /\ ~UNCHANGED told
  <2>. DEFINE r == [frame |-> events[1].correlation, result |-> events[1].result]
  <2>1. /\ 1 \in Results /\ told' = Append(told, r) /\ r.frame < f
        /\ r \in [frame : Frames, result : {"ok", "failed"}]
    BY <1>4, TellsResult
  <2>. HIDE DEF r
  <2>2. \A j \in DOMAIN told' : (j \in DOMAIN told /\ told'[j] = told[j]) \/ told'[j] = r
    BY <2>1, AppendFacts, TypeParts DEF Inv, HistoryTyped
  <2>. QED
    BY <1>2, <2>1, <2>2
<1>. QED
  BY <1>3, <1>4
  DEF Next, SetCallback, DeinitBegin, DeinitStep, DeinitTx, DeinitUnregister,
      DriverStays, DriverGone, SendBegin, SendQueue, DriverStep, SendCallback,
      ReceiveCallback, WorkerStep, WorkerReturn

LEMMA NextTx ==
  ASSUME Inv, Next
  PROVE  TxInv'
<1>1. /\ fate \in [Frames -> Service!Fates] /\ Frames \in SUBSET Nat
      /\ requests \in Seq(Frames) /\ tx \in TxTypes /\ pending \in RecordTypes
      /\ TxInv /\ RequestInv /\ FlyingInv /\ LifeInv
  BY TypeParts, FramesAreNumbers DEF Inv, QueuesTyped, HistoryTyped, TasksTyped
<1>2. \A k \in DOMAIN requests : requests[k] \in Frames /\ fate[requests[k]] = "queued"
  BY <1>1 DEF RequestInv
<1>3. ASSUME tx'.pc = "none" PROVE TxInv'
  BY <1>3 DEF TxInv
<1>4. ASSUME tx'.pc = "blocked", ~notified' PROVE TxInv'
  BY <1>4 DEF TxInv
<1>5. CASE InitCall
  <2>1. CASE taskVars' = taskVars /\ UNCHANGED <<requests, events, told, fate>>
    BY <1>1, <2>1
    DEF taskVars, TxInv, Submitting, Awaiting, Results
  <2>2. CASE tx' = [pc |-> "blocked", frame |-> NoFrame] /\ notified' = FALSE
    BY <1>4, <2>2
  <2>. QED
    BY <1>5, <2>1, <2>2 DEF InitCall, queueVars
<1>6. CASE DeinitTx \/ DeinitWorker \/ DriverGone
  BY <1>1, <1>3, <1>6 DEF DeinitTx, DeinitWorker, DriverGone, LifeInv
<1>7. CASE DeinitBegin
  BY <1>1, <1>7 DEF DeinitBegin, TxInv, Submitting, Awaiting, Results, queueVars
<1>8. CASE SendQueue
  <2>1. /\ sender \in Frames /\ fate[sender] = "new"
        /\ UNCHANGED <<events, told, tx, txStop, notified, pending>>
    BY <1>8, Handled DEF SendQueue, taskVars
  <2>2. ASSUME NEW f \in Frames, fate[f] # "new"
        PROVE  fate'[f] = fate[f] /\ f < sender
    <3>1. fate'[f] = fate[f]
      BY <1>1, <1>8, <2>1, <2>2 DEF SendQueue
    <3>. QED
      BY <2>1, <2>2, <3>1 DEF Inv, InOrder
  <2>3. ASSUME tx.pc = "submitting"
        PROVE  \A k \in DOMAIN requests' : tx.frame < requests'[k]
    <3>1. Submitting
      BY <1>1, <2>3 DEF TxInv
    <3>2. \A k \in DOMAIN requests' :
            (k \in DOMAIN requests /\ requests'[k] = requests[k]) \/ requests'[k] = sender
      BY <1>1, <1>8, <2>1, AppendFacts DEF SendQueue
    <3>3. tx.frame < sender
      BY <2>2, <3>1 DEF Submitting
    <3>. QED
      BY <3>1, <3>2, <3>3 DEF Submitting
  <2>4. tx.pc = "submitting" => Submitting'
    BY <1>1, <2>1, <2>2, <2>3 DEF TxInv, Submitting, Started
  <2>5. tx.pc = "awaiting" => Awaiting'
    BY <1>1, <2>1, <2>2 DEF TxInv, Awaiting, Results
  <2>6. tx.pc = "awaiting" => fate'[tx.frame] = fate[tx.frame]
    BY <1>1, <2>2 DEF TxInv, Awaiting
  <2>. QED
    BY <1>1, <2>1, <2>4, <2>5, <2>6 DEF TxInv
<1>9. CASE TxTake
  <2>1. requests # <<>> /\ tx.pc = "blocked" /\ requests' = Tail(requests)
        /\ UNCHANGED <<txStop, notified>>
    BY <1>9 DEF TxTake
  <2>2. CASE txStop
    BY <1>3, <1>9, <2>2 DEF TxTake, NextRound
  <2>3. CASE ~txStop
    <3>. DEFINE h == Head(requests)
    <3>1. tx' = [pc |-> "submitting", frame |-> h] /\ pending' = Started(h)
          /\ UNCHANGED fate
      BY <1>9, <2>3 DEF TxTake
    <3>2. h \in Frames /\ fate[h] = "queued"
      BY <2>1, Handled
    <3>3. \A k \in DOMAIN requests' : h < requests'[k]
      <4>1. ASSUME NEW k \in DOMAIN requests' PROVE h < requests'[k]
        <5>1. /\ 1 \in DOMAIN requests /\ h = requests[1]
              /\ k + 1 \in DOMAIN requests /\ requests'[k] = requests[k + 1] /\ 1 < k + 1
          BY <1>1, <2>1, TailFacts
        <5>. QED
          BY <1>1, <5>1 DEF RequestInv
      <4>. QED
        BY <4>1
    <3>. HIDE DEF h
    <3>4. ~notified
      BY <1>1, <2>1, <2>3 DEF TxInv
    <3>5. Submitting'
      BY <3>1, <3>2, <3>3 DEF Submitting, Started
    <3>. QED
      BY <2>1, <3>1, <3>4, <3>5 DEF TxInv
  <2>. QED
    BY <2>2, <2>3
<1>10. CASE TxRefused
  BY <1>1, <1>3, <1>4, <1>10 DEF TxRefused, NextRound, TxInv
<1>11. CASE TxWake
  BY <1>3, <1>4, <1>11 DEF TxWake, NextRound
<1>12. CASE TxSubmitted
  <2>1. /\ tx.pc = "submitting" /\ tx' = [tx EXCEPT !.pc = "awaiting"]
        /\ fate' = [fate EXCEPT ![tx.frame] = "flying"]
        /\ UNCHANGED <<events, told, txStop, notified, pending>>
    BY <1>12 DEF TxSubmitted, queueVars
  <2>2. Submitting /\ tx'.pc = "awaiting" /\ tx'.frame = tx.frame
    BY <1>1, <2>1 DEF TxInv, TxTypes
  <2>3. tx.frame \in Frames /\ fate'[tx.frame] = "flying" /\ fate[tx.frame] = "queued"
        /\ pending = Started(tx.frame)
    BY <1>1, <2>1, <2>2 DEF Submitting
  <2>4. Awaiting'
    BY <2>1, <2>2, <2>3, RecordFacts, ResultsBefore DEF Awaiting, Results
  <2>5. ~(notified /\ ~txStop)
    BY <1>1, <2>1 DEF TxInv
  <2>. QED
    BY <2>1, <2>2, <2>4, <2>5 DEF TxInv
<1>13. ASSUME NEW f \in Frames, NEW end \in {"ok", "failed"}, SendCallback(f, end)
       PROVE  TxInv'
  <2>1. /\ fate[f] = "flying" /\ fate' = [fate EXCEPT ![f] = end]
        /\ UNCHANGED <<requests, events, told, tx, txStop>>
    BY <1>13 DEF SendCallback, queueVars
  <2>2. CASE tx.pc = "none"
    BY <1>3, <2>1, <2>2
  <2>3. CASE tx.pc # "none"
    <3>1. tx.pc = "awaiting" /\ tx.frame = f /\ Awaiting
      BY <1>1, <2>1, <2>3 DEF FlyingInv, TxInv
    <3>2. pending' = [pending EXCEPT !.status = end, !.destination = MacOf(DestOf[f])]
      BY <1>13, <2>3, <3>1 DEF SendCallback, Expected, Awaiting
    <3>3. /\ pending'.active = pending.active /\ pending'.expected = pending.expected
          /\ pending'.correlation = pending.correlation /\ pending'.status = end
          /\ pending'.destination = MacOf(DestOf[f])
          /\ fate'[f] = end
      BY <1>1, <2>1, <3>2 DEF RecordTypes
    <3>4. Awaiting'
      BY <2>1, <3>1, <3>3, MacFacts DEF Awaiting, Results
    <3>. QED
      BY <2>1, <3>1, <3>3, <3>4 DEF TxInv
  <2>. QED
    BY <2>2, <2>3
<1>14. CASE /\ UNCHANGED <<requests, fate, tx, txStop, notified, pending>>
            /\ ~TxStep /\ ~InitCall /\ ~DeinitWorker
  <2>1. tx.pc = "awaiting" => Awaiting'
    <3>. SUFFICES ASSUME tx.pc = "awaiting" PROVE Awaiting'
      OBVIOUS
    <3>1. Awaiting
      BY <1>1 DEF TxInv
    <3>2. /\ \A k \in Results' : events'[k].correlation < tx.frame
          /\ \A j \in DOMAIN told' : told'[j].frame < tx.frame
      BY <1>14, <3>1, StaysBefore DEF Awaiting
    <3>. QED
      BY <1>14, <3>1, <3>2 DEF Awaiting
  <2>2. tx.pc = "submitting" => Submitting'
    BY <1>1, <1>14 DEF TxInv, Submitting, Started
  <2>. QED
    BY <1>1, <1>14, <2>1, <2>2 DEF TxInv
<1>15. CASE \/ \E c \in Callbacks : SetCallback(c)
            \/ DeinitUnregister \/ DriverStays \/ SendBegin \/ ReceiveCallback \/ WorkerStep
  <2>1. UNCHANGED <<requests, fate, tx, txStop, notified, pending>>
    BY <1>15
    DEF SetCallback, DeinitUnregister, DriverStays, SendBegin, ReceiveCallback,
        WorkerStep, WorkerTake, WorkerReturn, queueVars, taskVars
  <2>. QED
    BY <1>5, <1>6, <1>9, <1>10, <1>11, <1>12, <1>14, <2>1 DEF TxStep
<1>. QED
  BY <1>5, <1>6, <1>7, <1>8, <1>9, <1>10, <1>11, <1>12, <1>13, <1>15
  DEF Next, DeinitStep, TxStep, DriverStep

LEMMA NextInv == Inv /\ [Next]_vars => Inv'
<1>1. ASSUME Inv, Next PROVE Inv'
  BY <1>1, NextTypes, NextLife, NextStop, NextOrder, NextSender, NextRequests, NextTx,
     NextFlying, NextResults
  DEF Inv
<1>2. ASSUME Inv, UNCHANGED vars PROVE Inv'
  <2>1. TypeOK' /\ IsFiniteSet(peers')
    BY <1>2 DEF Inv, TypeOK, vars, lifeVars, queueVars, taskVars
  <2>2. LifeInv' /\ StopInv' /\ InOrder' /\ SenderInv' /\ RequestInv' /\ FlyingInv'
    BY <1>2
    DEF Inv, vars, lifeVars, queueVars, taskVars, LifeInv, StopInv, NothingBehindStop,
        InOrder, SenderInv, RequestInv, FlyingInv
  <2>3. TxInv' /\ ResultInv'
    BY <1>2
    DEF Inv, vars, lifeVars, queueVars, taskVars, TxInv, Submitting, Awaiting, Started,
        Results, ResultInv, ResultsAreTrue
  <2>. QED
    BY <2>1, <2>2, <2>3 DEF Inv
<1>. QED
  BY <1>1, <1>2

\* Neither queue nor the table of the driver passes its size, and whatever
\* the task, the driver and deinit do to the record they share, its fields
\* keep their types (enp_transport_espnow.c lines 650-844).
THEOREM Types == Spec => []TypeOK
<1>1. Inv => TypeOK
  BY DEF Inv
<1>. QED
  BY <1>1, InitInv, NextInv, PTL DEF Spec

\* Every result on its way to the upper layers names a frame whose
\* transmission is over, and tells its end: a late callback of the driver
\* never marks the next transmission (lines 748-772, 778-844).
THEOREM ResultsTellTheTruth == Spec => []ResultsAreTrue
<1>1. Inv => ResultsAreTrue
  BY DEF Inv, ResultInv
<1>. QED
  BY <1>1, InitInv, NextInv, PTL DEF Spec

\* The stop event is the last one: deinit cuts off the TX task and the driver
\* before it stops the worker (lines 378-408).
THEOREM StopIsLast == Spec => []NothingBehindStop
<1>1. Inv => NothingBehindStop
  BY DEF Inv, StopInv
<1>. QED
  BY <1>1, InitInv, NextInv, PTL DEF Spec

-----------------------------------------------------------------------------
(***************************************************************************)
(* The transport implements FrameService: frames go on the air alone and   *)
(* in their order, results are passed up in that order.                    *)
(***************************************************************************)

LEMMA LosesFrames ==
  ASSUME Inv, UNCHANGED told,
         NEW gone \in SUBSET {f \in Frames : fate[f] \in {"new", "queued", "flying"}},
         fate' = [f \in Frames |-> IF f \in gone THEN "lost" ELSE fate[f]]
  PROVE  Service!Next
  BY DEF Service!Lose, Service!Next

LEMMA LosesOne ==
  ASSUME Inv, UNCHANGED told, NEW h, NEW from \in {"new", "queued"}, Goes(h, from, "lost")
  PROVE  Service!Next
<1>1. fate \in [Frames -> Service!Fates]
  BY TypeParts DEF Inv, HistoryTyped
<1>2. /\ {h} \in SUBSET {f \in Frames : fate[f] \in {"new", "queued", "flying"}}
      /\ fate' = [f \in Frames |-> IF f \in {h} THEN "lost" ELSE fate[f]]
  BY <1>1 DEF Goes
<1>. QED
  BY <1>2, LosesFrames

LEMMA StepOfTheService ==
  ASSUME Inv, Next
  PROVE  Service!Next \/ UNCHANGED Service!vars
<1>. USE DEF Service!vars
<1>1. /\ fate \in [Frames -> Service!Fates] /\ Frames \in SUBSET Nat
      /\ TxInv /\ FlyingInv /\ RequestInv /\ SenderInv
  BY TypeParts, FramesAreNumbers DEF Inv, HistoryTyped
<1>2. CASE WorkerTake
  <2>1. UNCHANGED fate
    BY <1>2 DEF WorkerTake
  <2>2. CASE ~UNCHANGED told
    <3>. DEFINE f == events[1].correlation
    <3>1. /\ 1 \in Results /\ f \in Frames
          /\ told' = Append(told, [frame |-> f, result |-> events[1].result])
      BY <1>2, <2>2, TellsResult
    <3>2. fate[f] \in Verdicts /\ events[1].result = Service!ResultOf(fate[f])
      BY <3>1, ResultTyped
    <3>3. \A k \in DOMAIN told : told[k].frame < f
      BY <3>1 DEF Inv, ResultInv
    <3>. HIDE DEF f
    <3>4. Service!Tell(f)
      BY <2>1, <3>1, <3>2, <3>3 DEF Service!Tell, Verdicts
    <3>. QED
      BY <3>1, <3>4 DEF Service!Next
  <2>. QED
    BY <2>1, <2>2
<1>3. ~WorkerTake => UNCHANGED told
  BY DEF Next, InitCall, SetCallback, DeinitBegin, DeinitStep, DeinitTx, DeinitUnregister,
         DeinitWorker, DriverStays, DriverGone, SendBegin, SendQueue, TxStep, TxTake,
         TxRefused, TxSubmitted, TxWake, DriverStep, SendCallback, ReceiveCallback,
         WorkerStep, WorkerReturn
<1>4. CASE DriverGone
  <2>. DEFINE gone == {f \in Frames : fate[f] \in {"queued", "flying"}}
  <2>1. /\ gone \in SUBSET {f \in Frames : fate[f] \in {"new", "queued", "flying"}}
        /\ fate' = [f \in Frames |-> IF f \in gone THEN "lost" ELSE fate[f]]
    BY <1>4 DEF DriverGone
  <2>2. UNCHANGED told
    BY <1>4 DEF DriverGone
  <2>. HIDE DEF gone
  <2>. QED
    BY <2>1, <2>2, LosesFrames
<1>5. ASSUME SendQueue, Goes(sender, "new", "queued") PROVE Service!Next
  <2>1. sender \in Frames /\ fate[sender] = "new" /\ fate' = [fate EXCEPT ![sender] = "queued"]
    BY <1>5 DEF Goes
  <2>2. \A g \in Service!Earlier(sender) : fate[g] # "new"
    BY <1>1, <2>1, FramesAreNumbers DEF SenderInv, Service!Earlier
  <2>3. UNCHANGED told
    BY <1>5 DEF SendQueue
  <2>4. Service!Accept(sender)
    BY <2>1, <2>2, <2>3 DEF Service!Accept
  <2>. QED
    BY <2>1, <2>4 DEF Service!Next
<1>6. ASSUME tx.pc = "submitting", NEW end \in {"flying", "refused"},
             Goes(tx.frame, "queued", end), UNCHANGED told
      PROVE  Service!Next
  <2>1. tx.frame \in Frames /\ fate[tx.frame] = "queued"
        /\ fate' = [fate EXCEPT ![tx.frame] = end]
    BY <1>6 DEF Goes
  <2>2. \A g \in Service!Earlier(tx.frame) : fate[g] # "queued"
    <3>1. \A k \in DOMAIN requests : tx.frame < requests[k]
      BY <1>1, <1>6 DEF TxInv, Submitting
    <3>2. ASSUME NEW g \in Frames, g < tx.frame, fate[g] = "queued" PROVE FALSE
      <4>1. g # tx.frame /\ ~(tx.frame < g)
        <5>1. g \in Nat /\ tx.frame \in Nat
          BY <1>1, <2>1
        <5>. QED
          BY <3>2, <5>1
      <4>2. PICK k \in DOMAIN requests : requests[k] = g
        BY <1>1, <3>2, <4>1 DEF RequestInv
      <4>. QED
        BY <3>1, <4>1, <4>2
    <3>. QED
      BY <3>2 DEF Service!Earlier
  <2>3. Service!Flying = {}
    BY <1>1, <1>6 DEF FlyingInv, Service!Flying
  <2>4. Service!Transmit(tx.frame)
    BY <1>6, <2>1, <2>2, <2>3 DEF Service!Transmit
  <2>. QED
    BY <2>1, <2>4 DEF Service!Next
<1>7. ASSUME NEW f \in Frames, NEW end \in {"ok", "failed"}, SendCallback(f, end)
      PROVE  Service!Next
  <2>1. Service!Land(f)
    BY <1>7 DEF SendCallback, Service!Land
  <2>. QED
    BY <2>1 DEF Service!Next
<1>8. CASE ~WorkerTake
  <2>1. UNCHANGED told
    BY <1>3, <1>8
  <2>2. CASE UNCHANGED fate
    BY <2>1, <2>2
  <2>3. CASE \E h : Goes(h, "queued", "lost") \/ Goes(h, "new", "lost")
    BY <2>1, <2>3, LosesOne
  <2>4. CASE (TxRefused /\ Goes(tx.frame, "queued", "refused"))
             \/ (TxSubmitted /\ Goes(tx.frame, "queued", "flying"))
    <3>1. tx.pc = "submitting"
      BY <2>4 DEF TxRefused, TxSubmitted
    <3>. QED
      BY <1>6, <2>1, <2>4, <3>1
  <2>. QED
    BY <1>4, <1>5, <1>7, <2>2, <2>3, <2>4, FateSteps
<1>. QED
  BY <1>2, <1>8

\* However sends, callbacks, the tasks and a deinit interleave, the layers above
\* see the service FrameService describes (lines 365-457, 466-515, 650-844).
THEOREM Implements == Spec => ImplementsFrameService
<1>1. Init => Service!Init
  BY DEF Init, Service!Init
<1>2. Inv /\ [Next]_vars => [Service!Next]_Service!vars
  <2>1. UNCHANGED vars => UNCHANGED Service!vars
    BY DEF vars, Service!vars
  <2>. QED
    BY <2>1, StepOfTheService
<1>. QED
  BY <1>1, <1>2, InitInv, NextInv, PTL DEF Spec, ImplementsFrameService, Service!Spec
=============================================================================
