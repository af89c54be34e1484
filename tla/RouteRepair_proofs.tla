-------------------------- MODULE RouteRepair_proofs --------------------------
(***************************************************************************)
(* Proofs about module RouteRepair, for any sets of destinations and       *)
(* neighbors and any bounds: its types, and the serial service of repairs  *)
(* by the one discovery, SerialService.                                    *)
(***************************************************************************)
EXTENDS RouteRepair, FiniteSetTheorems, TLAPS

(***************************************************************************)
(* SerialService is inductive once no destination waits twice: the repair  *)
(* that is started next must not still be waiting.                         *)
(***************************************************************************)
WaitingDistinct ==
  \A i, j \in DOMAIN waiting : waiting[i].dest = waiting[j].dest => i = j

Inv == TypeOK /\ (~mishap => WaitingDistinct) /\ SerialService

-----------------------------------------------------------------------------
\* Init establishes the invariant (enp_route_repair_adapter_init() and
\* enp_route_repair_init() clear everything the repairs use).
LEMMA InitInv == Init => Inv
<1> SUFFICES ASSUME Init PROVE Inv
  OBVIOUS
<1>1. TypeOK
  <2>1. call \in [Tasks -> Calls]
    BY DEF Init, Calls
  <2>2. queue \in Seq(Request) /\ waiting \in Seq(Request)
    BY DEF Init
  <2>3. Len(waiting) <= MaxPending /\ 0 \in 0..MaxRetries
    BY PipelineAssumption DEF Init
  <2> QED
    BY <2>1, <2>2, <2>3 DEF Init, TypeOK
<1>2. ~mishap => WaitingDistinct
  BY DEF Init, WaitingDistinct
<1>3. SerialService
  BY DEF Init, SerialService, StartsAlone, DiscoveryIsOwned, CompletionRepairs,
         WaitBehind, IsVerifying, Launching, Starting, Idle, Tasks
<1> QED
  BY <1>1, <1>2, <1>3 DEF Inv

\* A claim keeps the types when the request is one.
LEMMA ClaimTyped ==
  ASSUME TypeOK, NEW k \in Tasks, NEW r \in Request, Claim(k, r)
  PROVE  /\ active' \in BOOLEAN
         /\ request' \in Request
         /\ call' \in [Tasks -> Calls]
BY DEF TypeOK, Claim, Calls

\* The end of a repair keeps the types, whoever ends it.
LEMMA EndTyped ==
  ASSUME TypeOK, NEW k \in Tasks, EndRepair(k)
  PROVE  /\ active' \in BOOLEAN
         /\ request' \in Request \cup {NoRequest}
         /\ waiting' \in Seq(Request) /\ Len(waiting') <= MaxPending
         /\ call' \in [Tasks -> Calls]
<1>1. CASE waiting = <<>>
  BY <1>1 DEF TypeOK, EndRepair, Calls
<1>2. CASE waiting # <<>>
  <2>1. Head(waiting) \in Request /\ waiting' = Tail(waiting)
    BY <1>2 DEF TypeOK, EndRepair
  <2>2. waiting' \in Seq(Request) /\ Len(waiting') <= MaxPending
    BY <1>2, <2>1, PipelineAssumption DEF TypeOK
  <2>3. Claim(k, Head(waiting))
    BY <1>2 DEF EndRepair
  <2> QED
    BY <2>1, <2>2, <2>3, ClaimTyped
<1> QED
  BY <1>1, <1>2

\* A repair request keeps the types of the coordinator.
LEMMA RequestTyped ==
  ASSUME TypeOK, NEW d \in Dests, NEW h \in Hops, RequestRepair(d, h)
  PROVE  pending' \subseteq Dests /\ queue' \in Seq(Request)
<1>1. CASE UNCHANGED <<pending, queue>>
  BY <1>1 DEF TypeOK
<1>2. CASE queue' = Append(queue, [dest |-> d, failed |-> h])
           /\ pending' = pending \cup {d}
  BY <1>2 DEF TypeOK, Request
<1> QED
  BY <1>1, <1>2 DEF RequestRepair

-----------------------------------------------------------------------------
\* Every step keeps the types.
LEMMA NextTyped == TypeOK /\ [Next]_vars => TypeOK'
<1> SUFFICES ASSUME TypeOK, [Next]_vars PROVE TypeOK'
  OBVIOUS
<1> USE PipelineAssumption
<1>1. ASSUME NEW k \in Tasks, LaunchRefused(k) PROVE TypeOK'
  BY <1>1 DEF LaunchRefused, TypeOK, coordinator, Calls
<1>2. ASSUME NEW k \in Tasks, NEW sent \in BOOLEAN, Launch(k, sent) PROVE TypeOK'
  <2>1. /\ call[k].req.dest \in Dests
        /\ 0 \in 0..MaxRetries
    BY <1>2 DEF Launch, Launching, TypeOK, Calls, Idle, Verifying, Request
  <2> QED
    BY <1>2, <2>1 DEF Launch, TypeOK, coordinator, Calls
<1>3. CASE ConsumeWaits
  <2>1. Head(queue) \in Request /\ Tail(queue) \in Seq(Request)
    BY <1>3 DEF ConsumeWaits, Received, TypeOK
  <2>2. waiting' \in Seq(Request) /\ Len(waiting') <= MaxPending
    BY <1>3, <2>1 DEF ConsumeWaits, Kept, TypeOK
  <2> QED
    BY <1>3, <2>1, <2>2 DEF ConsumeWaits, TypeOK
<1>4. CASE ConsumeStarts
  <2>1. Head(queue) \in Request /\ Tail(queue) \in Seq(Request)
    BY <1>4 DEF ConsumeStarts, Received, TypeOK
  <2>2. Claim("repair", Head(queue)) /\ "repair" \in Tasks
    BY <1>4 DEF ConsumeStarts, Tasks
  <2> QED
    BY <1>4, <2>1, <2>2, ClaimTyped DEF ConsumeStarts, TypeOK
<1>5. CASE Consumed
  BY <1>5 DEF Consumed, TypeOK, adapter
<1>6. ASSUME NEW d \in Dests, RouteFails(d) PROVE TypeOK'
  <2> DEFINE h == call["worker"].req.failed
  <2>1. h \in Hops
    BY <1>6 DEF RouteFails, TypeOK, Calls, Idle, Verifying, Tasks
  <2>2. pending' \subseteq Dests /\ queue' \in Seq(Request)
    BY <1>6, <2>1, RequestTyped DEF RouteFails
  <2> QED
    BY <1>6, <2>2 DEF RouteFails, TypeOK, adapter, Calls
<1>7. CASE RepairCompletes
  <2>1. EndRepair("worker") /\ "worker" \in Tasks
    BY <1>7 DEF RepairCompletes, Tasks
  <2> QED
    BY <1>7, <2>1, EndTyped DEF RepairCompletes, TypeOK, coordinator
<1>8. CASE RepairRejected
  BY <1>8 DEF RepairRejected, TypeOK, coordinator, adapter, Calls
<1>9. ASSUME NEW h \in Hops, LinkFails(h) PROVE TypeOK'
  BY <1>9 DEF LinkFails, TypeOK, coordinator, adapter, Calls
<1>10. ASSUME NEW d \in Dests, NEW h \in Hops, CorrelatedFails(d, h) PROVE TypeOK'
  <2>1. pending' \subseteq Dests /\ queue' \in Seq(Request)
    BY <1>10, RequestTyped DEF CorrelatedFails, TypeOK
  <2>2. route' \in [Dests -> Hops \cup {NoHop}]
    BY <1>10 DEF CorrelatedFails, Invalidate, TypeOK
  <2> QED
    BY <1>10, <2>1, <2>2 DEF CorrelatedFails, TypeOK, adapter
<1>11. ASSUME NEW d \in Dests, NEW h \in Hops, RreqArrives(d, h) PROVE TypeOK'
  BY <1>11 DEF RreqArrives, TypeOK, coordinator, adapter
<1>12. ASSUME NEW d \in Dests, NEW h \in Hops, RrepArrives(d, h) PROVE TypeOK'
  <2>1. call' \in [Tasks -> Calls]
    BY <1>12 DEF RrepArrives, TypeOK, Calls
  <2>2. disc' \in [state : {"IDLE", "REQUESTING", "COMPLETE", "FAILED"},
                  dest : Dests \cup {NoDest}, retry : 0..MaxRetries]
    BY <1>12 DEF RrepArrives, TypeOK
  <2> QED
    BY <1>12, <2>1, <2>2 DEF RrepArrives, TypeOK, coordinator, adapter
<1>13. CASE TickRetransmits
  <2>1. disc.retry + 1 \in 0..MaxRetries
    BY <1>13 DEF TickRetransmits, RetriesLeft, TypeOK
  <2> QED
    BY <1>13, <2>1 DEF TickRetransmits, TypeOK, coordinator, adapter
<1>14. CASE TickExhausts
  BY <1>14 DEF TickExhausts, TypeOK, coordinator, adapter
<1>15. CASE TickEnds
  <2>1. EndRepair("tick") /\ "tick" \in Tasks
    BY <1>15 DEF TickEnds, Tasks
  <2>2. mishap' \in BOOLEAN
    BY <1>15 DEF TickEnds, TypeOK
  <2> QED
    BY <1>15, <2>1, <2>2, EndTyped DEF TickEnds, TypeOK, coordinator
<1>16. CASE UNCHANGED vars
  BY <1>16 DEF vars, coordinator, adapter, TypeOK
<1> QED
  BY <1>1, <1>2, <1>3, <1>4, <1>5, <1>6, <1>7, <1>8, <1>9, <1>10, <1>11,
     <1>12, <1>13, <1>14, <1>15, <1>16
     DEF Next, RepairTask, WorkerGoesOn, Arrivals, TickTask, Launches, Tasks

-----------------------------------------------------------------------------
Serial == StartsAlone /\ DiscoveryIsOwned /\ CompletionRepairs /\ WaitBehind

\* A request that is not the active one and waits not yet may join the list.
LEMMA KeptWaitsBehind ==
  ASSUME TypeOK, WaitingDistinct, NEW r \in Request,
         waiting' = IF Kept(r) THEN Append(waiting, r) ELSE waiting,
         UNCHANGED <<active, request>>
  PROVE  /\ WaitingDistinct'
         /\ active /\ WaitBehind => WaitBehind'
<1>1. CASE ~Kept(r)
  BY <1>1 DEF WaitingDistinct, WaitBehind
<1>2. CASE Kept(r)
  <2>1. /\ Len(waiting) \in Nat
        /\ DOMAIN waiting = 1..Len(waiting)
        /\ DOMAIN waiting' = 1..(Len(waiting) + 1)
        /\ \A i \in DOMAIN waiting : waiting'[i] = waiting[i]
        /\ waiting'[Len(waiting) + 1] = r
    BY <1>2 DEF TypeOK
  <2>2. \A i \in DOMAIN waiting' : i \in DOMAIN waiting \/ i = Len(waiting) + 1
    BY <2>1
  <2>3. WaitingDistinct'
    BY <1>2, <2>1, <2>2 DEF WaitingDistinct, Kept
  <2>4. active /\ WaitBehind => WaitBehind'
    BY <1>2, <2>1, <2>2 DEF WaitBehind, Kept
  <2> QED
    BY <2>3, <2>4
<1> QED
  BY <1>1, <1>2

\* When a repair ends whose discovery is over and no other one is starting,
\* the next waiting repair, if any, is the only one to start.
LEMMA EndIsSerial ==
  ASSUME TypeOK, WaitingDistinct, WaitBehind, NEW k \in Tasks, EndRepair(k),
         ~Starting, disc.state # "REQUESTING", UNCHANGED disc,
         k = "worker" \/ ~IsVerifying
  PROVE  WaitingDistinct' /\ Serial'
<1>1. CASE waiting = <<>>
  <2>1. /\ waiting' = <<>>
        /\ call' = [call EXCEPT ![k] = Idle]
    BY <1>1 DEF EndRepair
  <2>2. \A l \in Tasks : ~Launching(l)'
    BY <2>1 DEF Starting, Launching, Idle, TypeOK
  <2>3. ~IsVerifying'
    BY <2>1 DEF IsVerifying, Idle, TypeOK, Tasks
  <2> QED
    BY <2>1, <2>2, <2>3 DEF WaitingDistinct, Serial, StartsAlone,
       DiscoveryIsOwned, CompletionRepairs, WaitBehind
<1>2. CASE waiting # <<>>
  <2>1. /\ waiting' = Tail(waiting)
        /\ active' = TRUE
        /\ request' = Head(waiting)
        /\ call' = [call EXCEPT ![k] = [step |-> "launch", req |-> Head(waiting)]]
    BY <1>2 DEF EndRepair, Claim
  <2>2. /\ Len(waiting) \in Nat \ {0}
        /\ DOMAIN waiting = 1..Len(waiting)
        /\ DOMAIN waiting' = 1..(Len(waiting) - 1)
        /\ \A i \in DOMAIN waiting' : waiting'[i] = waiting[i + 1]
        /\ request' = waiting[1]
    BY <1>2, <2>1 DEF TypeOK
  <2>3. \A i \in DOMAIN waiting' :
          i + 1 \in DOMAIN waiting /\ i + 1 # 1
    BY <2>2
  <2>4. WaitingDistinct'
    BY <2>2, <2>3 DEF WaitingDistinct
  <2>5. WaitBehind'
    <3>1. 1 \in DOMAIN waiting
      BY <2>2
    <3> QED
      BY <2>1, <2>2, <2>3, <3>1 DEF WaitBehind, WaitingDistinct
  <2>6. \A l \in Tasks : Launching(l)' => l = k
    BY <2>1 DEF Starting, Launching, TypeOK
  <2>7. call'[k].req = request'
    BY <2>1 DEF TypeOK
  <2>8. StartsAlone'
    BY <2>1, <2>6, <2>7 DEF StartsAlone
  <2>9. ~IsVerifying'
    BY <2>1 DEF IsVerifying, TypeOK, Tasks
  <2> QED
    BY <2>4, <2>5, <2>8, <2>9
       DEF Serial, DiscoveryIsOwned, CompletionRepairs
<1> QED
  BY <1>1, <1>2

\* Every step that leaves no repair given up keeps repairs serial.
LEMMA NextSerial ==
  ASSUME TypeOK, WaitingDistinct, Serial, [Next]_vars, ~mishap'
  PROVE  WaitingDistinct' /\ Serial'
<1> USE DEF Serial
<1>1. ASSUME NEW k \in Tasks, LaunchRefused(k) PROVE FALSE
  BY <1>1 DEF LaunchRefused, StartsAlone
<1>2. ASSUME NEW k \in Tasks, NEW sent \in BOOLEAN, Launch(k, sent)
      PROVE  WaitingDistinct' /\ Serial'
  <2>1. active /\ active' /\ request = call[k].req
    BY <1>2 DEF Launch, StartsAlone
  <2>2. \A l \in Tasks : ~Launching(l)'
    BY <1>2 DEF Launch, StartsAlone, Launching, Idle, TypeOK
  <2>3. ~IsVerifying'
    BY <1>2 DEF Launch, CompletionRepairs, Starting, IsVerifying, Idle, TypeOK,
       Tasks
  <2>4. disc'.dest = request'.dest
    BY <1>2, <2>1 DEF Launch
  <2> QED
    BY <1>2, <2>1, <2>2, <2>3, <2>4 DEF Launch, WaitingDistinct, StartsAlone,
       DiscoveryIsOwned, CompletionRepairs, WaitBehind
<1>3. CASE ConsumeWaits
  <2>1. Head(queue) \in Request
    BY <1>3 DEF ConsumeWaits, Received, TypeOK
  <2>2. WaitingDistinct' /\ WaitBehind'
    BY <1>3, <2>1, KeptWaitsBehind DEF ConsumeWaits
  <2> QED
    BY <1>3, <2>2 DEF ConsumeWaits, StartsAlone, DiscoveryIsOwned,
       CompletionRepairs, Launching, Starting, IsVerifying, AsRepaired
<1>4. CASE ConsumeStarts
  <2>1. DOMAIN waiting = {} /\ waiting' = waiting
    BY <1>4 DEF ConsumeStarts, WaitBehind
  <2>2. /\ \A l \in Tasks : ~Launching(l)
        /\ ~IsVerifying
        /\ disc.state # "REQUESTING" /\ disc' = disc
    BY <1>4 DEF ConsumeStarts, StartsAlone, DiscoveryIsOwned, CompletionRepairs
  <2>3. /\ active' = TRUE
        /\ request' = Head(queue)
        /\ call' = [call EXCEPT !["repair"] =
                       [step |-> "launch", req |-> Head(queue)]]
    BY <1>4 DEF ConsumeStarts, Claim
  <2>4. StartsAlone'
    BY <2>2, <2>3 DEF StartsAlone, Launching, TypeOK
  <2>5. ~IsVerifying'
    BY <2>2, <2>3 DEF IsVerifying, TypeOK, Tasks
  <2> QED
    BY <2>1, <2>2, <2>3, <2>4, <2>5 DEF WaitingDistinct, DiscoveryIsOwned,
       CompletionRepairs, WaitBehind
<1>5. CASE Consumed
  BY <1>5 DEF Consumed, adapter, WaitingDistinct, StartsAlone, DiscoveryIsOwned,
     CompletionRepairs, WaitBehind, Launching, Starting, IsVerifying, AsRepaired
<1>6. ASSUME NEW d \in Dests, RouteFails(d) PROVE WaitingDistinct' /\ Serial'
  <2>1. ~IsVerifying /\ ~IsVerifying'
    BY <1>6 DEF RouteFails, IsVerifying, Idle, TypeOK, Tasks
  <2>2. \A l \in Tasks : Launching(l)' => Launching(l) /\ call'[l] = call[l]
    BY <1>6 DEF RouteFails, Launching, Idle, TypeOK
  <2> QED
    BY <1>6, <2>1, <2>2 DEF RouteFails, adapter, WaitingDistinct, StartsAlone,
       DiscoveryIsOwned, CompletionRepairs, WaitBehind
<1>7. CASE RepairCompletes
  <2>1. /\ EndRepair("worker") /\ "worker" \in Tasks
        /\ ~Starting /\ disc.state # "REQUESTING" /\ UNCHANGED disc
    BY <1>7 DEF RepairCompletes, CompletionRepairs, Tasks
  <2> QED
    BY <2>1, EndIsSerial
<1>8. CASE RepairRejected
  BY <1>8 DEF RepairRejected, CompletionRepairs
<1>9. ASSUME NEW h \in Hops, LinkFails(h) PROVE WaitingDistinct' /\ Serial'
  <2>1. ~IsVerifying'
    BY <1>9 DEF LinkFails, IsVerifying, TypeOK, Tasks
  <2>2. \A l \in Tasks : Launching(l)' => Launching(l) /\ call'[l] = call[l]
    BY <1>9 DEF LinkFails, Launching, TypeOK
  <2> QED
    BY <1>9, <2>1, <2>2 DEF LinkFails, adapter, WaitingDistinct, StartsAlone,
       DiscoveryIsOwned, CompletionRepairs, WaitBehind
<1>10. ASSUME IsIdle("worker"), UNCHANGED <<adapter, disc, call>>
       PROVE  WaitingDistinct' /\ Serial'
  <2>1. ~IsVerifying'
    BY <1>10 DEF IsIdle, IsVerifying, Idle
  <2> QED
    BY <1>10, <2>1 DEF adapter, WaitingDistinct, StartsAlone, DiscoveryIsOwned,
       CompletionRepairs, WaitBehind, Launching
<1>11. ASSUME NEW d \in Dests, NEW h \in Hops, CorrelatedFails(d, h)
       PROVE  WaitingDistinct' /\ Serial'
  BY <1>10, <1>11 DEF CorrelatedFails
<1>12. ASSUME NEW d \in Dests, NEW h \in Hops, RreqArrives(d, h)
       PROVE  WaitingDistinct' /\ Serial'
  BY <1>10, <1>12 DEF RreqArrives
<1>13. ASSUME NEW d \in Dests, NEW h \in Hops, RrepArrives(d, h)
       PROVE  WaitingDistinct' /\ Serial'
  <2>1. CASE ~Awaited(d)
    BY <1>10, <1>13, <2>1 DEF RrepArrives
  <2>2. CASE Awaited(d)
    <3>1. /\ active /\ request.dest = d /\ disc.dest = d
          /\ disc.state = "REQUESTING" /\ h # request.failed
      BY <1>13, <2>2 DEF RrepArrives, Awaited, Excluded
    <3>2. /\ UNCHANGED adapter
          /\ disc' = [disc EXCEPT !.state = "COMPLETE"]
          /\ route'[d] = h
          /\ call' = [call EXCEPT !["worker"] = Verifying]
      BY <1>13, <2>2 DEF RrepArrives, TypeOK
    <3>3. AsRepaired'
      BY <3>1, <3>2, PipelineAssumption DEF AsRepaired, adapter
    <3>4. \A l \in Tasks : ~Launching(l)'
      BY <3>1, <3>2 DEF StartsAlone, Launching, Verifying, TypeOK
    <3>5. disc'.state = "COMPLETE" /\ disc'.dest = d
      BY <3>1, <3>2 DEF TypeOK
    <3> QED
      BY <3>1, <3>2, <3>3, <3>4, <3>5 DEF adapter, WaitingDistinct, StartsAlone,
         DiscoveryIsOwned, CompletionRepairs, WaitBehind, Starting
  <2> QED
    BY <2>1, <2>2
<1>14. CASE TickRetransmits
  <2>1. disc'.state = disc.state /\ disc'.dest = disc.dest
    BY <1>14 DEF TickRetransmits, TypeOK
  <2> QED
    BY <1>14, <2>1 DEF TickRetransmits, adapter, WaitingDistinct, StartsAlone,
       DiscoveryIsOwned, CompletionRepairs, WaitBehind, Launching, Starting,
       IsVerifying, AsRepaired
<1>15. CASE TickExhausts
  <2>1. disc'.state = "FAILED"
    BY <1>15 DEF TickExhausts, TypeOK
  <2> QED
    BY <1>15, <2>1 DEF TickExhausts, adapter, WaitingDistinct, StartsAlone,
       DiscoveryIsOwned, CompletionRepairs, WaitBehind, Launching, Starting,
       IsVerifying, AsRepaired
<1>16. CASE TickEnds
  <2>1. /\ EndRepair("tick") /\ "tick" \in Tasks
        /\ ~Starting /\ disc.state # "REQUESTING" /\ UNCHANGED disc
        /\ ~IsVerifying
    BY <1>16 DEF TickEnds, CompletionRepairs, Tasks
  <2> QED
    BY <2>1, EndIsSerial
<1>17. CASE UNCHANGED vars
  BY <1>17 DEF vars, coordinator, adapter, WaitingDistinct, StartsAlone,
     DiscoveryIsOwned, CompletionRepairs, WaitBehind, Launching, Starting,
     IsVerifying, AsRepaired
<1> QED
  BY <1>1, <1>2, <1>3, <1>4, <1>5, <1>6, <1>7, <1>8, <1>9, <1>11, <1>12,
     <1>13, <1>14, <1>15, <1>16, <1>17
     DEF Next, RepairTask, WorkerGoesOn, Arrivals, TickTask, Launches, Tasks

-----------------------------------------------------------------------------
\* A repair given up is never forgotten.
LEMMA MishapStays == TypeOK /\ [Next]_vars /\ mishap => mishap'
BY DEF TypeOK, Next, RepairTask, WorkerGoesOn, Arrivals, TickTask, Launches,
   LaunchRefused, Launch, ConsumeWaits, ConsumeStarts, Consumed, LinkFails,
   RouteFails, CorrelatedFails, RreqArrives, RrepArrives, RepairCompletes,
   RepairRejected, TickRetransmits, TickExhausts, TickEnds, vars

\* The conjunction of the types, of the distinctness of the waiting repairs
\* and of their serial service holds in every reachable state.
THEOREM Invariance == Spec => []Inv
<1>1. Inv /\ [Next]_vars => Inv'
  <2> SUFFICES ASSUME Inv, [Next]_vars PROVE Inv'
    OBVIOUS
  <2>1. TypeOK'
    BY NextTyped DEF Inv
  <2>2. ~mishap' => WaitingDistinct' /\ Serial'
    <3> SUFFICES ASSUME ~mishap' PROVE WaitingDistinct' /\ Serial'
      OBVIOUS
    <3>1. ~mishap
      BY MishapStays DEF Inv
    <3> QED
      BY <3>1, NextSerial DEF Inv, SerialService, Serial
  <2> QED
    BY <2>1, <2>2 DEF Inv, SerialService, Serial
<1> QED
  BY InitInv, <1>1, PTL DEF Spec

\* The variables of the pipeline keep their types, and the adapter's list of
\* waiting repairs its bound.
THEOREM TypeCorrect == Spec => []TypeOK
<1>1. Inv => TypeOK
  BY DEF Inv
<1> QED
  BY <1>1, Invariance, PTL

\* Repairs are served serially until one is given up while it is being
\* started, for any number of destinations and neighbors: the two mishaps of
\* the module, an RREQ that is not sent and a tick that sees the last
\* discovery, are the only ways to break the adapter's bookkeeping.
THEOREM RepairsAreSerial == Spec => []SerialService
<1>1. Inv => SerialService
  BY DEF Inv
<1> QED
  BY <1>1, Invariance, PTL

-----------------------------------------------------------------------------
(***************************************************************************)
(* The coordinator's reservations.                                         *)
(***************************************************************************)
NoRepeats(s) == \A i, j \in DOMAIN s : s[i].dest = s[j].dest => i = j
DestsOf(s) == {s[i].dest : i \in DOMAIN s}

\* What is in hand is a sequence of requests.
LEMMA InHandTyped == TypeOK => InHand \in Seq(Request)
BY DEF TypeOK, InHand

\* A reservation is made and published together: the queue grows by a request
\* of a destination that had none.
LEMMA RequestReserves ==
  ASSUME TypeOK, PendingIsQueued, NEW d \in Dests, NEW h \in Hops,
         RequestRepair(d, h), UNCHANGED consuming
  PROVE  PendingIsQueued'
<1>1. CASE UNCHANGED <<pending, queue>>
  BY <1>1 DEF PendingIsQueued, InHand
<1>2. CASE ~UNCHANGED <<pending, queue>>
  <2> DEFINE r == [dest |-> d, failed |-> h]
  <2>1. /\ pending' = pending \cup {d}
        /\ queue' = Append(queue, r)
        /\ d \notin pending
        /\ ~(Cardinality(pending) >= MaxPending)
    BY <1>2 DEF RequestRepair, Suppressed
  <2>2. r \in Request /\ r.dest = d
    BY DEF Request
  <2>3. InHand \in Seq(Request)
    BY InHandTyped
  <2>4. InHand' = Append(InHand, r)
    BY <2>1, <2>2 DEF InHand, TypeOK
  <2>5. /\ DOMAIN InHand' = DOMAIN InHand \cup {Len(InHand) + 1}
        /\ \A i \in DOMAIN InHand : InHand'[i] = InHand[i]
        /\ InHand'[Len(InHand) + 1] = r
    BY <2>2, <2>3, <2>4
  <2>6. pending' = DestsOf(InHand')
    BY <2>1, <2>2, <2>5 DEF PendingIsQueued, DestsOf
  <2>7. NoRepeats(InHand')
    BY <2>1, <2>2, <2>5 DEF PendingIsQueued, NoRepeats
  <2>8. Cardinality(pending') <= MaxPending
    <3>1. IsFiniteSet(pending)
      BY FS_Subset, PipelineAssumption DEF TypeOK
    <3>2. Cardinality(pending) \in Nat
      BY <3>1, FS_CardinalityType
    <3>3. Cardinality(pending') = Cardinality(pending) + 1
      BY <2>1, <3>1, FS_AddElement
    <3> QED
      BY <2>1, <3>2, <3>3, PipelineAssumption
  <2> QED
    BY <2>6, <2>7, <2>8 DEF PendingIsQueued, NoRepeats, DestsOf
<1> QED
  BY <1>1, <1>2

\* Receiving a request moves it from the queue into the task's hand.
LEMMA ReceiveKeepsInHand ==
  ASSUME TypeOK, Received, queue' = Tail(queue), consuming' = Head(queue)
  PROVE  InHand' = InHand
<1>1. queue \in Seq(Request) /\ queue # <<>>
  BY DEF TypeOK, Received
<1>2. Head(queue) \in Request /\ queue = <<Head(queue)>> \o Tail(queue)
  BY <1>1
<1>3. consuming' # NoRequest
  BY <1>2, PipelineAssumption DEF Request, NoRequest
<1>4. InHand' = <<Head(queue)>> \o Tail(queue)
  BY <1>3 DEF InHand
<1>5. InHand = queue
  BY <1>1 DEF InHand, Received
<1> QED
  BY <1>2, <1>4, <1>5

\* A consumed request releases the reservation of its destination and no
\* other one (remove_pending()).
LEMMA ConsumedReleases ==
  ASSUME TypeOK, PendingIsQueued, Consumed
  PROVE  PendingIsQueued'
<1>1. /\ consuming \in Request
      /\ InHand = <<consuming>> \o queue
      /\ InHand' = queue
      /\ queue \in Seq(Request)
      /\ pending' = pending \ {consuming.dest}
  BY DEF Consumed, TypeOK, InHand
<1>2. /\ Len(queue) \in Nat
      /\ DOMAIN InHand = 1..(Len(queue) + 1)
      /\ DOMAIN InHand' = 1..Len(queue)
      /\ InHand[1] = consuming
      /\ \A i \in DOMAIN InHand' : InHand'[i] = InHand[i + 1]
  BY <1>1
<1>3. /\ \A i \in DOMAIN InHand' : i + 1 \in DOMAIN InHand /\ i + 1 # 1
      /\ \A i \in DOMAIN InHand : i # 1 => i - 1 \in DOMAIN InHand' /\ i = (i - 1) + 1
      /\ 1 \in DOMAIN InHand
  BY <1>2
<1>4. NoRepeats(InHand')
  <2>1. \A i, j \in DOMAIN InHand' :
          InHand'[i].dest = InHand'[j].dest => i + 1 = j + 1
    BY <1>2, <1>3 DEF PendingIsQueued
  <2> QED
    BY <1>2, <2>1 DEF NoRepeats
<1>5. pending' = DestsOf(InHand')
  <2>1. ASSUME NEW d \in pending' PROVE d \in DestsOf(InHand')
    <3>1. PICK i \in DOMAIN InHand : InHand[i].dest = d
      BY <1>1, <2>1 DEF PendingIsQueued
    <3>2. i # 1
      BY <1>1, <1>2, <2>1, <3>1
    <3>3. i - 1 \in DOMAIN InHand' /\ InHand'[i - 1] = InHand[i]
      BY <1>2, <1>3, <3>2
    <3> QED
      BY <3>1, <3>3 DEF DestsOf
  <2>2. ASSUME NEW d \in DestsOf(InHand') PROVE d \in pending'
    <3>1. PICK i \in DOMAIN InHand' : InHand'[i].dest = d
      BY <2>2 DEF DestsOf
    <3>2. InHand[i + 1].dest = d /\ i + 1 \in DOMAIN InHand /\ i + 1 # 1
      BY <1>2, <1>3, <3>1
    <3>3. d \in pending /\ d # consuming.dest
      BY <1>2, <1>3, <3>2 DEF PendingIsQueued
    <3> QED
      BY <1>1, <3>3
  <2> QED
    BY <2>1, <2>2
<1>6. Cardinality(pending') <= MaxPending
  <2>1. IsFiniteSet(pending)
    BY FS_Subset, PipelineAssumption DEF TypeOK
  <2>2. /\ Cardinality(pending') <= Cardinality(pending)
        /\ Cardinality(pending') \in Nat /\ Cardinality(pending) \in Nat
    BY <1>1, <2>1, FS_Subset, FS_CardinalityType
  <2> QED
    BY <2>2, PipelineAssumption DEF PendingIsQueued
<1> QED
  BY <1>4, <1>5, <1>6 DEF PendingIsQueued, NoRepeats, DestsOf

\* No other step touches what is in hand.
LEMMA NextReserves == TypeOK /\ PendingIsQueued /\ [Next]_vars => PendingIsQueued'
<1> SUFFICES ASSUME TypeOK, PendingIsQueued, [Next]_vars PROVE PendingIsQueued'
  OBVIOUS
<1>1. ASSUME UNCHANGED coordinator PROVE PendingIsQueued'
  BY <1>1 DEF coordinator, PendingIsQueued, InHand
<1>2. ASSUME ConsumeWaits \/ ConsumeStarts PROVE PendingIsQueued'
  <2>1. InHand' = InHand /\ pending' = pending
    BY <1>2, ReceiveKeepsInHand DEF ConsumeWaits, ConsumeStarts
  <2> QED
    BY <2>1 DEF PendingIsQueued
<1>3. ASSUME NEW d \in Dests, RouteFails(d) PROVE PendingIsQueued'
  <2>1. call["worker"].req.failed \in Hops
    BY <1>3 DEF RouteFails, TypeOK, Calls, Idle, Verifying, Tasks
  <2> QED
    BY <1>3, <2>1, RequestReserves DEF RouteFails
<1>4. ASSUME NEW d \in Dests, NEW h \in Hops, CorrelatedFails(d, h)
      PROVE  PendingIsQueued'
  <2>1. CASE UNCHANGED <<pending, queue>>
    BY <1>1, <1>4, <2>1 DEF CorrelatedFails, coordinator
  <2>2. CASE RequestRepair(d, h)
    BY <1>4, <2>2, RequestReserves DEF CorrelatedFails
  <2> QED
    BY <1>4, <2>1, <2>2 DEF CorrelatedFails
<1>5. CASE Consumed
  BY <1>5, ConsumedReleases
<1> QED
  BY <1>1, <1>2, <1>3, <1>4, <1>5
     DEF Next, RepairTask, WorkerGoesOn, Arrivals, TickTask, Launches,
         LaunchRefused, Launch, LinkFails, RreqArrives, RrepArrives,
         RepairCompletes, RepairRejected, TickRetransmits, TickExhausts,
         TickEnds, vars

\* The coordinator's pending set is exact whatever the tasks do, mishaps
\* included, for any bound on it: no destination is reserved twice, none
\* stays reserved once its request has been consumed.
THEOREM ReservationsAreExact == Spec => []PendingIsQueued
<1>1. Init => PendingIsQueued
  <2> SUFFICES ASSUME Init PROVE PendingIsQueued
    OBVIOUS
  <2>1. InHand = <<>> /\ pending = {}
    BY DEF Init, InHand
  <2>2. Cardinality(pending) = 0
    BY <2>1, FS_EmptySet
  <2> QED
    BY <2>1, <2>2, PipelineAssumption DEF PendingIsQueued
<1> QED
  BY <1>1, TypeCorrect, NextReserves, PTL DEF Spec
=============================================================================
