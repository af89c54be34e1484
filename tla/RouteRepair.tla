------------------------------ MODULE RouteRepair ------------------------------
(***************************************************************************)
(* The route repair pipeline of one node: the coordinator                  *)
(* (enp_route_repair.c), the adapter that serves its requests one at a     *)
(* time (enp_route_repair_adapter.c) and the only discovery there is       *)
(* (enp_route_discovery.c).                                                *)
(*                                                                         *)
(* Three tasks of a dual-core chip run this code and no lock is taken:     *)
(* the coordinator's own task consumes requests, the transport's worker    *)
(* reports failures and delivers RREQ and RREP, the tick task polls the    *)
(* discovery.  A step of this module is a stretch of adapter code between  *)
(* two calls into another module; between two steps of a task the others   *)
(* may run.                                                                *)
(*                                                                         *)
(* Route sequences and deadlines are left out: an RREP with an             *)
(* insufficient sequence changes nothing while its repair is active, and a *)
(* tick may find the deadline of the discovery reached.                    *)
(***************************************************************************)
EXTENDS Naturals, Sequences, FiniteSets

CONSTANTS
  Dests,        \* destinations the route table has an entry for
  NoDest,       \* no destination
  Hops,         \* neighbors a route may go through
  NoHop,        \* no ACTIVE route
  MaxPending,   \* ENP_ROUTE_REPAIR_MAX_PENDING, also of the adapter
  QueueLength,  \* ENP_ROUTE_REPAIR_QUEUE_LENGTH
  MaxRetries    \* ENP_MAX_RETRIES

ASSUME PipelineAssumption ==
  /\ NoDest \notin Dests
  /\ NoHop \notin Hops
  /\ IsFiniteSet(Dests)
  /\ MaxPending \in Nat \ {0}
  /\ QueueLength \in Nat /\ QueueLength >= MaxPending
  /\ MaxRetries \in Nat

VARIABLES
  pending,    \* repair->pending[]: destinations
  queue,      \* repair->queue
  consuming,  \* the request repair_task is consuming
  active,     \* adapter->active_repair
  request,    \* adapter->active_request
  waiting,    \* adapter->pending_repairs[]
  disc,       \* adapter->discovery
  route,      \* next hop of the ACTIVE route to each destination, or NoHop
  call,       \* where each task is in the adapter's code
  mishap      \* history: a repair was given up while it was being started

coordinator == <<pending, queue, consuming>>
adapter     == <<active, request, waiting>>
vars == <<coordinator, adapter, disc, route, call, mishap>>

Tasks   == {"repair", "worker", "tick"}
Request == [dest : Dests, failed : Hops]
NoRequest == [dest |-> NoDest, failed |-> NoHop]
Idle      == [step |-> "idle", req |-> NoRequest]
Verifying == [step |-> "verify", req |-> NoRequest]
Calls == {Idle, Verifying}
           \cup [step : {"fail"}, req : [dest : {NoDest}, failed : Hops]]
           \cup [step : {"launch"}, req : Request]

IsIdle(k) == call[k] = Idle
Launching(k) == call[k].step = "launch"
Starting == \E k \in Tasks : Launching(k)

-----------------------------------------------------------------------------
(***************************************************************************)
(* The coordinator.  A destination is reserved before its request is       *)
(* published, and released once the request has been consumed.             *)
(***************************************************************************)
\* Variant of Suppressed: only the size of the pending set is looked at.
SuppressedWhenFull(d) == Cardinality(pending) >= MaxPending
Suppressed(d) == d \in pending \/ Cardinality(pending) >= MaxPending

RequestRepair(d, h) ==
  IF Suppressed(d) \/ Len(queue) >= QueueLength
    THEN UNCHANGED <<pending, queue>>
    ELSE /\ pending' = pending \cup {d}
         /\ queue' = Append(queue, [dest |-> d, failed |-> h])

-----------------------------------------------------------------------------
(***************************************************************************)
(* Start and end of a repair, by any of the three tasks.                   *)
(***************************************************************************)
\* The first half of adapter_start_request(), up to the call of the clock.
Claim(k, r) ==
  /\ active' = TRUE
  /\ request' = r
  /\ call' = [call EXCEPT ![k] = [step |-> "launch", req |-> r]]

\* active_repair = false, then adapter_start_next_pending().
EndWithoutNext(k) ==  \* variant of EndRepair: the next request stays put
  /\ active' = FALSE
  /\ call' = [call EXCEPT ![k] = Idle]
  /\ UNCHANGED <<request, waiting>>
EndRepair(k) ==
  IF waiting = <<>>
    THEN /\ active' = FALSE
         /\ call' = [call EXCEPT ![k] = Idle]
         /\ UNCHANGED <<request, waiting>>
    ELSE /\ waiting' = Tail(waiting)
         /\ Claim(k, Head(waiting))

(***************************************************************************)
(* The second half of adapter_start_request(): start the discovery and     *)
(* send the RREQ.  The discovery refuses while it is REQUESTING; the RREQ  *)
(* cannot be sent when no allowed neighbor is known or the transmission    *)
(* queue is full.                                                          *)
(***************************************************************************)
LaunchRefused(k) ==
  /\ Launching(k)
  /\ disc.state = "REQUESTING"
  /\ active' = FALSE
  /\ call' = [call EXCEPT ![k] = Idle]
  /\ UNCHANGED <<coordinator, request, waiting, disc, route, mishap>>

Launch(k, sent) ==
  /\ Launching(k)
  /\ disc.state # "REQUESTING"
  /\ disc' = [state |-> "REQUESTING", dest |-> call[k].req.dest, retry |-> 0]
  /\ active' = (active /\ sent)
  /\ call' = [call EXCEPT ![k] = Idle]
  /\ mishap' = (mishap \/ ~sent)
  /\ UNCHANGED <<coordinator, request, waiting, route>>

-----------------------------------------------------------------------------
(***************************************************************************)
(* repair_task.                                                            *)
(***************************************************************************)
Received == consuming = NoRequest /\ IsIdle("repair") /\ queue # <<>>

Kept(r) ==  \* adapter_queue_pending()
  /\ r.dest # request.dest
  /\ \A i \in DOMAIN waiting : waiting[i].dest # r.dest
  /\ Len(waiting) < MaxPending

ConsumeWaits ==
  /\ Received
  /\ active
  /\ queue' = Tail(queue)
  /\ consuming' = Head(queue)
  /\ waiting' = IF Kept(Head(queue)) THEN Append(waiting, Head(queue))
                                     ELSE waiting
  /\ UNCHANGED <<pending, active, request, disc, route, call, mishap>>

ConsumeStarts ==
  /\ Received
  /\ ~active
  /\ queue' = Tail(queue)
  /\ consuming' = Head(queue)
  /\ Claim("repair", Head(queue))
  /\ UNCHANGED <<pending, waiting, disc, route, mishap>>

Consumed ==
  /\ consuming # NoRequest
  /\ IsIdle("repair")
  /\ pending' = pending \ {consuming.dest}
  /\ consuming' = NoRequest
  /\ UNCHANGED <<queue, adapter, disc, route, call, mishap>>

-----------------------------------------------------------------------------
(***************************************************************************)
(* The worker task.                                                        *)
(***************************************************************************)
Broken(h) == {d \in Dests : route[d] = h}

\* A transmission without a correlation failed: the routes through its
\* neighbor are invalidated one after the other, and each one's repair is
\* requested before the next one is looked at.
LinkFails(h) ==
  /\ IsIdle("worker")
  /\ Broken(h) # {}
  /\ call' = [call EXCEPT !["worker"] =
                [step |-> "fail", req |-> [dest |-> NoDest, failed |-> h]]]
  /\ UNCHANGED <<coordinator, adapter, disc, route, mishap>>

RouteFails(d) ==
  LET h == call["worker"].req.failed IN
  /\ call["worker"].step = "fail"
  /\ d \in Broken(h)
  /\ route' = [route EXCEPT ![d] = NoHop]
  /\ RequestRepair(d, h)
  /\ call' = IF Broken(h) = {d} THEN [call EXCEPT !["worker"] = Idle] ELSE call
  /\ UNCHANGED <<consuming, adapter, disc, mishap>>

\* The failure of a correlated transmission to d: all routes through the
\* neighbor are invalidated, E5E may ask for the repair of d alone.
Invalidate(h) ==
  route' = [d \in Dests |-> IF route[d] = h THEN NoHop ELSE route[d]]

CorrelatedFails(d, h) ==
  /\ IsIdle("worker")
  /\ Invalidate(h)
  /\ RequestRepair(d, h) \/ UNCHANGED <<pending, queue>>
  /\ UNCHANGED <<consuming, adapter, disc, call, mishap>>

\* An RREQ of d was heard from a neighbor: learn_reverse_route().
RreqArrives(d, h) ==
  /\ IsIdle("worker")
  /\ route' = [route EXCEPT ![d] = h]
  /\ UNCHANGED <<coordinator, adapter, disc, call, mishap>>

(***************************************************************************)
(* An RREP for d from neighbor h.  Every RREP that is not refused installs *)
(* its route, whoever asked for it; the one the discovery waits for        *)
(* completes it.                                                           *)
(***************************************************************************)
NeverExcluded(d, h) == FALSE  \* variant of Excluded
Excluded(d, h) == active /\ d = request.dest /\ h = request.failed

Awaited(d) == active /\ d = request.dest
                     /\ disc.state = "REQUESTING" /\ disc.dest = d

RrepArrives(d, h) ==
  /\ IsIdle("worker")
  /\ ~Excluded(d, h)
  /\ route' = [route EXCEPT ![d] = h]
  /\ IF Awaited(d)
       THEN /\ disc' = [disc EXCEPT !.state = "COMPLETE"]
            /\ call' = [call EXCEPT !["worker"] = Verifying]
       ELSE UNCHANGED <<disc, call>>
  /\ UNCHANGED <<coordinator, adapter, mishap>>

\* The rest of enp_route_repair_adapter_handle_rrep(): a completed repair
\* whose route is not ACTIVE, or goes through the failed hop, is rejected.
IsVerifying == call["worker"].step = "verify"
AsRepaired == route[request.dest] \notin {NoHop, request.failed}

RepairCompletes ==
  /\ IsVerifying
  /\ AsRepaired
  /\ EndRepair("worker")
  /\ UNCHANGED <<coordinator, disc, route, mishap>>

RepairRejected ==
  /\ IsVerifying
  /\ ~AsRepaired
  /\ call' = [call EXCEPT !["worker"] = Idle]
  /\ UNCHANGED <<coordinator, adapter, disc, route, mishap>>

-----------------------------------------------------------------------------
(***************************************************************************)
(* The tick task.                                                          *)
(***************************************************************************)
Polling == IsIdle("tick") /\ active
OneMoreRetry == disc.retry <= MaxRetries  \* variant of RetriesLeft
RetriesLeft == disc.retry < MaxRetries

\* The deadline is reached and a retry remains: the RREQ is sent again,
\* without effect on this state if it cannot be.
TickRetransmits ==
  /\ Polling
  /\ disc.state = "REQUESTING"
  /\ RetriesLeft
  /\ disc' = [disc EXCEPT !.retry = @ + 1]
  /\ UNCHANGED <<coordinator, adapter, route, call, mishap>>

TickExhausts ==
  /\ Polling
  /\ disc.state = "REQUESTING"
  /\ ~RetriesLeft
  /\ disc' = [disc EXCEPT !.state = "FAILED"]
  /\ UNCHANGED <<coordinator, adapter, route, call, mishap>>

TickEnds ==
  /\ Polling
  /\ disc.state = "FAILED"
  /\ EndRepair("tick")
  /\ mishap' = (mishap \/ Starting)
  /\ UNCHANGED <<coordinator, disc, route>>

-----------------------------------------------------------------------------
Init ==
  /\ pending = {}
  /\ queue = <<>>
  /\ consuming = NoRequest
  /\ active = FALSE
  /\ request = NoRequest
  /\ waiting = <<>>
  /\ disc = [state |-> "IDLE", dest |-> NoDest, retry |-> 0]
  /\ route \in [Dests -> Hops \cup {NoHop}]
  /\ call = [k \in Tasks |-> Idle]
  /\ mishap = FALSE

Launches(k) == LaunchRefused(k) \/ \E sent \in BOOLEAN : Launch(k, sent)

RepairTask == ConsumeWaits \/ ConsumeStarts \/ Consumed \/ Launches("repair")

\* What the worker does of itself, once an event has reached it.
WorkerGoesOn ==
  \/ \E d \in Dests : RouteFails(d)
  \/ RepairCompletes \/ RepairRejected
  \/ Launches("worker")

Arrivals ==
  \/ \E h \in Hops : LinkFails(h)
  \/ \E d \in Dests, h \in Hops :
       CorrelatedFails(d, h) \/ RreqArrives(d, h) \/ RrepArrives(d, h)

TickTask == TickRetransmits \/ TickExhausts \/ TickEnds \/ Launches("tick")

Next == RepairTask \/ WorkerGoesOn \/ Arrivals \/ TickTask

Spec == Init /\ [][Next]_vars

\* The three tasks run; what arrives, and when, is up to the network.
FairSpec == Spec /\ WF_vars(RepairTask) /\ WF_vars(WorkerGoesOn)
                 /\ WF_vars(TickTask)

-----------------------------------------------------------------------------
(***************************************************************************)
(* Properties.                                                             *)
(***************************************************************************)
\* The variables keep their types and the adapter's list of waiting repairs
\* its bound (pending_repairs[ENP_ROUTE_REPAIR_ADAPTER_MAX_PENDING]).
TypeOK ==
  /\ pending \subseteq Dests
  /\ queue \in Seq(Request)
  /\ consuming \in Request \cup {NoRequest}
  /\ active \in BOOLEAN
  /\ request \in Request \cup {NoRequest}
  /\ waiting \in Seq(Request) /\ Len(waiting) <= MaxPending
  /\ disc \in [state : {"IDLE", "REQUESTING", "COMPLETE", "FAILED"},
               dest : Dests \cup {NoDest}, retry : 0..MaxRetries]
  /\ route \in [Dests -> Hops \cup {NoHop}]
  /\ call \in [Tasks -> Calls]
  /\ mishap \in BOOLEAN

\* The request being consumed and those behind it in the queue.
InHand == (IF consuming = NoRequest THEN <<>> ELSE <<consuming>>) \o queue

\* "Reserve the destination before publishing the queue item": whatever the
\* coordinator's task and the requesters do, the pending set holds exactly the
\* destinations that are queued or being consumed, each of them once, so that
\* no repair is requested twice and no reservation is left behind
\* (enp_route_repair.c lines 67-76 and 133-157).
PendingIsQueued ==
  /\ pending = {InHand[i].dest : i \in DOMAIN InHand}
  /\ \A i, j \in DOMAIN InHand : InHand[i].dest = InHand[j].dest => i = j
  /\ Cardinality(pending) <= MaxPending

\* "Multiple pending repair destinations are serviced serially": unless a
\* repair was given up while it was being started, one task at most starts a
\* repair, the discovery serves the active repair, the RREP that completes it
\* repairs its route, and no waiting repair is one that runs or lacks one
\* ahead of it (enp_route_repair_adapter.c lines 377-496 and 568-635).
StartsAlone ==
  \A k \in Tasks : Launching(k) =>
    /\ active /\ request = call[k].req
    /\ disc.state # "REQUESTING"
    /\ \A l \in Tasks : Launching(l) => l = k
DiscoveryIsOwned ==
  disc.state = "REQUESTING" => active /\ disc.dest = request.dest
CompletionRepairs ==
  IsVerifying => /\ active /\ disc.dest = request.dest
                 /\ disc.state = "COMPLETE"
                 /\ AsRepaired
                 /\ ~Starting
WaitBehind ==
  \A i \in DOMAIN waiting : active /\ waiting[i].dest # request.dest

SerialService ==
  ~mishap => StartsAlone /\ DiscoveryIsOwned /\ CompletionRepairs /\ WaitBehind

\* "Allow the next queued repair to execute": unless a repair was given up
\* while it was being started, every waiting repair gets its turn.
IsWaiting(d) == \E i \in DOMAIN waiting : waiting[i].dest = d
WaitingRepairsStart ==
  []~mishap => \A d \in Dests : IsWaiting(d) ~> ~IsWaiting(d)

-----------------------------------------------------------------------------
(***************************************************************************)
(* What the documents say and the code does not do.                        *)
(***************************************************************************)
\* A discovery that no repair owns: it can neither complete nor time out,
\* and it refuses every other start.
Orphaned == disc.state = "REQUESTING" /\ ~active /\ ~Starting

\* "The implementation must not indefinitely suppress a destination after
\* completion/failure": an orphaned discovery does not stay so for ever.
SuppressionEnds == Orphaned ~> ~Orphaned
=============================================================================
