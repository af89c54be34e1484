---------------------------- MODULE RoutingNetwork ----------------------------
(***************************************************************************)
(* Route requests and replies between nodes: on every node the adapter     *)
(* that starts discoveries and handles what the others send                *)
(* (enp_route_repair_adapter.c), the RREQ and RREP processors, the route   *)
(* table and the discovery state machine.  Module RouteRepair looks at the *)
(* tasks inside one node; here a call of the adapter is one step and the   *)
(* nodes interact through frames that are lost, delayed and reordered.     *)
(*                                                                         *)
(* A frame holds what the handlers read.  Route lifetimes are left out:    *)
(* nothing in the code calls enp_route_table_expire().  So are route       *)
(* sequences above the initial ones, since no code increments one.  A      *)
(* request stays in the duplicate cache (10 s, 32 entries) at least as     *)
(* long as its discovery sends it again.                                   *)
(***************************************************************************)
EXTENDS Naturals, Sequences, FiniteSets

CONSTANTS
  Nodes,
  NoNode,       \* no node: the zero address
  NoRoute,      \* a destination without an entry
  Select,       \* the neighbors the select_next_hop callback may choose
  FirstRoutes,  \* the routes installed by the application
  TableSize,    \* ENP_MAX_ROUTES
  Ttl,          \* ENP_ROUTE_REPAIR_ADAPTER_DEFAULT_TTL
  MaxRetries,   \* ENP_MAX_RETRIES
  MaxPending,   \* ENP_ROUTE_REPAIR_ADAPTER_MAX_PENDING
  MaxFailures   \* bound of the model: failed transmissions at each node

Request == Nodes \X Nat    \* originator and route_request_id
NoRequest == <<NoNode, 0>>

\* The request a reverse route was learned from is history.
Route == [hop : Nodes, seq : Nat, metric : Nat, active : BOOLEAN,
          learned : Request \cup {NoRequest}]

ASSUME NodesAssumption ==
  IsFiniteSet(Nodes) /\ NoNode \notin Nodes /\ NoRoute \notin Route
ASSUME SelectAssumption == Select \in [Nodes -> [Nodes -> SUBSET Nodes]]
ASSUME RoutesAssumption ==
  /\ FirstRoutes \in [Nodes -> [Nodes -> Route \cup {NoRoute}]]
  /\ \A n, d \in Nodes : FirstRoutes[n][d] # NoRoute =>
       LET r == FirstRoutes[n][d]
       IN  r.learned = NoRequest /\ (r.hop = d \/ FirstRoutes[r.hop][d] # NoRoute)
ASSUME BoundsAssumption ==
  /\ TableSize \in Nat /\ Ttl \in Nat \ {0} /\ MaxRetries \in Nat
  /\ MaxPending \in Nat /\ MaxFailures \in [Nodes -> Nat]

VARIABLES
  routes,    \* the route table of each node
  seen,      \* the requests in its duplicate cache
  asked,     \* repairs its coordinator has not yet handed to the adapter
  adapter,   \* its adapter with the one discovery
  air,       \* frames under way
  failures   \* how often its transmissions have failed

vars == <<routes, seen, asked, adapter, air, failures>>

Repair == [dest : Nodes, failed : Nodes]
Adapter ==
  [active  : BOOLEAN,                                   \* active_repair
   dest    : Nodes \cup {NoNode},                       \* active_request,
   failed  : Nodes \cup {NoNode},
   id      : Nat,                                       \* active_rreq,
   seq     : Nat,
   state   : {"IDLE", "REQUESTING", "COMPLETE", "FAILED"},  \* discovery
   retry   : 0..MaxRetries,
   waiting : Seq(Repair),                               \* pending_repairs[]
   nextId  : Nat]                                       \* next_route_request_id

Rreq == [type : {"RREQ"}, from : Nodes, to : Nodes, request : Request,
         dest : Nodes, seq : Nat, hops : Nat, ttl : Nat]
\* The request an RREP answers is history: the frame does not name it.
Rrep == [type : {"RREP"}, from : Nodes, to : Nodes, request : Request,
         dest : Nodes, seq : Nat, hops : Nat]

Originator(f) == f.request[1]

-----------------------------------------------------------------------------
(***************************************************************************)
(* The route table.                                                        *)
(***************************************************************************)
Installed(n) == {d \in Nodes : routes[n][d] # NoRoute}
Active(n, d) == d \in Installed(n) /\ routes[n][d].active

\* enp_route_table_update() of an entry, or enp_route_table_insert().
HasRoom(n, d) == d \in Installed(n) \/ Cardinality(Installed(n)) < TableSize

Install(n, d, hop, seq, metric, request) ==
  routes' = [routes EXCEPT ![n][d] =
    [hop |-> hop, seq |-> seq, metric |-> metric, active |-> TRUE,
     learned |-> request]]

-----------------------------------------------------------------------------
(***************************************************************************)
(* Sending.  The application's callback chooses a neighbor other than the  *)
(* failed one, or none; the frame may also be refused by the transport.    *)
(***************************************************************************)
Sent(n, failed, f) ==
  {{}} \cup {{[f EXCEPT !.from = n, !.to = h]} :
               h \in Select[n][f.dest] \ {failed}}

\* send_active_rreq()
ActiveRreq(n, a) ==
  Sent(n, a.failed,
       [type |-> "RREQ", from |-> n, to |-> n, request |-> <<n, a.id>>,
        dest |-> a.dest, seq |-> a.seq, hops |-> 0, ttl |-> Ttl])

-----------------------------------------------------------------------------
(***************************************************************************)
(* Starting a repair.  An outcome is the adapter afterwards and the frames *)
(* it has sent.  A repair whose RREQ is not sent is given up, its          *)
(* discovery goes on.                                                      *)
(***************************************************************************)
\* adapter_start_request() of repair r at node n whose adapter is a.
Starts(n, a, r) ==
  LET claimed == [a EXCEPT !.active = TRUE, !.dest = r.dest,
                           !.failed = r.failed, !.nextId = @ + 1]
      started == [claimed EXCEPT !.id = a.nextId, !.seq = routes[n][r.dest].seq,
                                 !.state = "REQUESTING", !.retry = 0]
  IN IF r.dest \notin Installed(n)
       THEN {[adapter |-> a, sent |-> {}]}
     ELSE IF a.state = "REQUESTING"
       THEN {[adapter |-> [claimed EXCEPT !.active = FALSE], sent |-> {}]}
     ELSE {[adapter |-> [started EXCEPT !.active = (out # {})], sent |-> out] :
             out \in ActiveRreq(n, started)}

\* active_repair = false, then adapter_start_next_pending().
Ends(n, a) ==
  IF a.waiting = <<>>
    THEN {[adapter |-> [a EXCEPT !.active = FALSE], sent |-> {}]}
    ELSE Starts(n, [a EXCEPT !.active = FALSE, !.waiting = Tail(@)],
                Head(a.waiting))

\* One of the outcomes happens at n, which has taken the frames in taken.
Becomes(n, outcomes, taken) ==
  \E o \in outcomes : /\ adapter' = [adapter EXCEPT ![n] = o.adapter]
                      /\ air' = (air \ taken) \cup o.sent

-----------------------------------------------------------------------------
(***************************************************************************)
(* Failures and the start of repairs.                                      *)
(***************************************************************************)
Broken(n, h) == {d \in Nodes : Active(n, d) /\ routes[n][d].hop = h}
Asked(n) == {r.dest : r \in asked[n]}

\* A transmission of n to h fails: every route through h becomes STALE, and
\* their repairs are requested, or, when the transmission was a correlated one,
\* that of its destination, whatever its route is by now.  A destination is
\* asked for once, and a full coordinator takes no more.
LinkFails(n, h) ==
  /\ h # n
  /\ failures[n] < MaxFailures[n]
  /\ failures' = [failures EXCEPT ![n] = @ + 1]
  /\ routes' = [routes EXCEPT ![n] =
       [d \in Nodes |-> IF d \in Broken(n, h) THEN [@[d] EXCEPT !.active = FALSE]
                                              ELSE @[d]]]
  /\ \E wanted \in (SUBSET Broken(n, h)) \cup {{d} : d \in Installed(n)} :
       asked' = [asked EXCEPT ![n] =
         @ \cup {[dest |-> d, failed |-> h] : d \in wanted \ Asked(n)}]
  /\ UNCHANGED <<seen, adapter, air>>

\* adapter_queue_pending()
Kept(a, r) ==
  /\ r.dest # a.dest
  /\ \A i \in DOMAIN a.waiting : a.waiting[i].dest # r.dest
  /\ Len(a.waiting) < MaxPending

\* enp_route_repair_adapter_consume()
Consume(n, r) ==
  LET a == adapter[n] IN
  /\ r \in asked[n]
  /\ asked' = [asked EXCEPT ![n] = @ \ {r}]
  /\ Becomes(n,
       IF ~a.active THEN Starts(n, a, r)
       ELSE IF Kept(a, r)
         THEN {[adapter |-> [a EXCEPT !.waiting = Append(@, r)], sent |-> {}]}
       ELSE {[adapter |-> a, sent |-> {}]}, {})
  /\ UNCHANGED <<routes, seen, failures>>

-----------------------------------------------------------------------------
(***************************************************************************)
(* Reception of an RREQ.                                                   *)
(***************************************************************************)
RreqArrives(n, f) == f \in air /\ f.type = "RREQ" /\ f.to = n

Take(f, sent) == air' = (air \ {f}) \cup sent

RreqDuplicate(n, f) ==
  /\ RreqArrives(n, f)
  /\ f.request \in seen[n]
  /\ Take(f, {})
  /\ UNCHANGED <<routes, seen, asked, adapter, failures>>

RecordNot(n, f) == f.request \notin seen[n] /\ UNCHANGED seen  \* variant
Record(n, f) ==
  /\ f.request \notin seen[n]
  /\ seen' = [seen EXCEPT ![n] = @ \cup {f.request}]

\* learn_reverse_route(): whatever the table held for the originator, and
\* with the sequence of the requested destination.
LearnReverse(n, f) ==
  /\ HasRoom(n, Originator(f))
  /\ Install(n, Originator(f), f.from, f.seq, f.hops + 1, f.request)

\* The table is full: the request is rejected, but stays recorded.
RreqUnlearned(n, f) ==
  /\ RreqArrives(n, f)
  /\ Record(n, f)
  /\ ~HasRoom(n, Originator(f))
  /\ Take(f, {})
  /\ UNCHANGED <<routes, asked, adapter, failures>>

\* The destination answers with the sequence it was asked for.
RreqAnswered(n, f) ==
  /\ RreqArrives(n, f)
  /\ Record(n, f)
  /\ LearnReverse(n, f)
  /\ f.dest = n
  /\ \E sent \in {{}, {[type |-> "RREP", from |-> n, to |-> f.from,
                        request |-> f.request, dest |-> n, seq |-> f.seq,
                        hops |-> 1]}} : Take(f, sent)
  /\ UNCHANGED <<asked, adapter, failures>>

RreqExpired(n, f) ==
  /\ RreqArrives(n, f)
  /\ Record(n, f)
  /\ LearnReverse(n, f)
  /\ f.dest # n
  /\ f.ttl <= 1
  /\ Take(f, {})
  /\ UNCHANGED <<asked, adapter, failures>>

\* Variant of RreqForwarded: only the destination learns the way back.
RreqForwardedUnlearned(n, f) ==
  /\ RreqArrives(n, f)
  /\ Record(n, f)
  /\ f.dest # n
  /\ f.ttl > 1
  /\ \E sent \in Sent(n, NoNode, [f EXCEPT !.hops = @ + 1, !.ttl = @ - 1]) :
       Take(f, sent)
  /\ UNCHANGED <<routes, asked, adapter, failures>>

RreqForwarded(n, f) ==
  /\ RreqArrives(n, f)
  /\ Record(n, f)
  /\ LearnReverse(n, f)
  /\ f.dest # n
  /\ f.ttl > 1
  /\ \E sent \in Sent(n, NoNode, [f EXCEPT !.hops = @ + 1, !.ttl = @ - 1]) :
       Take(f, sent)
  /\ UNCHANGED <<asked, adapter, failures>>

-----------------------------------------------------------------------------
(***************************************************************************)
(* Reception of an RREP.  The processor takes its own node for the         *)
(* originator of every discovery, so that no RREP is passed on.            *)
(***************************************************************************)
RrepArrives(n, f) == f \in air /\ f.type = "RREP" /\ f.to = n

Repairs(n, d) == adapter[n].active /\ adapter[n].dest = d
\* Variant of Excluded: only the sequence is compared.
ExcludedBySequence(n, f) == Repairs(n, f.dest) /\ f.seq < adapter[n].seq
Excluded(n, f) ==
  /\ Repairs(n, f.dest)
  /\ f.from = adapter[n].failed \/ f.seq < adapter[n].seq

RrepRejected(n, f) ==
  /\ RrepArrives(n, f)
  /\ Excluded(n, f) \/ ~HasRoom(n, f.dest)
  /\ Take(f, {})
  /\ UNCHANGED <<routes, seen, asked, adapter, failures>>

RrepInstalls(n, f) ==
  /\ RrepArrives(n, f)
  /\ ~Excluded(n, f)
  /\ HasRoom(n, f.dest)
  /\ Install(n, f.dest, f.from, f.seq, f.hops, NoRequest)

Completes(n, d) == Repairs(n, d) /\ adapter[n].state = "REQUESTING"

\* The discovery refuses it: the route stays, the RREP goes no further.
RrepUnasked(n, f) ==
  /\ RrepInstalls(n, f)
  /\ ~Completes(n, f.dest)
  /\ Take(f, {})
  /\ UNCHANGED <<seen, asked, adapter, failures>>

\* The active repair has its route, which avoids the failed neighbor.
RrepCompletes(n, f) ==
  /\ RrepInstalls(n, f)
  /\ Completes(n, f.dest)
  /\ Becomes(n, Ends(n, [adapter[n] EXCEPT !.state = "COMPLETE"]), {f})
  /\ UNCHANGED <<seen, asked, failures>>

-----------------------------------------------------------------------------
(***************************************************************************)
(* enp_route_repair_adapter_tick() with the deadline reached.              *)
(***************************************************************************)
Requesting(n) == adapter[n].active /\ adapter[n].state = "REQUESTING"

OneMoreRetry(n) == adapter[n].retry <= MaxRetries  \* variant of RetriesLeft
RetriesLeft(n) == adapter[n].retry < MaxRetries

NextTryUncounted(a) == a                           \* variant of NextTry
NextTry(a) == [a EXCEPT !.retry = @ + 1]

TickRetransmits(n) ==
  LET a == NextTry(adapter[n]) IN
  /\ Requesting(n)
  /\ RetriesLeft(n)
  /\ Becomes(n, {[adapter |-> a, sent |-> out] : out \in ActiveRreq(n, a)}, {})
  /\ UNCHANGED <<routes, seen, asked, failures>>

TickExhausts(n) ==
  /\ Requesting(n)
  /\ ~RetriesLeft(n)
  /\ Becomes(n, Ends(n, [adapter[n] EXCEPT !.state = "FAILED"]), {})
  /\ UNCHANGED <<routes, seen, asked, failures>>

Lose(f) ==
  /\ f \in air
  /\ Take(f, {})
  /\ UNCHANGED <<routes, seen, asked, adapter, failures>>

-----------------------------------------------------------------------------
Init ==
  /\ routes = FirstRoutes
  /\ seen = [n \in Nodes |-> {}]
  /\ asked = [n \in Nodes |-> {}]
  /\ adapter = [n \in Nodes |->
       [active |-> FALSE, dest |-> NoNode, failed |-> NoNode, id |-> 0,
        seq |-> 0, state |-> "IDLE", retry |-> 0, waiting |-> <<>>,
        nextId |-> 1]]
  /\ air = {}
  /\ failures = [n \in Nodes |-> 0]

Handle(n, f) ==
  \/ RreqDuplicate(n, f) \/ RreqUnlearned(n, f) \/ RreqAnswered(n, f)
  \/ RreqExpired(n, f) \/ RreqForwarded(n, f)
  \/ RrepRejected(n, f) \/ RrepUnasked(n, f) \/ RrepCompletes(n, f)

Tick(n) == TickRetransmits(n) \/ TickExhausts(n)

Consumes(n) == \E r \in asked[n] : Consume(n, r)

Next ==
  \/ \E n, h \in Nodes : LinkFails(n, h)
  \/ \E n \in Nodes : Consumes(n) \/ Tick(n)
  \/ \E n \in Nodes, f \in air : Handle(n, f)
  \/ \E f \in air : Lose(f)

Spec == Init /\ [][Next]_vars

\* The ticks go on; frames may be lost or delayed at will.
FairSpec == Spec /\ \A n \in Nodes : WF_vars(Tick(n))

-----------------------------------------------------------------------------
(***************************************************************************)
(* Properties.                                                             *)
(***************************************************************************)
\* The variables keep their types; the table, the pending repairs and the
\* retries keep their bounds.
TypeOK ==
  /\ routes \in [Nodes -> [Nodes -> Route \cup {NoRoute}]]
  /\ seen \in [Nodes -> SUBSET Request]
  /\ asked \in [Nodes -> SUBSET Repair]
  /\ adapter \in [Nodes -> Adapter]
  /\ air \subseteq Rreq \cup Rrep
  /\ failures \in [Nodes -> Nat]
  /\ \A n \in Nodes : Len(adapter[n].waiting) <= MaxPending

\* Whatever is lost, duplicated in a cycle or refused by a full table, a
\* route leads on: its next hop is the destination or has an entry for it,
\* because a node learns the way back before it passes a request on and
\* passes nothing on when it cannot (enp_rreq_processor.c lines 62-73).
RoutesContinue ==
  \A n, d \in Nodes : d \in Installed(n) =>
    routes[n][d].hop = d \/ d \in Installed(routes[n][d].hop)

\* The reverse routes of one request never form a loop: where two nodes in a
\* row still hold what they learned from the same request, the hop counts
\* fall towards the originator.  Retries of the request take other ways and
\* overtake each other, and only the duplicate cache keeps a node from
\* learning it a second time (enp_rreq_processor.c lines 54-66).
HopsCountDown ==
  \A n, d \in Nodes : d \in Installed(n) =>
    LET r == routes[n][d] IN
    /\ r.learned # NoRequest /\ r.hop # d
    /\ d \in Installed(r.hop) /\ routes[r.hop][d].learned = r.learned
    => routes[r.hop][d].metric < r.metric

\* A route that comes up while it is being repaired avoids the neighbor that
\* failed, however late the replies of earlier discoveries come, unless it is
\* the way back of a request of that destination, which is learned from whoever
\* brings it (enp_route_repair_adapter.c lines 110-126, 568-592).
RestoredRoute(n, d) ==
  LET r == routes'[n][d] IN r.learned # NoRequest \/ r.hop # adapter[n].failed
RestoredAround ==
  [][\A n, d \in Nodes :
       Repairs(n, d) /\ ~Active(n, d) /\ Active(n, d)' => RestoredRoute(n, d)]_vars

\* What the routing protocol asks of an intermediate node: an RREP it has
\* accepted ends nowhere but at the originator of its request, as long as the
\* node knows the way there.  The code ends every RREP at its first receiver.
RepliesReachOriginator ==
  [][\A n \in Nodes, f \in air :
       (RrepUnasked(n, f) \/ RrepCompletes(n, f)) /\ Active(n, Originator(f))
         => n = Originator(f)]_vars

\* Once its links stop failing a node comes to rest: every repair, and every
\* one that waits behind it, ends with a route or with its retries used,
\* whatever the network loses (enp_route_repair_adapter.c lines 618-635).
\* A node none of whose transmissions fails has nothing to repair.
EveryRepairEnds ==
  \A n \in {m \in Nodes : MaxFailures[m] # 0} :
    adapter[n].active ~> ~adapter[n].active
=============================================================================
