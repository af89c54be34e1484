------------------------- MODULE RoutingNetwork_proofs -------------------------
(***************************************************************************)
(* Proofs about module RoutingNetwork, for any nodes, any choice of next   *)
(* hops and any bounds: its types, the invariants RoutesContinue and       *)
(* HopsCountDown, and the action property RestoredAround.                  *)
(***************************************************************************)
EXTENDS RoutingNetwork, TLAPS

(***************************************************************************)
(* The strengthening.  An RREP comes from the destination itself.  Whoever *)
(* sends an RREQ is its originator, or has learned the way back from this  *)
(* very request and sends the hop count it has stored.  What was learned   *)
(* from a request was learned by a node that has it in its cache, from the *)
(* originator or from another such node.                                   *)
(***************************************************************************)
RrepIsDirect == \A f \in air : f.type = "RREP" => f.from = f.dest

LearnedBy(f) ==
  LET h == f.from
      o == Originator(f)
  IN  /\ o \in Installed(h)
      /\ f.request \in seen[h]
      /\ routes[h][o].learned = f.request => routes[h][o].metric = f.hops
RreqIsLearned ==
  \A f \in air : f.type = "RREQ" => f.from = Originator(f) \/ LearnedBy(f)

SeenBy(n, d) ==
  LET r == routes[n][d] IN
  r.learned # NoRequest =>
    /\ r.learned \in seen[n]
    /\ r.hop = d \/ r.learned \in seen[r.hop]
LearnedIsSeen == \A n, d \in Nodes : d \in Installed(n) => SeenBy(n, d)

RepairIsNamed ==
  \A n \in Nodes : adapter[n].active => /\ adapter[n].dest \in Nodes
                                        /\ adapter[n].failed \in Nodes

Routing == RrepIsDirect /\ RreqIsLearned /\ LearnedIsSeen
             /\ RoutesContinue /\ HopsCountDown
Inv == TypeOK /\ RepairIsNamed /\ Routing

\* A frame the node at hand has made itself.
Own(n, g) == g \in Rreq /\ g.from = n /\ g.request[1] = n

-----------------------------------------------------------------------------
LEMMA InitInv == Init => Inv
<1> SUFFICES ASSUME Init PROVE Inv
  OBVIOUS
<1> USE DEF Init
<1>1. TypeOK
  <2>1. \A n \in Nodes : adapter[n] \in Adapter
    BY BoundsAssumption DEF Adapter
  <2>2. \A n \in Nodes : Len(adapter[n].waiting) <= MaxPending
    BY BoundsAssumption
  <2> QED
    BY <2>1, <2>2, RoutesAssumption DEF TypeOK
<1>2. RepairIsNamed
  BY DEF RepairIsNamed
<1>3. RrepIsDirect /\ RreqIsLearned
  BY DEF RrepIsDirect, RreqIsLearned
<1>4. \A n, d \in Nodes : d \in Installed(n) =>
        /\ routes[n][d].learned = NoRequest
        /\ routes[n][d].hop = d \/ d \in Installed(routes[n][d].hop)
  BY RoutesAssumption DEF Installed
<1>5. LearnedIsSeen /\ RoutesContinue /\ HopsCountDown
  BY <1>4 DEF LearnedIsSeen, SeenBy, RoutesContinue, HopsCountDown
<1> QED
  BY <1>1, <1>2, <1>3, <1>5 DEF Inv, Routing

-----------------------------------------------------------------------------
(***************************************************************************)
(* What the adapter's operations return.                                   *)
(***************************************************************************)
\* The frames of a repair are its node's own requests.
LEMMA ActiveRreqOwn ==
  ASSUME NEW n \in Nodes, NEW a \in Adapter, a.dest \in Nodes,
         NEW out \in ActiveRreq(n, a), NEW g \in out
  PROVE  Own(n, g)
<1> DEFINE f == [type |-> "RREQ", from |-> n, to |-> n, request |-> <<n, a.id>>,
                 dest |-> a.dest, seq |-> a.seq, hops |-> 0, ttl |-> Ttl]
<1>1. PICK h \in Select[n][a.dest] \ {a.failed} :
        g = [f EXCEPT !.from = n, !.to = h]
  BY DEF ActiveRreq, Sent
<1>2. h \in Nodes
  BY <1>1, SelectAssumption
<1>3. f \in Rreq
  BY BoundsAssumption DEF Rreq, Request, Adapter
<1>4. g \in Rreq /\ g.from = n /\ g.request = <<n, a.id>>
  BY <1>1, <1>2, <1>3 DEF Rreq
<1> QED
  BY <1>4 DEF Own

\* The outcomes of the start of a repair.
Sound(n, o) ==
  /\ o.adapter \in Adapter
  /\ Len(o.adapter.waiting) <= MaxPending
  /\ o.adapter.active => o.adapter.dest \in Nodes /\ o.adapter.failed \in Nodes
  /\ \A g \in o.sent : Own(n, g)

LEMMA StartsSound ==
  ASSUME TypeOK, NEW n \in Nodes, NEW a \in Adapter, ~a.active,
         Len(a.waiting) <= MaxPending, NEW r \in Repair,
         NEW o \in Starts(n, a, r)
  PROVE  Sound(n, o)
<1> DEFINE claimed == [a EXCEPT !.active = TRUE, !.dest = r.dest,
                                !.failed = r.failed, !.nextId = @ + 1]
           started == [claimed EXCEPT !.id = a.nextId,
                                      !.seq = routes[n][r.dest].seq,
                                      !.state = "REQUESTING", !.retry = 0]
<1> USE DEF Sound
<1>1. r.dest \in Nodes /\ r.failed \in Nodes
  BY DEF Repair
<1>2. claimed \in Adapter /\ claimed.waiting = a.waiting
  <2>1. a.nextId + 1 \in Nat
    BY DEF Adapter
  <2>2. \A x \in Nat : [a EXCEPT !.active = TRUE, !.dest = r.dest,
                         !.failed = r.failed, !.nextId = x] \in Adapter
    BY <1>1 DEF Adapter
  <2>3. claimed \in Adapter
    BY <2>1, <2>2
  <2> QED
    BY <2>3 DEF Adapter
<1>3. CASE r.dest \notin Installed(n)
  <2>1. o = [adapter |-> a, sent |-> {}]
    BY <1>3 DEF Starts
  <2> QED
    BY <2>1
<1>4. CASE r.dest \in Installed(n) /\ a.state = "REQUESTING"
  <2>1. o = [adapter |-> [claimed EXCEPT !.active = FALSE], sent |-> {}]
    BY <1>4 DEF Starts
  <2>2. o.adapter \in Adapter /\ o.adapter.waiting = a.waiting
        /\ ~o.adapter.active /\ o.sent = {}
    BY <1>2, <2>1 DEF Adapter
  <2> QED
    BY <2>2
<1>5. CASE r.dest \in Installed(n) /\ a.state # "REQUESTING"
  <2>1. PICK out \in ActiveRreq(n, started) :
          o = [adapter |-> [started EXCEPT !.active = (out # {})], sent |-> out]
    BY <1>5 DEF Starts
  <2>2. routes[n][r.dest].seq \in Nat
    BY <1>1, <1>5 DEF TypeOK, Installed, Route
  <2>3. started \in Adapter /\ started.dest = r.dest /\ started.failed = r.failed
        /\ started.waiting = a.waiting
    <3>1. a.nextId \in Nat /\ 0 \in 0..MaxRetries
      BY BoundsAssumption DEF Adapter
    <3>2. claimed.dest = r.dest /\ claimed.failed = r.failed
      BY DEF Adapter
    <3> HIDE DEF claimed
    <3>3. started \in Adapter
      BY <1>2, <2>2, <3>1 DEF Adapter
    <3>4. started.dest = claimed.dest /\ started.failed = claimed.failed
          /\ started.waiting = claimed.waiting
      BY <1>2 DEF Adapter
    <3> QED
      BY <1>2, <3>2, <3>3, <3>4
  <2>4. \A g \in o.sent : Own(n, g)
    BY <1>1, <2>1, <2>3, ActiveRreqOwn
  <2>5. o.adapter \in Adapter /\ o.adapter.dest = r.dest
        /\ o.adapter.failed = r.failed /\ o.adapter.waiting = a.waiting
    BY <2>1, <2>3 DEF Adapter
  <2> QED
    BY <1>1, <2>4, <2>5
<1> QED
  BY <1>3, <1>4, <1>5

LEMMA EndsSound ==
  ASSUME TypeOK, NEW n \in Nodes, NEW a \in Adapter,
         Len(a.waiting) <= MaxPending, NEW o \in Ends(n, a)
  PROVE  Sound(n, o)
<1>1. CASE a.waiting = <<>>
  <2>1. o = [adapter |-> [a EXCEPT !.active = FALSE], sent |-> {}]
    BY <1>1 DEF Ends
  <2>2. o.adapter \in Adapter /\ o.adapter.waiting = a.waiting
        /\ ~o.adapter.active /\ o.sent = {}
    BY <2>1 DEF Adapter
  <2> QED
    BY <2>2 DEF Sound
<1>2. CASE a.waiting # <<>>
  <2> DEFINE b == [a EXCEPT !.active = FALSE, !.waiting = Tail(@)]
  <2>1. o \in Starts(n, b, Head(a.waiting))
    BY <1>2 DEF Ends
  <2>2. a.waiting \in Seq(Repair)
    BY DEF Adapter
  <2>3. Head(a.waiting) \in Repair /\ Tail(a.waiting) \in Seq(Repair)
        /\ Len(Tail(a.waiting)) <= MaxPending
    BY <1>2, <2>2, BoundsAssumption
  <2>4. b \in Adapter /\ ~b.active /\ b.waiting = Tail(a.waiting)
    BY <2>3 DEF Adapter
  <2> QED
    BY <2>1, <2>3, <2>4, StartsSound
<1> QED
  BY <1>1, <1>2

-----------------------------------------------------------------------------
(***************************************************************************)
(* The three ways in which a step changes the routing state.               *)
(***************************************************************************)
\* The entries keep what they say, but for their state; the frames are old
\* ones or the node's own requests.
SameEntry(r, s) ==
  /\ (s = NoRoute) = (r = NoRoute)
  /\ r # NoRoute => s.hop = r.hop /\ s.metric = r.metric /\ s.learned = r.learned

LEMMA QuietStep ==
  ASSUME TypeOK, Routing, NEW n \in Nodes,
         \A m, d \in Nodes : SameEntry(routes[m][d], routes'[m][d]),
         \A m \in Nodes : seen[m] \subseteq seen'[m],
         \A g \in air' : g \in air \/ Own(n, g)
  PROVE  Routing'
<1> USE DEF Routing
<1>1. \A m, d \in Nodes :
        (d \in Installed(m))' <=> d \in Installed(m)
  BY DEF Installed, SameEntry
<1>2. \A m, d \in Nodes : d \in Installed(m) =>
        /\ routes'[m][d].hop = routes[m][d].hop
        /\ routes'[m][d].metric = routes[m][d].metric
        /\ routes'[m][d].learned = routes[m][d].learned
        /\ routes[m][d].hop \in Nodes
  BY DEF Installed, SameEntry, TypeOK, Route
<1>3. RrepIsDirect'
  BY DEF RrepIsDirect, Own, Rreq
<1>4. RreqIsLearned'
  <2> SUFFICES ASSUME NEW f \in air', f.type = "RREQ", f.from # Originator(f)
               PROVE  LearnedBy(f)'
    BY DEF RreqIsLearned
  <2>1. f \in air /\ f \in Rreq
    BY DEF Own, Originator, TypeOK, Rrep
  <2>2. LearnedBy(f) /\ f.from \in Nodes /\ Originator(f) \in Nodes
    BY <2>1 DEF RreqIsLearned, Rreq, Request, Originator
  <2> QED
    BY <1>1, <1>2, <2>2 DEF LearnedBy, Originator
<1>5. LearnedIsSeen'
  <2> SUFFICES ASSUME NEW m \in Nodes, NEW d \in Nodes, (d \in Installed(m))'
               PROVE  SeenBy(m, d)'
    BY DEF LearnedIsSeen
  <2>1. SeenBy(m, d) /\ d \in Installed(m)
    BY <1>1 DEF LearnedIsSeen
  <2> QED
    BY <1>2, <2>1 DEF SeenBy
<1>6. RoutesContinue'
  BY <1>1, <1>2 DEF RoutesContinue
<1>7. HopsCountDown'
  BY <1>1, <1>2 DEF HopsCountDown
<1> QED
  BY <1>3, <1>4, <1>5, <1>6, <1>7

\* Node n takes a request it has not seen, learns the way back and passes
\* on what it has stored, or answers as the destination.
LEMMA LearnStep ==
  ASSUME TypeOK, Routing, NEW n \in Nodes, NEW f \in air,
         RreqArrives(n, f), Record(n, f), LearnReverse(n, f),
         \A g \in air' : \/ g \in air
                         \/ g \in Rrep /\ g.from = g.dest
                         \/ /\ g \in Rreq /\ g.from = n
                            /\ g.request = f.request /\ g.hops = f.hops + 1
  PROVE  Routing'
<1> USE DEF Routing
<1> DEFINE o == Originator(f)
           h == f.from
<1>1. /\ f \in Rreq /\ h \in Nodes /\ o \in Nodes /\ f.request \in Request
      /\ f.hops \in Nat /\ f.request # NoRequest /\ f.request[1] = o
  BY NodesAssumption DEF RreqArrives, TypeOK, Rreq, Rrep, Request, Originator,
                         NoRequest
<1>2. /\ routes'[n][o].hop = h
      /\ routes'[n][o].metric = f.hops + 1
      /\ routes'[n][o].learned = f.request
      /\ routes'[n][o] \in Route
  <2> DEFINE e == [hop |-> h, seq |-> f.seq, metric |-> f.hops + 1,
                   active |-> TRUE, learned |-> f.request]
  <2>1. f.seq \in Nat /\ f.hops + 1 \in Nat
    BY <1>1 DEF Rreq
  <2>2. e \in Route
    BY <1>1, <2>1 DEF Route
  <2>3. routes' = [routes EXCEPT ![n][o] = e]
    BY DEF LearnReverse, Install
  <2>4. routes'[n][o] = e
    BY <1>1, <2>3 DEF TypeOK
  <2> QED
    BY <2>2, <2>4
<1>3. \A m, d \in Nodes : m # n \/ d # o => routes'[m][d] = routes[m][d]
  BY <1>1 DEF LearnReverse, Install, TypeOK
<1>4. \A m, d \in Nodes :
        (d \in Installed(m))' <=> d \in Installed(m) \/ (m = n /\ d = o)
  BY <1>1, <1>2, <1>3, NodesAssumption DEF Installed
<1>5. /\ f.request \notin seen[n]
      /\ f.request \in seen'[n]
      /\ \A m \in Nodes : seen[m] \subseteq seen'[m]
  BY DEF Record, TypeOK
<1>6. h = o \/ (h # n /\ LearnedBy(f))
  BY <1>5 DEF RreqIsLearned, RreqArrives, LearnedBy
<1>7. RrepIsDirect'
  BY DEF RrepIsDirect, Rreq
<1>8. RreqIsLearned'
  <2> SUFFICES ASSUME NEW g \in air', g.type = "RREQ", g.from # Originator(g)
               PROVE  LearnedBy(g)'
    BY DEF RreqIsLearned
  <2>1. CASE g \in Rreq /\ g.from = n /\ g.request = f.request
             /\ g.hops = f.hops + 1
    BY <1>1, <1>2, <1>4, <1>5, <2>1 DEF LearnedBy, Originator
  <2>2. CASE g \in air
    <3>1. LearnedBy(g) /\ g.from \in Nodes /\ Originator(g) \in Nodes
      BY <2>2 DEF RreqIsLearned, TypeOK, Rreq, Rrep, Request, Originator
    <3>2. CASE g.from = n /\ Originator(g) = o
      <4>1. g.request # f.request
        BY <1>5, <3>1, <3>2 DEF LearnedBy
      <4> QED
        BY <1>1, <1>2, <1>4, <1>5, <3>1, <3>2, <4>1 DEF LearnedBy, Originator
    <3>3. CASE ~(g.from = n /\ Originator(g) = o)
      BY <1>3, <1>4, <1>5, <3>1, <3>3 DEF LearnedBy, Originator
    <3> QED
      BY <3>2, <3>3
  <2> QED
    BY <2>1, <2>2 DEF Rrep
<1>9. LearnedIsSeen'
  <2> SUFFICES ASSUME NEW m \in Nodes, NEW d \in Nodes, (d \in Installed(m))'
               PROVE  SeenBy(m, d)'
    BY DEF LearnedIsSeen
  <2>1. CASE m = n /\ d = o
    BY <1>2, <1>1, <1>5, <1>6, <2>1 DEF SeenBy, LearnedBy
  <2>2. CASE ~(m = n /\ d = o)
    <3>1. d \in Installed(m) /\ routes'[m][d] = routes[m][d]
      BY <1>3, <1>4, <2>2
    <3>2. SeenBy(m, d) /\ routes[m][d].hop \in Nodes
      BY <3>1 DEF LearnedIsSeen, TypeOK, Route, Installed
    <3> QED
      BY <1>5, <3>1, <3>2 DEF SeenBy
  <2> QED
    BY <2>1, <2>2
<1>10. RoutesContinue'
  <2> SUFFICES ASSUME NEW m \in Nodes, NEW d \in Nodes, (d \in Installed(m))'
               PROVE  \/ routes'[m][d].hop = d
                      \/ (d \in Installed(routes[m][d].hop))'
    BY DEF RoutesContinue
  <2>1. CASE m = n /\ d = o
    BY <1>1, <1>2, <1>4, <1>6, <2>1 DEF LearnedBy
  <2>2. CASE ~(m = n /\ d = o)
    <3>1. d \in Installed(m) /\ routes'[m][d] = routes[m][d]
      BY <1>3, <1>4, <2>2
    <3>2. routes[m][d].hop \in Nodes
      BY <3>1 DEF TypeOK, Route, Installed
    <3> QED
      BY <1>4, <3>1, <3>2 DEF RoutesContinue
  <2> QED
    BY <2>1, <2>2
<1>11. HopsCountDown'
  <2> SUFFICES ASSUME NEW m \in Nodes, NEW d \in Nodes, (d \in Installed(m))',
                      NEW r, r = routes'[m][d],
                      r.learned # NoRequest, r.hop # d,
                      (d \in Installed(r.hop))',
                      routes'[r.hop][d].learned = r.learned
               PROVE  routes'[r.hop][d].metric < r.metric
    BY DEF HopsCountDown
  <2>1. CASE m = n /\ d = o
    <3>1. h # n /\ LearnedBy(f) /\ r.hop = h
      BY <1>2, <1>6, <2>1
    <3>2. routes'[h][o] = routes[h][o]
      BY <1>1, <1>3, <3>1
    <3>3. routes[h][o].metric = f.hops
      BY <1>2, <2>1, <3>1, <3>2 DEF LearnedBy
    <3> QED
      BY <1>1, <1>2, <2>1, <3>1, <3>2, <3>3
  <2>2. CASE ~(m = n /\ d = o)
    <3>1. d \in Installed(m) /\ r = routes[m][d] /\ r.hop \in Nodes
      BY <1>3, <1>4, <2>2 DEF TypeOK, Route, Installed
    <3>2. SeenBy(m, d)
      BY <3>1 DEF LearnedIsSeen
    <3>3. ~(r.hop = n /\ d = o)
      BY <1>2, <1>5, <3>1, <3>2 DEF SeenBy
    <3>4. routes'[r.hop][d] = routes[r.hop][d] /\ d \in Installed(r.hop)
      BY <1>3, <1>4, <3>1, <3>3
    <3> QED
      BY <3>1, <3>4 DEF HopsCountDown
  <2> QED
    BY <2>1, <2>2
<1> QED
  BY <1>7, <1>8, <1>9, <1>10, <1>11

\* Node n installs the route an RREP gives.
LEMMA ReplyStep ==
  ASSUME TypeOK, Routing, NEW n \in Nodes, NEW f \in air,
         RrepInstalls(n, f), UNCHANGED seen,
         \A g \in air' : g \in air \/ Own(n, g)
  PROVE  Routing'
<1> USE DEF Routing
<1> DEFINE d0 == f.dest
<1>1. f \in Rrep /\ d0 \in Nodes /\ f.from = d0
  BY DEF RrepInstalls, RrepArrives, TypeOK, Rreq, Rrep, RrepIsDirect
<1>2. /\ routes'[n][d0].hop = d0
      /\ routes'[n][d0].learned = NoRequest
      /\ routes'[n][d0] \in Route
  BY <1>1 DEF RrepInstalls, Install, TypeOK, Route, Rrep
<1>3. \A m, d \in Nodes : m # n \/ d # d0 => routes'[m][d] = routes[m][d]
  BY <1>1 DEF RrepInstalls, Install, TypeOK
<1>4. \A m, d \in Nodes :
        (d \in Installed(m))' <=> d \in Installed(m) \/ (m = n /\ d = d0)
  BY <1>1, <1>2, <1>3, NodesAssumption DEF Installed
<1>5. RrepIsDirect'
  BY DEF RrepIsDirect, Own, Rreq
<1>6. RreqIsLearned'
  <2> SUFFICES ASSUME NEW g \in air', g.type = "RREQ", g.from # Originator(g)
               PROVE  LearnedBy(g)'
    BY DEF RreqIsLearned
  <2>1. g \in air /\ g \in Rreq
    BY DEF Own, Originator, TypeOK, Rrep
  <2>2. /\ LearnedBy(g) /\ g.from \in Nodes /\ Originator(g) \in Nodes
        /\ g.request # NoRequest
    BY <2>1, NodesAssumption DEF RreqIsLearned, Rreq, Request, Originator, NoRequest
  <2> QED
    BY <1>2, <1>3, <1>4, <2>2 DEF LearnedBy, Originator
<1>7. LearnedIsSeen'
  <2> SUFFICES ASSUME NEW m \in Nodes, NEW d \in Nodes, (d \in Installed(m))'
               PROVE  SeenBy(m, d)'
    BY DEF LearnedIsSeen
  <2>1. CASE m = n /\ d = d0
    BY <1>2, <2>1 DEF SeenBy
  <2>2. CASE ~(m = n /\ d = d0)
    <3>1. d \in Installed(m) /\ routes'[m][d] = routes[m][d]
      BY <1>3, <1>4, <2>2
    <3> QED
      BY <3>1 DEF SeenBy, LearnedIsSeen
  <2> QED
    BY <2>1, <2>2
<1>8. RoutesContinue'
  <2> SUFFICES ASSUME NEW m \in Nodes, NEW d \in Nodes, (d \in Installed(m))'
               PROVE  \/ routes'[m][d].hop = d
                      \/ (d \in Installed(routes[m][d].hop))'
    BY DEF RoutesContinue
  <2>1. CASE m = n /\ d = d0
    BY <1>2, <2>1
  <2>2. CASE ~(m = n /\ d = d0)
    <3>1. d \in Installed(m) /\ routes'[m][d] = routes[m][d]
      BY <1>3, <1>4, <2>2
    <3>2. routes[m][d].hop \in Nodes
      BY <3>1 DEF TypeOK, Route, Installed
    <3> QED
      BY <1>4, <3>1, <3>2 DEF RoutesContinue
  <2> QED
    BY <2>1, <2>2
<1>9. HopsCountDown'
  <2> SUFFICES ASSUME NEW m \in Nodes, NEW d \in Nodes, (d \in Installed(m))',
                      NEW r, r = routes'[m][d],
                      r.learned # NoRequest, r.hop # d,
                      (d \in Installed(r.hop))',
                      routes'[r.hop][d].learned = r.learned
               PROVE  routes'[r.hop][d].metric < r.metric
    BY DEF HopsCountDown
  <2>1. ~(m = n /\ d = d0)
    BY <1>2
  <2>2. d \in Installed(m) /\ r = routes[m][d] /\ r.hop \in Nodes
    BY <1>3, <1>4, <2>1 DEF TypeOK, Route, Installed
  <2>3. ~(r.hop = n /\ d = d0)
    BY <1>2
  <2>4. routes'[r.hop][d] = routes[r.hop][d] /\ d \in Installed(r.hop)
    BY <1>3, <1>4, <2>2, <2>3
  <2> QED
    BY <2>2, <2>4 DEF HopsCountDown
<1> QED
  BY <1>5, <1>6, <1>7, <1>8, <1>9
-----------------------------------------------------------------------------
(***************************************************************************)
(* The invariant is inductive.                                             *)
(***************************************************************************)
\* A step of the adapter of n to one of several sound outcomes.
LEMMA BecomesSound ==
  ASSUME TypeOK, RepairIsNamed, NEW n \in Nodes, NEW outcomes, NEW taken,
         \A o \in outcomes : Sound(n, o), Becomes(n, outcomes, taken)
  PROVE  /\ adapter' \in [Nodes -> Adapter]
         /\ \A m \in Nodes : Len(adapter'[m].waiting) <= MaxPending
         /\ RepairIsNamed'
         /\ air' \subseteq Rreq \cup Rrep
         /\ \A g \in air' : g \in air \/ Own(n, g)
<1>1. PICK o \in outcomes : /\ adapter' = [adapter EXCEPT ![n] = o.adapter]
                            /\ air' = (air \ taken) \cup o.sent
  BY DEF Becomes
<1>2. Sound(n, o)
  BY <1>1
<1>3. adapter \in [Nodes -> Adapter] /\ air \subseteq Rreq \cup Rrep
      /\ \A m \in Nodes : Len(adapter[m].waiting) <= MaxPending
  BY DEF TypeOK
<1>4. adapter' \in [Nodes -> Adapter]
  BY <1>1, <1>2, <1>3 DEF Sound
<1>5. \A m \in Nodes : adapter'[m] = IF m = n THEN o.adapter ELSE adapter[m]
  BY <1>1, <1>3
<1>6. \A m \in Nodes : Len(adapter'[m].waiting) <= MaxPending
  BY <1>2, <1>3, <1>5 DEF Sound
<1>7. RepairIsNamed'
  BY <1>2, <1>5 DEF RepairIsNamed, Sound
<1>8. \A g \in air' : g \in air \/ Own(n, g)
  BY <1>1, <1>2 DEF Sound
<1>9. air' \subseteq Rreq \cup Rrep
  BY <1>3, <1>8 DEF Own
<1> QED
  BY <1>4, <1>6, <1>7, <1>8, <1>9

LEMMA InstallTyped ==
  ASSUME TypeOK, NEW n \in Nodes, NEW d \in Nodes, NEW hop \in Nodes,
         NEW seq \in Nat, NEW metric \in Nat,
         NEW request \in Request \cup {NoRequest},
         Install(n, d, hop, seq, metric, request)
  PROVE  routes' \in [Nodes -> [Nodes -> Route \cup {NoRoute}]]
<1> DEFINE e == [hop |-> hop, seq |-> seq, metric |-> metric, active |-> TRUE,
                 learned |-> request]
<1>1. e \in Route
  BY DEF Route
<1>2. routes' = [routes EXCEPT ![n][d] = e]
  BY DEF Install
<1> QED
  BY <1>1, <1>2 DEF TypeOK

LEMMA LinkFailsInv ==
  ASSUME Inv, NEW n \in Nodes, NEW h \in Nodes, LinkFails(n, h)
  PROVE  Inv'
<1> USE DEF Inv
<1>1. \A m, d \in Nodes :
        /\ routes'[m][d] \in Route \cup {NoRoute}
        /\ SameEntry(routes[m][d], routes'[m][d])
  <2> SUFFICES ASSUME NEW m \in Nodes, NEW d \in Nodes
               PROVE  /\ routes'[m][d] \in Route \cup {NoRoute}
                      /\ SameEntry(routes[m][d], routes'[m][d])
    OBVIOUS
  <2>1. CASE m = n /\ d \in Broken(n, h)
    <3>1. routes'[m][d] = [routes[m][d] EXCEPT !.active = FALSE]
      BY <2>1 DEF LinkFails, TypeOK
    <3>2. routes[m][d] \in Route /\ routes[m][d] # NoRoute
      BY <2>1 DEF Broken, Active, Installed, TypeOK
    <3>3. routes'[m][d] \in Route
      BY <3>1, <3>2 DEF Route
    <3> QED
      BY <3>1, <3>2, <3>3, NodesAssumption DEF SameEntry, Route
  <2>2. CASE ~(m = n /\ d \in Broken(n, h))
    <3>1. routes'[m][d] = routes[m][d]
      BY <2>2 DEF LinkFails, TypeOK
    <3> QED
      BY <3>1 DEF SameEntry, TypeOK
  <2> QED
    BY <2>1, <2>2
<1>2. routes' \in [Nodes -> [Nodes -> Route \cup {NoRoute}]]
  <2>1. routes' = [routes EXCEPT ![n] = routes'[n]]
        /\ routes'[n] = [d \in Nodes |-> routes'[n][d]]
    BY DEF LinkFails, TypeOK
  <2>2. routes'[n] \in [Nodes -> Route \cup {NoRoute}]
    BY <1>1, <2>1
  <2> QED
    BY <2>1, <2>2 DEF TypeOK
<1>3. asked' \in [Nodes -> SUBSET Repair]
  <2>1. PICK wanted \in (SUBSET Broken(n, h)) \cup {{d} : d \in Installed(n)} :
          asked' = [asked EXCEPT ![n] =
            @ \cup {[dest |-> d, failed |-> h] : d \in wanted \ Asked(n)}]
    BY DEF LinkFails
  <2>2. wanted \subseteq Nodes
    <3>1. Broken(n, h) \subseteq Nodes /\ Installed(n) \subseteq Nodes
      BY DEF Broken, Installed
    <3> QED
      BY <3>1
  <2>3. {[dest |-> d, failed |-> h] : d \in wanted \ Asked(n)} \subseteq Repair
    BY <2>2 DEF Repair
  <2> QED
    BY <2>1, <2>3 DEF TypeOK
<1>4. failures' \in [Nodes -> Nat]
  BY DEF LinkFails, TypeOK
<1>5. UNCHANGED <<seen, adapter, air>>
  BY DEF LinkFails
<1>6. TypeOK'
  BY <1>2, <1>3, <1>4, <1>5 DEF TypeOK
<1>7. RepairIsNamed'
  BY <1>5 DEF RepairIsNamed
<1>8. Routing'
  BY <1>1, <1>5, QuietStep
<1> QED
  BY <1>6, <1>7, <1>8

\* A step that leaves routes, caches and failures alone.
LEMMA AdapterInv ==
  ASSUME Inv, NEW n \in Nodes, NEW outcomes,
         \A o \in outcomes : Sound(n, o), Becomes(n, outcomes, {}),
         asked' \in [Nodes -> SUBSET Repair], UNCHANGED <<routes, seen, failures>>
  PROVE  Inv'
<1> USE DEF Inv
<1>1. /\ adapter' \in [Nodes -> Adapter]
      /\ \A m \in Nodes : Len(adapter'[m].waiting) <= MaxPending
      /\ RepairIsNamed'
      /\ air' \subseteq Rreq \cup Rrep
      /\ \A g \in air' : g \in air \/ Own(n, g)
  BY BecomesSound
<1>2. TypeOK'
  BY <1>1 DEF TypeOK
<1>3. Routing'
  BY <1>1, QuietStep DEF SameEntry
<1> QED
  BY <1>1, <1>2, <1>3

LEMMA ConsumeInv ==
  ASSUME Inv, NEW n \in Nodes, NEW r \in asked[n], Consume(n, r)
  PROVE  Inv'
<1> USE DEF Inv
<1> DEFINE a == adapter[n]
           outcomes ==
             IF ~a.active THEN Starts(n, a, r)
             ELSE IF Kept(a, r)
               THEN {[adapter |-> [a EXCEPT !.waiting = Append(@, r)], sent |-> {}]}
             ELSE {[adapter |-> a, sent |-> {}]}
<1>1. a \in Adapter /\ Len(a.waiting) <= MaxPending /\ r \in Repair
      /\ (a.active => a.dest \in Nodes /\ a.failed \in Nodes)
  BY DEF TypeOK, RepairIsNamed
<1>2. ASSUME NEW o \in outcomes PROVE Sound(n, o)
  <2>1. CASE ~a.active
    BY <1>1, <1>2, <2>1, StartsSound
  <2>2. CASE a.active /\ Kept(a, r)
    <3>1. a.waiting \in Seq(Repair) /\ Len(a.waiting) < MaxPending
      BY <1>1, <2>2 DEF Kept, Adapter
    <3>2. Append(a.waiting, r) \in Seq(Repair)
          /\ Len(Append(a.waiting, r)) <= MaxPending
      BY <1>1, <3>1, BoundsAssumption
    <3>3. o = [adapter |-> [a EXCEPT !.waiting = Append(@, r)], sent |-> {}]
      BY <1>2, <2>2
    <3>4. o.adapter \in Adapter /\ o.adapter.waiting = Append(a.waiting, r)
          /\ o.adapter.dest = a.dest /\ o.adapter.failed = a.failed
          /\ o.adapter.active = a.active /\ o.sent = {}
      BY <1>1, <3>2, <3>3 DEF Adapter
    <3> QED
      BY <1>1, <3>2, <3>4 DEF Sound
  <2>3. CASE a.active /\ ~Kept(a, r)
    <3>1. o = [adapter |-> a, sent |-> {}]
      BY <1>2, <2>3
    <3> QED
      BY <1>1, <3>1 DEF Sound
  <2> QED
    BY <2>1, <2>2, <2>3
<1>3. asked' \in [Nodes -> SUBSET Repair]
  BY DEF Consume, TypeOK
<1>4. Becomes(n, outcomes, {}) /\ UNCHANGED <<routes, seen, failures>>
  BY DEF Consume
<1> HIDE DEF outcomes
<1> QED
  BY <1>2, <1>3, <1>4, AdapterInv

LEMMA TickInv ==
  ASSUME Inv, NEW n \in Nodes, Tick(n)
  PROVE  Inv'
<1> USE DEF Inv
<1> DEFINE a == adapter[n]
<1>1. a \in Adapter /\ Len(a.waiting) <= MaxPending
      /\ (a.active => a.dest \in Nodes /\ a.failed \in Nodes)
  BY DEF TypeOK, RepairIsNamed
<1>2. CASE TickRetransmits(n)
  <2> DEFINE b == NextTry(a)
             outcomes == {[adapter |-> b, sent |-> out] : out \in ActiveRreq(n, b)}
  <2>1. a.active /\ a.retry < MaxRetries
    BY <1>2 DEF TickRetransmits, Requesting, RetriesLeft
  <2>2. b \in Adapter /\ b.waiting = a.waiting /\ b.dest = a.dest
        /\ b.failed = a.failed /\ b.active = a.active
    <3>1. a.retry + 1 \in 0..MaxRetries
      BY <1>1, <2>1, BoundsAssumption DEF Adapter
    <3>2. b = [a EXCEPT !.retry = a.retry + 1]
      BY <1>1 DEF NextTry, Adapter
    <3> QED
      BY <1>1, <3>1, <3>2 DEF Adapter
  <2> HIDE DEF b
  <2>3. ASSUME NEW o \in outcomes PROVE Sound(n, o)
    <3>1. PICK out \in ActiveRreq(n, b) : o = [adapter |-> b, sent |-> out]
      BY <2>3
    <3>2. \A g \in out : Own(n, g)
      BY <1>1, <2>1, <2>2, ActiveRreqOwn
    <3> QED
      BY <1>1, <2>2, <3>1, <3>2 DEF Sound
  <2>4. Becomes(n, outcomes, {}) /\ UNCHANGED <<routes, seen, asked, failures>>
    BY <1>2 DEF TickRetransmits, b
  <2> HIDE DEF outcomes
  <2> QED
    BY <2>3, <2>4, AdapterInv DEF TypeOK
<1>3. CASE TickExhausts(n)
  <2> DEFINE b == [a EXCEPT !.state = "FAILED"]
  <2>1. b \in Adapter /\ b.waiting = a.waiting
    BY <1>1 DEF Adapter
  <2>2. \A o \in Ends(n, b) : Sound(n, o)
    BY <1>1, <2>1, EndsSound
  <2>3. Becomes(n, Ends(n, b), {}) /\ UNCHANGED <<routes, seen, asked, failures>>
    BY <1>3 DEF TickExhausts
  <2> QED
    BY <2>2, <2>3, AdapterInv DEF TypeOK
<1> QED
  BY <1>2, <1>3 DEF Tick

\* What a request on the air holds.
LEMMA RreqFields ==
  ASSUME TypeOK, NEW n \in Nodes, NEW f \in air, RreqArrives(n, f)
  PROVE  /\ f \in Rreq /\ f.from \in Nodes /\ f.dest \in Nodes
         /\ f.request \in Request /\ Originator(f) \in Nodes
         /\ f.seq \in Nat /\ f.hops \in Nat /\ f.hops + 1 \in Nat /\ f.ttl \in Nat
BY DEF TypeOK, RreqArrives, Rreq, Rrep, Request, Originator

LEMMA RecordTyped ==
  ASSUME TypeOK, NEW n \in Nodes, NEW f \in air, RreqArrives(n, f), Record(n, f)
  PROVE  /\ seen' \in [Nodes -> SUBSET Request]
         /\ \A m \in Nodes : seen[m] \subseteq seen'[m]
BY RreqFields DEF TypeOK, Record

\* A frame is taken, nothing is learned.
LEMMA TakenInv ==
  ASSUME Inv, NEW n \in Nodes, NEW f \in air, Take(f, {}),
         seen' \in [Nodes -> SUBSET Request],
         \A m \in Nodes : seen[m] \subseteq seen'[m],
         UNCHANGED <<routes, asked, adapter, failures>>
  PROVE  Inv'
<1> USE DEF Inv
<1>1. air' \subseteq air
  BY DEF Take
<1>2. TypeOK'
  BY <1>1 DEF TypeOK
<1>3. RepairIsNamed'
  BY DEF RepairIsNamed
<1>4. Routing'
  BY <1>1, QuietStep DEF SameEntry
<1> QED
  BY <1>2, <1>3, <1>4

\* A request is taken, the way back is learned, at most one frame is sent.
LEMMA LearnedInv ==
  ASSUME Inv, NEW n \in Nodes, NEW f \in air, NEW sent,
         RreqArrives(n, f), Record(n, f), LearnReverse(n, f), Take(f, sent),
         \A g \in sent : \/ g \in Rrep /\ g.from = g.dest
                         \/ /\ g \in Rreq /\ g.from = n
                            /\ g.request = f.request /\ g.hops = f.hops + 1,
         UNCHANGED <<asked, adapter, failures>>
  PROVE  Inv'
<1> USE DEF Inv
<1>1. routes' \in [Nodes -> [Nodes -> Route \cup {NoRoute}]]
  BY RreqFields, InstallTyped DEF LearnReverse
<1>2. seen' \in [Nodes -> SUBSET Request]
  BY RecordTyped
<1>3. air' \subseteq air \cup sent
  BY DEF Take
<1>4. air' \subseteq Rreq \cup Rrep
  BY <1>3 DEF TypeOK
<1>5. TypeOK'
  BY <1>1, <1>2, <1>4 DEF TypeOK
<1>6. RepairIsNamed'
  BY DEF RepairIsNamed
<1>7. Routing'
  BY <1>3, LearnStep
<1> QED
  BY <1>5, <1>6, <1>7

LEMMA RreqInv ==
  ASSUME Inv, NEW n \in Nodes, NEW f \in air,
         \/ RreqDuplicate(n, f) \/ RreqUnlearned(n, f) \/ RreqAnswered(n, f)
         \/ RreqExpired(n, f) \/ RreqForwarded(n, f)
  PROVE  Inv'
<1> USE DEF Inv
<1>1. CASE RreqDuplicate(n, f)
  <2>1. seen' \in [Nodes -> SUBSET Request]
        /\ \A m \in Nodes : seen[m] \subseteq seen'[m]
    BY <1>1 DEF RreqDuplicate, TypeOK
  <2> QED
    BY <1>1, <2>1, TakenInv DEF RreqDuplicate
<1>2. CASE RreqUnlearned(n, f)
  <2>1. seen' \in [Nodes -> SUBSET Request]
        /\ \A m \in Nodes : seen[m] \subseteq seen'[m]
    BY <1>2, RecordTyped DEF RreqUnlearned
  <2> QED
    BY <1>2, <2>1, TakenInv DEF RreqUnlearned
<1>3. CASE RreqAnswered(n, f)
  <2> DEFINE g == [type |-> "RREP", from |-> n, to |-> f.from,
                   request |-> f.request, dest |-> n, seq |-> f.seq, hops |-> 1]
  <2>1. g \in Rrep /\ g.from = g.dest
    BY <1>3, RreqFields DEF RreqAnswered, Rrep
  <2> HIDE DEF g
  <2>2. PICK sent \in {{}, {g}} : Take(f, sent)
    BY <1>3 DEF RreqAnswered, g
  <2>3. \A x \in sent : x \in Rrep /\ x.from = x.dest
    BY <2>1
  <2> QED
    BY <1>3, <2>2, <2>3, LearnedInv DEF RreqAnswered
<1>4. CASE RreqExpired(n, f)
  BY <1>4, LearnedInv DEF RreqExpired
<1>5. CASE RreqForwarded(n, f)
  <2> DEFINE passed == [f EXCEPT !.hops = @ + 1, !.ttl = @ - 1]
  <2>1. f \in Rreq /\ f.hops + 1 \in Nat /\ f.ttl - 1 \in Nat
    BY <1>5, RreqFields DEF RreqForwarded
  <2>2. passed = [f EXCEPT !.hops = f.hops + 1, !.ttl = f.ttl - 1]
    BY <2>1 DEF Rreq
  <2>3. passed \in Rreq /\ passed.request = f.request /\ passed.hops = f.hops + 1
        /\ passed.dest = f.dest
    BY <2>1, <2>2 DEF Rreq
  <2> HIDE DEF passed
  <2>4. PICK sent \in Sent(n, NoNode, passed) : Take(f, sent)
    BY <1>5 DEF RreqForwarded, passed
  <2>5. ASSUME NEW g \in sent
        PROVE  /\ g \in Rreq /\ g.from = n
               /\ g.request = f.request /\ g.hops = f.hops + 1
    <3>1. PICK h \in Select[n][f.dest] : g = [passed EXCEPT !.from = n, !.to = h]
      BY <2>3, <2>4 DEF Sent
    <3>2. h \in Nodes
      BY <2>1, <3>1, SelectAssumption DEF Rreq
    <3> QED
      BY <2>3, <3>1, <3>2 DEF Rreq
  <2> QED
    BY <1>5, <2>4, <2>5, LearnedInv DEF RreqForwarded
<1> QED
  BY <1>1, <1>2, <1>3, <1>4, <1>5

\* What an installing RREP holds: it is direct.
LEMMA RrepFields ==
  ASSUME TypeOK, NEW n \in Nodes, NEW f \in air, RrepInstalls(n, f)
  PROVE  /\ f \in Rrep /\ f.dest \in Nodes /\ f.from \in Nodes
         /\ f.seq \in Nat /\ f.hops \in Nat
         /\ routes' \in [Nodes -> [Nodes -> Route \cup {NoRoute}]]
<1>1. /\ f \in Rrep /\ f.dest \in Nodes /\ f.from \in Nodes
      /\ f.seq \in Nat /\ f.hops \in Nat
  BY DEF RrepInstalls, RrepArrives, TypeOK, Rreq, Rrep
<1> QED
  BY <1>1, InstallTyped DEF RrepInstalls

LEMMA RrepInv ==
  ASSUME Inv, NEW n \in Nodes, NEW f \in air,
         RrepRejected(n, f) \/ RrepUnasked(n, f) \/ RrepCompletes(n, f)
  PROVE  Inv'
<1> USE DEF Inv
<1>1. CASE RrepRejected(n, f)
  <2>1. seen' \in [Nodes -> SUBSET Request]
        /\ \A m \in Nodes : seen[m] \subseteq seen'[m]
    BY <1>1 DEF RrepRejected, TypeOK
  <2> QED
    BY <1>1, <2>1, TakenInv DEF RrepRejected
<1>2. CASE RrepUnasked(n, f)
  <2>1. RrepInstalls(n, f) /\ air' \subseteq air
        /\ UNCHANGED <<seen, asked, adapter, failures>>
    BY <1>2 DEF RrepUnasked, Take
  <2>2. TypeOK'
    BY <2>1, RrepFields DEF TypeOK
  <2>3. RepairIsNamed'
    BY <2>1 DEF RepairIsNamed
  <2>4. Routing'
    BY <2>1, ReplyStep
  <2> QED
    BY <2>2, <2>3, <2>4
<1>3. CASE RrepCompletes(n, f)
  <2> DEFINE b == [adapter[n] EXCEPT !.state = "COMPLETE"]
  <2>1. b \in Adapter /\ Len(b.waiting) <= MaxPending
    BY DEF Adapter, TypeOK
  <2>2. \A o \in Ends(n, b) : Sound(n, o)
    BY <2>1, EndsSound
  <2>3. RrepInstalls(n, f) /\ Becomes(n, Ends(n, b), {f})
        /\ UNCHANGED <<seen, asked, failures>>
    BY <1>3 DEF RrepCompletes
  <2> HIDE DEF b
  <2>4. /\ adapter' \in [Nodes -> Adapter]
        /\ \A m \in Nodes : Len(adapter'[m].waiting) <= MaxPending
        /\ RepairIsNamed'
        /\ air' \subseteq Rreq \cup Rrep
        /\ \A g \in air' : g \in air \/ Own(n, g)
    BY <2>2, <2>3, BecomesSound
  <2>5. TypeOK'
    BY <2>3, <2>4, RrepFields DEF TypeOK
  <2>6. Routing'
    BY <2>3, <2>4, ReplyStep
  <2> QED
    BY <2>4, <2>5, <2>6
<1> QED
  BY <1>1, <1>2, <1>3

LEMMA NextInv == Inv /\ [Next]_vars => Inv'
<1> SUFFICES ASSUME Inv, [Next]_vars PROVE Inv'
  OBVIOUS
<1> USE DEF Inv
<1>1. CASE \E n, h \in Nodes : LinkFails(n, h)
  BY <1>1, LinkFailsInv
<1>2. CASE \E n \in Nodes : Consumes(n) \/ Tick(n)
  BY <1>2, ConsumeInv, TickInv DEF Consumes
<1>3. CASE \E n \in Nodes, f \in air : Handle(n, f)
  BY <1>3, RreqInv, RrepInv DEF Handle
<1>4. CASE \E f \in air : Lose(f)
  <2>1. PICK f \in air : Lose(f)
    BY <1>4
  <2>2. air' \subseteq air /\ UNCHANGED <<routes, seen, asked, adapter, failures>>
    BY <2>1 DEF Lose, Take
  <2>3. TypeOK' /\ RepairIsNamed'
    BY <2>2 DEF TypeOK, RepairIsNamed
  <2>4. CASE Nodes = {}
    BY <2>1, <2>4 DEF TypeOK, Rreq, Rrep
  <2>5. CASE Nodes # {}
    <3>1. PICK n \in Nodes : TRUE
      BY <2>5
    <3> QED
      BY <2>2, <2>3, <3>1, QuietStep DEF SameEntry
  <2> QED
    BY <2>4, <2>5
<1>5. CASE UNCHANGED vars
  BY <1>5 DEF vars, TypeOK, RepairIsNamed, Routing, RrepIsDirect, RreqIsLearned,
              LearnedBy, Originator, LearnedIsSeen, SeenBy, RoutesContinue,
              HopsCountDown, Installed
<1> QED
  BY <1>1, <1>2, <1>3, <1>4, <1>5 DEF Next

-----------------------------------------------------------------------------
(***************************************************************************)
(* The theorems.                                                           *)
(***************************************************************************)
\* Tables, caches, adapters and frames keep their types, and the waiting
\* repairs their bound (pending_repairs[] of enp_route_repair_adapter.c).
THEOREM TypeCorrect == Spec => []TypeOK
<1>1. Spec => []Inv
  BY InitInv, NextInv, PTL DEF Spec
<1> QED
  BY <1>1, PTL DEF Inv

\* However many nodes and whatever is lost, a route leads to the destination
\* or to a node that has an entry for it (enp_rreq_processor.c lines 62-73).
THEOREM RoutesAlwaysContinue == Spec => []RoutesContinue
<1>1. Spec => []Inv
  BY InitInv, NextInv, PTL DEF Spec
<1>2. Inv => RoutesContinue
  BY DEF Inv, Routing
<1> QED
  BY <1>1, <1>2, PTL

\* The reverse routes of one request never form a loop, although its retries
\* reach the nodes over different ways (enp_rreq_processor.c lines 54-66).
THEOREM RequestsDoNotLoop == Spec => []HopsCountDown
<1>1. Spec => []Inv
  BY InitInv, NextInv, PTL DEF Spec
<1>2. Inv => HopsCountDown
  BY DEF Inv, Routing
<1> QED
  BY <1>1, <1>2, PTL

\* A step that brings up a route under repair.
LEMMA RestoredStep ==
  ASSUME Inv, [Next]_vars, NEW n \in Nodes, NEW d \in Nodes,
         Repairs(n, d), ~Active(n, d), Active(n, d)'
  PROVE  RestoredRoute(n, d)
<1> USE DEF Inv
<1>1. routes'[n][d] # routes[n][d]
  BY DEF Active, Installed
<1>2. ~\E m, h \in Nodes : LinkFails(m, h)
  <2> SUFFICES ASSUME NEW m \in Nodes, NEW h \in Nodes, LinkFails(m, h)
               PROVE  FALSE
    OBVIOUS
  <2>1. m = n /\ d \in Broken(m, h)
    BY <1>1 DEF LinkFails, TypeOK
  <2> QED
    BY <2>1 DEF Broken
<1>3. PICK m \in Nodes, f \in air :
        \/ RreqArrives(m, f) /\ LearnReverse(m, f)
        \/ RrepInstalls(m, f)
  <2>1. routes' # routes
    BY <1>1
  <2> QED
    BY <1>2, <2>1 DEF Next, vars, Consumes, Consume, Tick, TickRetransmits,
       TickExhausts, Handle, RreqDuplicate, RreqUnlearned, RreqAnswered,
       RreqExpired, RreqForwarded, RrepRejected, RrepUnasked, RrepCompletes, Lose
<1>4. CASE RreqArrives(m, f) /\ LearnReverse(m, f)
  <2>1. f.request \in Request /\ f.request # NoRequest
    BY <1>4, RreqFields, NodesAssumption DEF Request, NoRequest
  <2>2. m = n /\ d = Originator(f)
    BY <1>1, <1>4 DEF LearnReverse, Install, TypeOK
  <2>3. routes'[n][d].learned = f.request
    BY <1>4, <2>2 DEF LearnReverse, Install, TypeOK
  <2> QED
    BY <2>1, <2>3 DEF RestoredRoute
<1>5. CASE RrepInstalls(m, f)
  <2>1. f.dest \in Nodes /\ f.from = f.dest
    BY <1>5, RrepFields DEF Routing, RrepIsDirect, RrepInstalls, RrepArrives
  <2>2. m = n /\ d = f.dest
    BY <1>1, <1>5 DEF RrepInstalls, Install, TypeOK
  <2>3. routes'[n][d].hop = f.from
    BY <1>5, <2>2 DEF RrepInstalls, Install, TypeOK
  <2>4. f.from # adapter[n].failed
    BY <1>5, <2>2 DEF RrepInstalls, Excluded
  <2> QED
    BY <2>1, <2>2, <2>3, <2>4 DEF RestoredRoute
<1> QED
  BY <1>3, <1>4, <1>5

\* A route under repair comes up around the neighbor that failed, or as the way
\* back of a request of its destination (enp_route_repair_adapter.c lines
\* 110-126 and 568-592).
THEOREM RestorationGoesAround == Spec => RestoredAround
<1>1. Spec => []Inv
  BY InitInv, NextInv, PTL DEF Spec
<1>2. Inv /\ [Next]_vars =>
        [\A n, d \in Nodes :
           Repairs(n, d) /\ ~Active(n, d) /\ Active(n, d)'
             => RestoredRoute(n, d)]_vars
  BY RestoredStep
<1> QED
  BY <1>1, <1>2, PTL DEF Spec, RestoredAround
=============================================================================
