---------------------------- MODULE ReliableRepair ----------------------------
(***************************************************************************)
(* How reliable DATA and route repair meet on one node (the E5E layer):    *)
(* enp_reliability.c on top of enp_e5e.c and enp_e5e_integration.c, which  *)
(* tie every physical transmission of a transaction to a correlation; the  *)
(* data path, which turns a failed transmission into invalidated routes    *)
(* and a repair request; and the ESP-NOW transport with its two bounded    *)
(* queues, its TX task and its worker task.                                *)
(*                                                                         *)
(* The timers are those of module Reliability and are left out here: the   *)
(* tick may find the deadline of any waiting transaction passed.  One      *)
(* action is one call into the stack or one event of a task.               *)
(***************************************************************************)
EXTENDS Integers, Sequences, FiniteSets

CONSTANTS
  MaxSends,          \* bound of the model: transactions created
  Dests,             \* destinations of the DATA traffic
  DestOf,            \* destination of each transaction
  Hops,              \* neighbors a route may go through
  NoHop,             \* no ACTIVE route
  MaxTransactions,   \* ENP_RELIABILITY_MAX_TRANSACTIONS, also the number of
                     \* correlations (ENP_E5E_MAX_CORRELATIONS)
  MaxRetries,        \* ENP_RELIABILITY_MAX_RETRIES
  TxQueueLength,     \* ENP_ESPNOW_TX_QUEUE_LENGTH
  EventQueueLength,  \* ENP_ESPNOW_QUEUE_LENGTH
  MaxPending         \* ENP_ROUTE_REPAIR_MAX_PENDING

Sends == 1..MaxSends
Slots == 1..MaxTransactions

ASSUME SizesAssumption ==
  /\ MaxSends \in Nat
  /\ MaxTransactions \in Nat \ {0}
  /\ MaxRetries \in Nat
  /\ TxQueueLength \in Nat \ {0}
  /\ EventQueueLength \in Nat \ {0}
  /\ MaxPending \in Nat
ASSUME RoutesAssumption ==
  DestOf \in [Sends -> Dests] /\ IsFiniteSet(Dests) /\ NoHop \notin Hops

VARIABLES
  txn,         \* s_transactions
  corr,        \* s_correlations
  nextCorr,    \* s_next_correlation_id
  nextRepair,  \* s_next_repair_id
  route,       \* next hop of the ACTIVE route to each destination, or NoHop
  pending,     \* destinations pending in the route repair coordinator
  txq,         \* s_tx_queue
  inflight,    \* the frame handed to the radio, s_pending_*
  evq,         \* s_queue: transmission results and received ACKs
  aired,       \* history: transactions whose packet went on the air
  log          \* history: every transaction and what became of it

table     == <<txn, log>>
links     == <<corr, nextCorr>>
transport == <<txq, inflight, evq, aired>>
vars == <<table, links, nextRepair, route, pending, transport>>

None == 0            \* the invalid handle, correlation, repair and packet

FreeSlot == [state |-> "INVALID", send |-> None, retry |-> 0, repair |-> None]
NoCorr   == [id |-> None, handle |-> None, repair |-> None, hop |-> NoHop]
NoFrame  == [corr |-> None, hop |-> NoHop, send |-> None]
Unused   == [status |-> "none", packet |-> None, submits |-> 0]

Waiting(s)   == txn[s].state = "WAITING_FOR_ACK"
Suspended(s) == txn[s].state = "REPAIR_PENDING"
Active(s)    == Waiting(s) \/ Suspended(s)
ExhaustedLate(s) == txn[s].retry > MaxRetries  \* variant of Exhausted
Exhausted(s) == txn[s].retry >= MaxRetries

\* The first element in the order of the code's loops.
IsFirst(i, S) == i \in S /\ \A j \in S : i <= j

FreeSlots   == {s \in Slots : ~Active(s)}
UnusedSends == {t \in Sends : log[t].status = "none"}

-----------------------------------------------------------------------------
(***************************************************************************)
(* Correlations: at most one per handle; all of a handle's are released    *)
(* when its transaction completes (e5e_reliability_result).                *)
(***************************************************************************)
FreeCorrs(c) == {i \in Slots : c[i].id = None}

ReleaseNothing(c, s) == c  \* variant of ReleaseHandle
ReleaseHandle(c, s) ==
  [i \in Slots |-> IF c[i].handle = s THEN NoCorr ELSE c[i]]

\* Variant of Associable: a handle may hold several correlations.
AssociableAgain(c, s) == FreeCorrs(c) # {}
Associable(c, s) == FreeCorrs(c) # {} /\ \A i \in Slots : c[i].handle # s

(***************************************************************************)
(* e5e_reliability_submit(): look up the ACTIVE route, associate, queue    *)
(* the frame.  c is the correlation table before the call.  A full queue   *)
(* releases the correlation but its id stays used.                         *)
(***************************************************************************)
HasRoute(t) == route[DestOf[t]] # NoHop
Accepted(c, s, t) ==
  HasRoute(t) /\ Associable(c, s) /\ Len(txq) < TxQueueLength

Submit(c, s, t) ==
  LET free == CHOOSE i \in FreeCorrs(c) : IsFirst(i, FreeCorrs(c))
      hop  == route[DestOf[t]]
      ok   == Accepted(c, s, t)
  IN  /\ corr' = IF ok
                   THEN [c EXCEPT ![free] = [id |-> nextCorr, handle |-> s,
                                             repair |-> None, hop |-> hop]]
                   ELSE ReleaseHandle(c, s)
      /\ nextCorr' = IF HasRoute(t) /\ Associable(c, s) THEN nextCorr + 1
                                                        ELSE nextCorr
      /\ txq' = IF ok
                  THEN Append(txq, [corr |-> nextCorr, hop |-> hop, send |-> t])
                  ELSE txq

\* complete_transaction(): the result callback releases the correlations.
Complete(s, verdict) ==
  /\ txn' = [txn EXCEPT ![s] = FreeSlot]
  /\ log' = [log EXCEPT ![txn[s].send].status = verdict]
  /\ corr' = ReleaseHandle(corr, s)

\* The retransmission of slot s when the correlation table is c.
Resubmit(c, s) ==
  LET t == txn[s].send IN
  /\ Submit(c, s, t)
  /\ txn' = [txn EXCEPT ![s] =
               IF Accepted(c, s, t)
                 THEN [state |-> "WAITING_FOR_ACK", send |-> t,
                       retry |-> txn[s].retry + 1, repair |-> None]
                 ELSE FreeSlot]
  /\ log' = [log EXCEPT ![t].submits = @ + 1,
                        ![t].status = IF Accepted(c, s, t) THEN @ ELSE "FAILED"]

(***************************************************************************)
(* Calls of the application and of the maintenance task.                   *)
(***************************************************************************)
Send(s, t) ==
  /\ IsFirst(s, FreeSlots)
  /\ IsFirst(t, UnusedSends)
  /\ Submit(corr, s, t)
  /\ txn' = IF Accepted(corr, s, t)
              THEN [txn EXCEPT ![s] = [state |-> "WAITING_FOR_ACK", send |-> t,
                                       retry |-> 0, repair |-> None]]
              ELSE txn
  /\ log' = [log EXCEPT ![t] =
               [status |-> IF Accepted(corr, s, t) THEN "open" ELSE "FAILED",
                packet |-> t, submits |-> 1]]
  /\ UNCHANGED <<nextRepair, route, pending, inflight, evq, aired>>

Cancel(s) ==
  /\ Active(s)
  /\ Complete(s, "CANCELLED")
  /\ UNCHANGED <<nextCorr, nextRepair, route, pending, transport>>

TimeoutGivesUp(s) ==
  /\ Waiting(s)
  /\ Exhausted(s)
  /\ Complete(s, "FAILED")
  /\ UNCHANGED <<nextCorr, nextRepair, route, pending, transport>>

TimeoutRetransmits(s) ==
  /\ Waiting(s)
  /\ ~Exhausted(s)
  /\ Resubmit(corr, s)
  /\ UNCHANGED <<nextRepair, route, pending, inflight, evq, aired>>

Timeout(s) == TimeoutGivesUp(s) \/ TimeoutRetransmits(s)

-----------------------------------------------------------------------------
(***************************************************************************)
(* The ESP-NOW transport.  Both queues drop what does not fit.             *)
(***************************************************************************)
Post(e) == evq' = IF Len(evq) < EventQueueLength THEN Append(evq, e) ELSE evq

Result(f, ok) == [kind |-> "result", frame |-> f, ok |-> ok]
Ack(t) == [kind |-> "ack", frame |-> [NoFrame EXCEPT !.send = t], ok |-> TRUE]

\* Traffic without a correlation shares the queue: forwarded DATA, ROUTE and
\* discovery packets.
OtherTraffic(hop) ==
  /\ Len(txq) < TxQueueLength
  /\ txq' = Append(txq, [NoFrame EXCEPT !.hop = hop])
  /\ UNCHANGED <<table, links, nextRepair, route, pending, inflight, evq, aired>>

TxStarts ==
  /\ inflight = NoFrame
  /\ txq # <<>>
  /\ inflight' = Head(txq)
  /\ txq' = Tail(txq)
  /\ aired' = aired \cup ({Head(txq).send} \ {None})
  /\ UNCHANGED <<table, links, nextRepair, route, pending, evq>>

TxRefused ==
  /\ inflight = NoFrame
  /\ txq # <<>>
  /\ txq' = Tail(txq)
  /\ Post(Result(Head(txq), FALSE))
  /\ UNCHANGED <<table, links, nextRepair, route, pending, inflight, aired>>

TxEnds(ok) ==
  /\ inflight # NoFrame
  /\ inflight' = NoFrame
  /\ Post(Result(inflight, ok))
  /\ UNCHANGED <<table, links, nextRepair, route, pending, txq, aired>>

TxTask == TxStarts \/ TxRefused \/ \E ok \in BOOLEAN : TxEnds(ok)

\* An ACK of a packet that went on the air arrives, possibly late or again.
AckArrives(t) ==
  /\ t \in aired
  /\ Post(Ack(t))
  /\ UNCHANGED <<table, links, nextRepair, route, pending, txq, inflight, aired>>

-----------------------------------------------------------------------------
(***************************************************************************)
(* The worker task takes one event at a time.                              *)
(***************************************************************************)
Event == Head(evq)
IsResult(ok) == evq # <<>> /\ Event.kind = "result" /\ Event.ok = ok
\* Variant of CorrOf: a result is matched by the neighbor it came from.
CorrOfHop(f) == {i \in Slots : corr[i].id # None /\ corr[i].hop = f.hop}
CorrOf(f) == {i \in Slots : corr[i].id # None /\ corr[i].id = f.corr}

WorkerAck ==
  /\ evq # <<>>
  /\ Event.kind = "ack"
  /\ evq' = Tail(evq)
  /\ LET acked == {s \in Slots : Waiting(s) /\ txn[s].send = Event.frame.send}
     IN  IF acked = {} THEN UNCHANGED <<table, corr>>
         ELSE \E s \in acked : IsFirst(s, acked) /\ Complete(s, "DELIVERED")
  /\ UNCHANGED <<nextCorr, nextRepair, route, pending, txq, inflight, aired>>

\* A successful transmission only retires its correlation.
WorkerSent ==
  /\ IsResult(TRUE)
  /\ evq' = Tail(evq)
  /\ corr' = [i \in Slots |-> IF i \in CorrOf(Event.frame) THEN NoCorr
                                                           ELSE corr[i]]
  /\ UNCHANGED <<table, nextCorr, nextRepair, route, pending, txq, inflight,
                 aired>>

\* Every ACTIVE route through the neighbor that did not answer is lost.
Broken(hop) == {d \in Dests : route[d] = hop}
Invalidate(hop) == route' = [d \in Dests |-> IF route[d] = hop THEN NoHop
                                                               ELSE route[d]]

\* enp_route_repair_request(): refused for a pending destination and when
\* the pending set is full.
Requestable(d) == d \notin pending /\ Cardinality(pending) < MaxPending

\* A failed transmission without a correlation asks for the repair of each
\* broken route itself (route_failure, in the order of the route table).
WorkerOtherFailed ==
  /\ IsResult(FALSE)
  /\ Event.frame.corr = None
  /\ evq' = Tail(evq)
  /\ Invalidate(Event.frame.hop)
  /\ \E D \in SUBSET (Broken(Event.frame.hop) \ pending) :
       /\ pending' = pending \cup D
       /\ \/ Cardinality(pending') = MaxPending
          \/ /\ Cardinality(pending') < MaxPending
             /\ Broken(Event.frame.hop) \subseteq pending'
  /\ UNCHANGED <<table, links, nextRepair, txq, inflight, aired>>

\* enp_e5e_on_transport_result() for a failure: only a live correlation that
\* is not under repair, of a transaction that waits, starts a repair.
Concerned(f) == {i \in CorrOf(f) : corr[i].repair = None}

WorkerFailureIgnored ==
  /\ IsResult(FALSE)
  /\ Event.frame.corr # None
  /\ \A i \in Concerned(Event.frame) : ~Waiting(corr[i].handle)
  /\ evq' = Tail(evq)
  /\ Invalidate(Event.frame.hop)
  /\ nextRepair' = IF Concerned(Event.frame) = {} THEN nextRepair
                                                  ELSE nextRepair + 1
  /\ UNCHANGED <<table, links, pending, txq, inflight, aired>>

\* Variant of WorkerSuspends: the correlation forgets its repair.
WorkerSuspendsForgets(i) ==
  /\ IsResult(FALSE)
  /\ i \in Concerned(Event.frame)
  /\ Waiting(corr[i].handle)
  /\ Requestable(DestOf[Event.frame.send])
  /\ txn' = [txn EXCEPT ![corr[i].handle].state = "REPAIR_PENDING",
                        ![corr[i].handle].repair = nextRepair]
  /\ pending' = pending \cup {DestOf[Event.frame.send]}
  /\ nextRepair' = nextRepair + 1
  /\ evq' = Tail(evq)
  /\ Invalidate(Event.frame.hop)
  /\ UNCHANGED <<log, links, txq, inflight, aired>>

WorkerSuspends(i) ==
  /\ IsResult(FALSE)
  /\ i \in Concerned(Event.frame)
  /\ Waiting(corr[i].handle)
  /\ Requestable(DestOf[Event.frame.send])
  /\ txn' = [txn EXCEPT ![corr[i].handle].state = "REPAIR_PENDING",
                        ![corr[i].handle].repair = nextRepair]
  /\ pending' = pending \cup {DestOf[Event.frame.send]}
  /\ corr' = [corr EXCEPT ![i].repair = nextRepair]
  /\ nextRepair' = nextRepair + 1
  /\ evq' = Tail(evq)
  /\ Invalidate(Event.frame.hop)
  /\ UNCHANGED <<log, nextCorr, txq, inflight, aired>>

\* The coordinator refuses the request: the transaction fails at once.
WorkerRepairRefused(i) ==
  /\ IsResult(FALSE)
  /\ i \in Concerned(Event.frame)
  /\ Waiting(corr[i].handle)
  /\ ~Requestable(DestOf[Event.frame.send])
  /\ Complete(corr[i].handle, "FAILED")
  /\ nextRepair' = nextRepair + 1
  /\ evq' = Tail(evq)
  /\ Invalidate(Event.frame.hop)
  /\ UNCHANGED <<nextCorr, pending, txq, inflight, aired>>

Worker ==
  \/ WorkerAck
  \/ WorkerSent
  \/ WorkerOtherFailed
  \/ WorkerFailureIgnored
  \/ \E i \in Slots : WorkerSuspends(i) \/ WorkerRepairRefused(i)

-----------------------------------------------------------------------------
(***************************************************************************)
(* The repair side.  Its owner reports the result of any repair it was     *)
(* asked for, once, late, twice or never: enp_e5e_on_repair_result().      *)
(***************************************************************************)
Requested == 1..(nextRepair - 1)

\* The correlation named by the report and a transaction that awaits it.
Repaired(r, i) ==
  /\ corr[i].repair = r
  /\ Suspended(corr[i].handle)
  /\ txn[corr[i].handle].repair = r

\* The old correlation is retired before the retransmission asks for one.
RepairResumes(r, i) ==
  /\ Repaired(r, i)
  /\ ~Exhausted(corr[i].handle)
  /\ Resubmit([corr EXCEPT ![i] = NoCorr], corr[i].handle)
  /\ UNCHANGED <<nextRepair, route, pending, inflight, evq, aired>>

RepairTooLate(r, i) ==
  /\ Repaired(r, i)
  /\ Exhausted(corr[i].handle)
  /\ Complete(corr[i].handle, "FAILED")
  /\ UNCHANGED <<nextCorr, nextRepair, route, pending, transport>>

RepairFails(r, i) ==
  /\ Repaired(r, i)
  /\ Complete(corr[i].handle, "FAILED")
  /\ UNCHANGED <<nextCorr, nextRepair, route, pending, transport>>

\* A report that finds no such pair changes nothing; that a correlation under
\* repair always has its transaction is part of CorrelationsMatch.
RepairReported ==
  \E r \in Requested, i \in Slots :
    RepairResumes(r, i) \/ RepairTooLate(r, i) \/ RepairFails(r, i)

\* The coordinator's task hands a request to the discovery and forgets it.
RepairConsumed(d) ==
  /\ d \in pending
  /\ pending' = pending \ {d}
  /\ UNCHANGED <<table, links, nextRepair, route, transport>>

\* Routes come (RREP, reverse route of an RREQ) and go (RERR, expiry).
RouteChanges(d, hop) ==
  /\ route' = [route EXCEPT ![d] = hop]
  /\ UNCHANGED <<table, links, nextRepair, pending, transport>>

-----------------------------------------------------------------------------
Init ==
  /\ txn = [s \in Slots |-> FreeSlot]
  /\ corr = [i \in Slots |-> NoCorr]
  /\ nextCorr = 1
  /\ nextRepair = 1
  /\ route \in [Dests -> Hops \cup {NoHop}]
  /\ pending = {}
  /\ txq = <<>>
  /\ inflight = NoFrame
  /\ evq = <<>>
  /\ aired = {}
  /\ log = [t \in Sends |-> Unused]

Next ==
  \/ \E s \in Slots, t \in Sends : Send(s, t)
  \/ \E s \in Slots : Cancel(s) \/ Timeout(s)
  \/ \E hop \in Hops : OtherTraffic(hop)
  \/ TxTask
  \/ \E t \in Sends : AckArrives(t)
  \/ Worker
  \/ RepairReported
  \/ \E d \in Dests : RepairConsumed(d)
  \/ \E d \in Dests, hop \in Hops \cup {NoHop} : RouteChanges(d, hop)

Spec == Init /\ [][Next]_vars

\* The tasks run and the owner of the repairs reports them; the application,
\* the neighbors and the routes may do anything.
TaskFairness ==
  /\ WF_vars(TxTask)
  /\ WF_vars(Worker)
  /\ WF_vars(\E s \in Slots : Timeout(s))

FairSpec == Spec /\ TaskFairness /\ WF_vars(RepairReported)

-----------------------------------------------------------------------------
(***************************************************************************)
(* Properties.                                                             *)
(***************************************************************************)
Frame == [corr : Nat, hop : Hops \cup {NoHop}, send : Sends \cup {None}]
Transaction == [state : {"INVALID", "WAITING_FOR_ACK", "REPAIR_PENDING"},
                send : Sends \cup {None}, retry : 0..MaxRetries, repair : Nat]
Correlation == [id : Nat, handle : Slots \cup {None}, repair : Nat,
                hop : Hops \cup {NoHop}]
Record == [status : {"none", "open", "DELIVERED", "FAILED", "CANCELLED"},
           packet : Sends \cup {None}, submits : 0..(MaxRetries + 1)]

\* The variables keep their types, and no queue, table or retry counter
\* passes the bound its C declaration sets.
TypeOK ==
  /\ txn \in [Slots -> Transaction]
  /\ corr \in [Slots -> Correlation]
  /\ nextCorr \in Nat \ {0}
  /\ nextRepair \in Nat \ {0}
  /\ route \in [Dests -> Hops \cup {NoHop}]
  /\ pending \subseteq Dests /\ Cardinality(pending) <= MaxPending
  /\ txq \in Seq(Frame) /\ Len(txq) <= TxQueueLength
  /\ inflight \in Frame
  /\ evq \in Seq([kind : {"result", "ack"}, frame : Frame, ok : BOOLEAN])
  /\ Len(evq) <= EventQueueLength
  /\ aired \subseteq Sends
  /\ log \in [Sends -> Record]

\* Correlations and transactions stay in step (enp_e5e.c lines 162-320): a
\* correlation in use belongs to a transaction in progress, no transaction
\* has two, and a transaction is suspended for a repair exactly when its
\* correlation names that repair, which no other one does.
CorrelationsMatch ==
  /\ \A i \in Slots : corr[i] # NoCorr =>
       /\ corr[i].id \in 1..(nextCorr - 1)
       /\ corr[i].handle \in Slots
       /\ Active(corr[i].handle)
       /\ corr[i].repair = txn[corr[i].handle].repair
       /\ \A j \in Slots : j # i => /\ corr[j].id # corr[i].id
                                    /\ corr[j].handle # corr[i].handle
  /\ \A s \in Slots :
       /\ Suspended(s) <=> txn[s].repair \in Requested
       /\ Suspended(s) => \E i \in Slots : corr[i].handle = s
       /\ \A u \in Slots : Suspended(s) /\ txn[u].repair = txn[s].repair => u = s

\* The frames between the submit callback and the worker, by their place: k in
\* the transmission queue, 0 on the radio, -k as a result in the event queue.
Places ==
  {k \in -Len(evq)..Len(txq) :
     /\ k = 0 => inflight # NoFrame
     /\ k < 0 => evq[-k].kind = "result"}

Outstanding ==
  [k \in Places |-> IF k > 0 THEN txq[k]
                   ELSE IF k = 0 THEN inflight ELSE evq[-k].frame]

\* At most one transmission of a transaction in progress is under way, it is
\* the one its correlation names, and none is under way while a repair is:
\* no retransmission overtakes the result of the one before (enp_e5e.c lines
\* 172-177, enp_e5e_integration.c lines 35-44).
OneTransmission ==
  \A s \in Slots : Active(s) =>
    \A k, l \in DOMAIN Outstanding :
      /\ Outstanding[k].send = txn[s].send
      /\ Outstanding[l].send = txn[s].send
      => /\ k = l
         /\ Waiting(s)
         /\ \E i \in Slots : /\ corr[i].handle = s
                             /\ corr[i].id = Outstanding[k].corr

\* "Destination is not a unique key": what the worker does with a result or
\* an ACK touches no other transaction than the one whose frame it is about,
\* even one to the same destination.
ResultsStayHome ==
  [][evq # <<>> /\ evq' = Tail(evq) =>
       \A s \in Slots :
         Active(s) /\ txn[s].send # Event.frame.send =>
           /\ txn'[s] = txn[s]
           /\ log'[txn[s].send] = log[txn[s].send]]_vars

\* Suspensions, lost results and refused submissions included, the stack
\* keeps the promise of the Reliability layer: bounded submissions and one
\* verdict, never revised.
Delivery == INSTANCE ReliableDelivery
              WITH Packets <- Sends, NoPacket <- None
ImplementsDelivery == Delivery!Spec

\* With an owner that reports every repair, each transaction ends, whatever
\* results the full event queue drops.
EveryTransactionEnds ==
  \A t \in Sends : log[t].status = "open" ~> log[t].status # "open"

-----------------------------------------------------------------------------
(***************************************************************************)
(* What the documents say and the code does not do.                        *)
(***************************************************************************)
\* "When the ACK timeout expires and retries remain, the originating node
\* retransmits": it does when the route is up, the transmission queue has
\* room and no earlier transmission is under way.
RetriesAreUsed ==
  [][\A s \in Slots :
       /\ TimeoutRetransmits(s)
       /\ HasRoute(txn[s].send)
       /\ Len(txq) < TxQueueLength
       /\ \A k \in DOMAIN Outstanding : Outstanding[k].send # txn[s].send
       => log'[txn[s].send].status = "open"]_vars
=============================================================================
