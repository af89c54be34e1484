------------------------------- MODULE DataPlane -------------------------------
(***************************************************************************)
(* Reliable DATA between nodes that forward for each other: the receive    *)
(* data plane of every node (enp_data_plane.c) with its duplicate caches   *)
(* (enp_duplicate.c) and its cache of ACKs, the forwarding of the routing  *)
(* data path, and at the source the timeouts, retries and repairs of       *)
(* Reliability.  Frames are lost, delayed and reordered.  Time passes in   *)
(* units; every age is counted up to the limit that matters.               *)
(*                                                                         *)
(* The routes do not change here: Toward holds every next hop the route of *)
(* a node may name.  A frame that the forwarding node cannot send (no      *)
(* route, queue full) is a frame that gets lost.                           *)
(***************************************************************************)
EXTENDS Naturals, Sequences, FiniteSets

CONSTANTS
  Nodes,
  Packets,       \* DATA packets that require an ACK
  SourceOf,      \* source of each packet
  DestOf,        \* its destination
  SeqOf,         \* its sequence number, chosen by the source
  Toward,        \* next hops from a node to a destination
  Ttl,           \* TTL of a fresh packet
  CacheSize,     \* ENP_DUPLICATE_CACHE_SIZE
  AckCacheSize,  \* ENP_DATA_PLANE_ACK_CACHE_SIZE
  Window,        \* lifetime of the entries of both caches
  AckTimeout,    \* ENP_RELIABILITY_ACK_TIMEOUT_MS
  MaxRetries,    \* ENP_RELIABILITY_MAX_RETRIES
  TickLag,       \* bound of the model: how late the tick looks at a deadline
  MaxFlight,     \* bound of the model: a frame's time between two nodes, and
                 \* the time until its transmission result is known
  MaxRepair,     \* bound of the model: time until a repair is reported
  MaxResets      \* bound of the model: how often the data plane of each node
                 \* starts anew

ASSUME PacketsAssumption ==
  /\ SourceOf \in [Packets -> Nodes]
  /\ DestOf \in [Packets -> Nodes]
  /\ SeqOf \in [Packets -> Nat]
  /\ \A p, q \in Packets :
       SourceOf[p] = SourceOf[q] /\ SeqOf[p] = SeqOf[q] => p = q
ASSUME TowardAssumption == Toward \in [Nodes -> [Nodes -> SUBSET Nodes]]
ASSUME BoundsAssumption ==
  /\ Ttl \in Nat \ {0} /\ MaxRetries \in Nat
  /\ CacheSize \in Nat \ {0} /\ AckCacheSize \in Nat \ {0}
  /\ Window \in Nat \ {0} /\ AckTimeout \in Nat \ {0}
  /\ TickLag \in Nat /\ MaxFlight \in Nat /\ MaxRepair \in Nat
ASSUME ResetsAssumption == MaxResets \in [Nodes -> Nat]

VARIABLES
  txn,    \* the source's transaction of each packet
  seen,   \* the two duplicate caches of each node
  acks,   \* the ACK cache of each node
  air,    \* frames under way
  resets, \* how often the data plane of each node has started anew
  inbox,  \* history: packets delivered to each node's application, in order
  met     \* history: the frames each node's data plane has processed

vars == <<txn, seen, acks, air, resets, inbox, met>>

Kinds == {"DATA", "ACK"}

-----------------------------------------------------------------------------
(***************************************************************************)
(* Frames.  An ACK is itself a packet of the destination's, with its own   *)
(* sequence number: the destination numbers its ACKs in order.             *)
(***************************************************************************)
Origin(f) == IF f.kind = "DATA" THEN SourceOf[f.packet] ELSE DestOf[f.packet]
Target(f) == IF f.kind = "DATA" THEN DestOf[f.packet] ELSE SourceOf[f.packet]

\* What a frame is, wherever it is: the truth the caches must get right.
Content(f) == [kind |-> f.kind, packet |-> f.packet, seq |-> f.seq]

\* enp_routing_data_path_submit(): a fresh packet leaves node n.
Submitted(n, kind, p, seq, target) ==
  {[kind |-> kind, packet |-> p, seq |-> seq, ttl |-> Ttl, to |-> h, age |-> 0] :
     h \in Toward[n][target]}
SubmittedData(p) == Submitted(SourceOf[p], "DATA", p, SeqOf[p], DestOf[p])

\* enp_routing_data_path_forward(): one hop further, with one TTL less.
Forwarded(n, f) ==
  {[f EXCEPT !.ttl = @ - 1, !.to = h, !.age = 0] :
     h \in IF f.ttl > 1 THEN Toward[n][Target(f)] ELSE {}}

\* At most one of the possible frames S goes out; the others in G stay.
Emits(G, S) == \/ S = {} /\ air' = G
               \/ \E f \in S : air' = G \cup {f}

-----------------------------------------------------------------------------
(***************************************************************************)
(* The duplicate caches.  An entry is dropped when it reaches Window, so   *)
(* every entry present is valid; a duplicate does not renew its entry.     *)
(***************************************************************************)
OldestOf(S) == {e \in S : \A d \in S : d.age <= e.age}

EntriesAnyKind(n, kind) == seen[n]  \* variant: DATA and ACK share one cache
Entries(n, kind) == {e \in seen[n] : e.kind = kind}

IsDuplicate(n, f) ==
  \E e \in Entries(n, f.kind) : e.origin = Origin(f) /\ e.seq = f.seq

Entry(f) == [kind |-> f.kind, origin |-> Origin(f), seq |-> f.seq, age |-> 0]

\* Variant of Record: packets for n are not recorded.
RecordRelayed(n, f) ==
  seen' = IF Target(f) = n THEN seen
                           ELSE [seen EXCEPT ![n] = @ \cup {Entry(f)}]
Record(n, f) ==
  IF Cardinality(Entries(n, f.kind)) < CacheSize
    THEN seen' = [seen EXCEPT ![n] = @ \cup {Entry(f)}]
    ELSE \E e \in OldestOf(Entries(n, f.kind)) :
           seen' = [seen EXCEPT ![n] = (@ \ {e}) \cup {Entry(f)}]

(***************************************************************************)
(* The ACK cache, keyed by the source and the sequence of the DATA.        *)
(***************************************************************************)
CachedForAnyone(n, f) ==  \* variant of CachedFor: the source is not compared
  {c \in acks[n] : SeqOf[c.frame.packet] = SeqOf[f.packet]}
CachedFor(n, f) ==
  {c \in acks[n] : /\ SourceOf[c.frame.packet] = SourceOf[f.packet]
                   /\ SeqOf[c.frame.packet] = SeqOf[f.packet]}

CacheAck(n, f) ==
  LET kept == acks[n] \ CachedFor(n, f)
      new  == [frame |-> f, age |-> 0]
  IN  IF Cardinality(kept) < AckCacheSize
        THEN acks' = [acks EXCEPT ![n] = kept \cup {new}]
        ELSE \E c \in OldestOf(kept) :
               acks' = [acks EXCEPT ![n] = (kept \ {c}) \cup {new}]

-----------------------------------------------------------------------------
(***************************************************************************)
(* enp_data_plane_process() on the node that receives frame f.             *)
(***************************************************************************)
Takes(f) == met' = [met EXCEPT ![f.to] = @ \cup {Content(f)}]

\* A duplicate DATA packet brings back its ACK if this node relayed it.
\* Variant: the return after the replay is missing.
ReplayThenForward(f) ==
  /\ f.kind = "DATA" /\ IsDuplicate(f.to, f)
  /\ \E c \in CachedFor(f.to, f), g \in Forwarded(f.to, f) :
       Emits((air \ {f}) \cup {g}, Forwarded(f.to, c.frame))
  /\ Takes(f)
  /\ UNCHANGED <<txn, seen, acks, inbox, resets>>
ReplaysAck(f) ==
  /\ f.kind = "DATA" /\ IsDuplicate(f.to, f)
  /\ \E c \in CachedFor(f.to, f) : Emits(air \ {f}, Forwarded(f.to, c.frame))
  /\ Takes(f)
  /\ UNCHANGED <<txn, seen, acks, inbox, resets>>

Suppresses(f) ==
  /\ IsDuplicate(f.to, f)
  /\ f.kind = "DATA" => CachedFor(f.to, f) = {}
  /\ air' = air \ {f}
  /\ Takes(f)
  /\ UNCHANGED <<txn, seen, acks, inbox, resets>>

\* The application at the destination takes the packet and sends an ACK.
DeliversData(f) ==
  /\ f.kind = "DATA" /\ Target(f) = f.to
  /\ ~IsDuplicate(f.to, f)
  /\ Record(f.to, f)
  /\ inbox' = [inbox EXCEPT ![f.to] = Append(@, f.packet)]
  /\ Emits(air \ {f}, Submitted(f.to, "ACK", f.packet, Len(inbox'[f.to]),
                                SourceOf[f.packet]))
  /\ Takes(f)
  /\ UNCHANGED <<txn, acks, resets>>

\* There is no service for it, or the service refuses it.  Variant: the ACK
\* is sent all the same.
LocalFailsAcked(f) ==
  /\ Target(f) = f.to
  /\ ~IsDuplicate(f.to, f)
  /\ Record(f.to, f)
  /\ Emits(air \ {f}, IF f.kind = "ACK" THEN {}
                      ELSE Submitted(f.to, "ACK", f.packet,
                                     Len(inbox[f.to]) + 1, SourceOf[f.packet]))
  /\ Takes(f)
  /\ UNCHANGED <<txn, acks, inbox, resets>>
LocalFails(f) ==
  /\ Target(f) = f.to
  /\ ~IsDuplicate(f.to, f)
  /\ Record(f.to, f)
  /\ air' = air \ {f}
  /\ Takes(f)
  /\ UNCHANGED <<txn, acks, inbox, resets>>

\* enp_reliability_process_ack(): only a transaction that waits takes it.
DeliversAck(f) ==
  /\ f.kind = "ACK" /\ Target(f) = f.to
  /\ ~IsDuplicate(f.to, f)
  /\ Record(f.to, f)
  /\ txn' = IF txn[f.packet].state = "WAITING_FOR_ACK"
              THEN [txn EXCEPT ![f.packet].state = "DELIVERED",
                               ![f.packet].since = 0]
              ELSE txn
  /\ air' = air \ {f}
  /\ Takes(f)
  /\ UNCHANGED <<acks, inbox, resets>>

Relays(f) ==
  /\ Target(f) # f.to
  /\ ~IsDuplicate(f.to, f)
  /\ Record(f.to, f)
  /\ IF f.kind = "ACK" THEN CacheAck(f.to, f) ELSE UNCHANGED acks
  /\ Emits(air \ {f}, Forwarded(f.to, f))
  /\ Takes(f)
  /\ UNCHANGED <<txn, inbox, resets>>

Receive(f) ==
  \/ ReplaysAck(f)
  \/ Suppresses(f)
  \/ DeliversData(f)
  \/ DeliversAck(f)
  \/ LocalFails(f)
  \/ Relays(f)

\* A collision, a full queue, a missing route.
Lose(f) ==
  /\ air' = air \ {f}
  /\ UNCHANGED <<txn, seen, acks, inbox, met, resets>>

-----------------------------------------------------------------------------
(***************************************************************************)
(* The source: the transactions of module Reliability.                     *)
(***************************************************************************)
InState(p, state) == txn[p].state = state
Move(p, state, retry) ==
  txn' = [txn EXCEPT ![p] = [state |-> state, retry |-> retry, since |-> 0]]

Send(p) ==
  /\ InState(p, "none")
  /\ Move(p, "WAITING_FOR_ACK", 0)
  /\ Emits(air, SubmittedData(p))
  /\ UNCHANGED <<seen, acks, inbox, met, resets>>

Retransmit(p) ==
  /\ txn[p].retry < MaxRetries
  /\ Move(p, "WAITING_FOR_ACK", txn[p].retry + 1)
  /\ Emits(air, SubmittedData(p))
  /\ UNCHANGED <<seen, acks, inbox, met, resets>>

GiveUp(p) ==
  /\ Move(p, "FAILED", txn[p].retry)
  /\ UNCHANGED <<seen, acks, air, inbox, met, resets>>

Timeout(p) ==
  /\ InState(p, "WAITING_FOR_ACK")
  /\ txn[p].since >= AckTimeout
  /\ \/ Retransmit(p)
     \/ txn[p].retry >= MaxRetries /\ GiveUp(p)

\* The transmission result is a failure.  The frame may have arrived all the
\* same: then only the confirmation of the next hop was lost.
TransmissionFails(p) ==
  /\ InState(p, "WAITING_FOR_ACK")
  /\ txn[p].since <= MaxFlight
  /\ Move(p, "REPAIR_PENDING", txn[p].retry)
  /\ UNCHANGED <<seen, acks, air, inbox, met, resets>>

RepairSucceeds(p) ==
  /\ InState(p, "REPAIR_PENDING")
  /\ \/ Retransmit(p)
     \/ txn[p].retry >= MaxRetries /\ GiveUp(p)

\* The repair fails, the submission is refused, the application cancels.
Abandon(p) ==
  /\ InState(p, "WAITING_FOR_ACK") \/ InState(p, "REPAIR_PENDING")
  /\ GiveUp(p)

-----------------------------------------------------------------------------
\* enp_data_plane_deinit() and _init(): both caches of a node are forgotten.
Reset(n) ==
  /\ resets[n] < MaxResets[n]
  /\ resets' = [resets EXCEPT ![n] = @ + 1]
  /\ seen' = [seen EXCEPT ![n] = {}]
  /\ acks' = [acks EXCEPT ![n] = {}]
  /\ UNCHANGED <<txn, air, inbox, met>>

(***************************************************************************)
(* One unit of time.                                                       *)
(***************************************************************************)
Lasts(p) ==
  CASE InState(p, "WAITING_FOR_ACK") -> AckTimeout + TickLag
    [] InState(p, "REPAIR_PENDING")  -> MaxRepair
    [] OTHER -> 0
Running(p) == InState(p, "WAITING_FOR_ACK") \/ InState(p, "REPAIR_PENDING")

\* Entries one unit older; those that reach the window are gone.
Aged(S) == {[e EXCEPT !.age = @ + 1] : e \in {d \in S : d.age + 1 < Window}}

ClockAdvances ==
  /\ \A f \in air : f.age < MaxFlight
  /\ \A p \in Packets : Running(p) => txn[p].since < Lasts(p)
  /\ txn' = [p \in Packets |-> IF Running(p) THEN [txn[p] EXCEPT !.since = @ + 1]
                                             ELSE txn[p]]
  /\ air' = {[f EXCEPT !.age = @ + 1] : f \in air}
  /\ seen' = [n \in Nodes |-> Aged(seen[n])]
  /\ acks' = [n \in Nodes |-> Aged(acks[n])]
  /\ UNCHANGED <<inbox, met, resets>>

Init ==
  /\ txn = [p \in Packets |-> [state |-> "none", retry |-> 0, since |-> 0]]
  /\ seen = [n \in Nodes |-> {}]
  /\ acks = [n \in Nodes |-> {}]
  /\ air = {}
  /\ resets = [n \in Nodes |-> 0]
  /\ inbox = [n \in Nodes |-> <<>>]
  /\ met = [n \in Nodes |-> {}]

Next ==
  \/ \E p \in Packets :
       Send(p) \/ Timeout(p) \/ TransmissionFails(p) \/ RepairSucceeds(p)
         \/ Abandon(p)
  \/ \E f \in air : Receive(f) \/ Lose(f)
  \/ \E n \in Nodes : Reset(n)
  \/ ClockAdvances

Spec == Init /\ [][Next]_vars

-----------------------------------------------------------------------------
(***************************************************************************)
(* Properties.                                                             *)
(***************************************************************************)
Contents == [kind : Kinds, packet : Packets, seq : Nat]
Frames == [kind : Kinds, packet : Packets, seq : Nat, ttl : 1..Ttl, to : Nodes,
           age : 0..MaxFlight]

\* The variables keep their types and no cache passes its size, whatever is
\* replaced in it.
TypeOK ==
  /\ txn \in [Packets -> [state : {"none", "WAITING_FOR_ACK", "REPAIR_PENDING",
                                   "DELIVERED", "FAILED"},
                          retry : 0..MaxRetries, since : Nat]]
  /\ seen \in [Nodes -> SUBSET [kind : Kinds, origin : Nodes, seq : Nat,
                                age : 0..(Window - 1)]]
  /\ acks \in [Nodes -> SUBSET [frame : Frames, age : 0..(Window - 1)]]
  /\ \A n \in Nodes :
       /\ \A kind \in Kinds : Cardinality(Entries(n, kind)) <= CacheSize
       /\ Cardinality(acks[n]) <= AckCacheSize
  /\ inbox \in [Nodes -> Seq(Packets)]
  /\ met \in [Nodes -> SUBSET Contents]
  /\ air \subseteq Frames
  /\ resets \in [Nodes -> Nat]
  /\ \A n \in Nodes : resets[n] <= MaxResets[n]

\* Whatever node repeats an ACK, and however often it was cached, replaced
\* and forwarded, it acknowledges a packet that the application of its
\* destination received, and a source reports DELIVERED only then
\* (enp_data_plane.c lines 107-152 and 237-268).
Earned(f) == f.kind = "ACK" =>
  /\ f.seq \in DOMAIN inbox[DestOf[f.packet]]
  /\ inbox[DestOf[f.packet]][f.seq] = f.packet

AcksAreEarned ==
  /\ \A f \in air : Earned(f)
  /\ \A n \in Nodes : \A c \in acks[n] : c.frame.kind = "ACK" /\ Earned(c.frame)
  /\ \A p \in Packets : InState(p, "DELIVERED") =>
       \E k \in DOMAIN inbox[DestOf[p]] : inbox[DestOf[p]][k] = p

\* A packet that a node's data plane has not processed before is never taken
\* for a duplicate, although other packets have its sequence number and ACKs
\* and DATA come from the same node (enp_data_plane.c lines 31-47).
FreshPacketsPass ==
  [][\A f \in air : Suppresses(f) \/ ReplaysAck(f) =>
       Content(f) \in met[f.to]]_vars

\* The ACK a node replays for a duplicate belongs to that packet
\* (enp_data_plane.c lines 60-81, 136-152).
ReplayAnswers ==
  [][\A f \in air : ReplaysAck(f) =>
       \A g \in air' \ air : g.kind = "ACK" /\ g.packet = f.packet]_vars

\* Frames of a packet, its ACKs included, never multiply: each submission of
\* the source keeps at most one frame on its way.
NoAmplification ==
  \A p \in Packets :
    Cardinality({f \in air : f.packet = p})
      <= IF InState(p, "none") THEN 0 ELSE txn[p].retry + 1

\* Seen from the two ends: at most one delivery, as long as a transaction
\* lasts less than the window and the cache holds what arrives in that time.
Abstract == INSTANCE EndToEnd WITH
  verdict  <- [p \in Packets |-> IF Running(p) THEN "open" ELSE txn[p].state],
  received <- [p \in Packets |->
                 Cardinality({k \in DOMAIN inbox[DestOf[p]] :
                                inbox[DestOf[p]][k] = p})]
ImplementsEndToEnd == Abstract!Spec

-----------------------------------------------------------------------------
(***************************************************************************)
(* What the documents say and the code does not do.                        *)
(***************************************************************************)
\* "A retransmitted DATA packet must never produce a second application
\* delivery."
DeliveredOnce ==
  \A n \in Nodes : \A j, k \in DOMAIN inbox[n] :
    inbox[n][j] = inbox[n][k] => j = k
=============================================================================
