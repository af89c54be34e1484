--------------------------- MODULE DataPlane_proofs ---------------------------
(***************************************************************************)
(* Proofs about the data plane, for every set of nodes and packets, every  *)
(* choice of routes, looping ones included, and every cache size.          *)
(*                                                                         *)
(* Inv is inductive.  Its strengthening over TypeOK is that the caches are *)
(* finite sets, without which their cardinalities mean nothing.  SeenIsMet *)
(* traces every entry to a frame the node has processed, Sparse counts the *)
(* frames of a packet, and OnceInv weighs the age of an entry against the  *)
(* time its packet still has for submissions and hops.  OnceInv needs that *)
(* no destination forgets its DATA early (NothingForgotten), which holds   *)
(* where the caches have room for all packets; relays may forget.          *)
(***************************************************************************)
EXTENDS DataPlane, FiniteSetTheorems, TLAPS

SeenEntry == [kind : Kinds, origin : Nodes, seq : Nat, age : 0..(Window - 1)]
CachedAck == [frame : Frames, age : 0..(Window - 1)]

SeenTyped ==
  /\ seen \in [Nodes -> SUBSET SeenEntry]
  /\ \A n \in Nodes : /\ IsFiniteSet(seen[n])
                      /\ \A kind \in Kinds :
                           Cardinality(Entries(n, kind)) <= CacheSize
AcksTyped ==
  /\ acks \in [Nodes -> SUBSET CachedAck]
  /\ \A n \in Nodes : /\ IsFiniteSet(acks[n])
                      /\ Cardinality(acks[n]) <= AckCacheSize
TxnTyped ==
  txn \in [Packets -> [state : {"none", "WAITING_FOR_ACK", "REPAIR_PENDING",
                                "DELIVERED", "FAILED"},
                       retry : 0..MaxRetries, since : Nat]]
AirTyped   == air \subseteq Frames
InboxTyped == inbox \in [Nodes -> Seq(Packets)]
MetTyped   == met \in [Nodes -> SUBSET Contents]
ResetCounts == {c \in [Nodes -> Nat] : \A n \in Nodes : c[n] <= MaxResets[n]}

Typed == /\ SeenTyped /\ AcksTyped /\ TxnTyped /\ AirTyped /\ InboxTyped
         /\ MetTyped /\ resets \in ResetCounts

Inv == Typed /\ AcksAreEarned

-----------------------------------------------------------------------------
\* Where a frame comes from and goes to are nodes, and its content is typed.
LEMMA FrameNodes ==
  ASSUME NEW f \in Frames
  PROVE  /\ f.kind \in Kinds /\ f.packet \in Packets /\ f.seq \in Nat
         /\ f.ttl \in 1..Ttl /\ f.to \in Nodes /\ f.age \in 0..MaxFlight
         /\ Origin(f) \in Nodes /\ Target(f) \in Nodes
         /\ Content(f) \in Contents
  BY PacketsAssumption DEF Frames, Origin, Target, Content, Contents

\* enp_routing_data_path_submit() sends the packet it is given.
LEMMA SubmittedTyped ==
  ASSUME NEW n \in Nodes, NEW kind \in Kinds, NEW p \in Packets,
         NEW seq \in Nat, NEW target \in Nodes,
         NEW g \in Submitted(n, kind, p, seq, target)
  PROVE  g \in Frames /\ g.kind = kind /\ g.packet = p /\ g.seq = seq
<1>1. PICK h \in Nodes :
        g = [kind |-> kind, packet |-> p, seq |-> seq, ttl |-> Ttl, to |-> h,
             age |-> 0]
  BY TowardAssumption DEF Submitted
<1>2. Ttl \in 1..Ttl /\ 0 \in 0..MaxFlight
  BY BoundsAssumption
<1>. QED
  BY <1>1, <1>2 DEF Frames

\* enp_routing_data_path_forward() changes the TTL and the next hop only.
LEMMA ForwardedTyped ==
  ASSUME NEW n \in Nodes, NEW f \in Frames, NEW g \in Forwarded(n, f)
  PROVE  g \in Frames /\ g.kind = f.kind /\ g.packet = f.packet /\ g.seq = f.seq
<1>1. f.ttl > 1
  BY DEF Forwarded
<1>2. PICK h \in Toward[n][Target(f)] :
        g = [f EXCEPT !.ttl = @ - 1, !.to = h, !.age = 0]
  BY <1>1 DEF Forwarded
<1>4. h \in Nodes
  BY <1>2, TowardAssumption, FrameNodes
<1>3. f.ttl - 1 \in 1..Ttl /\ 0 \in 0..MaxFlight
  BY <1>1, BoundsAssumption, FrameNodes
<1>. QED
  BY <1>2, <1>3, <1>4 DEF Frames

\* No frame appears from nowhere.
LEMMA EmitsWithin ==
  ASSUME NEW G, NEW S, Emits(G, S)
  PROVE  \A g \in air' : g \in G \/ g \in S
  BY DEF Emits

-----------------------------------------------------------------------------
\* enp_duplicate_check_and_record() keeps a cache within its size: a full one
\* loses an entry of the same kind.
LEMMA RecordTyped ==
  ASSUME SeenTyped, NEW n \in Nodes, NEW f \in Frames, Record(n, f)
  PROVE  SeenTyped'
<1>. DEFINE E == Entries(n, f.kind)
<1>1. Entry(f) \in SeenEntry /\ Entry(f).kind = f.kind
  BY FrameNodes, BoundsAssumption DEF Entry, SeenEntry
<1>2. IsFiniteSet(E) /\ Cardinality(E) \in Nat /\ Cardinality(E) <= CacheSize
  BY FS_Subset, FS_CardinalityType, FrameNodes DEF Entries, SeenTyped
<1>3. PICK T \in SUBSET seen[n] :
        /\ seen' = [seen EXCEPT ![n] = T \cup {Entry(f)}]
        /\ Cardinality({e \in T : e.kind = f.kind}) < CacheSize
        /\ IsFiniteSet({e \in T : e.kind = f.kind})
  <2>1. CASE Cardinality(E) < CacheSize
    BY <2>1, <1>2 DEF Record, Entries
  <2>2. CASE ~(Cardinality(E) < CacheSize)
    <3>1. PICK e \in E : seen' = [seen EXCEPT ![n] = (@ \ {e}) \cup {Entry(f)}]
      BY <2>2 DEF Record, OldestOf
    <3>2. {d \in seen[n] \ {e} : d.kind = f.kind} = E \ {e}
      BY DEF Entries
    <3>3. Cardinality(E \ {e}) < CacheSize /\ IsFiniteSet(E \ {e})
      <4>1. IsFiniteSet(E \ {e}) /\ Cardinality(E \ {e}) = Cardinality(E) - 1
        BY <1>2, <3>1, FS_RemoveElement
      <4>. QED
        BY <4>1, <1>2, BoundsAssumption
    <3>4. seen' = [seen EXCEPT ![n] = (seen[n] \ {e}) \cup {Entry(f)}]
      BY <3>1
    <3>. QED
      BY <3>2, <3>3, <3>4
  <2>. QED
    BY <2>1, <2>2
<1>4. seen' \in [Nodes -> SUBSET SeenEntry]
  BY <1>1, <1>3 DEF SeenTyped
<1>5. ASSUME NEW m \in Nodes
      PROVE  /\ IsFiniteSet(seen'[m])
             /\ \A kind \in Kinds : Cardinality(Entries(m, kind)') <= CacheSize
  <2>1. CASE m # n
    BY <2>1, <1>3 DEF SeenTyped, Entries
  <2>2. CASE m = n
    <3>1. seen'[n] = T \cup {Entry(f)}
      BY <1>3 DEF SeenTyped
    <3>2. IsFiniteSet(T)
      BY FS_Subset DEF SeenTyped
    <3>3. IsFiniteSet(seen'[n])
      BY <3>1, <3>2, FS_AddElement
    <3>4. ASSUME NEW kind \in Kinds
          PROVE  Cardinality(Entries(n, kind)') <= CacheSize
      <4>1. CASE kind = f.kind
        <5>. DEFINE K == {e \in T : e.kind = f.kind}
        <5>1. Entries(n, kind)' = K \cup {Entry(f)}
          BY <4>1, <3>1, <1>1 DEF Entries
        <5>2. Cardinality(K) \in Nat
          BY <1>3, FS_CardinalityType
        <5>3. Cardinality(K \cup {Entry(f)}) \in {Cardinality(K), Cardinality(K) + 1}
          BY <1>3, FS_AddElement
        <5>. QED
          BY <5>1, <5>2, <5>3, <1>3, BoundsAssumption
      <4>2. CASE kind # f.kind
        <5>1. Entries(n, kind)' \in SUBSET Entries(n, kind)
          BY <4>2, <3>1, <1>1 DEF Entries
        <5>2. IsFiniteSet(Entries(n, kind)) /\ Cardinality(Entries(n, kind)) <= CacheSize
          BY FS_Subset DEF Entries, SeenTyped
        <5>3. /\ Cardinality(Entries(n, kind)') <= Cardinality(Entries(n, kind))
              /\ IsFiniteSet(Entries(n, kind)')
          BY <5>1, <5>2, FS_Subset
        <5>4. Cardinality(Entries(n, kind)') \in Nat /\ Cardinality(Entries(n, kind)) \in Nat
          BY <5>2, <5>3, FS_CardinalityType
        <5>. QED
          BY <5>2, <5>3, <5>4, BoundsAssumption
      <4>. QED
        BY <4>1, <4>2
    <3>. QED
      BY <2>2, <3>3, <3>4
  <2>. QED
    BY <2>1, <2>2
<1>. QED
  BY <1>4, <1>5 DEF SeenTyped

\* enp_data_plane_cache_ack() keeps the ACK cache within its size: it replaces
\* the entry of the same packet, or else the oldest one when the cache is full.
LEMMA CacheAckTyped ==
  ASSUME AcksTyped, NEW n \in Nodes, NEW f \in Frames, CacheAck(n, f)
  PROVE  /\ AcksTyped'
         /\ \A m \in Nodes : \A c \in acks'[m] : c \in acks[m] \/ c.frame = f
<1>. DEFINE kept == acks[n] \ CachedFor(n, f)
            new  == [frame |-> f, age |-> 0]
<1>1. new \in CachedAck
  BY BoundsAssumption DEF CachedAck
<1>2. IsFiniteSet(kept) /\ Cardinality(kept) \in Nat
      /\ Cardinality(kept) <= AckCacheSize
  <2>1. IsFiniteSet(acks[n]) /\ Cardinality(acks[n]) <= AckCacheSize
        /\ Cardinality(acks[n]) \in Nat
    BY FS_CardinalityType DEF AcksTyped
  <2>2. IsFiniteSet(kept) /\ Cardinality(kept) <= Cardinality(acks[n])
    BY <2>1, FS_Subset
  <2>3. Cardinality(kept) \in Nat
    BY <2>2, FS_CardinalityType
  <2>. QED
    BY <2>1, <2>2, <2>3, BoundsAssumption
<1>3. PICK T \in SUBSET acks[n] :
        /\ acks' = [acks EXCEPT ![n] = T \cup {new}]
        /\ IsFiniteSet(T) /\ Cardinality(T) < AckCacheSize
  <2>1. CASE Cardinality(kept) < AckCacheSize
    BY <2>1, <1>2 DEF CacheAck
  <2>2. CASE ~(Cardinality(kept) < AckCacheSize)
    <3>1. PICK c \in kept : acks' = [acks EXCEPT ![n] = (kept \ {c}) \cup {new}]
      BY <2>2 DEF CacheAck, OldestOf
    <3>2. IsFiniteSet(kept \ {c}) /\ Cardinality(kept \ {c}) = Cardinality(kept) - 1
      BY <1>2, <3>1, FS_RemoveElement
    <3>3. Cardinality(kept \ {c}) < AckCacheSize
      BY <3>2, <1>2, BoundsAssumption
    <3>. QED
      BY <3>1, <3>2, <3>3
  <2>. QED
    BY <2>1, <2>2
<1>4. /\ acks'[n] = T \cup {new}
      /\ \A m \in Nodes : m # n => acks'[m] = acks[m]
  BY <1>3 DEF AcksTyped
<1>5. IsFiniteSet(acks'[n]) /\ Cardinality(acks'[n]) <= AckCacheSize
  <2>1. Cardinality(T) \in Nat
    BY <1>3, FS_CardinalityType
  <2>2. /\ IsFiniteSet(T \cup {new})
        /\ Cardinality(T \cup {new}) \in {Cardinality(T), Cardinality(T) + 1}
    BY <1>3, FS_AddElement
  <2>3. AckCacheSize \in Nat /\ Cardinality(T) < AckCacheSize
    BY <1>3, BoundsAssumption
  <2>4. Cardinality(T \cup {new}) <= AckCacheSize
    BY <2>1, <2>2, <2>3
  <2>. QED
    BY <2>2, <2>4, <1>4
<1>6. acks' \in [Nodes -> SUBSET CachedAck]
  BY <1>1, <1>3 DEF AcksTyped
<1>7. AcksTyped'
  BY <1>4, <1>5, <1>6 DEF AcksTyped
<1>. QED
  BY <1>4, <1>7

-----------------------------------------------------------------------------
\* Expiry only removes entries.
LEMMA AgedShrinks ==
  ASSUME NEW S, IsFiniteSet(S)
  PROVE  IsFiniteSet(Aged(S)) /\ Cardinality(Aged(S)) <= Cardinality(S)
<1>. DEFINE D == {d \in S : d.age + 1 < Window}
            older == [d \in D |-> [d EXCEPT !.age = @ + 1]]
<1>1. IsFiniteSet(D) /\ Cardinality(D) <= Cardinality(S)
  BY FS_Subset
<1>2. older \in Surjection(D, Aged(S))
  BY DEF Surjection, Aged
<1>3. IsFiniteSet(Aged(S)) /\ Cardinality(Aged(S)) <= Cardinality(D)
  BY <1>1, <1>2, FS_Surjection
<1>. QED
  BY <1>1, <1>3, FS_CardinalityType

\* Entries that stay keep everything but their age.
LEMMA AgedTyped ==
  ASSUME NEW S, NEW e \in Aged(S)
  PROVE  /\ S \in SUBSET SeenEntry =>
              e \in SeenEntry /\ \E d \in S : d.kind = e.kind /\ e = [d EXCEPT !.age = @ + 1]
         /\ S \in SUBSET CachedAck =>
              e \in CachedAck /\ \E d \in S : d.frame = e.frame
<1>1. PICK d \in S : d.age + 1 < Window /\ e = [d EXCEPT !.age = @ + 1]
  BY DEF Aged
<1>2. ASSUME S \in SUBSET SeenEntry
      PROVE  e \in SeenEntry /\ d.kind = e.kind
  <2>1. d \in SeenEntry
    BY <1>2
  <2>2. d.age + 1 \in 0..(Window - 1)
    BY <2>1, <1>1, BoundsAssumption DEF SeenEntry
  <2>. QED
    BY <2>1, <2>2, <1>1 DEF SeenEntry
<1>3. ASSUME S \in SUBSET CachedAck
      PROVE  e \in CachedAck /\ d.frame = e.frame
  <2>1. d \in CachedAck
    BY <1>3
  <2>2. d.age + 1 \in 0..(Window - 1)
    BY <2>1, <1>1, BoundsAssumption DEF CachedAck
  <2>. QED
    BY <2>1, <2>2, <1>1 DEF CachedAck
<1>. QED
  BY <1>1, <1>2, <1>3

\* Both caches of every node survive the passing of time.
LEMMA ClockKeepsCaches ==
  ASSUME SeenTyped, AcksTyped, ClockAdvances
  PROVE  /\ SeenTyped' /\ AcksTyped'
         /\ \A n \in Nodes : \A c \in acks'[n] :
              \E d \in acks[n] : d.frame = c.frame
<1>1. /\ seen' = [n \in Nodes |-> Aged(seen[n])]
      /\ acks' = [n \in Nodes |-> Aged(acks[n])]
  BY DEF ClockAdvances
<1>2. /\ seen' \in [Nodes -> SUBSET SeenEntry]
      /\ acks' \in [Nodes -> SUBSET CachedAck]
  BY <1>1, AgedTyped DEF SeenTyped, AcksTyped
<1>3. ASSUME NEW n \in Nodes
      PROVE  /\ IsFiniteSet(seen'[n])
             /\ \A kind \in Kinds : Cardinality(Entries(n, kind)') <= CacheSize
             /\ IsFiniteSet(acks'[n]) /\ Cardinality(acks'[n]) <= AckCacheSize
             /\ \A c \in acks'[n] : \E d \in acks[n] : d.frame = c.frame
  <2>1. IsFiniteSet(seen'[n])
    BY <1>1, AgedShrinks DEF SeenTyped
  <2>2. ASSUME NEW kind \in Kinds
        PROVE  Cardinality(Entries(n, kind)') <= CacheSize
    <3>. DEFINE E == Entries(n, kind)
    <3>1. IsFiniteSet(E) /\ Cardinality(E) <= CacheSize /\ E \in SUBSET SeenEntry
      BY FS_Subset DEF SeenTyped, Entries
    <3>2. Entries(n, kind)' \in SUBSET Aged(E)
      <4>1. SUFFICES ASSUME NEW e \in Aged(seen[n]), e.kind = kind
                     PROVE  e \in Aged(E)
        BY <1>1 DEF Entries
      <4>2. PICK d \in seen[n] : d.age + 1 < Window /\ e = [d EXCEPT !.age = @ + 1]
        BY DEF Aged
      <4>3. d.kind = kind
        BY <4>1, <4>2 DEF SeenTyped, SeenEntry
      <4>. QED
        BY <4>2, <4>3 DEF Aged, Entries
    <3>3. IsFiniteSet(Aged(E)) /\ Cardinality(Aged(E)) <= Cardinality(E)
      BY <3>1, AgedShrinks
    <3>4. /\ IsFiniteSet(Entries(n, kind)')
          /\ Cardinality(Entries(n, kind)') <= Cardinality(Aged(E))
      BY <3>2, <3>3, FS_Subset
    <3>5. /\ Cardinality(Entries(n, kind)') \in Nat
          /\ Cardinality(Aged(E)) \in Nat /\ Cardinality(E) \in Nat
      BY <3>1, <3>3, <3>4, FS_CardinalityType
    <3>. QED
      BY <3>1, <3>3, <3>4, <3>5, BoundsAssumption
  <2>3. IsFiniteSet(acks'[n]) /\ Cardinality(acks'[n]) <= AckCacheSize
    <3>1. IsFiniteSet(acks[n]) /\ Cardinality(acks[n]) <= AckCacheSize
      BY DEF AcksTyped
    <3>2. IsFiniteSet(acks'[n]) /\ Cardinality(acks'[n]) <= Cardinality(acks[n])
      BY <1>1, <3>1, AgedShrinks
    <3>3. Cardinality(acks'[n]) \in Nat /\ Cardinality(acks[n]) \in Nat
      BY <3>1, <3>2, FS_CardinalityType
    <3>. QED
      BY <3>1, <3>2, <3>3, BoundsAssumption
  <2>4. \A c \in acks'[n] : \E d \in acks[n] : d.frame = c.frame
    BY <1>1, AgedTyped DEF AcksTyped
  <2>. QED
    BY <2>1, <2>2, <2>3, <2>4
<1>. QED
  BY <1>2, <1>3 DEF SeenTyped, AcksTyped

-----------------------------------------------------------------------------
(***************************************************************************)
(* Why ACKs stay earned: deliveries are never taken back, a frame on the   *)
(* air is DATA, a copy of an ACK that was there, or the ACK of the         *)
(* delivery just made, and the caches only copy.                           *)
(***************************************************************************)
InboxGrows ==
  \A n \in Nodes : \A k \in DOMAIN inbox[n] :
    k \in DOMAIN inbox'[n] /\ inbox'[n][k] = inbox[n][k]

Copies(g, f) == f.kind = g.kind /\ f.packet = g.packet /\ f.seq = g.seq

AirFollows ==
  \A g \in air' :
    \/ g.kind = "DATA"
    \/ \E f \in air : Copies(g, f)
    \/ \E n \in Nodes : \E c \in acks[n] : Copies(g, c.frame)
    \/ Earned(g)'

AcksFollow ==
  \A n \in Nodes : \A c \in acks'[n] :
    \/ \E d \in acks[n] : d.frame = c.frame
    \/ c.frame \in air /\ c.frame.kind = "ACK"

VerdictsFollow ==
  \A p \in Packets : txn'[p].state = "DELIVERED" =>
    \/ txn[p].state = "DELIVERED"
    \/ \E f \in air : f.kind = "ACK" /\ f.packet = p

\* The trivial case of InboxGrows.
LEMMA InboxUnchangedGrows == ASSUME UNCHANGED inbox PROVE InboxGrows
  BY DEF InboxGrows

\* A copy of an earned ACK is earned, now and after further deliveries.
LEMMA EarnedStays ==
  ASSUME InboxGrows, NEW f \in Frames, NEW g \in Frames, Copies(g, f), Earned(f)
  PROVE  Earned(g)'
<1>1. DestOf[f.packet] \in Nodes
  BY FrameNodes, PacketsAssumption
<1>. QED
  BY <1>1 DEF Earned, Copies, InboxGrows

\* The argument common to all steps.
LEMMA AcksStayEarned ==
  ASSUME Inv, Typed', InboxGrows, AirFollows, AcksFollow, VerdictsFollow
  PROVE  AcksAreEarned'
<1>1. /\ air \subseteq Frames /\ air' \subseteq Frames
      /\ \A n \in Nodes : \A c \in acks[n] : c.frame \in Frames
      /\ \A n \in Nodes : \A c \in acks'[n] : c.frame \in Frames
  BY DEF Inv, Typed, AirTyped, AcksTyped, CachedAck
<1>2. ASSUME NEW g \in air' PROVE Earned(g)'
  <2>1. CASE g.kind = "DATA"
    BY <2>1 DEF Earned
  <2>2. CASE \E f \in air : Copies(g, f)
    BY <2>2, <1>1, EarnedStays DEF Inv, AcksAreEarned
  <2>3. CASE \E n \in Nodes : \E c \in acks[n] : Copies(g, c.frame)
    BY <2>3, <1>1, EarnedStays DEF Inv, AcksAreEarned
  <2>. QED
    BY <2>1, <2>2, <2>3 DEF AirFollows
<1>3. ASSUME NEW n \in Nodes, NEW c \in acks'[n]
      PROVE  c.frame.kind = "ACK" /\ Earned(c.frame)'
  <2>1. Copies(c.frame, c.frame)
    BY DEF Copies
  <2>2. c.frame.kind = "ACK" /\ Earned(c.frame)
    BY DEF AcksFollow, Inv, AcksAreEarned
  <2>. QED
    BY <1>1, <2>1, <2>2, EarnedStays
<1>4. ASSUME NEW p \in Packets, InState(p, "DELIVERED")'
      PROVE  (\E k \in DOMAIN inbox[DestOf[p]] : inbox[DestOf[p]][k] = p)'
  <2>1. \E k \in DOMAIN inbox[DestOf[p]] : inbox[DestOf[p]][k] = p
    <3>1. CASE InState(p, "DELIVERED")
      BY <3>1 DEF Inv, AcksAreEarned
    <3>2. CASE \E f \in air : f.kind = "ACK" /\ f.packet = p
      BY <3>2 DEF Inv, AcksAreEarned, Earned
    <3>. QED
      BY <1>4, <3>1, <3>2 DEF VerdictsFollow, InState
  <2>2. DestOf[p] \in Nodes
    BY PacketsAssumption
  <2>. QED
    BY <2>1, <2>2 DEF InboxGrows
<1>. QED
  BY <1>2, <1>3, <1>4 DEF AcksAreEarned

-----------------------------------------------------------------------------
\* What every reception of a frame f does to met.
LEMMA MetGrows ==
  ASSUME MetTyped, NEW f \in Frames, Takes(f)
  PROVE  MetTyped'
  BY FrameNodes DEF MetTyped, Takes

\* Copies of frames that are there keep AirTyped and AirFollows.
LEMMA RelayedFrames ==
  ASSUME AirTyped, AcksTyped, NEW h \in Frames, NEW n \in Nodes,
         h \in air \/ (\E m \in Nodes : \E c \in acks[m] : c.frame = h),
         NEW G \in SUBSET air, Emits(G, Forwarded(n, h))
  PROVE  AirTyped' /\ AirFollows
<1>1. ASSUME NEW g \in air' PROVE g \in air \/ (g \in Frames /\ Copies(g, h))
  BY EmitsWithin, ForwardedTyped DEF Copies
<1>2. \A g \in air : Copies(g, g)
  BY DEF Copies
<1>. QED
  BY <1>1, <1>2 DEF AirTyped, AirFollows

\* So does the loss of frames.
LEMMA DroppedFrames ==
  ASSUME AirTyped, NEW G \in SUBSET air, air' = G
  PROVE  AirTyped' /\ AirFollows
  BY DEF AirTyped, AirFollows, Copies

\* And so does the DATA a source submits.
LEMMA SubmittedFrames ==
  ASSUME AirTyped, NEW p \in Packets, Emits(air, SubmittedData(p))
  PROVE  AirTyped' /\ AirFollows
<1>1. SourceOf[p] \in Nodes /\ DestOf[p] \in Nodes /\ SeqOf[p] \in Nat /\ "DATA" \in Kinds
  BY PacketsAssumption DEF Kinds
<1>2. ASSUME NEW g \in air' PROVE g \in air \/ (g \in Frames /\ g.kind = "DATA")
  BY <1>1, EmitsWithin, SubmittedTyped DEF SubmittedData
<1>3. \A g \in air : Copies(g, g)
  BY DEF Copies
<1>. QED
  BY <1>2, <1>3 DEF AirTyped, AirFollows

\* The trivial case of AcksFollow: no ACK cache changes.
LEMMA AcksUnchangedFollow == ASSUME UNCHANGED acks PROVE AcksFollow
  BY DEF AcksFollow

\* The trivial case of VerdictsFollow: no transaction changes.
LEMMA TxnUnchangedFollow == ASSUME UNCHANGED txn PROVE VerdictsFollow
  BY DEF VerdictsFollow

-----------------------------------------------------------------------------
\* enp_data_plane_process() keeps the invariant in each of its outcomes.
LEMMA ReceiveKeepsInv ==
  ASSUME Inv, NEW f \in air, Receive(f)
  PROVE  Inv'
<1>. USE DEF Inv, Typed
<1>1. f \in Frames /\ f.to \in Nodes /\ air \ {f} \in SUBSET air
  BY FrameNodes DEF AirTyped
<1>2. CASE ReplaysAck(f)
  <2>1. PICK c \in acks[f.to] : Emits(air \ {f}, Forwarded(f.to, c.frame))
    BY <1>2 DEF ReplaysAck, CachedFor
  <2>2. c.frame \in Frames
    BY <1>1, <2>1 DEF AcksTyped, CachedAck
  <2>3. AirTyped' /\ AirFollows
    BY <1>1, <2>1, <2>2, RelayedFrames
  <2>4. MetTyped' /\ UNCHANGED <<txn, seen, acks, inbox, resets>>
    BY <1>1, <1>2, MetGrows DEF ReplaysAck
  <2>5. Typed'
    BY <2>3, <2>4 DEF SeenTyped, AcksTyped, TxnTyped, InboxTyped, Entries
  <2>. QED
    BY <2>3, <2>4, <2>5, InboxUnchangedGrows, AcksUnchangedFollow,
       TxnUnchangedFollow, AcksStayEarned
<1>3. CASE Suppresses(f)
  <2>1. AirTyped' /\ AirFollows
    BY <1>1, <1>3, DroppedFrames DEF Suppresses
  <2>2. MetTyped' /\ UNCHANGED <<txn, seen, acks, inbox, resets>>
    BY <1>1, <1>3, MetGrows DEF Suppresses
  <2>3. Typed'
    BY <2>1, <2>2 DEF SeenTyped, AcksTyped, TxnTyped, InboxTyped, Entries
  <2>. QED
    BY <2>1, <2>2, <2>3, InboxUnchangedGrows, AcksUnchangedFollow,
       TxnUnchangedFollow, AcksStayEarned
<1>4. CASE DeliversData(f)
  <2>. DEFINE k == Len(inbox'[f.to])
              p == f.packet
  <2>1. SeenTyped' /\ MetTyped' /\ UNCHANGED <<txn, acks, resets>>
    BY <1>1, <1>4, RecordTyped, MetGrows DEF DeliversData
  <2>2. p \in Packets /\ DestOf[p] = f.to /\ SourceOf[p] \in Nodes
    BY <1>1, <1>4, FrameNodes, PacketsAssumption DEF DeliversData, Target
  <2>3. inbox' = [inbox EXCEPT ![f.to] = Append(inbox[f.to], p)]
    BY <1>4 DEF DeliversData
  <2>4. inbox[f.to] \in Seq(Packets)
    BY <1>1 DEF InboxTyped
  <2>5. /\ inbox'[f.to] = Append(inbox[f.to], p)
        /\ \A n \in Nodes : n # f.to => inbox'[n] = inbox[n]
    BY <1>1, <2>3 DEF InboxTyped
  <2>6. InboxTyped' /\ InboxGrows
    <3>1. Append(inbox[f.to], p) \in Seq(Packets)
      BY <2>2, <2>4
    <3>2. InboxTyped'
      BY <2>3, <3>1 DEF InboxTyped
    <3>3. \A j \in DOMAIN inbox[f.to] :
            j \in DOMAIN inbox'[f.to] /\ inbox'[f.to][j] = inbox[f.to][j]
      BY <2>2, <2>4, <2>5
    <3>. QED
      BY <2>5, <3>2, <3>3 DEF InboxGrows
  <2>7. k \in Nat /\ k \in DOMAIN inbox'[f.to] /\ inbox'[f.to][k] = p
    BY <2>2, <2>4, <2>5
  <2>8. Emits(air \ {f}, Submitted(f.to, "ACK", p, k, SourceOf[p]))
    BY <1>4 DEF DeliversData
  <2>9. ASSUME NEW g \in air'
        PROVE  g \in Frames /\ (g \in air \/ Earned(g)')
    <3>1. CASE g \in air
      BY <3>1 DEF AirTyped
    <3>2. CASE g \in Submitted(f.to, "ACK", p, k, SourceOf[p])
      <4>1. g \in Frames /\ g.packet = p /\ g.seq = k
        BY <3>2, <1>1, <2>2, <2>7, SubmittedTyped DEF Kinds
      <4>. QED
        BY <4>1, <2>2, <2>7 DEF Earned
    <3>. QED
      BY <2>8, <3>1, <3>2, EmitsWithin
  <2>10. AirTyped' /\ AirFollows
    <3>1. \A g \in air : Copies(g, g)
      BY DEF Copies
    <3>. QED
      BY <2>9, <3>1 DEF AirTyped, AirFollows
  <2>11. Typed'
    BY <2>1, <2>6, <2>10 DEF AcksTyped, TxnTyped
  <2>. QED
    BY <2>1, <2>6, <2>10, <2>11, AcksUnchangedFollow, TxnUnchangedFollow,
       AcksStayEarned
<1>5. CASE DeliversAck(f)
  <2>1. SeenTyped' /\ MetTyped' /\ UNCHANGED <<acks, inbox, resets>>
    BY <1>1, <1>5, RecordTyped, MetGrows DEF DeliversAck
  <2>2. AirTyped' /\ AirFollows
    BY <1>1, <1>5, DroppedFrames DEF DeliversAck
  <2>3. TxnTyped' /\ VerdictsFollow
    BY <1>1, <1>5, FrameNodes DEF DeliversAck, TxnTyped, VerdictsFollow
  <2>4. Typed'
    BY <2>1, <2>2, <2>3 DEF AcksTyped, InboxTyped
  <2>. QED
    BY <2>1, <2>2, <2>3, <2>4, InboxUnchangedGrows, AcksUnchangedFollow,
       AcksStayEarned
<1>6. CASE LocalFails(f)
  <2>1. SeenTyped' /\ MetTyped' /\ UNCHANGED <<txn, acks, inbox, resets>>
    BY <1>1, <1>6, RecordTyped, MetGrows DEF LocalFails
  <2>2. AirTyped' /\ AirFollows
    BY <1>1, <1>6, DroppedFrames DEF LocalFails
  <2>3. Typed'
    BY <2>1, <2>2 DEF AcksTyped, TxnTyped, InboxTyped
  <2>. QED
    BY <2>1, <2>2, <2>3, InboxUnchangedGrows, AcksUnchangedFollow,
       TxnUnchangedFollow, AcksStayEarned
<1>7. CASE Relays(f)
  <2>1. SeenTyped' /\ MetTyped' /\ UNCHANGED <<txn, inbox, resets>>
    BY <1>1, <1>7, RecordTyped, MetGrows DEF Relays
  <2>2. AirTyped' /\ AirFollows
    BY <1>1, <1>7, RelayedFrames DEF Relays
  <2>3. AcksTyped' /\ AcksFollow
    <3>1. CASE f.kind = "ACK"
      <4>1. CacheAck(f.to, f)
        BY <1>7, <3>1 DEF Relays
      <4>. QED
        BY <4>1, <3>1, <1>1, CacheAckTyped DEF AcksFollow
    <3>2. CASE f.kind # "ACK"
      BY <1>7, <3>2 DEF Relays, AcksTyped, AcksFollow
    <3>. QED
      BY <3>1, <3>2
  <2>4. Typed'
    BY <2>1, <2>2, <2>3 DEF TxnTyped, InboxTyped
  <2>. QED
    BY <2>1, <2>2, <2>3, <2>4, InboxUnchangedGrows, TxnUnchangedFollow,
       AcksStayEarned
<1>. QED
  BY <1>2, <1>3, <1>4, <1>5, <1>6, <1>7 DEF Receive

-----------------------------------------------------------------------------
\* The source's steps change its transaction and send DATA at most; none of
\* them reports DELIVERED.
LEMMA SourceStep ==
  ASSUME Inv, NEW p \in Packets, NEW retry \in 0..MaxRetries,
         NEW state \in {"WAITING_FOR_ACK", "REPAIR_PENDING", "FAILED"},
         Move(p, state, retry),
         UNCHANGED air \/ Emits(air, SubmittedData(p)),
         UNCHANGED <<seen, acks, inbox, met, resets>>
  PROVE  Inv'
<1>. USE DEF Inv, Typed
<1>1. AirTyped' /\ AirFollows
  BY SubmittedFrames, DroppedFrames
<1>2. TxnTyped' /\ VerdictsFollow
  BY DEF Move, TxnTyped, VerdictsFollow
<1>3. Typed'
  BY <1>1, <1>2 DEF SeenTyped, AcksTyped, InboxTyped, MetTyped, Entries
<1>. QED
  BY <1>1, <1>2, <1>3, InboxUnchangedGrows, AcksUnchangedFollow, AcksStayEarned

\* Send, timeout, failed transmission, repaired route, verdict FAILED.
LEMMA SourceKeepsInv ==
  ASSUME Inv, NEW p \in Packets,
         \/ Send(p) \/ Timeout(p) \/ TransmissionFails(p)
         \/ RepairSucceeds(p) \/ Abandon(p)
  PROVE  Inv'
<1>1. txn[p].retry \in 0..MaxRetries /\ 0 \in 0..MaxRetries
  BY BoundsAssumption DEF Inv, Typed, TxnTyped
<1>2. ASSUME Retransmit(p) PROVE Inv'
  <2>1. txn[p].retry + 1 \in 0..MaxRetries
    BY <1>1, <1>2, BoundsAssumption DEF Retransmit
  <2>. QED
    BY <2>1, <1>2, SourceStep DEF Retransmit
<1>3. ASSUME GiveUp(p) PROVE Inv'
  BY <1>1, <1>3, SourceStep DEF GiveUp
<1>4. CASE Send(p)
  BY <1>1, <1>4, SourceStep DEF Send
<1>5. CASE Timeout(p)
  BY <1>2, <1>3, <1>5 DEF Timeout
<1>6. CASE TransmissionFails(p)
  BY <1>1, <1>6, SourceStep DEF TransmissionFails
<1>7. CASE RepairSucceeds(p)
  BY <1>2, <1>3, <1>7 DEF RepairSucceeds
<1>8. CASE Abandon(p)
  BY <1>3, <1>8 DEF Abandon
<1>. QED
  BY <1>4, <1>5, <1>6, <1>7, <1>8

\* A lost frame.
LEMMA LoseKeepsInv ==
  ASSUME Inv, NEW f \in air, Lose(f)
  PROVE  Inv'
<1>. USE DEF Inv, Typed
<1>1. AirTyped' /\ AirFollows /\ UNCHANGED <<txn, seen, acks, inbox, met, resets>>
  BY DroppedFrames DEF Lose
<1>2. Typed'
  BY <1>1 DEF SeenTyped, AcksTyped, TxnTyped, InboxTyped, MetTyped, Entries
<1>. QED
  BY <1>1, <1>2, InboxUnchangedGrows, AcksUnchangedFollow, TxnUnchangedFollow,
     AcksStayEarned

\* Emptied caches.
LEMMA ResetKeepsInv ==
  ASSUME Inv, NEW n \in Nodes, Reset(n)
  PROVE  Inv'
<1>. USE DEF Inv, Typed
<1>1. UNCHANGED <<txn, air, inbox, met>> /\ resets' \in ResetCounts
  <2>1. /\ resets[n] < MaxResets[n]
        /\ resets' = [resets EXCEPT ![n] = @ + 1]
        /\ UNCHANGED <<txn, air, inbox, met>>
    BY DEF Reset
  <2>2. resets \in [Nodes -> Nat] /\ \A m \in Nodes : resets[m] <= MaxResets[m]
    BY DEF ResetCounts
  <2>3. MaxResets[n] \in Nat
    BY ResetsAssumption
  <2>4. /\ resets' \in [Nodes -> Nat]
        /\ resets'[n] = resets[n] + 1 /\ \A m \in Nodes \ {n} : resets'[m] = resets[m]
    BY <2>1, <2>2
  <2>5. \A m \in Nodes : resets'[m] <= MaxResets[m]
    <3>1. resets[n] \in Nat /\ resets'[n] <= MaxResets[n]
      BY <2>1, <2>2, <2>3, <2>4
    <3>. QED
      BY <2>2, <2>4, <3>1
  <2>. QED
    BY <2>1, <2>4, <2>5 DEF ResetCounts
<1>2. /\ seen' = [seen EXCEPT ![n] = {}]
      /\ acks' = [acks EXCEPT ![n] = {}]
  BY DEF Reset
<1>3. SeenTyped'
  <2>1. ASSUME NEW m \in Nodes
        PROVE  /\ IsFiniteSet(seen'[m])
               /\ \A kind \in Kinds : Cardinality(Entries(m, kind)') <= CacheSize
    <3>1. CASE m = n
      <4>1. seen'[m] = {} /\ \A kind \in Kinds : Entries(m, kind)' = {}
        BY <1>2, <3>1 DEF SeenTyped, Entries
      <4>. QED
        BY <4>1, FS_EmptySet, BoundsAssumption
    <3>2. CASE m # n
      BY <1>2, <3>2 DEF SeenTyped, Entries
    <3>. QED
      BY <3>1, <3>2
  <2>. QED
    BY <1>2, <2>1 DEF SeenTyped
<1>4. AcksTyped' /\ AcksFollow
  <2>1. acks'[n] = {} /\ \A m \in Nodes : m # n => acks'[m] = acks[m]
    BY <1>2 DEF AcksTyped
  <2>2. Cardinality({}) = 0 /\ IsFiniteSet({})
    BY FS_EmptySet
  <2>3. acks' \in [Nodes -> SUBSET CachedAck]
    BY <1>2 DEF AcksTyped
  <2>. QED
    BY <2>1, <2>2, <2>3, BoundsAssumption DEF AcksTyped, AcksFollow
<1>5. AirTyped' /\ AirFollows
  BY <1>1 DEF AirTyped, AirFollows, Copies
<1>6. Typed'
  BY <1>1, <1>3, <1>4, <1>5 DEF TxnTyped, InboxTyped, MetTyped
<1>. QED
  BY <1>1, <1>4, <1>5, <1>6, InboxUnchangedGrows, TxnUnchangedFollow,
     AcksStayEarned

\* A unit of time.
LEMMA ClockKeepsInv ==
  ASSUME Inv, ClockAdvances
  PROVE  Inv'
<1>. USE DEF Inv, Typed
<1>1. /\ \A f \in air : f.age < MaxFlight
      /\ air' = {[f EXCEPT !.age = @ + 1] : f \in air}
      /\ UNCHANGED <<inbox, met, resets>>
  BY DEF ClockAdvances
<1>2. SeenTyped' /\ AcksTyped' /\ AcksFollow
  BY ClockKeepsCaches DEF AcksFollow
<1>3. ASSUME NEW g \in air'
      PROVE  g \in Frames /\ \E f \in air : Copies(g, f)
  <2>1. PICK f \in air : g = [f EXCEPT !.age = @ + 1]
    BY <1>1
  <2>2. f \in Frames /\ f.age + 1 \in 0..MaxFlight
    BY <1>1, FrameNodes, BoundsAssumption DEF AirTyped
  <2>. QED
    BY <2>1, <2>2 DEF Frames, Copies
<1>4. AirTyped' /\ AirFollows
  BY <1>3 DEF AirTyped, AirFollows
<1>5. TxnTyped' /\ VerdictsFollow
  <2>1. ASSUME NEW p \in Packets
        PROVE  /\ txn'[p].state = txn[p].state
               /\ txn'[p] \in [state : {"none", "WAITING_FOR_ACK", "REPAIR_PENDING",
                                        "DELIVERED", "FAILED"},
                               retry : 0..MaxRetries, since : Nat]
    <3>1. txn'[p] = IF Running(p) THEN [txn[p] EXCEPT !.since = @ + 1] ELSE txn[p]
      BY DEF ClockAdvances
    <3>. QED
      BY <3>1 DEF TxnTyped
  <2>2. txn' = [p \in Packets |-> IF Running(p) THEN [txn[p] EXCEPT !.since = @ + 1]
                                                ELSE txn[p]]
    BY DEF ClockAdvances
  <2>. QED
    BY <2>1, <2>2 DEF TxnTyped, VerdictsFollow
<1>6. Typed'
  BY <1>1, <1>2, <1>4, <1>5 DEF InboxTyped, MetTyped
<1>. QED
  BY <1>1, <1>2, <1>4, <1>5, <1>6, InboxUnchangedGrows, AcksStayEarned

-----------------------------------------------------------------------------
\* The invariant holds initially.
LEMMA InitInv == Init => Inv
<1>. SUFFICES ASSUME Init PROVE Inv
  OBVIOUS
<1>1. SeenTyped
  <2>1. \A n \in Nodes : seen[n] = {} /\ \A kind \in Kinds : Entries(n, kind) = {}
    BY DEF Init, Entries
  <2>2. Cardinality({}) = 0 /\ IsFiniteSet({})
    BY FS_EmptySet
  <2>3. seen \in [Nodes -> SUBSET SeenEntry]
    BY DEF Init
  <2>. QED
    BY <2>1, <2>2, <2>3, BoundsAssumption DEF SeenTyped
<1>2. AcksTyped
  <2>1. Cardinality({}) = 0 /\ IsFiniteSet({})
    BY FS_EmptySet
  <2>. QED
    BY <2>1, BoundsAssumption DEF Init, AcksTyped
<1>3. TxnTyped /\ AirTyped /\ InboxTyped /\ MetTyped /\ resets \in ResetCounts
  BY BoundsAssumption, ResetsAssumption
  DEF Init, TxnTyped, AirTyped, InboxTyped, MetTyped, ResetCounts
<1>4. AcksAreEarned
  BY DEF Init, AcksAreEarned, InState
<1>. QED
  BY <1>1, <1>2, <1>3, <1>4 DEF Inv, Typed

\* Every step keeps it.
LEMMA NextInv == Inv /\ [Next]_vars => Inv'
<1>. SUFFICES ASSUME Inv, [Next]_vars PROVE Inv'
  OBVIOUS
<1>1. CASE \E p \in Packets : \/ Send(p) \/ Timeout(p) \/ TransmissionFails(p)
                              \/ RepairSucceeds(p) \/ Abandon(p)
  BY <1>1, SourceKeepsInv
<1>2. CASE \E f \in air : Receive(f) \/ Lose(f)
  BY <1>2, ReceiveKeepsInv, LoseKeepsInv
<1>3. CASE \E n \in Nodes : Reset(n)
  BY <1>3, ResetKeepsInv
<1>4. CASE ClockAdvances
  BY <1>4, ClockKeepsInv
<1>5. CASE UNCHANGED vars
  BY <1>5 DEF vars, Inv, Typed, SeenTyped, AcksTyped, TxnTyped, AirTyped,
              InboxTyped, MetTyped, Entries, AcksAreEarned, Earned, InState
<1>. QED
  BY <1>1, <1>2, <1>3, <1>4, <1>5 DEF Next

\* The variables keep their types, and neither cache of any node ever holds
\* more entries than it has room for (enp_duplicate.c lines 133-178,
\* enp_data_plane.c lines 83-134).
THEOREM TypeCorrect == Spec => []TypeOK
<1>1. Inv => TypeOK
  BY DEF Inv, Typed, TypeOK, SeenTyped, AcksTyped, TxnTyped, AirTyped, InboxTyped,
         MetTyped, SeenEntry, CachedAck, ResetCounts
<1>. QED
  BY <1>1, InitInv, NextInv, PTL DEF Spec

\* Every ACK under way or in a cache, and every DELIVERED verdict, goes back
\* to a delivery to the destination's application, in any network and however
\* frames are lost, delayed, reordered or caches reset (enp_data_plane.c lines
\* 206-276).
THEOREM EveryAckIsEarned == Spec => []AcksAreEarned
<1>1. Inv => AcksAreEarned
  BY DEF Inv
<1>. QED
  BY <1>1, InitInv, NextInv, PTL DEF Spec

-----------------------------------------------------------------------------
(***************************************************************************)
(* What the caches know is true: a duplicate cache holds packets its node  *)
(* has processed, and what a node has processed is DATA with the number of *)
(* its source or the ACK of a delivery.  As a source numbers its packets   *)
(* and a destination its ACKs each once, an entry names one packet only.   *)
(***************************************************************************)
DataNumbered(f) == f.kind = "DATA" => f.seq = SeqOf[f.packet]

Names(e, f) == e.kind = f.kind /\ e.origin = Origin(f) /\ e.seq = f.seq

SeenIsMet ==
  /\ \A f \in air : DataNumbered(f)
  /\ \A n \in Nodes : \A c \in met[n] : DataNumbered(c) /\ Earned(c)
  /\ \A n \in Nodes : \A e \in seen[n] : \E c \in met[n] : Names(e, c)

\* What each step does to the frames, to met and to the duplicate caches.
SameName(e, d) == e.kind = d.kind /\ e.origin = d.origin /\ e.seq = d.seq

DataFollows == \A g \in air' : DataNumbered(g) \/ \E f \in air : Copies(g, f)

MetFollows ==
  \A n \in Nodes :
    /\ met[n] \subseteq met'[n]
    /\ \A c \in met'[n] : c \in met[n] \/ \E f \in air : c = Content(f)

SeenFollows ==
  \A n \in Nodes : \A e \in seen'[n] :
    (\E d \in seen[n] : SameName(e, d)) \/ (\E c \in met'[n] : Names(e, c))

\* What is the same for a frame and the record of its content.
LEMMA ContentKeeps ==
  ASSUME NEW f
  PROVE  /\ Content(f).kind = f.kind /\ Content(f).packet = f.packet
         /\ Content(f).seq = f.seq /\ Origin(Content(f)) = Origin(f)
  BY DEF Content, Origin

\* The argument common to all steps.
LEMMA SeenStaysMet ==
  ASSUME Inv, Typed', SeenIsMet, InboxGrows, DataFollows, MetFollows, SeenFollows
  PROVE  SeenIsMet'
<1>1. ASSUME NEW g \in air' PROVE DataNumbered(g)'
  <2>1. CASE DataNumbered(g)
    BY <2>1 DEF DataNumbered
  <2>2. CASE \E f \in air : Copies(g, f)
    BY <2>2 DEF SeenIsMet, DataNumbered, Copies
  <2>. QED
    BY <2>1, <2>2 DEF DataFollows
<1>2. ASSUME NEW n \in Nodes, NEW c \in met'[n]
      PROVE  DataNumbered(c)' /\ Earned(c)'
  <2>1. DataNumbered(c) /\ Earned(c) /\ c.packet \in Packets
    <3>1. CASE c \in met[n]
      BY <3>1 DEF SeenIsMet, Inv, Typed, MetTyped, Contents
    <3>2. ASSUME NEW f \in air, c = Content(f)
          PROVE  DataNumbered(c) /\ Earned(c) /\ c.packet \in Packets
      <4>1. DataNumbered(f) /\ Earned(f) /\ f \in Frames
        BY DEF SeenIsMet, Inv, AcksAreEarned, Typed, AirTyped
      <4>. QED
        BY <3>2, <4>1, ContentKeeps, FrameNodes DEF DataNumbered, Earned
    <3>. QED
      BY <3>1, <3>2 DEF MetFollows
  <2>2. DestOf[c.packet] \in Nodes
    BY <2>1, PacketsAssumption
  <2>. QED
    BY <2>1, <2>2 DEF DataNumbered, Earned, InboxGrows
<1>3. ASSUME NEW n \in Nodes, NEW e \in seen'[n]
      PROVE  (\E c \in met[n] : Names(e, c))'
  BY DEF SeenFollows, SeenIsMet, MetFollows, SameName, Names, Origin
<1>. QED
  BY <1>1, <1>2, <1>3 DEF SeenIsMet

\* A frame that is only dropped, copied, or an ACK.
LEMMA RelayedNumbered ==
  ASSUME NEW G \in SUBSET air, NEW n, NEW h, NEW S,
         h \in air \/ h.kind = "ACK",
         \A g \in S : (g.kind = h.kind /\ g.packet = h.packet /\ g.seq = h.seq)
                        \/ g.kind = "ACK" \/ DataNumbered(g),
         Emits(G, S)
  PROVE  DataFollows
<1>. SUFFICES ASSUME NEW g \in air'
              PROVE  DataNumbered(g) \/ \E f \in air : Copies(g, f)
  BY DEF DataFollows
<1>1. CASE g \in G
  BY <1>1 DEF Copies
<1>2. CASE g \in S
  BY <1>2 DEF DataNumbered, Copies
<1>. QED
  BY <1>1, <1>2, EmitsWithin

\* enp_duplicate_check_and_record() adds the entry of the frame, and keeps or
\* replaces others.
LEMMA RecordAdds ==
  ASSUME SeenTyped, NEW n \in Nodes, NEW f, Record(n, f)
  PROVE  /\ Entry(f) \in seen'[n]
         /\ \A e \in seen'[n] : e \in seen[n] \/ e = Entry(f)
         /\ \A m \in Nodes : m # n => seen'[m] = seen[m]
         /\ \A e \in seen[n] : e.kind # f.kind => e \in seen'[n]
         /\ Cardinality(Entries(n, f.kind)) < CacheSize => seen[n] \subseteq seen'[n]
<1>1. CASE Cardinality(Entries(n, f.kind)) < CacheSize
  BY <1>1 DEF Record, SeenTyped
<1>2. CASE ~(Cardinality(Entries(n, f.kind)) < CacheSize)
  <2>1. PICK d \in Entries(n, f.kind) :
          seen' = [seen EXCEPT ![n] = (@ \ {d}) \cup {Entry(f)}]
    BY <1>2 DEF Record, OldestOf
  <2>2. seen'[n] = (seen[n] \ {d}) \cup {Entry(f)}
    BY <2>1 DEF SeenTyped
  <2>3. \A m \in Nodes : m # n => seen'[m] = seen[m]
    BY <2>1 DEF SeenTyped
  <2>4. d.kind = f.kind
    BY DEF Entries
  <2>. QED
    BY <1>2, <2>2, <2>3, <2>4
<1>. QED
  BY <1>1, <1>2

\* What is recorded has been processed.
LEMMA RecordFollows ==
  ASSUME SeenTyped, MetTyped, NEW f \in Frames, Takes(f),
         Record(f.to, f) \/ UNCHANGED seen
  PROVE  SeenFollows /\ (f \in air => MetFollows)
<1>1. f.to \in Nodes /\ Content(f) \in met'[f.to]
  BY FrameNodes DEF Takes, MetTyped
<1>2. f \in air => MetFollows
  BY <1>1 DEF Takes, MetTyped, MetFollows
<1>3. Names(Entry(f), Content(f))
  BY ContentKeeps DEF Names, Entry
<1>4. CASE UNCHANGED seen
  BY <1>2, <1>4 DEF SeenFollows, SameName
<1>5. CASE Record(f.to, f)
  BY <1>1, <1>2, <1>3, <1>5, RecordAdds DEF SeenFollows, SameName
<1>. QED
  BY <1>4, <1>5

\* Nothing is processed.
LEMMA QuietFollows ==
  ASSUME UNCHANGED met
  PROVE  MetFollows
  BY DEF MetFollows

\* A reception keeps SeenIsMet.
LEMMA ReceiveKeepsSeen ==
  ASSUME Inv, Inv', SeenIsMet, NEW f \in air, Receive(f)
  PROVE  SeenIsMet'
<1>1. /\ f \in Frames /\ f.to \in Nodes /\ air \ {f} \in SUBSET air
      /\ SeenTyped /\ MetTyped /\ AcksTyped /\ InboxTyped /\ Typed'
  BY FrameNodes DEF Inv, Typed, AirTyped
<1>2. SeenFollows /\ MetFollows
  <2>1. Takes(f) /\ (Record(f.to, f) \/ UNCHANGED seen)
    BY DEF Receive, ReplaysAck, Suppresses, DeliversData, DeliversAck, LocalFails, Relays
  <2>. QED
    BY <1>1, <2>1, RecordFollows
<1>3. InboxGrows
  <2>1. CASE DeliversData(f)
    <3>1. f.packet \in Packets /\ inbox[f.to] \in Seq(Packets)
      BY <1>1, FrameNodes DEF InboxTyped
    <3>2. inbox' = [inbox EXCEPT ![f.to] = Append(inbox[f.to], f.packet)]
      BY <2>1 DEF DeliversData
    <3>3. /\ inbox'[f.to] = Append(inbox[f.to], f.packet)
          /\ \A n \in Nodes : n # f.to => inbox'[n] = inbox[n]
      BY <1>1, <3>2 DEF InboxTyped
    <3>4. \A j \in DOMAIN inbox[f.to] :
            j \in DOMAIN inbox'[f.to] /\ inbox'[f.to][j] = inbox[f.to][j]
      BY <3>1, <3>3
    <3>. QED
      BY <3>3, <3>4 DEF InboxGrows
  <2>2. CASE ~DeliversData(f)
    BY <2>2, InboxUnchangedGrows
    DEF Receive, ReplaysAck, Suppresses, DeliversAck, LocalFails, Relays
  <2>. QED
    BY <2>1, <2>2
<1>4. DataFollows
  <2>1. CASE ReplaysAck(f)
    <3>1. PICK c \in acks[f.to] : Emits(air \ {f}, Forwarded(f.to, c.frame))
      BY <2>1 DEF ReplaysAck, CachedFor
    <3>2. c.frame \in Frames /\ c.frame.kind = "ACK"
      BY <1>1, <3>1 DEF AcksTyped, CachedAck, Inv, AcksAreEarned
    <3>. QED
      BY <1>1, <3>1, <3>2, ForwardedTyped, RelayedNumbered
  <2>2. CASE DeliversData(f)
    <3>1. PICK k : Emits(air \ {f}, Submitted(f.to, "ACK", f.packet, k, SourceOf[f.packet]))
      BY <2>2 DEF DeliversData
    <3>2. \A g \in Submitted(f.to, "ACK", f.packet, k, SourceOf[f.packet]) : g.kind = "ACK"
      BY DEF Submitted
    <3>. QED
      BY <1>1, <3>1, <3>2, RelayedNumbered
  <2>3. CASE Relays(f)
    <3>1. Emits(air \ {f}, Forwarded(f.to, f))
      BY <2>3 DEF Relays
    <3>. QED
      BY <1>1, <3>1, ForwardedTyped, RelayedNumbered
  <2>4. CASE Suppresses(f) \/ DeliversAck(f) \/ LocalFails(f)
    BY <2>4 DEF Suppresses, DeliversAck, LocalFails, DataFollows, Copies
  <2>. QED
    BY <2>1, <2>2, <2>3, <2>4 DEF Receive
<1>. QED
  BY <1>1, <1>2, <1>3, <1>4, SeenStaysMet

\* So do all other steps.
LEMMA OthersKeepSeen ==
  ASSUME Inv, Inv', SeenIsMet,
         \/ \E p \in Packets : \/ Send(p) \/ Timeout(p) \/ TransmissionFails(p)
                               \/ RepairSucceeds(p) \/ Abandon(p)
         \/ \E f \in air : Lose(f)
         \/ \E n \in Nodes : Reset(n)
         \/ ClockAdvances
  PROVE  SeenIsMet'
<1>1. Typed' /\ SeenTyped /\ UNCHANGED <<met, inbox>>
  BY DEF Inv, Typed, Send, Timeout, TransmissionFails, RepairSucceeds, Abandon,
         Retransmit, GiveUp, Lose, Reset, ClockAdvances
<1>2. SeenFollows
  <2>1. CASE ClockAdvances
    <3>1. ASSUME NEW n \in Nodes, NEW e \in seen'[n]
          PROVE  \E d \in seen[n] : SameName(e, d)
      <4>1. e \in Aged(seen[n])
        BY <2>1 DEF ClockAdvances
      <4>2. PICK d \in seen[n] : e = [d EXCEPT !.age = @ + 1]
        BY <4>1 DEF Aged
      <4>3. d \in SeenEntry
        BY <1>1 DEF SeenTyped
      <4>. QED
        BY <4>2, <4>3 DEF SameName, SeenEntry
    <3>. QED
      BY <3>1 DEF SeenFollows
  <2>2. CASE \E n \in Nodes : Reset(n)
    <3>1. \A m \in Nodes : seen'[m] \in SUBSET seen[m]
      BY <1>1, <2>2 DEF Reset, SeenTyped
    <3>. QED
      BY <3>1 DEF SeenFollows, SameName
  <2>3. CASE UNCHANGED seen
    BY <2>3 DEF SeenFollows, SameName
  <2>. QED
    BY <2>1, <2>2, <2>3 DEF Send, Timeout, TransmissionFails, RepairSucceeds, Abandon,
         Retransmit, GiveUp, Lose
<1>3. DataFollows
  <2>1. ASSUME NEW p \in Packets, Emits(air, SubmittedData(p)) PROVE DataFollows
    <3>1. \A g \in SubmittedData(p) : DataNumbered(g)
      BY DEF SubmittedData, Submitted, DataNumbered
    <3>. QED
      BY <2>1, <3>1, EmitsWithin DEF DataFollows, Copies
  <2>2. CASE \E f \in air : Lose(f)
    BY <2>2 DEF Lose, DataFollows, Copies
  <2>3. CASE ClockAdvances
    <3>1. ASSUME NEW g \in air' PROVE \E f \in air : Copies(g, f)
      <4>1. PICK f \in air : g = [f EXCEPT !.age = @ + 1]
        BY <2>3 DEF ClockAdvances
      <4>2. f \in Frames
        BY DEF Inv, Typed, AirTyped
      <4>. QED
        BY <4>1, <4>2 DEF Frames, Copies
    <3>. QED
      BY <3>1 DEF DataFollows
  <2>4. CASE UNCHANGED air
    BY <2>4 DEF DataFollows, Copies
  <2>. QED
    BY <2>1, <2>2, <2>3, <2>4 DEF Send, Timeout, TransmissionFails, RepairSucceeds,
         Abandon, Retransmit, GiveUp, Reset
<1>. QED
  BY <1>1, <1>2, <1>3, InboxUnchangedGrows, QuietFollows, SeenStaysMet

LEMMA InitSeen == Init => SeenIsMet
  BY DEF Init, SeenIsMet

LEMMA NextSeen == Inv /\ Inv' /\ SeenIsMet /\ [Next]_vars => SeenIsMet'
<1>. SUFFICES ASSUME Inv, Inv', SeenIsMet, [Next]_vars PROVE SeenIsMet'
  OBVIOUS
<1>1. CASE UNCHANGED vars
  BY <1>1 DEF vars, SeenIsMet, DataNumbered, Earned, Names, Origin
<1>2. CASE Next
  BY <1>2, ReceiveKeepsSeen, OthersKeepSeen DEF Next
<1>. QED
  BY <1>1, <1>2

\* An entry that a frame meets is the frame's own packet.
LEMMA DuplicateIsMet ==
  ASSUME Inv, SeenIsMet, NEW f \in air, IsDuplicate(f.to, f)
  PROVE  Content(f) \in met[f.to]
<1>1. f \in Frames /\ f.to \in Nodes /\ f.packet \in Packets /\ f.kind \in Kinds
  BY FrameNodes DEF Inv, Typed, AirTyped
<1>2. PICK e \in seen[f.to] : Names(e, f)
  BY DEF IsDuplicate, Entries, Names
<1>3. PICK c \in met[f.to] : Names(e, c)
  BY <1>1 DEF SeenIsMet
<1>4. /\ c \in Contents /\ DataNumbered(c) /\ Earned(c)
      /\ c.kind = f.kind /\ Origin(c) = Origin(f) /\ c.seq = f.seq
  BY <1>1, <1>2, <1>3 DEF SeenIsMet, Inv, Typed, MetTyped, Names
<1>5. DataNumbered(f) /\ Earned(f)
  BY DEF SeenIsMet, Inv, AcksAreEarned
<1>6. c.packet = f.packet
  <2>1. CASE f.kind = "DATA"
    BY <1>1, <1>4, <1>5, <2>1, PacketsAssumption DEF Origin, DataNumbered, Contents
  <2>2. CASE f.kind = "ACK"
    BY <1>1, <1>4, <1>5, <2>2 DEF Origin, Earned
  <2>. QED
    BY <1>1, <2>1, <2>2 DEF Kinds
<1>. QED
  BY <1>3, <1>4, <1>6 DEF Contents, Content

\* No node takes a packet it has not processed before for a duplicate, in any
\* network and with any sizes of the caches: an entry of the cache names one
\* packet only, although sequence numbers repeat between the sources
\* (enp_data_plane.c lines 31-47, enp_duplicate.c lines 51-76).
THEOREM FreshAlwaysPass == Spec => FreshPacketsPass
<1>1. Inv /\ SeenIsMet =>
        \A f \in air : Suppresses(f) \/ ReplaysAck(f) => Content(f) \in met[f.to]
  BY DuplicateIsMet DEF Suppresses, ReplaysAck
<1>. QED
  BY <1>1, InitInv, NextInv, InitSeen, NextSeen, PTL DEF Spec, FreshPacketsPass

\* The ACK a relay replays for a repeated DATA packet is one of that packet,
\* although the cache is searched by source and sequence number alone
\* (enp_data_plane.c lines 60-81, 136-152).
THEOREM ReplaysAnswer == Spec => ReplayAnswers
<1>1. ASSUME Inv, NEW f \in air, ReplaysAck(f), NEW g \in air' \ air
      PROVE  g.kind = "ACK" /\ g.packet = f.packet
  <2>1. f \in Frames /\ f.to \in Nodes /\ f.packet \in Packets
    BY <1>1, FrameNodes DEF Inv, Typed, AirTyped
  <2>2. PICK c \in CachedFor(f.to, f) : Emits(air \ {f}, Forwarded(f.to, c.frame))
    BY <1>1 DEF ReplaysAck
  <2>3. /\ c.frame \in Frames /\ c.frame.kind = "ACK"
        /\ SourceOf[c.frame.packet] = SourceOf[f.packet]
        /\ SeqOf[c.frame.packet] = SeqOf[f.packet]
    BY <1>1, <2>1, <2>2 DEF CachedFor, Inv, AcksAreEarned, Typed, AcksTyped, CachedAck
  <2>4. c.frame.packet = f.packet
    BY <2>1, <2>3, FrameNodes, PacketsAssumption
  <2>5. g \in Forwarded(f.to, c.frame)
    BY <2>2, EmitsWithin
  <2>. QED
    BY <2>1, <2>3, <2>4, <2>5, ForwardedTyped
<1>2. Inv => \A f \in air : ReplaysAck(f) =>
               \A g \in air' \ air : g.kind = "ACK" /\ g.packet = f.packet
  BY <1>1
<1>. QED
  BY <1>2, InitInv, NextInv, PTL DEF Spec, ReplayAnswers

-----------------------------------------------------------------------------
(***************************************************************************)
(* Frames do not multiply.  A reception takes its frame off the air and    *)
(* puts at most one frame of the same packet there, a cached ACK that is   *)
(* replayed included; only a submission adds one, and it is counted.       *)
(***************************************************************************)
FramesOf(p) == {f \in air : f.packet = p}
Submissions(p) == IF InState(p, "none") THEN 0 ELSE txn[p].retry + 1

Sparse == \A p \in Packets : /\ IsFiniteSet(FramesOf(p))
                             /\ Cardinality(FramesOf(p)) <= Submissions(p)

\* A step that replaces a frame by at most one of its packet.
Replaces == \E f \in air : \E g : g.packet = f.packet /\ air' \subseteq (air \ {f}) \cup {g}

LEMMA ReplacedSparse ==
  ASSUME Sparse, Replaces, NEW p \in Packets,
         Submissions(p) \in Nat, Submissions(p)' = Submissions(p)
  PROVE  IsFiniteSet(FramesOf(p)') /\ Cardinality(FramesOf(p)') <= Submissions(p)'
<1>. DEFINE S == FramesOf(p)
<1>1. PICK f \in air : \E g : g.packet = f.packet /\ air' \subseteq (air \ {f}) \cup {g}
  BY DEF Replaces
<1>5. PICK g : g.packet = f.packet /\ air' \subseteq (air \ {f}) \cup {g}
  BY <1>1
<1>2. IsFiniteSet(S) /\ Cardinality(S) <= Submissions(p) /\ Cardinality(S) \in Nat
  BY FS_CardinalityType DEF Sparse
<1>3. CASE f.packet # p
  <2>1. FramesOf(p)' \in SUBSET S
    BY <1>5, <1>3 DEF FramesOf
  <2>2. IsFiniteSet(FramesOf(p)') /\ Cardinality(FramesOf(p)') <= Cardinality(S)
    BY <1>2, <2>1, FS_Subset
  <2>3. Cardinality(FramesOf(p)') \in Nat
    BY <2>2, FS_CardinalityType
  <2>. QED
    BY <1>2, <2>2, <2>3
<1>4. CASE f.packet = p
  <2>1. IsFiniteSet(S \ {f}) /\ Cardinality(S \ {f}) = Cardinality(S) - 1
    BY <1>2, <1>4, FS_RemoveElement DEF FramesOf
  <2>2. /\ IsFiniteSet((S \ {f}) \cup {g})
        /\ Cardinality((S \ {f}) \cup {g}) \in {Cardinality(S) - 1, Cardinality(S)}
    <3>1. /\ IsFiniteSet((S \ {f}) \cup {g})
          /\ \/ Cardinality((S \ {f}) \cup {g}) = Cardinality(S \ {f})
             \/ Cardinality((S \ {f}) \cup {g}) = Cardinality(S \ {f}) + 1
      BY <2>1, FS_AddElement
    <3>. QED
      BY <1>2, <2>1, <3>1
  <2>3. FramesOf(p)' \in SUBSET ((S \ {f}) \cup {g})
    BY <1>5, <1>4 DEF FramesOf
  <2>4. /\ IsFiniteSet(FramesOf(p)')
        /\ Cardinality(FramesOf(p)') <= Cardinality((S \ {f}) \cup {g})
    BY <2>2, <2>3, FS_Subset
  <2>5. /\ Cardinality(FramesOf(p)') \in Nat
        /\ Cardinality((S \ {f}) \cup {g}) \in Nat
    BY <2>2, <2>4, FS_CardinalityType
  <2>6. Cardinality(FramesOf(p)') <= Cardinality(S)
    BY <1>2, <2>2, <2>4, <2>5
  <2>. QED
    BY <1>2, <2>4, <2>5, <2>6
<1>. QED
  BY <1>3, <1>4

\* Emits as a replacement.
LEMMA EmitsReplaces ==
  ASSUME NEW f \in air, NEW S, \A g \in S : g.packet = f.packet, Emits(air \ {f}, S)
  PROVE  Replaces
<1>1. CASE S = {} /\ air' = air \ {f}
  BY <1>1 DEF Replaces
<1>2. CASE \E g \in S : air' = (air \ {f}) \cup {g}
  BY <1>2 DEF Replaces
<1>. QED
  BY <1>1, <1>2 DEF Emits

LEMMA ReceiveReplaces ==
  ASSUME Inv, NEW f \in air, Receive(f)
  PROVE  Replaces
<1>1. f \in Frames /\ f.to \in Nodes /\ f.packet \in Packets
  BY FrameNodes DEF Inv, Typed, AirTyped
<1>2. CASE ReplaysAck(f)
  <2>1. PICK c \in CachedFor(f.to, f) : Emits(air \ {f}, Forwarded(f.to, c.frame))
    BY <1>2 DEF ReplaysAck
  <2>2. /\ c.frame \in Frames
        /\ SourceOf[c.frame.packet] = SourceOf[f.packet]
        /\ SeqOf[c.frame.packet] = SeqOf[f.packet]
    BY <1>1, <2>1 DEF CachedFor, Inv, Typed, AcksTyped, CachedAck
  <2>3. c.frame.packet = f.packet
    BY <1>1, <2>2, FrameNodes, PacketsAssumption
  <2>4. \A g \in Forwarded(f.to, c.frame) : g.packet = f.packet
    BY <1>1, <2>2, <2>3, ForwardedTyped
  <2>. QED
    BY <2>1, <2>4, EmitsReplaces
<1>3. CASE DeliversData(f)
  <2>1. PICK k : Emits(air \ {f}, Submitted(f.to, "ACK", f.packet, k, SourceOf[f.packet]))
    BY <1>3 DEF DeliversData
  <2>2. \A g \in Submitted(f.to, "ACK", f.packet, k, SourceOf[f.packet]) :
          g.packet = f.packet
    BY DEF Submitted
  <2>. QED
    BY <2>1, <2>2, EmitsReplaces
<1>4. CASE Relays(f)
  <2>1. Emits(air \ {f}, Forwarded(f.to, f))
    BY <1>4 DEF Relays
  <2>2. \A g \in Forwarded(f.to, f) : g.packet = f.packet
    BY <1>1, ForwardedTyped
  <2>. QED
    BY <2>1, <2>2, EmitsReplaces
<1>5. CASE Suppresses(f) \/ DeliversAck(f) \/ LocalFails(f)
  BY <1>5 DEF Suppresses, DeliversAck, LocalFails, Replaces
<1>. QED
  BY <1>2, <1>3, <1>4, <1>5 DEF Receive

\* A source's step: the frames of one packet grow by the one it submits.
LEMMA SourceSparse ==
  ASSUME Inv, Sparse, NEW q \in Packets,
         \/ Send(q) \/ Timeout(q) \/ TransmissionFails(q)
         \/ RepairSucceeds(q) \/ Abandon(q)
  PROVE  Sparse'
<1>1. /\ txn[q].retry \in Nat
      /\ \A p \in Packets : p # q => Submissions(p)' = Submissions(p)
      /\ Submissions(q)' \in Nat /\ Submissions(q) \in Nat
      /\ Submissions(q) <= Submissions(q)'
      /\ UNCHANGED air \/ (Submissions(q)' = Submissions(q) + 1
                            /\ Emits(air, SubmittedData(q)))
  BY BoundsAssumption
  DEF Inv, Typed, TxnTyped, Submissions, InState, Send, Timeout, TransmissionFails,
      RepairSucceeds, Abandon, Retransmit, GiveUp, Move
<1>2. ASSUME NEW p \in Packets
      PROVE  IsFiniteSet(FramesOf(p)') /\ Cardinality(FramesOf(p)') <= Submissions(p)'
  <2>1. /\ IsFiniteSet(FramesOf(p)) /\ Cardinality(FramesOf(p)) <= Submissions(p)
        /\ Cardinality(FramesOf(p)) \in Nat
    BY FS_CardinalityType DEF Sparse
  <2>2. CASE UNCHANGED air
    <3>1. FramesOf(p)' = FramesOf(p)
      BY <2>2 DEF FramesOf
    <3>. QED
      BY <1>1, <2>1, <3>1
  <2>3. CASE Submissions(q)' = Submissions(q) + 1 /\ Emits(air, SubmittedData(q))
    <3>1. \A g \in SubmittedData(q) : g.packet = q
      BY DEF SubmittedData, Submitted
    <3>2. CASE p # q \/ UNCHANGED air
      <4>1. FramesOf(p)' = FramesOf(p)
        BY <2>3, <3>1, <3>2 DEF FramesOf, Emits
      <4>. QED
        BY <1>1, <2>1, <4>1
    <3>3. ASSUME p = q, NEW g \in SubmittedData(q), air' = air \cup {g}
          PROVE  IsFiniteSet(FramesOf(p)') /\ Cardinality(FramesOf(p)') <= Submissions(p)'
      <4>1. FramesOf(p)' = FramesOf(p) \cup {g}
        BY <3>1, <3>3 DEF FramesOf
      <4>2. /\ IsFiniteSet(FramesOf(p) \cup {g})
            /\ \/ Cardinality(FramesOf(p) \cup {g}) = Cardinality(FramesOf(p))
               \/ Cardinality(FramesOf(p) \cup {g}) = Cardinality(FramesOf(p)) + 1
        BY <2>1, FS_AddElement
      <4>. QED
        BY <1>1, <2>1, <2>3, <3>3, <4>1, <4>2
    <3>. QED
      BY <2>3, <3>2, <3>3 DEF Emits
  <2>. QED
    BY <1>1, <2>2, <2>3
<1>. QED
  BY <1>2 DEF Sparse

\* Time passes for every frame alike.
LEMMA ClockSparse ==
  ASSUME Inv, Sparse, ClockAdvances
  PROVE  Sparse'
<1>1. SUFFICES ASSUME NEW p \in Packets
               PROVE  IsFiniteSet(FramesOf(p)') /\ Cardinality(FramesOf(p)') <= Submissions(p)'
  BY DEF Sparse
<1>. DEFINE older == [f \in FramesOf(p) |-> [f EXCEPT !.age = @ + 1]]
<1>2. air \subseteq Frames
  BY DEF Inv, Typed, AirTyped
<1>3. FramesOf(p)' = {[f EXCEPT !.age = @ + 1] : f \in FramesOf(p)}
  <2>1. air' = {[f EXCEPT !.age = @ + 1] : f \in air}
    BY DEF ClockAdvances
  <2>2. \A f \in air : [f EXCEPT !.age = @ + 1].packet = f.packet
    BY <1>2 DEF Frames
  <2>. QED
    BY <2>1, <2>2 DEF FramesOf
<1>4. older \in Surjection(FramesOf(p), FramesOf(p)')
  BY <1>3 DEF Surjection
<1>5. IsFiniteSet(FramesOf(p)) /\ Cardinality(FramesOf(p)) <= Submissions(p)
  BY DEF Sparse
<1>6. /\ IsFiniteSet(FramesOf(p)')
      /\ Cardinality(FramesOf(p)') <= Cardinality(FramesOf(p))
  BY <1>4, <1>5, FS_Surjection
<1>7. Submissions(p)' = Submissions(p) /\ Submissions(p) \in Nat
  BY DEF ClockAdvances, Submissions, InState, Running, Inv, Typed, TxnTyped
<1>8. Cardinality(FramesOf(p)') \in Nat /\ Cardinality(FramesOf(p)) \in Nat
  BY <1>5, <1>6, FS_CardinalityType
<1>. QED
  BY <1>5, <1>6, <1>7, <1>8

LEMMA InitSparse == Init => Sparse
<1>. SUFFICES ASSUME Init, NEW p \in Packets
              PROVE  IsFiniteSet(FramesOf(p)) /\ Cardinality(FramesOf(p)) <= Submissions(p)
  BY DEF Sparse
<1>1. FramesOf(p) = {} /\ Submissions(p) = 0
  BY DEF Init, FramesOf, Submissions, InState
<1>. QED
  BY <1>1, FS_EmptySet

LEMMA NextSparse == Inv /\ Sparse /\ [Next]_vars => Sparse'
<1>. SUFFICES ASSUME Inv, Sparse, [Next]_vars PROVE Sparse'
  OBVIOUS
<1>1. ASSUME NEW f \in air, Receive(f) \/ Lose(f) PROVE Sparse'
  <2>1. Replaces
    BY <1>1, ReceiveReplaces DEF Lose, Replaces
  <2>2. ASSUME NEW p \in Packets
        PROVE  Submissions(p) \in Nat /\ Submissions(p)' = Submissions(p)
    <3>. Submissions(p) \in Nat
      BY DEF Submissions, Inv, Typed, TxnTyped
    <3>1. CASE UNCHANGED txn
      BY <3>1 DEF Submissions, InState
    <3>2. CASE DeliversAck(f)
      BY <3>2 DEF DeliversAck, Submissions, InState, Inv, Typed, TxnTyped
    <3>. QED
      BY <1>1, <3>1, <3>2
      DEF Receive, Lose, ReplaysAck, Suppresses, DeliversData, LocalFails, Relays
  <2>. QED
    BY <2>1, <2>2, ReplacedSparse DEF Sparse
<1>2. CASE \E p \in Packets : \/ Send(p) \/ Timeout(p) \/ TransmissionFails(p)
                              \/ RepairSucceeds(p) \/ Abandon(p)
  BY <1>2, SourceSparse
<1>3. CASE ClockAdvances
  BY <1>3, ClockSparse
<1>4. CASE UNCHANGED vars \/ \E n \in Nodes : Reset(n)
  BY <1>4 DEF vars, Reset, Sparse, FramesOf, Submissions, InState
<1>. QED
  BY <1>1, <1>2, <1>3, <1>4 DEF Next

\* However a packet and its ACKs are relayed, replayed and looped, no more of
\* their frames are on their way than the source has made submissions, in any
\* network (enp_data_plane.c lines 206-276).
THEOREM FramesStaySparse == Spec => []NoAmplification
<1>1. Sparse => NoAmplification
  BY DEF Sparse, NoAmplification, FramesOf, Submissions
<1>. QED
  BY <1>1, InitInv, NextInv, InitSparse, NextSparse, PTL DEF Spec

-----------------------------------------------------------------------------
(***************************************************************************)
(* When a packet is delivered only once.  From one submission of a packet  *)
(* to the next no more than a Round passes, and its frames are gone when   *)
(* each of Ttl hops has taken its longest.  If the entry a first reception *)
(* leaves outlives all submissions and the last frame, and is not replaced *)
(* or cleared before its time, every later frame meets it.                 *)
(***************************************************************************)
Round == IF AckTimeout + TickLag > MaxFlight + MaxRepair
           THEN AckTimeout + TickLag ELSE MaxFlight + MaxRepair
WindowSuffices == MaxRetries * Round + Ttl * MaxFlight < Window

DataOf(p) == [kind |-> "DATA", packet |-> p, seq |-> SeqOf[p]]
EntriesOf(p) == {e \in seen[DestOf[p]] : Names(e, DataOf(p))}

\* The destination of a packet forgets its DATA by age only.  What relays
\* forget does not matter.
Keeps == \A p \in Packets : EntriesOf(p) # {} => EntriesOf(p)' # {}
NothingForgotten == [][ClockAdvances \/ Keeps]_vars

\* Time that is left for submissions of p, and for a frame.
Spent(p) == IF InState(p, "WAITING_FOR_ACK") THEN txn[p].since
                                             ELSE MaxFlight + txn[p].since
LeftToSubmit(p) == (MaxRetries - txn[p].retry) * Round - Spent(p)
LeftToFly(f) == f.ttl * MaxFlight - f.age

DataFrames(p) == {f \in air : f.kind = "DATA" /\ f.packet = p}
Delivered(p) == \E k \in DOMAIN inbox[DestOf[p]] : inbox[DestOf[p]][k] = p
MayResubmit(p) == Running(p) /\ txn[p].retry < MaxRetries

Outlives(p) ==
  /\ \A e \in EntriesOf(p) :
       /\ MayResubmit(p) => e.age + LeftToSubmit(p) + Ttl * MaxFlight < Window
       /\ \A f \in DataFrames(p) : e.age + LeftToFly(f) < Window
  /\ Delivered(p) /\ (MayResubmit(p) \/ DataFrames(p) # {}) => EntriesOf(p) # {}
  /\ Running(p) => txn[p].since <= Lasts(p)
  /\ InState(p, "none") => /\ EntriesOf(p) = {} /\ ~Delivered(p)
                           /\ DataFrames(p) = {}

Arrived == \A n \in Nodes : \A k \in DOMAIN inbox[n] : DestOf[inbox[n][k]] = n

OnceInv == DeliveredOnce /\ Arrived /\ \A p \in Packets : Outlives(p)

-----------------------------------------------------------------------------
\* The arithmetic of the times.
LEMMA RoundBounds ==
  /\ Round \in Nat /\ AckTimeout + TickLag <= Round /\ MaxFlight + MaxRepair <= Round
  /\ MaxRetries * Round \in Nat /\ Ttl * MaxFlight \in Nat
  /\ MaxFlight \in Nat /\ MaxRetries \in Nat /\ Ttl \in Nat /\ Window \in Nat
<1>1. Round \in Nat /\ AckTimeout + TickLag <= Round /\ MaxFlight + MaxRepair <= Round
  BY BoundsAssumption DEF Round
<1>2. \A x, y \in Nat : x * y \in Nat
  OBVIOUS
<1>. QED
  BY <1>1, <1>2, BoundsAssumption

LEMMA Multiples ==
  ASSUME NEW x \in Nat, NEW y \in Nat
  PROVE  /\ x * y \in Nat
         /\ x > 0 => (x - 1) * y = x * y - y /\ y <= x * y
         /\ \A z \in Nat : z <= x => z * y <= x * y
<1>1. x * y \in Nat
  OBVIOUS
<1>2. ASSUME NEW z \in Nat, z <= x PROVE z * y <= x * y
  <2>1. PICK d \in Nat : x = z + d
    <3>1. x - z \in Nat /\ x = z + (x - z)
      BY <1>2
    <3>. QED
      BY <3>1
  <2>2. x * y = z * y + d * y /\ z * y \in Nat /\ d * y \in Nat
    BY <2>1
  <2>. QED
    BY <2>2
<1>3. ASSUME x > 0 PROVE (x - 1) * y = x * y - y /\ y <= x * y
  <2>1. (x - 1) * y = x * y - y /\ (x - 1) * y \in Nat
    BY <1>3
  <2>. QED
    BY <1>1, <2>1
<1>. QED
  BY <1>1, <1>2, <1>3

\* No stay in a state is longer than a Round.
LEMMA SpentBounds ==
  ASSUME Inv, NEW p \in Packets, Running(p)
  PROVE  /\ Spent(p) \in Nat
         /\ txn[p].since <= Lasts(p) => Spent(p) <= Round
         /\ txn[p].since < Lasts(p) => Spent(p) < Round
<1>1. txn[p].since \in Nat
  BY DEF Inv, Typed, TxnTyped
<1>2. CASE InState(p, "WAITING_FOR_ACK")
  <2>1. Lasts(p) = AckTimeout + TickLag /\ Spent(p) = txn[p].since
    BY <1>2 DEF Lasts, Spent, InState
  <2>. QED
    BY <1>1, <2>1, RoundBounds, BoundsAssumption
<1>3. CASE InState(p, "REPAIR_PENDING")
  <2>1. Lasts(p) = MaxRepair /\ Spent(p) = MaxFlight + txn[p].since
    BY <1>3 DEF Lasts, Spent, InState
  <2>. QED
    BY <1>1, <2>1, RoundBounds, BoundsAssumption
<1>. QED
  BY <1>2, <1>3 DEF Running

LEMMA SubmitBounds ==
  ASSUME Inv, NEW p \in Packets, Running(p)
  PROVE  /\ LeftToSubmit(p) \in Int
         /\ LeftToSubmit(p) <= MaxRetries * Round
         /\ MayResubmit(p) /\ txn[p].since <= Lasts(p) => LeftToSubmit(p) >= 0
         /\ MayResubmit(p) /\ txn[p].since < Lasts(p) => LeftToSubmit(p) >= 1
<1>. DEFINE x == MaxRetries - txn[p].retry
<1>1. /\ txn[p].retry \in Nat /\ txn[p].since \in Nat /\ x \in Nat /\ x <= MaxRetries
      /\ MayResubmit(p) => x > 0
  BY BoundsAssumption DEF Inv, Typed, TxnTyped, MayResubmit
<1>2. /\ Spent(p) \in Nat
      /\ txn[p].since <= Lasts(p) => Spent(p) <= Round
      /\ txn[p].since < Lasts(p) => Spent(p) < Round
  BY SpentBounds
<1>3. x * Round \in Nat /\ x * Round <= MaxRetries * Round /\ (x > 0 => Round <= x * Round)
  BY <1>1, RoundBounds, Multiples
<1>4. LeftToSubmit(p) = x * Round - Spent(p)
  BY DEF LeftToSubmit
<1>. HIDE DEF x
<1>. QED
  BY <1>1, <1>2, <1>3, <1>4, RoundBounds

LEMMA FlyBounds ==
  ASSUME NEW f \in Frames
  PROVE  /\ LeftToFly(f) \in Nat /\ LeftToFly(f) <= Ttl * MaxFlight
         /\ f.age < MaxFlight => LeftToFly(f) >= 1
<1>1. f.ttl \in Nat /\ f.ttl > 0 /\ f.ttl <= Ttl /\ f.age \in Nat /\ f.age <= MaxFlight
  BY FrameNodes, BoundsAssumption
<1>2. f.ttl * MaxFlight \in Nat /\ MaxFlight <= f.ttl * MaxFlight
      /\ f.ttl * MaxFlight <= Ttl * MaxFlight
  BY <1>1, Multiples, RoundBounds
<1>. QED
  BY <1>1, <1>2, RoundBounds DEF LeftToFly

\* A hop uses up what it has taken.
LEMMA FlyForwarded ==
  ASSUME NEW n \in Nodes, NEW f \in Frames, NEW g \in Forwarded(n, f)
  PROVE  LeftToFly(g) <= LeftToFly(f)
<1>1. f.ttl > 1
  BY DEF Forwarded
<1>2. PICK h \in Toward[n][Target(f)] :
        g = [f EXCEPT !.ttl = @ - 1, !.to = h, !.age = 0]
  BY <1>1 DEF Forwarded
<1>3. g.ttl = f.ttl - 1 /\ g.age = 0
  BY <1>2 DEF Frames
<1>4. f.ttl \in Nat /\ f.age \in Nat /\ f.age <= MaxFlight
  BY FrameNodes, BoundsAssumption
<1>5. f.ttl * MaxFlight \in Nat /\ (f.ttl - 1) * MaxFlight = f.ttl * MaxFlight - MaxFlight
  BY <1>1, <1>4, Multiples, RoundBounds
<1>. QED
  BY <1>3, <1>4, <1>5, RoundBounds DEF LeftToFly

-----------------------------------------------------------------------------
\* An entry with the name of a packet's DATA was made by a frame of it.
LEMMA EntryOfFrame ==
  ASSUME Inv, SeenIsMet, NEW f \in air, NEW p \in Packets
  PROVE  Names(Entry(f), DataOf(p)) <=> f \in DataFrames(p)
<1>1. f \in Frames /\ f.packet \in Packets /\ DataNumbered(f)
  BY FrameNodes DEF Inv, Typed, AirTyped, SeenIsMet
<1>2. Names(Entry(f), DataOf(p)) <=>
        f.kind = "DATA" /\ Origin(f) = SourceOf[p] /\ f.seq = SeqOf[p]
  BY DEF Names, Entry, DataOf, Origin
<1>. QED
  BY <1>1, <1>2, PacketsAssumption DEF DataFrames, Origin, DataNumbered

\* The search of the duplicate cache at the destination.
LEMMA DuplicateSearch ==
  ASSUME Inv, SeenIsMet, NEW p \in Packets, NEW f \in DataFrames(p), f.to = DestOf[p]
  PROVE  IsDuplicate(f.to, f) <=> EntriesOf(p) # {}
<1>1. f.packet = p /\ f.kind = "DATA" /\ f.seq = SeqOf[p] /\ Origin(f) = SourceOf[p]
  BY DEF DataFrames, SeenIsMet, DataNumbered, Origin
<1>. QED
  BY <1>1 DEF IsDuplicate, Entries, EntriesOf, Names, DataOf, Origin

\* What a step does to the traces of packet p.
EntriesFollow(p) ==
  /\ \A e \in EntriesOf(p)' : e \in EntriesOf(p) \/ (e.age = 0 /\ DataFrames(p) # {})
  /\ EntriesOf(p) # {} => EntriesOf(p)' # {}
FramesFollow(p) ==
  \A g \in DataFrames(p)' : \E f \in DataFrames(p) : LeftToFly(g) <= LeftToFly(f)
DeliveredFollows(p) == Delivered(p)' => Delivered(p) \/ EntriesOf(p)' # {}
TxnFollows(p) == txn'[p] = txn[p] \/ (~Running(p)' /\ ~InState(p, "none")')

\* Entries have ages.
LEMMA EntryAges ==
  ASSUME Inv, NEW p \in Packets, NEW e \in EntriesOf(p)
  PROVE  e.age \in Nat
<1>1. DestOf[p] \in Nodes
  BY PacketsAssumption
<1>2. e \in SeenEntry
  BY <1>1 DEF Inv, Typed, SeenTyped, EntriesOf
<1>. QED
  BY <1>2, BoundsAssumption DEF SeenEntry

\* A step that leaves the source's transaction alone, or ends it.
LEMMA QuietOutlives ==
  ASSUME WindowSuffices, Inv, Inv', NEW p \in Packets, Outlives(p),
         EntriesFollow(p), FramesFollow(p), DeliveredFollows(p), TxnFollows(p)
  PROVE  Outlives(p)'
<1>1. Running(p)' => /\ txn'[p] = txn[p] /\ Running(p)
                     /\ LeftToSubmit(p)' = LeftToSubmit(p) /\ Lasts(p)' = Lasts(p)
                     /\ MayResubmit(p)' = MayResubmit(p)
  BY DEF TxnFollows, Running, InState, LeftToSubmit, Spent, Lasts, MayResubmit
<1>2. ASSUME NEW g \in DataFrames(p)'
      PROVE  /\ LeftToFly(g) \in Nat /\ LeftToFly(g) <= Ttl * MaxFlight
             /\ \E f \in DataFrames(p) : LeftToFly(g) <= LeftToFly(f) /\ LeftToFly(f) \in Nat
  BY FlyBounds DEF FramesFollow, DataFrames, Inv, Typed, AirTyped
<1>3. ASSUME NEW e \in EntriesOf(p)', MayResubmit(p)'
      PROVE  e.age + LeftToSubmit(p)' + Ttl * MaxFlight < Window
  <2>1. Running(p) /\ MayResubmit(p) /\ LeftToSubmit(p)' = LeftToSubmit(p)
    BY <1>1, <1>3 DEF MayResubmit
  <2>2. CASE e \in EntriesOf(p)
    BY <2>1, <2>2 DEF Outlives
  <2>3. CASE e.age = 0
    <3>1. LeftToSubmit(p) \in Int /\ LeftToSubmit(p) <= MaxRetries * Round
      BY <2>1, SubmitBounds
    <3>. QED
      BY <2>1, <2>3, <3>1, RoundBounds DEF WindowSuffices
  <2>. QED
    BY <2>2, <2>3 DEF EntriesFollow
<1>4. ASSUME NEW e \in EntriesOf(p)', NEW g \in DataFrames(p)'
      PROVE  e.age + LeftToFly(g) < Window
  <2>1. CASE e \in EntriesOf(p)
    <3>1. PICK f \in DataFrames(p) : LeftToFly(g) <= LeftToFly(f) /\ LeftToFly(f) \in Nat
      BY <1>2
    <3>2. e.age + LeftToFly(f) < Window /\ e.age \in Nat
      BY <2>1, EntryAges DEF Outlives
    <3>. QED
      BY <1>2, <3>1, <3>2, RoundBounds
  <2>2. CASE e.age = 0
    BY <1>2, <2>2, RoundBounds DEF WindowSuffices
  <2>. QED
    BY <2>1, <2>2 DEF EntriesFollow
<1>5. ASSUME Delivered(p)', MayResubmit(p)' \/ DataFrames(p)' # {}
      PROVE  EntriesOf(p)' # {}
  <2>1. MayResubmit(p) \/ DataFrames(p) # {}
    BY <1>1, <1>5 DEF FramesFollow, MayResubmit
  <2>. QED
    BY <1>5, <2>1 DEF Outlives, DeliveredFollows, EntriesFollow
<1>6. ASSUME InState(p, "none")'
      PROVE  EntriesOf(p)' = {} /\ ~Delivered(p)' /\ DataFrames(p)' = {}
  <2>1. InState(p, "none")
    BY <1>6 DEF TxnFollows, InState
  <2>. QED
    BY <2>1 DEF Outlives, EntriesFollow, FramesFollow, DeliveredFollows
<1>7. Running(p)' => (txn[p].since <= Lasts(p))'
  BY <1>1 DEF Outlives
<1>. QED
  BY <1>3, <1>4, <1>5, <1>6, <1>7 DEF Outlives

-----------------------------------------------------------------------------
\* A reception of a frame.
LEMMA ReceiveOutlives ==
  ASSUME WindowSuffices, Inv, Inv', SeenIsMet, Keeps,
         NEW f \in air, Receive(f), NEW p \in Packets, Outlives(p)
  PROVE  Outlives(p)'
<1>1. /\ f \in Frames /\ f.to \in Nodes /\ f.packet \in Packets /\ DestOf[p] \in Nodes
      /\ SeenTyped /\ AcksTyped /\ InboxTyped /\ air \subseteq Frames
  BY FrameNodes, PacketsAssumption DEF Inv, Typed, AirTyped
<1>2. EntriesFollow(p)
  <2>1. ASSUME NEW e \in EntriesOf(p)', e \notin EntriesOf(p)
        PROVE  e.age = 0 /\ DataFrames(p) # {}
    <3>1. e \in seen'[DestOf[p]] /\ Names(e, DataOf(p)) /\ e \notin seen[DestOf[p]]
      BY <2>1 DEF EntriesOf, Names, DataOf, Origin
    <3>2. Record(f.to, f)
      BY <3>1 DEF Receive, ReplaysAck, Suppresses, DeliversData, DeliversAck, LocalFails,
                  Relays
    <3>3. e = Entry(f)
      BY <1>1, <3>1, <3>2, RecordAdds
    <3>. QED
      BY <3>1, <3>3, EntryOfFrame DEF Entry
  <2>. QED
    BY <2>1 DEF EntriesFollow, Keeps
<1>3. FramesFollow(p)
  <2>1. SUFFICES ASSUME NEW g \in air', g.kind = "DATA", g.packet = p, g \notin air
                 PROVE  \E h \in DataFrames(p) : LeftToFly(g) <= LeftToFly(h)
    <3>1. \A h \in DataFrames(p) : LeftToFly(h) <= LeftToFly(h)
      BY <1>1, FlyBounds DEF DataFrames
    <3>. QED
      BY <3>1 DEF FramesFollow, DataFrames
  <2>2. CASE Relays(f)
    <3>1. g \in Forwarded(f.to, f)
      BY <2>1, <2>2, EmitsWithin DEF Relays
    <3>. QED
      BY <1>1, <2>1, <3>1, ForwardedTyped, FlyForwarded DEF DataFrames
  <2>3. CASE ReplaysAck(f)
    <3>1. PICK c \in acks[f.to] : Emits(air \ {f}, Forwarded(f.to, c.frame))
      BY <2>3 DEF ReplaysAck, CachedFor
    <3>2. c.frame \in Frames /\ c.frame.kind = "ACK"
      BY <1>1, <3>1 DEF AcksTyped, CachedAck, Inv, AcksAreEarned
    <3>3. g \in Forwarded(f.to, c.frame)
      BY <2>1, <3>1, EmitsWithin
    <3>. QED
      BY <1>1, <2>1, <3>2, <3>3, ForwardedTyped
  <2>4. CASE DeliversData(f)
    <3>1. PICK k : Emits(air \ {f}, Submitted(f.to, "ACK", f.packet, k, SourceOf[f.packet]))
      BY <2>4 DEF DeliversData
    <3>. QED
      BY <2>1, <3>1, EmitsWithin DEF Submitted
  <2>5. CASE Suppresses(f) \/ DeliversAck(f) \/ LocalFails(f)
    BY <2>1, <2>5 DEF Suppresses, DeliversAck, LocalFails
  <2>. QED
    BY <2>2, <2>3, <2>4, <2>5 DEF Receive
<1>4. DeliveredFollows(p)
  <2>1. CASE DeliversData(f)
    <3>1. inbox' = [inbox EXCEPT ![f.to] = Append(inbox[f.to], f.packet)]
          /\ inbox[f.to] \in Seq(Packets) /\ Record(f.to, f)
          /\ f.kind = "DATA" /\ DestOf[f.packet] = f.to
      BY <1>1, <2>1 DEF DeliversData, Target, InboxTyped
    <3>2. /\ inbox'[f.to] = Append(inbox[f.to], f.packet)
          /\ \A n \in Nodes : n # f.to => inbox'[n] = inbox[n]
      BY <1>1, <3>1 DEF InboxTyped
    <3>3. CASE f.packet = p
      <4>1. Entry(f) \in seen'[DestOf[p]]
        BY <1>1, <3>1, <3>3, RecordAdds
      <4>2. Names(Entry(f), DataOf(p))
        BY <3>1, <3>3, EntryOfFrame DEF DataFrames
      <4>3. EntriesOf(p)' # {}
        BY <4>1, <4>2 DEF EntriesOf, Names, DataOf, Origin
      <4>. QED
        BY <4>3 DEF DeliveredFollows
    <3>4. CASE f.packet # p
      <4>1. Delivered(p)' => Delivered(p)
        <5>1. CASE DestOf[p] = f.to
          BY <1>1, <3>1, <3>2, <3>4, <5>1 DEF Delivered
        <5>2. CASE DestOf[p] # f.to
          BY <1>1, <3>2, <5>2 DEF Delivered
        <5>. QED
          BY <5>1, <5>2
      <4>. QED
        BY <4>1 DEF DeliveredFollows
    <3>. QED
      BY <3>3, <3>4
  <2>2. CASE UNCHANGED inbox
    BY <2>2 DEF DeliveredFollows, Delivered
  <2>. QED
    BY <2>1, <2>2 DEF Receive, ReplaysAck, Suppresses, DeliversAck, LocalFails, Relays
<1>5. TxnFollows(p)
  <2>1. CASE DeliversAck(f)
    BY <2>1 DEF DeliversAck, TxnFollows, Running, InState, Inv, Typed, TxnTyped
  <2>2. CASE UNCHANGED txn
    BY <2>2 DEF TxnFollows
  <2>. QED
    BY <2>1, <2>2 DEF Receive, ReplaysAck, Suppresses, DeliversData, LocalFails, Relays
<1>. QED
  BY <1>2, <1>3, <1>4, <1>5, QuietOutlives

\* A step that adds no frame of p, delivers nothing and records nothing.
LEMMA IdleOutlives ==
  ASSUME WindowSuffices, Inv, Inv', NEW p \in Packets, Outlives(p),
         EntriesOf(p)' \in SUBSET EntriesOf(p),
         EntriesOf(p) # {} => EntriesOf(p)' # {},
         DataFrames(p)' \in SUBSET DataFrames(p), UNCHANGED inbox, TxnFollows(p)
  PROVE  Outlives(p)'
<1>1. EntriesFollow(p)
  BY DEF EntriesFollow
<1>2. \A h \in DataFrames(p) : LeftToFly(h) <= LeftToFly(h)
  BY FlyBounds DEF DataFrames, Inv, Typed, AirTyped
<1>3. FramesFollow(p)
  BY <1>2 DEF FramesFollow
<1>4. DeliveredFollows(p)
  BY DEF DeliveredFollows, Delivered
<1>. QED
  BY <1>1, <1>3, <1>4, QuietOutlives

LEMMA LoseOutlives ==
  ASSUME WindowSuffices, Inv, Inv', Keeps, NEW p \in Packets, Outlives(p),
         \/ \E f \in air : Lose(f)
         \/ \E n \in Nodes : Reset(n)
  PROVE  Outlives(p)'
<1>1. UNCHANGED <<txn, inbox>> /\ DataFrames(p)' \in SUBSET DataFrames(p)
  BY DEF Lose, Reset, DataFrames
<1>2. seen'[DestOf[p]] \in SUBSET seen[DestOf[p]]
  <2>1. CASE UNCHANGED seen
    BY <2>1
  <2>2. ASSUME NEW n \in Nodes, Reset(n)
        PROVE  seen'[DestOf[p]] \in SUBSET seen[DestOf[p]]
    BY <2>2, PacketsAssumption DEF Reset, Inv, Typed, SeenTyped
  <2>. QED
    BY <2>1, <2>2 DEF Lose
<1>3. EntriesOf(p)' \in SUBSET EntriesOf(p)
  BY <1>2 DEF EntriesOf, Names, Origin, DataOf
<1>4. TxnFollows(p)
  BY <1>1 DEF TxnFollows
<1>. QED
  BY <1>1, <1>3, <1>4, IdleOutlives DEF Keeps

\* A retransmission: the time until the next one is not used up.
LEMMA RetransmitOutlives ==
  ASSUME WindowSuffices, Inv, Inv', NEW p \in Packets, Outlives(p),
         Running(p), Retransmit(p)
  PROVE  Outlives(p)'
<1>1. /\ txn'[p] = [state |-> "WAITING_FOR_ACK", retry |-> txn[p].retry + 1, since |-> 0]
      /\ MayResubmit(p) /\ txn[p].since <= Lasts(p)
      /\ UNCHANGED <<seen, inbox>> /\ Emits(air, SubmittedData(p))
  BY DEF Retransmit, Move, Inv, Typed, TxnTyped, MayResubmit, Outlives
<1>2. txn[p].retry \in Nat /\ txn[p].retry < MaxRetries /\ txn[p].since \in Nat
  BY <1>1, BoundsAssumption DEF MayResubmit, Inv, Typed, TxnTyped
<1>3. EntriesOf(p)' = EntriesOf(p) /\ Delivered(p)' = Delivered(p)
  BY <1>1 DEF EntriesOf, Names, Origin, DataOf, Delivered
<1>4. LeftToSubmit(p) \in Int /\ LeftToSubmit(p) >= 0
  BY <1>1, SubmitBounds
<1>5. LeftToSubmit(p)' \in Int /\ LeftToSubmit(p)' <= LeftToSubmit(p)
  <2>. DEFINE x == MaxRetries - txn[p].retry
  <2>1. LeftToSubmit(p)' = (MaxRetries - (txn[p].retry + 1)) * Round - 0
    BY <1>1 DEF LeftToSubmit, Spent, InState, Round
  <2>2. x \in Nat /\ x > 0 /\ MaxRetries - (txn[p].retry + 1) = x - 1
    BY <1>2, RoundBounds
  <2>3. x * Round \in Nat /\ (x - 1) * Round = x * Round - Round
    BY <2>2, RoundBounds, Multiples
  <2>4. LeftToSubmit(p) = x * Round - Spent(p)
    BY DEF LeftToSubmit
  <2>5. Spent(p) \in Nat /\ Spent(p) <= Round
    BY <1>1, SpentBounds
  <2>. HIDE DEF x
  <2>. QED
    BY <2>1, <2>2, <2>3, <2>4, <2>5, RoundBounds
<1>6. ASSUME NEW g \in DataFrames(p)'
      PROVE  g \in DataFrames(p) \/ LeftToFly(g) = Ttl * MaxFlight
  <2>1. g \in air \/ g \in SubmittedData(p)
    BY <1>1, EmitsWithin DEF DataFrames
  <2>2. CASE g \in SubmittedData(p)
    <3>1. g.ttl = Ttl /\ g.age = 0
      BY <2>2 DEF SubmittedData, Submitted
    <3>. QED
      BY <3>1, RoundBounds DEF LeftToFly
  <2>. QED
    BY <2>1, <2>2 DEF DataFrames
<1>7. ASSUME NEW e \in EntriesOf(p)
      PROVE  /\ e.age + LeftToSubmit(p)' + Ttl * MaxFlight < Window
             /\ \A g \in DataFrames(p)' : e.age + LeftToFly(g) < Window
  <2>1. e.age \in Nat /\ e.age + LeftToSubmit(p) + Ttl * MaxFlight < Window
    BY <1>1, EntryAges DEF Outlives
  <2>2. e.age + LeftToSubmit(p)' + Ttl * MaxFlight < Window
    BY <1>4, <1>5, <2>1, RoundBounds
  <2>3. e.age + Ttl * MaxFlight < Window
    BY <1>4, <2>1, RoundBounds
  <2>. QED
    BY <1>6, <2>2, <2>3 DEF Outlives
<1>8. txn'[p].since = 0 /\ Lasts(p)' \in Nat /\ ~InState(p, "none")'
  BY <1>1, BoundsAssumption DEF Lasts, InState
<1>9. (Delivered(p) => EntriesOf(p) # {}) /\ (Running(p) => txn[p].since <= Lasts(p))'
  BY <1>1, <1>8 DEF Outlives
<1>. QED
  BY <1>3, <1>7, <1>8, <1>9 DEF Outlives

\* Every step of a source.
LEMMA SourceOutlives ==
  ASSUME WindowSuffices, Inv, Inv', NEW q \in Packets,
         \/ Send(q) \/ Timeout(q) \/ TransmissionFails(q)
         \/ RepairSucceeds(q) \/ Abandon(q),
         NEW p \in Packets, Outlives(p)
  PROVE  Outlives(p)'
<1>1. UNCHANGED <<seen, inbox>> /\ EntriesOf(p)' = EntriesOf(p)
      /\ Delivered(p)' = Delivered(p)
  BY DEF Send, Timeout, TransmissionFails, RepairSucceeds, Abandon, Retransmit, GiveUp,
         EntriesOf, Names, Origin, DataOf, Delivered
<1>2. CASE p # q
  <2>1. txn'[p] = txn[p]
    BY <1>2 DEF Send, Timeout, TransmissionFails, RepairSucceeds, Abandon, Retransmit,
                GiveUp, Move, Inv, Typed, TxnTyped
  <2>2. UNCHANGED air \/ Emits(air, SubmittedData(q))
    BY DEF Send, Timeout, TransmissionFails, RepairSucceeds, Abandon, Retransmit, GiveUp
  <2>3. \A g \in SubmittedData(q) : g.packet = q
    BY DEF SubmittedData, Submitted
  <2>4. DataFrames(p)' \in SUBSET DataFrames(p)
    BY <1>2, <2>2, <2>3, EmitsWithin DEF DataFrames
  <2>5. TxnFollows(p)
    BY <2>1 DEF TxnFollows
  <2>. QED
    BY <1>1, <2>4, <2>5, IdleOutlives
<1>3. CASE p = q
  <2>1. ASSUME Running(p), GiveUp(p) PROVE Outlives(p)'
    <3>1. TxnFollows(p)
      BY <2>1 DEF GiveUp, Move, TxnFollows, Running, InState, Inv, Typed, TxnTyped
    <3>2. DataFrames(p)' = DataFrames(p)
      BY <2>1 DEF GiveUp, DataFrames
    <3>. QED
      BY <1>1, <3>1, <3>2, IdleOutlives
  <2>2. CASE Send(p)
    <3>1. EntriesOf(p) = {} /\ ~Delivered(p)
      BY <2>2 DEF Send, Outlives
    <3>2. txn'[p] = [state |-> "WAITING_FOR_ACK", retry |-> 0, since |-> 0]
      BY <2>2 DEF Send, Move, Inv, Typed, TxnTyped
    <3>3. (Running(p) => txn[p].since <= Lasts(p))' /\ ~InState(p, "none")'
      BY <3>2, BoundsAssumption DEF Lasts, InState
    <3>. QED
      BY <1>1, <3>1, <3>3 DEF Outlives
  <2>3. CASE TransmissionFails(p)
    <3>1. /\ txn'[p] = [state |-> "REPAIR_PENDING", retry |-> txn[p].retry, since |-> 0]
          /\ InState(p, "WAITING_FOR_ACK") /\ txn[p].since <= MaxFlight
          /\ txn[p].since \in Nat /\ txn[p].retry \in 0..MaxRetries
          /\ DataFrames(p)' = DataFrames(p)
      BY <2>3 DEF TransmissionFails, Move, Inv, Typed, TxnTyped, DataFrames
    <3>2. MayResubmit(p)' = MayResubmit(p) /\ Running(p) /\ ~InState(p, "none")'
      BY <3>1 DEF MayResubmit, Running, InState
    <3>3. (Running(p) => txn[p].since <= Lasts(p))'
      BY <3>1, BoundsAssumption DEF Lasts, InState
    <3>4. LeftToSubmit(p)' \in Int /\ LeftToSubmit(p)' <= LeftToSubmit(p)
      <4>. DEFINE x == MaxRetries - txn[p].retry
      <4>1. LeftToSubmit(p)' = x * Round - (MaxFlight + 0)
        BY <3>1 DEF LeftToSubmit, Spent, InState, Round
      <4>2. LeftToSubmit(p) = x * Round - txn[p].since
        BY <3>1 DEF LeftToSubmit, Spent
      <4>3. x \in Nat /\ x * Round \in Nat
        BY <3>1, RoundBounds, Multiples
      <4>. HIDE DEF x
      <4>. QED
        BY <3>1, <4>1, <4>2, <4>3, RoundBounds
    <3>5. ASSUME NEW e \in EntriesOf(p), MayResubmit(p)
          PROVE  e.age + LeftToSubmit(p)' + Ttl * MaxFlight < Window
      <4>1. e.age \in Nat /\ e.age + LeftToSubmit(p) + Ttl * MaxFlight < Window
        BY <3>5, EntryAges DEF Outlives
      <4>2. LeftToSubmit(p) \in Int
        BY <3>2, SubmitBounds
      <4>. QED
        BY <3>4, <4>1, <4>2, RoundBounds
    <3>. QED
      BY <1>1, <3>1, <3>2, <3>3, <3>5 DEF Outlives
  <2>4. CASE Timeout(p)
    BY <2>1, <2>4, RetransmitOutlives DEF Timeout, Running
  <2>5. CASE RepairSucceeds(p)
    BY <2>1, <2>5, RetransmitOutlives DEF RepairSucceeds, Running
  <2>6. CASE Abandon(p)
    BY <2>1, <2>6 DEF Abandon, Running
  <2>. QED
    BY <1>3, <2>2, <2>3, <2>4, <2>5, <2>6
<1>. QED
  BY <1>2, <1>3

\* A unit of time: what is left of it shrinks as entries grow older.
LEMMA ClockOutlives ==
  ASSUME WindowSuffices, Inv, Inv', ClockAdvances, NEW p \in Packets, Outlives(p)
  PROVE  Outlives(p)'
<1>1. /\ \A f \in air : f.age < MaxFlight
      /\ Running(p) => txn[p].since < Lasts(p)
      /\ txn'[p] = IF Running(p) THEN [txn[p] EXCEPT !.since = @ + 1] ELSE txn[p]
      /\ air' = {[f EXCEPT !.age = @ + 1] : f \in air}
      /\ DestOf[p] \in Nodes /\ seen'[DestOf[p]] = Aged(seen[DestOf[p]])
      /\ UNCHANGED inbox /\ air \subseteq Frames
  BY PacketsAssumption DEF ClockAdvances, Inv, Typed, AirTyped
<1>2. /\ txn'[p].state = txn[p].state /\ txn'[p].retry = txn[p].retry
      /\ Running(p) => txn'[p].since = txn[p].since + 1
      /\ txn[p].since \in Nat
  BY <1>1 DEF Inv, Typed, TxnTyped
<1>3. /\ Running(p)' = Running(p) /\ MayResubmit(p)' = MayResubmit(p)
      /\ Lasts(p)' = Lasts(p) /\ InState(p, "none")' = InState(p, "none")
      /\ Delivered(p)' = Delivered(p)
  BY <1>1, <1>2 DEF Running, MayResubmit, Lasts, InState, Delivered
<1>4. Running(p) => LeftToSubmit(p)' = LeftToSubmit(p) - 1
  <2>. SUFFICES ASSUME Running(p) PROVE LeftToSubmit(p)' = LeftToSubmit(p) - 1
    OBVIOUS
  <2>. DEFINE x == (MaxRetries - txn[p].retry) * Round
  <2>1. LeftToSubmit(p) = x - Spent(p) /\ LeftToSubmit(p)' = x - Spent(p)'
    BY <1>2 DEF LeftToSubmit, Round
  <2>2. Spent(p) \in Nat /\ Spent(p)' = Spent(p) + 1
    BY <1>2, RoundBounds DEF Spent, InState
  <2>3. x \in Nat
    <3>1. MaxRetries - txn[p].retry \in Nat
      BY BoundsAssumption DEF Inv, Typed, TxnTyped
    <3>. QED
      BY <3>1, RoundBounds, Multiples
  <2>. HIDE DEF x
  <2>. QED
    BY <2>1, <2>2, <2>3
<1>5. ASSUME NEW g \in DataFrames(p)'
      PROVE  \E f \in DataFrames(p) :
               /\ LeftToFly(f) \in Nat /\ LeftToFly(f) >= 1
               /\ LeftToFly(g) = LeftToFly(f) - 1
  <2>1. PICK f \in air : g = [f EXCEPT !.age = @ + 1]
    BY <1>1 DEF DataFrames
  <2>2. f \in Frames /\ f.age \in Nat /\ f.age < MaxFlight /\ f.ttl \in Nat
    BY <1>1, FrameNodes, BoundsAssumption
  <2>3. g.kind = f.kind /\ g.packet = f.packet /\ g.ttl = f.ttl /\ g.age = f.age + 1
    BY <2>1, <2>2 DEF Frames
  <2>4. f \in DataFrames(p)
    BY <2>3 DEF DataFrames
  <2>5. LeftToFly(f) \in Nat /\ LeftToFly(f) >= 1
    BY <2>2, FlyBounds
  <2>6. LeftToFly(g) = LeftToFly(f) - 1
    <3>1. f.ttl * MaxFlight \in Nat
      BY <2>2, RoundBounds, Multiples
    <3>. QED
      BY <2>2, <2>3, <3>1 DEF LeftToFly
  <2>. QED
    BY <2>4, <2>5, <2>6
<1>6. ASSUME NEW e \in EntriesOf(p)'
      PROVE  \E d \in EntriesOf(p) : d.age \in Nat /\ e.age = d.age + 1
  <2>1. e \in Aged(seen[DestOf[p]]) /\ Names(e, DataOf(p))
    BY <1>1 DEF EntriesOf, Names, Origin, DataOf
  <2>2. PICK d \in seen[DestOf[p]] : e = [d EXCEPT !.age = @ + 1]
    BY <2>1 DEF Aged
  <2>3. d \in SeenEntry
    BY <1>1 DEF Inv, Typed, SeenTyped
  <2>4. /\ e.kind = d.kind /\ e.origin = d.origin /\ e.seq = d.seq /\ e.age = d.age + 1
        /\ d.age \in Nat
    BY <2>2, <2>3, BoundsAssumption DEF SeenEntry
  <2>5. d \in EntriesOf(p)
    BY <2>1, <2>4 DEF EntriesOf, Names
  <2>. QED
    BY <2>4, <2>5
<1>7. ASSUME NEW d \in EntriesOf(p), d.age + 1 < Window
      PROVE  EntriesOf(p)' # {}
  <2>. DEFINE e == [d EXCEPT !.age = @ + 1]
  <2>1. d \in seen[DestOf[p]] /\ Names(d, DataOf(p)) /\ d \in SeenEntry
    BY <1>1 DEF EntriesOf, Inv, Typed, SeenTyped
  <2>2. e \in seen'[DestOf[p]]
    BY <1>1, <1>7, <2>1 DEF Aged
  <2>3. e.kind = d.kind /\ e.origin = d.origin /\ e.seq = d.seq
    BY <2>1 DEF SeenEntry
  <2>4. e \in EntriesOf(p)'
    BY <2>1, <2>2, <2>3 DEF EntriesOf, Names, Origin, DataOf
  <2>. QED
    BY <2>4
<1>8. ASSUME NEW e \in EntriesOf(p)'
      PROVE  /\ MayResubmit(p)' => e.age + LeftToSubmit(p)' + Ttl * MaxFlight < Window
             /\ \A g \in DataFrames(p)' : e.age + LeftToFly(g) < Window
  <2>1. PICK d \in EntriesOf(p) : d.age \in Nat /\ e.age = d.age + 1
    BY <1>6
  <2>2. ASSUME MayResubmit(p)'
        PROVE  e.age + LeftToSubmit(p)' + Ttl * MaxFlight < Window
    <3>1. MayResubmit(p) /\ Running(p)
      BY <1>3, <2>2 DEF MayResubmit
    <3>2. d.age + LeftToSubmit(p) + Ttl * MaxFlight < Window
      BY <3>1 DEF Outlives
    <3>3. LeftToSubmit(p) \in Int
      BY <3>1, SubmitBounds
    <3>. QED
      BY <1>4, <2>1, <3>1, <3>2, <3>3, RoundBounds
  <2>3. ASSUME NEW g \in DataFrames(p)'
        PROVE  e.age + LeftToFly(g) < Window
    <3>1. PICK f \in DataFrames(p) : LeftToFly(f) \in Nat /\ LeftToFly(g) = LeftToFly(f) - 1
      BY <1>5
    <3>2. d.age + LeftToFly(f) < Window
      BY DEF Outlives
    <3>. QED
      BY <2>1, <3>1, <3>2, RoundBounds
  <2>. QED
    BY <2>2, <2>3
<1>9. ASSUME Delivered(p)', MayResubmit(p)' \/ DataFrames(p)' # {}
      PROVE  EntriesOf(p)' # {}
  <2>1. MayResubmit(p) \/ DataFrames(p) # {}
    BY <1>3, <1>5, <1>9
  <2>2. PICK d \in EntriesOf(p) : TRUE
    BY <1>3, <1>9, <2>1 DEF Outlives
  <2>3. d.age \in Nat
    BY EntryAges
  <2>4. CASE MayResubmit(p)
    <3>1. LeftToSubmit(p) \in Int /\ LeftToSubmit(p) >= 1
      BY <1>1, <2>4, SubmitBounds DEF MayResubmit
    <3>2. d.age + LeftToSubmit(p) + Ttl * MaxFlight < Window
      BY <2>4 DEF Outlives
    <3>3. d.age + 1 < Window
      BY <2>3, <3>1, <3>2, RoundBounds
    <3>. QED
      BY <1>7, <3>3
  <2>5. CASE DataFrames(p) # {}
    <3>1. PICK f \in DataFrames(p) : TRUE
      BY <2>5
    <3>2. LeftToFly(f) \in Nat /\ LeftToFly(f) >= 1
      BY <1>1, FlyBounds DEF DataFrames
    <3>3. d.age + LeftToFly(f) < Window
      BY DEF Outlives
    <3>4. d.age + 1 < Window
      BY <2>3, <3>2, <3>3, RoundBounds
    <3>. QED
      BY <1>7, <3>4
  <2>. QED
    BY <2>1, <2>4, <2>5
<1>10. (Running(p) => txn[p].since <= Lasts(p))'
  <2>1. Running(p) => Lasts(p) \in Nat
    BY BoundsAssumption DEF Lasts, Running, InState
  <2>. QED
    BY <1>1, <1>2, <1>3, <2>1
<1>11. InState(p, "none")' => EntriesOf(p)' = {} /\ ~Delivered(p)' /\ DataFrames(p)' = {}
  BY <1>3, <1>5, <1>6 DEF Outlives
<1>. QED
  BY <1>8, <1>9, <1>10, <1>11 DEF Outlives

-----------------------------------------------------------------------------
LEMMA InitOnce == Init => OnceInv
<1>. SUFFICES ASSUME Init PROVE OnceInv
  OBVIOUS
<1>1. DeliveredOnce /\ Arrived
  BY DEF Init, DeliveredOnce, Arrived
<1>2. ASSUME NEW p \in Packets PROVE Outlives(p)
  <2>1. DestOf[p] \in Nodes
    BY PacketsAssumption
  <2>2. EntriesOf(p) = {} /\ DataFrames(p) = {} /\ ~Delivered(p) /\ ~Running(p)
    BY <2>1 DEF Init, EntriesOf, DataFrames, Delivered, Running, InState
  <2>. QED
    BY <2>2 DEF Outlives
<1>. QED
  BY <1>1, <1>2 DEF OnceInv

\* A delivery is the first one of its packet.
LEMMA DeliveryIsFirst ==
  ASSUME Inv, SeenIsMet, OnceInv, NEW f \in air, DeliversData(f)
  PROVE  /\ ~Delivered(f.packet) /\ DestOf[f.packet] = f.to
         /\ DeliveredOnce' /\ Arrived'
<1>1. /\ f \in Frames /\ f.to \in Nodes /\ f.packet \in Packets
      /\ inbox \in [Nodes -> Seq(Packets)]
  BY FrameNodes DEF Inv, Typed, AirTyped, InboxTyped
<1>2. f.kind = "DATA" /\ DestOf[f.packet] = f.to /\ ~IsDuplicate(f.to, f)
  BY DEF DeliversData, Target
<1>3. EntriesOf(f.packet) = {} /\ DataFrames(f.packet) # {}
  BY <1>1, <1>2, DuplicateSearch DEF DataFrames
<1>4. ~Delivered(f.packet)
  BY <1>1, <1>3 DEF OnceInv, Outlives
<1>5. inbox[f.to] \in Seq(Packets)
  BY <1>1
<1>6. inbox' = [inbox EXCEPT ![f.to] = Append(inbox[f.to], f.packet)]
  BY DEF DeliversData
<1>7. /\ inbox'[f.to] = Append(inbox[f.to], f.packet)
      /\ \A n \in Nodes : n # f.to => inbox'[n] = inbox[n]
  BY <1>1, <1>6
<1>8. ASSUME NEW k \in DOMAIN inbox'[f.to]
      PROVE  \/ k \in DOMAIN inbox[f.to] /\ inbox'[f.to][k] = inbox[f.to][k]
             \/ k = Len(inbox[f.to]) + 1 /\ inbox'[f.to][k] = f.packet
  BY <1>1, <1>5, <1>7
<1>9. \A k \in DOMAIN inbox[f.to] : inbox[f.to][k] # f.packet
  BY <1>2, <1>4 DEF Delivered
<1>10. DeliveredOnce'
  <2>1. ASSUME NEW n \in Nodes, NEW j \in DOMAIN inbox'[n], NEW k \in DOMAIN inbox'[n],
               inbox'[n][j] = inbox'[n][k]
        PROVE  j = k
    <3>1. CASE n # f.to
      BY <1>7, <2>1, <3>1 DEF OnceInv, DeliveredOnce
    <3>2. CASE n = f.to
      BY <1>1, <1>8, <1>9, <2>1, <3>2 DEF OnceInv, DeliveredOnce
    <3>. QED
      BY <3>1, <3>2
  <2>. QED
    BY <2>1 DEF DeliveredOnce
<1>11. Arrived'
  <2>1. ASSUME NEW n \in Nodes, NEW k \in DOMAIN inbox'[n]
        PROVE  DestOf[inbox'[n][k]] = n
    <3>1. CASE n # f.to
      BY <1>7, <3>1 DEF OnceInv, Arrived
    <3>2. CASE n = f.to
      BY <1>2, <1>8, <3>2 DEF OnceInv, Arrived
    <3>. QED
      BY <3>1, <3>2
  <2>. QED
    BY <2>1 DEF Arrived
<1>. QED
  BY <1>2, <1>4, <1>10, <1>11

\* All that the proofs about single deliveries rest on.
Known == Inv /\ SeenIsMet /\ OnceInv

LEMMA NextOnce ==
  ASSUME WindowSuffices, Known, Inv', Next, ClockAdvances \/ Keeps
  PROVE  OnceInv'
<1>. USE DEF Known
<1>1. DeliveredOnce' /\ Arrived'
  <2>1. CASE UNCHANGED inbox
    BY <2>1 DEF OnceInv, DeliveredOnce, Arrived
  <2>2. ASSUME NEW f \in air, DeliversData(f)
        PROVE  DeliveredOnce' /\ Arrived'
    BY <2>2, DeliveryIsFirst
  <2>. QED
    BY <2>1, <2>2
    DEF Next, Receive, Lose, Reset, ClockAdvances, Send, Timeout, TransmissionFails,
        RepairSucceeds, Abandon, Retransmit, GiveUp, ReplaysAck, Suppresses, DeliversAck,
        LocalFails, Relays
<1>2. ASSUME NEW p \in Packets PROVE Outlives(p)'
  <2>1. Outlives(p)
    BY DEF OnceInv
  <2>2. CASE ClockAdvances
    BY <2>1, <2>2, ClockOutlives
  <2>3. CASE Keeps /\ ~ClockAdvances
    <3>1. CASE \E f \in air : Receive(f)
      BY <2>1, <2>3, <3>1, ReceiveOutlives
    <3>2. CASE (\E f \in air : Lose(f)) \/ (\E n \in Nodes : Reset(n))
      BY <2>1, <2>3, <3>2, LoseOutlives
    <3>3. CASE \E q \in Packets : \/ Send(q) \/ Timeout(q) \/ TransmissionFails(q)
                                  \/ RepairSucceeds(q) \/ Abandon(q)
      BY <2>1, <3>3, SourceOutlives
    <3>. QED
      BY <2>3, <3>1, <3>2, <3>3 DEF Next
  <2>. QED
    BY <2>2, <2>3
<1>. QED
  BY <1>1, <1>2 DEF OnceInv

LEMMA StutterOnce ==
  ASSUME OnceInv, UNCHANGED vars
  PROVE  OnceInv'
  BY DEF vars, OnceInv, DeliveredOnce, Arrived, Outlives, EntriesOf, DataFrames, Delivered,
         MayResubmit, LeftToSubmit, Spent, Running, InState, Lasts, Names, DataOf, Origin

\* As long as the window is wide enough for all submissions of a packet and
\* no cache forgets DATA before it is that old, no application receives a
\* packet twice, in any network, however frames are delayed, relayed and
\* looped (enp_duplicate.c lines 133-178, enp_data_plane.c lines 206-236).
THEOREM DeliveredAtMostOnce ==
  ASSUME WindowSuffices
  PROVE  Spec /\ NothingForgotten => []DeliveredOnce
<1>1. Inv' /\ Known /\ [Next]_vars /\ [ClockAdvances \/ Keeps]_vars => OnceInv'
  BY NextOnce, StutterOnce DEF Known, vars
<1>2. OnceInv => DeliveredOnce
  BY DEF OnceInv
<1>. QED
  BY <1>1, <1>2, InitInv, NextInv, InitSeen, NextSeen, InitOnce, PTL
  DEF Spec, NothingForgotten, Known

-----------------------------------------------------------------------------
(***************************************************************************)
(* One way to have destinations that forget nothing: their data planes do  *)
(* not start anew, and a duplicate cache has an entry for every packet     *)
(* there is.  As no packet gets a second entry while it has one, the cache *)
(* is never full when a new packet arrives.  Relays may start anew.        *)
(***************************************************************************)
CacheSuffices ==
  /\ \A p \in Packets : MaxResets[DestOf[p]] = 0
  /\ IsFiniteSet(Packets) /\ Cardinality(Packets) <= CacheSize

Distinct ==
  \A n \in Nodes : \A d, e \in Entries(n, "DATA") :
    d.origin = e.origin /\ d.seq = e.seq => d = e

\* The packet an entry stands for.
LEMMA EntryPacket ==
  ASSUME Inv, SeenIsMet, NEW n \in Nodes, NEW e \in Entries(n, "DATA")
  PROVE  \E p \in Packets : e.origin = SourceOf[p] /\ e.seq = SeqOf[p]
<1>1. e \in seen[n] /\ e.kind = "DATA"
  BY DEF Entries
<1>2. PICK c \in met[n] : Names(e, c)
  BY <1>1 DEF SeenIsMet
<1>3. c.packet \in Packets /\ DataNumbered(c) /\ c.kind = "DATA"
  BY <1>1, <1>2 DEF SeenIsMet, Inv, Typed, MetTyped, Contents, Names
<1>. QED
  BY <1>2, <1>3 DEF Names, Origin, DataNumbered

\* There is room for the entry of a packet that has none.
LEMMA RoomForFresh ==
  ASSUME CacheSuffices, Inv, SeenIsMet, Distinct,
         NEW f \in air, f.kind = "DATA", ~IsDuplicate(f.to, f)
  PROVE  Cardinality(Entries(f.to, "DATA")) < CacheSize
<1>1. f \in Frames /\ f.to \in Nodes /\ f.packet \in Packets /\ DataNumbered(f)
  BY FrameNodes DEF Inv, Typed, AirTyped, SeenIsMet
<1>. DEFINE E == Entries(f.to, "DATA")
            P == Packets \ {f.packet}
            packetOf == [e \in E |-> CHOOSE p \in Packets :
                                       e.origin = SourceOf[p] /\ e.seq = SeqOf[p]]
<1>2. ASSUME NEW e \in E
      PROVE  /\ packetOf[e] \in Packets
             /\ e.origin = SourceOf[packetOf[e]] /\ e.seq = SeqOf[packetOf[e]]
  BY <1>1, EntryPacket
<1>3. \A e \in E : packetOf[e] # f.packet
  <2>1. \A e \in E : ~(e.origin = SourceOf[f.packet] /\ e.seq = SeqOf[f.packet])
    BY <1>1 DEF IsDuplicate, Origin, DataNumbered
  <2>. QED
    BY <1>2, <2>1
<1>4. packetOf \in Injection(E, P)
  <2>1. packetOf \in [E -> P]
    BY <1>2, <1>3
  <2>2. ASSUME NEW d \in E, NEW e \in E, packetOf[d] = packetOf[e]
        PROVE  d = e
    BY <1>1, <1>2, <2>2 DEF Distinct
  <2>. QED
    BY <2>1, <2>2 DEF Injection, IsInjective
<1>5. IsFiniteSet(P) /\ Cardinality(P) = Cardinality(Packets) - 1
  BY <1>1, FS_RemoveElement DEF CacheSuffices
<1>6. IsFiniteSet(E) /\ Cardinality(E) <= Cardinality(P)
  BY <1>4, <1>5, FS_Injection
<1>7. Cardinality(E) \in Nat /\ Cardinality(P) \in Nat /\ Cardinality(Packets) \in Nat
  BY <1>5, <1>6, FS_CardinalityType DEF CacheSuffices
<1>. QED
  BY <1>5, <1>6, <1>7, BoundsAssumption DEF CacheSuffices

\* Only frames that are no duplicates are recorded.
LEMMA RecordsFresh ==
  ASSUME NEW f, Receive(f), ~UNCHANGED seen
  PROVE  ~IsDuplicate(f.to, f) /\ Record(f.to, f)
  BY DEF Receive, ReplaysAck, Suppresses, DeliversData, DeliversAck, LocalFails, Relays

LEMMA NothingEvicted ==
  ASSUME CacheSuffices, Inv, SeenIsMet, Distinct, Next, ~ClockAdvances
  PROVE  Keeps
<1>. SUFFICES ASSUME NEW p \in Packets, NEW e \in EntriesOf(p)
              PROVE  EntriesOf(p)' # {}
  BY DEF Keeps
<1>1. /\ e \in seen[DestOf[p]] /\ e.kind = "DATA" /\ DestOf[p] \in Nodes
      /\ e \in seen'[DestOf[p]] => EntriesOf(p)' # {}
  BY PacketsAssumption DEF EntriesOf, Names, DataOf, Origin
<1>2. CASE UNCHANGED seen
  BY <1>1, <1>2
<1>3. ASSUME NEW f \in air, Receive(f), ~UNCHANGED seen
      PROVE  e \in seen'[DestOf[p]]
  <2>1. f \in Frames /\ f.to \in Nodes /\ SeenTyped
    BY FrameNodes DEF Inv, Typed, AirTyped
  <2>2. ~IsDuplicate(f.to, f) /\ Record(f.to, f)
    BY <1>3, RecordsFresh
  <2>3. CASE f.to = DestOf[p] /\ f.kind = "DATA"
    BY <1>1, <2>1, <2>2, <2>3, RoomForFresh, RecordAdds
  <2>4. CASE f.to # DestOf[p] \/ f.kind # "DATA"
    BY <1>1, <2>1, <2>2, <2>4, RecordAdds
  <2>. QED
    BY <2>3, <2>4
<1>4. ASSUME NEW n \in Nodes, Reset(n)
      PROVE  e \in seen'[DestOf[p]]
  <2>1. n # DestOf[p]
    BY <1>4 DEF Reset, CacheSuffices, Inv, Typed, ResetCounts
  <2>. QED
    BY <1>1, <1>4, <2>1 DEF Reset, Inv, Typed, SeenTyped
<1>. QED
  BY <1>1, <1>2, <1>3, <1>4
  DEF Next, Lose, Send, Timeout, TransmissionFails, RepairSucceeds, Abandon, Retransmit,
      GiveUp

LEMMA NextDistinct == Inv /\ Distinct /\ [Next]_vars => Distinct'
<1>. SUFFICES ASSUME Inv, Distinct, [Next]_vars PROVE Distinct'
  OBVIOUS
<1>. SUFFICES ASSUME NEW n \in Nodes, NEW d \in seen'[n], NEW e \in seen'[n],
                     d.kind = "DATA", e.kind = "DATA",
                     d.origin = e.origin, d.seq = e.seq
              PROVE  d = e
  BY DEF Distinct, Entries
<1>1. \A x, y \in seen[n] :
        (x.kind = "DATA" /\ y.kind = "DATA" /\ x.origin = y.origin /\ x.seq = y.seq)
          => x = y
  BY DEF Distinct, Entries
<1>2. CASE seen'[n] \in SUBSET seen[n]
  BY <1>1, <1>2
<1>3. ASSUME NEW f \in air, Receive(f), ~UNCHANGED seen
      PROVE  d = e
  <2>1. f \in Frames /\ f.to \in Nodes /\ SeenTyped
    BY FrameNodes DEF Inv, Typed, AirTyped
  <2>2. ~IsDuplicate(f.to, f) /\ Record(f.to, f)
    BY <1>3, RecordsFresh
  <2>3. CASE n # f.to
    BY <1>2, <2>1, <2>2, <2>3, RecordAdds
  <2>4. CASE n = f.to
    <3>1. \A x \in seen'[n] : x \in seen[n] \/ x = Entry(f)
      BY <2>1, <2>2, <2>4, RecordAdds
    <3>2. \A x \in seen[n] : ~(x.kind = f.kind /\ x.origin = Origin(f) /\ x.seq = f.seq)
      BY <2>2, <2>4 DEF IsDuplicate, Entries
    <3>3. /\ Entry(f).kind = f.kind /\ Entry(f).origin = Origin(f) /\ Entry(f).seq = f.seq
      BY DEF Entry
    <3>. QED
      BY <1>1, <3>1, <3>2, <3>3
  <2>. QED
    BY <2>3, <2>4
<1>4. CASE ClockAdvances
  <2>1. d \in Aged(seen[n]) /\ e \in Aged(seen[n])
    BY <1>4 DEF ClockAdvances
  <2>2. PICK x \in seen[n] : d = [x EXCEPT !.age = @ + 1]
    BY <2>1 DEF Aged
  <2>3. PICK y \in seen[n] : e = [y EXCEPT !.age = @ + 1]
    BY <2>1 DEF Aged
  <2>4. x \in SeenEntry /\ y \in SeenEntry
    BY DEF Inv, Typed, SeenTyped
  <2>5. /\ x.kind = d.kind /\ x.origin = d.origin /\ x.seq = d.seq
        /\ y.kind = e.kind /\ y.origin = e.origin /\ y.seq = e.seq
    BY <2>2, <2>3, <2>4 DEF SeenEntry
  <2>. QED
    BY <1>1, <2>2, <2>3, <2>5
<1>5. ASSUME NEW m \in Nodes, Reset(m) PROVE seen'[n] \in SUBSET seen[n]
  BY <1>5 DEF Reset, Inv, Typed, SeenTyped
<1>6. CASE UNCHANGED seen
  BY <1>2, <1>6
<1>. QED
  BY <1>2, <1>3, <1>4, <1>5, <1>6
  DEF vars, Next, Lose, Send, Timeout, TransmissionFails, RepairSucceeds, Abandon,
      Retransmit, GiveUp

LEMMA InitDistinct == Init => Distinct
  BY DEF Init, Distinct, Entries

\* When every packet has its place in every duplicate cache and the data plane
\* of no destination is restarted, what a destination knows of its packets
\* leaves its cache by age only (enp_duplicate.c lines 133-178).
LEMMA NothingIsForgotten ==
  ASSUME CacheSuffices
  PROVE  Spec => NothingForgotten
<1>1. Inv /\ SeenIsMet /\ Distinct /\ [Next]_vars => [ClockAdvances \/ Keeps]_vars
  BY NothingEvicted
<1>. QED
  BY <1>1, InitInv, NextInv, InitSeen, NextSeen, InitDistinct, NextDistinct, PTL
  DEF Spec, NothingForgotten

-----------------------------------------------------------------------------
(***************************************************************************)
(* The data plane implements EndToEnd: a delivery is the first one of its  *)
(* packet, and a transaction that ends DELIVERED has been received.        *)
(***************************************************************************)
Verdict == [p \in Packets |-> IF Running(p) THEN "open" ELSE txn[p].state]
Places(p) == {k \in DOMAIN inbox[DestOf[p]] : inbox[DestOf[p]][k] = p}
Received == [p \in Packets |-> Cardinality(Places(p))]

LEMMA ReceivedIsOnce ==
  ASSUME Inv, OnceInv, NEW p \in Packets
  PROVE  Received[p] = IF Delivered(p) THEN 1 ELSE 0
<1>1. DestOf[p] \in Nodes
  BY PacketsAssumption
<1>2. CASE Delivered(p)
  <2>1. PICK k \in DOMAIN inbox[DestOf[p]] : inbox[DestOf[p]][k] = p
    BY <1>2 DEF Delivered
  <2>2. Places(p) = {k}
    BY <1>1, <2>1 DEF Places, OnceInv, DeliveredOnce
  <2>. QED
    BY <1>2, <2>2, FS_Singleton DEF Received
<1>3. CASE ~Delivered(p)
  <2>1. Places(p) = {}
    BY <1>3 DEF Places, Delivered
  <2>. QED
    BY <1>3, <2>1, FS_EmptySet DEF Received
<1>. QED
  BY <1>2, <1>3

\* A transaction reported DELIVERED has been received.
LEMMA AckMeansDelivered ==
  ASSUME Inv, NEW f \in air, f.kind = "ACK"
  PROVE  Delivered(f.packet)
  BY DEF Inv, AcksAreEarned, Earned, Delivered

\* Steps that change neither end's view.
LEMMA SameView ==
  ASSUME Inv, Inv', UNCHANGED inbox,
         \A p \in Packets : Running(p)' = Running(p) /\ (~Running(p) => txn'[p] = txn[p])
  PROVE  UNCHANGED <<Verdict, Received>>
<1>1. Verdict' = Verdict
  BY DEF Verdict
<1>2. Received' = Received
  BY DEF Received, Places
<1>. QED
  BY <1>1, <1>2

\* The three steps of EndToEnd, in terms of the two views.
LEMMA IsStart ==
  ASSUME NEW p \in Packets, Verdict[p] = "none",
         Verdict' = [Verdict EXCEPT ![p] = "open"], UNCHANGED Received
  PROVE  Abstract!Next
<1>1. Abstract!Start(p)
  BY DEF Abstract!Start, Verdict, Received, Places
<1>. QED
  BY <1>1 DEF Abstract!Next

LEMMA IsReceive ==
  ASSUME NEW p \in Packets, Verdict[p] # "none", Received[p] = 0,
         Received' = [Received EXCEPT ![p] = 1], UNCHANGED Verdict
  PROVE  Abstract!Next
<1>1. Abstract!Receive(p)
  BY DEF Abstract!Receive, Verdict, Received, Places
<1>. QED
  BY <1>1 DEF Abstract!Next

LEMMA IsFinish ==
  ASSUME NEW p \in Packets, Verdict[p] = "open",
         NEW v, v = "FAILED" \/ (v = "DELIVERED" /\ Received[p] > 0),
         Verdict' = [Verdict EXCEPT ![p] = v], UNCHANGED Received
  PROVE  Abstract!Next
<1>1. v \in {"FAILED"} \cup (IF Received[p] > 0 THEN {"DELIVERED"} ELSE {})
  OBVIOUS
<1>2. Abstract!Finish(p)
  BY <1>1 DEF Abstract!Finish, Verdict, Received, Places
<1>. QED
  BY <1>2 DEF Abstract!Next

LEMMA StepOfTheEnds ==
  ASSUME WindowSuffices, Known, Known', Next
  PROVE  Abstract!Next \/ UNCHANGED <<Verdict, Received>>
<1>. USE DEF Known
<1>1. txn \in [Packets -> [state : {"none", "WAITING_FOR_ACK", "REPAIR_PENDING",
                                    "DELIVERED", "FAILED"},
                           retry : 0..MaxRetries, since : Nat]]
  BY DEF Inv, Typed, TxnTyped
<1>2. ASSUME UNCHANGED <<txn, inbox>>
      PROVE  UNCHANGED <<Verdict, Received>>
  BY <1>2, SameView DEF Running, InState
<1>3. ASSUME NEW p \in Packets, Running(p), GiveUp(p)
      PROVE  Abstract!Next
  <2>1. txn' = [txn EXCEPT ![p] = [state |-> "FAILED", retry |-> txn[p].retry, since |-> 0]]
        /\ UNCHANGED inbox
    BY <1>3 DEF GiveUp, Move
  <2>2. Verdict[p] = "open" /\ Verdict' = [Verdict EXCEPT ![p] = "FAILED"]
    BY <1>1, <1>3, <2>1 DEF Verdict, Running, InState
  <2>3. UNCHANGED Received
    BY <2>1 DEF Received, Places
  <2>. QED
    BY <2>2, <2>3, IsFinish
<1>4. ASSUME NEW p \in Packets, Running(p), UNCHANGED inbox,
             NEW s, s = "WAITING_FOR_ACK" \/ s = "REPAIR_PENDING", NEW k, Move(p, s, k)
      PROVE  UNCHANGED <<Verdict, Received>>
  <2>1. txn' = [txn EXCEPT ![p] = [state |-> s, retry |-> k, since |-> 0]]
    BY <1>4 DEF Move
  <2>2. \A q \in Packets : Running(q)' = Running(q) /\ (~Running(q) => txn'[q] = txn[q])
    BY <1>1, <1>4, <2>1 DEF Running, InState
  <2>. QED
    BY <1>4, <2>2, SameView
<1>5. ASSUME NEW p \in Packets, Running(p), Retransmit(p)
      PROVE  UNCHANGED <<Verdict, Received>>
  BY <1>4, <1>5 DEF Retransmit
<1>6. ASSUME NEW p \in Packets, Send(p) PROVE Abstract!Next
  <2>1. txn' = [txn EXCEPT ![p] = [state |-> "WAITING_FOR_ACK", retry |-> 0, since |-> 0]]
        /\ UNCHANGED inbox /\ txn[p].state = "none"
    BY <1>6 DEF Send, Move, InState
  <2>2. Verdict[p] = "none" /\ Verdict' = [Verdict EXCEPT ![p] = "open"]
    BY <1>1, <2>1 DEF Verdict, Running, InState
  <2>3. UNCHANGED Received
    BY <2>1 DEF Received, Places
  <2>. QED
    BY <2>2, <2>3, IsStart
<1>7. ASSUME NEW p \in Packets, Timeout(p) \/ RepairSucceeds(p)
      PROVE  Abstract!Next \/ UNCHANGED <<Verdict, Received>>
  BY <1>3, <1>5, <1>7 DEF Timeout, RepairSucceeds, Running
<1>8. ASSUME NEW p \in Packets, Abandon(p) PROVE Abstract!Next
  BY <1>3, <1>8 DEF Abandon, Running
<1>9. ASSUME NEW p \in Packets, TransmissionFails(p)
      PROVE  UNCHANGED <<Verdict, Received>>
  BY <1>4, <1>9 DEF TransmissionFails, Running
<1>10. ASSUME NEW f \in air, DeliversData(f) PROVE Abstract!Next
  <2>1. f \in Frames /\ f.to \in Nodes /\ f.packet \in Packets /\ f.kind = "DATA"
    BY <1>10, FrameNodes DEF Inv, Typed, AirTyped, DeliversData
  <2>2. ~Delivered(f.packet) /\ DestOf[f.packet] = f.to
    BY <1>10, DeliveryIsFirst
  <2>3. UNCHANGED Verdict
    BY <1>10 DEF DeliversData, Verdict, Running, InState
  <2>4. Verdict[f.packet] # "none"
    <3>1. ~InState(f.packet, "none")
      BY <2>1 DEF OnceInv, Outlives, DataFrames
    <3>. QED
      BY <2>1, <3>1 DEF Verdict, Running, InState
  <2>5. /\ inbox[f.to] \in Seq(Packets)
        /\ inbox'[f.to] = Append(inbox[f.to], f.packet)
        /\ \A n \in Nodes : n # f.to => inbox'[n] = inbox[n]
    BY <1>10, <2>1 DEF DeliversData, Inv, Typed, InboxTyped
  <2>6. Places(f.packet)' = {Len(inbox[f.to]) + 1}
    <3>1. \A k \in DOMAIN inbox[f.to] : inbox[f.to][k] # f.packet
      BY <2>2 DEF Delivered
    <3>2. ASSUME NEW k
          PROVE  /\ k \in DOMAIN inbox'[f.to]
                 /\ inbox'[f.to][k] = f.packet
                 <=> k = Len(inbox[f.to]) + 1
      BY <2>1, <2>5, <3>1
    <3>. QED
      BY <2>2, <3>2 DEF Places
  <2>7. ASSUME NEW q \in Packets, q # f.packet PROVE Received'[q] = Received[q]
    <3>1. DestOf[q] \in Nodes
      BY PacketsAssumption
    <3>2. Places(q)' = Places(q)
      <4>1. CASE DestOf[q] # f.to
        BY <2>5, <3>1, <4>1 DEF Places
      <4>2. CASE DestOf[q] = f.to
        BY <2>1, <2>5, <2>7, <4>2 DEF Places
      <4>. QED
        BY <4>1, <4>2
    <3>. QED
      BY <3>2 DEF Received
  <2>8. Received[f.packet] = 0 /\ Received'[f.packet] = 1
    <3>1. Received[f.packet] = 0
      BY <2>1, <2>2, ReceivedIsOnce
    <3>2. Cardinality(Places(f.packet)') = 1
      BY <2>6, FS_Singleton
    <3>. QED
      BY <2>1, <3>1, <3>2 DEF Received
  <2>9. Received' = [Received EXCEPT ![f.packet] = 1]
    BY <2>1, <2>7, <2>8 DEF Received
  <2>. QED
    BY <2>1, <2>3, <2>4, <2>8, <2>9, IsReceive
<1>11. ASSUME NEW f \in air, DeliversAck(f)
       PROVE  Abstract!Next \/ UNCHANGED <<Verdict, Received>>
  <2>1. f.packet \in Packets /\ f.kind = "ACK" /\ UNCHANGED inbox
    BY <1>11, FrameNodes DEF Inv, Typed, AirTyped, DeliversAck
  <2>2. CASE UNCHANGED txn
    BY <1>2, <2>1, <2>2
  <2>3. CASE ~UNCHANGED txn
    <3>1. /\ txn[f.packet].state = "WAITING_FOR_ACK"
          /\ txn' = [txn EXCEPT ![f.packet].state = "DELIVERED", ![f.packet].since = 0]
      BY <1>11, <2>3 DEF DeliversAck
    <3>2. Verdict[f.packet] = "open" /\ Verdict' = [Verdict EXCEPT ![f.packet] = "DELIVERED"]
      BY <1>1, <2>1, <3>1 DEF Verdict, Running, InState
    <3>3. UNCHANGED Received
      BY <2>1 DEF Received, Places
    <3>4. Received[f.packet] > 0
      <4>1. Received[f.packet] = 1
        BY <2>1, AckMeansDelivered, ReceivedIsOnce
      <4>. QED
        BY <4>1
    <3>. QED
      BY <2>1, <3>2, <3>3, <3>4, IsFinish
  <2>. QED
    BY <2>2, <2>3
<1>12. CASE ClockAdvances
  BY <1>1, <1>12, SameView DEF ClockAdvances, Running, InState
<1>13. ASSUME NEW f \in air, Receive(f) \/ Lose(f)
       PROVE  Abstract!Next \/ UNCHANGED <<Verdict, Received>>
  BY <1>2, <1>10, <1>11, <1>13
  DEF Receive, Lose, ReplaysAck, Suppresses, LocalFails, Relays
<1>14. ASSUME NEW n \in Nodes, Reset(n) PROVE UNCHANGED <<Verdict, Received>>
  BY <1>2, <1>14 DEF Reset
<1>. QED
  BY <1>6, <1>7, <1>8, <1>9, <1>12, <1>13, <1>14 DEF Next

LEMMA InitOfTheEnds == Init => Abstract!Init
<1>. SUFFICES ASSUME Init PROVE Abstract!Init
  OBVIOUS
<1>1. Verdict = [p \in Packets |-> "none"]
  BY DEF Init, Verdict, Running, InState
<1>2. Received = [p \in Packets |-> 0]
  <2>1. ASSUME NEW p \in Packets PROVE Places(p) = {}
    BY PacketsAssumption DEF Init, Places
  <2>. QED
    BY <2>1, FS_EmptySet DEF Received
<1>. QED
  BY <1>1, <1>2 DEF Abstract!Init, Verdict, Received, Places

\* As long as the window is wide enough and no cache forgets DATA too early,
\* the two applications see the service EndToEnd describes: one reception, and
\* DELIVERED only after it (enp_data_plane.c lines 107-268).
THEOREM WindowGivesEndToEnd ==
  ASSUME WindowSuffices
  PROVE  Spec /\ NothingForgotten => ImplementsEndToEnd
<1>. DEFINE View == <<Verdict, Received>>
<1>1. Inv' /\ Known /\ [Next]_vars /\ [ClockAdvances \/ Keeps]_vars => OnceInv'
  BY NextOnce, StutterOnce DEF Known, vars
<1>2. Known /\ Known' /\ [Next]_vars => [Abstract!Next]_View
  <2>1. UNCHANGED vars => UNCHANGED View
    BY DEF vars, Verdict, Received, Places, Running, InState
  <2>. QED
    BY <2>1, StepOfTheEnds
<1>. QED
  BY <1>1, <1>2, InitInv, NextInv, InitSeen, NextSeen, InitOnce, InitOfTheEnds, PTL
  DEF Spec, NothingForgotten, Known, ImplementsEndToEnd, Abstract!Spec, Verdict, Received,
      Places

\* In a network that keeps the caches large enough for the packets it has
\* under way, the code needs no more than the window.
THEOREM Implements ==
  ASSUME WindowSuffices, CacheSuffices
  PROVE  Spec => ImplementsEndToEnd
<1>1. Spec => NothingForgotten
  BY NothingIsForgotten
<1>. QED
  BY <1>1, WindowGivesEndToEnd, PTL
=============================================================================
