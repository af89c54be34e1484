------------------------- MODULE ReliableRepair_proofs -------------------------
(***************************************************************************)
(* Proofs about module ReliableRepair, for any number of transactions,     *)
(* slots, queue lengths and retries and any routes: its types, the         *)
(* correspondence of correlations and transactions, the uniqueness of the  *)
(* transmission under way, the confinement of results and the promise of   *)
(* ReliableDelivery.                                                       *)
(***************************************************************************)
EXTENDS ReliableRepair, FiniteSetTheorems, WellFoundedInduction, TLAPS

Occurrence == [kind : {"result", "ack"}, frame : Frame, ok : BOOLEAN]

(***************************************************************************)
(* The strengthening.  A slot in progress serves a transaction of its own, *)
(* whose record counts the submissions of the slot.  A frame under way     *)
(* carries a correlation nobody else carries; a correlation in the table   *)
(* with that id belongs to the frame's transaction and is not under        *)
(* repair, and a transaction in progress with a frame under way holds it.  *)
(***************************************************************************)
Serves(s) ==
  /\ txn[s].send \in Sends
  /\ log[txn[s].send].status = "open"
  /\ log[txn[s].send].submits = txn[s].retry + 1

SlotsServe ==
  /\ \A s \in Slots : ~Active(s) => txn[s] = FreeSlot
  /\ \A s \in Slots : Active(s) => Serves(s)
  /\ \A s \in Slots : Waiting(s) => txn[s].repair = None
  /\ \A s, u \in Slots :
       Active(s) /\ Active(u) /\ txn[s].send = txn[u].send => s = u

FrameOK(f) ==
  /\ f.send = None => f.corr = None
  /\ f.send # None => /\ f.corr \in 1..(nextCorr - 1)
                      /\ log[f.send].status # "none"
  /\ \A i \in Slots : corr[i].id # None /\ corr[i].id = f.corr =>
       /\ txn[corr[i].handle].send = f.send
       /\ corr[i].repair = None
  /\ \A s \in Slots : Active(s) /\ txn[s].send = f.send =>
       \E i \in Slots : corr[i].handle = s /\ corr[i].id = f.corr

Framed == \A k \in Places : FrameOK(Outstanding[k])
Apart  == \A k, l \in Places :
            Outstanding[k].corr = Outstanding[l].corr
              /\ Outstanding[k].corr # None => k = l

Tables == SlotsServe /\ CorrelationsMatch
Inv == TypeOK /\ Tables /\ Framed /\ Apart

\* Every frame under way after the step was under way before it.
FramesStay ==
  \A k \in Places' : \E l \in Places : Outstanding'[k] = Outstanding[l]

-----------------------------------------------------------------------------
(***************************************************************************)
(* The transport: what its steps do to the frames under way.               *)
(***************************************************************************)
LEMMA Appended ==
  ASSUME NEW S, NEW q \in Seq(S), NEW e \in S
  PROVE  /\ Append(q, e) \in Seq(S)
         /\ Len(Append(q, e)) = Len(q) + 1
         /\ \A k \in 1..Len(q) : Append(q, e)[k] = q[k]
         /\ Append(q, e)[Len(q) + 1] = e
OBVIOUS

LEMMA PlacesType ==
  ASSUME TypeOK
  PROVE  /\ \A k \in Places : /\ k \in Int
                              /\ k > 0 => k \in DOMAIN txq
                              /\ k < 0 => -k \in DOMAIN evq
                              /\ Outstanding[k] \in Frame
         /\ \A k \in DOMAIN txq : k \in Places
         /\ \A k \in DOMAIN evq : evq[k].kind = "result" => -k \in Places
<1>1. /\ txq \in Seq(Frame) /\ inflight \in Frame /\ evq \in Seq(Occurrence)
  BY DEF TypeOK, Occurrence
<1>2. /\ Len(txq) \in Nat /\ DOMAIN txq = 1..Len(txq)
      /\ Len(evq) \in Nat /\ DOMAIN evq = 1..Len(evq)
      /\ \A k \in DOMAIN txq : txq[k] \in Frame
      /\ \A k \in DOMAIN evq : evq[k].frame \in Frame
  <2>1. /\ Len(txq) \in Nat /\ DOMAIN txq = 1..Len(txq)
        /\ Len(evq) \in Nat /\ DOMAIN evq = 1..Len(evq)
    BY <1>1
  <2>2. \A k \in DOMAIN txq : txq[k] \in Frame
    BY <1>1
  <2>3. \A k \in DOMAIN evq : evq[k] \in Occurrence
    BY <1>1
  <2>. QED
    BY <2>1, <2>2, <2>3 DEF Occurrence
<1>. QED
  BY <1>1, <1>2 DEF Places, Outstanding

LEMMA QueuesStay ==
  ASSUME TypeOK, Apart, txq' = txq, inflight' = inflight, evq' = evq
  PROVE  FramesStay /\ Apart'
<1>1. Places' = Places /\ Outstanding' = Outstanding
  BY DEF Places, Outstanding
<1>. QED
  BY <1>1 DEF FramesStay, Apart

\* Frames that stay are apart when no two of them come from the same place.
LEMMA ApartKept ==
  ASSUME Apart, NEW Source,
         \A k \in Places' : /\ Source[k] \in Places
                            /\ Outstanding'[k] = Outstanding[Source[k]],
         \A k, l \in Places' : Source[k] = Source[l] => k = l
  PROVE  FramesStay /\ Apart'
BY DEF FramesStay, Apart

LEMMA TxStartsFrames ==
  ASSUME TypeOK, Apart, TxStarts
  PROVE  FramesStay /\ Apart'
<1>. DEFINE Source == [k \in Int |-> IF k < 0 THEN k ELSE k + 1]
<1>1. /\ txq \in Seq(Frame) /\ txq # <<>> /\ Len(txq) \in Nat \ {0}
      /\ evq \in Seq(Occurrence) /\ Len(evq) \in Nat
  BY DEF TxStarts, TypeOK, Occurrence
<1>2. /\ Len(txq') = Len(txq) - 1
      /\ \A k \in 1..Len(txq') : txq'[k] = txq[k + 1]
      /\ inflight' = txq[1] /\ inflight = NoFrame
      /\ evq' = evq
  BY <1>1 DEF TxStarts, transport
<1>3. \A k \in Places' : k \in Int
  BY <1>1, <1>2 DEF Places
<1>4. \A k \in Places' : /\ Source[k] \in Places
                         /\ Outstanding'[k] = Outstanding[Source[k]]
  BY <1>1, <1>2 DEF Places, Outstanding
<1>5. \A k, l \in Places' : Source[k] = Source[l] => k = l
  BY <1>3
<1>. HIDE DEF Source
<1>. QED
  BY <1>4, <1>5, ApartKept

LEMMA TxRefusedFrames ==
  ASSUME TypeOK, Apart, TxRefused
  PROVE  FramesStay /\ Apart'
<1>. DEFINE Source == [k \in Int |-> IF k > 0 THEN k + 1
                               ELSE IF k = -(Len(evq) + 1) THEN 1 ELSE k]
<1>1. /\ txq \in Seq(Frame) /\ txq # <<>> /\ Len(txq) \in Nat \ {0}
      /\ evq \in Seq(Occurrence) /\ Len(evq) \in Nat
  BY DEF TxRefused, TypeOK, Occurrence
<1>2. /\ Len(txq') = Len(txq) - 1
      /\ \A k \in 1..Len(txq') : txq'[k] = txq[k + 1]
      /\ inflight' = NoFrame /\ inflight = NoFrame
  BY <1>1 DEF TxRefused
<1>3. CASE evq' = evq
  <2>1. \A k \in Places' : /\ Source[k] \in Places
                           /\ Outstanding'[k] = Outstanding[Source[k]]
    BY <1>1, <1>2, <1>3 DEF Places, Outstanding
  <2>2. \A k, l \in Places' : Source[k] = Source[l] => k = l
    BY <1>1, <1>2, <1>3 DEF Places
  <2>. HIDE DEF Source
  <2>. QED
    BY <2>1, <2>2, ApartKept
<1>4. CASE evq' = Append(evq, Result(Head(txq), FALSE))
  <2>0. /\ Len(evq') = Len(evq) + 1
        /\ \A k \in 1..Len(evq) : evq'[k] = evq[k]
        /\ evq'[Len(evq) + 1] = Result(txq[1], FALSE)
    <3>1. Head(txq) = txq[1]
      BY <1>1
    <3>2. Result(txq[1], FALSE) \in Occurrence
      BY <1>1 DEF Occurrence, Result
    <3>. QED
      BY <1>1, <1>4, <3>1, <3>2, Appended DEF Result
  <2>1. \A k \in Places' : /\ Source[k] \in Places
                           /\ Outstanding'[k] = Outstanding[Source[k]]
    <3>1. \A k \in Places' : k = -(Len(evq) + 1) =>
            /\ Outstanding'[k] = evq'[-k].frame
            /\ -k = Len(evq) + 1
      BY <1>1, <2>0 DEF Places, Outstanding
    <3>2. \A k \in Places' : k = -(Len(evq) + 1) =>
            /\ Source[k] = 1 /\ 1 \in Places
            /\ Outstanding[1] = txq[1]
            /\ Outstanding'[k] = txq[1]
      BY <1>1, <1>2, <2>0, <3>1 DEF Places, Outstanding, Result
    <3>3. \A k \in Places' : k # -(Len(evq) + 1) =>
            /\ Source[k] \in Places
            /\ Outstanding'[k] = Outstanding[Source[k]]
      <4>1. \A k \in Places' : k \in Int /\ k # 0
        BY <1>1, <1>2, <2>0 DEF Places
      <4>2. \A k \in Places' : k > 0 => /\ Source[k] = k + 1
                                       /\ k + 1 \in Places
                                       /\ Outstanding[k + 1] = txq[k + 1]
                                       /\ Outstanding'[k] = txq[k + 1]
        BY <1>1, <1>2, <2>0 DEF Places, Outstanding
      <4>3. \A k \in Places' : k < 0 /\ k # -(Len(evq) + 1) =>
               Source[k] = k /\ k \in Places /\ Outstanding'[k] = Outstanding[k]
        <5>1. SUFFICES ASSUME NEW k \in Places', k < 0, k # -(Len(evq) + 1)
                       PROVE  /\ Source[k] = k
                              /\ k \in Places
                              /\ Outstanding'[k] = Outstanding[k]
          OBVIOUS
        <5>2. /\ k \in Int /\ -k \in 1..Len(evq)
              /\ evq'[-k].kind = "result" /\ evq'[-k] = evq[-k]
              /\ Outstanding'[k] = evq'[-k].frame
          BY <1>1, <5>1, <2>0 DEF Places, Outstanding
        <5>3. k \in Places
          BY <1>1, <5>1, <5>2 DEF Places
        <5>. QED
          BY <5>1, <5>2, <5>3 DEF Outstanding
      <4>. HIDE DEF Source
      <4>. QED
        BY <4>1, <4>2, <4>3
    <3>. QED
      BY <3>2, <3>3
  <2>2. \A k, l \in Places' : Source[k] = Source[l] => k = l
    BY <1>1, <1>2, <2>0 DEF Places
  <2>. HIDE DEF Source
  <2>. QED
    BY <2>1, <2>2, ApartKept
<1>. QED
  BY <1>3, <1>4 DEF TxRefused, Post

LEMMA TxEndsFrames ==
  ASSUME TypeOK, Apart, NEW ok \in BOOLEAN, TxEnds(ok)
  PROVE  FramesStay /\ Apart'
<1>. DEFINE Source == [k \in Int |-> IF k = -(Len(evq) + 1) THEN 0 ELSE k]
<1>1. /\ txq \in Seq(Frame) /\ Len(txq) \in Nat
      /\ evq \in Seq(Occurrence) /\ Len(evq) \in Nat
  BY DEF TypeOK, Occurrence
<1>2. /\ txq' = txq
      /\ inflight' = NoFrame /\ inflight # NoFrame
  BY <1>1 DEF TxEnds
<1>3. CASE evq' = evq
  <2>1. \A k \in Places' : /\ Source[k] \in Places
                           /\ Outstanding'[k] = Outstanding[Source[k]]
    BY <1>1, <1>2, <1>3 DEF Places, Outstanding
  <2>2. \A k, l \in Places' : Source[k] = Source[l] => k = l
    BY <1>1, <1>2, <1>3 DEF Places
  <2>. HIDE DEF Source
  <2>. QED
    BY <2>1, <2>2, ApartKept
<1>4. CASE evq' = Append(evq, Result(inflight, ok))
  <2>0. /\ Len(evq') = Len(evq) + 1
        /\ \A k \in 1..Len(evq) : evq'[k] = evq[k]
        /\ evq'[Len(evq) + 1] = Result(inflight, ok)
    BY <1>1, <1>4
  <2>1. \A k \in Places' : /\ Source[k] \in Places
                           /\ Outstanding'[k] = Outstanding[Source[k]]
    <3>1. \A k \in Places' : k = -(Len(evq) + 1) =>
            /\ Outstanding'[k] = evq'[-k].frame
            /\ -k = Len(evq) + 1
      BY <1>1, <2>0 DEF Places, Outstanding
    <3>2. \A k \in Places' : k = -(Len(evq) + 1) =>
            /\ Source[k] = 0 /\ 0 \in Places
            /\ Outstanding[0] = inflight
            /\ Outstanding'[k] = inflight
      BY <1>1, <1>2, <2>0, <3>1 DEF Places, Outstanding, Result
    <3>3. \A k \in Places' : k # -(Len(evq) + 1) =>
            /\ Source[k] \in Places
            /\ Outstanding'[k] = Outstanding[Source[k]]
      BY <1>1, <1>2, <2>0 DEF Places, Outstanding
    <3>. QED
      BY <3>2, <3>3
  <2>2. \A k, l \in Places' : Source[k] = Source[l] => k = l
    <3>1. 0 \notin Places'
      BY <1>2 DEF Places
    <3>2. \A k \in Places' : k \in Int
      BY <1>1, <1>2, <2>0 DEF Places
    <3>. QED
      BY <3>1, <3>2
  <2>. HIDE DEF Source
  <2>. QED
    BY <2>1, <2>2, ApartKept
<1>. QED
  BY <1>3, <1>4 DEF TxEnds, Post

LEMMA AckArrivesFrames ==
  ASSUME TypeOK, Apart, NEW t \in Sends, AckArrives(t)
  PROVE  FramesStay /\ Apart'
<1>1. /\ txq \in Seq(Frame) /\ Len(txq) \in Nat
      /\ evq \in Seq(Occurrence) /\ Len(evq) \in Nat
      /\ txq' = txq /\ inflight' = inflight
  BY DEF TypeOK, Occurrence, AckArrives
<1>2. CASE evq' = Append(evq, Ack(t))
  <2>1. /\ Len(evq') = Len(evq) + 1
        /\ \A k \in 1..Len(evq) : evq'[k] = evq[k]
        /\ evq'[Len(evq) + 1] = Ack(t)
    BY <1>1, <1>2
  <2>2. \A k \in Places' : k \in Places /\ Outstanding'[k] = Outstanding[k]
    <3>1. \A k \in Places' : k # -(Len(evq) + 1)
      <4>1. -(-(Len(evq) + 1)) = Len(evq) + 1 /\ -(Len(evq) + 1) < 0
        BY <1>1
      <4>2. Ack(t).kind # "result"
        BY DEF Ack
      <4>. QED
        BY <2>1, <4>1, <4>2 DEF Places
    <3>. QED
      BY <1>1, <2>1, <3>1 DEF Places, Outstanding
  <2>. QED
    BY <2>2 DEF FramesStay, Apart
<1>. QED
  BY <1>1, <1>2, QueuesStay DEF AckArrives, Post

\* One more frame at the end of the transmission queue.
LEMMA QueuedFrames ==
  ASSUME TypeOK, Apart, NEW f \in Frame, txq' = Append(txq, f),
         inflight' = inflight, evq' = evq,
         f.corr = None \/ \A k \in Places : Outstanding[k].corr # f.corr
  PROVE  /\ \A k \in Places' : \/ Outstanding'[k] = f
                               \/ \E l \in Places : Outstanding'[k] = Outstanding[l]
         /\ Apart'
<1>1. /\ txq \in Seq(Frame) /\ Len(txq) \in Nat
      /\ evq \in Seq(Occurrence) /\ Len(evq) \in Nat
  BY DEF TypeOK, Occurrence
<1>2. /\ Len(txq') = Len(txq) + 1
      /\ \A k \in 1..Len(txq) : txq'[k] = txq[k]
      /\ txq'[Len(txq) + 1] = f
  BY <1>1
<1>3. \A k \in Places' : \/ k \in Places /\ Outstanding'[k] = Outstanding[k]
                         \/ k = Len(txq) + 1 /\ Outstanding'[k] = f
  BY <1>1, <1>2 DEF Places, Outstanding
<1>. QED
  BY <1>3 DEF Apart

\* The worker takes the first event: if it is a result, its frame is gone.
LEMMA WorkerFrames ==
  ASSUME TypeOK, Apart, evq # <<>>, evq' = Tail(evq),
         txq' = txq, inflight' = inflight
  PROVE  /\ FramesStay /\ Apart'
         /\ Event \in Occurrence
         /\ Event.kind = "result" =>
              /\ \E l \in Places : Outstanding[l] = Event.frame
              /\ Event.frame.corr # None =>
                   \A k \in Places' : Outstanding'[k].corr # Event.frame.corr
<1>. DEFINE Source == [k \in Int |-> IF k < 0 THEN k - 1 ELSE k]
<1>1. /\ txq \in Seq(Frame) /\ Len(txq) \in Nat
      /\ evq \in Seq(Occurrence) /\ Len(evq) \in Nat \ {0}
  BY DEF TypeOK, Occurrence
<1>2. /\ Len(evq') = Len(evq) - 1
      /\ \A k \in 1..Len(evq') : evq'[k] = evq[k + 1]
      /\ Event = evq[1] /\ Event \in Occurrence
  BY <1>1 DEF Event
<1>3. \A k \in Places' : /\ Source[k] \in Places /\ Source[k] # -1
                         /\ Outstanding'[k] = Outstanding[Source[k]]
  BY <1>1, <1>2 DEF Places, Outstanding
<1>4. \A k, l \in Places' : Source[k] = Source[l] => k = l
  BY <1>1, <1>2 DEF Places
<1>5. Event.kind = "result" => -1 \in Places /\ Outstanding[-1] = Event.frame
  BY <1>1, <1>2 DEF Places, Outstanding
<1>. HIDE DEF Source
<1>6. FramesStay /\ Apart'
  BY <1>3, <1>4, ApartKept
<1>7. Event.kind = "result" /\ Event.frame.corr # None =>
        \A k \in Places' : Outstanding'[k].corr # Event.frame.corr
  BY <1>3, <1>5 DEF Apart
<1>. QED
  BY <1>2, <1>5, <1>6, <1>7

-----------------------------------------------------------------------------
(***************************************************************************)
(* The two tables: each way they change keeps them in step with each other *)
(* and with the frames under way.                                          *)
(***************************************************************************)
LEMMA CorrFacts ==
  ASSUME TypeOK, CorrelationsMatch, NEW i \in Slots
  PROVE  /\ corr[i].id = None <=> corr[i] = NoCorr
         /\ corr[i].handle = None <=> corr[i] = NoCorr
         /\ 0 \notin Slots
BY SizesAssumption DEF CorrelationsMatch, TypeOK, Correlation, NoCorr, None, Slots

\* A slot that is given up takes its correlations with it.
LEMMA ConcludeTables ==
  ASSUME TypeOK, Tables, NEW s \in Slots, Active(s),
         txn' = [txn EXCEPT ![s] = FreeSlot],
         corr' = ReleaseHandle(corr, s),
         nextCorr' \in {nextCorr, nextCorr + 1},
         nextRepair' \in {nextRepair, nextRepair + 1},
         \A u \in Sends : u # txn[s].send => log'[u] = log[u],
         log'[txn[s].send].status # "none"
  PROVE  /\ txn' \in [Slots -> Transaction] /\ corr' \in [Slots -> Correlation]
         /\ Tables'
         /\ \A f \in Frame : FrameOK(f) => FrameOK(f)'
<1>1. /\ txn \in [Slots -> Transaction] /\ corr \in [Slots -> Correlation]
      /\ nextCorr \in Nat \ {0} /\ nextRepair \in Nat \ {0}
  BY DEF TypeOK
<1>2. /\ FreeSlot \in Transaction /\ NoCorr \in Correlation
      /\ FreeSlot.state = "INVALID" /\ FreeSlot.repair = None
  BY SizesAssumption DEF FreeSlot, Transaction, NoCorr, Correlation, None
<1>3. /\ txn' \in [Slots -> Transaction] /\ corr' \in [Slots -> Correlation]
      /\ txn'[s] = FreeSlot
      /\ \A u \in Slots \ {s} : txn'[u] = txn[u]
      /\ \A i \in Slots : corr'[i] = IF corr[i].handle = s THEN NoCorr ELSE corr[i]
  BY <1>1, <1>2 DEF ReleaseHandle
<1>4. /\ ~Waiting(s)' /\ ~Suspended(s)' /\ ~Active(s)'
      /\ \A u \in Slots \ {s} : /\ Waiting(u)' <=> Waiting(u)
                                /\ Suspended(u)' <=> Suspended(u)
                                /\ Active(u)' <=> Active(u)
  BY <1>2, <1>3 DEF Waiting, Suspended, Active
<1>5. \A i \in Slots : /\ corr[i].id = None <=> corr[i] = NoCorr
                       /\ corr[i].handle = None <=> corr[i] = NoCorr
  BY CorrFacts DEF Tables
<1>6. SlotsServe'
  BY <1>3, <1>4, SizesAssumption DEF Tables, SlotsServe, Serves, FreeSlot
<1>7. CorrelationsMatch'
  <2>1. \A i \in Slots : corr'[i] # NoCorr => corr'[i] = corr[i] /\ corr[i].handle # s
    BY <1>3
  <2>2. \A i \in Slots : corr'[i] # NoCorr =>
          /\ corr'[i].id \in 1..(nextCorr' - 1)
          /\ corr'[i].handle \in Slots
          /\ Active(corr[i].handle)'
          /\ corr'[i].repair = txn'[corr'[i].handle].repair
    <3>1. SUFFICES ASSUME NEW i \in Slots, corr'[i] # NoCorr
                   PROVE  /\ corr'[i].id \in 1..(nextCorr' - 1)
                          /\ corr'[i].handle \in Slots
                          /\ Active(corr[i].handle)'
                          /\ corr'[i].repair = txn'[corr'[i].handle].repair
      OBVIOUS
    <3>2. /\ corr'[i] = corr[i] /\ corr[i].handle # s
          /\ corr[i].id \in 1..(nextCorr - 1)
          /\ corr[i].handle \in Slots
          /\ Active(corr[i].handle)
          /\ corr[i].repair = txn[corr[i].handle].repair
      BY <3>1, <2>1 DEF Tables, CorrelationsMatch
    <3>3. Active(corr[i].handle)'
      BY <3>2, <1>3, <1>4 DEF Active, Waiting, Suspended
    <3>. QED
      BY <3>2, <3>3, <1>1, <1>3
  <2>3. \A i \in Slots : corr'[i] # NoCorr =>
          \A j \in Slots : j # i => /\ corr'[j].id # corr'[i].id
                                    /\ corr'[j].handle # corr'[i].handle
    <3>1. SUFFICES ASSUME NEW i \in Slots, corr'[i] # NoCorr,
                          NEW j \in Slots, j # i
                   PROVE  /\ corr'[j].id # corr'[i].id
                          /\ corr'[j].handle # corr'[i].handle
      OBVIOUS
    <3>2. corr'[i] = corr[i] /\ corr[i].id # None /\ corr[i].handle # None
      BY <2>1, <3>1, <1>5
    <3>3. CASE corr'[j] = NoCorr
      BY <3>2, <3>3 DEF NoCorr
    <3>4. CASE corr'[j] # NoCorr
      BY <2>1, <3>2, <3>4, <3>1 DEF Tables, CorrelationsMatch
    <3>. QED
      BY <3>3, <3>4
  <2>4. \A u \in Slots : Suspended(u)' <=> txn'[u].repair \in Requested'
    <3>1. TAKE u \in Slots
    <3>2. CASE u = s
      BY <3>2, <1>1, <1>2, <1>3, <1>4 DEF Requested, None
    <3>3. CASE u # s
      <4>1. ~Suspended(u) => txn[u].repair = None
        BY DEF Tables, SlotsServe, Active, FreeSlot
      <4>. QED
        BY <3>3, <4>1, <1>1, <1>3, <1>4
        DEF Requested, Tables, CorrelationsMatch, Transaction, None
    <3>. QED
      BY <3>2, <3>3
  <2>5. \A u \in Slots : Suspended(u)' => \E i \in Slots : corr'[i].handle = u
    BY <1>3, <1>4 DEF Tables, CorrelationsMatch
  <2>6. \A u, v \in Slots :
          Suspended(u)' /\ txn'[v].repair = txn'[u].repair => v = u
    BY <2>4, <1>1, <1>2, <1>3, <1>4 DEF Tables, CorrelationsMatch, Requested, None
  <2>. QED
    BY <2>2, <2>3, <2>4, <2>5, <2>6 DEF CorrelationsMatch
<1>8. \A f \in Frame : FrameOK(f) => FrameOK(f)'
  <2>1. SUFFICES ASSUME NEW f \in Frame, FrameOK(f)
                 PROVE  FrameOK(f)'
    OBVIOUS
  <2>2. f.send \in Sends \cup {None} /\ f.corr \in Nat
    BY DEF Frame
  <2>3. f.send # None => /\ f.corr \in 1..(nextCorr' - 1)
                         /\ log'[f.send].status # "none"
    BY <2>1, <2>2, <1>1 DEF FrameOK
  <2>4. \A i \in Slots : corr'[i].id # None /\ corr'[i].id = f.corr =>
          /\ txn'[corr'[i].handle].send = f.send
          /\ corr'[i].repair = None
    <3>1. SUFFICES ASSUME NEW i \in Slots, corr'[i].id # None, corr'[i].id = f.corr
                   PROVE  /\ txn'[corr'[i].handle].send = f.send
                          /\ corr'[i].repair = None
      OBVIOUS
    <3>2. corr'[i] = corr[i] /\ corr[i].handle # s /\ corr[i] # NoCorr
      BY <3>1, <1>3 DEF NoCorr
    <3>3. corr[i].handle \in Slots
      BY <3>2 DEF Tables, CorrelationsMatch
    <3>. QED
      BY <2>1, <3>1, <3>2, <3>3, <1>3 DEF FrameOK
  <2>5. \A u \in Slots : Active(u)' /\ txn'[u].send = f.send =>
          \E i \in Slots : corr'[i].handle = u /\ corr'[i].id = f.corr
    BY <2>1, <1>3, <1>4 DEF FrameOK
  <2>. QED
    BY <2>1, <2>3, <2>4, <2>5 DEF FrameOK
<1>. QED
  BY <1>3, <1>6, <1>7, <1>8 DEF Tables

\* An accepted submission: the slot waits, with a correlation of its own, the
\* entry free of the table c.  A correlation it had before was under repair
\* and is gone.
AcceptedStep(s, t, retry, c, free) ==
  /\ c[free].id = None
  /\ \A j \in Slots : c[j].handle # s
  /\ \A j \in Slots : \/ c[j] = corr[j]
                      \/ /\ c[j] = NoCorr /\ corr[j].handle = s
                         /\ corr[j].repair # None
  /\ corr' = [c EXCEPT ![free] = [id |-> nextCorr, handle |-> s,
                                  repair |-> None, hop |-> route[DestOf[t]]]]
  /\ nextCorr' = nextCorr + 1
  /\ nextRepair' = nextRepair
  /\ txn' = [txn EXCEPT ![s] = [state |-> "WAITING_FOR_ACK", send |-> t,
                                retry |-> retry, repair |-> None]]
  /\ \/ Active(s) /\ txn[s].send = t
     \/ ~Active(s) /\ log[t].status = "none"
  /\ \A u \in Sends \ {t} : log'[u] = log[u]
  /\ log'[t].status = "open"
  /\ log'[t].submits = retry + 1

LEMMA AcceptTables ==
  ASSUME TypeOK, Tables, NEW s \in Slots, NEW t \in Sends,
         NEW retry \in 0..MaxRetries, NEW c \in [Slots -> Correlation],
         NEW free \in Slots, AcceptedStep(s, t, retry, c, free)
  PROVE  /\ txn' \in [Slots -> Transaction] /\ corr' \in [Slots -> Correlation]
         /\ Tables'
         /\ \A f \in Frame : FrameOK(f) => FrameOK(f)' /\ f.corr # nextCorr
         /\ \A f \in Frame : f.corr = nextCorr /\ f.send = t => FrameOK(f)'
<1>. USE DEF AcceptedStep
<1>1. /\ txn \in [Slots -> Transaction] /\ corr \in [Slots -> Correlation]
      /\ nextCorr \in Nat \ {0} /\ nextRepair \in Nat \ {0}
      /\ route[DestOf[t]] \in Hops \cup {NoHop}
  BY RoutesAssumption DEF TypeOK
<1>2. \A i \in Slots : /\ corr[i].id = None <=> corr[i] = NoCorr
                       /\ corr[i].handle = None <=> corr[i] = NoCorr
  BY CorrFacts DEF Tables
<1>3. 0 \notin Slots
  BY DEF Slots
<1>4. /\ txn'[s] = [state |-> "WAITING_FOR_ACK", send |-> t, retry |-> retry,
                    repair |-> None]
      /\ txn'[s] \in Transaction
      /\ \A u \in Slots \ {s} : txn'[u] = txn[u]
      /\ txn' \in [Slots -> Transaction]
  BY <1>1 DEF Transaction, None
<1>5. /\ corr'[free] = [id |-> nextCorr, handle |-> s, repair |-> None,
                        hop |-> route[DestOf[t]]]
      /\ corr'[free] \in Correlation
      /\ \A i \in Slots \ {free} : corr'[i] = c[i]
      /\ corr' \in [Slots -> Correlation]
  BY <1>1 DEF Correlation, None
<1>6. \A i \in Slots \ {free} : corr'[i] # NoCorr =>
        corr'[i] = corr[i] /\ corr[i].handle # s /\ corr[i] # NoCorr
  BY <1>5
<1>7. /\ Waiting(s)' /\ ~Suspended(s)' /\ Active(s)'
      /\ \A u \in Slots \ {s} : /\ Waiting(u)' <=> Waiting(u)
                                /\ Suspended(u)' <=> Suspended(u)
                                /\ Active(u)' <=> Active(u)
  BY <1>4 DEF Waiting, Suspended, Active
<1>8. \A u \in Slots \ {s} : Active(u) => txn[u].send # t
  BY DEF Tables, SlotsServe, Serves
<1>9. SlotsServe'
  <2>1. \A u \in Slots : Active(u)' => Serves(u)'
    <3>1. Serves(s)'
      BY <1>4 DEF Serves
    <3>2. \A u \in Slots \ {s} : Active(u) => Serves(u)'
      BY <1>4, <1>8 DEF Serves, Tables, SlotsServe
    <3>. QED
      BY <1>7, <3>1, <3>2
  <2>2. \A u \in Slots : ~Active(u)' => txn'[u] = FreeSlot
    BY <1>4, <1>7 DEF Tables, SlotsServe
  <2>3. \A u \in Slots : Waiting(u)' => txn'[u].repair = None
    BY <1>4, <1>7 DEF Tables, SlotsServe
  <2>4. \A u, v \in Slots :
          Active(u)' /\ Active(v)' /\ txn'[u].send = txn'[v].send => u = v
    BY <1>4, <1>7, <1>8 DEF Tables, SlotsServe
  <2>. QED
    BY <2>1, <2>2, <2>3, <2>4 DEF SlotsServe
<1>10. CorrelationsMatch'
  <2>1. \A i \in Slots : corr'[i] # NoCorr =>
          /\ corr'[i].id \in 1..(nextCorr' - 1)
          /\ corr'[i].handle \in Slots
          /\ Active(corr[i].handle)' \/ i = free
          /\ corr'[i].repair = txn'[corr'[i].handle].repair
    <3>1. SUFFICES ASSUME NEW i \in Slots \ {free}, corr'[i] # NoCorr
                   PROVE  /\ corr'[i].id \in 1..(nextCorr' - 1)
                          /\ corr'[i].handle \in Slots
                          /\ Active(corr[i].handle)'
                          /\ corr'[i].repair = txn'[corr'[i].handle].repair
      BY <1>1, <1>4, <1>5
    <3>2. /\ corr'[i] = corr[i] /\ corr[i].handle # s
          /\ corr[i].id \in 1..(nextCorr - 1)
          /\ corr[i].handle \in Slots
          /\ Active(corr[i].handle)
          /\ corr[i].repair = txn[corr[i].handle].repair
      BY <3>1, <1>6 DEF Tables, CorrelationsMatch
    <3>3. Active(corr[i].handle)'
      BY <3>2, <1>4, <1>7 DEF Active, Waiting, Suspended
    <3>. QED
      BY <3>2, <3>3, <1>1, <1>4
  <2>2. \A i \in Slots : corr'[i] # NoCorr =>
          txn'[corr'[i].handle].state \in {"WAITING_FOR_ACK", "REPAIR_PENDING"}
    <3>1. \A i \in Slots \ {free} : corr'[i] # NoCorr =>
            txn'[corr'[i].handle].state \in {"WAITING_FOR_ACK", "REPAIR_PENDING"}
      BY <1>4, <1>6 DEF Tables, CorrelationsMatch, Active, Waiting, Suspended
    <3>. QED
      BY <3>1, <1>4, <1>5
  <2>3. \A i \in Slots : corr'[i] # NoCorr =>
          \A j \in Slots : j # i => /\ corr'[j].id # corr'[i].id
                                    /\ corr'[j].handle # corr'[i].handle
    <3>1. SUFFICES ASSUME NEW i \in Slots, corr'[i] # NoCorr,
                          NEW j \in Slots, j # i
                   PROVE  /\ corr'[j].id # corr'[i].id
                          /\ corr'[j].handle # corr'[i].handle
      OBVIOUS
    <3>2. \A k \in Slots \ {free} : corr'[k] # NoCorr =>
            /\ corr'[k] = corr[k] /\ corr[k].handle \in Slots \ {s}
            /\ corr[k].id \in 1..(nextCorr - 1)
      BY <1>6 DEF Tables, CorrelationsMatch
    <3>3. CASE corr'[j] = NoCorr
      <4>1. corr'[i].id # None /\ corr'[i].handle # None
        BY <3>1, <3>2, <1>1, <1>3, <1>5 DEF None
      <4>. QED
        BY <4>1, <3>3 DEF NoCorr
    <3>4. CASE corr'[j] # NoCorr /\ i # free /\ j # free
      BY <3>1, <3>4, <1>6 DEF Tables, CorrelationsMatch
    <3>5. CASE corr'[j] # NoCorr /\ (i = free \/ j = free)
      BY <3>1, <3>2, <3>5, <1>1, <1>5
    <3>. QED
      BY <3>3, <3>4, <3>5
  <2>4. \A u \in Slots : Suspended(u)' <=> txn'[u].repair \in Requested'
    <3>1. TAKE u \in Slots
    <3>2. CASE u = s
      BY <3>2, <1>1, <1>4, <1>7 DEF Requested, None
    <3>3. CASE u # s
      BY <3>3, <1>1, <1>4, <1>7 DEF Requested, Tables, CorrelationsMatch
    <3>. QED
      BY <3>2, <3>3
  <2>5. \A u \in Slots : Suspended(u)' => \E i \in Slots : corr'[i].handle = u
    <3>1. SUFFICES ASSUME NEW u \in Slots, Suspended(u)'
                   PROVE  \E i \in Slots : corr'[i].handle = u
      OBVIOUS
    <3>2. u # s /\ Suspended(u)
      BY <3>1, <1>7
    <3>3. PICK i \in Slots : corr[i].handle = u
      BY <3>2 DEF Tables, CorrelationsMatch
    <3>4. c[i] = corr[i] /\ corr[i] # NoCorr
      BY <3>2, <3>3, <1>2, <1>3 DEF None
    <3>5. i # free
      BY <3>4, <1>2
    <3>. QED
      BY <3>3, <3>4, <3>5, <1>5
  <2>6. \A u, v \in Slots :
          Suspended(u)' /\ txn'[v].repair = txn'[u].repair => v = u
    <3>1. SUFFICES ASSUME NEW u \in Slots, NEW v \in Slots, Suspended(u)',
                          txn'[v].repair = txn'[u].repair
                   PROVE  v = u
      OBVIOUS
    <3>2. Suspended(v)'
      BY <3>1, <2>4
    <3>. QED
      BY <3>1, <3>2, <1>4, <1>7 DEF Tables, CorrelationsMatch
  <2>7. \A i \in Slots : corr'[i] # NoCorr => Active(corr[i].handle)' \/ i = free
    BY <2>1
  <2>. QED
    BY <2>1, <2>2, <2>3, <2>4, <2>5, <2>6
    DEF CorrelationsMatch, Active, Waiting, Suspended
<1>11. \A f \in Frame : FrameOK(f) => FrameOK(f)' /\ f.corr # nextCorr
  <2>1. SUFFICES ASSUME NEW f \in Frame, FrameOK(f)
                 PROVE  FrameOK(f)' /\ f.corr # nextCorr
    OBVIOUS
  <2>2. f.send \in Sends \cup {None} /\ f.corr \in Nat /\ None \notin Sends
    BY DEF Frame, None, Sends
  <2>3. f.corr \in 0..(nextCorr - 1)
    BY <2>1, <2>2, <1>1 DEF FrameOK, None
  <2>4. f.send # t
    <3>1. SUFFICES ASSUME f.send = t PROVE FALSE
      OBVIOUS
    <3>2. log[t].status # "none"
      BY <2>1, <2>2, <3>1 DEF FrameOK
    <3>3. PICK i \in Slots : corr[i].handle = s /\ corr[i].id = f.corr
      BY <2>1, <3>1, <3>2 DEF FrameOK
    <3>4. corr[i].repair # None
      BY <3>3
    <3>5. corr[i].id # None
      BY <3>3, <1>2, <1>3 DEF None
    <3>. QED
      BY <2>1, <3>3, <3>4, <3>5 DEF FrameOK
  <2>5. f.send # None => /\ f.corr \in 1..(nextCorr' - 1)
                         /\ log'[f.send].status # "none"
    BY <2>1, <2>2, <2>4, <1>1 DEF FrameOK
  <2>6. \A i \in Slots : corr'[i].id # None /\ corr'[i].id = f.corr =>
          /\ txn'[corr'[i].handle].send = f.send
          /\ corr'[i].repair = None
    <3>1. SUFFICES ASSUME NEW i \in Slots, corr'[i].id # None, corr'[i].id = f.corr
                   PROVE  /\ txn'[corr'[i].handle].send = f.send
                          /\ corr'[i].repair = None
      OBVIOUS
    <3>2. i # free
      BY <3>1, <2>3, <1>1, <1>5
    <3>3. corr'[i] = corr[i] /\ corr[i].handle # s /\ corr[i] # NoCorr
      BY <3>1, <3>2, <1>6 DEF NoCorr
    <3>4. corr[i].handle \in Slots
      BY <3>3 DEF Tables, CorrelationsMatch
    <3>. QED
      BY <2>1, <3>1, <3>3, <3>4, <1>4 DEF FrameOK
  <2>7. \A u \in Slots : Active(u)' /\ txn'[u].send = f.send =>
          \E i \in Slots : corr'[i].handle = u /\ corr'[i].id = f.corr
    <3>1. SUFFICES ASSUME NEW u \in Slots, Active(u)', txn'[u].send = f.send
                   PROVE  \E i \in Slots : corr'[i].handle = u /\ corr'[i].id = f.corr
      OBVIOUS
    <3>2. u # s
      BY <3>1, <2>4, <1>4
    <3>3. PICK i \in Slots : corr[i].handle = u /\ corr[i].id = f.corr
      BY <2>1, <3>1, <3>2, <1>4, <1>7 DEF FrameOK
    <3>4. c[i] = corr[i] /\ corr[i] # NoCorr
      BY <3>2, <3>3, <1>2, <1>3 DEF None
    <3>5. i # free
      BY <3>4, <1>2
    <3>. QED
      BY <3>3, <3>4, <3>5, <1>5
  <2>. QED
    BY <2>1, <2>3, <2>5, <2>6, <2>7, <1>1 DEF FrameOK
<1>12. \A f \in Frame : f.corr = nextCorr /\ f.send = t => FrameOK(f)'
  <2>1. SUFFICES ASSUME NEW f \in Frame, f.corr = nextCorr, f.send = t
                 PROVE  FrameOK(f)'
    OBVIOUS
  <2>2. f.send # None /\ f.corr \in 1..(nextCorr' - 1) /\ log'[f.send].status # "none"
    BY <2>1, <1>1 DEF None, Sends
  <2>3. \A i \in Slots : corr'[i].id = f.corr => i = free
    <3>1. \A i \in Slots \ {free} : corr'[i] # NoCorr => corr'[i].id \in 1..(nextCorr - 1)
      BY <1>6 DEF Tables, CorrelationsMatch
    <3>. QED
      BY <2>1, <3>1, <1>1 DEF NoCorr, None
  <2>4. \A u \in Slots : Active(u)' /\ txn'[u].send = f.send => u = s
    BY <2>1, <1>4, <1>9 DEF SlotsServe, Active, Waiting
  <2>. QED
    BY <2>1, <2>2, <2>3, <2>4, <1>4, <1>5 DEF FrameOK
<1>. QED
  BY <1>4, <1>5, <1>9, <1>10, <1>11, <1>12 DEF Tables

\* The tables stay; a transaction refused at once has no slot in them.
LEMMA StillTables ==
  ASSUME TypeOK, Tables, txn' = txn, corr' = corr,
         nextCorr' \in {nextCorr, nextCorr + 1},
         nextRepair' \in {nextRepair, nextRepair + 1},
         \A u \in Sends :
           \/ log'[u] = log[u]
           \/ log[u].status = "none" /\ log'[u].status # "none"
  PROVE  /\ Tables'
         /\ \A f \in Frame : FrameOK(f) => FrameOK(f)'
<1>1. nextCorr \in Nat \ {0} /\ nextRepair \in Nat \ {0}
  BY DEF TypeOK
<1>2. /\ \A s \in Slots : Waiting(s)' <=> Waiting(s)
      /\ \A s \in Slots : Suspended(s)' <=> Suspended(s)
      /\ \A s \in Slots : Active(s)' <=> Active(s)
  BY DEF Waiting, Suspended, Active
<1>3. \A s \in Slots : Active(s) => log'[txn[s].send] = log[txn[s].send]
  BY DEF Tables, SlotsServe, Serves
<1>4. \A s \in Slots : Active(s) => Serves(s)'
  BY <1>3 DEF Tables, SlotsServe, Serves
<1>5. SlotsServe'
  BY <1>2, <1>4 DEF Tables, SlotsServe
<1>6. \A s \in Slots : Suspended(s)' <=> txn'[s].repair \in Requested'
  <2>1. TAKE s \in Slots
  <2>2. ~Suspended(s) => txn[s].repair = None
    BY DEF Tables, SlotsServe, Active, FreeSlot
  <2>. QED
    BY <2>2, <1>1, <1>2 DEF Requested, Tables, CorrelationsMatch, None
<1>7. CorrelationsMatch'
  <2>1. \A i \in Slots : corr[i] # NoCorr => corr[i].id \in 1..(nextCorr' - 1)
    BY <1>1 DEF Tables, CorrelationsMatch
  <2>. QED
    BY <2>1, <1>2, <1>6
    DEF Tables, CorrelationsMatch, Active, Waiting, Suspended
<1>8. \A f \in Frame : FrameOK(f) => FrameOK(f)'
  <2>1. SUFFICES ASSUME NEW f \in Frame, FrameOK(f)
                 PROVE  FrameOK(f)'
    OBVIOUS
  <2>2. f.send \in Sends \cup {None} /\ f.corr \in Nat
    BY DEF Frame
  <2>3. f.send # None => /\ f.corr \in 1..(nextCorr' - 1)
                         /\ log'[f.send].status # "none"
    BY <2>1, <2>2, <1>1 DEF FrameOK
  <2>. QED
    BY <2>1, <2>3, <1>2 DEF FrameOK, Active, Waiting, Suspended
<1>. QED
  BY <1>5, <1>7, <1>8 DEF Tables

\* The result of a transmission that went well retires its correlation, which
\* no other frame carries.
LEMMA SentTables ==
  ASSUME TypeOK, Tables, NEW e \in Frame, FrameOK(e),
         txn' = txn, log' = log, nextCorr' = nextCorr, nextRepair' = nextRepair,
         corr' = [i \in Slots |-> IF i \in CorrOf(e) THEN NoCorr ELSE corr[i]]
  PROVE  /\ corr' \in [Slots -> Correlation]
         /\ Tables'
         /\ \A f \in Frame : FrameOK(f) /\ (e.corr # None => f.corr # e.corr)
                               => FrameOK(f)'
<1>1. corr \in [Slots -> Correlation]
  BY DEF TypeOK
<1>2. \A i \in Slots : /\ corr[i].id = None <=> corr[i] = NoCorr
                       /\ corr[i].handle = None <=> corr[i] = NoCorr
  BY CorrFacts DEF Tables
<1>3. NoCorr \in Correlation
  BY DEF NoCorr, Correlation, None
<1>4. /\ corr' \in [Slots -> Correlation]
      /\ \A i \in Slots : corr'[i] = corr[i] \/ corr'[i] = NoCorr
      /\ \A i \in Slots : corr'[i] # corr[i] =>
           corr[i].id = e.corr /\ e.corr # None /\ corr[i].repair = None
  BY <1>1, <1>3 DEF CorrOf, FrameOK
<1>5. /\ \A s \in Slots : Waiting(s)' <=> Waiting(s)
      /\ \A s \in Slots : Suspended(s)' <=> Suspended(s)
      /\ \A s \in Slots : Active(s)' <=> Active(s)
  BY DEF Waiting, Suspended, Active
<1>6. SlotsServe'
  BY <1>5 DEF Tables, SlotsServe, Serves
<1>7. CorrelationsMatch'
  <2>1. \A i \in Slots : corr'[i] # NoCorr =>
          \A j \in Slots : j # i => /\ corr'[j].id # corr'[i].id
                                    /\ corr'[j].handle # corr'[i].handle
    <3>1. SUFFICES ASSUME NEW i \in Slots, corr'[i] # NoCorr,
                          NEW j \in Slots, j # i
                   PROVE  /\ corr'[j].id # corr'[i].id
                          /\ corr'[j].handle # corr'[i].handle
      OBVIOUS
    <3>2. corr'[i] = corr[i] /\ corr[i].id # None /\ corr[i].handle # None
      BY <3>1, <1>2, <1>4
    <3>3. CASE corr'[j] = NoCorr
      BY <3>2, <3>3 DEF NoCorr
    <3>4. CASE corr'[j] # NoCorr
      BY <3>1, <3>2, <3>4, <1>4 DEF Tables, CorrelationsMatch
    <3>. QED
      BY <3>3, <3>4
  <2>2. \A s \in Slots : Suspended(s) => \E i \in Slots : corr'[i].handle = s
    <3>1. SUFFICES ASSUME NEW s \in Slots, Suspended(s)
                   PROVE  \E i \in Slots : corr'[i].handle = s
      OBVIOUS
    <3>2. PICK i \in Slots : corr[i].handle = s
      BY <3>1 DEF Tables, CorrelationsMatch
    <3>3. corr[i] # NoCorr
      BY <3>2, <1>2 DEF Slots, None
    <3>4. corr[i].repair \in 1..(nextRepair - 1)
      BY <3>1, <3>2, <3>3 DEF Tables, CorrelationsMatch, Requested
    <3>5. corr'[i] = corr[i]
      BY <3>4, <1>4 DEF None
    <3>. QED
      BY <3>2, <3>5
  <2>3. \A i \in Slots : corr'[i] # NoCorr => corr'[i] = corr[i]
    BY <1>4
  <2>4. \A i \in Slots : corr'[i] # NoCorr => Active(corr[i].handle)'
    BY <2>3, <1>5 DEF Tables, CorrelationsMatch
  <2>. QED
    BY <2>1, <2>2, <2>3, <2>4, <1>5
    DEF Tables, CorrelationsMatch, Active, Waiting, Suspended, Requested
<1>8. \A f \in Frame : FrameOK(f) /\ (e.corr # None => f.corr # e.corr)
                         => FrameOK(f)'
  <2>1. SUFFICES ASSUME NEW f \in Frame, FrameOK(f), e.corr # None => f.corr # e.corr
                 PROVE  FrameOK(f)'
    OBVIOUS
  <2>2. \A i \in Slots : corr'[i].id # None => corr'[i] = corr[i]
    BY <1>4 DEF NoCorr
  <2>3. \A i \in Slots : corr[i].id = f.corr => corr'[i] = corr[i]
    BY <2>1, <1>4
  <2>. QED
    BY <2>1, <2>2, <2>3, <1>5 DEF FrameOK, Active, Waiting, Suspended
<1>. QED
  BY <1>4, <1>6, <1>7, <1>8 DEF Tables

\* A failed transmission suspends its transaction: both tables name the new
\* repair, and no other frame carries the correlation.
LEMMA SuspendTables ==
  ASSUME TypeOK, Tables, NEW e \in Frame, FrameOK(e),
         NEW i \in Slots, NEW s \in Slots, corr[i].handle = s, Waiting(s),
         corr[i].id # None, corr[i].id = e.corr,
         txn' = [txn EXCEPT ![s].state = "REPAIR_PENDING",
                            ![s].repair = nextRepair],
         corr' = [corr EXCEPT ![i].repair = nextRepair],
         log' = log, nextCorr' = nextCorr, nextRepair' = nextRepair + 1
  PROVE  /\ txn' \in [Slots -> Transaction] /\ corr' \in [Slots -> Correlation]
         /\ Tables'
         /\ \A f \in Frame : FrameOK(f) /\ f.corr # e.corr => FrameOK(f)'
<1>1. /\ txn \in [Slots -> Transaction] /\ corr \in [Slots -> Correlation]
      /\ nextCorr \in Nat \ {0} /\ nextRepair \in Nat \ {0}
  BY DEF TypeOK
<1>2. \A j \in Slots : /\ corr[j].id = None <=> corr[j] = NoCorr
                       /\ corr[j].handle = None <=> corr[j] = NoCorr
  BY CorrFacts DEF Tables
<1>3. s \in Slots /\ corr[i] # NoCorr /\ None \notin Slots
  BY <1>2 DEF Tables, CorrelationsMatch, Slots, None
<1>4. /\ txn'[s] = [txn[s] EXCEPT !.state = "REPAIR_PENDING", !.repair = nextRepair]
      /\ \A u \in Slots \ {s} : txn'[u] = txn[u]
      /\ txn' \in [Slots -> Transaction]
      /\ corr'[i] = [corr[i] EXCEPT !.repair = nextRepair]
      /\ \A j \in Slots \ {i} : corr'[j] = corr[j]
      /\ corr' \in [Slots -> Correlation]
  <2>1. txn[s] \in Transaction /\ corr[i] \in Correlation
    BY <1>1, <1>3
  <2>2. /\ txn'[s] = [txn[s] EXCEPT !.state = "REPAIR_PENDING", !.repair = nextRepair]
        /\ \A u \in Slots \ {s} : txn'[u] = txn[u]
        /\ DOMAIN txn' = Slots /\ txn' = [u \in Slots |-> txn'[u]]
    BY <1>1, <1>3
  <2>3. txn'[s] \in Transaction
    BY <2>1, <2>2, <1>1 DEF Transaction
  <2>4. txn' \in [Slots -> Transaction]
    BY <2>2, <2>3, <1>1
  <2>5. /\ corr'[i] = [corr[i] EXCEPT !.repair = nextRepair]
        /\ \A j \in Slots \ {i} : corr'[j] = corr[j]
        /\ corr'[i] \in Correlation
    BY <2>1, <1>1 DEF Correlation
  <2>6. corr' \in [Slots -> Correlation]
    BY <2>5, <1>1
  <2>. QED
    BY <2>2, <2>4, <2>5, <2>6
<1>5. /\ \A u \in Slots : /\ txn'[u].send = txn[u].send
                          /\ txn'[u].retry = txn[u].retry
      /\ \A j \in Slots : /\ corr'[j].id = corr[j].id
                          /\ corr'[j].handle = corr[j].handle
                          /\ corr'[j].hop = corr[j].hop
      /\ txn'[s].repair = nextRepair /\ corr'[i].repair = nextRepair
      /\ txn'[s].state = "REPAIR_PENDING"
  BY <1>1, <1>3, <1>4 DEF Transaction, Correlation
<1>6. /\ ~Waiting(s)' /\ Suspended(s)' /\ Active(s)' /\ Active(s)
      /\ \A u \in Slots \ {s} : /\ Waiting(u)' <=> Waiting(u)
                                /\ Suspended(u)' <=> Suspended(u)
                                /\ Active(u)' <=> Active(u)
  BY <1>4, <1>5 DEF Waiting, Suspended, Active
<1>7. SlotsServe'
  <2>1. \A u \in Slots : ~Active(u)' => txn'[u] = FreeSlot
    BY <1>4, <1>6 DEF Tables, SlotsServe
  <2>2. \A u \in Slots : Active(u)' => Serves(u)'
    <3>1. \A u \in Slots : Active(u)' => Serves(u)
      BY <1>6 DEF Tables, SlotsServe
    <3>2. \A u \in Slots : Serves(u) => Serves(u)'
      BY <1>5 DEF Serves
    <3>. QED
      BY <3>1, <3>2
  <2>3. \A u \in Slots : Waiting(u)' => txn'[u].repair = None
    BY <1>4, <1>6 DEF Tables, SlotsServe
  <2>4. \A u, v \in Slots :
          Active(u)' /\ Active(v)' /\ txn'[u].send = txn'[v].send => u = v
    BY <1>5, <1>6 DEF Tables, SlotsServe
  <2>. QED
    BY <2>1, <2>2, <2>3, <2>4 DEF SlotsServe
<1>8. CorrelationsMatch'
  <2>1. \A j \in Slots \ {i} : corr'[j] # NoCorr => corr[j] # NoCorr /\ corr[j].handle # s
    BY <1>3, <1>4 DEF Tables, CorrelationsMatch
  <2>2. \A j \in Slots : corr'[j] # NoCorr =>
          /\ corr'[j].id \in 1..(nextCorr' - 1)
          /\ corr'[j].handle \in Slots
          /\ Active(corr[j].handle)'
          /\ corr'[j].repair = txn'[corr'[j].handle].repair
    <3>1. /\ corr'[i].id \in 1..(nextCorr' - 1)
          /\ corr'[i].handle \in Slots
          /\ Active(corr[i].handle)'
          /\ corr'[i].repair = txn'[corr'[i].handle].repair
      BY <1>3, <1>5, <1>6 DEF Tables, CorrelationsMatch
    <3>2. ASSUME NEW j \in Slots \ {i}, corr'[j] # NoCorr
          PROVE  /\ corr'[j].id \in 1..(nextCorr' - 1)
                 /\ corr'[j].handle \in Slots
                 /\ Active(corr[j].handle)'
                 /\ corr'[j].repair = txn'[corr'[j].handle].repair
      <4>1. /\ corr'[j] = corr[j] /\ corr[j].handle # s
            /\ corr[j].id \in 1..(nextCorr - 1)
            /\ corr[j].handle \in Slots /\ Active(corr[j].handle)
            /\ corr[j].repair = txn[corr[j].handle].repair
        BY <3>2, <2>1, <1>4 DEF Tables, CorrelationsMatch
      <4>2. Active(corr[j].handle)'
        BY <4>1, <1>4, <1>6 DEF Active, Waiting, Suspended
      <4>. QED
        BY <4>1, <4>2, <1>4
    <3>. QED
      BY <3>1, <3>2
  <2>3. \A j \in Slots : corr'[j] # NoCorr => corr[j] # NoCorr
    BY <2>1, <1>3
  <2>4. \A u \in Slots : Suspended(u)' <=> txn'[u].repair \in Requested'
    <3>1. TAKE u \in Slots
    <3>2. CASE u = s
      BY <3>2, <1>1, <1>5, <1>6 DEF Requested
    <3>3. CASE u # s
      <4>1. ~Suspended(u) => txn[u].repair = None
        BY DEF Tables, SlotsServe, Active, FreeSlot
      <4>. QED
        BY <3>3, <4>1, <1>1, <1>4, <1>6
        DEF Requested, Tables, CorrelationsMatch, None
    <3>. QED
      BY <3>2, <3>3
  <2>5. \A u \in Slots : Suspended(u)' => \E j \in Slots : corr'[j].handle = u
    BY <1>5, <1>6 DEF Tables, CorrelationsMatch
  <2>6. \A u, v \in Slots :
          Suspended(u)' /\ txn'[v].repair = txn'[u].repair => v = u
    <3>1. SUFFICES ASSUME NEW u \in Slots, NEW v \in Slots, Suspended(u)',
                          txn'[v].repair = txn'[u].repair
                   PROVE  v = u
      OBVIOUS
    <3>2. Suspended(v)'
      BY <3>1, <2>4
    <3>3. \A w \in Slots \ {s} : Suspended(w) => txn'[w].repair # nextRepair
      BY <1>1, <1>4 DEF Tables, CorrelationsMatch, Requested
    <3>. QED
      BY <3>1, <3>2, <3>3, <1>4, <1>5, <1>6 DEF Tables, CorrelationsMatch
  <2>7. \A j \in Slots : corr'[j] # NoCorr =>
          \A k \in Slots : k # j => /\ corr'[k].id # corr'[j].id
                                    /\ corr'[k].handle # corr'[j].handle
    BY <2>3, <1>5 DEF Tables, CorrelationsMatch
  <2>8. \A j \in Slots : corr'[j] # NoCorr =>
          txn'[corr'[j].handle].state \in {"WAITING_FOR_ACK", "REPAIR_PENDING"}
    BY <2>2, <1>5 DEF Active, Waiting, Suspended
  <2>. QED
    BY <2>2, <2>4, <2>5, <2>6, <2>7, <2>8
    DEF CorrelationsMatch, Active, Waiting, Suspended
<1>9. \A f \in Frame : FrameOK(f) /\ f.corr # e.corr => FrameOK(f)'
  <2>1. SUFFICES ASSUME NEW f \in Frame, FrameOK(f), f.corr # e.corr
                 PROVE  FrameOK(f)'
    OBVIOUS
  <2>2. \A u \in Slots : Active(u)' <=> Active(u)
    BY <1>6
  <2>3. \A j \in Slots : corr'[j].id # None /\ corr'[j].id = f.corr =>
          /\ txn'[corr'[j].handle].send = f.send
          /\ corr'[j].repair = None
    <3>1. SUFFICES ASSUME NEW j \in Slots, corr'[j].id # None, corr'[j].id = f.corr
                   PROVE  /\ txn'[corr'[j].handle].send = f.send
                          /\ corr'[j].repair = None
      OBVIOUS
    <3>2. j # i /\ corr'[j] = corr[j]
      BY <2>1, <3>1, <1>4, <1>5
    <3>3. corr[j].handle \in Slots
      BY <3>1, <3>2, <1>2 DEF Tables, CorrelationsMatch
    <3>. QED
      <4>1. txn[corr[j].handle].send = f.send /\ corr[j].repair = None
        BY <2>1, <3>1, <3>2 DEF FrameOK
      <4>. QED
        BY <4>1, <3>2, <3>3, <1>5
  <2>4. \A u \in Slots : Active(u)' /\ txn'[u].send = f.send =>
          \E j \in Slots : corr'[j].handle = u /\ corr'[j].id = f.corr
    BY <2>1, <2>2, <1>5 DEF FrameOK
  <2>. QED
    BY <2>1, <2>3, <2>4 DEF FrameOK
<1>. QED
  BY <1>4, <1>7, <1>8, <1>9 DEF Tables

-----------------------------------------------------------------------------
(***************************************************************************)
(* Steps: the tables and the frames together.                              *)
(***************************************************************************)
LEMMA FramesFollow ==
  ASSUME TypeOK, Framed, FramesStay, \A f \in Frame : FrameOK(f) => FrameOK(f)'
  PROVE  Framed'
<1>1. \A k \in Places' : \E l \in Places : /\ Outstanding'[k] = Outstanding[l]
                                           /\ Outstanding[l] \in Frame
                                           /\ FrameOK(Outstanding[l])
  BY PlacesType DEF FramesStay, Framed
<1>. QED
  BY <1>1 DEF Framed, FrameOK

LEMMA SubmittedFrames ==
  ASSUME TypeOK, Framed, Apart, NEW t \in Sends, NEW f \in Frame,
         f.corr = nextCorr, f.send = t,
         txq' = Append(txq, f), inflight' = inflight, evq' = evq,
         \A g \in Frame : FrameOK(g) => FrameOK(g)' /\ g.corr # nextCorr,
         FrameOK(f)'
  PROVE  Framed' /\ Apart'
<1>1. \A k \in Places : /\ Outstanding[k] \in Frame
                        /\ FrameOK(Outstanding[k])
                        /\ Outstanding[k].corr # f.corr
  BY PlacesType DEF Framed
<1>2. /\ \A k \in Places' : \/ Outstanding'[k] = f
                            \/ \E l \in Places : Outstanding'[k] = Outstanding[l]
      /\ Apart'
  BY <1>1, QueuedFrames
<1>3. \A k \in Places' : \E g \in Frame : Outstanding'[k] = g /\ FrameOK(g)'
  BY <1>1, <1>2
<1>. QED
  BY <1>2, <1>3 DEF Framed, FrameOK

\* The post of an event keeps the type and the length of the event queue.
LEMMA PostType ==
  ASSUME TypeOK, NEW e \in Occurrence, Post(e)
  PROVE  evq' \in Seq(Occurrence) /\ Len(evq') <= EventQueueLength
<1>1. evq \in Seq(Occurrence) /\ Len(evq) <= EventQueueLength /\ Len(evq) \in Nat
  BY DEF TypeOK, Occurrence
<1>2. EventQueueLength \in Nat
  BY SizesAssumption
<1>. QED
  BY <1>1, <1>2, Appended DEF Post

LEMMA Least ==
  ASSUME NEW S \in SUBSET Nat, S # {}
  PROVE  \E x \in S : \A y \in S : x <= y
<1>1. PICK x \in S : \A y \in S : ~(<<y, x>> \in OpToRel(<, Nat))
  BY WFMin, NatLessThanWellFounded
<1>2. ASSUME NEW y \in S PROVE x <= y
  <2>1. ~(y < x)
    BY <1>1 DEF OpToRel
  <2>. QED
    BY <2>1
<1>. QED
  BY <1>2

LEMMA FirstFree ==
  ASSUME NEW c, FreeCorrs(c) # {}
  PROVE  (CHOOSE i \in FreeCorrs(c) : IsFirst(i, FreeCorrs(c))) \in FreeCorrs(c)
<1>1. FreeCorrs(c) \in SUBSET Nat
  BY SizesAssumption DEF FreeCorrs, Slots
<1>2. \E i \in FreeCorrs(c) : IsFirst(i, FreeCorrs(c))
  BY <1>1, Least DEF IsFirst
<1>. QED
  BY <1>2

LEMMA CompleteKeeps ==
  ASSUME Inv, NEW s \in Slots, Active(s),
         NEW verdict \in {"DELIVERED", "FAILED", "CANCELLED"},
         Complete(s, verdict), nextCorr' = nextCorr,
         nextRepair' \in {nextRepair, nextRepair + 1}
  PROVE  /\ txn' \in [Slots -> Transaction] /\ corr' \in [Slots -> Correlation]
         /\ log' \in [Sends -> Record]
         /\ Tables'
         /\ \A f \in Frame : FrameOK(f) => FrameOK(f)'
<1>1. log \in [Sends -> Record] /\ txn[s].send \in Sends
  BY DEF Inv, TypeOK, Tables, SlotsServe, Serves
<1>2. /\ log' = [log EXCEPT ![txn[s].send].status = verdict]
      /\ txn' = [txn EXCEPT ![s] = FreeSlot]
      /\ corr' = ReleaseHandle(corr, s)
  BY DEF Complete
<1>3. /\ log' \in [Sends -> Record]
      /\ log'[txn[s].send].status = verdict
      /\ \A u \in Sends : u # txn[s].send => log'[u] = log[u]
  BY <1>1, <1>2 DEF Record
<1>. QED
  BY <1>2, <1>3, ConcludeTables DEF Inv

\* What a submission does to the correlations and the queue.
LEMMA SubmitAccepted ==
  ASSUME NEW c \in [Slots -> Correlation], NEW s \in Slots, NEW t \in Sends,
         Submit(c, s, t), Accepted(c, s, t)
  PROVE  /\ nextCorr' = nextCorr + 1
         /\ \A j \in Slots : c[j].handle # s
         /\ Len(txq) < TxQueueLength
         /\ txq' = Append(txq, [corr |-> nextCorr, hop |-> route[DestOf[t]],
                                send |-> t])
<1>1. HasRoute(t) /\ Associable(c, s) /\ Len(txq) < TxQueueLength
  BY DEF Accepted
<1>. QED
  BY <1>1 DEF Submit, Associable

LEMMA SubmitAssociates ==
  ASSUME NEW c \in [Slots -> Correlation], NEW s \in Slots, NEW t \in Sends,
         Submit(c, s, t), Accepted(c, s, t)
  PROVE  \E free \in Slots :
           /\ c[free].id = None
           /\ corr' = [c EXCEPT ![free] =
                         [id |-> nextCorr, handle |-> s, repair |-> None,
                          hop |-> route[DestOf[t]]]]
<1>1. HasRoute(t) /\ Associable(c, s) /\ Len(txq) < TxQueueLength
  BY DEF Accepted
<1>2. corr' = [c EXCEPT ![CHOOSE i \in FreeCorrs(c) : IsFirst(i, FreeCorrs(c))] =
                 [id |-> nextCorr, handle |-> s, repair |-> None,
                  hop |-> route[DestOf[t]]]]
  BY <1>1 DEF Submit
<1>3. (CHOOSE i \in FreeCorrs(c) : IsFirst(i, FreeCorrs(c))) \in FreeCorrs(c)
  BY <1>1, FirstFree DEF Associable
<1>. QED
  BY <1>2, <1>3 DEF FreeCorrs

LEMMA SubmitRefused ==
  ASSUME NEW c \in [Slots -> Correlation], NEW s \in Slots, NEW t \in Sends,
         Submit(c, s, t), ~Accepted(c, s, t)
  PROVE  /\ nextCorr' \in {nextCorr, nextCorr + 1}
         /\ corr' = ReleaseHandle(c, s)
         /\ txq' = txq
BY DEF Submit

-----------------------------------------------------------------------------
LEMMA InitInv == Init => Inv
<1>. SUFFICES ASSUME Init PROVE Inv
  OBVIOUS
<1>. USE DEF Init
<1>1. \A s \in Slots : ~Active(s) /\ ~Waiting(s) /\ ~Suspended(s) /\ txn[s] = FreeSlot
  BY DEF Active, Waiting, Suspended, FreeSlot
<1>2. TypeOK
  <2>1. FreeSlot \in Transaction /\ NoCorr \in Correlation /\ NoFrame \in Frame
    BY SizesAssumption
    DEF FreeSlot, Transaction, NoCorr, Correlation, NoFrame, Frame, None
  <2>2. Unused \in Record
    BY SizesAssumption DEF Unused, Record, None
  <2>3. pending \subseteq Dests /\ Cardinality(pending) <= MaxPending
    BY SizesAssumption, FS_EmptySet
  <2>4. /\ txq \in Seq(Frame) /\ Len(txq) <= TxQueueLength
        /\ evq \in Seq(Occurrence) /\ Len(evq) <= EventQueueLength
    BY SizesAssumption
  <2>. QED
    BY <2>1, <2>2, <2>3, <2>4 DEF TypeOK, Occurrence
<1>3. Tables
  <2>1. SlotsServe
    BY <1>1 DEF SlotsServe
  <2>2. CorrelationsMatch
    BY <1>1 DEF CorrelationsMatch, Requested, FreeSlot, None
  <2>. QED
    BY <2>1, <2>2 DEF Tables
<1>4. Places = {}
  BY DEF Places
<1>. QED
  BY <1>2, <1>3, <1>4 DEF Inv, Framed, Apart

\* A retransmission, by the tick or after a repair.
LEMMA ResubmitInv ==
  ASSUME Inv, NEW s \in Slots, Active(s), ~Exhausted(s),
         NEW c \in [Slots -> Correlation],
         \A j \in Slots : \/ c[j] = corr[j]
                          \/ /\ c[j] = NoCorr /\ corr[j].handle = s
                             /\ corr[j].repair # None,
         Resubmit(c, s),
         UNCHANGED <<nextRepair, route, pending, inflight, evq, aired>>
  PROVE  Inv'
<1>1. PICK t \in Sends : t = txn[s].send
  BY DEF Inv, Tables, SlotsServe, Serves
<1>2. /\ txn \in [Slots -> Transaction] /\ corr \in [Slots -> Correlation]
      /\ log \in [Sends -> Record]
      /\ nextCorr \in Nat \ {0} /\ nextRepair \in Nat \ {0}
      /\ txq \in Seq(Frame) /\ Len(txq) <= TxQueueLength /\ Len(txq) \in Nat
  BY DEF Inv, TypeOK
<1>3. /\ txn[s].retry \in 0..MaxRetries /\ txn[s].retry + 1 \in 0..MaxRetries
      /\ log[t].status = "open" /\ log[t].submits = txn[s].retry + 1
  BY <1>1, <1>2, SizesAssumption
  DEF Inv, Tables, SlotsServe, Serves, Exhausted, Transaction
<1>4. /\ Submit(c, s, t)
      /\ txn' = [txn EXCEPT ![s] =
                   IF Accepted(c, s, t)
                     THEN [state |-> "WAITING_FOR_ACK", send |-> t,
                           retry |-> txn[s].retry + 1, repair |-> None]
                     ELSE FreeSlot]
      /\ log' = [log EXCEPT ![t].submits = @ + 1,
                            ![t].status = IF Accepted(c, s, t) THEN @ ELSE "FAILED"]
  BY <1>1 DEF Resubmit
<1>5. /\ log' \in [Sends -> Record]
      /\ \A v \in Sends \ {t} : log'[v] = log[v]
      /\ log'[t].submits = txn[s].retry + 2
      /\ log'[t].status = IF Accepted(c, s, t) THEN "open" ELSE "FAILED"
  <2>1. log[t] \in Record /\ log[t].submits \in 0..(MaxRetries + 1)
    BY <1>2 DEF Record
  <2>2. /\ log'[t].submits = log[t].submits + 1
        /\ log'[t].status = IF Accepted(c, s, t) THEN log[t].status ELSE "FAILED"
        /\ log'[t].packet = log[t].packet
        /\ log'[t] = [status |-> log'[t].status, packet |-> log'[t].packet,
                      submits |-> log'[t].submits]
        /\ DOMAIN log' = Sends /\ log' = [v \in Sends |-> log'[v]]
        /\ \A v \in Sends \ {t} : log'[v] = log[v]
    BY <1>2, <1>4, <2>1 DEF Record
  <2>3. log[t].submits + 1 \in 0..(MaxRetries + 1)
    BY <1>3, SizesAssumption
  <2>4. log'[t] \in Record
    BY <2>1, <2>2, <2>3 DEF Record
  <2>. QED
    BY <1>2, <1>3, <2>2, <2>4
<1>6. nextCorr' \in {nextCorr, nextCorr + 1} /\ nextCorr' \in Nat \ {0}
  <2>1. CASE Accepted(c, s, t)
    <3>1. nextCorr' = nextCorr + 1
      BY <1>1, <1>4, <2>1, SubmitAccepted
    <3>. QED
      BY <1>2, <3>1
  <2>2. CASE ~Accepted(c, s, t)
    <3>1. nextCorr' \in {nextCorr, nextCorr + 1}
      BY <1>1, <1>4, <2>2, SubmitRefused
    <3>. QED
      BY <1>2, <3>1
  <2>. QED
    BY <2>1, <2>2
<1>7. CASE Accepted(c, s, t)
  <2>1. /\ nextCorr' = nextCorr + 1
        /\ \A j \in Slots : c[j].handle # s
        /\ Len(txq) < TxQueueLength
        /\ txq' = Append(txq, [corr |-> nextCorr, hop |-> route[DestOf[t]],
                               send |-> t])
    BY <1>1, <1>4, <1>7, SubmitAccepted
  <2>2. PICK free \in Slots :
          /\ c[free].id = None
          /\ corr' = [c EXCEPT ![free] =
                        [id |-> nextCorr, handle |-> s, repair |-> None,
                         hop |-> route[DestOf[t]]]]
    BY <1>1, <1>4, <1>7, SubmitAssociates
  <2>3. PICK f \in Frame : f = [corr |-> nextCorr, hop |-> route[DestOf[t]],
                                send |-> t]
    BY <1>2, RoutesAssumption DEF Frame, Inv, TypeOK
  <2>4. PICK retry \in 0..MaxRetries : retry = txn[s].retry + 1
    BY <1>3
  <2>5. txn' = [txn EXCEPT ![s] = [state |-> "WAITING_FOR_ACK", send |-> t,
                                   retry |-> retry, repair |-> None]]
    BY <1>4, <1>7, <2>4
  <2>6. log'[t].status = "open" /\ log'[t].submits = retry + 1
    BY <1>3, <1>5, <1>7, <2>4
  <2>7. /\ txn' \in [Slots -> Transaction] /\ corr' \in [Slots -> Correlation]
        /\ Tables'
        /\ \A g \in Frame : FrameOK(g) => FrameOK(g)' /\ g.corr # nextCorr
        /\ \A g \in Frame : g.corr = nextCorr /\ g.send = t => FrameOK(g)'
    <3>1. TypeOK /\ Tables /\ Active(s) /\ txn[s].send = t /\ nextRepair' = nextRepair
      BY <1>1 DEF Inv
    <3>2. AcceptedStep(s, t, retry, c, free)
      BY <1>5, <2>1, <2>2, <2>5, <2>6, <3>1 DEF AcceptedStep
    <3>. QED
      BY <1>1, <2>2, <2>4, <3>1, <3>2, AcceptTables
  <2>8. Framed' /\ Apart'
    BY <2>1, <2>3, <2>7, SubmittedFrames DEF Inv
  <2>9. txq' \in Seq(Frame) /\ Len(txq') <= TxQueueLength
    BY <1>2, <2>1, <2>3, Appended, SizesAssumption
  <2>10. TypeOK'
    BY <1>5, <1>6, <2>7, <2>9 DEF Inv, TypeOK
  <2>. QED
    BY <2>7, <2>8, <2>10 DEF Inv
<1>8. CASE ~Accepted(c, s, t)
  <2>1. corr' = ReleaseHandle(corr, s) /\ txq' = txq
    <3>1. corr' = ReleaseHandle(c, s) /\ txq' = txq
      BY <1>1, <1>4, <1>8, SubmitRefused
    <3>2. \A j \in Slots : IF c[j].handle = s THEN corr[j].handle = s
                           ELSE \/ c[j] = corr[j]
                                \/ c[j] = NoCorr /\ corr[j].handle = s
      OBVIOUS
    <3>3. \A j \in Slots : (IF c[j].handle = s THEN NoCorr ELSE c[j])
                             = (IF corr[j].handle = s THEN NoCorr ELSE corr[j])
      BY <3>2
    <3>. QED
      BY <3>1, <3>3 DEF ReleaseHandle
  <2>2. txn' = [txn EXCEPT ![s] = FreeSlot]
    BY <1>4, <1>8
  <2>3. log'[txn[s].send].status # "none"
    BY <1>1, <1>5, <1>8
  <2>4. /\ txn' \in [Slots -> Transaction] /\ corr' \in [Slots -> Correlation]
        /\ Tables'
        /\ \A f \in Frame : FrameOK(f) => FrameOK(f)'
    BY <1>1, <1>5, <1>6, <2>1, <2>2, <2>3, ConcludeTables DEF Inv
  <2>5. FramesStay /\ Apart'
    BY <2>1, QueuesStay DEF Inv
  <2>6. Framed'
    BY <2>4, <2>5, FramesFollow DEF Inv
  <2>7. TypeOK'
    BY <1>5, <1>6, <2>1, <2>4 DEF Inv, TypeOK
  <2>. QED
    BY <2>4, <2>5, <2>6, <2>7 DEF Inv
<1>. QED
  BY <1>7, <1>8

LEMMA SendInv ==
  ASSUME Inv, NEW s \in Slots, NEW t \in Sends, Send(s, t)
  PROVE  Inv'
<1>1. /\ ~Active(s) /\ log[t].status = "none" /\ Submit(corr, s, t)
      /\ UNCHANGED <<nextRepair, route, pending, inflight, evq, aired>>
  BY DEF Send, IsFirst, FreeSlots, UnusedSends
<1>2. /\ txn \in [Slots -> Transaction] /\ corr \in [Slots -> Correlation]
      /\ log \in [Sends -> Record]
      /\ nextCorr \in Nat \ {0} /\ nextRepair \in Nat \ {0}
      /\ txq \in Seq(Frame) /\ Len(txq) <= TxQueueLength /\ Len(txq) \in Nat
  BY DEF Inv, TypeOK
<1>3. /\ log' \in [Sends -> Record]
      /\ \A v \in Sends \ {t} : log'[v] = log[v]
      /\ log'[t].submits = 1
      /\ log'[t].status = IF Accepted(corr, s, t) THEN "open" ELSE "FAILED"
  BY <1>2, SizesAssumption DEF Send, Record
<1>4. nextCorr' \in {nextCorr, nextCorr + 1} /\ nextCorr' \in Nat \ {0}
  <2>1. CASE Accepted(corr, s, t)
    <3>1. nextCorr' = nextCorr + 1
      BY <1>1, <1>2, <2>1, SubmitAccepted
    <3>. QED
      BY <1>2, <3>1
  <2>2. CASE ~Accepted(corr, s, t)
    <3>1. nextCorr' \in {nextCorr, nextCorr + 1}
      BY <1>1, <1>2, <2>2, SubmitRefused
    <3>. QED
      BY <1>2, <3>1
  <2>. QED
    BY <2>1, <2>2
<1>5. CASE Accepted(corr, s, t)
  <2>1. /\ nextCorr' = nextCorr + 1
        /\ \A j \in Slots : corr[j].handle # s
        /\ Len(txq) < TxQueueLength
        /\ txq' = Append(txq, [corr |-> nextCorr, hop |-> route[DestOf[t]],
                               send |-> t])
    BY <1>1, <1>2, <1>5, SubmitAccepted
  <2>2. PICK free \in Slots :
          /\ corr[free].id = None
          /\ corr' = [corr EXCEPT ![free] =
                        [id |-> nextCorr, handle |-> s, repair |-> None,
                         hop |-> route[DestOf[t]]]]
    BY <1>1, <1>2, <1>5, SubmitAssociates
  <2>3. PICK f \in Frame : f = [corr |-> nextCorr, hop |-> route[DestOf[t]],
                                send |-> t]
    BY <1>2, RoutesAssumption DEF Frame, Inv, TypeOK
  <2>4. PICK retry \in 0..MaxRetries : retry = 0
    BY SizesAssumption
  <2>5. txn' = [txn EXCEPT ![s] = [state |-> "WAITING_FOR_ACK", send |-> t,
                                   retry |-> retry, repair |-> None]]
    BY <1>5, <2>4 DEF Send
  <2>6. log'[t].status = "open" /\ log'[t].submits = retry + 1
    BY <1>3, <1>5, <2>4
  <2>7. /\ txn' \in [Slots -> Transaction] /\ corr' \in [Slots -> Correlation]
        /\ Tables'
        /\ \A g \in Frame : FrameOK(g) => FrameOK(g)' /\ g.corr # nextCorr
        /\ \A g \in Frame : g.corr = nextCorr /\ g.send = t => FrameOK(g)'
    <3>1. /\ TypeOK /\ Tables
          /\ ~Active(s) /\ log[t].status = "none" /\ nextRepair' = nextRepair
      BY <1>1 DEF Inv
    <3>2. AcceptedStep(s, t, retry, corr, free)
      BY <1>3, <2>1, <2>2, <2>5, <2>6, <3>1 DEF AcceptedStep
    <3>. QED
      BY <1>2, <2>2, <2>4, <3>1, <3>2, AcceptTables
  <2>8. Framed' /\ Apart'
    BY <1>1, <2>1, <2>3, <2>7, SubmittedFrames DEF Inv
  <2>9. txq' \in Seq(Frame) /\ Len(txq') <= TxQueueLength
    BY <1>2, <2>1, <2>3, Appended, SizesAssumption
  <2>10. TypeOK'
    BY <1>1, <1>3, <1>4, <2>7, <2>9 DEF Inv, TypeOK
  <2>. QED
    BY <2>7, <2>8, <2>10 DEF Inv
<1>6. CASE ~Accepted(corr, s, t)
  <2>1. corr' = corr /\ txq' = txq
    <3>1. corr' = ReleaseHandle(corr, s) /\ txq' = txq
      BY <1>1, <1>2, <1>6, SubmitRefused
    <3>2. \A j \in Slots : corr[j].handle # s
      <4>1. \A j \in Slots : corr[j] # NoCorr => Active(corr[j].handle)
        BY DEF Inv, Tables, CorrelationsMatch
      <4>. QED
        BY <1>1, <4>1 DEF NoCorr, None, Slots
    <3>. QED
      BY <1>2, <3>1, <3>2 DEF ReleaseHandle
  <2>2. txn' = txn
    BY <1>6 DEF Send
  <2>3. /\ Tables'
        /\ \A f \in Frame : FrameOK(f) => FrameOK(f)'
    BY <1>1, <1>3, <1>4, <1>6, <2>1, <2>2, StillTables DEF Inv
  <2>4. FramesStay /\ Apart'
    BY <1>1, <2>1, QueuesStay DEF Inv
  <2>5. Framed'
    BY <2>3, <2>4, FramesFollow DEF Inv
  <2>6. TypeOK'
    BY <1>1, <1>3, <1>4, <2>1, <2>2 DEF Inv, TypeOK
  <2>. QED
    BY <2>3, <2>4, <2>5, <2>6 DEF Inv
<1>. QED
  BY <1>5, <1>6

\* A slot that ends while the queues stay.
LEMMA CompleteInv ==
  ASSUME Inv, NEW s \in Slots, Active(s),
         NEW verdict \in {"DELIVERED", "FAILED", "CANCELLED"},
         Complete(s, verdict),
         UNCHANGED <<nextCorr, nextRepair, route, pending, transport>>
  PROVE  Inv'
<1>1. /\ txn' \in [Slots -> Transaction] /\ corr' \in [Slots -> Correlation]
      /\ log' \in [Sends -> Record]
      /\ Tables'
      /\ \A f \in Frame : FrameOK(f) => FrameOK(f)'
  BY CompleteKeeps
<1>2. txq' = txq /\ inflight' = inflight /\ evq' = evq /\ aired' = aired
  BY DEF transport
<1>3. FramesStay /\ Apart'
  BY <1>2, QueuesStay DEF Inv
<1>4. Framed'
  BY <1>1, <1>3, FramesFollow DEF Inv
<1>5. TypeOK'
  BY <1>1, <1>2 DEF Inv, TypeOK
<1>. QED
  BY <1>1, <1>3, <1>4, <1>5 DEF Inv

\* The tables stay and so does every frame.
LEMMA TransportInv ==
  ASSUME Inv, UNCHANGED <<table, links, nextRepair>>, FramesStay, Apart', TypeOK'
  PROVE  Inv'
<1>1. /\ txn' = txn /\ log' = log /\ corr' = corr /\ nextCorr' = nextCorr
      /\ nextRepair' = nextRepair
  BY DEF table, links
<1>2. Tables' /\ \A f \in Frame : FrameOK(f) => FrameOK(f)'
  BY <1>1, StillTables DEF Inv
<1>3. Framed'
  BY <1>2, FramesFollow DEF Inv
<1>. QED
  BY <1>2, <1>3 DEF Inv

LEMMA OtherTrafficInv ==
  ASSUME Inv, NEW hop \in Hops, OtherTraffic(hop)
  PROVE  Inv'
<1>. DEFINE f == [NoFrame EXCEPT !.hop = hop]
<1>1. /\ txn' = txn /\ log' = log /\ corr' = corr /\ nextCorr' = nextCorr
      /\ nextRepair' = nextRepair /\ route' = route /\ pending' = pending
      /\ inflight' = inflight /\ evq' = evq /\ aired' = aired
      /\ txq' = Append(txq, f) /\ Len(txq) < TxQueueLength
  BY DEF OtherTraffic, table, links
<1>2. f \in Frame /\ f.corr = None /\ f.send = None
  BY DEF NoFrame, Frame, None
<1>. HIDE DEF f
<1>3. Tables' /\ \A g \in Frame : FrameOK(g) => FrameOK(g)'
  BY <1>1, StillTables DEF Inv
<1>4. FrameOK(f)'
  <2>1. \A i \in Slots : corr[i].id # None => corr[i].id # f.corr
    BY <1>2
  <2>2. \A s \in Slots : Active(s) => txn[s].send # f.send
    BY <1>2 DEF Inv, Tables, SlotsServe, Serves, Sends, None
  <2>. QED
    BY <1>1, <1>2, <2>1, <2>2 DEF FrameOK, Active, Waiting, Suspended
<1>5. /\ \A k \in Places' : \/ Outstanding'[k] = f
                            \/ \E l \in Places : Outstanding'[k] = Outstanding[l]
      /\ Apart'
  BY <1>1, <1>2, QueuedFrames DEF Inv
<1>6. Framed'
  <2>1. \A l \in Places : Outstanding[l] \in Frame /\ FrameOK(Outstanding[l])
    BY PlacesType DEF Inv, Framed
  <2>2. \A k \in Places' : \E g \in Frame : Outstanding'[k] = g /\ FrameOK(g)'
    BY <1>2, <1>3, <1>4, <1>5, <2>1
  <2>. QED
    BY <2>2 DEF Framed, FrameOK
<1>7. txq' \in Seq(Frame) /\ Len(txq') <= TxQueueLength
  <2>1. txq \in Seq(Frame) /\ Len(txq) \in Nat
    BY DEF Inv, TypeOK
  <2>. QED
    BY <1>1, <1>2, <2>1, Appended, SizesAssumption
<1>8. TypeOK'
  BY <1>1, <1>7 DEF Inv, TypeOK
<1>. QED
  BY <1>3, <1>5, <1>6, <1>8 DEF Inv

LEMMA TxTaskInv ==
  ASSUME Inv, TxTask
  PROVE  Inv'
<1>1. /\ txq \in Seq(Frame) /\ Len(txq) <= TxQueueLength /\ Len(txq) \in Nat
      /\ inflight \in Frame /\ NoFrame \in Frame
  BY DEF Inv, TypeOK, NoFrame, Frame, None
<1>2. txq # <<>> => /\ Head(txq) \in Frame
                    /\ Tail(txq) \in Seq(Frame) /\ Len(Tail(txq)) <= TxQueueLength
  BY <1>1, SizesAssumption
<1>3. CASE TxStarts
  <2>1. {Head(txq).send} \ {None} \subseteq Sends
    BY <1>2, <1>3 DEF TxStarts, Frame
  <2>2. TypeOK'
    BY <1>2, <1>3, <2>1 DEF TxStarts, Inv, TypeOK, table, links
  <2>3. FramesStay /\ Apart'
    BY <1>3, TxStartsFrames DEF Inv
  <2>. QED
    BY <1>3, <2>2, <2>3, TransportInv DEF TxStarts
<1>4. CASE TxRefused
  <2>1. Result(Head(txq), FALSE) \in Occurrence
    BY <1>2, <1>4 DEF TxRefused, Result, Occurrence
  <2>2. evq' \in Seq(Occurrence) /\ Len(evq') <= EventQueueLength
    BY <1>4, <2>1, PostType DEF TxRefused, Inv, Result
  <2>3. TypeOK'
    BY <1>2, <1>4, <2>2 DEF TxRefused, Inv, TypeOK, Occurrence, table, links
  <2>4. FramesStay /\ Apart'
    BY <1>4, TxRefusedFrames DEF Inv
  <2>. QED
    BY <1>4, <2>3, <2>4, TransportInv DEF TxRefused
<1>5. ASSUME NEW ok \in BOOLEAN, TxEnds(ok)
      PROVE  Inv'
  <2>1. Result(inflight, ok) \in Occurrence
    BY <1>1 DEF Result, Occurrence
  <2>2. evq' \in Seq(Occurrence) /\ Len(evq') <= EventQueueLength
    BY <1>5, <2>1, PostType DEF TxEnds, Inv
  <2>3. TypeOK'
    BY <1>1, <1>5, <2>2 DEF TxEnds, Inv, TypeOK, Occurrence, table, links
  <2>4. FramesStay /\ Apart'
    BY <1>5, TxEndsFrames DEF Inv
  <2>. QED
    BY <1>5, <2>3, <2>4, TransportInv DEF TxEnds
<1>. QED
  BY <1>3, <1>4, <1>5 DEF TxTask

LEMMA AckArrivesInv ==
  ASSUME Inv, NEW t \in Sends, AckArrives(t)
  PROVE  Inv'
<1>1. Ack(t) \in Occurrence
  BY DEF Ack, Occurrence, Frame, NoFrame, None
<1>2. evq' \in Seq(Occurrence) /\ Len(evq') <= EventQueueLength
  BY <1>1, PostType DEF AckArrives, Inv
<1>3. TypeOK'
  BY <1>2 DEF AckArrives, Inv, TypeOK, Occurrence, table, links
<1>4. FramesStay /\ Apart'
  BY AckArrivesFrames DEF Inv
<1>. QED
  BY <1>3, <1>4, TransportInv DEF AckArrives

-----------------------------------------------------------------------------
(***************************************************************************)
(* The worker.                                                             *)
(***************************************************************************)
LEMMA WorkerTakes ==
  ASSUME Inv, evq # <<>>, evq' = Tail(evq), txq' = txq, inflight' = inflight
  PROVE  /\ FramesStay /\ Apart'
         /\ evq' \in Seq(Occurrence) /\ Len(evq') <= EventQueueLength
         /\ Event.frame \in Frame
         /\ Event.kind = "result" =>
              /\ FrameOK(Event.frame)
              /\ Event.frame.corr # None =>
                   \A k \in Places' : Outstanding'[k].corr # Event.frame.corr
<1>1. evq \in Seq(Occurrence) /\ Len(evq) <= EventQueueLength /\ Len(evq) \in Nat
  BY DEF Inv, TypeOK, Occurrence
<1>2. evq' \in Seq(Occurrence) /\ Len(evq') <= EventQueueLength
  BY <1>1, SizesAssumption
<1>3. /\ FramesStay /\ Apart'
      /\ Event \in Occurrence
      /\ Event.kind = "result" =>
           /\ \E l \in Places : Outstanding[l] = Event.frame
           /\ Event.frame.corr # None =>
                \A k \in Places' : Outstanding'[k].corr # Event.frame.corr
  BY WorkerFrames DEF Inv
<1>4. Event.kind = "result" => FrameOK(Event.frame)
  <2>1. ASSUME NEW l \in Places, Outstanding[l] = Event.frame
        PROVE  FrameOK(Event.frame)
    <3>1. FrameOK(Outstanding[l])
      BY DEF Inv, Framed
    <3>. QED
      BY <2>1, <3>1
  <2>. QED
    BY <1>3, <2>1
<1>. QED
  BY <1>2, <1>3, <1>4 DEF Occurrence

LEMMA FramesLeave ==
  ASSUME Inv, FramesStay, NEW e \in Frame,
         e.corr # None => \A k \in Places' : Outstanding'[k].corr # e.corr,
         \A f \in Frame : FrameOK(f) /\ (e.corr # None => f.corr # e.corr)
                            => FrameOK(f)'
  PROVE  Framed'
<1>1. \A k \in Places' : \E l \in Places : /\ Outstanding'[k] = Outstanding[l]
                                           /\ Outstanding[l] \in Frame
                                           /\ FrameOK(Outstanding[l])
  BY PlacesType DEF Inv, FramesStay, Framed
<1>2. \A k \in Places' : \E f \in Frame : Outstanding'[k] = f /\ FrameOK(f)'
  BY <1>1
<1>. QED
  BY <1>2 DEF Framed, FrameOK

LEMMA InvalidateType ==
  ASSUME Inv, NEW hop, Invalidate(hop)
  PROVE  route' \in [Dests -> Hops \cup {NoHop}]
BY DEF Inv, TypeOK, Invalidate

LEMMA WorkerAckInv ==
  ASSUME Inv, WorkerAck
  PROVE  Inv'
<1>1. /\ evq # <<>> /\ evq' = Tail(evq)
      /\ nextCorr' = nextCorr /\ nextRepair' = nextRepair /\ route' = route
      /\ pending' = pending /\ txq' = txq /\ inflight' = inflight /\ aired' = aired
  BY DEF WorkerAck
<1>2. /\ FramesStay /\ Apart'
      /\ evq' \in Seq(Occurrence) /\ Len(evq') <= EventQueueLength
  BY <1>1, WorkerTakes
<1>3. CASE UNCHANGED <<table, corr>>
  <2>1. TypeOK'
    BY <1>1, <1>2, <1>3 DEF Inv, TypeOK, Occurrence, table
  <2>. QED
    BY <1>1, <1>2, <1>3, <2>1, TransportInv DEF table, links
<1>4. ASSUME NEW s \in Slots, Waiting(s), Complete(s, "DELIVERED")
      PROVE  Inv'
  <2>1. Active(s)
    BY <1>4 DEF Active
  <2>2. /\ txn' \in [Slots -> Transaction] /\ corr' \in [Slots -> Correlation]
        /\ log' \in [Sends -> Record]
        /\ Tables'
        /\ \A f \in Frame : FrameOK(f) => FrameOK(f)'
    BY <1>1, <1>4, <2>1, CompleteKeeps
  <2>3. Framed'
    BY <1>2, <2>2, FramesFollow DEF Inv
  <2>4. TypeOK'
    BY <1>1, <1>2, <2>2 DEF Inv, TypeOK, Occurrence
  <2>. QED
    BY <1>2, <2>2, <2>3, <2>4 DEF Inv
<1>. QED
  BY <1>3, <1>4 DEF WorkerAck

LEMMA WorkerSentInv ==
  ASSUME Inv, WorkerSent
  PROVE  Inv'
<1>1. /\ evq # <<>> /\ evq' = Tail(evq) /\ Event.kind = "result"
      /\ txn' = txn /\ log' = log
      /\ nextCorr' = nextCorr /\ nextRepair' = nextRepair /\ route' = route
      /\ pending' = pending /\ txq' = txq /\ inflight' = inflight /\ aired' = aired
      /\ corr' = [i \in Slots |-> IF i \in CorrOf(Event.frame) THEN NoCorr
                                                               ELSE corr[i]]
  BY DEF WorkerSent, IsResult, table
<1>2. PICK e \in Frame : e = Event.frame
  BY <1>1, WorkerTakes
<1>3. /\ FramesStay /\ Apart'
      /\ evq' \in Seq(Occurrence) /\ Len(evq') <= EventQueueLength
      /\ FrameOK(e)
      /\ e.corr # None => \A k \in Places' : Outstanding'[k].corr # e.corr
  BY <1>1, <1>2, WorkerTakes
<1>4. corr' = [i \in Slots |-> IF i \in CorrOf(e) THEN NoCorr ELSE corr[i]]
  BY <1>1, <1>2
<1>5. /\ corr' \in [Slots -> Correlation]
      /\ Tables'
      /\ \A f \in Frame : FrameOK(f) /\ (e.corr # None => f.corr # e.corr)
                            => FrameOK(f)'
  BY <1>1, <1>2, <1>3, <1>4, SentTables DEF Inv
<1>6. Framed'
  BY <1>2, <1>3, <1>5, FramesLeave
<1>7. TypeOK'
  BY <1>1, <1>3, <1>5 DEF Inv, TypeOK, Occurrence
<1>. QED
  BY <1>3, <1>5, <1>6, <1>7 DEF Inv

LEMMA WorkerOtherFailedInv ==
  ASSUME Inv, WorkerOtherFailed
  PROVE  Inv'
<1>1. /\ evq # <<>> /\ evq' = Tail(evq) /\ Invalidate(Event.frame.hop)
      /\ UNCHANGED <<table, links, nextRepair, txq, inflight, aired>>
  BY DEF WorkerOtherFailed, IsResult
<1>2. /\ FramesStay /\ Apart'
      /\ evq' \in Seq(Occurrence) /\ Len(evq') <= EventQueueLength
  BY <1>1, WorkerTakes
<1>3. pending' \subseteq Dests /\ Cardinality(pending') <= MaxPending
  <2>1. PICK D \in SUBSET (Broken(Event.frame.hop) \ pending) :
          /\ pending' = pending \cup D
          /\ \/ Cardinality(pending') = MaxPending
             \/ /\ Cardinality(pending') < MaxPending
                /\ Broken(Event.frame.hop) \subseteq pending'
    BY DEF WorkerOtherFailed
  <2>2. pending' \subseteq Dests
    BY <2>1 DEF Broken, Inv, TypeOK
  <2>3. Cardinality(pending') \in Nat
    BY <2>2, RoutesAssumption, FS_Subset, FS_CardinalityType
  <2>. QED
    BY <2>1, <2>2, <2>3, SizesAssumption
<1>4. TypeOK'
  BY <1>1, <1>2, <1>3, InvalidateType DEF Inv, TypeOK, Occurrence, table, links
<1>. QED
  BY <1>1, <1>2, <1>4, TransportInv

LEMMA WorkerFailureIgnoredInv ==
  ASSUME Inv, WorkerFailureIgnored
  PROVE  Inv'
<1>1. /\ evq # <<>> /\ evq' = Tail(evq) /\ Invalidate(Event.frame.hop)
      /\ txn' = txn /\ log' = log /\ corr' = corr /\ nextCorr' = nextCorr
      /\ nextRepair' \in {nextRepair, nextRepair + 1}
      /\ pending' = pending /\ txq' = txq /\ inflight' = inflight /\ aired' = aired
  BY DEF WorkerFailureIgnored, IsResult, table, links
<1>2. /\ FramesStay /\ Apart'
      /\ evq' \in Seq(Occurrence) /\ Len(evq') <= EventQueueLength
  BY <1>1, WorkerTakes
<1>3. Tables' /\ \A f \in Frame : FrameOK(f) => FrameOK(f)'
  BY <1>1, StillTables DEF Inv
<1>4. Framed'
  BY <1>2, <1>3, FramesFollow DEF Inv
<1>5. TypeOK'
  BY <1>1, <1>2, InvalidateType DEF Inv, TypeOK, Occurrence
<1>. QED
  BY <1>2, <1>3, <1>4, <1>5 DEF Inv

\* A live correlation names the transaction of the frame it matches.
LEMMA ConcernedFacts ==
  ASSUME Inv, NEW e \in Frame, FrameOK(e), NEW i \in Concerned(e)
  PROVE  /\ i \in Slots /\ corr[i].handle \in Slots
         /\ corr[i].id # None /\ corr[i].id = e.corr
         /\ Active(corr[i].handle)
         /\ e.send = txn[corr[i].handle].send /\ e.send \in Sends
<1>1. /\ i \in Slots /\ corr[i].id # None /\ corr[i].id = e.corr
  BY DEF Concerned, CorrOf
<1>2. corr[i] # NoCorr
  BY <1>1 DEF NoCorr
<1>3. corr[i].handle \in Slots /\ Active(corr[i].handle)
  BY <1>1, <1>2 DEF Inv, Tables, CorrelationsMatch
<1>4. e.send = txn[corr[i].handle].send
  BY <1>1 DEF FrameOK
<1>. QED
  BY <1>1, <1>3, <1>4 DEF Inv, Tables, SlotsServe, Serves

LEMMA WorkerSuspendsInv ==
  ASSUME Inv, NEW i \in Slots, WorkerSuspends(i)
  PROVE  Inv'
<1>1. /\ evq # <<>> /\ evq' = Tail(evq) /\ Event.kind = "result"
      /\ i \in Concerned(Event.frame) /\ Waiting(corr[i].handle)
      /\ Requestable(DestOf[Event.frame.send])
      /\ Invalidate(Event.frame.hop)
      /\ txn' = [txn EXCEPT ![corr[i].handle].state = "REPAIR_PENDING",
                            ![corr[i].handle].repair = nextRepair]
      /\ corr' = [corr EXCEPT ![i].repair = nextRepair]
      /\ pending' = pending \cup {DestOf[Event.frame.send]}
      /\ log' = log /\ nextCorr' = nextCorr /\ nextRepair' = nextRepair + 1
      /\ txq' = txq /\ inflight' = inflight /\ aired' = aired
  BY DEF WorkerSuspends, IsResult
<1>2. PICK e \in Frame : e = Event.frame
  BY <1>1, WorkerTakes
<1>3. /\ FramesStay /\ Apart'
      /\ evq' \in Seq(Occurrence) /\ Len(evq') <= EventQueueLength
      /\ FrameOK(e)
      /\ e.corr # None => \A k \in Places' : Outstanding'[k].corr # e.corr
  BY <1>1, <1>2, WorkerTakes
<1>4. /\ corr[i].handle \in Slots /\ e.send \in Sends
      /\ corr[i].id # None /\ corr[i].id = e.corr
  BY <1>1, <1>2, <1>3, ConcernedFacts
<1>5. PICK s \in Slots : s = corr[i].handle
  BY <1>4
<1>6. /\ Waiting(s) /\ corr[i].handle = s
      /\ txn' = [txn EXCEPT ![s].state = "REPAIR_PENDING",
                            ![s].repair = nextRepair]
  BY <1>1, <1>5
<1>7. /\ txn' \in [Slots -> Transaction] /\ corr' \in [Slots -> Correlation]
      /\ Tables'
      /\ \A f \in Frame : FrameOK(f) /\ f.corr # e.corr => FrameOK(f)'
  BY <1>1, <1>2, <1>3, <1>4, <1>5, <1>6, SuspendTables DEF Inv
<1>8. Framed'
  BY <1>2, <1>3, <1>4, <1>7, FramesLeave
<1>9. pending' \subseteq Dests /\ Cardinality(pending') <= MaxPending
  <2>1. /\ DestOf[e.send] \in Dests /\ DestOf[e.send] \notin pending
        /\ Cardinality(pending) < MaxPending
        /\ pending' = pending \cup {DestOf[e.send]}
    BY <1>1, <1>2, <1>4, RoutesAssumption DEF Requestable
  <2>2. IsFiniteSet(pending) /\ pending \subseteq Dests
    BY RoutesAssumption, FS_Subset DEF Inv, TypeOK
  <2>3. Cardinality(pending) \in Nat /\ Cardinality(pending') = Cardinality(pending) + 1
    BY <2>1, <2>2, FS_AddElement, FS_CardinalityType
  <2>. QED
    BY <2>1, <2>2, <2>3, SizesAssumption
<1>10. TypeOK'
  BY <1>1, <1>3, <1>7, <1>9, InvalidateType DEF Inv, TypeOK, Occurrence
<1>. QED
  BY <1>3, <1>7, <1>8, <1>10 DEF Inv

LEMMA WorkerRepairRefusedInv ==
  ASSUME Inv, NEW i \in Slots, WorkerRepairRefused(i)
  PROVE  Inv'
<1>1. /\ evq # <<>> /\ evq' = Tail(evq) /\ Event.kind = "result"
      /\ i \in Concerned(Event.frame)
      /\ Invalidate(Event.frame.hop)
      /\ Complete(corr[i].handle, "FAILED")
      /\ nextCorr' = nextCorr /\ nextRepair' = nextRepair + 1
      /\ pending' = pending /\ txq' = txq /\ inflight' = inflight /\ aired' = aired
  BY DEF WorkerRepairRefused, IsResult
<1>2. PICK e \in Frame : e = Event.frame
  BY <1>1, WorkerTakes
<1>3. /\ FramesStay /\ Apart'
      /\ evq' \in Seq(Occurrence) /\ Len(evq') <= EventQueueLength
      /\ FrameOK(e)
  BY <1>1, <1>2, WorkerTakes
<1>4. corr[i].handle \in Slots /\ Active(corr[i].handle)
  BY <1>1, <1>2, <1>3, ConcernedFacts
<1>5. PICK s \in Slots : s = corr[i].handle
  BY <1>4
<1>6. Active(s) /\ Complete(s, "FAILED")
  BY <1>1, <1>4, <1>5
<1>7. /\ txn' \in [Slots -> Transaction] /\ corr' \in [Slots -> Correlation]
      /\ log' \in [Sends -> Record]
      /\ Tables'
      /\ \A f \in Frame : FrameOK(f) => FrameOK(f)'
  BY <1>1, <1>5, <1>6, CompleteKeeps
<1>8. Framed'
  BY <1>3, <1>7, FramesFollow DEF Inv
<1>9. TypeOK'
  <2>1. nextRepair' \in Nat \ {0}
    BY <1>1 DEF Inv, TypeOK
  <2>. QED
    BY <1>1, <1>3, <1>7, <2>1, InvalidateType DEF Inv, TypeOK, Occurrence
<1>. QED
  BY <1>3, <1>7, <1>8, <1>9 DEF Inv

-----------------------------------------------------------------------------
(***************************************************************************)
(* The invariant and what follows from it.                                 *)
(***************************************************************************)
\* The transaction a repair report resumes or ends; its correlation is under
\* repair and is the only one it has.
LEMMA RepairedFacts ==
  ASSUME Inv, NEW r \in Requested, NEW i \in Slots, Repaired(r, i)
  PROVE  /\ corr[i].handle \in Slots /\ Active(corr[i].handle)
         /\ [corr EXCEPT ![i] = NoCorr] \in [Slots -> Correlation]
         /\ \A j \in Slots : \/ [corr EXCEPT ![i] = NoCorr][j] = corr[j]
                             \/ /\ [corr EXCEPT ![i] = NoCorr][j] = NoCorr
                                /\ corr[j].handle = corr[i].handle
                                /\ corr[j].repair # None
<1>1. corr[i].repair # None /\ corr[i] # NoCorr
  BY DEF Repaired, Requested, NoCorr, None
<1>2. corr[i].handle \in Slots /\ Active(corr[i].handle)
  BY <1>1 DEF Inv, Tables, CorrelationsMatch
<1>3. corr \in [Slots -> Correlation] /\ NoCorr \in Correlation
  BY DEF Inv, TypeOK, NoCorr, Correlation, None
<1>. QED
  BY <1>1, <1>2, <1>3

LEMMA RepairReportedInv ==
  ASSUME Inv, RepairReported
  PROVE  Inv'
<1>1. PICK r \in Requested, i \in Slots :
        RepairResumes(r, i) \/ RepairTooLate(r, i) \/ RepairFails(r, i)
  BY DEF RepairReported
<1>2. Repaired(r, i)
  BY <1>1 DEF RepairResumes, RepairTooLate, RepairFails
<1>3. /\ corr[i].handle \in Slots /\ Active(corr[i].handle)
      /\ [corr EXCEPT ![i] = NoCorr] \in [Slots -> Correlation]
      /\ \A j \in Slots : \/ [corr EXCEPT ![i] = NoCorr][j] = corr[j]
                          \/ /\ [corr EXCEPT ![i] = NoCorr][j] = NoCorr
                             /\ corr[j].handle = corr[i].handle
                             /\ corr[j].repair # None
  BY <1>1, <1>2, RepairedFacts
<1>4. PICK s \in Slots : s = corr[i].handle
  BY <1>3
<1>5. PICK c \in [Slots -> Correlation] : c = [corr EXCEPT ![i] = NoCorr]
  BY <1>3
<1>6. /\ Active(s)
      /\ \A j \in Slots : \/ c[j] = corr[j]
                          \/ /\ c[j] = NoCorr /\ corr[j].handle = s
                             /\ corr[j].repair # None
  BY <1>3, <1>4, <1>5
<1>7. CASE RepairResumes(r, i)
  <2>1. /\ ~Exhausted(s) /\ Resubmit(c, s)
        /\ UNCHANGED <<nextRepair, route, pending, inflight, evq, aired>>
    BY <1>4, <1>5, <1>7 DEF RepairResumes
  <2>. QED
    BY <1>4, <1>5, <1>6, <2>1, ResubmitInv
<1>8. CASE RepairTooLate(r, i) \/ RepairFails(r, i)
  <2>1. /\ Complete(s, "FAILED")
        /\ UNCHANGED <<nextCorr, nextRepair, route, pending, transport>>
    BY <1>4, <1>8 DEF RepairTooLate, RepairFails
  <2>. QED
    BY <1>4, <1>6, <2>1, CompleteInv
<1>. QED
  BY <1>1, <1>7, <1>8

LEMMA SlotsInv ==
  ASSUME Inv, NEW s \in Slots, Cancel(s) \/ Timeout(s)
  PROVE  Inv'
<1>1. CASE Cancel(s)
  BY <1>1, CompleteInv DEF Cancel
<1>2. CASE TimeoutGivesUp(s)
  BY <1>2, CompleteInv DEF TimeoutGivesUp, Active
<1>3. CASE TimeoutRetransmits(s)
  <2>1. /\ Active(s) /\ ~Exhausted(s) /\ Resubmit(corr, s)
        /\ UNCHANGED <<nextRepair, route, pending, inflight, evq, aired>>
    BY <1>3 DEF TimeoutRetransmits, Active
  <2>2. corr \in [Slots -> Correlation]
    BY DEF Inv, TypeOK
  <2>. QED
    BY <2>1, <2>2, ResubmitInv
<1>. QED
  BY <1>1, <1>2, <1>3 DEF Timeout

LEMMA RoutesInv ==
  ASSUME Inv, \/ \E d \in Dests : RepairConsumed(d)
              \/ \E d \in Dests, hop \in Hops \cup {NoHop} : RouteChanges(d, hop)
              \/ UNCHANGED vars
  PROVE  Inv'
<1>1. /\ UNCHANGED <<table, links, nextRepair, transport>>
      /\ pending' \subseteq pending
      /\ route' \in [Dests -> Hops \cup {NoHop}]
  BY DEF RepairConsumed, RouteChanges, vars, Inv, TypeOK
<1>2. txq' = txq /\ inflight' = inflight /\ evq' = evq /\ aired' = aired
  BY <1>1 DEF transport
<1>3. FramesStay /\ Apart'
  BY <1>2, QueuesStay DEF Inv
<1>4. pending' \subseteq Dests /\ Cardinality(pending') <= MaxPending
  <2>1. IsFiniteSet(pending) /\ pending \subseteq Dests
        /\ Cardinality(pending) <= MaxPending
    BY RoutesAssumption, FS_Subset DEF Inv, TypeOK
  <2>2. /\ Cardinality(pending') <= Cardinality(pending)
        /\ Cardinality(pending') \in Nat /\ Cardinality(pending) \in Nat
    BY <1>1, <2>1, FS_Subset, FS_CardinalityType
  <2>. QED
    BY <1>1, <2>1, <2>2, SizesAssumption
<1>5. TypeOK'
  BY <1>1, <1>2, <1>4 DEF Inv, TypeOK, table, links
<1>. QED
  BY <1>1, <1>3, <1>5, TransportInv

LEMMA NextInv == Inv /\ [Next]_vars => Inv'
<1>. SUFFICES ASSUME Inv, [Next]_vars PROVE Inv'
  OBVIOUS
<1>1. ASSUME NEW s \in Slots, NEW t \in Sends, Send(s, t) PROVE Inv'
  BY <1>1, SendInv
<1>2. ASSUME NEW s \in Slots, Cancel(s) \/ Timeout(s) PROVE Inv'
  BY <1>2, SlotsInv
<1>3. ASSUME NEW hop \in Hops, OtherTraffic(hop) PROVE Inv'
  BY <1>3, OtherTrafficInv
<1>4. CASE TxTask
  BY <1>4, TxTaskInv
<1>5. ASSUME NEW t \in Sends, AckArrives(t) PROVE Inv'
  BY <1>5, AckArrivesInv
<1>6. CASE Worker
  BY <1>6, WorkerAckInv, WorkerSentInv, WorkerOtherFailedInv,
     WorkerFailureIgnoredInv, WorkerSuspendsInv, WorkerRepairRefusedInv DEF Worker
<1>7. CASE RepairReported
  BY <1>7, RepairReportedInv
<1>8. CASE \/ \E d \in Dests : RepairConsumed(d)
           \/ \E d \in Dests, hop \in Hops \cup {NoHop} : RouteChanges(d, hop)
           \/ UNCHANGED vars
  BY <1>8, RoutesInv
<1>. QED
  BY <1>1, <1>2, <1>3, <1>4, <1>5, <1>6, <1>7, <1>8 DEF Next

LEMMA Invariance == Spec => []Inv
BY InitInv, NextInv, PTL DEF Spec

\* No queue, table, pending set or retry counter passes its bound, whatever the
\* callers and tasks of the stack do (enp_e5e.c, enp_reliability.c,
\* enp_transport_espnow.c).
THEOREM TypeCorrect == Spec => []TypeOK
<1>1. Inv => TypeOK
  BY DEF Inv
<1>. QED
  BY <1>1, Invariance, PTL

\* Correlations and transactions stay in step: whatever is refused, dropped,
\* reported late or twice, each correlation serves one transaction in progress
\* and a transaction is suspended exactly for the repair its correlation names
\* (enp_e5e.c lines 162-320).
THEOREM StayInStep == Spec => []CorrelationsMatch
<1>1. Inv => CorrelationsMatch
  BY DEF Inv, Tables
<1>. QED
  BY <1>1, Invariance, PTL

\* A transaction in progress never has two transmissions under way, and none
\* while its route is under repair (enp_e5e.c lines 172-177).
THEOREM OneAtATime == Spec => []OneTransmission
<1>1. Inv => OneTransmission
  <2>. SUFFICES ASSUME Inv, NEW s \in Slots, Active(s),
                       NEW k \in Places, NEW l \in Places,
                       Outstanding[k].send = txn[s].send,
                       Outstanding[l].send = txn[s].send
                PROVE  /\ k = l
                       /\ Waiting(s)
                       /\ \E i \in Slots : /\ corr[i].handle = s
                                           /\ corr[i].id = Outstanding[k].corr
    BY DEF OneTransmission, Outstanding
  <2>1. FrameOK(Outstanding[k]) /\ FrameOK(Outstanding[l])
    BY DEF Inv, Framed
  <2>2. PICK i \in Slots : corr[i].handle = s /\ corr[i].id = Outstanding[k].corr
    BY <2>1 DEF FrameOK
  <2>3. PICK j \in Slots : corr[j].handle = s /\ corr[j].id = Outstanding[l].corr
    BY <2>1 DEF FrameOK
  <2>4. corr[i] # NoCorr /\ corr[i].id # None
    BY <2>2, CorrFacts DEF Inv, Tables, None
  <2>5. i = j
    BY <2>2, <2>3, <2>4 DEF Inv, Tables, CorrelationsMatch
  <2>6. k = l
    BY <2>2, <2>3, <2>4, <2>5 DEF Inv, Apart
  <2>7. corr[i].repair = None
    BY <2>1, <2>2, <2>4 DEF FrameOK
  <2>8. txn[s].repair = None
    BY <2>2, <2>4, <2>7 DEF Inv, Tables, CorrelationsMatch
  <2>9. ~Suspended(s)
    BY <2>8 DEF Inv, Tables, CorrelationsMatch, Requested, None
  <2>. QED
    BY <2>2, <2>6, <2>9 DEF Active
<1>. QED
  BY <1>1, Invariance, PTL

-----------------------------------------------------------------------------
(***************************************************************************)
(* Results stay home.                                                      *)
(***************************************************************************)
LEMMA TailShorter ==
  ASSUME NEW S, NEW q \in Seq(S), q # <<>>
  PROVE  Tail(q) # q /\ \A e \in S : Tail(q) # Append(q, e)
<1>1. PICK n \in Nat : n = Len(q) /\ n # 0
  OBVIOUS
<1>2. Len(Tail(q)) = n - 1
  BY <1>1
<1>3. \A e \in S : Len(Append(q, e)) = n + 1
  BY <1>1, Appended
<1>4. n # n - 1 /\ n + 1 # n - 1
  BY <1>1
<1>5. Tail(q) # q
  BY <1>1, <1>2, <1>4, Zenon
<1>6. \A e \in S : Tail(q) # Append(q, e)
  BY <1>2, <1>3, <1>4, Zenon
<1>. QED
  BY <1>5, <1>6

\* Only the worker takes an event out of the queue.
LEMMA OnlyTheWorkerTakes ==
  ASSUME Inv, Next, evq # <<>>, evq' = Tail(evq)
  PROVE  Worker
<1>1. evq \in Seq(Occurrence) /\ Len(evq) \in Nat \ {0}
  BY DEF Inv, TypeOK, Occurrence
<1>3. evq' # evq
  BY <1>1, TailShorter
<1>4. \A e \in Occurrence : ~Post(e)
  BY <1>1, <1>3, TailShorter DEF Post
<1>5. ~TxTask
  <2>1. ~TxStarts
    BY <1>3 DEF TxStarts
  <2>2. ~TxRefused
    <3>1. SUFFICES ASSUME TxRefused PROVE FALSE
      OBVIOUS
    <3>2. Head(txq) \in Frame
      BY <3>1 DEF TxRefused, Inv, TypeOK
    <3>. QED
      BY <1>4, <3>1, <3>2 DEF TxRefused, Result, Occurrence
  <2>3. \A ok \in BOOLEAN : ~TxEnds(ok)
    <3>1. SUFFICES ASSUME NEW ok \in BOOLEAN, TxEnds(ok) PROVE FALSE
      OBVIOUS
    <3>2. Result(inflight, ok) \in Occurrence
      BY DEF Inv, TypeOK, Result, Occurrence
    <3>. QED
      BY <1>4, <3>1, <3>2 DEF TxEnds
  <2>. QED
    BY <2>1, <2>2, <2>3 DEF TxTask
<1>6. \A t \in Sends : ~AckArrives(t)
  <2>1. \A t \in Sends : Ack(t) \in Occurrence
    BY DEF Ack, Occurrence, Frame, NoFrame, None
  <2>. QED
    BY <1>4, <2>1 DEF AckArrives
<1>7. /\ \A s \in Slots, t \in Sends : ~Send(s, t)
      /\ \A s \in Slots : ~Cancel(s) /\ ~Timeout(s)
      /\ \A hop \in Hops : ~OtherTraffic(hop)
  BY <1>3 DEF Send, Cancel, Timeout, TimeoutGivesUp, TimeoutRetransmits,
              OtherTraffic, transport
<1>8. /\ ~RepairReported
      /\ \A d \in Dests : ~RepairConsumed(d)
      /\ \A d \in Dests, hop \in Hops \cup {NoHop} : ~RouteChanges(d, hop)
  BY <1>3 DEF RepairReported, RepairResumes, RepairTooLate, RepairFails,
              RepairConsumed, RouteChanges, transport
<1>. QED
  BY <1>5, <1>6, <1>7, <1>8 DEF Next

\* What the end of slot u leaves alone.
LEMMA CompleteStaysHome ==
  ASSUME Inv, NEW u \in Slots, Active(u), NEW verdict, Complete(u, verdict),
         NEW s \in Slots, Active(s), txn[s].send # txn[u].send
  PROVE  txn'[s] = txn[s] /\ log'[txn[s].send] = log[txn[s].send]
<1>1. txn \in [Slots -> Transaction] /\ log \in [Sends -> Record]
  BY DEF Inv, TypeOK
<1>2. txn[s].send \in Sends /\ txn[u].send \in Sends
  BY DEF Inv, Tables, SlotsServe, Serves
<1>. QED
  BY <1>1, <1>2 DEF Complete

\* What the worker does with the result or the ACK of one transaction touches
\* no other, not even one to the same destination (enp_e5e_on_transport_result,
\* enp_reliability_process_ack).
THEOREM ResultsAreConfined == Spec => ResultsStayHome
<1>1. Inv /\ [Next]_vars =>
        [evq # <<>> /\ evq' = Tail(evq) =>
           \A s \in Slots :
             Active(s) /\ txn[s].send # Event.frame.send =>
               /\ txn'[s] = txn[s]
               /\ log'[txn[s].send] = log[txn[s].send]]_vars
  <2>1. SUFFICES ASSUME Inv, Next, evq # <<>>, evq' = Tail(evq),
                        NEW s \in Slots, Active(s), txn[s].send # Event.frame.send
                 PROVE  txn'[s] = txn[s] /\ log'[txn[s].send] = log[txn[s].send]
    OBVIOUS
  <2>2. Worker
    BY <2>1, OnlyTheWorkerTakes
  <2>3. txn \in [Slots -> Transaction]
    BY <2>1 DEF Inv, TypeOK
  <2>4. CASE WorkerAck
    <3>1. CASE UNCHANGED <<table, corr>>
      BY <3>1 DEF table
    <3>2. ASSUME NEW u \in Slots, Waiting(u), txn[u].send = Event.frame.send,
                 Complete(u, "DELIVERED")
          PROVE  txn'[s] = txn[s] /\ log'[txn[s].send] = log[txn[s].send]
      BY <2>1, <3>2, CompleteStaysHome DEF Active
    <3>. QED
      BY <2>4, <3>1, <3>2 DEF WorkerAck
  <2>5. CASE WorkerSent \/ WorkerOtherFailed \/ WorkerFailureIgnored
    BY <2>5 DEF WorkerSent, WorkerOtherFailed, WorkerFailureIgnored, table
  <2>6. ASSUME NEW i \in Slots, WorkerSuspends(i) \/ WorkerRepairRefused(i)
        PROVE  txn'[s] = txn[s] /\ log'[txn[s].send] = log[txn[s].send]
    <3>1. /\ Event.kind = "result" /\ i \in Concerned(Event.frame)
          /\ txq' = txq /\ inflight' = inflight
      BY <2>6 DEF WorkerSuspends, WorkerRepairRefused, IsResult
    <3>2. Event.frame \in Frame /\ FrameOK(Event.frame)
      BY <2>1, <3>1, WorkerTakes
    <3>3. PICK e \in Frame : e = Event.frame
      BY <3>2
    <3>4. /\ corr[i].handle \in Slots /\ Active(corr[i].handle)
          /\ e.send = txn[corr[i].handle].send
      BY <2>1, <3>1, <3>2, <3>3, ConcernedFacts
    <3>5. PICK u \in Slots : u = corr[i].handle
      BY <3>4
    <3>6. s # u /\ Active(u) /\ txn[s].send # txn[u].send
      BY <2>1, <3>3, <3>4, <3>5
    <3>7. CASE WorkerSuspends(i)
      BY <2>3, <3>5, <3>6, <3>7 DEF WorkerSuspends
    <3>8. CASE WorkerRepairRefused(i)
      <4>1. Complete(u, "FAILED")
        BY <3>5, <3>8 DEF WorkerRepairRefused
      <4>. QED
        BY <2>1, <3>5, <3>6, <4>1, CompleteStaysHome
    <3>. QED
      BY <2>6, <3>7, <3>8
  <2>. QED
    BY <2>2, <2>4, <2>5, <2>6 DEF Worker
<1>. QED
  BY <1>1, Invariance, PTL DEF Spec, ResultsStayHome

-----------------------------------------------------------------------------
(***************************************************************************)
(* Refinement: what happens to log is a behavior of ReliableDelivery.      *)
(***************************************************************************)
LEMMA CompleteConcludes ==
  ASSUME Inv, NEW s \in Slots, Active(s),
         NEW verdict \in {"DELIVERED", "FAILED", "CANCELLED"},
         Complete(s, verdict)
  PROVE  Delivery!Next
<1>1. /\ txn[s].send \in Sends /\ log[txn[s].send].status = "open"
  BY DEF Inv, Tables, SlotsServe, Serves
<1>2. Delivery!Conclude(txn[s].send)
  BY <1>1 DEF Complete, Delivery!Conclude, Delivery!Open, Delivery!Verdicts
<1>. QED
  BY <1>1, <1>2 DEF Delivery!Next, Delivery!Sends, Sends

LEMMA ResubmitRetransmits ==
  ASSUME Inv, NEW s \in Slots, Active(s), ~Exhausted(s), NEW c, Resubmit(c, s)
  PROVE  Delivery!Next
<1>. DEFINE t == txn[s].send
            status == IF Accepted(c, s, t) THEN "open" ELSE "FAILED"
<1>1. /\ t \in Sends /\ log[t].status = "open"
      /\ log[t].submits = txn[s].retry + 1 /\ log[t] \in Record
      /\ txn[s] \in Transaction
  BY DEF Inv, TypeOK, Tables, SlotsServe, Serves
<1>2. log[t].submits <= MaxRetries
  BY <1>1, SizesAssumption DEF Exhausted, Transaction
<1>3. log' = [log EXCEPT ![t].submits = @ + 1, ![t].status = status]
  BY <1>1 DEF Resubmit, Inv, TypeOK, Record
<1>4. status \in {"open", "FAILED"}
  OBVIOUS
<1>. HIDE DEF status
<1>5. Delivery!Retransmit(t)
  BY <1>1, <1>2, <1>3, <1>4 DEF Delivery!Retransmit, Delivery!Open
<1>. QED
  BY <1>1, <1>5 DEF Delivery!Next, Delivery!Sends, Sends

\* With queues that drop, refused submissions, repairs that come late or twice
\* and any traffic beside it, the stack keeps the promise to the application:
\* at most MaxRetries + 1 submissions and one final verdict.
THEOREM Implements == Spec => ImplementsDelivery
<1>1. Init => Delivery!Init
  BY DEF Init, Delivery!Init, Unused, Delivery!Unused, Sends, Delivery!Sends
<1>2. Inv /\ [Next]_vars => [Delivery!Next]_log
  <2>. SUFFICES ASSUME Inv, Next, log' # log
                PROVE  Delivery!Next
    BY DEF vars, table
  <2>1. ASSUME NEW s \in Slots, NEW t \in Sends, Send(s, t)
        PROVE  Delivery!Next
    <3>1. log[t].status = "none" /\ \A u \in UnusedSends : t <= u
      BY <2>1 DEF Send, IsFirst, UnusedSends
    <3>2. \A u \in Sends : u < t => log[u].status # "none"
      BY <3>1 DEF UnusedSends, Sends
    <3>3. \E status \in {"open", "FAILED"} :
            log' = [log EXCEPT ![t] = [status |-> status, packet |-> t,
                                       submits |-> 1]]
      BY <2>1 DEF Send
    <3>4. Delivery!Accept(t, t)
      BY <3>1, <3>2, <3>3 DEF Delivery!Accept, Delivery!Sends, Sends
    <3>. QED
      BY <3>4 DEF Delivery!Next, Delivery!Sends, Sends
  <2>2. ASSUME NEW s \in Slots, Cancel(s) \/ Timeout(s)
        PROVE  Delivery!Next
    BY <2>2, CompleteConcludes, ResubmitRetransmits
    DEF Cancel, Timeout, TimeoutGivesUp, TimeoutRetransmits, Active
  <2>3. CASE Worker
    <3>1. CASE WorkerAck
      BY <3>1, CompleteConcludes DEF WorkerAck, IsFirst, Active, table
    <3>2. ASSUME NEW i \in Slots, WorkerRepairRefused(i)
          PROVE  Delivery!Next
      <4>1. /\ evq # <<>> /\ evq' = Tail(evq) /\ Event.kind = "result"
            /\ i \in Concerned(Event.frame)
            /\ Complete(corr[i].handle, "FAILED")
            /\ txq' = txq /\ inflight' = inflight
        BY <3>2 DEF WorkerRepairRefused, IsResult
      <4>2. Event.frame \in Frame /\ FrameOK(Event.frame)
        BY <4>1, WorkerTakes
      <4>3. corr[i].handle \in Slots /\ Active(corr[i].handle)
        BY <4>1, <4>2, ConcernedFacts
      <4>4. PICK u \in Slots : u = corr[i].handle
        BY <4>3
      <4>. QED
        BY <4>1, <4>3, <4>4, CompleteConcludes
    <3>. QED
      BY <2>3, <3>1, <3>2
      DEF Worker, WorkerSent, WorkerOtherFailed, WorkerFailureIgnored,
          WorkerSuspends, table
  <2>4. CASE RepairReported
    <3>1. PICK r \in Requested, i \in Slots :
            RepairResumes(r, i) \/ RepairTooLate(r, i) \/ RepairFails(r, i)
      BY <2>4 DEF RepairReported
    <3>2. Repaired(r, i)
      BY <3>1 DEF RepairResumes, RepairTooLate, RepairFails
    <3>3. corr[i].handle \in Slots /\ Active(corr[i].handle)
      BY <3>1, <3>2, RepairedFacts
    <3>4. PICK s \in Slots : s = corr[i].handle
      BY <3>3
    <3>5. CASE RepairResumes(r, i)
      <4>1. Active(s) /\ ~Exhausted(s) /\ Resubmit([corr EXCEPT ![i] = NoCorr], s)
        BY <3>3, <3>4, <3>5 DEF RepairResumes
      <4>. QED
        BY <3>4, <4>1, ResubmitRetransmits
    <3>6. CASE RepairTooLate(r, i) \/ RepairFails(r, i)
      <4>1. Active(s) /\ Complete(s, "FAILED")
        BY <3>3, <3>4, <3>6 DEF RepairTooLate, RepairFails
      <4>. QED
        BY <3>4, <4>1, CompleteConcludes
    <3>. QED
      BY <3>1, <3>5, <3>6
  <2>5. /\ TxTask => log' = log
        /\ \A hop \in Hops : OtherTraffic(hop) => log' = log
        /\ \A t \in Sends : AckArrives(t) => log' = log
        /\ \A d \in Dests : RepairConsumed(d) => log' = log
        /\ \A d \in Dests, hop \in Hops \cup {NoHop} :
             RouteChanges(d, hop) => log' = log
    BY DEF TxTask, TxStarts, TxRefused, TxEnds, OtherTraffic, AckArrives,
           RepairConsumed, RouteChanges, table
  <2>. QED
    BY <2>1, <2>2, <2>3, <2>4, <2>5 DEF Next
<1>. QED
  BY <1>1, <1>2, Invariance, PTL DEF Spec, ImplementsDelivery, Delivery!Spec

=============================================================================
