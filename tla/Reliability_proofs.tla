-------------------------- MODULE Reliability_proofs --------------------------
(***************************************************************************)
(* Proofs about the Reliability transaction table, for every number of     *)
(* slots, retries and packets and every clock that wraps.                  *)
(*                                                                         *)
(* The inductive invariant is Inv.  Neither of its halves is inductive:    *)
(* the bound on the submissions counted in log follows only from the slot  *)
(* that serves the transaction, and the slot's record of its transaction   *)
(* only makes sense for a typed table.                                     *)
(***************************************************************************)
EXTENDS Reliability, TLAPS

TableTyped ==
  /\ txn \in [Slots -> Transaction]
  /\ log \in [Sends -> Record]

Inv == TypeOK /\ TransactionsTracked

-----------------------------------------------------------------------------
\* The clock arithmetic of enp_reliability.c stays within the clock.
LEMMA ClockTyped ==
  /\ \A t, d \in Nat : After(t, d) \in Time
  /\ \A since, t \in Time : Elapsed(since, t) \in Time
  /\ \A d \in Nat : CappedAge(d) \in 0..AckTimeout
<1>. USE TimeAssumption
<1>1. \A x \in Nat : x % TimeModulus \in Time
  BY DEF Time
<1>2. \A since, t \in Time : t + (TimeModulus - since) \in Nat
  BY DEF Time
<1>. QED
  BY <1>1, <1>2 DEF After, Elapsed, CappedAge, Time

\* complete_transaction() keeps slots and open transactions in one-to-one
\* correspondence, whatever the verdict.
LEMMA CompleteTracks ==
  ASSUME TableTyped, TransactionsTracked,
         NEW s \in Slots, Active(s),
         NEW verdict \in Verdicts, Complete(s, verdict)
  PROVE  TableTyped' /\ TransactionsTracked'
<1>. DEFINE t == txn[s].send
<1>1. t \in Sends /\ log[t].status = "open" /\ Serves(s)
  BY DEF TransactionsTracked, Serves
<1>2. TableTyped'
  <2>1. FreeSlot \in Transaction
    BY TimeAssumption, SizesAssumption
    DEF FreeSlot, Transaction, Time
  <2>2. [log[t] EXCEPT !.status = verdict] \in Record
    BY <1>1 DEF TableTyped, Record
  <2>. QED
    BY <1>1, <2>1, <2>2 DEF TableTyped, Complete
<1>3. \A u \in Slots : u # s => txn'[u] = txn[u]
  BY DEF Complete, TableTyped
<1>4. ~Active(s)'
  BY DEF Complete, TableTyped, Active, FreeSlot, LiveStates
<1>5. \A r \in Sends : r # t => log'[r] = log[r]
  BY <1>1 DEF Complete, TableTyped
<1>6. log'[t].status # "open"
  BY <1>1 DEF Complete, TableTyped, Record, Verdicts
<1>7. \A u \in Slots : Active(u)' => u # s /\ Active(u) /\ txn[u].send # t
  BY <1>3, <1>4, <1>1 DEF Active, TransactionsTracked
<1>8. \A u \in Slots : Active(u)' => Serves(u)'
  BY <1>3, <1>5, <1>7 DEF Serves, TransactionsTracked
<1>9. \A u, v \in Slots :
        Active(u)' /\ Active(v)' /\ txn'[u].send = txn'[v].send => u = v
  BY <1>3, <1>7 DEF TransactionsTracked
<1>10. \A r \in Sends :
         log'[r].status = "open" =>
           \E u \in Slots : Active(u)' /\ txn'[u].send = r
  <2>. SUFFICES ASSUME NEW r \in Sends, log'[r].status = "open"
                PROVE  \E u \in Slots : Active(u)' /\ txn'[u].send = r
    OBVIOUS
  <2>1. r # t /\ log[r].status = "open"
    BY <1>5, <1>6
  <2>2. PICK u \in Slots : Active(u) /\ txn[u].send = r
    BY <2>1 DEF TransactionsTracked
  <2>3. u # s
    BY <2>1, <2>2
  <2>. QED
    BY <2>2, <2>3, <1>3 DEF Active
<1>. QED
  BY <1>2, <1>8, <1>9, <1>10 DEF TransactionsTracked

\* The retransmission of a slot with budget left keeps the correspondence
\* and the retry bound, whether or not the submission is accepted.
LEMMA ResubmitTracks ==
  ASSUME TableTyped, TransactionsTracked,
         NEW s \in Slots, Active(s), ~Exhausted(s),
         NEW stamp \in Time, NEW ok \in BOOLEAN, Resubmit(s, stamp, ok)
  PROVE  TableTyped' /\ TransactionsTracked'
<1>. DEFINE t == txn[s].send
            slot == IF ok THEN Resubmitted(s, stamp) ELSE FreeSlot
            rec == [log[t] EXCEPT !.submits = @ + 1,
                                  !.status = IF ok THEN @ ELSE "FAILED"]
<1>1. t \in Sends /\ log[t].status = "open" /\ Serves(s)
  BY DEF TransactionsTracked, Serves
<1>2. txn[s] \in Transaction /\ log[t] \in Record
  BY <1>1 DEF TableTyped
<1>3. txn' = [txn EXCEPT ![s] = slot]
  BY DEF Resubmit
<1>4. log' = [log EXCEPT ![t] = rec]
  BY <1>1, <1>2 DEF Resubmit, TableTyped, Record
<1>5. slot \in Transaction
  <2>1. After(stamp, AckTimeout) \in Time
    BY ClockTyped, TimeAssumption DEF Time
  <2>2. FreeSlot \in Transaction
    BY TimeAssumption, SizesAssumption DEF FreeSlot, Transaction, Time
  <2>3. txn[s].retry + 1 \in 0..MaxRetries
    BY <1>2, SizesAssumption DEF Exhausted, Transaction
  <2>. QED
    BY <1>2, <2>1, <2>2, <2>3
    DEF Resubmitted, Transaction, LiveStates, NoRepair
<1>6. rec \in Record
  <2>1. log[t].submits + 1 \in 0..(MaxRetries + 1)
    BY <1>1, <1>2, SizesAssumption DEF Serves, Exhausted, Transaction
  <2>. QED
    BY <1>2, <2>1 DEF Record, Verdicts
<1>7. TableTyped'
  BY <1>1, <1>3, <1>4, <1>5, <1>6 DEF TableTyped
<1>8. \A u \in Slots : u # s => txn'[u] = txn[u]
  BY <1>3 DEF TableTyped
<1>9. txn'[s] = slot
  BY <1>3 DEF TableTyped
<1>10. log'[t] = rec /\ \A r \in Sends : r # t => log'[r] = log[r]
  BY <1>1, <1>4 DEF TableTyped
<1>11. CASE ok
  <2>1. /\ Active(s)'
        /\ txn'[s].send = t
        /\ txn'[s].packet = txn[s].packet
        /\ txn'[s].retry = txn[s].retry + 1
    BY <1>2, <1>9, <1>11 DEF Resubmitted, Active, LiveStates, Transaction
  <2>2. /\ log'[t].status = "open"
        /\ log'[t].packet = log[t].packet
        /\ log'[t].submits = log[t].submits + 1
    BY <1>1, <1>2, <1>10, <1>11 DEF Record
  <2>3. \A u \in Slots : Active(u)' <=> Active(u)
    BY <1>8, <2>1 DEF Active
  <2>4. \A u \in Slots : txn'[u].send = txn[u].send
    BY <1>8, <2>1
  <2>5. \A u \in Slots : Active(u)' => Serves(u)'
    <3>. SUFFICES ASSUME NEW u \in Slots, Active(u)'
                  PROVE  Serves(u)'
      OBVIOUS
    <3>1. CASE u = s
      <4>1. log[t].submits = txn[s].retry + 1 /\ log[t].packet = txn[s].packet
        BY <1>1 DEF Serves
      <4>. QED
        BY <3>1, <4>1, <1>1, <2>1, <2>2 DEF Serves
    <3>2. CASE u # s
      BY <3>2, <1>8, <1>10, <2>3 DEF TransactionsTracked, Serves
    <3>. QED
      BY <3>1, <3>2
  <2>6. \A r \in Sends : log'[r].status = "open" <=> log[r].status = "open"
    BY <1>1, <1>10, <2>2
  <2>. QED
    BY <1>7, <2>3, <2>4, <2>5, <2>6 DEF TransactionsTracked
<1>12. CASE ~ok
  <2>1. ~Active(s)'
    BY <1>9, <1>12 DEF Active, FreeSlot, LiveStates
  <2>2. log'[t].status # "open"
    BY <1>2, <1>10, <1>12 DEF Record
  <2>3. \A u \in Slots : Active(u)' => u # s /\ Active(u) /\ txn[u].send # t
    BY <1>1, <1>8, <2>1 DEF Active, TransactionsTracked
  <2>4. \A u \in Slots : Active(u)' => Serves(u)'
    BY <1>8, <1>10, <2>3 DEF Serves, TransactionsTracked
  <2>5. \A u, v \in Slots :
          Active(u)' /\ Active(v)' /\ txn'[u].send = txn'[v].send => u = v
    BY <1>8, <2>3 DEF TransactionsTracked
  <2>6. \A r \in Sends :
          log'[r].status = "open" =>
            \E u \in Slots : Active(u)' /\ txn'[u].send = r
    <3>. SUFFICES ASSUME NEW r \in Sends, log'[r].status = "open"
                  PROVE  \E u \in Slots : Active(u)' /\ txn'[u].send = r
      OBVIOUS
    <3>1. r # t /\ log[r].status = "open"
      BY <1>10, <2>2
    <3>2. PICK u \in Slots : Active(u) /\ txn[u].send = r
      BY <3>1 DEF TransactionsTracked
    <3>3. u # s
      BY <3>1, <3>2
    <3>. QED
      BY <3>2, <3>3, <1>8 DEF Active
  <2>. QED
    BY <1>7, <2>4, <2>5, <2>6 DEF TransactionsTracked
<1>. QED
  BY <1>11, <1>12

\* init() and deinit() leave no slot and no open transaction.
LEMMA WipeTracks ==
  ASSUME TableTyped, Wipe
  PROVE  TableTyped' /\ TransactionsTracked'
<1>1. FreeSlot \in Transaction
  BY TimeAssumption, SizesAssumption DEF FreeSlot, Transaction, Time
<1>2. \A s \in Slots : ~Active(s)'
  BY DEF Wipe, Active, FreeSlot, LiveStates
<1>3. \A r \in Sends : log'[r] \in Record /\ log'[r].status # "open"
  BY DEF Wipe, TableTyped, Record
<1>4. TableTyped'
  <2>1. txn' \in [Slots -> Transaction]
    BY <1>1 DEF Wipe
  <2>2. log' \in [Sends -> Record]
    BY <1>3 DEF Wipe
  <2>. QED
    BY <2>1, <2>2 DEF TableTyped
<1>. QED
  BY <1>2, <1>3, <1>4 DEF TransactionsTracked

\* A send either fills the slot it took and opens its transaction, or leaves
\* the table as it was and a failed transaction behind.
LEMMA SendTracks ==
  ASSUME TableTyped, TransactionsTracked, now \in Time,
         NEW s \in Slots, NEW t \in Sends, NEW p \in Packets,
         NEW ok \in BOOLEAN, Send(s, t, p, ok)
  PROVE  TableTyped' /\ TransactionsTracked'
<1>. DEFINE rec == [status |-> IF ok THEN "open" ELSE "FAILED",
                    packet |-> p, submits |-> 1]
<1>1. ~Active(s) /\ log[t].status = "none"
  BY DEF Send, IsFirst, FreeSlots, UnusedSends
<1>2. \A u \in Slots : Active(u) => u # s /\ txn[u].send # t
  BY <1>1 DEF TransactionsTracked, Serves
<1>3. log' = [log EXCEPT ![t] = rec]
  BY DEF Send
<1>4. rec \in Record
  BY SizesAssumption DEF Record, Verdicts
<1>5. log' \in [Sends -> Record]
  BY <1>3, <1>4 DEF TableTyped
<1>6. log'[t] = rec /\ \A r \in Sends : r # t => log'[r] = log[r]
  BY <1>3 DEF TableTyped
<1>7. CASE ok
  <2>1. NewTransaction(p, t) \in Transaction
    <3>1. After(now, AckTimeout) \in Time
      BY ClockTyped, TimeAssumption DEF Time
    <3>. QED
      BY <3>1, SizesAssumption DEF NewTransaction, Transaction, LiveStates
  <2>2. txn' = [txn EXCEPT ![s] = NewTransaction(p, t)]
    BY <1>7 DEF Send
  <2>3. txn' \in [Slots -> Transaction]
    BY <2>1, <2>2 DEF TableTyped
  <2>4. /\ txn'[s] = NewTransaction(p, t)
        /\ \A u \in Slots : u # s => txn'[u] = txn[u]
    BY <2>2 DEF TableTyped
  <2>5. Active(s)' /\ txn'[s].send = t /\ Serves(s)'
    BY <2>4, <1>6, <1>7 DEF NewTransaction, Active, LiveStates, Serves
  <2>6. \A u \in Slots : u # s /\ Active(u)' => Active(u) /\ txn[u].send # t
    BY <2>4, <1>2 DEF Active
  <2>7. \A u \in Slots : Active(u)' => Serves(u)'
    BY <2>4, <2>5, <2>6, <1>6 DEF TransactionsTracked, Serves
  <2>8. \A u, v \in Slots :
          Active(u)' /\ Active(v)' /\ txn'[u].send = txn'[v].send => u = v
    BY <2>4, <2>5, <2>6 DEF TransactionsTracked
  <2>9. \A r \in Sends :
          log'[r].status = "open" =>
            \E u \in Slots : Active(u)' /\ txn'[u].send = r
    <3>. SUFFICES ASSUME NEW r \in Sends, log'[r].status = "open", r # t
                  PROVE  \E u \in Slots : Active(u)' /\ txn'[u].send = r
      BY <2>5
    <3>1. PICK u \in Slots : Active(u) /\ txn[u].send = r
      BY <1>6 DEF TransactionsTracked
    <3>. QED
      BY <3>1, <1>2, <2>4 DEF Active
  <2>. QED
    BY <1>5, <2>3, <2>7, <2>8, <2>9 DEF TableTyped, TransactionsTracked
<1>8. CASE ~ok
  <2>1. txn' = txn
    BY <1>8 DEF Send
  <2>2. \A u \in Slots : Active(u)' <=> Active(u)
    BY <2>1 DEF Active
  <2>3. log'[t].status # "open"
    BY <1>6, <1>8
  <2>4. \A u \in Slots : Active(u)' => Serves(u)'
    BY <1>2, <1>6, <2>1, <2>2 DEF TransactionsTracked, Serves
  <2>5. \A r \in Sends : log'[r].status = "open" => log[r].status = "open"
    BY <1>6, <2>3
  <2>. QED
    BY <1>5, <2>1, <2>2, <2>4, <2>5 DEF TableTyped, TransactionsTracked
<1>. QED
  BY <1>7, <1>8

\* begin_repair() changes how a slot waits, not which transaction it serves.
LEMMA BeginRepairTracks ==
  ASSUME TableTyped, TransactionsTracked,
         NEW s \in Slots, NEW r \in RepairIds, BeginRepair(s, r)
  PROVE  TableTyped' /\ TransactionsTracked'
<1>. DEFINE slot == [txn[s] EXCEPT !.state = "REPAIR_PENDING", !.repair = r]
<1>1. txn[s] \in Transaction
  BY DEF TableTyped
<1>2. txn' = [txn EXCEPT ![s] = slot]
  BY <1>1 DEF BeginRepair, TableTyped, Transaction
<1>3. slot \in Transaction
  BY <1>1 DEF Transaction, LiveStates
<1>4. TableTyped'
  BY <1>2, <1>3 DEF TableTyped, BeginRepair
<1>5. \A u \in Slots :
        /\ Active(u)' <=> Active(u)
        /\ txn'[u].send = txn[u].send
        /\ txn'[u].packet = txn[u].packet
        /\ txn'[u].retry = txn[u].retry
  BY <1>1, <1>2
  DEF BeginRepair, TableTyped, Transaction, Active, Waiting, LiveStates
<1>6. log' = log
  BY DEF BeginRepair
<1>. QED
  BY <1>4, <1>5, <1>6 DEF TransactionsTracked, Serves

-----------------------------------------------------------------------------
(***************************************************************************)
(* Every step preserves Inv.                                               *)
(***************************************************************************)
LEMMA InitInv == Init => Inv
<1>. SUFFICES ASSUME Init PROVE Inv
  OBVIOUS
<1>1. FreeSlot \in Transaction /\ Unused \in Record
  BY TimeAssumption, SizesAssumption
  DEF FreeSlot, Unused, Transaction, Record, Time
<1>2. tick \in {Idle} \cup [slot : Slots, now : Time]
  BY DEF Init
<1>3. age \in [Slots -> 0..AckTimeout]
  BY TimeAssumption DEF Init
<1>4. TypeOK
  BY <1>1, <1>2, <1>3 DEF Init, TypeOK, Down
<1>5. TransactionsTracked
  BY DEF Init, TransactionsTracked, Active, FreeSlot, LiveStates, Unused
<1>. QED
  BY <1>4, <1>5 DEF Inv

\* The cursor of the tick moves within the array.
LEMMA TickTyped ==
  ASSUME tick \in {Idle} \cup [slot : Slots, now : Time], tick # Idle, TickAdvance
  PROVE  tick' \in {Idle} \cup [slot : Slots, now : Time]
<1>1. CASE tick.slot = MaxTransactions
  BY <1>1 DEF TickAdvance
<1>2. CASE tick.slot # MaxTransactions
  <2>1. tick.slot + 1 \in Slots
    BY <1>2, SizesAssumption DEF Slots
  <2>. QED
    BY <1>2, <2>1 DEF TickAdvance
<1>. QED
  BY <1>1, <1>2

LEMMA NextInv == Inv /\ [Next]_vars => Inv'
<1>. SUFFICES ASSUME Inv, [Next]_vars
              PROVE  Inv'
  OBVIOUS
<1>. USE DEF Inv
<1>1. TableTyped /\ TransactionsTracked
  BY DEF TypeOK, TableTyped
<1>2. ASSUME TableTyped' /\ TransactionsTracked',
             life' \in [initialized : BOOLEAN, started : BOOLEAN,
                        submit : BOOLEAN],
             now' \in Time,
             tick' \in {Idle} \cup [slot : Slots, now : Time],
             age' \in [Slots -> 0..AckTimeout]
      PROVE  Inv'
  BY <1>2 DEF TypeOK, TableTyped
<1>3. CASE Lifecycle
  <2>1. CASE InitCall
    BY <2>1, <1>1, <1>2, WipeTracks DEF InitCall, Wipe, TypeOK, Down
  <2>2. CASE DeinitCall
    BY <2>2, <1>1, <1>2, WipeTracks DEF DeinitCall, Wipe, TypeOK, Down
  <2>3. CASE StartCall
    BY <2>3 DEF StartCall, TypeOK, TransactionsTracked, Active, Serves
  <2>4. CASE SetSubmitCallback
    BY <2>4 DEF SetSubmitCallback, TypeOK, TransactionsTracked, Active, Serves
  <2>. QED
    BY <1>3, <2>1, <2>2, <2>3, <2>4 DEF Lifecycle
<1>4. ASSUME NEW s \in Slots, NEW t \in Sends, NEW p \in Packets,
             NEW ok \in BOOLEAN, Send(s, t, p, ok)
      PROVE  Inv'
  <2>1. TableTyped' /\ TransactionsTracked'
    BY <1>1, <1>4, SendTracks DEF TypeOK
  <2>2. age' \in [Slots -> 0..AckTimeout]
    BY <1>4, TimeAssumption DEF Send, TypeOK
  <2>. QED
    BY <1>2, <1>4, <2>1, <2>2 DEF Send, TypeOK
<1>5. ASSUME NEW s \in Slots, Active(s), NEW verdict \in Verdicts,
             Complete(s, verdict), UNCHANGED <<life, now, age>>,
             tick' \in {Idle} \cup [slot : Slots, now : Time]
      PROVE  Inv'
  <2>1. TableTyped' /\ TransactionsTracked'
    BY <1>1, <1>5, CompleteTracks
  <2>. QED
    BY <1>2, <1>5, <2>1 DEF TypeOK
<1>6. ASSUME NEW s \in Slots, Active(s), ~Exhausted(s), NEW stamp \in Time,
             NEW ok \in BOOLEAN, Resubmit(s, stamp, ok), UNCHANGED <<life, now>>,
             tick' \in {Idle} \cup [slot : Slots, now : Time]
      PROVE  Inv'
  <2>1. TableTyped' /\ TransactionsTracked'
    BY <1>1, <1>6, ResubmitTracks
  <2>2. CappedAge(Elapsed(stamp, now)) \in 0..AckTimeout
    BY <1>6, ClockTyped DEF TypeOK, Time
  <2>3. age' \in [Slots -> 0..AckTimeout]
    BY <1>6, <2>2 DEF Resubmit, TypeOK
  <2>. QED
    BY <1>2, <1>6, <2>1, <2>3 DEF TypeOK
<1>7. ASSUME NEW s \in Slots, NEW p \in Packets, ProcessAck(s, p)
      PROVE  Inv'
  <2>1. Active(s)
    BY <1>7
    DEF ProcessAck, IsFirst, AckedSlots, Waiting, Active, LiveStates
  <2>. QED
    BY <1>5, <1>7, <2>1 DEF ProcessAck, TypeOK, Verdicts
<1>8. ASSUME NEW s \in Slots, NEW r \in RepairIds, BeginRepair(s, r)
      PROVE  Inv'
  <2>1. TableTyped' /\ TransactionsTracked'
    BY <1>1, <1>8, BeginRepairTracks
  <2>. QED
    BY <1>2, <1>8, <2>1 DEF BeginRepair, TypeOK
<1>9. ASSUME NEW s \in Slots, RepairResult(s)
      PROVE  Inv'
  <2>1. PICK r \in RepairIds :
          \/ RepairFailed(s, r)
          \/ RepairTooLate(s, r)
          \/ \E ok \in BOOLEAN : RepairResumes(s, r, ok)
    BY <1>9 DEF RepairResult
  <2>2. Active(s)
    BY <2>1 DEF RepairFailed, RepairTooLate, RepairResumes, AwaitsRepair,
                Active, LiveStates
  <2>3. CASE RepairFailed(s, r)
    BY <1>5, <2>2, <2>3 DEF RepairFailed, TypeOK, Verdicts
  <2>4. CASE RepairTooLate(s, r)
    BY <1>5, <2>2, <2>4 DEF RepairTooLate, TypeOK, Verdicts
  <2>5. ASSUME NEW ok \in BOOLEAN, RepairResumes(s, r, ok)
        PROVE  Inv'
    BY <1>6, <2>2, <2>5 DEF RepairResumes, TypeOK
  <2>. QED
    BY <2>1, <2>3, <2>4, <2>5
<1>10. ASSUME NEW s \in Slots, Cancel(s)
       PROVE  Inv'
  BY <1>5, <1>10 DEF Cancel, TypeOK, Verdicts
<1>11. CASE Tick
  <2>1. CASE TickStart
    <3>1. [slot |-> 1, now |-> now] \in {Idle} \cup [slot : Slots, now : Time]
      BY SizesAssumption DEF Slots, TypeOK
    <3>. QED
      BY <2>1, <3>1 DEF TickStart, TypeOK, TransactionsTracked, Active, Serves
  <2>2. ASSUME tick # Idle, Waiting(tick.slot)
        PROVE  tick.slot \in Slots /\ tick.now \in Time /\ Active(tick.slot)
    BY <2>2 DEF Waiting, Active, LiveStates, TypeOK
  <2>3. CASE TickSkips
    BY <2>3, TickTyped
    DEF TickSkips, TypeOK, TransactionsTracked, Active, Serves
  <2>4. CASE TickGivesUp
    <3>1. tick.slot \in Slots /\ Active(tick.slot)
      BY <2>2, <2>4 DEF TickGivesUp, TimedOut
    <3>2. tick' \in {Idle} \cup [slot : Slots, now : Time]
      BY <2>4, TickTyped DEF TickGivesUp, TypeOK
    <3>. QED
      BY <1>5, <2>4, <3>1, <3>2 DEF TickGivesUp, Verdicts
  <2>5. ASSUME NEW ok \in BOOLEAN, TickRetransmits(ok)
        PROVE  Inv'
    <3>1. tick.slot \in Slots /\ tick.now \in Time /\ Active(tick.slot)
      BY <2>2, <2>5 DEF TickRetransmits, TimedOut
    <3>2. tick' \in {Idle} \cup [slot : Slots, now : Time]
      BY <2>5, TickTyped DEF TickRetransmits, TypeOK
    <3>. QED
      BY <1>6, <2>5, <3>1, <3>2 DEF TickRetransmits
  <2>. QED
    BY <1>11, <2>1, <2>3, <2>4, <2>5 DEF Tick
<1>12. CASE ClockAdvances
  <2>1. now' \in Time
    BY <1>12, ClockTyped DEF ClockAdvances, TypeOK, Time
  <2>2. age' \in [Slots -> 0..AckTimeout]
    <3>1. \A s \in Slots : CappedAge(age[s] + 1) \in 0..AckTimeout
      BY ClockTyped, TimeAssumption DEF TypeOK
    <3>. QED
      BY <1>12, <3>1 DEF ClockAdvances
  <2>. QED
    BY <1>12, <2>1, <2>2
    DEF ClockAdvances, TypeOK, TransactionsTracked, Active, Serves
<1>13. CASE UNCHANGED vars
  BY <1>13 DEF vars, TypeOK, TransactionsTracked, Active, Serves
<1>. QED
  BY <1>3, <1>4, <1>7, <1>8, <1>9, <1>10, <1>11, <1>12, <1>13 DEF Next

\* The table is typed and slots and open transactions correspond one to one
\* in every reachable state.
THEOREM Invariance == Spec => []Inv
BY InitInv, NextInv, PTL DEF Spec

\* Every variable keeps its type: no retry counter passes the limit, the
\* cursor of the tick stays in the array, the clock wraps.
THEOREM TypeCorrect == Spec => []TypeOK
BY Invariance, PTL DEF Inv

\* No open transaction is lost, served twice, or served after its end.
THEOREM Tracked == Spec => []TransactionsTracked
BY Invariance, PTL DEF Inv

-----------------------------------------------------------------------------
\* A tick step works on one waiting slot, if on any.
LEMMA TickTouchesOneWaitingSlot ==
  ASSUME Inv, [Next]_vars, tick' # tick
  PROVE  \/ txn' = txn /\ log' = log
         \/ /\ tick.slot \in Slots
            /\ Waiting(tick.slot)
            /\ \A s \in Slots : s # tick.slot => txn'[s] = txn[s]
            /\ \A t \in Sends : t # txn[tick.slot].send => log'[t] = log[t]
<1>1. Tick
  BY DEF Next, vars, Lifecycle, InitCall, DeinitCall, StartCall,
         SetSubmitCallback, Wipe, Send, ProcessAck, BeginRepair, RepairResult,
         RepairFailed, RepairTooLate, RepairResumes, Cancel, ClockAdvances
<1>2. CASE TickStart
  BY <1>2 DEF TickStart
<1>3. CASE TickSkips
  BY <1>3 DEF TickSkips
<1>4. ASSUME tick # Idle, TimedOut(tick.slot)
      PROVE  tick.slot \in Slots /\ Waiting(tick.slot)
  BY <1>4 DEF TimedOut, Inv, TypeOK
<1>5. CASE TickGivesUp
  BY <1>4, <1>5 DEF TickGivesUp, Complete, Inv, TypeOK
<1>6. ASSUME NEW ok \in BOOLEAN, TickRetransmits(ok)
      PROVE  /\ tick.slot \in Slots
             /\ Waiting(tick.slot)
             /\ \A s \in Slots : s # tick.slot => txn'[s] = txn[s]
             /\ \A t \in Sends : t # txn[tick.slot].send => log'[t] = log[t]
  BY <1>4, <1>6 DEF TickRetransmits, Resubmit, Inv, TypeOK
<1>. QED
  BY <1>1, <1>2, <1>3, <1>5, <1>6 DEF Tick

\* The tick leaves every transaction that waits for a route repair alone.
THEOREM RepairIsNeverTimedOut == Spec => RepairSuspends
<1>1. Inv /\ [Next]_vars =>
        [tick' # tick =>
           \A s \in Slots :
             txn[s].state = "REPAIR_PENDING" =>
               /\ txn'[s] = txn[s]
               /\ log'[txn[s].send] = log[txn[s].send]]_vars
  <2>. SUFFICES ASSUME Inv, [Next]_vars, tick' # tick,
                       NEW s \in Slots, txn[s].state = "REPAIR_PENDING"
                PROVE  /\ txn'[s] = txn[s]
                       /\ log'[txn[s].send] = log[txn[s].send]
    OBVIOUS
  <2>1. CASE txn' = txn /\ log' = log
    BY <2>1
  <2>2. CASE /\ tick.slot \in Slots
             /\ Waiting(tick.slot)
             /\ \A u \in Slots : u # tick.slot => txn'[u] = txn[u]
             /\ \A t \in Sends : t # txn[tick.slot].send => log'[t] = log[t]
    <3>1. s # tick.slot /\ Active(s) /\ Active(tick.slot)
      BY <2>2 DEF Waiting, Active, LiveStates
    <3>2. txn[s].send \in Sends /\ txn[s].send # txn[tick.slot].send
      BY <2>2, <3>1 DEF Inv, TransactionsTracked, Serves
    <3>. QED
      BY <2>2, <3>1, <3>2
  <2>. QED
    BY <2>1, <2>2, TickTouchesOneWaitingSlot
<1>. QED
  BY <1>1, Invariance, PTL DEF Spec, RepairSuspends

-----------------------------------------------------------------------------
(***************************************************************************)
(* Refinement: what happens to log is a behavior of ReliableDelivery.      *)
(***************************************************************************)
\* Finishing an active slot concludes its transaction.
LEMMA CompleteConcludes ==
  ASSUME Inv, NEW s \in Slots, Active(s), NEW verdict \in Verdicts,
         Complete(s, verdict)
  PROVE  Delivery!Next
<1>. DEFINE t == txn[s].send
<1>1. t \in Sends /\ log[t].status = "open"
  BY DEF Inv, TransactionsTracked, Serves
<1>2. Delivery!Conclude(t)
  BY <1>1
  DEF Complete, Delivery!Conclude, Delivery!Open, Delivery!Verdicts, Verdicts
<1>. QED
  BY <1>1, <1>2 DEF Delivery!Next, Delivery!Sends, Sends

\* A retransmission of a slot with budget left is one of its transaction.
LEMMA ResubmitRetransmits ==
  ASSUME Inv, NEW s \in Slots, Active(s), ~Exhausted(s),
         NEW stamp, NEW ok \in BOOLEAN, Resubmit(s, stamp, ok)
  PROVE  Delivery!Next
<1>. DEFINE t == txn[s].send
            status == IF ok THEN "open" ELSE "FAILED"
<1>1. t \in Sends /\ log[t].status = "open" /\ Serves(s)
  BY DEF Inv, TransactionsTracked, Serves
<1>2. log[t] \in Record /\ txn[s] \in Transaction
  BY <1>1 DEF Inv, TypeOK
<1>3. log[t].submits <= MaxRetries
  BY <1>1, <1>2, SizesAssumption DEF Serves, Exhausted, Transaction
<1>4. log' = [log EXCEPT ![t].submits = @ + 1, ![t].status = status]
  BY <1>1, <1>2 DEF Resubmit, Inv, TypeOK, Record
<1>5. Delivery!Retransmit(t)
  <2>1. status \in {"open", "FAILED"}
    OBVIOUS
  <2>. QED
    BY <1>1, <1>3, <1>4, <2>1 DEF Delivery!Retransmit, Delivery!Open
<1>. QED
  BY <1>1, <1>5 DEF Delivery!Next, Delivery!Sends, Sends

\* The table implements the abstract promise to the application: at most
\* MaxRetries + 1 submissions and one verdict, never revised.
THEOREM Implements == Spec => ImplementsDelivery
<1>1. Init => Delivery!Init
  BY DEF Init, Delivery!Init, Unused, Delivery!Unused, Sends, Delivery!Sends
<1>2. Inv /\ [Next]_vars => [Delivery!Next]_log
  <2>. SUFFICES ASSUME Inv, [Next]_vars, log' # log
                PROVE  Delivery!Next
    OBVIOUS
  <2>1. CASE Lifecycle
    <3>1. Wipe
      BY <2>1 DEF Lifecycle, InitCall, DeinitCall, StartCall, SetSubmitCallback
    <3>2. Delivery!DropAll
      BY <3>1
      DEF Wipe, Delivery!DropAll, Delivery!Open, Sends, Delivery!Sends
    <3>. QED
      BY <3>2 DEF Delivery!Next
  <2>2. ASSUME NEW s \in Slots, NEW t \in Sends, NEW p \in Packets,
               NEW ok \in BOOLEAN, Send(s, t, p, ok)
        PROVE  Delivery!Next
    <3>1. log[t].status = "none" /\ \A u \in UnusedSends : t <= u
      BY <2>2 DEF Send, IsFirst, UnusedSends
    <3>2. \A u \in Sends : u < t => log[u].status # "none"
      BY <3>1 DEF UnusedSends, Sends
    <3>3. log' = [log EXCEPT ![t] = [status |-> IF ok THEN "open" ELSE "FAILED",
                                     packet |-> p, submits |-> 1]]
      BY <2>2 DEF Send
    <3>4. Delivery!Accept(t, p)
      BY <3>1, <3>2, <3>3
      DEF Delivery!Accept, Delivery!Sends, Sends, Delivery!Unused, Unused
    <3>. QED
      BY <3>4 DEF Delivery!Next, Delivery!Sends, Sends
  <2>3. ASSUME NEW s \in Slots, NEW p \in Packets, ProcessAck(s, p)
        PROVE  Delivery!Next
    BY <2>3, CompleteConcludes
    DEF ProcessAck, IsFirst, AckedSlots, Waiting, Active, LiveStates, Verdicts
  <2>4. ASSUME NEW s \in Slots, RepairResult(s)
        PROVE  Delivery!Next
    BY <2>4, CompleteConcludes, ResubmitRetransmits
    DEF RepairResult, RepairFailed, RepairTooLate, RepairResumes, AwaitsRepair,
        Active, LiveStates, Verdicts
  <2>5. ASSUME NEW s \in Slots, Cancel(s)
        PROVE  Delivery!Next
    BY <2>5, CompleteConcludes DEF Cancel, Verdicts
  <2>6. CASE Tick
    <3>1. ASSUME tick # Idle, TimedOut(tick.slot)
          PROVE  tick.slot \in Slots /\ Active(tick.slot)
      BY <3>1 DEF TimedOut, Waiting, Active, LiveStates, Inv, TypeOK
    <3>2. CASE TickGivesUp
      BY <3>1, <3>2, CompleteConcludes DEF TickGivesUp, Verdicts
    <3>3. ASSUME NEW ok \in BOOLEAN, TickRetransmits(ok)
          PROVE  Delivery!Next
      BY <3>1, <3>3, ResubmitRetransmits DEF TickRetransmits
    <3>. QED
      BY <2>6, <3>2, <3>3 DEF Tick, TickStart, TickSkips
  <2>. QED
    BY <2>1, <2>2, <2>3, <2>4, <2>5, <2>6
    DEF Next, vars, BeginRepair, ClockAdvances
<1>. QED
  BY <1>1, <1>2, Invariance, PTL DEF Spec, ImplementsDelivery, Delivery!Spec

-----------------------------------------------------------------------------
(***************************************************************************)
(* The wrapping ACK deadlines are honoured, for every timeout and every    *)
(* clock at least twice as wide as the timeout and the scheduling delay    *)
(* together.  The inductive invariant, TimerInv, ties the deadline of a    *)
(* waiting slot to the time that has really passed: reading the clock      *)
(* AckTimeout ahead, the distance from the deadline is the age of the last *)
(* submission, and it stays below AckTimeout + MaxTickLag because the      *)
(* clock waits for the tick.                                               *)
(***************************************************************************)

\* Time since the stamp of the last submission, read off the deadline.
Behind(s) == Elapsed(txn[s].deadline, After(now, AckTimeout))

TimerInv ==
  /\ \A s \in Slots :
       Waiting(s) => /\ Behind(s) <= AckTimeout + MaxTickLag
                     /\ age[s] = CappedAge(Behind(s))
  /\ tick # Idle => Elapsed(tick.now, now) <= MaxTickLag

-----------------------------------------------------------------------------
\* The modulo of a sum of two readings.
LEMMA ModuloOnce ==
  ASSUME NEW x \in Nat, x < 2 * TimeModulus
  PROVE  x % TimeModulus = IF x < TimeModulus THEN x ELSE x - TimeModulus
<1>. USE TimeAssumption
<1>1. CASE x < TimeModulus
  BY <1>1
<1>2. CASE x >= TimeModulus
  <2>1. PICK y \in Nat : y = x - TimeModulus /\ y < TimeModulus
     BY <1>2
  <2>2. y % TimeModulus = y
     BY <2>1
  <2>3. (y + TimeModulus) % TimeModulus = y
     BY <2>1, <2>2
  <2>. QED BY <2>1, <2>3, <1>2
<1>. QED
  BY <1>1, <1>2

\* A deadline, read without the modulus.
LEMMA AfterValue ==
  ASSUME NEW t \in Time, NEW d \in Nat, d < TimeModulus
  PROVE  /\ After(t, d) \in Time
         /\ After(t, d) = IF t + d < TimeModulus THEN t + d
                                                 ELSE t + d - TimeModulus
<1>. DEFINE x == t + d
<1>1. x \in Nat /\ x < 2 * TimeModulus
  BY TimeAssumption DEF Time
<1>2. After(t, d) = x % TimeModulus
  BY DEF After
<1>. HIDE DEF x
<1>3. x % TimeModulus = IF x < TimeModulus THEN x ELSE x - TimeModulus
  BY <1>1, ModuloOnce
<1>. QED
  BY <1>1, <1>2, <1>3, TimeAssumption DEF Time, x

\* The distance between two readings of the clock, without the modulus.
LEMMA ElapsedValue ==
  ASSUME NEW since \in Time, NEW t \in Time
  PROVE  Elapsed(since, t) = IF since <= t THEN t - since
                                           ELSE t - since + TimeModulus
<1>. DEFINE x == t + (TimeModulus - since)
<1>1. x \in Nat /\ x < 2 * TimeModulus
  BY TimeAssumption DEF Time
<1>2. Elapsed(since, t) = x % TimeModulus
  BY DEF Elapsed
<1>. HIDE DEF x
<1>3. x % TimeModulus = IF x < TimeModulus THEN x ELSE x - TimeModulus
  BY <1>1, ModuloOnce
<1>. QED
  BY <1>1, <1>2, <1>3, TimeAssumption DEF Time, x

\* A deadline set less than AckTimeout ago has not passed for a tick whose
\* now_ms is at most MaxTickLag old: time_reached() is not fooled by the wrap.
LEMMA NotReachedEarly ==
  ASSUME NEW deadline \in Time, NEW n \in Time, NEW then \in Time,
         Elapsed(then, n) <= MaxTickLag,
         Elapsed(deadline, After(n, AckTimeout)) < AckTimeout
  PROVE ~TimeReached(then, deadline)
<1>. DEFINE b == After(n, AckTimeout)
<1>1. AckTimeout \in Nat /\ AckTimeout < TimeModulus
  BY TimeAssumption
<1>2. b \in Time /\ b = IF n + AckTimeout < TimeModulus THEN n + AckTimeout ELSE n + AckTimeout - TimeModulus
  BY <1>1, AfterValue
<1>. HIDE DEF b
<1>3. Elapsed(deadline, b) = IF deadline <= b THEN b - deadline ELSE b - deadline + TimeModulus
  BY <1>2, ElapsedValue
<1>4. Elapsed(then, n) = IF then <= n THEN n - then ELSE n - then + TimeModulus
  BY ElapsedValue
<1>5. Elapsed(deadline, then) = IF deadline <= then THEN then - deadline ELSE then - deadline + TimeModulus
  BY ElapsedValue
<1>6. Elapsed(deadline, b) < AckTimeout
  BY DEF b
<1>. QED
  BY <1>2, <1>3, <1>4, <1>5, <1>6, TimeAssumption DEF TimeReached, Time

\* The age of a submission can be read off its deadline.
LEMMA DeadlineKeepsStamp ==
  ASSUME NEW stamp \in Time, NEW n \in Time
  PROVE Elapsed(After(stamp, AckTimeout), After(n, AckTimeout)) = Elapsed(stamp, n)
<1>. DEFINE a == After(stamp, AckTimeout)
            b == After(n, AckTimeout)
<1>1. AckTimeout \in Nat /\ AckTimeout < TimeModulus
  BY TimeAssumption
<1>2. a \in Time /\ a = IF stamp + AckTimeout < TimeModulus THEN stamp + AckTimeout ELSE stamp + AckTimeout - TimeModulus
  BY <1>1, AfterValue
<1>3. b \in Time /\ b = IF n + AckTimeout < TimeModulus THEN n + AckTimeout ELSE n + AckTimeout - TimeModulus
  BY <1>1, AfterValue
<1>. HIDE DEF a, b
<1>4. Elapsed(a, b) = IF a <= b THEN b - a ELSE b - a + TimeModulus
  BY <1>2, <1>3, ElapsedValue
<1>5. Elapsed(stamp, n) = IF stamp <= n THEN n - stamp ELSE n - stamp + TimeModulus
  BY ElapsedValue
<1>6. Elapsed(a, b) = Elapsed(stamp, n)
  BY <1>1, <1>2, <1>3, <1>4, <1>5, TimeAssumption DEF Time
<1>. QED
  BY <1>6 DEF a, b

\* While the tick keeps up, one more unit on the clock is one more unit of age.
LEMMA OneUnitOlder ==
  ASSUME NEW deadline \in Time, NEW n \in Time,
         n # After(deadline, MaxTickLag),
         Elapsed(deadline, After(n, AckTimeout)) <= AckTimeout + MaxTickLag
  PROVE  /\ Elapsed(deadline, After(After(n, 1), AckTimeout))
              = Elapsed(deadline, After(n, AckTimeout)) + 1
         /\ Elapsed(deadline, After(n, AckTimeout)) < AckTimeout + MaxTickLag
<1>. DEFINE a == After(deadline, MaxTickLag)
            b == After(n, AckTimeout)
            m == After(n, 1)
            c == After(m, AckTimeout)
<1>1. /\ AckTimeout \in Nat /\ AckTimeout < TimeModulus
      /\ MaxTickLag \in Nat /\ MaxTickLag < TimeModulus
      /\ 1 \in Nat /\ 1 < TimeModulus
  BY TimeAssumption
<1>2. a \in Time /\ a = IF deadline + MaxTickLag < TimeModulus THEN deadline + MaxTickLag ELSE deadline + MaxTickLag - TimeModulus
  BY <1>1, AfterValue
<1>3. b \in Time /\ b = IF n + AckTimeout < TimeModulus THEN n + AckTimeout ELSE n + AckTimeout - TimeModulus
  BY <1>1, AfterValue
<1>4. m \in Time /\ m = IF n + 1 < TimeModulus THEN n + 1 ELSE n + 1 - TimeModulus
  BY <1>1, AfterValue
<1>. HIDE DEF m
<1>5. c \in Time /\ c = IF m + AckTimeout < TimeModulus THEN m + AckTimeout ELSE m + AckTimeout - TimeModulus
  BY <1>1, <1>4, AfterValue
<1>6. n # a /\ Elapsed(deadline, b) <= AckTimeout + MaxTickLag
  OBVIOUS
<1>. HIDE DEF a, b, c
<1>7. Elapsed(deadline, b) = IF deadline <= b THEN b - deadline ELSE b - deadline + TimeModulus
  BY <1>3, ElapsedValue
<1>8. Elapsed(deadline, c) = IF deadline <= c THEN c - deadline ELSE c - deadline + TimeModulus
  BY <1>5, ElapsedValue
<1>9. Elapsed(deadline, c) = Elapsed(deadline, b) + 1 /\ Elapsed(deadline, b) < AckTimeout + MaxTickLag
  BY <1>1, <1>2, <1>3, <1>4, <1>5, <1>6, <1>7, <1>8, TimeAssumption DEF Time
<1>. QED
  BY <1>9 DEF a, b, c, m

-----------------------------------------------------------------------------
\* A submission stamped at most MaxTickLag ago starts a fresh deadline.
LEMMA FreshDeadline ==
  ASSUME Inv, NEW stamp \in Time, Elapsed(stamp, now) <= MaxTickLag
  PROVE  /\ Elapsed(After(stamp, AckTimeout), After(now, AckTimeout))
              = Elapsed(stamp, now)
         /\ Elapsed(After(stamp, AckTimeout), After(now, AckTimeout))
              <= AckTimeout + MaxTickLag
<1>1. now \in Time
  BY DEF Inv, TypeOK
<1>2. Elapsed(After(stamp, AckTimeout), After(now, AckTimeout))
        = Elapsed(stamp, now)
  BY <1>1, DeadlineKeepsStamp
<1>3. Elapsed(stamp, now) \in Nat
  BY <1>1, ClockTyped DEF Time
<1>. QED
  BY <1>2, <1>3, TimeAssumption

\* A slot that keeps its contents, while clock, age and tick stand still or
\* the tick only moves on, keeps its timer.
LEMMA NextTimer == Inv /\ TimerInv /\ [Next]_vars => TimerInv'
<1>. SUFFICES ASSUME Inv, TimerInv, [Next]_vars
              PROVE  TimerInv'
  OBVIOUS
<1>1. now \in Time /\ Elapsed(now, now) = 0
  BY ElapsedValue, TimeAssumption DEF Inv, TypeOK, Time
<1>2. ASSUME now' = now,
             \A s \in Slots : Waiting(s)' =>
               \/ /\ Waiting(s)
                  /\ txn'[s].deadline = txn[s].deadline
                  /\ age'[s] = age[s]
               \/ \E stamp \in Time :
                    /\ Elapsed(stamp, now) <= MaxTickLag
                    /\ txn'[s].deadline = After(stamp, AckTimeout)
                    /\ age'[s] = CappedAge(Elapsed(stamp, now)),
             tick' # Idle => tick' = [slot |-> 1, now |-> now]
                             \/ (tick # Idle /\ tick'.now = tick.now)
      PROVE  TimerInv'
  <2>1. ASSUME NEW s \in Slots, Waiting(s)'
        PROVE  /\ Behind(s)' <= AckTimeout + MaxTickLag
               /\ age'[s] = CappedAge(Behind(s)')
    <3>1. CASE Waiting(s) /\ txn'[s].deadline = txn[s].deadline
               /\ age'[s] = age[s]
      BY <1>2, <3>1 DEF TimerInv, Behind
    <3>2. CASE \E stamp \in Time :
                 /\ Elapsed(stamp, now) <= MaxTickLag
                 /\ txn'[s].deadline = After(stamp, AckTimeout)
                 /\ age'[s] = CappedAge(Elapsed(stamp, now))
      BY <1>2, <3>2, FreshDeadline DEF Behind
    <3>. QED
      BY <1>2, <2>1, <3>1, <3>2
  <2>2. tick' # Idle => Elapsed(tick'.now, now') <= MaxTickLag
    BY <1>1, <1>2, TimeAssumption DEF TimerInv
  <2>. QED
    BY <2>1, <2>2 DEF TimerInv
<1>3. CASE Lifecycle
  <2>1. CASE InitCall \/ DeinitCall
    BY <2>1, <1>2
    DEF InitCall, DeinitCall, Wipe, Waiting, FreeSlot
  <2>2. CASE StartCall \/ SetSubmitCallback
    BY <2>2, <1>2 DEF StartCall, SetSubmitCallback, Waiting
  <2>. QED
    BY <1>3, <2>1, <2>2 DEF Lifecycle
<1>4. ASSUME NEW s \in Slots, NEW t \in Sends, NEW p \in Packets,
             NEW ok \in BOOLEAN, Send(s, t, p, ok)
      PROVE  TimerInv'
  <2>1. Elapsed(now, now) <= MaxTickLag /\ CappedAge(Elapsed(now, now)) = 0
    BY <1>1, TimeAssumption DEF CappedAge
  <2>2. ~Waiting(s)
    BY <1>4 DEF Send, IsFirst, FreeSlots, Active, Waiting, LiveStates
  <2>3. \A u \in Slots : u # s => txn'[u] = txn[u] /\ age'[u] = age[u]
    BY <1>4 DEF Send, Inv, TypeOK
  <2>4. Waiting(s)' => /\ txn'[s].deadline = After(now, AckTimeout)
                       /\ age'[s] = 0
    BY <1>4, <2>2 DEF Send, Waiting, NewTransaction, Inv, TypeOK
  <2>. QED
    BY <1>1, <1>2, <1>4, <2>1, <2>3, <2>4 DEF Send, Waiting
<1>5. ASSUME NEW s \in Slots, NEW verdict, Complete(s, verdict),
             UNCHANGED <<now, age>>,
             tick' = tick \/ (tick # Idle /\ TickAdvance)
      PROVE  TimerInv'
  <2>1. \A u \in Slots : Waiting(u)' => /\ Waiting(u)
                                        /\ txn'[u].deadline = txn[u].deadline
    BY <1>5 DEF Complete, Waiting, FreeSlot, Inv, TypeOK
  <2>2. tick' # Idle => tick # Idle /\ tick'.now = tick.now
    BY <1>5 DEF TickAdvance, Inv, TypeOK, Idle
  <2>. QED
    BY <1>2, <1>5, <2>1, <2>2
<1>6. ASSUME NEW s \in Slots, NEW stamp \in Time, NEW ok \in BOOLEAN,
             Elapsed(stamp, now) <= MaxTickLag,
             Resubmit(s, stamp, ok), now' = now,
             tick' = tick \/ (tick # Idle /\ TickAdvance)
      PROVE  TimerInv'
  <2>1. \A u \in Slots : u # s => txn'[u] = txn[u] /\ age'[u] = age[u]
    BY <1>6 DEF Resubmit, Inv, TypeOK
  <2>2. txn'[s] = IF ok THEN Resubmitted(s, stamp) ELSE FreeSlot
    BY <1>6 DEF Resubmit, Inv, TypeOK
  <2>3. Waiting(s)' => txn'[s].deadline = After(stamp, AckTimeout)
    BY <2>2 DEF Waiting, Resubmitted, FreeSlot, Inv, TypeOK, Transaction
  <2>4. age'[s] = CappedAge(Elapsed(stamp, now))
    BY <1>6 DEF Resubmit, Inv, TypeOK
  <2>5. tick' # Idle => tick # Idle /\ tick'.now = tick.now
    BY <1>6 DEF TickAdvance, Inv, TypeOK, Idle
  <2>. QED
    BY <1>2, <1>6, <2>1, <2>3, <2>4, <2>5 DEF Waiting
<1>7. ASSUME NEW s \in Slots, NEW p \in Packets, ProcessAck(s, p)
      PROVE  TimerInv'
  BY <1>5, <1>7 DEF ProcessAck
<1>8. ASSUME NEW s \in Slots, NEW r \in RepairIds, BeginRepair(s, r)
      PROVE  TimerInv'
  <2>1. \A u \in Slots : Waiting(u)' => Waiting(u) /\ txn'[u] = txn[u]
    BY <1>8 DEF BeginRepair, Waiting, Inv, TypeOK, Transaction
  <2>. QED
    BY <1>2, <1>8, <2>1 DEF BeginRepair
<1>9. ASSUME NEW s \in Slots, RepairResult(s)
      PROVE  TimerInv'
  <2>1. Elapsed(now, now) <= MaxTickLag
    BY <1>1, TimeAssumption
  <2>. QED
    BY <1>1, <1>5, <1>6, <1>9, <2>1
    DEF RepairResult, RepairFailed, RepairTooLate, RepairResumes
<1>10. ASSUME NEW s \in Slots, Cancel(s)
       PROVE  TimerInv'
  BY <1>5, <1>10 DEF Cancel
<1>11. CASE Tick
  <2>1. CASE TickStart
    BY <2>1, <1>2 DEF TickStart, Waiting
  <2>2. ASSUME tick # Idle
        PROVE  /\ tick.slot \in Slots
               /\ tick.now \in Time
               /\ Elapsed(tick.now, now) <= MaxTickLag
    BY <2>2 DEF Inv, TypeOK, TimerInv
  <2>3. CASE TickSkips
    <3>1. tick' # Idle => tick # Idle /\ tick'.now = tick.now
      BY <2>3 DEF TickSkips, TickAdvance, Inv, TypeOK, Idle
    <3>. QED
      BY <2>3, <3>1, <1>2 DEF TickSkips, Waiting
  <2>4. CASE TickGivesUp
    BY <1>5, <2>2, <2>4 DEF TickGivesUp
  <2>5. ASSUME NEW ok \in BOOLEAN, TickRetransmits(ok)
        PROVE  TimerInv'
    BY <1>6, <2>2, <2>5 DEF TickRetransmits
  <2>. QED
    BY <1>11, <2>1, <2>3, <2>4, <2>5 DEF Tick
<1>12. CASE ClockAdvances
  <2>1. ASSUME NEW s \in Slots, Waiting(s)'
        PROVE  /\ Behind(s)' <= AckTimeout + MaxTickLag
               /\ age'[s] = CappedAge(Behind(s)')
    <3>1. Waiting(s) /\ txn'[s] = txn[s] /\ txn[s].deadline \in Time
      BY <1>12, <2>1 DEF ClockAdvances, Waiting, Inv, TypeOK, Transaction
    <3>2. Behind(s) <= AckTimeout + MaxTickLag /\ age[s] = CappedAge(Behind(s))
      BY <3>1 DEF TimerInv
    <3>3. Behind(s) \in Nat
      <4>1. After(now, AckTimeout) \in Time
        BY <1>1, AfterValue, TimeAssumption
      <4>2. Behind(s) \in Time
        BY <3>1, <4>1, ClockTyped DEF Behind
      <4>. QED
        BY <4>2 DEF Time
    <3>4. now # After(txn[s].deadline, MaxTickLag) /\ now' = After(now, 1)
      BY <1>12, <3>1 DEF ClockAdvances, TickKeepsUp
    <3>5. Behind(s)' = Behind(s) + 1 /\ Behind(s) < AckTimeout + MaxTickLag
      BY <1>1, <3>1, <3>2, <3>4, OneUnitOlder DEF Behind
    <3>6. age'[s] = CappedAge(CappedAge(Behind(s)) + 1)
      BY <1>12, <3>2 DEF ClockAdvances
    <3>. QED
      BY <3>3, <3>5, <3>6, TimeAssumption DEF CappedAge
  <2>2. ASSUME tick' # Idle
        PROVE  Elapsed(tick'.now, now') <= MaxTickLag
    <3>1. tick' = tick /\ tick.now \in Time /\ now # After(tick.now, MaxTickLag)
      BY <1>12, <2>2 DEF ClockAdvances, TickKeepsUp, Inv, TypeOK
    <3>2. Elapsed(tick.now, now) <= MaxTickLag
      BY <2>2, <3>1 DEF TimerInv
    <3>3. now' = After(now, 1)
      BY <1>12 DEF ClockAdvances
    <3>. DEFINE a == After(tick.now, MaxTickLag)
                m == After(now, 1)
                then == tick.now
    <3>4. /\ m \in Time
          /\ m = IF now + 1 < TimeModulus THEN now + 1 ELSE now + 1 - TimeModulus
      BY <1>1, AfterValue, TimeAssumption
    <3>5. a = IF then + MaxTickLag < TimeModulus
                THEN then + MaxTickLag ELSE then + MaxTickLag - TimeModulus
      BY <3>1, AfterValue, TimeAssumption
    <3>6. now # a /\ then \in Time
      BY <3>1
    <3>. HIDE DEF a, m, then
    <3>7. Elapsed(then, m) = IF then <= m THEN m - then
                                          ELSE m - then + TimeModulus
      BY <3>4, <3>6, ElapsedValue
    <3>8. Elapsed(then, now) = IF then <= now THEN now - then
                                              ELSE now - then + TimeModulus
      BY <1>1, <3>6, ElapsedValue
    <3>9. Elapsed(then, now) <= MaxTickLag
      BY <3>2 DEF then
    <3>10. Elapsed(then, m) <= MaxTickLag
      BY <1>1, <3>4, <3>5, <3>6, <3>7, <3>8, <3>9, TimeAssumption DEF Time
    <3>. QED
      BY <3>1, <3>3, <3>10 DEF m, then
  <2>. QED
    BY <2>1, <2>2 DEF TimerInv
<1>13. CASE UNCHANGED vars
  BY <1>2, <1>13 DEF vars, Waiting
<1>. QED
  BY <1>3, <1>4, <1>7, <1>8, <1>9, <1>10, <1>11, <1>12, <1>13 DEF Next

-----------------------------------------------------------------------------
\* A waiting transaction is resubmitted or given up only after the whole ACK
\* timeout, wherever the clock wraps.
THEOREM TimeoutsAreHonoured == Spec => TimerHonoured
<1>1. Init => TimerInv
  BY DEF Init, TimerInv, Waiting, FreeSlot
<1>2. Inv /\ TimerInv /\ [Next]_vars =>
        [\A s \in Slots :
           /\ Waiting(s)
           /\ \/ log'[txn[s].send].submits # log[txn[s].send].submits
              \/ log'[txn[s].send].status = "FAILED"
           => age[s] = AckTimeout]_vars
  <2>. SUFFICES ASSUME Inv, TimerInv, [Next]_vars,
                       NEW s \in Slots, Waiting(s),
                       \/ log'[txn[s].send].submits # log[txn[s].send].submits
                       \/ log'[txn[s].send].status = "FAILED"
                PROVE  age[s] = AckTimeout
    OBVIOUS
  <2>1. Active(s) /\ txn[s].send \in Sends /\ log[txn[s].send].status = "open"
    BY DEF Waiting, Active, LiveStates, Inv, TransactionsTracked, Serves
  <2>2. ASSUME NEW u \in Slots, Active(u), u # s
        PROVE  txn[u].send # txn[s].send
    BY <2>1, <2>2 DEF Inv, TransactionsTracked
  <2>3. ASSUME tick # Idle, TimedOut(tick.slot), tick.slot = s
        PROVE  age[s] = AckTimeout
    <3>1. /\ tick.now \in Time /\ now \in Time
          /\ txn[s].deadline \in Time
          /\ Elapsed(tick.now, now) <= MaxTickLag
      BY <2>3 DEF Inv, TypeOK, TimerInv, Transaction
    <3>2. TimeReached(tick.now, txn[s].deadline)
      BY <2>3 DEF TimedOut
    <3>3. ~(Behind(s) < AckTimeout)
      BY <3>1, <3>2, NotReachedEarly DEF Behind
    <3>4. age[s] = CappedAge(Behind(s))
      BY DEF TimerInv
    <3>. QED
      BY <3>3, <3>4 DEF CappedAge
  <2>4. CASE Lifecycle
    BY <2>1, <2>4
    DEF Lifecycle, InitCall, DeinitCall, StartCall, SetSubmitCallback, Wipe,
        Inv, TypeOK, Record
  <2>5. ASSUME NEW u \in Slots, NEW t \in Sends, NEW p \in Packets,
               NEW ok \in BOOLEAN, Send(u, t, p, ok)
        PROVE  FALSE
    <3>1. t # txn[s].send
      BY <2>1, <2>5 DEF Send, IsFirst, UnusedSends
    <3>. QED
      BY <2>1, <2>5, <3>1 DEF Send, Inv, TypeOK
  <2>6. ASSUME NEW u \in Slots, Active(u), NEW verdict, Complete(u, verdict),
               u # s \/ verdict # "FAILED"
        PROVE  FALSE
    BY <2>1, <2>2, <2>6 DEF Complete, Inv, TypeOK, Record
  <2>7. ASSUME NEW u \in Slots, Active(u), NEW stamp, NEW ok \in BOOLEAN,
               Resubmit(u, stamp, ok), u # s
        PROVE  FALSE
    <3>1. txn[u].send # txn[s].send
      BY <2>2, <2>7
    <3>2. log'[txn[s].send] = log[txn[s].send]
      BY <2>1, <2>7, <3>1 DEF Resubmit, Inv, TypeOK
    <3>. QED
      BY <2>1, <3>2
  <2>8. ASSUME NEW u \in Slots, NEW p \in Packets, ProcessAck(u, p)
        PROVE  FALSE
    BY <2>6, <2>8
    DEF ProcessAck, IsFirst, AckedSlots, Waiting, Active, LiveStates
  <2>9. ASSUME NEW u \in Slots, RepairResult(u)
        PROVE  FALSE
    <3>1. u # s /\ Active(u)
      BY <2>9 DEF RepairResult, RepairFailed, RepairTooLate, RepairResumes,
                  AwaitsRepair, Waiting, Active, LiveStates
    <3>. QED
      BY <2>6, <2>7, <2>9, <3>1
      DEF RepairResult, RepairFailed, RepairTooLate, RepairResumes
  <2>10. ASSUME NEW u \in Slots, Cancel(u)
         PROVE  FALSE
    BY <2>6, <2>10 DEF Cancel
  <2>11. CASE Tick
    <3>1. ASSUME tick # Idle, TimedOut(tick.slot)
          PROVE  tick.slot \in Slots /\ Active(tick.slot)
      BY <3>1 DEF TimedOut, Waiting, Active, LiveStates, Inv, TypeOK
    <3>2. CASE TickGivesUp
      BY <2>3, <2>6, <3>1, <3>2 DEF TickGivesUp
    <3>3. ASSUME NEW ok \in BOOLEAN, TickRetransmits(ok)
          PROVE  age[s] = AckTimeout
      BY <2>3, <2>7, <3>1, <3>3 DEF TickRetransmits
    <3>4. CASE TickStart \/ TickSkips
      BY <2>1, <3>4 DEF TickStart, TickSkips
    <3>. QED
      BY <2>11, <3>2, <3>3, <3>4 DEF Tick
  <2>12. CASE UNCHANGED log
    BY <2>1, <2>12
  <2>. QED
    BY <2>4, <2>5, <2>8, <2>9, <2>10, <2>11, <2>12
    DEF Next, vars, BeginRepair, ClockAdvances
<1>. QED
  BY <1>1, <1>2, NextTimer, Invariance, PTL DEF Spec, TimerHonoured

=============================================================================
