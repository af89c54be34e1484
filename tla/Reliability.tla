----------------------------- MODULE Reliability -----------------------------
(***************************************************************************)
(* The Reliability transaction table of src/main/core/reliability/         *)
(* enp_reliability.c: a fixed array of slots, each holding one reliable    *)
(* DATA transaction that is submitted, retransmitted when its ACK deadline *)
(* passes, suspended while a route repair runs, and finished exactly once. *)
(*                                                                         *)
(* One action per call of the API; the periodic tick, which walks the      *)
(* whole array, is one step per slot because the code holds no lock and    *)
(* the other tasks run between two slots.  What submit_transaction()       *)
(* returns is the parameter ok: here the environment chooses it, and the   *)
(* module ReliableRepair replaces the choice by the E5E submit path.       *)
(***************************************************************************)
EXTENDS Naturals

CONSTANTS
  Packets,         \* DATA packets, told apart as the ACK does: source,
                   \* destination, packet sequence, application sequence
  NoPacket,        \* content of a free slot
  MaxTransactions, \* ENP_RELIABILITY_MAX_TRANSACTIONS
  MaxRetries,      \* ENP_RELIABILITY_MAX_RETRIES
  AckTimeout,      \* ENP_RELIABILITY_ACK_TIMEOUT_MS, in clock units
  TimeModulus,     \* the clock is unsigned and wraps here (2^32 in C)
  MaxTickLag,      \* how overdue a deadline may get before the tick task
                   \* has looked at it (bound on the scheduling delay)
  RepairIds,       \* repair operations the integration layer may name
  MaxSends         \* bound of the model: transactions created in a behavior

ASSUME PacketsAssumption == NoPacket \notin Packets
ASSUME SizesAssumption ==
  /\ MaxTransactions \in Nat \ {0}
  /\ MaxRetries \in Nat
  /\ MaxSends \in Nat
ASSUME TimeAssumption ==
  /\ AckTimeout \in Nat \ {0}
  /\ TimeModulus \in Nat \ {0}
  /\ MaxTickLag \in Nat \ {0}
  /\ 2 * (AckTimeout + MaxTickLag) < TimeModulus
ASSUME RepairAssumption == RepairIds \subseteq Nat \ {0}

VARIABLES
  life,  \* s_initialized, s_started and whether a submit callback is set
  txn,   \* s_transactions
  now,   \* the millisecond clock the callers read
  tick,  \* the running enp_reliability_tick(): its slot and its now_ms
  age,   \* history: time since the now_ms the last submission was stamped
         \* with, counted without wrapping and only up to AckTimeout
  log    \* history: every transaction ever created and what became of it

vars == <<life, txn, now, tick, age, log>>

Slots   == 1..MaxTransactions   \* a handle is the index of the slot plus one
Sends   == 1..MaxSends
Time    == 0..(TimeModulus - 1)
NoSend  == 0
NoRepair == 0                   \* ENP_RELIABILITY_INVALID_REPAIR_ID

LiveStates == {"WAITING_FOR_ACK", "REPAIR_PENDING"}
Verdicts   == {"DELIVERED", "FAILED", "CANCELLED"}

Down == [initialized |-> FALSE, started |-> FALSE, submit |-> FALSE]

\* A slot with active = false.  The code leaves the last contents in place
\* and clears them on the next allocation; no call reads them before.
FreeSlot == [state |-> "INVALID", packet |-> NoPacket, retry |-> 0,
             deadline |-> 0, repair |-> NoRepair, send |-> NoSend]

Unused == [status |-> "none", packet |-> NoPacket, submits |-> 0]
Idle   == [slot |-> 0, now |-> 0]

Active(s)  == txn[s].state \in LiveStates
Waiting(s) == txn[s].state = "WAITING_FOR_ACK"

\* s is the first element of S in the order of the code's loops.
IsFirst(s, S) == s \in S /\ \A t \in S : s <= t

FreeUnlessWaiting == {s \in Slots : ~Waiting(s)}  \* variant of FreeSlots
FreeSlots   == {s \in Slots : ~Active(s)}
UnusedSends == {t \in Sends : log[t].status = "none"}

(***************************************************************************)
(* Time.  time_reached() compares through a signed difference.             *)
(***************************************************************************)
After(t, d)           == (t + d) % TimeModulus
Elapsed(since, t)     == (t + (TimeModulus - since)) % TimeModulus
TimeReachedUnsigned(t, limit) == t >= limit  \* variant of TimeReached
TimeReached(t, limit) == 2 * Elapsed(limit, t) < TimeModulus
CappedAge(d)          == IF d < AckTimeout THEN d ELSE AckTimeout

(***************************************************************************)
(* complete_transaction(): the slot is released and the verdict reported.  *)
(***************************************************************************)
\* Variant of Complete: the verdict is reported, the slot stays in use.
CompleteKeepsSlot(s, verdict) ==
  /\ txn' = txn
  /\ log' = [log EXCEPT ![txn[s].send].status = verdict]

Complete(s, verdict) ==
  /\ txn' = [txn EXCEPT ![s] = FreeSlot]
  /\ log' = [log EXCEPT ![txn[s].send].status = verdict]

\* The retransmission shared by the tick and by a finished repair.
Resubmitted(s, stamp) ==
  [txn[s] EXCEPT !.state = "WAITING_FOR_ACK", !.retry = @ + 1,
                 !.repair = NoRepair, !.deadline = After(stamp, AckTimeout)]

Resubmit(s, stamp, ok) ==
  /\ txn' = [txn EXCEPT ![s] = IF ok THEN Resubmitted(s, stamp) ELSE FreeSlot]
  /\ log' = [log EXCEPT ![txn[s].send].submits = @ + 1,
                        ![txn[s].send].status = IF ok THEN @ ELSE "FAILED"]
  /\ age' = [age EXCEPT ![s] = CappedAge(Elapsed(stamp, now))]

ExhaustedLate(s) == txn[s].retry > MaxRetries  \* variant of Exhausted
Exhausted(s) == txn[s].retry >= MaxRetries

(***************************************************************************)
(* Lifecycle.  init and deinit clear the table without any notification.   *)
(***************************************************************************)
Wipe ==
  /\ txn' = [s \in Slots |-> FreeSlot]
  /\ log' = [t \in Sends |-> IF log[t].status = "open"
                               THEN [log[t] EXCEPT !.status = "DROPPED"]
                               ELSE log[t]]
  /\ UNCHANGED <<now, tick, age>>

InitCall ==
  /\ life' = [Down EXCEPT !.initialized = TRUE]
  /\ Wipe

DeinitCall ==
  /\ life' = Down
  /\ Wipe

StartCall ==
  /\ life.initialized
  /\ life' = [life EXCEPT !.started = TRUE]
  /\ UNCHANGED <<txn, now, tick, age, log>>

SetSubmitCallback ==
  /\ life.initialized
  /\ life' = [life EXCEPT !.submit = TRUE]
  /\ UNCHANGED <<txn, now, tick, age, log>>

(***************************************************************************)
(* enp_reliability_send() by a caller that read the clock just before.     *)
(* The state is published before the submission; a refused submission      *)
(* finishes the transaction inside the call.                               *)
(***************************************************************************)
NewTransaction(p, t) ==
  [state |-> "WAITING_FOR_ACK", packet |-> p, retry |-> 0,
   deadline |-> After(now, AckTimeout), repair |-> NoRepair, send |-> t]

Send(s, t, p, ok) ==
  /\ life.started
  /\ life.submit
  /\ IsFirst(s, FreeSlots)
  /\ IsFirst(t, UnusedSends)
  /\ txn' = IF ok THEN [txn EXCEPT ![s] = NewTransaction(p, t)] ELSE txn
  /\ log' = [log EXCEPT ![t] = [status |-> IF ok THEN "open" ELSE "FAILED",
                                packet |-> p, submits |-> 1]]
  /\ age' = [age EXCEPT ![s] = 0]
  /\ UNCHANGED <<life, now, tick>>

(***************************************************************************)
(* enp_reliability_process_ack(): the first slot waiting for this ACK.  An *)
(* ACK that matches no slot, late, duplicate or during a repair, changes   *)
(* nothing.                                                                *)
(***************************************************************************)
AckedSlots(p) == {s \in Slots : Waiting(s) /\ txn[s].packet = p}

ProcessAck(s, p) ==
  /\ life.started
  /\ IsFirst(s, AckedSlots(p))
  /\ Complete(s, "DELIVERED")
  /\ UNCHANGED <<life, now, tick, age>>

(***************************************************************************)
(* enp_reliability_begin_repair() and enp_reliability_repair_result().     *)
(***************************************************************************)
BeginRepair(s, r) ==
  /\ life.started
  /\ Waiting(s)
  /\ txn' = [txn EXCEPT ![s].state = "REPAIR_PENDING", ![s].repair = r]
  /\ UNCHANGED <<life, now, tick, age, log>>

AwaitsRepair(s, r) ==
  /\ life.started
  /\ txn[s].state = "REPAIR_PENDING"
  /\ txn[s].repair = r

RepairFailed(s, r) ==
  /\ AwaitsRepair(s, r)
  /\ Complete(s, "FAILED")
  /\ UNCHANGED <<life, now, tick, age>>

RepairTooLate(s, r) ==
  /\ AwaitsRepair(s, r)
  /\ Exhausted(s)
  /\ Complete(s, "FAILED")
  /\ UNCHANGED <<life, now, tick, age>>

RepairResumes(s, r, ok) ==
  /\ AwaitsRepair(s, r)
  /\ ~Exhausted(s)
  /\ Resubmit(s, now, ok)
  /\ UNCHANGED <<life, now, tick>>

(***************************************************************************)
(* enp_reliability_tick(now_ms): one pass over the slots.  The guard on    *)
(* the lifecycle is evaluated on entry only.                               *)
(***************************************************************************)
TickStart ==
  /\ life.started
  /\ life.submit
  /\ tick = Idle
  /\ tick' = [slot |-> 1, now |-> now]
  /\ UNCHANGED <<life, txn, now, age, log>>

TickAdvance ==
  tick' = IF tick.slot = MaxTransactions THEN Idle
                                         ELSE [tick EXCEPT !.slot = @ + 1]

\* Variants of TimedOut: the deadline is not suspended by a repair, and a
\* deadline counts only in the millisecond it names.
TimedOutInRepair(s) == Active(s) /\ TimeReached(tick.now, txn[s].deadline)
TimedOutExactly(s) == Waiting(s) /\ tick.now = txn[s].deadline
TimedOut(s) == Waiting(s) /\ TimeReached(tick.now, txn[s].deadline)

TickSkips ==
  /\ tick # Idle
  /\ ~TimedOut(tick.slot)
  /\ TickAdvance
  /\ UNCHANGED <<life, txn, now, age, log>>

TickGivesUp ==
  /\ tick # Idle
  /\ TimedOut(tick.slot)
  /\ Exhausted(tick.slot)
  /\ Complete(tick.slot, "FAILED")
  /\ TickAdvance
  /\ UNCHANGED <<life, now, age>>

TickRetransmits(ok) ==
  /\ tick # Idle
  /\ TimedOut(tick.slot)
  /\ ~Exhausted(tick.slot)
  /\ Resubmit(tick.slot, tick.now, ok)
  /\ TickAdvance
  /\ UNCHANGED <<life, now>>

(***************************************************************************)
(* enp_reliability_cancel() does not ask whether the layer is started.     *)
(***************************************************************************)
Cancel(s) ==
  /\ life.initialized
  /\ Active(s)
  /\ Complete(s, "CANCELLED")
  /\ UNCHANGED <<life, now, tick, age>>

(***************************************************************************)
(* The clock.  MaxTickLag bounds how long the maintenance task, which runs *)
(* the tick every two seconds, may leave a passed deadline unlooked at;    *)
(* the C clock would need more than 2^31 ms to break the comparison.       *)
(***************************************************************************)
TickKeepsUp ==
  /\ \A s \in Slots :
       Waiting(s) => now # After(txn[s].deadline, MaxTickLag)
  /\ tick # Idle => now # After(tick.now, MaxTickLag)

ClockAdvances ==
  /\ TickKeepsUp
  /\ now' = After(now, 1)
  /\ age' = [s \in Slots |-> CappedAge(age[s] + 1)]
  /\ UNCHANGED <<life, txn, tick, log>>

-----------------------------------------------------------------------------
Init ==
  /\ life = Down
  /\ txn = [s \in Slots |-> FreeSlot]
  /\ now \in Time
  /\ tick = Idle
  /\ age = [s \in Slots |-> 0]
  /\ log = [t \in Sends |-> Unused]

Lifecycle == InitCall \/ DeinitCall \/ StartCall \/ SetSubmitCallback

Tick ==
  \/ TickStart
  \/ TickSkips
  \/ TickGivesUp
  \/ \E ok \in BOOLEAN : TickRetransmits(ok)

RepairResult(s) ==
  \E r \in RepairIds :
    \/ RepairFailed(s, r)
    \/ RepairTooLate(s, r)
    \/ \E ok \in BOOLEAN : RepairResumes(s, r, ok)

Next ==
  \/ Lifecycle
  \/ \E s \in Slots, t \in Sends, p \in Packets, ok \in BOOLEAN :
       Send(s, t, p, ok)
  \/ \E s \in Slots, p \in Packets : ProcessAck(s, p)
  \/ \E s \in Slots, r \in RepairIds : BeginRepair(s, r)
  \/ \E s \in Slots : RepairResult(s)
  \/ \E s \in Slots : Cancel(s)
  \/ Tick
  \/ ClockAdvances

Spec == Init /\ [][Next]_vars

\* The maintenance task keeps ticking while the clock runs, and the owner of
\* a repair reports its result.
Fairness ==
  /\ WF_vars(Tick)
  /\ WF_vars(ClockAdvances)
  /\ \A s \in Slots : WF_vars(RepairResult(s))

FairSpec == Spec /\ Fairness

-----------------------------------------------------------------------------
(***************************************************************************)
(* Properties.                                                             *)
(***************************************************************************)
Transaction ==
  [state : LiveStates \cup {"INVALID"}, packet : Packets \cup {NoPacket},
   retry : 0..MaxRetries, deadline : Time, repair : RepairIds \cup {NoRepair},
   send : Sends \cup {NoSend}]

Record ==
  [status : Verdicts \cup {"none", "open", "DROPPED"},
   packet : Packets \cup {NoPacket}, submits : 0..(MaxRetries + 1)]

\* Every variable has the type the C declarations and bounds give it; in
\* particular no retry counter exceeds ENP_RELIABILITY_MAX_RETRIES.
TypeOK ==
  /\ life \in [initialized : BOOLEAN, started : BOOLEAN, submit : BOOLEAN]
  /\ txn \in [Slots -> Transaction]
  /\ now \in Time
  /\ tick \in {Idle} \cup [slot : Slots, now : Time]
  /\ age \in [Slots -> 0..AckTimeout]
  /\ log \in [Sends -> Record]

\* A slot in use serves exactly the transaction recorded in it: that one is
\* open, carries the same packet, and was submitted once plus once per
\* retry.
Serves(s) ==
  /\ txn[s].send \in Sends
  /\ log[txn[s].send].status = "open"
  /\ log[txn[s].send].packet = txn[s].packet
  /\ log[txn[s].send].submits = txn[s].retry + 1

\* Slots and open transactions correspond one to one: allocating, finishing
\* and wiping slots (lines 78-86, 170-184, 190-225) never loses an open
\* transaction, never lets two slots work for one, and never leaves a slot
\* working for a finished one.
TransactionsTracked ==
  /\ \A s \in Slots : Active(s) => Serves(s)
  /\ \A s, u \in Slots :
       Active(s) /\ Active(u) /\ txn[s].send = txn[u].send => s = u
  /\ \A t \in Sends :
       log[t].status = "open" => \E s \in Slots : Active(s) /\ txn[s].send = t

\* "The existing deadline is intentionally retained but suspended" (lines
\* 410-412): the tick never resubmits, fails or resumes a transaction that
\* waits for a route repair, however long ago its deadline passed.
RepairSuspends ==
  [][tick' # tick =>
       \A s \in Slots :
         txn[s].state = "REPAIR_PENDING" =>
           /\ txn'[s] = txn[s]
           /\ log'[txn[s].send] = log[txn[s].send]]_vars

\* A waiting transaction is resubmitted or given up only once the whole ACK
\* timeout has passed since the stamp of its last submission, wherever the
\* 32-bit clock wraps in between (lines 166-168, 323, 475-490).
TimerHonoured ==
  [][\A s \in Slots :
       /\ Waiting(s)
       /\ \/ log'[txn[s].send].submits # log[txn[s].send].submits
          \/ log'[txn[s].send].status = "FAILED"
       => age[s] = AckTimeout]_vars

\* The layer implements its abstract promise: bounded submissions, one final
\* verdict (lines 170-184, 384-388).
Delivery == INSTANCE ReliableDelivery
ImplementsDelivery == Delivery!Spec

\* The maintenance tick and the answers of the repair layer bring every
\* transaction to an end (lines 416-503).
EveryTransactionEnds ==
  \A t \in Sends : log[t].status = "open" ~> log[t].status # "open"
=============================================================================
