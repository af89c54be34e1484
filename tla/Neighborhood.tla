---------------------------- MODULE Neighborhood ----------------------------
(***************************************************************************)
(* How a node comes to know its neighbors: every node announces itself     *)
(* periodically (enp_service_discovery.c, enp_maintenance.c); the worker   *)
(* task of a node that hears an announcement passes it through the         *)
(* dispatcher and its duplicate cache (enp_dispatcher.c, enp_duplicate.c)  *)
(* to the neighbor table (enp_neighbor.c), where the maintenance task      *)
(* marks what has been silent for too long as STALE.                       *)
(*                                                                         *)
(* The module follows one node, as app_main() leaves it, and the nodes     *)
(* around it, which crash, restart and lose announcements.  Time passes in *)
(* units of ENP_DISCOVERY_INTERVAL_MS or less; instead of a clock and time *)
(* stamps the model keeps the age of what the code stamps, as far as it    *)
(* matters.  The maintenance task reads its clock before the reliability   *)
(* tick, which may take long, and uses the time after it; the worker is    *)
(* taken to be done with an announcement within the unit of its arrival.   *)
(***************************************************************************)
EXTENDS Naturals, FiniteSets

CONSTANTS
  Peers,          \* the nodes around
  Fragile,        \* bound of the model: those that may crash and be missed
  NoPeer,
  MaxNeighbors,   \* ENP_MAX_NEIGHBORS
  CacheSize,      \* ENP_DUPLICATE_CACHE_SIZE
  CacheTimeout,   \* ENP_DUPLICATE_CACHE_TIMEOUT_MS in units of time
  Timeout,        \* ENP_NEIGHBOR_TIMEOUT_MS in units of time
  MaxLag,         \* bound of the model: how old a clock value is when used
  TimeModulus,    \* 2^32 ms in units of time
  SeqModulus,     \* values of a sequence number
  MaxRestarts     \* bound of the model: crashes of each node

ASSUME NeighborhoodAssumption ==
  /\ NoPeer \notin Peers
  /\ Fragile \subseteq Peers
  /\ MaxNeighbors \in Nat \ {0}
  /\ CacheSize \in Nat \ {0}
  /\ CacheTimeout \in Nat \ {0}
  /\ Timeout \in Nat \ {0}
  /\ MaxLag \in Nat
  /\ TimeModulus \in Nat /\ Timeout + MaxLag <= TimeModulus
  /\ SeqModulus \in Nat \ {0, 1}
  /\ MaxRestarts \in Nat

VARIABLES
  alive,      \* which peers run
  restarts,   \* crashes of each peer, for the bound
  seq,        \* next_sequence of each peer
  announced,  \* peers that have announced themselves in this unit of time
  air,        \* announcements on their way: at most one of each peer
  cache,      \* s_duplicate_cache of the dispatcher: who, number, age
  table,      \* context->neighbors: entries by index
  count,      \* its counter
  worker,     \* the announcement the worker is about to enter
  maint,      \* where the maintenance task stands, age of its time
  heard,      \* history: time since an announcement of each peer arrived
  excused     \* history: peers whose last arrival the table has not kept

peerVars == <<alive, restarts, seq, announced>>
tableVars == <<table, count>>
vars == <<peerVars, air, cache, tableVars, worker, maint, heard, excused>>

-----------------------------------------------------------------------------
(* The data *)

Indexes == 1..MaxNeighbors
Sequences == 0..(SeqModulus - 1)
MaxAge == Timeout + MaxLag

Empty == [state |-> "EMPTY", address |-> NoPeer, age |-> 0]
NoFrame == [from |-> NoPeer, number |-> 0]
Frames == [from : Peers, number : Sequences]

\* A mutant: an entry that is STALE is not found, and the node entered anew.
FindActive(p) == {i \in Indexes : table[i].state = "ACTIVE" /\ table[i].address = p}

\* enp_neighbor_find_index: the index that holds a node, in a singleton.
Find(p) == {i \in Indexes : table[i].state # "EMPTY" /\ table[i].address = p}

\* A mutant: the last entry of the table is never used.
FreeButLast == {i \in 1..(MaxNeighbors - 1) : table[i].state = "EMPTY"}

Free == {i \in Indexes : table[i].state = "EMPTY"}
First(I) == CHOOSE i \in I : \A j \in I : i <= j

\* The age an entry gets one unit of time later.
Aged(age) == IF age < MaxAge THEN age + 1 ELSE age

\* now_ms - last_seen_ms, unsigned: huge for an entry that is younger than
\* the time the maintenance task has read.
Elapsed(age, lag) == IF age >= lag THEN age - lag ELSE TimeModulus - (lag - age)

Init ==
  /\ alive = Peers
  /\ restarts = [p \in Peers |-> 0]
  /\ seq = [p \in Peers |-> 1]
  /\ announced = {}
  /\ air = [p \in Peers |-> NoFrame]
  /\ cache = {}
  /\ table = [i \in Indexes |-> Empty]
  /\ count = 0
  /\ worker = NoFrame
  /\ maint = [pc |-> "waiting", lag |-> 0]
  /\ heard = [p \in Peers |-> Timeout]
  /\ excused = {}

-----------------------------------------------------------------------------
(* The peers and the medium *)

\* enp_service_discovery_send() on a peer: the number is used up whether or
\* not the transport takes the frame and the medium carries it here.  Only a
\* peer that may crash loses announcements in the model.
Announce(p) ==
  /\ p \in alive \ announced
  /\ announced' = announced \cup {p}
  /\ seq' = [seq EXCEPT ![p] = (@ + 1) % SeqModulus]
  /\ \/ /\ p \in Fragile \/ air[p] # NoFrame
        /\ UNCHANGED air
     \/ /\ air[p] = NoFrame
        /\ air' = [air EXCEPT ![p] = [from |-> p, number |-> seq[p]]]
  /\ UNCHANGED <<alive, restarts, cache, tableVars, worker, maint, heard, excused>>

Crash(p) ==
  /\ p \in alive
  /\ p \in Fragile
  /\ restarts[p] < MaxRestarts
  /\ alive' = alive \ {p}
  /\ restarts' = [restarts EXCEPT ![p] = @ + 1]
  /\ UNCHANGED <<seq, announced, air, cache, tableVars, worker, maint, heard, excused>>

\* app_main() of a restarted peer: its numbers begin at 1 again.
Restart(p) ==
  /\ p \notin alive
  /\ alive' = alive \cup {p}
  /\ seq' = [seq EXCEPT ![p] = 1]
  /\ announced' = announced \ {p}
  /\ UNCHANGED <<restarts, air, cache, tableVars, worker, maint, heard, excused>>

-----------------------------------------------------------------------------
(* The worker task: receive callback, dispatcher, discovery service *)

Oldest(C) == CHOOSE e \in C : \A d \in C : d.age <= e.age

\* A mutant: nothing is given up for the new entry.
RecordAll(frame) ==
  cache \cup {[from |-> frame.from, number |-> frame.number, age |-> 0]}

\* enp_duplicate_check_and_record for a packet that is not in the cache.
Record(frame) ==
  LET kept == IF Cardinality(cache) < CacheSize THEN cache ELSE cache \ {Oldest(cache)}
  IN kept \cup {[from |-> frame.from, number |-> frame.number, age |-> 0]}

Duplicate(frame) ==
  \E e \in cache : e.from = frame.from /\ e.number = frame.number

\* The dispatcher drops what it has in its cache and hands the rest to the
\* discovery service, which reads the clock.
WorkerReceive(p) ==
  /\ worker = NoFrame
  /\ air[p] # NoFrame
  /\ air' = [air EXCEPT ![p] = NoFrame]
  /\ heard' = [heard EXCEPT ![p] = 0]
  /\ IF Duplicate(air[p])
     THEN /\ excused' = excused \cup {p}
          /\ UNCHANGED <<cache, worker>>
     ELSE /\ cache' = Record(air[p])
          /\ worker' = air[p]
          /\ UNCHANGED excused
  /\ UNCHANGED <<peerVars, tableVars, maint>>

\* A mutant: an entry that is known is refreshed in all but its time.
EnteredUnseen(p, i) ==
  [state |-> "ACTIVE", address |-> p,
   age |-> IF table[i].state = "EMPTY" THEN 0 ELSE table[i].age]

\* The entry enp_neighbor_update writes at an index.
Entered(p, i) == [state |-> "ACTIVE", address |-> p, age |-> 0]

\* enp_neighbor_update: a known node is refreshed, a new one takes the first
\* free entry, and a full table refuses it.
WorkerUpdate ==
  /\ worker # NoFrame
  /\ worker' = NoFrame
  /\ LET p == worker.from
         found == Find(p)
         places == IF found # {} THEN found ELSE Free
     IN IF places # {}
        THEN /\ table' = [table EXCEPT ![First(places)] =
                                        Entered(p, First(places))]
             /\ count' = IF found # {} THEN count ELSE count + 1
             /\ excused' = excused \ {p}
        ELSE /\ excused' = excused \cup {p}
             /\ UNCHANGED tableVars
  /\ UNCHANGED <<peerVars, air, cache, maint, heard>>

-----------------------------------------------------------------------------
(* The maintenance task, the application, time *)

\* A mutant: the last entry of the table is not looked at.
ExpiresButLast(i) ==
  /\ i < MaxNeighbors
  /\ table[i].state = "ACTIVE"
  /\ Elapsed(table[i].age, maint.lag) >= Timeout

\* The maintenance task finds an entry silent for the whole timeout.
Expires(i) ==
  /\ table[i].state = "ACTIVE"
  /\ Elapsed(table[i].age, maint.lag) >= Timeout

\* enp_neighbor_expire with the time read before the tick, then the node's
\* own announcement.  The time of a STALE entry is not used any more.
MaintExpire ==
  /\ maint.pc = "ticking"
  /\ maint' = [pc |-> "waiting", lag |-> 0]
  /\ table' = [i \in Indexes |->
                 IF Expires(i) THEN [table[i] EXCEPT !.state = "STALE", !.age = 0]
                 ELSE table[i]]
  /\ excused' = excused \cup
       {table[i].address : i \in {j \in Indexes : Expires(j) /\ table[j].age < maint.lag}}
  /\ UNCHANGED <<peerVars, air, cache, count, worker, heard>>

\* enp_neighbor_remove and enp_neighbor_table_clear, for the application.
Remove(p) ==
  /\ Find(p) # {}
  /\ table' = [table EXCEPT ![First(Find(p))] = Empty]
  /\ count' = IF count > 0 THEN count - 1 ELSE count
  /\ UNCHANGED <<peerVars, air, cache, worker, maint, heard, excused>>

ClearTable ==
  /\ table' = [i \in Indexes |-> Empty]
  /\ count' = 0
  /\ UNCHANGED <<peerVars, air, cache, worker, maint, heard, excused>>

\* A unit of time passes.  Peers announce themselves once in each; the period
\* of the maintenance task ends, unless it is still in its last cycle, and it
\* reads the clock and runs the reliability tick.  An entry of the duplicate
\* cache that has reached its lifetime is as good as gone.
Tick ==
  /\ maint.pc = "ticking" => maint.lag < MaxLag
  /\ worker = NoFrame
  /\ \A p \in Peers : air[p] = NoFrame
  /\ alive \subseteq announced
  /\ announced' = {}
  /\ cache' = {[e EXCEPT !.age = @ + 1] : e \in {d \in cache : d.age + 1 < CacheTimeout}}
  /\ table' = [i \in Indexes |->
                 IF table[i].state = "ACTIVE"
                 THEN [table[i] EXCEPT !.age = Aged(@)] ELSE table[i]]
  /\ maint' = [pc |-> "ticking",
               lag |-> IF maint.pc = "ticking" THEN maint.lag + 1 ELSE 0]
  /\ heard' = [p \in Peers |-> IF heard[p] < Timeout THEN heard[p] + 1 ELSE Timeout]
  /\ UNCHANGED <<alive, restarts, seq, air, count, worker, excused>>

Next ==
  \/ \E p \in Peers :
       Announce(p) \/ Crash(p) \/ Restart(p) \/ WorkerReceive(p) \/ Remove(p)
  \/ WorkerUpdate \/ MaintExpire \/ ClearTable \/ Tick

Spec == Init /\ [][Next]_vars

\* Peers and tasks run, time passes, a crashed peer need not come back; a
\* peer that keeps announcing itself is heard again and again.
FairSpec ==
  /\ Spec
  /\ WF_vars(\E p \in Peers : Announce(p))
  /\ \A p \in Fragile : SF_vars(Announce(p) /\ air'[p] # NoFrame)
  /\ WF_vars(\E p \in Peers : WorkerReceive(p))
  /\ WF_vars(WorkerUpdate)
  /\ WF_vars(MaintExpire)
  /\ WF_vars(Tick)

-----------------------------------------------------------------------------
(* Properties *)

\* Every variable keeps its type; the counter of the table is the number of
\* its entries in use, through updates, removals and clearing.
TypeOK ==
  /\ alive \subseteq Peers
  /\ restarts \in [Peers -> 0..MaxRestarts]
  /\ seq \in [Peers -> Sequences]
  /\ announced \subseteq Peers
  /\ air \in [Peers -> Frames \cup {NoFrame}]
  /\ cache \subseteq [from : Peers, number : Sequences, age : 0..(CacheTimeout - 1)]
  /\ Cardinality(cache) <= CacheSize
  /\ table \in [Indexes -> [state : {"EMPTY", "ACTIVE", "STALE"},
                            address : Peers \cup {NoPeer}, age : 0..MaxAge]]
  /\ count = Cardinality({i \in Indexes : table[i].state # "EMPTY"})
  /\ worker \in Frames \cup {NoFrame}
  /\ maint \in [pc : {"waiting", "ticking"}, lag : 0..MaxLag]
  /\ heard \in [Peers -> 0..Timeout]
  /\ excused \subseteq Peers

Known(p) == {i \in Indexes : table[i].state # "EMPTY" /\ table[i].address = p}
StateOf(p) == IF Known(p) = {} THEN "EMPTY" ELSE table[First(Known(p))].state

Full == \A i \in Indexes : table[i].state # "EMPTY"

\* A node has at most one entry, however often it falls silent and comes
\* back: a second one would keep an address that nobody refreshes.
OneEntryEach ==
  \A i, j \in Indexes :
    table[i].state # "EMPTY" /\ table[j].state # "EMPTY" /\ table[i].address = table[j].address
      => i = j

\* A node is STALE only when no announcement of it has arrived for the whole
\* timeout.  The exceptions are the arrivals the table did not keep: dropped
\* as a duplicate, refused by a full table, or entered while the maintenance
\* task held an older time, whose difference wraps (enp_neighbor.c:303-311).
StaleIsEarned ==
  \A p \in Peers \ excused :
    StateOf(p) = "STALE" /\ worker.from # p => heard[p] >= Timeout

\* A node that has crashed is found STALE if it was known.
SilentBecomesStale ==
  \A p \in Fragile :
    p \notin alive ~> (p \in alive \/ air[p] # NoFrame \/ StateOf(p) # "ACTIVE")

\* A node that has come back becomes ACTIVE, in spite of its losses and of the
\* numbers its earlier life has left in the duplicate cache, unless the table
\* is full of others: if it is STALE in a full table, its entry is refreshed.
RunningIsHeard ==
  \A p \in Fragile :
    p \in alive ~> \/ p \notin alive
                   \/ StateOf(p) = "ACTIVE"
                   \/ Full /\ Known(p) = {}
=============================================================================
