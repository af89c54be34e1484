------------------------- MODULE Neighborhood_proofs -------------------------
(***************************************************************************)
(* Proofs about module Neighborhood, for any number of peers and any sizes *)
(* and times: its types with the counter of the table, OneEntryEach and    *)
(* StaleIsEarned.                                                          *)
(***************************************************************************)
EXTENDS Neighborhood, FiniteSetTheorems, WellFoundedInduction, TLAPS

Entry == [state : {"EMPTY", "ACTIVE", "STALE"}, address : Peers \cup {NoPeer}, age : 0..MaxAge]
Remembered == [from : Peers, number : Sequences, age : 0..(CacheTimeout - 1)]

PeersTyped ==
  /\ alive \subseteq Peers
  /\ restarts \in [Peers -> 0..MaxRestarts]
  /\ seq \in [Peers -> Sequences]
  /\ announced \subseteq Peers
  /\ air \in [Peers -> Frames \cup {NoFrame}]
  /\ \A p \in Peers : air[p] # NoFrame => air[p].from = p

\* Without its finiteness the cardinality of the cache says nothing.
CacheTyped ==
  /\ cache \subseteq Remembered
  /\ IsFiniteSet(cache)
  /\ Cardinality(cache) <= CacheSize

Used == {i \in Indexes : table[i].state # "EMPTY"}

TableTyped ==
  /\ table \in [Indexes -> Entry]
  /\ \A i \in Used : table[i].address \in Peers
  /\ count = Cardinality(Used)

TasksTyped ==
  /\ worker \in Frames \cup {NoFrame}
  /\ maint \in [pc : {"waiting", "ticking"}, lag : 0..MaxLag]
  /\ heard \in [Peers -> 0..Timeout]
  /\ excused \subseteq Peers

\* The entry of a peer whose last arrival the table has kept is no older than
\* that arrival, unless the timeout has passed anyway.
EarnedBy(i) ==
  LET p == table[i].address IN
  p \notin excused /\ worker.from # p =>
    \/ heard[p] >= Timeout
    \/ table[i].state = "ACTIVE" /\ heard[p] >= table[i].age
Earned == \A i \in Used : EarnedBy(i)

Inv == PeersTyped /\ CacheTyped /\ TableTyped /\ TasksTyped /\ OneEntryEach /\ Earned

-----------------------------------------------------------------------------
(***************************************************************************)
(* Facts about the operators.                                              *)
(***************************************************************************)
LEMMA ConstantFacts ==
  /\ NoPeer \notin Peers
  /\ MaxNeighbors \in Nat /\ CacheSize \in Nat /\ CacheSize >= 1
  /\ CacheTimeout \in Nat /\ CacheTimeout >= 1
  /\ Timeout \in Nat /\ Timeout >= 1 /\ MaxLag \in Nat /\ MaxAge \in Nat
  /\ SeqModulus \in Nat /\ SeqModulus >= 2 /\ MaxRestarts \in Nat
  /\ TimeModulus \in Nat
BY NeighborhoodAssumption DEF NeighborhoodAssumption, MaxAge

\* A nonempty set of numbers has a least one.
LEMMA Least ==
  ASSUME NEW S \in SUBSET Nat, S # {}
  PROVE  \E x \in S : \A y \in S : x <= y
<1>1. PICK x \in S : \A y \in S : ~(<<y, x>> \in OpToRel(<, Nat))
  BY WFMin, NatLessThanWellFounded
<1>2. ASSUME NEW y \in S PROVE x <= y
  <2>1. ~(y < x)
    BY <1>1 DEF OpToRel
  <2>. QED
    BY <2>1
<1>. QED
  BY <1>2

LEMMA FirstIn ==
  ASSUME NEW I \in SUBSET Indexes, I # {}
  PROVE  First(I) \in I
<1>1. I \in SUBSET Nat
  BY ConstantFacts DEF Indexes
<1>2. \E i \in I : \A j \in I : i <= j
  BY <1>1, Least
<1>. QED
  BY <1>2 DEF First

LEMMA OldestIn ==
  ASSUME NEW C \in SUBSET Remembered, C # {}
  PROVE  Oldest(C) \in C
<1>. DEFINE left(e) == CacheTimeout - e.age
            S == {left(e) : e \in C}
<1>1. \A e \in C : e.age \in Nat /\ e.age <= CacheTimeout - 1
  BY ConstantFacts DEF Remembered
<1>2. S \in SUBSET Nat /\ S # {}
  BY <1>1, ConstantFacts
<1>3. PICK x \in S : \A y \in S : x <= y
  BY <1>2, Least
<1>4. PICK e \in C : x = left(e)
  BY <1>3
<1>5. ASSUME NEW d \in C PROVE d.age <= e.age
  <2>1. left(e) <= left(d)
    BY <1>3, <1>4
  <2>. QED
    BY <2>1, <1>1, ConstantFacts
<1>. QED
  BY <1>5 DEF Oldest

\* The places of a table are finitely many.
LEMMA UsedFinite == IsFiniteSet(Used) /\ Cardinality(Used) \in Nat
<1>1. IsFiniteSet(Indexes)
  BY FS_Interval, ConstantFacts DEF Indexes
<1>2. Used \in SUBSET Indexes
  BY DEF Used
<1>. QED
  BY <1>1, <1>2, FS_Subset, FS_CardinalityType

\* enp_duplicate_check_and_record() keeps the cache within its size.
LEMMA RecordTyped ==
  ASSUME CacheTyped, NEW f \in Frames, cache' = Record(f)
  PROVE  CacheTyped'
<1>. DEFINE e == [from |-> f.from, number |-> f.number, age |-> 0]
<1>1. e \in Remembered
  BY ConstantFacts DEF Frames, Remembered
<1>2. Cardinality(cache) \in Nat
  BY FS_CardinalityType DEF CacheTyped
<1>3. PICK T \in SUBSET cache :
        cache' = T \cup {e} /\ IsFiniteSet(T) /\ Cardinality(T) < CacheSize
  <2>1. CASE Cardinality(cache) < CacheSize
    BY <2>1 DEF Record, CacheTyped
  <2>2. CASE ~(Cardinality(cache) < CacheSize)
    <3>1. cache # {}
      BY <2>2, ConstantFacts, FS_EmptySet
    <3>2. Oldest(cache) \in cache
      BY <3>1, OldestIn DEF CacheTyped
    <3>3. /\ IsFiniteSet(cache \ {Oldest(cache)})
          /\ Cardinality(cache \ {Oldest(cache)}) = Cardinality(cache) - 1
      BY <3>2, FS_RemoveElement DEF CacheTyped
    <3>4. Cardinality(cache \ {Oldest(cache)}) < CacheSize
      BY <3>3, <1>2, ConstantFacts DEF CacheTyped
    <3>. QED
      BY <2>2, <3>3, <3>4 DEF Record
  <2>. QED
    BY <2>1, <2>2
<1>4. /\ IsFiniteSet(T \cup {e})
      /\ Cardinality(T \cup {e}) \in {Cardinality(T), Cardinality(T) + 1}
  BY <1>3, FS_AddElement
<1>5. Cardinality(T) \in Nat
  BY <1>3, FS_CardinalityType
<1>. QED
  BY <1>1, <1>3, <1>4, <1>5, ConstantFacts DEF CacheTyped

\* Time makes entries disappear, and the others older.
LEMMA AgingTyped ==
  ASSUME CacheTyped,
         cache' = {[e EXCEPT !.age = @ + 1] : e \in {d \in cache : d.age + 1 < CacheTimeout}}
  PROVE  CacheTyped'
<1>. DEFINE D == {d \in cache : d.age + 1 < CacheTimeout}
            older == [d \in D |-> [d EXCEPT !.age = @ + 1]]
<1>1. IsFiniteSet(D) /\ Cardinality(D) <= Cardinality(cache)
  BY FS_Subset DEF CacheTyped
<1>2. older \in Surjection(D, cache')
  BY DEF Surjection
<1>3. IsFiniteSet(cache') /\ Cardinality(cache') <= Cardinality(D)
  BY <1>1, <1>2, FS_Surjection
<1>4. Cardinality(cache') <= CacheSize
  BY <1>1, <1>3, FS_CardinalityType, ConstantFacts DEF CacheTyped
<1>5. ASSUME NEW e \in cache' PROVE e \in Remembered
  <2>1. PICK d \in cache : d.age + 1 < CacheTimeout /\ e = [d EXCEPT !.age = @ + 1]
    BY <1>5
  <2>2. d \in Remembered
    BY DEF CacheTyped
  <2>3. d.age + 1 \in 0..(CacheTimeout - 1)
    BY <2>1, <2>2, ConstantFacts DEF Remembered
  <2>. QED
    BY <2>1, <2>2, <2>3 DEF Remembered
<1>. QED
  BY <1>3, <1>4, <1>5 DEF CacheTyped

-----------------------------------------------------------------------------
LEMMA InitInv == Init => Inv
<1>. SUFFICES ASSUME Init PROVE Inv
  OBVIOUS
<1>1. 1 \in Sequences /\ Empty \in Entry
  BY ConstantFacts DEF Sequences, Empty, Entry
<1>2. Used = {} /\ Cardinality({}) = 0 /\ IsFiniteSet({})
  BY FS_EmptySet DEF Init, Used, Empty
<1>3. PeersTyped
  BY <1>1, ConstantFacts DEF Init, PeersTyped
<1>4. CacheTyped
  BY <1>2, ConstantFacts DEF Init, CacheTyped
<1>5. TableTyped
  BY <1>1, <1>2 DEF Init, TableTyped
<1>6. TasksTyped
  BY ConstantFacts DEF Init, TasksTyped
<1>7. OneEntryEach /\ Earned
  BY <1>2 DEF Init, OneEntryEach, Earned, Empty
<1>. QED
  BY <1>3, <1>4, <1>5, <1>6, <1>7 DEF Inv

\* Steps that leave the table alone.
LEMMA SameTable ==
  ASSUME UNCHANGED tableVars
  PROVE  (TableTyped => TableTyped') /\ (OneEntryEach => OneEntryEach')
BY DEF tableVars, TableTyped, OneEntryEach, Used

\* What peers, the medium and crashes do.
LEMMA PeersKeepInv ==
  ASSUME Inv, NEW p \in Peers, Announce(p) \/ Crash(p) \/ Restart(p)
  PROVE  Inv'
<1>1. UNCHANGED <<cache, tableVars, worker, maint, heard, excused>>
  BY DEF Announce, Crash, Restart
<1>2. TableTyped' /\ OneEntryEach'
  BY <1>1, SameTable DEF Inv
<1>3. CacheTyped' /\ TasksTyped'
  BY <1>1 DEF Inv, CacheTyped, TasksTyped
<1>4. Earned'
  BY <1>1 DEF Inv, Earned, EarnedBy, Used, tableVars
<1>5. PeersTyped'
  <2>1. 1 \in Sequences /\ (seq[p] + 1) % SeqModulus \in Sequences
    BY ConstantFacts DEF Inv, PeersTyped, Sequences
  <2>2. CASE Announce(p)
    <3>1. seq' \in [Peers -> Sequences]
      BY <2>1, <2>2 DEF Inv, PeersTyped, Announce
    <3>2. [from |-> p, number |-> seq[p]] \in Frames
      BY DEF Inv, PeersTyped, Frames
    <3>. QED
      BY <2>2, <3>1, <3>2 DEF Inv, PeersTyped, Announce
  <2>3. CASE Crash(p)
    <3>1. restarts[p] + 1 \in 0..MaxRestarts
      BY <2>3, ConstantFacts DEF Inv, PeersTyped, Crash
    <3>. QED
      BY <2>3, <3>1 DEF Inv, PeersTyped, Crash
  <2>4. CASE Restart(p)
    BY <2>1, <2>4 DEF Inv, PeersTyped, Restart
  <2>. QED
    BY <2>2, <2>3, <2>4
<1>. QED
  BY <1>2, <1>3, <1>4, <1>5 DEF Inv

-----------------------------------------------------------------------------
(***************************************************************************)
(* The worker.                                                             *)
(***************************************************************************)
\* An announcement that is not passed on excuses its sender.
LEMMA ReceiveKeepsInv ==
  ASSUME Inv, NEW p \in Peers, WorkerReceive(p)
  PROVE  Inv'
<1>1. air[p] \in Frames /\ 0 \in 0..Timeout
  BY ConstantFacts DEF Inv, PeersTyped, WorkerReceive
<1>2. PeersTyped'
  BY DEF Inv, PeersTyped, WorkerReceive, peerVars
<1>3. CacheTyped'
  BY <1>1, RecordTyped DEF Inv, CacheTyped, WorkerReceive
<1>4. TableTyped' /\ OneEntryEach'
  BY SameTable DEF Inv, WorkerReceive
<1>5. TasksTyped'
  BY <1>1 DEF Inv, TasksTyped, WorkerReceive
<1>6. worker = NoFrame
  BY DEF WorkerReceive
<1>7. ASSUME NEW i \in Used PROVE EarnedBy(i)'
  <2>1. table[i].address \in Peers /\ worker.from # table[i].address
    BY <1>6, ConstantFacts DEF Inv, TableTyped, NoFrame
  <2>2. EarnedBy(i)
    BY DEF Inv, Earned
  <2>3. CASE table[i].address # p
    BY <2>1, <2>2, <2>3 DEF EarnedBy, WorkerReceive, Inv, TasksTyped, tableVars
  <2>4. CASE table[i].address = p
    <3>1. p \in excused' \/ worker' = air[p]
      BY DEF WorkerReceive
    <3>2. air[p].from = p
      BY DEF Inv, PeersTyped, WorkerReceive
    <3>. QED
      BY <2>4, <3>1, <3>2 DEF EarnedBy, WorkerReceive, tableVars
  <2>. QED
    BY <2>3, <2>4
<1>8. Earned'
  BY <1>7 DEF Earned, Used, WorkerReceive, tableVars
<1>. QED
  BY <1>2, <1>3, <1>4, <1>5, <1>8 DEF Inv

\* enp_neighbor_update() writes the only entry there is of the peer, or its
\* first one.
LEMMA UpdateKeepsInv ==
  ASSUME Inv, WorkerUpdate
  PROVE  Inv'
<1>. DEFINE p == worker.from
            found == Find(p)
            places == IF found # {} THEN found ELSE Free
            x == First(places)
<1>1. p \in Peers /\ worker' = NoFrame /\ NoFrame.from = NoPeer
  BY DEF Inv, TasksTyped, WorkerUpdate, Frames, NoFrame
<1>2. PeersTyped' /\ CacheTyped'
  BY DEF Inv, PeersTyped, CacheTyped, WorkerUpdate, peerVars
<1>3. TasksTyped'
  BY <1>1 DEF Inv, TasksTyped, WorkerUpdate
<1>4. CASE places = {}
  <2>1. excused' = excused \cup {p} /\ UNCHANGED tableVars /\ UNCHANGED heard
    BY <1>4 DEF WorkerUpdate
  <2>2. TableTyped' /\ OneEntryEach'
    BY <2>1, SameTable DEF Inv
  <2>3. ASSUME NEW i \in Used PROVE EarnedBy(i)'
    BY <1>1, <2>1 DEF Inv, Earned, EarnedBy, tableVars
  <2>4. Earned'
    BY <2>1, <2>3 DEF Earned, Used, tableVars
  <2>. QED
    BY <1>2, <1>3, <2>2, <2>4 DEF Inv
<1>5. CASE places # {}
  <2>1. /\ table' = [table EXCEPT ![x] = Entered(p, x)]
        /\ count' = IF found # {} THEN count ELSE count + 1
        /\ excused' = excused \ {p}
        /\ UNCHANGED heard
    BY <1>5 DEF WorkerUpdate
  <2>2. x \in places /\ x \in Indexes
    <3>1. places \in SUBSET Indexes
      BY DEF Find, Free
    <3>. QED
      BY <1>5, <3>1, FirstIn
  <2>3. Entered(p, x) \in Entry /\ Entered(p, x) = [state |-> "ACTIVE", address |-> p, age |-> 0]
    BY <1>1, ConstantFacts DEF Entered, Entry
  <2>4. table' \in [Indexes -> Entry]
    BY <2>1, <2>3 DEF Inv, TableTyped
  <2>5. /\ table'[x] = [state |-> "ACTIVE", address |-> p, age |-> 0]
        /\ \A i \in Indexes : i # x => table'[i] = table[i]
    BY <2>1, <2>2, <2>3 DEF Inv, TableTyped
  <2>6. Used' = Used \cup {x}
    BY <2>2, <2>5 DEF Used
  <2>7. ASSUME NEW i \in Used, i # x PROVE table[i].address # p
    <3>1. CASE found # {}
      BY <3>1, <2>2, <2>7 DEF Inv, OneEntryEach, Find, Used
    <3>2. CASE found = {}
      BY <3>2, <2>7 DEF Find, Used
    <3>. QED
      BY <3>1, <3>2
  <2>8. count' = Cardinality(Used')
    <3>1. CASE found # {}
      <4>1. x \in Used
        BY <3>1, <2>2 DEF Find, Used
      <4>2. Used' = Used
        BY <4>1, <2>6
      <4>. QED
        BY <3>1, <4>2, <2>1 DEF Inv, TableTyped
    <3>2. CASE found = {}
      <4>1. x \notin Used
        BY <3>2, <2>2 DEF Free, Used
      <4>2. Cardinality(Used \cup {x}) = Cardinality(Used) + 1
        BY <4>1, UsedFinite, FS_AddElement
      <4>. QED
        BY <3>2, <4>2, <2>1, <2>6 DEF Inv, TableTyped
    <3>. QED
      BY <3>1, <3>2
  <2>9. TableTyped'
    <3>1. \A i \in Used' : table'[i].address \in Peers
      BY <1>1, <2>2, <2>5, <2>6 DEF Inv, TableTyped, Used
    <3>. QED
      BY <2>4, <2>8, <3>1 DEF TableTyped
  <2>10. OneEntryEach'
    <3>. SUFFICES ASSUME NEW i \in Indexes, NEW j \in Indexes,
                         table'[i].state # "EMPTY", table'[j].state # "EMPTY",
                         table'[i].address = table'[j].address
                  PROVE  i = j
      BY DEF OneEntryEach
    <3>1. CASE i # x /\ j # x
      BY <3>1, <2>5 DEF Inv, OneEntryEach
    <3>2. CASE i = x /\ j # x
      BY <3>2, <2>5, <2>7 DEF Used
    <3>3. CASE i # x /\ j = x
      BY <3>3, <2>5, <2>7 DEF Used
    <3>. QED
      BY <3>1, <3>2, <3>3
  <2>11. Earned'
    <3>. SUFFICES ASSUME NEW i \in Used' PROVE EarnedBy(i)'
      BY DEF Earned
    <3>1. CASE i = x
      <4>1. heard'[p] \in Nat
        BY <1>1, <1>3, ConstantFacts DEF TasksTyped
      <4>. QED
        BY <3>1, <2>5, <4>1 DEF EarnedBy
    <3>2. CASE i # x
      <4>1. i \in Used /\ table'[i] = table[i] /\ table[i].address # p
        BY <3>2, <2>5, <2>6, <2>7 DEF Used
      <4>. QED
        BY <4>1, <2>1 DEF Inv, Earned, EarnedBy
    <3>. QED
      BY <3>1, <3>2
  <2>. QED
    BY <1>2, <1>3, <2>9, <2>10, <2>11 DEF Inv
<1>. QED
  BY <1>4, <1>5

-----------------------------------------------------------------------------
(***************************************************************************)
(* The maintenance task, the application, time.                            *)
(***************************************************************************)
\* An entry younger than the time of the maintenance task is excused; for the
\* others the difference does not wrap.
LEMMA ExpireKeepsInv ==
  ASSUME Inv, MaintExpire
  PROVE  Inv'
<1>. DEFINE late == {table[i].address : i \in {j \in Indexes : Expires(j) /\ table[j].age < maint.lag}}
<1>1. /\ table' = [i \in Indexes |->
                     IF Expires(i) THEN [table[i] EXCEPT !.state = "STALE", !.age = 0]
                     ELSE table[i]]
      /\ excused' = excused \cup late
      /\ UNCHANGED <<count, worker, heard>>
  BY DEF MaintExpire
<1>2. ASSUME NEW i \in Indexes
      PROVE  /\ table'[i] \in Entry
             /\ table'[i].address = table[i].address
             /\ table'[i].state = "EMPTY" <=> table[i].state = "EMPTY"
             /\ ~Expires(i) => table'[i] = table[i]
  <2>1. table[i] \in Entry /\ 0 \in 0..MaxAge
    BY ConstantFacts DEF Inv, TableTyped
  <2>2. CASE Expires(i)
    <3>1. table'[i] = [state |-> "STALE", address |-> table[i].address, age |-> 0]
      BY <1>1, <2>1, <2>2 DEF Entry
    <3>2. table[i].state = "ACTIVE"
      BY <2>2 DEF Expires
    <3>. QED
      BY <2>1, <2>2, <3>1, <3>2 DEF Entry
  <2>3. CASE ~Expires(i)
    BY <1>1, <2>1, <2>3
  <2>. QED
    BY <2>2, <2>3
<1>3. Used' = Used
  BY <1>2 DEF Used
<1>4. TableTyped'
  <2>1. table' \in [Indexes -> Entry]
    BY <1>1, <1>2
  <2>. QED
    BY <2>1, <1>1, <1>2, <1>3 DEF Inv, TableTyped, Used
<1>5. OneEntryEach'
  BY <1>2 DEF Inv, OneEntryEach
<1>6. PeersTyped' /\ CacheTyped'
  BY DEF Inv, PeersTyped, CacheTyped, MaintExpire, peerVars
<1>7. TasksTyped'
  <2>1. late \subseteq Peers
    BY DEF Inv, TableTyped, Used, Expires
  <2>2. maint' = [pc |-> "waiting", lag |-> 0]
    BY DEF MaintExpire
  <2>3. 0 \in 0..MaxLag
    BY ConstantFacts
  <2>. QED
    BY <1>1, <2>1, <2>2, <2>3 DEF Inv, TasksTyped
<1>8. ASSUME NEW i \in Used PROVE EarnedBy(i)'
  <2>1. EarnedBy(i) /\ table'[i].address = table[i].address /\ i \in Indexes
    BY <1>2 DEF Inv, Earned, Used
  <2>2. CASE ~Expires(i)
    BY <1>1, <1>2, <2>1, <2>2 DEF EarnedBy
  <2>3. CASE Expires(i)
    <3>. SUFFICES ASSUME table[i].address \notin excused', worker.from # table[i].address
                  PROVE  heard[table[i].address] >= Timeout
      BY <1>1, <2>1 DEF EarnedBy
    <3>1. table[i].age \in Nat /\ maint.lag \in Nat
      BY <2>1, ConstantFacts DEF Inv, TableTyped, TasksTyped, Entry
    <3>2. ~(table[i].age < maint.lag)
      BY <1>1, <2>1, <2>3
    <3>3. table[i].age >= Timeout
      BY <2>3, <3>1, <3>2, ConstantFacts DEF Expires, Elapsed
    <3>4. table[i].address \in Peers
      BY DEF Inv, TableTyped
    <3>5. heard[table[i].address] \in 0..Timeout
      BY <3>4 DEF Inv, TasksTyped
    <3>6. table[i].address \notin excused
      BY <1>1
    <3>7. \/ heard[table[i].address] >= Timeout
          \/ heard[table[i].address] >= table[i].age
      BY <2>1, <3>6 DEF EarnedBy
    <3>. QED
      BY <3>1, <3>3, <3>5, <3>7, ConstantFacts
  <2>. QED
    BY <2>2, <2>3
<1>9. Earned'
  BY <1>3, <1>8 DEF Earned
<1>. QED
  BY <1>4, <1>5, <1>6, <1>7, <1>9 DEF Inv

LEMMA RemoveKeepsInv ==
  ASSUME Inv, NEW p \in Peers, Remove(p)
  PROVE  Inv'
<1>. DEFINE x == First(Find(p))
<1>1. /\ table' = [table EXCEPT ![x] = Empty]
      /\ count' = IF count > 0 THEN count - 1 ELSE count
      /\ UNCHANGED <<peerVars, air, cache, worker, maint, heard, excused>>
  BY DEF Remove
<1>2. x \in Used /\ x \in Indexes
  <2>1. Find(p) \in SUBSET Indexes /\ Find(p) # {}
    BY DEF Find, Remove
  <2>2. x \in Find(p)
    BY <2>1, FirstIn
  <2>. QED
    BY <2>2 DEF Find, Used
<1>3. Empty \in Entry /\ Empty.state = "EMPTY"
  BY ConstantFacts DEF Empty, Entry
<1>4. /\ table' \in [Indexes -> Entry]
      /\ table'[x].state = "EMPTY"
      /\ \A i \in Indexes : i # x => table'[i] = table[i]
  BY <1>1, <1>2, <1>3 DEF Inv, TableTyped
<1>5. Used' = Used \ {x}
  BY <1>4 DEF Used
<1>6. TableTyped'
  <2>1. Cardinality(Used \ {x}) = Cardinality(Used) - 1 /\ Cardinality(Used) # 0
    BY <1>2, UsedFinite, FS_RemoveElement, FS_EmptySet
  <2>2. count' = Cardinality(Used')
    BY <1>1, <1>5, <2>1, UsedFinite DEF Inv, TableTyped
  <2>. QED
    BY <2>2, <1>4, <1>5 DEF Inv, TableTyped, Used
<1>7. OneEntryEach'
  BY <1>4 DEF Inv, OneEntryEach
<1>8. Earned'
  <2>. SUFFICES ASSUME NEW i \in Used' PROVE EarnedBy(i)'
    BY DEF Earned
  <2>1. i \in Used /\ table'[i] = table[i]
    BY <1>4, <1>5 DEF Used
  <2>. QED
    BY <1>1, <2>1 DEF Inv, Earned, EarnedBy
<1>9. PeersTyped' /\ CacheTyped' /\ TasksTyped'
  BY <1>1 DEF Inv, PeersTyped, CacheTyped, TasksTyped, peerVars
<1>. QED
  BY <1>6, <1>7, <1>8, <1>9 DEF Inv

LEMMA ClearKeepsInv ==
  ASSUME Inv, ClearTable
  PROVE  Inv'
<1>1. Empty \in Entry /\ Empty.state = "EMPTY"
  BY ConstantFacts DEF Empty, Entry
<1>2. Used' = {}
  BY <1>1 DEF ClearTable, Used
<1>3. TableTyped'
  BY <1>1, <1>2, FS_EmptySet DEF ClearTable, TableTyped
<1>4. OneEntryEach' /\ Earned'
  BY <1>1, <1>2 DEF ClearTable, OneEntryEach, Earned
<1>5. PeersTyped' /\ CacheTyped' /\ TasksTyped'
  BY DEF ClearTable, Inv, PeersTyped, CacheTyped, TasksTyped, peerVars
<1>. QED
  BY <1>3, <1>4, <1>5 DEF Inv

\* An entry grows older no faster than the time since its peer was heard.
LEMMA TickKeepsInv ==
  ASSUME Inv, Tick
  PROVE  Inv'
<1>1. /\ table' = [i \in Indexes |->
                     IF table[i].state = "ACTIVE"
                     THEN [table[i] EXCEPT !.age = Aged(@)] ELSE table[i]]
      /\ heard' = [q \in Peers |-> IF heard[q] < Timeout THEN heard[q] + 1 ELSE Timeout]
      /\ UNCHANGED <<alive, restarts, seq, air, count, worker, excused>>
      /\ announced' = {}
  BY DEF Tick
<1>2. ASSUME NEW i \in Indexes
      PROVE  /\ table'[i] \in Entry
             /\ table'[i].address = table[i].address
             /\ table'[i].state = table[i].state
             /\ table[i].state = "ACTIVE" => table'[i].age <= table[i].age + 1
  <2>1. table[i] \in Entry /\ table[i].age \in 0..MaxAge
    BY DEF Inv, TableTyped, Entry
  <2>2. Aged(table[i].age) \in 0..MaxAge /\ Aged(table[i].age) <= table[i].age + 1
    BY <2>1, ConstantFacts DEF Aged
  <2>3. CASE table[i].state = "ACTIVE"
    <3>1. table'[i] = [state |-> "ACTIVE", address |-> table[i].address, age |-> Aged(table[i].age)]
      BY <1>1, <2>1, <2>3 DEF Entry
    <3>. QED
      BY <2>1, <2>2, <2>3, <3>1 DEF Entry
  <2>4. CASE table[i].state # "ACTIVE"
    BY <1>1, <2>1, <2>4
  <2>. QED
    BY <2>3, <2>4
<1>3. Used' = Used
  BY <1>2 DEF Used
<1>4. TableTyped'
  <2>1. table' \in [Indexes -> Entry]
    BY <1>1, <1>2
  <2>. QED
    BY <2>1, <1>1, <1>2, <1>3 DEF Inv, TableTyped, Used
<1>5. OneEntryEach'
  BY <1>2 DEF Inv, OneEntryEach
<1>6. CacheTyped'
  BY AgingTyped DEF Inv, Tick
<1>7. PeersTyped'
  BY <1>1 DEF Inv, PeersTyped
<1>8. heard' \in [Peers -> 0..Timeout]
  BY <1>1, ConstantFacts DEF Inv, TasksTyped
<1>9. TasksTyped'
  <2>1. maint' \in [pc : {"waiting", "ticking"}, lag : 0..MaxLag]
    BY ConstantFacts DEF Tick, Inv, TasksTyped
  <2>. QED
    BY <1>1, <1>8, <2>1 DEF Inv, TasksTyped
<1>10. ASSUME NEW i \in Used PROVE EarnedBy(i)'
  <2>. DEFINE p == table[i].address
  <2>1. EarnedBy(i) /\ i \in Indexes /\ p \in Peers
    BY DEF Inv, Earned, TableTyped, Used
  <2>2. heard[p] \in 0..Timeout
    BY <2>1 DEF Inv, TasksTyped
  <2>3. heard'[p] = IF heard[p] < Timeout THEN heard[p] + 1 ELSE Timeout
    BY <1>1, <2>1
  <2>4. table'[i].age \in Nat /\ table[i].age \in Nat
    BY <1>2, <2>1, ConstantFacts DEF Inv, TableTyped, Entry
  <2>. QED
    BY <1>1, <1>2, <2>1, <2>2, <2>3, <2>4, ConstantFacts DEF EarnedBy
<1>11. Earned'
  BY <1>3, <1>10 DEF Earned
<1>. QED
  BY <1>4, <1>5, <1>6, <1>7, <1>9, <1>11 DEF Inv

-----------------------------------------------------------------------------
LEMMA NextInv == Inv /\ [Next]_vars => Inv'
<1>. SUFFICES ASSUME Inv, [Next]_vars PROVE Inv'
  OBVIOUS
<1>1. CASE \E p \in Peers : Announce(p) \/ Crash(p) \/ Restart(p)
  BY <1>1, PeersKeepInv
<1>2. CASE \E p \in Peers : WorkerReceive(p)
  BY <1>2, ReceiveKeepsInv
<1>3. CASE WorkerUpdate
  BY <1>3, UpdateKeepsInv
<1>4. CASE MaintExpire
  BY <1>4, ExpireKeepsInv
<1>5. CASE \E p \in Peers : Remove(p)
  BY <1>5, RemoveKeepsInv
<1>6. CASE ClearTable
  BY <1>6, ClearKeepsInv
<1>7. CASE Tick
  BY <1>7, TickKeepsInv
<1>8. CASE UNCHANGED vars
  BY <1>8 DEF vars, peerVars, tableVars, Inv, PeersTyped, CacheTyped, TableTyped, TasksTyped,
    OneEntryEach, Earned, EarnedBy, Used
<1>. QED
  BY <1>1, <1>2, <1>3, <1>4, <1>5, <1>6, <1>7, <1>8 DEF Next

LEMMA Invariant == Spec => []Inv
BY InitInv, NextInv, PTL DEF Spec

\* Every variable keeps its type and the caches and the table their sizes; the
\* counter of the table is the number of its entries in use, through every
\* update, removal, expiry and clearing (enp_neighbor.c).
THEOREM TypeCorrect == Spec => []TypeOK
<1>1. Inv => TypeOK
  BY DEF Inv, PeersTyped, CacheTyped, TableTyped, TasksTyped, TypeOK, Entry, Remembered, Used
<1>. QED
  BY <1>1, Invariant, PTL

\* A node never has two entries in the neighbor table, however often it falls
\* silent, restarts and comes back (enp_neighbor_find_index, enp_neighbor.c:22-41).
THEOREM OneEntry == Spec => []OneEntryEach
<1>1. Inv => OneEntryEach
  BY DEF Inv
<1>. QED
  BY <1>1, Invariant, PTL

\* A node is marked STALE only after it has not been heard for the timeout,
\* with the exceptions StaleIsEarned names (enp_neighbor_expire, enp_neighbor.c:297-313).
THEOREM StalenessIsEarned == Spec => []StaleIsEarned
<1>1. ASSUME Inv, NEW p \in Peers \ excused, StateOf(p) = "STALE", worker.from # p
      PROVE  heard[p] >= Timeout
  <2>1. Known(p) # {} /\ Known(p) \in SUBSET Indexes
    BY <1>1 DEF StateOf, Known
  <2>2. First(Known(p)) \in Known(p)
    BY <2>1, FirstIn
  <2>3. PICK i \in Used : table[i].address = p /\ table[i].state = "STALE"
    BY <1>1, <2>1, <2>2 DEF StateOf, Known, Used
  <2>. QED
    BY <1>1, <2>3 DEF Inv, Earned, EarnedBy
<1>2. Inv => StaleIsEarned
  BY <1>1 DEF StaleIsEarned
<1>. QED
  BY <1>2, Invariant, PTL
=============================================================================
