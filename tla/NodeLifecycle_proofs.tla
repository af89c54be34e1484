------------------------ MODULE NodeLifecycle_proofs ------------------------
(***************************************************************************)
(* That the order in which the application brings a node up and takes it   *)
(* down protects the dispatcher from every frame but the one under way,    *)
(* and that an accepted start of the maintenance task is kept, for any     *)
(* number of services, lives and starts.                                   *)
(***************************************************************************)
EXTENDS NodeLifecycle, TLAPS

\* The stages in which every service is registered.
Whole == {"path", "bound", "up", "unbound", "cleared", "detached"}

\* The table holds the services it counts, in the order they are registered.
Registered ==
  /\ dispatcher.context
  /\ dispatcher.initialized
  /\ dispatcher.count <= Len(Services)
  /\ \A k \in 1..dispatcher.count : dispatcher.services[k] = Services[k]

TableInv ==
  /\ main.stage = "dispatcher" => Registered
  /\ main.stage \in Whole => Registered /\ dispatcher.count = Len(Services)

PathInv == path.bound => main.stage \in {"bound", "up"}

\* A frame under way; while the table is whole, its service is still ahead.  A
\* late one does not get past the callback, as the path is no longer bound.
WorkerInv ==
  worker # Idle =>
    /\ main.stage \in {"up", "off"} \cup Dismantled
    /\ worker.late => worker.pc = "callback" /\ main.stage \in Dismantled \cup {"off"}
    /\ worker.type \in Types
    /\ worker.at >= 1
    /\ main.stage \in Whole =>
         /\ worker.pc # "unserved"
         /\ \A j \in 1..(worker.at - 1) : Services[j] # worker.type

FaultInv == fault = "service" =>
  worker # Idle /\ worker.pc # "callback" /\ main.stage \notin Whole

\* A maintenance task keeps its handle as long as it may look at the flag.
TaskInv ==
  /\ maint.named <=> maint.task \in Looping \cup {"ending"}
  /\ call # "none" => ~starts.started
  /\ ~starts.overlap =>
       /\ fault # "stack"
       /\ call = "checked" => maint.task = "none"
       /\ call = "running" => maint.task = "none" /\ maint.running
       /\ starts.started => maint.running /\ maint.task \in Looping

Inv == TypeOK /\ TableInv /\ PathInv /\ WorkerInv /\ FaultInv /\ TaskInv

-----------------------------------------------------------------------------
LEMMA TypesFacts ==
  /\ Len(Services) \in Nat
  /\ DOMAIN Services = 1..Len(Services)
  /\ \A k \in 1..Len(Services) : Services[k] \in Types /\ Services[k] # NoService
BY LifecycleAssumption DEF LifecycleAssumption, Types

LEMMA InitInv == Init => Inv
<1> SUFFICES ASSUME Init PROVE Inv
  OBVIOUS
<1>1. TypeOK
  BY LifecycleAssumption DEF LifecycleAssumption, Init, TypeOK, Idle, Unused, Stages,
    Rising, Falling, Looping, Nameless
<1>2. TableInv /\ PathInv /\ WorkerInv /\ FaultInv /\ TaskInv
  BY DEF Init, TableInv, Whole, PathInv, WorkerInv, FaultInv, TaskInv, Looping, Nameless
<1> QED BY <1>1, <1>2 DEF Inv

LEMMA StageSets ==
  /\ Dismantled = {"unbound", "cleared", "detached", "zeroed", "counted", "forgotten", "closed"}
  /\ Stages = {"off", "context", "dispatcher", "path", "bound", "up"} \cup Dismantled
<1>1. Dismantled = {"unbound", "cleared", "detached", "zeroed", "counted", "forgotten", "closed"}
  BY DEF Dismantled, Falling
<1>2. {Rising[k] : k \in DOMAIN Rising} = {"off", "context", "dispatcher", "path", "bound"}
  BY DEF Rising
<1> QED BY <1>1, <1>2 DEF Stages, Dismantled

-----------------------------------------------------------------------------
(* The application's steps *)

LEMMA StageStep ==
  ASSUME Inv, NEW from, NEW to, Proceeds(from, to), to \in Stages
  PROVE  /\ main' \in [stage : Stages, lives : 0..MaxLives]
         /\ main.stage = from /\ main'.stage = to
         /\ call = "none"
BY DEF Inv, TypeOK, Proceeds

\* What an application's step that leaves tasks and faults alone has to keep.
LEMMA Frame ==
  ASSUME Inv, UNCHANGED <<call, worker, maint, starts, fault>>,
         main' \in [stage : Stages, lives : 0..MaxLives],
         dispatcher' \in [services : [Slots -> Types \cup {NoService}], count : 0..MaxServices,
                          context : BOOLEAN, initialized : BOOLEAN],
         path' \in [bound : BOOLEAN, plane : BOOLEAN, initialized : BOOLEAN]
  PROVE  TypeOK' /\ TaskInv'
BY DEF Inv, TypeOK, TaskInv

LEMMA RisesInv == ASSUME Inv, fault = "none", Rises PROVE Inv'
<1> USE StageSets, TypesFacts DEF Inv
<1>1. CASE ContextInit
  <2>1. main' \in [stage : Stages, lives : 0..MaxLives]
    BY <1>1, LifecycleAssumption DEF ContextInit, TypeOK, LifecycleAssumption
  <2>2. TypeOK' /\ TaskInv'
    BY <1>1, <2>1, Frame DEF ContextInit, TypeOK
  <2>3. TableInv' /\ PathInv' /\ WorkerInv' /\ FaultInv'
    BY <1>1 DEF ContextInit, TableInv, PathInv, WorkerInv, FaultInv, Whole
  <2> QED BY <2>2, <2>3
<1>2. CASE DispatcherInit
  <2>1. main' \in [stage : Stages, lives : 0..MaxLives] /\ main.stage = "context"
          /\ main'.stage = "dispatcher"
    BY <1>2, StageStep DEF DispatcherInit
  <2>2. /\ dispatcher' \in [services : [Slots -> Types \cup {NoService}], count : 0..MaxServices,
                             context : BOOLEAN, initialized : BOOLEAN]
        /\ dispatcher'.context /\ dispatcher'.initialized /\ dispatcher'.count = 0
    <3>1. dispatcher' = [services |-> [k \in Slots |-> NoService], count |-> 0,
                         context |-> TRUE, initialized |-> TRUE]
      BY <1>2 DEF DispatcherInit, Unused
    <3> QED BY <3>1, LifecycleAssumption DEF LifecycleAssumption
  <2>3. TypeOK' /\ TaskInv'
    BY <1>2, <2>1, <2>2, Frame DEF DispatcherInit, TypeOK
  <2>4. TableInv' /\ PathInv' /\ WorkerInv' /\ FaultInv'
    BY <1>2, <2>1, <2>2 DEF DispatcherInit, TableInv, Registered, PathInv, WorkerInv, FaultInv,
      Whole
  <2> QED BY <2>3, <2>4
<1>3. CASE RegisterNext
  <2> DEFINE type == Services[dispatcher.count + 1]
  <2>1. /\ main.stage = "dispatcher" /\ dispatcher.count < Len(Services)
        /\ dispatcher.count \in Nat /\ dispatcher.count < MaxServices
        /\ dispatcher.count + 1 \in Slots /\ type \in Types
        /\ dispatcher' = [dispatcher EXCEPT !.services[dispatcher.count + 1] = type,
                                            !.count = @ + 1]
    BY <1>3, LifecycleAssumption DEF RegisterNext, Register, TypeOK, Slots, LifecycleAssumption
  <2>2. /\ dispatcher' \in [services : [Slots -> Types \cup {NoService}], count : 0..MaxServices,
                             context : BOOLEAN, initialized : BOOLEAN]
        /\ dispatcher'.count = dispatcher.count + 1
        /\ dispatcher'.context = dispatcher.context
        /\ dispatcher'.initialized = dispatcher.initialized
        /\ \A k \in Slots : dispatcher'.services[k] =
              IF k = dispatcher.count + 1 THEN type ELSE dispatcher.services[k]
    <3>1. /\ dispatcher'.services = [dispatcher.services EXCEPT ![dispatcher.count + 1] = type]
          /\ dispatcher'.count = dispatcher.count + 1
          /\ dispatcher'.context = dispatcher.context
          /\ dispatcher'.initialized = dispatcher.initialized
          /\ dispatcher' = [services |-> dispatcher'.services, count |-> dispatcher'.count,
                            context |-> dispatcher.context,
                            initialized |-> dispatcher.initialized]
      BY <2>1 DEF TypeOK
    <3>2. dispatcher'.count \in 0..MaxServices
      BY <2>1, <3>1, LifecycleAssumption DEF LifecycleAssumption
    <3>3. dispatcher'.services \in [Slots -> Types \cup {NoService}]
      BY <2>1, <3>1 DEF TypeOK
    <3>4. \A k \in Slots : dispatcher'.services[k] =
             IF k = dispatcher.count + 1 THEN type ELSE dispatcher.services[k]
      BY <3>1 DEF TypeOK
    <3> QED BY <3>1, <3>2, <3>3, <3>4 DEF TypeOK
  <2>3. TypeOK' /\ TaskInv'
    BY <1>3, <2>2, Frame DEF RegisterNext, Register, TypeOK
  <2>4. Registered'
    <3>1. 1..dispatcher'.count \subseteq Slots
      BY <2>1, <2>2, LifecycleAssumption DEF Slots, LifecycleAssumption
    <3> QED BY <2>1, <2>2, <3>1 DEF TableInv, Registered
  <2>5. TableInv' /\ PathInv' /\ WorkerInv' /\ FaultInv'
    BY <1>3, <2>1, <2>4 DEF RegisterNext, Register, TableInv, PathInv, WorkerInv, FaultInv, Whole
  <2> QED BY <2>3, <2>5
<1>4. CASE PathInit
  <2>1. main' \in [stage : Stages, lives : 0..MaxLives] /\ main.stage = "dispatcher"
          /\ main'.stage = "path"
    BY <1>4, StageStep DEF PathInit
  <2>2. TypeOK' /\ TaskInv'
    BY <1>4, <2>1, Frame DEF PathInit, TypeOK
  <2>3. TableInv' /\ PathInv' /\ WorkerInv' /\ FaultInv'
    BY <1>4, <2>1 DEF PathInit, AllRegistered, TypeOK, TableInv, Registered, PathInv, WorkerInv,
      FaultInv, Whole
  <2> QED BY <2>2, <2>3
<1>5. CASE Bind
  <2>1. main' \in [stage : Stages, lives : 0..MaxLives] /\ main.stage = "path"
          /\ main'.stage = "bound"
    BY <1>5, StageStep DEF Bind
  <2>2. TypeOK' /\ TaskInv'
    BY <1>5, <2>1, Frame DEF Bind, TypeOK
  <2>3. TableInv' /\ PathInv' /\ WorkerInv' /\ FaultInv'
    BY <1>5, <2>1 DEF Bind, TableInv, Registered, PathInv, WorkerInv, FaultInv, Whole
  <2> QED BY <2>2, <2>3
<1>6. CASE SetCallback
  <2>1. main' \in [stage : Stages, lives : 0..MaxLives] /\ main.stage = "bound"
          /\ main'.stage = "up"
    BY <1>6, StageStep DEF SetCallback
  <2>2. TypeOK' /\ TaskInv'
    BY <1>6, <2>1, Frame DEF SetCallback, TypeOK
  <2>3. TableInv' /\ PathInv' /\ WorkerInv' /\ FaultInv'
    BY <1>6, <2>1 DEF SetCallback, TableInv, Registered, PathInv, WorkerInv, FaultInv, Whole
  <2> QED BY <2>2, <2>3
<1> QED BY <1>1, <1>2, <1>3, <1>4, <1>5, <1>6 DEF Rises

LEMMA FallsInv == ASSUME Inv, fault = "none", Falls PROVE Inv'
<1> USE StageSets DEF Inv, Whole
<1>1. CASE Unbind
  <2>1. main' \in [stage : Stages, lives : 0..MaxLives] /\ main.stage = "up"
          /\ main'.stage = "unbound"
    BY <1>1, StageStep DEF Unbind
  <2>2. TypeOK' /\ TaskInv'
    BY <1>1, <2>1, Frame DEF Unbind, TypeOK
  <2>3. TableInv' /\ PathInv' /\ WorkerInv' /\ FaultInv'
    BY <1>1, <2>1 DEF Unbind, TypeOK, TableInv, Registered, PathInv, WorkerInv, FaultInv
  <2> QED BY <2>2, <2>3
<1>2. CASE ClearPlane
  <2>1. main' \in [stage : Stages, lives : 0..MaxLives] /\ main.stage = "unbound"
          /\ main'.stage = "cleared"
    BY <1>2, StageStep DEF ClearPlane
  <2>2. TypeOK' /\ TaskInv'
    BY <1>2, <2>1, Frame DEF ClearPlane, TypeOK
  <2>3. TableInv' /\ PathInv' /\ WorkerInv' /\ FaultInv'
    BY <1>2, <2>1 DEF ClearPlane, TypeOK, TableInv, Registered, PathInv, WorkerInv, FaultInv
  <2> QED BY <2>2, <2>3
<1>3. CASE PathDeinit
  <2>1. main' \in [stage : Stages, lives : 0..MaxLives] /\ main.stage = "cleared"
          /\ main'.stage = "detached"
    BY <1>3, StageStep DEF PathDeinit
  <2>2. TypeOK' /\ TaskInv'
    BY <1>3, <2>1, Frame DEF PathDeinit, TypeOK
  <2>3. TableInv' /\ PathInv' /\ WorkerInv' /\ FaultInv'
    BY <1>3, <2>1 DEF PathDeinit, TypeOK, TableInv, Registered, PathInv, WorkerInv, FaultInv
  <2> QED BY <2>2, <2>3
<1>4. CASE ZeroServices
  <2>1. main' \in [stage : Stages, lives : 0..MaxLives] /\ main.stage = "detached"
          /\ main'.stage = "zeroed"
    BY <1>4, StageStep DEF ZeroServices
  <2>2. TypeOK' /\ TaskInv'
    BY <1>4, <2>1, Frame DEF ZeroServices, TypeOK, Unused
  <2>3. TableInv' /\ PathInv' /\ WorkerInv' /\ FaultInv'
    BY <1>4, <2>1 DEF ZeroServices, TableInv, PathInv, WorkerInv, FaultInv
  <2> QED BY <2>2, <2>3
<1>5. CASE ResetCount
  <2>1. main' \in [stage : Stages, lives : 0..MaxLives] /\ main.stage = "zeroed"
          /\ main'.stage = "counted"
    BY <1>5, StageStep DEF ResetCount
  <2>2. TypeOK' /\ TaskInv'
    BY <1>5, <2>1, Frame, LifecycleAssumption DEF ResetCount, TypeOK, LifecycleAssumption
  <2>3. TableInv' /\ PathInv' /\ WorkerInv' /\ FaultInv'
    BY <1>5, <2>1 DEF ResetCount, TableInv, PathInv, WorkerInv, FaultInv
  <2> QED BY <2>2, <2>3
<1>6. CASE ForgetContext
  <2>1. main' \in [stage : Stages, lives : 0..MaxLives] /\ main.stage = "counted"
          /\ main'.stage = "forgotten"
    BY <1>6, StageStep DEF ForgetContext
  <2>2. TypeOK' /\ TaskInv'
    BY <1>6, <2>1, Frame DEF ForgetContext, TypeOK
  <2>3. TableInv' /\ PathInv' /\ WorkerInv' /\ FaultInv'
    BY <1>6, <2>1 DEF ForgetContext, TableInv, PathInv, WorkerInv, FaultInv
  <2> QED BY <2>2, <2>3
<1>7. CASE DispatcherDeinit
  <2>1. main' \in [stage : Stages, lives : 0..MaxLives] /\ main.stage = "forgotten"
          /\ main'.stage = "closed"
    BY <1>7, StageStep DEF DispatcherDeinit
  <2>2. TypeOK' /\ TaskInv'
    BY <1>7, <2>1, Frame DEF DispatcherDeinit, TypeOK
  <2>3. TableInv' /\ PathInv' /\ WorkerInv' /\ FaultInv'
    BY <1>7, <2>1 DEF DispatcherDeinit, TableInv, PathInv, WorkerInv, FaultInv
  <2> QED BY <2>2, <2>3
<1>8. CASE ContextDeinit
  <2>1. main' \in [stage : Stages, lives : 0..MaxLives] /\ main.stage = "closed"
          /\ main'.stage = "off"
    BY <1>8, StageStep DEF ContextDeinit
  <2>2. TypeOK' /\ TaskInv'
    BY <1>8, <2>1, Frame DEF ContextDeinit, TypeOK
  <2>3. TableInv' /\ PathInv' /\ WorkerInv' /\ FaultInv'
    BY <1>8, <2>1 DEF ContextDeinit, TableInv, PathInv, WorkerInv, FaultInv
  <2> QED BY <2>2, <2>3
<1> QED BY <1>1, <1>2, <1>3, <1>4, <1>5, <1>6, <1>7, <1>8 DEF Falls

-----------------------------------------------------------------------------
(* The maintenance task: its calls and its own steps *)

\* The types of what a maintenance call and the maintenance task change.
Calls == {"none", "checked", "running", "stopping", "named"}
Tasks == {"loop", "wait", "cycle", "unnamed", "stopped", "deleted", "none", "ending"}
Maints == [running : BOOLEAN, named : BOOLEAN, notified : BOOLEAN, task : Tasks]
Starts == [made : 0..MaxStarts, started : BOOLEAN, overlap : BOOLEAN]

LEMMA MaintTypes ==
  ASSUME Inv
  PROVE  maint \in Maints /\ starts \in Starts /\ call \in Calls
BY DEF Inv, TypeOK, Maints, Starts, Calls, Tasks, Looping, Nameless

LEMMA MaintInv ==
  ASSUME Inv, fault = "none", UNCHANGED <<main, dispatcher, path, worker>>,
         call' \in Calls, maint' \in Maints, starts' \in Starts,
         fault' \in {"none", "stack", "notified"}, TaskInv'
  PROVE  Inv'
<1>1. Maints = [running : BOOLEAN, named : BOOLEAN, notified : BOOLEAN,
                task : Looping \cup Nameless \cup {"none", "ending"}]
  BY DEF Maints, Tasks, Looping, Nameless
<1>2. TypeOK'
  BY <1>1 DEF Inv, TypeOK, Starts, Calls
<1> QED BY <1>2 DEF Inv, TableInv, Registered, PathInv, WorkerInv, FaultInv

LEMMA CallsInv ==
  ASSUME Inv, fault = "none", StartChecks \/ StopChecks \/ InCall PROVE Inv'
<1> USE MaintTypes
<1>1. CASE StartChecks
  <2> DEFINE nameless == maint.task \in Nameless
  <2>1. /\ starts' = [starts EXCEPT !.made = @ + 1, !.overlap = nameless]
        /\ ~starts.started
        /\ starts.made + 1 \in 0..MaxStarts
    BY <1>1, LifecycleAssumption DEF Starts, StartChecks, LifecycleAssumption
  <2>2. nameless \in BOOLEAN
    OBVIOUS
  <2> HIDE DEF nameless
  <2>3. starts' \in Starts /\ ~starts'.started /\ starts'.overlap = nameless
    BY <2>1, <2>2 DEF Starts
  <2> USE DEF nameless
  <2>4. TaskInv'
    <3>1. maint.task \in Nameless \/ maint.task = "none"
      BY <1>1 DEF Inv, TaskInv, Maints, Tasks, Looping, Nameless, StartChecks, InitRefused
    <3> QED BY <1>1, <2>3, <3>1 DEF Inv, TaskInv, StartChecks
  <2> QED BY <1>1, <2>3, <2>4, MaintInv DEF StartChecks, Calls
<1>2. CASE StopChecks
  <2>1. starts' = [made |-> starts.made, started |-> FALSE, overlap |-> starts.overlap]
    BY <1>2 DEF Starts, StopChecks
  <2>2. /\ maint' \in Maints
        /\ maint'.named = maint.named /\ maint'.task = maint.task
        /\ call = "none" /\ call' \in {"none", "stopping"}
    BY <1>2 DEF Maints, StopChecks
  <2>3. starts' \in Starts
    BY <2>1 DEF Starts
  <2>4. TaskInv'
    BY <1>2, <2>1, <2>2 DEF Inv, TaskInv, StopChecks
  <2> QED BY <1>2, <2>2, <2>3, <2>4, MaintInv DEF StopChecks, Calls
<1>3. CASE StartRuns
  <2>1. maint' = [running |-> TRUE, named |-> maint.named, notified |-> maint.notified,
                  task |-> maint.task]
    BY <1>3 DEF Maints, StartRuns
  <2>2. maint' \in Maints
    BY <2>1 DEF Maints
  <2>3. TaskInv'
    BY <1>3, <2>1 DEF Inv, TaskInv, StartRuns
  <2> QED BY <1>3, <2>2, <2>3, MaintInv DEF StartRuns, Calls
<1>4. CASE StartCreates
  <2>1. CASE maint.task = "none"
    <3>1. /\ maint' = [running |-> maint.running, named |-> TRUE, notified |-> FALSE,
                       task |-> "loop"]
          /\ starts' = [made |-> starts.made, started |-> TRUE, overlap |-> starts.overlap]
          /\ UNCHANGED fault
      BY <1>4, <2>1 DEF Maints, Starts, StartCreates
    <3>2. maint' \in Maints /\ starts' \in Starts
      BY <3>1 DEF Maints, Starts, Tasks
    <3>3. TaskInv'
      BY <1>4, <3>1 DEF Inv, TaskInv, StartCreates, Looping
    <3> QED BY <1>4, <3>1, <3>2, <3>3, MaintInv DEF StartCreates, Calls
  <2>2. CASE maint.task # "none"
    <3>1. fault' = "stack" /\ UNCHANGED <<maint, starts>>
      BY <1>4, <2>2 DEF StartCreates
    <3>2. starts.overlap
      BY <1>4, <2>2 DEF Inv, TaskInv, StartCreates
    <3>3. TaskInv'
      BY <1>4, <3>1, <3>2 DEF Inv, TaskInv, StartCreates
    <3> QED BY <1>4, <3>1, <3>3, MaintInv DEF StartCreates, Calls
  <2> QED BY <2>1, <2>2
<1>5. CASE StopLooks
  <2>1. TaskInv'
    BY <1>5 DEF Inv, TaskInv, StopLooks
  <2> QED BY <1>5, <2>1, MaintInv DEF StopLooks, Calls
<1>6. CASE StopNotifies
  <2>1. /\ maint' \in Maints
        /\ maint'.named = maint.named /\ maint'.task = maint.task
        /\ maint'.running = maint.running
        /\ fault' \in {"none", "notified"}
    BY <1>6 DEF Maints, StopNotifies
  <2>2. TaskInv'
    BY <1>6, <2>1 DEF Inv, TaskInv, StopNotifies
  <2> QED BY <1>6, <2>1, <2>2, MaintInv DEF StopNotifies, Calls
<1> QED BY <1>1, <1>2, <1>3, <1>4, <1>5, <1>6 DEF InCall

\* A step of the task that goes from one place to another.
LEMMA TaskMoves ==
  ASSUME Inv, fault = "none", UNCHANGED <<main, call, dispatcher, path, worker, starts, fault>>,
         maint.task # "none",
         NEW to \in Tasks, maint' = [running |-> maint'.running, named |-> maint'.named,
                                     notified |-> maint'.notified, task |-> to],
         maint'.running \in BOOLEAN, maint'.notified \in BOOLEAN,
         maint'.named <=> to \in Looping \cup {"ending"}, maint'.named \in BOOLEAN,
         maint.task \in Looping /\ maint.running => maint'.running /\ to \in Looping
  PROVE  Inv'
<1>1. maint' \in Maints /\ maint'.task = to
  BY DEF Maints
<1>2. TaskInv'
  BY <1>1 DEF Inv, TaskInv
<1> QED BY <1>1, <1>2, MaintInv, MaintTypes

LEMMA TaskStepInv == ASSUME Inv, fault = "none", TaskStep PROVE Inv'
<1> USE MaintTypes DEF TaskGoes, Maints, Tasks, Looping
<1>0. maint.named <=> maint.task \in Looping \cup {"ending"}
  BY DEF Inv, TaskInv
<1>1. CASE TaskLoops
  <2> DEFINE to == IF maint.running THEN "wait" ELSE "ending"
  <2>1. maint' = [running |-> maint.running, named |-> maint.named,
                  notified |-> maint.notified, task |-> to]
    BY <1>1 DEF TaskLoops
  <2> QED BY <1>0, <1>1, <2>1, TaskMoves DEF TaskLoops
<1>2. CASE TaskWakes
  <2> DEFINE to == IF ~maint.running THEN "ending"
                   ELSE IF maint.notified THEN "loop" ELSE "cycle"
  <2>1. maint' = [running |-> maint.running, named |-> maint.named,
                  notified |-> FALSE, task |-> to]
    BY <1>2 DEF TaskWakes
  <2> QED BY <1>0, <1>2, <2>1, TaskMoves DEF TaskWakes
<1>3. CASE TaskCycles
  <2>1. maint' = [running |-> maint.running, named |-> maint.named,
                  notified |-> maint.notified, task |-> "loop"]
    BY <1>3 DEF TaskCycles
  <2> QED BY <1>0, <1>3, <2>1, TaskMoves DEF TaskCycles
<1>4. CASE TaskForgets
  <2>1. maint' = [running |-> maint.running, named |-> FALSE,
                  notified |-> maint.notified, task |-> "unnamed"]
    BY <1>4 DEF TaskForgets, Forgets
  <2> QED BY <1>4, <2>1, TaskMoves DEF TaskForgets
<1>5. CASE TaskStops
  <2>1. maint' = [running |-> FALSE, named |-> maint.named,
                  notified |-> maint.notified, task |-> "stopped"]
    BY <1>5 DEF TaskStops
  <2> QED BY <1>0, <1>5, <2>1, TaskMoves DEF TaskStops
<1>6. CASE TaskDeletes
  <2>1. maint' = [running |-> maint.running, named |-> maint.named,
                  notified |-> maint.notified, task |-> "deleted"]
    BY <1>6 DEF TaskDeletes
  <2> QED BY <1>0, <1>6, <2>1, TaskMoves DEF TaskDeletes
<1>7. CASE IdleReleases
  <2>1. maint' = [running |-> maint.running, named |-> maint.named,
                  notified |-> maint.notified, task |-> "none"]
    BY <1>7 DEF IdleReleases
  <2> QED BY <1>0, <1>7, <2>1, TaskMoves DEF IdleReleases
<1> QED BY <1>1, <1>2, <1>3, <1>4, <1>5, <1>6, <1>7 DEF TaskStep

-----------------------------------------------------------------------------
(* The worker *)

LEMMA WorkerFrame ==
  ASSUME Inv, fault = "none", UNCHANGED <<main, call, dispatcher, path, maint, starts>>,
         fault' \in {"none", "service"}, WorkerInv', FaultInv',
         worker' \in [pc : {"idle", "callback", "path", "plane", "local", "dispatch", "find",
                            "process", "unserved"},
                      type : Types \cup {NoService}, at : 0..(MaxServices + 1),
                      late : BOOLEAN]
  PROVE  Inv'
BY DEF Inv, TypeOK, TableInv, Registered, PathInv, TaskInv

LEMMA IdleType ==
  Idle \in [pc : {"idle", "callback", "path", "plane", "local", "dispatch", "find",
                  "process", "unserved"},
            type : Types \cup {NoService}, at : 0..(MaxServices + 1), late : BOOLEAN]
BY LifecycleAssumption DEF LifecycleAssumption, Idle

\* The worker goes on with its frame, or is done with it.
LEMMA GoesOn ==
  ASSUME Inv, fault = "none", UNCHANGED <<main, call, dispatcher, path, maint, starts, fault>>,
         worker # Idle,
         NEW pc \in {"path", "plane", "local", "dispatch", "find", "process", "unserved"},
         Goes(pc) \/ Returns,
         Goes(pc) => ~worker.late,
         Goes(pc) /\ main.stage \in Whole => pc # "unserved"
  PROVE  Inv'
<1>1. CASE Goes(pc)
  <2>1. WorkerInv' /\ FaultInv'
    BY <1>1 DEF Goes, Inv, TypeOK, WorkerInv, FaultInv
  <2> QED BY <1>1, <2>1, WorkerFrame DEF Goes, Inv, TypeOK
<1>2. CASE Returns
  <2>1. WorkerInv' /\ FaultInv'
    BY <1>2 DEF Returns, WorkerInv, FaultInv
  <2> QED BY <1>2, <2>1, WorkerFrame, IdleType DEF Returns
<1> QED BY <1>1, <1>2

LEMMA ReceiveInv ==
  ASSUME Inv, fault = "none", NEW type \in Types, Receive(type) PROVE Inv'
<1>1. /\ main.stage \in {"up"} \cup Dismantled
      /\ UNCHANGED <<main, call, dispatcher, path, maint, starts, fault>>
  BY DEF Receive
<1>2. PICK late \in BOOLEAN :
        /\ worker' = [pc |-> "callback", type |-> type, at |-> 1, late |-> late]
        /\ late => main.stage \in Dismantled
  <2> DEFINE late == main.stage \in Dismantled
  <2>1. late \in BOOLEAN
    OBVIOUS
  <2> QED BY <2>1 DEF Receive
<1>3. worker' \in [pc : {"idle", "callback", "path", "plane", "local", "dispatch", "find",
                        "process", "unserved"},
                  type : Types \cup {NoService}, at : 0..(MaxServices + 1), late : BOOLEAN]
  BY <1>2, LifecycleAssumption DEF LifecycleAssumption
<1>4. WorkerInv' /\ FaultInv'
  BY <1>1, <1>2 DEF WorkerInv, FaultInv
<1> QED BY <1>1, <1>3, <1>4, WorkerFrame

\* Behind the callback there is no late frame.
LEMMA NoneLate ==
  ASSUME Inv, worker # Idle, worker.pc # "callback"
  PROVE  ~worker.late
BY DEF Inv, WorkerInv

\* The callback lets a frame pass only while the path is bound.
LEMMA BoundInv == ASSUME Inv, fault = "none", ProcessBound PROVE Inv'
<1>1. path.bound => ~worker.late
  <2>1. path.bound => main.stage \notin Dismantled \cup {"off"}
    BY StageSets DEF Inv, PathInv
  <2> QED BY <2>1 DEF Inv, WorkerInv, ProcessBound, Idle
<1> QED BY <1>1, GoesOn DEF ProcessBound, Idle, Goes, Returns

LEMMA FindInv == ASSUME Inv, fault = "none", FindService PROVE Inv'
<1> USE DEF Inv
<1>1. worker # Idle /\ UNCHANGED <<main, call, dispatcher, path, maint, starts>>
  BY DEF FindService, Idle
<1>2. /\ worker.at \in Nat /\ worker.at >= 1 /\ worker.type \in Types
      /\ dispatcher.count \in 0..MaxServices /\ MaxServices \in Nat
  BY <1>1, LifecycleAssumption DEF TypeOK, WorkerInv, LifecycleAssumption
<1>3. main.stage \in Whole =>
        \E k \in 1..Len(Services) : Services[k] = worker.type /\ k >= worker.at
  <2>1. PICK k \in 1..Len(Services) : Services[k] = worker.type
    BY <1>2, TypesFacts DEF Types
  <2>2. main.stage \in Whole => k \notin 1..(worker.at - 1)
    BY <1>1, <2>1 DEF WorkerInv
  <2> QED BY <1>2, <2>1, <2>2, TypesFacts
<1>4. CASE worker.at > dispatcher.count
  <2>1. main.stage \notin Whole
    BY <1>2, <1>3, <1>4, TypesFacts DEF TableInv
  <2> QED BY <1>1, <1>4, <2>1, GoesOn, NoneLate DEF FindService
<1>5. CASE ~(worker.at > dispatcher.count)
  <2> DEFINE service == dispatcher.services[worker.at]
  <2>1. /\ fault' = IF service = NoService THEN "service" ELSE "none"
        /\ worker' = IF service = worker.type THEN [worker EXCEPT !.pc = "process"]
                     ELSE [worker EXCEPT !.at = @ + 1]
    BY <1>5 DEF FindService
  <2>2. main.stage \in Whole => service = Services[worker.at] /\ service # NoService
    BY <1>2, <1>5, TypesFacts DEF TableInv, Registered
  <2>3. worker' \in [pc : {"idle", "callback", "path", "plane", "local", "dispatch", "find",
                           "process", "unserved"},
                     type : Types \cup {NoService}, at : 0..(MaxServices + 1), late : BOOLEAN]
    BY <1>2, <1>5, <2>1 DEF TypeOK
  <2>4. worker' # Idle /\ worker'.pc # "unserved" /\ ~worker'.late
          /\ worker'.type = worker.type /\ worker'.pc # "callback"
    BY <2>1, <1>1, <1>2, NoneLate DEF TypeOK, FindService, Idle
  <2>5. WorkerInv'
    <3>1. worker'.at >= 1
      BY <1>2, <2>1 DEF TypeOK
    <3>2. main.stage \in Whole =>
            \A j \in 1..(worker'.at - 1) : Services[j] # worker.type
      <4>1. CASE service = worker.type
        <5>1. worker'.at = worker.at
          BY <4>1, <2>1 DEF TypeOK
        <5> QED BY <5>1, <1>1 DEF WorkerInv
      <4>2. CASE service # worker.type
        <5>1. worker'.at = worker.at + 1
          BY <4>2, <2>1 DEF TypeOK
        <5>2. \A j \in 1..(worker'.at - 1) : j \in 1..(worker.at - 1) \/ j = worker.at
          BY <5>1, <1>2
        <5> QED BY <5>2, <4>2, <2>2, <1>1 DEF WorkerInv
      <4> QED BY <4>1, <4>2
    <3> QED BY <1>1, <2>4, <3>1, <3>2 DEF WorkerInv
  <2>6. FaultInv'
    BY <1>1, <2>1, <2>2, <2>4 DEF FaultInv
  <2> QED BY <1>1, <2>1, <2>3, <2>5, <2>6, WorkerFrame
<1> QED BY <1>4, <1>5

LEMMA WorkerStepInv == ASSUME Inv, fault = "none", WorkerStep PROVE Inv'
<1>1. CASE ProcessBound
  BY <1>1, BoundInv
<1>2. CASE ProcessPath
  BY <1>2, GoesOn, NoneLate DEF ProcessPath, Idle
<1>3. CASE ProcessPlane
  BY <1>3, GoesOn, NoneLate DEF ProcessPlane, Idle
<1>4. CASE ProcessLocal
  BY <1>4, GoesOn, NoneLate DEF ProcessLocal, Idle
<1>5. CASE Dispatch
  BY <1>5, GoesOn, NoneLate DEF Dispatch, Idle
<1>6. CASE FindService
  BY <1>6, FindInv
<1>7. CASE Process
  <2>1. main.stage \in Whole => dispatcher.context
    BY DEF Inv, TableInv, Registered
  <2> QED BY <1>7, <2>1, GoesOn, NoneLate DEF Process, Idle
<1>8. CASE GiveUp
  BY <1>8, GoesOn DEF GiveUp, Idle, Goes, Returns
<1> QED BY <1>1, <1>2, <1>3, <1>4, <1>5, <1>6, <1>7, <1>8 DEF WorkerStep

-----------------------------------------------------------------------------
(* The theorems *)

LEMMA NextInv == Inv /\ [Next]_vars => Inv'
<1> SUFFICES ASSUME Inv, [Next]_vars PROVE Inv'
  OBVIOUS
<1>1. CASE UNCHANGED vars
  BY <1>1 DEF vars, Inv, TypeOK, TableInv, Registered, PathInv, WorkerInv, FaultInv, TaskInv
<1>2. CASE Next
  BY <1>2, RisesInv, FallsInv, CallsInv, ReceiveInv, WorkerStepInv, TaskStepInv DEF Next
<1> QED BY <1>1, <1>2

\* The inductive invariant holds throughout.
LEMMA AlwaysInv == Spec => []Inv
BY InitInv, NextInv, PTL DEF Spec

\* Every variable keeps its type.
THEOREM TypeCorrect == Spec => []TypeOK
<1>1. Inv => TypeOK
  BY DEF Inv
<1> QED BY <1>1, AlwaysInv, PTL

\* Only the frame under way when the teardown begins can miss its service or
\* meet a zeroed entry of the dispatcher's table.
THEOREM FramesAlwaysServed == Spec => []FramesAreServed
<1>1. Inv => FramesAreServed
  <2> SUFFICES ASSUME Inv, worker.pc = "unserved" \/ fault = "service"
               PROVE  main.stage \in Dismantled \cup {"off"} /\ ~worker.late
    BY DEF FramesAreServed
  <2>1. worker # Idle /\ worker.pc # "callback" /\ main.stage \notin Whole
    <3>1. CASE worker.pc = "unserved"
      BY <3>1 DEF Inv, WorkerInv, Idle
    <3>2. CASE fault = "service"
      BY <3>2 DEF Inv, FaultInv
    <3> QED BY <3>1, <3>2
  <2> QED BY <2>1, StageSets DEF Inv, WorkerInv, Whole
<1> QED BY <1>1, AlwaysInv, PTL

\* An accepted start of the maintenance task is kept until the next stop.
THEOREM StartsAreKept == Spec => []StartIsKept
<1>1. Inv => StartIsKept
  BY DEF Inv, TaskInv, StartIsKept
<1> QED BY <1>1, AlwaysInv, PTL
=============================================================================
