---------------------------- MODULE NodeLifecycle ----------------------------
(***************************************************************************)
(* The life of a node: the application's task brings the context, the      *)
(* dispatcher, its services, the receive path and the maintenance task up  *)
(* one after the other and takes them down again (enp_context.c,           *)
(* enp_dispatcher.c, enp_receive_path.c, enp_maintenance.c, in the order   *)
(* of main.c), while the transport's worker carries received frames        *)
(* through the receive path to a service, and the maintenance task runs    *)
(* its cycles.  The receive path is that of the production runtime's       *)
(* validation programs (P4-E4D): main.c sets a callback of its own that    *)
(* goes straight to the dispatcher (main.c:266).                           *)
(*                                                                         *)
(* None of these modules takes a lock or waits for another task, so an     *)
(* action is at most what a task does between two reads or writes of state *)
(* another one looks at.  The worker's own life, which ends with that of   *)
(* the transport, is the subject of EspNowTransport: a new life of the     *)
(* node begins here when the worker is idle.                               *)
(***************************************************************************)
EXTENDS Naturals, Sequences

CONSTANTS
  Services,     \* the packet types that get a service, in order
  DataTypes,    \* those the receive path hands to the data plane
  NoService,    \* NULL
  MaxServices,  \* ENP_DISPATCHER_MAX_SERVICES
  MaxLives,     \* bound of the model: lives of the node
  MaxStarts     \* bound of the model: starts of the maintenance task

Types == {Services[k] : k \in DOMAIN Services}

ASSUME LifecycleAssumption ==
  /\ Services \in Seq(Types)
  /\ \A j, k \in DOMAIN Services : Services[j] = Services[k] => j = k
  /\ NoService \notin Types
  /\ DataTypes \subseteq Types
  /\ MaxServices \in Nat /\ Len(Services) <= MaxServices
  /\ MaxLives \in Nat /\ MaxStarts \in Nat

VARIABLES
  main,        \* how far the application has come, and its lives
  call,        \* the maintenance call it is in
  dispatcher,  \* s_services, s_service_count, s_context, s_initialized
  path,        \* s_bound_path, the data plane's fields, path->initialized
  worker,      \* where the worker is with a frame of which type
  maint,       \* s_running, s_task, and the task with its notification
  starts,      \* history: accepted starts, and what is to be expected
  fault        \* what a task has done that no program may do

vars == <<main, call, dispatcher, path, worker, maint, starts, fault>>

-----------------------------------------------------------------------------
(* The data *)

Slots == 1..MaxServices
Idle == [pc |-> "idle", type |-> NoService, at |-> 0, late |-> FALSE]
Unused == [services |-> [k \in Slots |-> NoService], count |-> 0,
           context |-> FALSE, initialized |-> FALSE]

\* The steps of the application, in their order.
Rising == <<"off", "context", "dispatcher", "path", "bound">>
Falling == <<"unbound", "cleared", "detached", "zeroed", "counted", "forgotten", "closed">>
Stages == {Rising[k] : k \in DOMAIN Rising} \cup {Falling[k] : k \in DOMAIN Falling}
           \cup {"up"}

\* The receive path or the dispatcher is being taken apart.
Dismantled == {Falling[k] : k \in DOMAIN Falling}

\* The maintenance task in its loop, and on its way out without its handle.
Looping == {"loop", "wait", "cycle"}
Nameless == {"unnamed", "stopped", "deleted"}

Init ==
  /\ main = [stage |-> "off", lives |-> 0]
  /\ call = "none"
  /\ dispatcher = Unused
  /\ path = [bound |-> FALSE, plane |-> FALSE, initialized |-> FALSE]
  /\ worker = Idle
  /\ maint = [running |-> FALSE, named |-> FALSE, task |-> "none", notified |-> FALSE]
  /\ starts = [made |-> 0, started |-> FALSE, overlap |-> FALSE]
  /\ fault = "none"

\* The application takes its next step.
Proceeds(from, to) ==
  /\ main.stage = from
  /\ call = "none"
  /\ main' = [main EXCEPT !.stage = to]

-----------------------------------------------------------------------------
(* The application brings the node up *)

\* enp_context_init: the transport comes up, its worker with it, or the
\* application gives up.
ContextInit ==
  /\ main.stage = "off"
  /\ call = "none"
  /\ main.lives < MaxLives
  /\ worker = Idle
  /\ \E ok \in BOOLEAN :
       main' = [stage |-> IF ok THEN "context" ELSE "off", lives |-> main.lives + 1]
  /\ UNCHANGED <<call, dispatcher, path, worker, maint, starts, fault>>

DispatcherInit ==
  /\ Proceeds("context", "dispatcher")
  /\ ~dispatcher.initialized
  /\ dispatcher' = [Unused EXCEPT !.context = TRUE, !.initialized = TRUE]
  /\ UNCHANGED <<call, path, worker, maint, starts, fault>>

\* enp_dispatcher_register, once for each service.
Register(type) ==
  /\ main.stage = "dispatcher"
  /\ dispatcher.initialized
  /\ \A k \in 1..dispatcher.count : dispatcher.services[k] # type
  /\ dispatcher.count < MaxServices
  /\ dispatcher' = [dispatcher EXCEPT !.services[dispatcher.count + 1] = type,
                                      !.count = @ + 1]
  /\ UNCHANGED <<main, call, path, worker, maint, starts, fault>>

\* A mutant: the path is bound while services are still being registered.
AnyRegistered == TRUE

AllRegistered == dispatcher.count = Len(Services)

RegisterNext ==
  /\ dispatcher.count < Len(Services)
  /\ Register(Services[dispatcher.count + 1])

\* enp_receive_path_init, enp_receive_path_bind, and the transport's callback.
PathInit ==
  /\ AllRegistered
  /\ Proceeds("dispatcher", "path")
  /\ ~path.initialized
  /\ path' = [path EXCEPT !.plane = TRUE, !.initialized = TRUE]
  /\ UNCHANGED <<call, dispatcher, worker, maint, starts, fault>>

Bind ==
  /\ Proceeds("path", "bound")
  /\ path.initialized
  /\ path' = [path EXCEPT !.bound = TRUE]
  /\ UNCHANGED <<call, dispatcher, worker, maint, starts, fault>>

SetCallback ==
  /\ Proceeds("bound", "up")
  /\ UNCHANGED <<call, dispatcher, path, worker, maint, starts, fault>>

-----------------------------------------------------------------------------
(* The application starts and stops the maintenance task *)

\* A mutant: only the flag is looked at.
InitRefusedByFlag == maint.running

InitRefused == maint.running \/ maint.named

\* enp_maintenance_init, the check.
StartChecks ==
  /\ main.stage = "up"
  /\ call = "none"
  /\ ~starts.started
  /\ starts.made < MaxStarts
  /\ ~InitRefused
  /\ call' = "checked"
  /\ starts' = [starts EXCEPT !.made = @ + 1, !.overlap = maint.task \in Nameless]
  /\ UNCHANGED <<main, dispatcher, path, worker, maint, fault>>

\* s_running is set before there is a task that looks at it.
StartRuns ==
  /\ call = "checked"
  /\ call' = "running"
  /\ maint' = [maint EXCEPT !.running = TRUE]
  /\ UNCHANGED <<main, dispatcher, path, worker, starts, fault>>

\* xTaskCreateStatic with the one stack and the one control block there are,
\* which an earlier task may still be using, or the idle task not yet have
\* taken off its list.
StartCreates ==
  /\ call = "running"
  /\ call' = "none"
  /\ IF maint.task = "none"
     THEN /\ maint' = [maint EXCEPT !.named = TRUE, !.task = "loop", !.notified = FALSE]
          /\ starts' = [starts EXCEPT !.started = TRUE]
          /\ UNCHANGED fault
     ELSE /\ fault' = "stack"
          /\ UNCHANGED <<maint, starts>>
  /\ UNCHANGED <<main, dispatcher, path, worker>>

\* enp_maintenance_deinit: nothing to do, or the flag is reset.
StopChecks ==
  /\ main.stage = "up"
  /\ call = "none"
  /\ starts' = [starts EXCEPT !.started = FALSE]
  /\ IF maint.running \/ maint.named
     THEN call' = "stopping" /\ maint' = [maint EXCEPT !.running = FALSE]
     ELSE UNCHANGED <<call, maint>>
  /\ UNCHANGED <<main, dispatcher, path, worker, fault>>

StopLooks ==
  /\ call = "stopping"
  /\ call' = IF maint.named THEN "named" ELSE "none"
  /\ UNCHANGED <<main, dispatcher, path, worker, maint, starts, fault>>

\* xTaskNotifyGive on a task that may have ended since: s_task is NULL now,
\* and the kernel stops, or the handle read before is that of a dead task.
StopNotifies ==
  /\ call = "named"
  /\ call' = "none"
  /\ IF maint.named
     THEN maint' = [maint EXCEPT !.notified = TRUE] /\ UNCHANGED fault
     ELSE fault' \in {"none", "notified"} /\ UNCHANGED maint
  /\ UNCHANGED <<main, dispatcher, path, worker, starts>>

-----------------------------------------------------------------------------
(* The application takes the node down *)

\* enp_receive_path_deinit, after enp_maintenance_deinit has returned.
Unbind ==
  /\ Proceeds("up", "unbound")
  /\ ~starts.started
  /\ path' = [path EXCEPT !.bound = FALSE]
  /\ UNCHANGED <<call, dispatcher, worker, maint, starts, fault>>

\* enp_data_plane_deinit.  Of its stores the worker looks at the first pointer,
\* context, before it uses anything else of the data plane: plane stands for it.
ClearPlane ==
  /\ Proceeds("unbound", "cleared")
  /\ path' = [path EXCEPT !.plane = FALSE]
  /\ UNCHANGED <<call, dispatcher, worker, maint, starts, fault>>

PathDeinit ==
  /\ Proceeds("cleared", "detached")
  /\ path' = [path EXCEPT !.initialized = FALSE]
  /\ UNCHANGED <<call, dispatcher, worker, maint, starts, fault>>

\* enp_dispatcher_deinit, store by store.
ZeroServices ==
  /\ Proceeds("detached", "zeroed")
  /\ dispatcher' = [dispatcher EXCEPT !.services = Unused.services]
  /\ UNCHANGED <<call, path, worker, maint, starts, fault>>

ResetCount ==
  /\ Proceeds("zeroed", "counted")
  /\ dispatcher' = [dispatcher EXCEPT !.count = 0]
  /\ UNCHANGED <<call, path, worker, maint, starts, fault>>

ForgetContext ==
  /\ Proceeds("counted", "forgotten")
  /\ dispatcher' = [dispatcher EXCEPT !.context = FALSE]
  /\ UNCHANGED <<call, path, worker, maint, starts, fault>>

DispatcherDeinit ==
  /\ Proceeds("forgotten", "closed")
  /\ dispatcher' = [dispatcher EXCEPT !.initialized = FALSE]
  /\ UNCHANGED <<call, path, worker, maint, starts, fault>>

\* enp_context_deinit: the transport goes down.
ContextDeinit ==
  /\ Proceeds("closed", "off")
  /\ UNCHANGED <<call, dispatcher, path, worker, maint, starts, fault>>

-----------------------------------------------------------------------------
(* The worker and a received frame *)

\* The worker calls the transport's callback, which stays set until the
\* transport goes down: the frame may come late.
Receive(type) ==
  /\ worker = Idle
  /\ main.stage \in {"up"} \cup Dismantled
  /\ worker' = [pc |-> "callback", type |-> type, at |-> 1,
                late |-> main.stage \in Dismantled]
  /\ UNCHANGED <<main, call, dispatcher, path, maint, starts, fault>>

\* The worker goes on or returns from the callback.
Goes(pc) == worker' = [worker EXCEPT !.pc = pc]
Returns == worker' = Idle

\* enp_receive_path_transport_callback.  It reads s_bound_path again after its
\* check; that read counts, as the path's own check refuses NULL.
ProcessBound ==
  /\ worker.pc = "callback"
  /\ IF path.bound THEN Goes("path") ELSE Returns
  /\ UNCHANGED <<main, call, dispatcher, path, maint, starts, fault>>

\* enp_receive_path_process.
ProcessPath ==
  /\ worker.pc = "path"
  /\ IF ~path.initialized THEN Returns
     ELSE IF worker.type \in DataTypes THEN Goes("plane") ELSE Goes("dispatch")
  /\ UNCHANGED <<main, call, dispatcher, path, maint, starts, fault>>

\* enp_data_plane_process: its checks, then the test for the local address,
\* which looks at the context again, and forwarding, which ends the callback.
ProcessPlane ==
  /\ worker.pc = "plane"
  /\ IF path.plane THEN Goes("local") ELSE Returns
  /\ UNCHANGED <<main, call, dispatcher, path, maint, starts, fault>>

ProcessLocal ==
  /\ worker.pc = "local"
  /\ \/ path.plane /\ Goes("dispatch")
     \/ Returns
  /\ UNCHANGED <<main, call, dispatcher, path, maint, starts, fault>>

\* enp_dispatcher_dispatch and enp_dispatcher_dispatch_local.
Dispatch ==
  /\ worker.pc = "dispatch"
  /\ IF dispatcher.initialized THEN Goes("find") ELSE Returns
  /\ UNCHANGED <<main, call, dispatcher, path, maint, starts, fault>>

\* enp_dispatcher_find_service, one turn of its loop: a zeroed entry below
\* the count is followed through NULL.
FindService ==
  /\ worker.pc = "find"
  /\ IF worker.at > dispatcher.count THEN Goes("unserved") /\ UNCHANGED fault
     ELSE LET service == dispatcher.services[worker.at]
          IN /\ fault' = IF service = NoService THEN "service" ELSE "none"
             /\ worker' = IF service = worker.type THEN [worker EXCEPT !.pc = "process"]
                          ELSE [worker EXCEPT !.at = @ + 1]
  /\ UNCHANGED <<main, call, dispatcher, path, maint, starts>>

\* The service's process with s_context as it is by now; a service refuses NULL.
Process ==
  /\ worker.pc = "process"
  /\ IF dispatcher.context THEN Returns ELSE Goes("unserved")
  /\ UNCHANGED <<main, call, dispatcher, path, maint, starts, fault>>

GiveUp ==
  /\ worker.pc = "unserved"
  /\ Returns
  /\ UNCHANGED <<main, call, dispatcher, path, maint, starts, fault>>

-----------------------------------------------------------------------------
(* The maintenance task *)

TaskGoes(from, to) ==
  /\ maint.task = from
  /\ maint' = [maint EXCEPT !.task = to]
  /\ UNCHANGED <<main, call, dispatcher, path, worker, starts, fault>>

TaskLoops == TaskGoes("loop", IF maint.running THEN "wait" ELSE "ending")

\* ulTaskNotifyTake returns with a notification or after the interval.
TaskWakes ==
  /\ maint.task = "wait"
  /\ maint' = [maint EXCEPT
                 !.notified = FALSE,
                 !.task = IF ~maint.running THEN "ending"
                          ELSE IF maint.notified THEN "loop" ELSE "cycle"]
  /\ UNCHANGED <<main, call, dispatcher, path, worker, starts, fault>>

\* The reliability tick, the aging of neighbors, the announcement.
TaskCycles == TaskGoes("cycle", "loop")

\* A mutant: the handle is left behind.
ForgetsNothing == [maint EXCEPT !.task = "unnamed"]

Forgets == [maint EXCEPT !.task = "unnamed", !.named = FALSE]

TaskForgets ==
  /\ maint.task = "ending"
  /\ maint' = Forgets
  /\ UNCHANGED <<main, call, dispatcher, path, worker, starts, fault>>

TaskStops ==
  /\ maint.task = "unnamed"
  /\ maint' = [maint EXCEPT !.task = "stopped", !.running = FALSE]
  /\ UNCHANGED <<main, call, dispatcher, path, worker, starts, fault>>

\* vTaskDelete(NULL), and the idle task some time later.
TaskDeletes == TaskGoes("stopped", "deleted")
IdleReleases == TaskGoes("deleted", "none")

-----------------------------------------------------------------------------
Rises == ContextInit \/ DispatcherInit \/ RegisterNext \/ PathInit \/ Bind \/ SetCallback
Falls == Unbind \/ ClearPlane \/ PathDeinit \/ ZeroServices \/ ResetCount
          \/ ForgetContext \/ DispatcherDeinit \/ ContextDeinit
InCall == StartRuns \/ StartCreates \/ StopLooks \/ StopNotifies
WorkerStep ==
  \/ ProcessBound \/ ProcessPath \/ ProcessPlane \/ ProcessLocal
  \/ Dispatch \/ FindService \/ Process \/ GiveUp
TaskStep ==
  \/ TaskLoops \/ TaskWakes \/ TaskCycles
  \/ TaskForgets \/ TaskStops \/ TaskDeletes \/ IdleReleases

\* A fault ends the program.
Next ==
  /\ fault = "none"
  /\ \/ Rises \/ Falls \/ StartChecks \/ StopChecks \/ InCall
     \/ \E type \in Types : Receive(type)
     \/ WorkerStep \/ TaskStep

Spec == Init /\ [][Next]_vars

\* The scheduler runs the worker and the maintenance task, and a call of the
\* application goes on to its end; nobody has to make one.
FairSpec ==
  /\ Spec
  /\ WF_vars(fault = "none" /\ InCall)
  /\ WF_vars(fault = "none" /\ WorkerStep)
  /\ WF_vars(fault = "none" /\ TaskStep)

-----------------------------------------------------------------------------
(* Properties *)

\* Every variable keeps its type.
TypeOK ==
  /\ main \in [stage : Stages, lives : 0..MaxLives]
  /\ call \in {"none", "checked", "running", "stopping", "named"}
  /\ dispatcher \in [services : [Slots -> Types \cup {NoService}], count : 0..MaxServices,
                     context : BOOLEAN, initialized : BOOLEAN]
  /\ path \in [bound : BOOLEAN, plane : BOOLEAN, initialized : BOOLEAN]
  /\ worker \in [pc : {"idle", "callback", "path", "plane", "local", "dispatch", "find",
                       "process", "unserved"},
                 type : Types \cup {NoService}, at : 0..(MaxServices + 1), late : BOOLEAN]
  /\ maint \in [running : BOOLEAN, named : BOOLEAN, notified : BOOLEAN,
                task : Looping \cup Nameless \cup {"none", "ending"}]
  /\ starts \in [made : 0..MaxStarts, started : BOOLEAN, overlap : BOOLEAN]
  /\ fault \in {"none", "stack", "notified", "service"}

\* A frame that finds no service, or a service without a context, or an entry
\* of the table already zeroed, was under way when the application began to
\* take the receive path and the dispatcher apart: before that every type has
\* its service, and a frame that comes later (late) is turned away before it
\* gets as far as the dispatcher.
FramesAreServed ==
  worker.pc = "unserved" \/ fault = "service"
    => main.stage \in Dismantled \cup {"off"} /\ ~worker.late

\* An accepted start of the maintenance task lasts until the application
\* stops it, and takes the stack of no other task, provided that the task
\* before it had not given up its handle without being gone: then it may
\* still use the stack, and reset the flag of the new task on its way out
\* (enp_maintenance.c:76-78).
StartIsKept ==
  ~starts.overlap =>
    /\ fault # "stack"
    /\ starts.started => maint.running /\ maint.named /\ maint.task \in Looping

\* A stop ends the task and makes room for the next start, although it waits
\* for neither, unless the program is down.
StopEnds ==
  maint.task \in Looping /\ ~maint.running
    ~> (maint.task = "none" /\ ~maint.named) \/ fault # "none"
=============================================================================
