--------------------------- MODULE TaskController ---------------------------
(***************************************************************************)
(* The task controller of pkg/task: LaunchTask, CancelTask, the state      *)
(* machine every launch runs in a goroutine of its own, and NewController, *)
(* which resumes the unfinished tasks after the process died.              *)
(*                                                                         *)
(* All machines of one task id share ONE persisted status.  Every access   *)
(* to it is a critical section of the id's lock, so a machine is a         *)
(* sequence of such accesses and of calls to the TaskRunner, and machines  *)
(* of the same id interleave between them: LaunchTask cancels the context  *)
(* of the previous machine but does not wait for it.                       *)
(*                                                                         *)
(* Left out: the log entries and the list of transitions in the status,    *)
(* which nothing reads back.                                               *)
(***************************************************************************)
EXTENDS Naturals

CONSTANTS
    Ids,          \* task ids
    Metadata,     \* metadata a client may launch a task with
    MaxMachines,  \* bound: calls of LaunchTask in the life of one process
    MaxProgress,  \* bound: progress values a runner stores (0 is no progress)
    MaxCrashes,   \* bound: deaths of the process
    MaxFaults     \* bound: failed accesses to the key-value store

ASSUME ConstantsAssumption ==
    /\ MaxMachines \in Nat /\ MaxProgress \in Nat
    /\ MaxCrashes \in Nat /\ MaxFaults \in Nat
    /\ 0 \notin Metadata /\ 0 \notin Ids

VARIABLES
    status,     \* status[id]: the persisted corev1.TaskStatus
    tasks,      \* tasks[id]: the machine whose cancel function c.tasks holds, 0 if none
    created,    \* machines 1..created exist
    owner,      \* owner[m]: the task id of machine m
    pc,         \* pc[m]: where the goroutine of machine m is
    trigger,    \* trigger[m]: the last trigger fired
    dest,       \* dest[m]: the destination of the transition being made
    ran,        \* ran[m]: OnTaskRunning of m has returned
    canceled,   \* canceled[m]: the taskCtx of m is done
    reported,   \* reported[m]: the state sent to the callbacks of m
    launch,     \* the LaunchTask call that holds tasksMu
    mode,       \* "up", "down", or "resuming" (inside NewController)
    resume,     \* task ids NewController has yet to deal with
    crashes,    \* deaths so far
    faults,     \* failed store accesses so far
    unattended  \* ids whose status an error left to no goroutine: the error was
                \* dropped, or returned by a LaunchTask that had stored the status

machineVars == <<owner, pc, trigger, dest, ran, canceled, reported>>
vars == <<status, tasks, created, machineVars, launch, mode, resume,
          crashes, faults, unattended>>

Machines == 1..MaxMachines
EndStates == {"Completed", "Failed", "Canceled"}
States == {"Pending", "Running"} \cup EndStates
Triggers == {"Start", "End", "Cancel", "Error"}

\* The key is absent from the store.
NoStatus == [state |-> "NotFound", metadata |-> 0, progress |-> 0]
Status == [state : States \cup {"NotFound"}, metadata : Metadata \cup {0},
           progress : 0..MaxProgress]

NoLaunch == [m |-> 0, at |-> "none", md |-> 0, seen |-> "NotFound"]

Init ==
    /\ status = [id \in Ids |-> NoStatus]
    /\ tasks = [id \in Ids |-> 0]
    /\ created = 0
    /\ owner = [m \in Machines |-> 0]
    /\ pc = [m \in Machines |-> "none"]
    /\ trigger = [m \in Machines |-> "None"]
    /\ dest = [m \in Machines |-> "NotFound"]
    /\ ran = [m \in Machines |-> FALSE]
    /\ canceled = [m \in Machines |-> FALSE]
    /\ reported = [m \in Machines |-> "NotFound"]
    /\ launch = NoLaunch
    /\ mode = "up"
    /\ resume = {}
    /\ crashes = 0
    /\ faults = 0
    /\ unattended = {}

TypeOK ==
    /\ status \in [Ids -> Status]
    /\ tasks \in [Ids -> 0..MaxMachines]
    /\ created \in 0..MaxMachines
    /\ owner \in [Machines -> Ids \cup {0}]
    /\ pc \in [Machines -> {"none", "launching", "activate", "pending", "fire",
                            "set", "running", "completing", "callback", "done"}]
    /\ trigger \in [Machines -> Triggers \cup {"None"}]
    /\ dest \in [Machines -> States \cup {"NotFound"}]
    /\ ran \in [Machines -> BOOLEAN]
    /\ canceled \in [Machines -> BOOLEAN]
    /\ reported \in [Machines -> States \cup {"NotFound"}]
    /\ launch \in [m : 0..MaxMachines, at : {"none", "read", "log", "create", "reset"},
                   md : Metadata \cup {0}, seen : States \cup {"NotFound"}]
    /\ mode \in {"up", "down", "resuming"}
    /\ resume \in SUBSET Ids
    /\ crashes \in 0..MaxCrashes
    /\ faults \in 0..MaxFaults
    /\ unattended \in SUBSET Ids

-----------------------------------------------------------------------------
(* The state machine, as LaunchTask configures it. *)

\* Mutant: the Running state is configured without its Error trigger.
DestinationNoError(state, t) ==
    CASE state = "Pending" /\ t = "Start"  -> "Running"
      [] state = "Pending" /\ t = "Cancel" -> "Canceled"
      [] state = "Running" /\ t = "End"    -> "Completed"
      [] state = "Running" /\ t = "Cancel" -> "Canceled"
      [] OTHER -> "NotFound"

\* Mutant: End leads to the zero value of TaskState.
DestinationUnknown(state, t) ==
    CASE state = "Pending" /\ t = "Start"  -> "Running"
      [] state = "Pending" /\ t = "Cancel" -> "Canceled"
      [] state = "Running" /\ t = "End"    -> "Unknown"
      [] state = "Running" /\ t = "Cancel" -> "Canceled"
      [] state = "Running" /\ t = "Error"  -> "Failed"
      [] OTHER -> "NotFound"

\* Permit: the destination of a trigger in a state, "NotFound" if the state
\* does not permit it.
Destination(state, t) ==
    CASE state = "Pending" /\ t = "Start"  -> "Running"
      [] state = "Pending" /\ t = "Cancel" -> "Canceled"
      [] state = "Running" /\ t = "End"    -> "Completed"
      [] state = "Running" /\ t = "Cancel" -> "Canceled"
      [] state = "Running" /\ t = "Error"  -> "Failed"
      [] OTHER -> "NotFound"

\* What a TaskRunner call returned: nil, its ctx.Err(), or another error.
\* ctx.Err() is nil until the context is canceled.
Returns(m) == {"nil", "err"} \cup (IF canceled[m] THEN {"ctx"} ELSE {})

TriggerFor(result, success) ==
    CASE result = "nil" -> success
      [] result = "ctx" -> "Cancel"
      [] result = "err" -> "Error"

\* An access to the store fails; the caller sees an error.
StoreFails == faults < MaxFaults /\ faults' = faults + 1

\* The goroutine of m ends on an error nobody receives.
Abandon(m) ==
    /\ pc' = [pc EXCEPT ![m] = "done"]
    /\ unattended' = unattended \cup {owner[m]}
    /\ UNCHANGED <<tasks, created, owner, trigger, dest, ran, canceled,
                   reported, launch, mode, resume, crashes>>

\* A step of m that ends at another program counter.
Goto(m, label) == pc' = [pc EXCEPT ![m] = label]

controlVars == <<tasks, created, owner, canceled, launch, mode, resume, crashes>>

\* Mutant: a machine whose context is canceled is not activated.
ActivateLive(m) ==
    /\ pc[m] = "activate"
    /\ ~canceled[m]
    /\ Goto(m, IF status[owner[m]].state = "Pending" THEN "pending" ELSE "done")
    /\ UNCHANGED <<status, trigger, dest, ran, reported, faults, unattended, controlVars>>

\* sm.ActivateCtx: only Pending has an OnActive handler.
Activate(m) ==
    /\ pc[m] = "activate"
    /\ \/ /\ Goto(m, IF status[owner[m]].state = "Pending" THEN "pending" ELSE "done")
          /\ UNCHANGED <<status, trigger, dest, ran, reported, faults, unattended,
                         controlVars>>
       \/ StoreFails /\ Abandon(m) /\ UNCHANGED status

\* OnTaskPending returns and the OnActive handler fires.
PendingReturns(m) ==
    /\ pc[m] = "pending"
    /\ \E r \in Returns(m) :
          trigger' = [trigger EXCEPT ![m] = TriggerFor(r, "Start")]
    /\ Goto(m, "fire")
    /\ UNCHANGED <<status, dest, ran, reported, faults, unattended, controlVars>>

\* The machine reads the current state through the accessor and looks the
\* trigger up.  A trigger that is not permitted is an error that ActivateCtx
\* returns to nobody.
Fire(m) ==
    /\ pc[m] = "fire"
    /\ \/ LET d == Destination(status[owner[m]].state, trigger[m])
          IN /\ dest' = [dest EXCEPT ![m] = d]
             /\ Goto(m, IF d = "NotFound" THEN "done" ELSE "set")
             /\ unattended' = IF d = "NotFound" /\ trigger[m] = "Error" /\ ~ran[m]
                               THEN unattended \cup {owner[m]} ELSE unattended
             /\ UNCHANGED <<status, trigger, ran, reported, faults, controlVars>>
       \/ StoreFails /\ Abandon(m) /\ UNCHANGED status

\* The mutator stores the destination; its OnEntry handler is called next.  A
\* Put that returns an error may have been carried out.
SetState(m) ==
    /\ pc[m] = "set"
    /\ \/ /\ status' = [status EXCEPT ![owner[m]].state = dest[m]]
          /\ Goto(m, IF dest[m] = "Running" THEN "running" ELSE "completing")
          /\ UNCHANGED <<trigger, dest, ran, reported, faults, unattended, controlVars>>
       \/ /\ StoreFails
          /\ Abandon(m)
          /\ status' \in {status, [status EXCEPT ![owner[m]].state = dest[m]]}

\* OnTaskRunning calls SetProgress.
SetProgress(m) ==
    /\ pc[m] = "running"
    /\ \E p \in 1..MaxProgress :
          status' = [status EXCEPT ![owner[m]].progress = p]
    /\ UNCHANGED <<pc, trigger, dest, ran, reported, faults, unattended, controlVars>>

\* OnTaskRunning returns; its Fire is queued behind the Start that called it.
RunningReturns(m) ==
    /\ pc[m] = "running"
    /\ \E r \in Returns(m) :
          trigger' = [trigger EXCEPT ![m] = TriggerFor(r, "End")]
    /\ ran' = [ran EXCEPT ![m] = TRUE]
    /\ Goto(m, "fire")
    /\ UNCHANGED <<status, dest, reported, faults, unattended, controlVars>>

\* OnTaskCompleted returns.
CompletedReturns(m) ==
    /\ pc[m] = "completing"
    /\ Goto(m, "callback")
    /\ UNCHANGED <<status, trigger, dest, ran, reported, faults, unattended, controlVars>>

\* maybeSendCallbacks reads the status again and sends it.
SendCallbacks(m) ==
    /\ pc[m] = "callback"
    /\ reported' = [reported EXCEPT ![m] = status[owner[m]].state]
    /\ Goto(m, "done")
    /\ UNCHANGED <<status, trigger, dest, ran, faults, unattended, controlVars>>

-----------------------------------------------------------------------------
(* LaunchTask.  It holds tasksMu to its end, so one call is in progress. *)

\* Mutant: the previous machine is forgotten without being canceled.
BeginLaunchNoCancel(id, md) ==
    /\ launch = NoLaunch
    /\ created < MaxMachines
    /\ created' = created + 1
    /\ UNCHANGED canceled
    /\ tasks' = [tasks EXCEPT ![id] = created + 1]
    /\ owner' = [owner EXCEPT ![created + 1] = id]
    /\ pc' = [pc EXCEPT ![created + 1] = "launching"]
    /\ launch' = [m |-> created + 1, at |-> "read", md |-> md, seen |-> "NotFound"]

\* Cancels the machine registered for the id and registers a new one.
BeginLaunch(id, md) ==
    /\ launch = NoLaunch
    /\ created < MaxMachines
    /\ created' = created + 1
    /\ canceled' = IF tasks[id] = 0 THEN canceled
                   ELSE [canceled EXCEPT ![tasks[id]] = TRUE]
    /\ tasks' = [tasks EXCEPT ![id] = created + 1]
    /\ owner' = [owner EXCEPT ![created + 1] = id]
    /\ pc' = [pc EXCEPT ![created + 1] = "launching"]
    /\ launch' = [m |-> created + 1, at |-> "read", md |-> md, seen |-> "NotFound"]

LaunchTask(id, md) ==
    /\ mode = "up"
    /\ BeginLaunch(id, md)
    /\ UNCHANGED <<status, trigger, dest, ran, reported, mode, resume, crashes,
                   faults, unattended>>

launchUnchanged == <<tasks, created, owner, trigger, dest, ran, canceled,
                     reported, mode, crashes>>

\* LaunchTask returns; NewController goes on with the next id.
EndLaunch(label) ==
    /\ pc' = [pc EXCEPT ![launch.m] = label]
    /\ launch' = NoLaunch

\* The accessor's look at the previous state.  An error other than NotFound
\* is ignored, and LaunchTask goes on to log the transition.
LaunchRead ==
    /\ launch.at = "read"
    /\ \/ /\ launch' = [launch EXCEPT
                !.at = IF status[owner[launch.m]].state = "NotFound"
                         THEN "create" ELSE "reset",
                !.seen = status[owner[launch.m]].state]
          /\ UNCHANGED <<status, pc, resume, faults, unattended, launchUnchanged>>
       \/ /\ StoreFails
          /\ launch' = [launch EXCEPT !.at = "log"]
          /\ unattended' = unattended \cup {owner[launch.m]}
          /\ UNCHANGED <<status, pc, resume, launchUnchanged>>

\* logTransition after an ignored error: getStatus retries until the status is
\* there, for ever (and under tasksMu) if the task was never saved.  The machine
\* is activated on whatever is stored.
LaunchLog ==
    /\ launch.at = "log"
    /\ status[owner[launch.m]].state # "NotFound"
    /\ EndLaunch("activate")
    /\ resume' = resume \ {owner[launch.m]}
    /\ UNCHANGED <<status, faults, unattended, launchUnchanged>>

\* The Put of LaunchTask.  An error is returned to the caller, a client or
\* NewController, which tries the id again; the machine is not activated, and
\* the status may have been stored all the same.
LaunchPut(new) ==
    LET id == owner[launch.m]
        stored == status' = [status EXCEPT ![id] = new]
    IN /\ \/ /\ stored
             /\ EndLaunch("activate")
             /\ resume' = resume \ {id}
             /\ unattended' = unattended \ {id}
             /\ UNCHANGED faults
          \/ /\ StoreFails
             /\ EndLaunch("done")
             /\ UNCHANGED resume
             /\ \/ UNCHANGED <<status, unattended>>
                \/ /\ stored
                   /\ unattended' = IF mode = "up" THEN unattended \cup {id} ELSE unattended
       /\ UNCHANGED launchUnchanged

\* No saved status: the mutator creates one.
LaunchCreate ==
    /\ launch.at = "create"
    /\ LaunchPut([state |-> "Pending", metadata |-> launch.md, progress |-> 0])

\* Mutant: only a canceled task keeps its progress.
ResetStatusNoProgress(prev, seen, md) ==
    [state    |-> "Pending",
     metadata |-> IF seen = "Running" THEN prev.metadata ELSE md,
     progress |-> IF seen = "Canceled" THEN prev.progress ELSE 0]

\* What is kept of the previous status, by the state the accessor saw.
ResetStatus(prev, seen, md) ==
    [state    |-> "Pending",
     metadata |-> IF seen = "Running" THEN prev.metadata ELSE md,
     progress |-> IF seen \in {"Running", "Canceled"} THEN prev.progress ELSE 0]

\* A saved status is reset to Pending.
LaunchReset ==
    /\ launch.at = "reset"
    /\ LaunchPut(ResetStatus(status[owner[launch.m]], launch.seen, launch.md))

\* CancelTask
CancelTask(id) ==
    /\ mode = "up"
    /\ launch = NoLaunch
    /\ tasks[id] # 0
    /\ canceled' = [canceled EXCEPT ![tasks[id]] = TRUE]
    /\ tasks' = [tasks EXCEPT ![id] = 0]
    /\ UNCHANGED <<status, created, owner, pc, trigger, dest, ran, reported,
                   launch, mode, resume, crashes, faults, unattended>>

-----------------------------------------------------------------------------
(* The process dies and NewController runs in the next one. *)

Crash ==
    /\ mode # "down"
    /\ crashes < MaxCrashes
    /\ crashes' = crashes + 1
    /\ mode' = "down"
    /\ tasks' = [id \in Ids |-> 0]
    /\ created' = 0
    /\ owner' = [m \in Machines |-> 0]
    /\ pc' = [m \in Machines |-> "none"]
    /\ trigger' = [m \in Machines |-> "None"]
    /\ dest' = [m \in Machines |-> "NotFound"]
    /\ ran' = [m \in Machines |-> FALSE]
    /\ canceled' = [m \in Machines |-> FALSE]
    /\ reported' = [m \in Machines |-> "NotFound"]
    /\ launch' = NoLaunch
    /\ resume' = {}
    /\ unattended' = {}
    /\ UNCHANGED <<status, faults>>

\* Mutant: a task that had not started is not listed.
NewControllerRunning ==
    /\ mode = "down"
    /\ mode' = "resuming"
    /\ resume' = {id \in Ids : status[id].state \notin {"NotFound", "Pending"}}
    /\ UNCHANGED <<status, tasks, created, machineVars, launch, crashes, faults,
                   unattended>>

\* NewController lists the saved tasks ...
NewController ==
    /\ mode = "down"
    /\ mode' = "resuming"
    /\ resume' = {id \in Ids : status[id].state # "NotFound"}
    /\ UNCHANGED <<status, tasks, created, machineVars, launch, crashes, faults,
                   unattended>>

\* Mutant: tasks are relaunched without their metadata.
ResumeTaskNoMetadata(id) ==
    /\ mode = "resuming"
    /\ id \in resume
    /\ status[id].state \in {"Pending", "Running"}
    /\ BeginLaunch(id, 0)
    /\ UNCHANGED <<status, trigger, dest, ran, reported, mode, resume, crashes,
                   faults, unattended>>

\* ... launches those that did not finish, with the metadata they had ...
ResumeTask(id) ==
    /\ mode = "resuming"
    /\ id \in resume
    /\ status[id].state \in {"Pending", "Running"}
    /\ BeginLaunch(id, status[id].metadata)
    /\ UNCHANGED <<status, trigger, dest, ran, reported, mode, resume, crashes,
                   faults, unattended>>

\* ... and deletes the status of the others; a failed delete is left to the
\* next start.
CleanTask(id) ==
    /\ mode = "resuming"
    /\ launch = NoLaunch
    /\ id \in resume
    /\ status[id].state \in EndStates
    /\ resume' = resume \ {id}
    /\ \/ status' = [status EXCEPT ![id] = NoStatus] /\ UNCHANGED faults
       \/ StoreFails /\ status' \in {status, [status EXCEPT ![id] = NoStatus]}
    /\ UNCHANGED <<tasks, created, machineVars, launch, mode, crashes, unattended>>

ControllerReady ==
    /\ mode = "resuming"
    /\ launch = NoLaunch
    /\ resume = {}
    /\ mode' = "up"
    /\ UNCHANGED <<status, tasks, created, machineVars, launch, resume, crashes,
                   faults, unattended>>

MachineStep(m) ==
    \/ Activate(m) \/ PendingReturns(m) \/ Fire(m) \/ SetState(m)
    \/ RunningReturns(m) \/ CompletedReturns(m) \/ SendCallbacks(m)

LaunchStep == LaunchRead \/ LaunchLog \/ LaunchCreate \/ LaunchReset

ResumeStep ==
    \/ NewController \/ ControllerReady
    \/ \E id \in Ids : ResumeTask(id) \/ CleanTask(id)

Next ==
    \/ \E m \in Machines : MachineStep(m) \/ SetProgress(m)
    \/ \E id \in Ids, md \in Metadata : LaunchTask(id, md)
    \/ LaunchStep
    \/ \E id \in Ids : CancelTask(id)
    \/ Crash
    \/ ResumeStep

Spec == Init /\ [][Next]_vars

\* Goroutines are scheduled, TaskRunner calls return, and a process that died
\* is started again.  Clients owe nothing.
Fairness ==
    /\ \A m \in Machines : WF_vars(MachineStep(m))
    /\ WF_vars(LaunchStep)
    /\ WF_vars(ResumeStep)

FairSpec == Spec /\ Fairness

-----------------------------------------------------------------------------
(* Properties *)

Unfinished(id) == status[id].state \in {"Pending", "Running"}

\* Machine m still has steps to take on the status of its task.
Active(m) == pc[m] \notin {"none", "launching", "done"}

\* Cancellation reaches every live run.  Whatever launches, relaunches and
\* cancellations overlap, a machine whose context is not canceled is the one
\* c.tasks holds for its id: CancelTask or the next LaunchTask can stop it, and
\* no two uncanceled machines drive one task.
CancelReachesLiveTask ==
    \A m \in Machines :
        pc[m] \notin {"none", "done"} /\ ~canceled[m] => tasks[owner[m]] = m

\* No orphans.  A task saved as Pending or Running always has a goroutine that
\* will still move it on, however machines of the same id interleave on the
\* shared status.  The exceptions last until the next LaunchTask that succeeds:
\* a store error that ActivateCtx dropped (an accessor or mutator failure ends
\* the goroutine), a failed OnTaskPending, and a LaunchTask that returned an
\* error after its Put was carried out.
NoOrphanedTask ==
    mode = "up" =>
        \A id \in Ids \ unattended :
            Unfinished(id) => \E m \in Machines : owner[m] = id /\ Active(m)

\* A restart of the process never changes the metadata of an unfinished task,
\* and never drops its status: NewController relaunches it with what it saved.
ResumeKeepsMetadata ==
    [][mode # "up" =>
         \A id \in Ids : Unfinished(id) =>
            status'[id].metadata = status[id].metadata]_vars

\* Every task saved as Pending or Running ends, across relaunches, crashes and
\* the retries of NewController, unless an error leaves it unattended (see
\* NoOrphanedTask).
TasksFinish ==
    \A id \in Ids :
        Unfinished(id) ~> (status[id].state \in EndStates \/ id \in unattended)

\* A restart keeps the progress of a task that was saved as Running: the runner
\* finds it again in OnTaskRunning.  (The resumed task is Pending first, and a
\* second restart, or a retry by NewController, at that point starts it over.)
ResumeKeepsProgress ==
    [][mode # "up" =>
         \A id \in Ids : status[id].state = "Running" =>
            status'[id].progress >= status[id].progress]_vars

-----------------------------------------------------------------------------
(* What the comments in pkg/task say, and the code does not keep. *)

\* TaskRunner.OnTaskPending: after an error other than ctx.Err() the task is
\* transitioned to Failed.
PendingErrorFailsTask ==
    \A m \in Machines :
        pc[m] = "done" /\ trigger[m] = "Error" /\ ~ran[m] =>
            status[owner[m]].state = "Failed"
=============================================================================
