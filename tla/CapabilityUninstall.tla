------------------------ MODULE CapabilityUninstall -------------------------
(***************************************************************************)
(* Uninstalling a capability from a cluster: the Install, Uninstall and    *)
(* CancelUninstall calls of the metrics and logging backends, composed     *)
(* with the task controller that runs the UninstallTaskRunner of either.   *)
(*                                                                         *)
(* The deletion timestamp of the capability (cluster store) and the task   *)
(* status (task store) are written by different steps: Uninstall reads     *)
(* both, sets the first, then launches the task that replaces the second.  *)
(* A task id is the cluster id.                                            *)
(*                                                                         *)
(* Left out: RequestSync and canInstall, which change nothing here, and    *)
(* the length of the initial delay.                                        *)
(***************************************************************************)
EXTENDS TaskController, FiniteSets

CONSTANTS
    Clients,  \* concurrent callers of Uninstall
    Purge     \* the metadata with DeleteStoredData set

ASSUME PurgeAssumption == Purge \subseteq Metadata

VARIABLES
    cap,      \* cap[id]: the capability of cluster id; "deleting" has a deletion timestamp
    run,      \* run[m]: where OnTaskRunning of machine m is, or what it returns
    call,     \* call[c]: the Uninstall call client c is in
    stranded  \* ids whose timestamp a failure has separated from its task

capVars == <<cap, run, call, stranded>>
uvars == <<vars, capVars>>

Results == {"nil", "err", "ctx"}
NoCall == [at |-> "none", id |-> 0, md |-> 0]

UTypeOK ==
    /\ TypeOK
    /\ cap \in [Ids -> {"absent", "installed", "deleting"}]
    /\ run \in [Machines -> {"idle", "poll", "remove"} \cup Results]
    /\ call \in [Clients -> [at : {"none", "status", "stamp", "launch"},
                             id : Ids \cup {0}, md : Metadata \cup {0}]]
    /\ stranded \in SUBSET Ids

UInit ==
    /\ Init
    /\ cap = [id \in Ids |-> "absent"]
    /\ run = [m \in Machines |-> "idle"]
    /\ call = [c \in Clients |-> NoCall]
    /\ stranded = {}

-----------------------------------------------------------------------------
(* The backend. *)

\* AddCapability leaves a capability that exists as it is, timestamp included.
Install(id) ==
    /\ mode = "up"
    /\ cap[id] = "absent"
    /\ cap' = [cap EXCEPT ![id] = "installed"]
    /\ UNCHANGED <<vars, run, call, stranded>>

\* Bound: a call is only made if a machine is left for it.
MachineLeft == created + Cardinality({c \in Clients : call[c] # NoCall}) < MaxMachines

\* Uninstall: GetCluster, and whether the capability has a deletion timestamp.
UninstallRead(c, id, md) ==
    /\ mode = "up"
    /\ call[c] = NoCall
    /\ MachineLeft
    /\ cap[id] # "absent"
    /\ call' = [call EXCEPT ![c] =
          [at |-> IF cap[id] = "deleting" THEN "status" ELSE "stamp", id |-> id, md |-> md]]
    /\ UNCHANGED <<vars, cap, run, stranded>>

\* A timestamp is there: only a canceled or failed task may be replaced.  No
\* task at all is the zero TaskState, refused as "already in progress".
UninstallStatus(c) ==
    /\ call[c].at = "status"
    /\ call' = [call EXCEPT ![c] =
          IF status[call[c].id].state \in {"Canceled", "Failed"}
            THEN [@ EXCEPT !.at = "stamp"] ELSE NoCall]
    /\ UNCHANGED <<vars, cap, run, stranded>>

Stamped(id) == [cap EXCEPT ![id] = IF @ = "absent" THEN @ ELSE "deleting"]

\* UpdateCluster sets the timestamp, if the capability is still there.  On an
\* error Uninstall returns, and the timestamp may have been set.
UninstallStamp(c) ==
    \/ /\ call[c].at = "stamp"
       /\ cap' = Stamped(call[c].id)
       /\ call' = [call EXCEPT ![c].at = "launch"]
       /\ UNCHANGED <<vars, run, stranded>>
    \/ /\ call[c].at = "stamp"
       /\ StoreFails
       /\ cap' \in {cap, Stamped(call[c].id)}
       /\ call' = [call EXCEPT ![c] = NoCall]
       /\ stranded' = stranded \cup {id \in {call[c].id} : cap'[id] = "deleting"}
       /\ UNCHANGED <<status, tasks, created, machineVars, launch, mode, resume, crashes,
                      unattended, run>>

UninstallLaunch(c) ==
    /\ call[c].at = "launch"
    /\ LaunchTask(call[c].id, call[c].md)
    /\ call' = [call EXCEPT ![c] = NoCall]
    /\ UNCHANGED <<cap, run, stranded>>

CancelUninstall(id) == CancelTask(id) /\ UNCHANGED capVars

-----------------------------------------------------------------------------
(* The UninstallTaskRunner. *)

\* OnTaskPending waits for the delay to pass or for its context.
OnTaskPending(m) ==
    /\ PendingReturns(m)
    /\ trigger'[m] # "Error"
    /\ UNCHANGED capVars

\* OnTaskRunning loads the metadata and requests the deletion of the data.
RequestDelete(m) ==
    /\ pc[m] = "running"
    /\ run[m] = "idle"
    /\ \E r \in IF status[owner[m]].metadata \in Purge THEN {"poll", "err"} ELSE {"remove"} :
          run' = [run EXCEPT ![m] = r]
    /\ UNCHANGED <<vars, cap, call, stranded>>

\* Mutant: the poll waits for its ticker only, and the ticker is stopped when
\* the context is canceled.
PollDeleteNotCanceled(m) ==
    /\ run[m] = "poll"
    /\ ~canceled[m]
    /\ run' = [run EXCEPT ![m] = "remove"]
    /\ UNCHANGED <<vars, cap, call, stranded>>

\* It polls until the data is gone or its context is canceled.
PollDelete(m) ==
    /\ run[m] = "poll"
    /\ \E r \in {"remove"} \cup (IF canceled[m] THEN {"ctx"} ELSE {}) :
          run' = [run EXCEPT ![m] = r]
    /\ UNCHANGED <<vars, cap, call, stranded>>

\* It removes the capability; the update, or the deletion of the Kubernetes
\* objects before it, may fail, and an update that failed may have been made.
RemoveCapability(m) ==
    /\ run[m] = "remove"
    /\ \/ /\ cap' = [cap EXCEPT ![owner[m]] = "absent"]
          /\ run' = [run EXCEPT ![m] = "nil"]
       \/ /\ run' = [run EXCEPT ![m] = "err"]
          /\ cap' \in {cap, [cap EXCEPT ![owner[m]] = "absent"]}
    /\ UNCHANGED <<vars, call, stranded>>

OnTaskRunning(m) ==
    /\ run[m] \in Results
    /\ RunningReturns(m)
    /\ trigger'[m] = TriggerFor(run[m], "End")
    /\ run' = [run EXCEPT ![m] = "idle"]
    /\ UNCHANGED <<cap, call, stranded>>

\* Mutant: the timestamp is reset after a failure only.
OnTaskCompletedNotCanceled(m) ==
    /\ CompletedReturns(m)
    /\ cap' = IF dest[m] \in {"Completed", "Canceled"} THEN cap
              ELSE [cap EXCEPT ![owner[m]] = IF @ = "deleting" THEN "installed" ELSE @]
    /\ UNCHANGED <<run, call, stranded>>

\* OnTaskCompleted resets the timestamp unless the task completed.  A failed
\* reset is only logged.
OnTaskCompleted(m) ==
    /\ CompletedReturns(m)
    /\ \/ /\ cap' = IF dest[m] = "Completed" THEN cap
                    ELSE [cap EXCEPT ![owner[m]] = IF @ = "deleting" THEN "installed" ELSE @]
          /\ UNCHANGED stranded
       \/ /\ MaxFaults > 0 /\ dest[m] # "Completed" /\ cap[owner[m]] = "deleting"
          /\ stranded' = stranded \cup {owner[m]}
          /\ UNCHANGED cap
    /\ UNCHANGED <<run, call>>

-----------------------------------------------------------------------------
(* The composition. *)

RunnerStep(m) ==
    \/ OnTaskPending(m) \/ RequestDelete(m) \/ PollDelete(m) \/ RemoveCapability(m)
    \/ OnTaskRunning(m) \/ OnTaskCompleted(m)

\* The machine itself, between the calls of its runner.
ControllerStep(m) ==
    /\ Activate(m) \/ Fire(m) \/ SetState(m) \/ SendCallbacks(m)
    /\ UNCHANGED capVars

\* A LaunchTask that returns an error to Uninstall leaves the timestamp; one that
\* succeeds, of a client or of NewController, gives it a task again.
ULaunchStep ==
    /\ LaunchStep
    /\ stranded' =
          CASE launch.at \notin {"create", "reset"} -> stranded
            [] launch.at \in {"create", "reset"} /\ faults' = faults ->
                 stranded \ {owner[launch.m]}
            [] launch.at \in {"create", "reset"} /\ faults' # faults ->
                 stranded \cup
                    {id \in {owner[launch.m]} : mode = "up" /\ cap[id] = "deleting"}
    /\ UNCHANGED <<cap, run, call>>

UninstallStep(c) == UninstallStatus(c) \/ UninstallStamp(c) \/ UninstallLaunch(c)

\* The process dies.  Nothing ties a timestamp to a task that is not saved as
\* unfinished: it was not launched yet, or has ended and OnTaskCompleted did not
\* get to the timestamp.
UCrash ==
    /\ Crash
    /\ stranded' = stranded \cup {id \in Ids : cap[id] = "deleting" /\ ~Unfinished(id)}
    /\ run' = [m \in Machines |-> "idle"]
    /\ call' = [c \in Clients |-> NoCall]
    /\ UNCHANGED cap

UResumeStep == ResumeStep /\ UNCHANGED capVars

UNext ==
    \/ \E m \in Machines : RunnerStep(m) \/ ControllerStep(m)
    \/ \E id \in Ids : Install(id) \/ CancelUninstall(id)
    \/ \E c \in Clients, id \in Ids, md \in Metadata : UninstallRead(c, id, md)
    \/ \E c \in Clients : UninstallStep(c)
    \/ ULaunchStep
    \/ UCrash
    \/ UResumeStep

USpec == UInit /\ [][UNext]_uvars

\* The handlers run, the runner's calls return (the data store ends up deleting
\* what it accepted to delete), the process is restarted.
UFairness ==
    /\ \A m \in Machines : WF_uvars(RunnerStep(m) \/ ControllerStep(m))
    /\ \A c \in Clients : WF_uvars(UninstallStep(c))
    /\ WF_uvars(ULaunchStep)
    /\ WF_uvars(UResumeStep)

UFairSpec == USpec /\ UFairness

-----------------------------------------------------------------------------
(* Properties *)

\* Machine m of cluster id may still remove the capability or reset its timestamp.
WillSettle(m, id) == owner[m] = id /\ pc[m] \notin {"none", "callback", "done"}

\* A failure has separated the timestamp of id from its task, and no launch has
\* succeeded since.  The code has three such failures: an error of a store that
\* leaves the task unattended; an error that Uninstall returns, or OnTaskCompleted
\* logs, with the timestamp set; and the death of the process while the task of
\* the timestamp is not saved as Pending or Running.  A superseded task may also
\* store Completed over the Pending of its successor, which then ends without
\* running.
Separated(id) == id \in unattended \cup stranded \/ status[id].state = "Completed"

\* A deletion timestamp is not left behind.  A capability marked for deletion has
\* an Uninstall call about to launch the task, a task that has yet to remove the
\* capability or to reset the timestamp, or, while the process is down or
\* starting, a saved task that NewController will launch; however calls,
\* cancellations, superseded tasks and restarts overlap, unless a failure has
\* separated the two.
TimestampHasTask ==
    \A id \in Ids :
        cap[id] = "deleting" =>
            \/ \E c \in Clients : call[c].id = id /\ call[c].at = "launch"
            \/ \E m \in Machines : WillSettle(m, id)
            \/ mode # "up" /\ Unfinished(id)
            \/ Separated(id)

\* Every uninstall is settled: a capability marked for deletion is eventually
\* removed or given back, also when the process dies at any point between the
\* launch of the task and the storing of its last state.
UninstallSettles ==
    \A id \in Ids : cap[id] = "deleting" ~> (cap[id] # "deleting" \/ Separated(id))

-----------------------------------------------------------------------------
(* What the comments in the backends and runners say, and the code does not  *)
(* keep.                                                                     *)

\* Uninstall, "not found, ok to reset": a timestamp without a task does not make
\* Uninstall refuse.
NotFoundOkToReset ==
    [][\A c \in Clients :
          call[c].at = "status" /\ status[call[c].id].state = "NotFound" /\ mode' = "up"
             => call'[c].at # "none"]_uvars
=============================================================================
