------------------------ MODULE TaskControllerProofs ------------------------
(***************************************************************************)
(* Proofs that the task controller keeps its type invariant, that a        *)
(* cancellation reaches every live machine, and that no unfinished task is *)
(* left without a goroutine, for every number of tasks and launches.       *)
(***************************************************************************)
EXTENDS TaskController, TLAPS

\* Machines are allocated in order, and an allocated machine has an owner.
Allocated ==
    \A m \in Machines :
        /\ pc[m] # "none" <=> m <= created
        /\ pc[m] # "none" => owner[m] \in Ids

\* The launch in progress is that of an allocated machine not yet activated.
LaunchOwnsMachine ==
    /\ launch.at = "none" => launch = NoLaunch
    /\ launch.at # "none" => launch.m \in Machines /\ pc[launch.m] = "launching"

StructInv == TypeOK /\ Allocated /\ LaunchOwnsMachine

LEMMA DestinationType ==
    ASSUME NEW s, NEW t
    PROVE  /\ Destination(s, t) \in {"Running", "NotFound"} \cup EndStates
           /\ t # "Start" => Destination(s, t) # "Running"
           /\ t \in {"End", "Error", "Cancel"} /\ s = "Running" => Destination(s, t) # "NotFound"
           /\ t \in {"Start", "Cancel"} /\ s = "Pending" => Destination(s, t) # "NotFound"
BY DEF Destination, EndStates

LEMMA StructInit == Init => StructInv
BY ConstantsAssumption
   DEF Init, StructInv, TypeOK, Allocated, LaunchOwnsMachine, NoStatus, NoLaunch,
       Status, Machines, States

LEMMA StructNext == StructInv /\ [Next]_vars => StructInv'
<1> SUFFICES ASSUME StructInv, [Next]_vars PROVE StructInv'
  OBVIOUS
<1> USE ConstantsAssumption DEF StructInv
<1>1. ASSUME NEW m \in Machines, Activate(m) PROVE StructInv'
  <2>1. \E label \in {"pending", "done"} : pc' = [pc EXCEPT ![m] = label]
    BY <1>1 DEF Activate, Goto, Abandon
  <2>2. UNCHANGED <<status, tasks, created, owner, trigger, dest, ran, canceled, reported,
                    launch, mode, resume, crashes>>
    BY <1>1 DEF Activate, Abandon, controlVars
  <2>3. pc[m] = "activate"
    BY <1>1 DEF Activate
  <2>4. faults' \in 0..MaxFaults
    BY <1>1 DEF TypeOK, Activate, StoreFails
  <2>5. unattended' \in SUBSET Ids
    BY <1>1, <2>3 DEF TypeOK, Allocated, Activate, Abandon
  <2>6. TypeOK'
    BY <2>1, <2>2, <2>4, <2>5 DEF TypeOK
  <2>7. Allocated' /\ LaunchOwnsMachine'
    BY <2>1, <2>2, <2>3 DEF TypeOK, Allocated, LaunchOwnsMachine
  <2> QED BY <2>6, <2>7
<1>2. ASSUME NEW m \in Machines, PendingReturns(m) PROVE StructInv'
  BY <1>2 DEF TypeOK, Allocated, LaunchOwnsMachine, PendingReturns, Goto, controlVars,
              NoLaunch, TriggerFor, Triggers, Returns
<1>3. ASSUME NEW m \in Machines, Fire(m) PROVE StructInv'
  <2>1. Destination(status[owner[m]].state, trigger[m]) \in States \cup {"NotFound"}
    BY DestinationType DEF States
  <2> QED
    BY <1>3, <2>1 DEF TypeOK, Allocated, LaunchOwnsMachine, Fire, Goto, StoreFails,
                      Abandon, controlVars, NoLaunch
<1>4. ASSUME NEW m \in Machines, SetState(m) PROVE StructInv'
  <2>1. \A s \in Status : [s EXCEPT !.state = dest[m]] \in Status
    BY DEF TypeOK, Status
  <2>2. status' \in [Ids -> Status]
    BY <1>4, <2>1 DEF TypeOK, SetState, Abandon
  <2> QED
    BY <1>4, <2>2 DEF TypeOK, Allocated, LaunchOwnsMachine, SetState, Goto, StoreFails,
                      Abandon, controlVars, NoLaunch
<1>5. ASSUME NEW m \in Machines, SetProgress(m) PROVE StructInv'
  <2>1. PICK p \in 1..MaxProgress : status' = [status EXCEPT ![owner[m]].progress = p]
    BY <1>5 DEF SetProgress
  <2>2. status' \in [Ids -> Status]
    <3>1. \A s \in Status : [s EXCEPT !.progress = p] \in Status
      BY <2>1 DEF Status
    <3> QED BY <2>1, <3>1 DEF TypeOK
  <2> QED
    BY <1>5, <2>2 DEF TypeOK, Allocated, LaunchOwnsMachine, SetProgress, controlVars,
                      NoLaunch
<1>6. ASSUME NEW m \in Machines, RunningReturns(m) PROVE StructInv'
  BY <1>6 DEF TypeOK, Allocated, LaunchOwnsMachine, RunningReturns, Goto, controlVars,
              NoLaunch, TriggerFor, Triggers, Returns
<1>7. ASSUME NEW m \in Machines, CompletedReturns(m) PROVE StructInv'
  BY <1>7 DEF TypeOK, Allocated, LaunchOwnsMachine, CompletedReturns, Goto,
              controlVars, NoLaunch
<1>8. ASSUME NEW m \in Machines, SendCallbacks(m) PROVE StructInv'
  BY <1>8 DEF TypeOK, Allocated, LaunchOwnsMachine, SendCallbacks, Goto, controlVars,
              NoLaunch, Status
<1>9. ASSUME NEW id \in Ids, NEW md \in Metadata \cup {0}, BeginLaunch(id, md),
             UNCHANGED <<status, trigger, dest, ran, reported, mode, resume, crashes,
                         faults, unattended>>
      PROVE StructInv'
  BY <1>9 DEF TypeOK, Allocated, LaunchOwnsMachine, BeginLaunch, NoLaunch, Machines,
              States
<1>10. ASSUME LaunchStep PROVE StructInv'
  <2>1. launch.at # "none"
    BY <1>10 DEF LaunchStep, LaunchRead, LaunchLog, LaunchCreate, LaunchReset
  <2>2. launch.m \in Machines /\ pc[launch.m] = "launching" /\ owner[launch.m] \in Ids
    BY <2>1 DEF LaunchOwnsMachine, Allocated
  <2>3. NoLaunch \in [m : 0..MaxMachines, at : {"none", "read", "log", "create", "reset"},
                      md : Metadata \cup {0}, seen : States \cup {"NotFound"}]
    BY DEF NoLaunch
  <2>4. CASE LaunchRead
    <3>1. CASE StoreFails
      BY <2>2, <2>4, <3>1 DEF TypeOK, Allocated, LaunchOwnsMachine, LaunchRead,
          StoreFails, launchUnchanged, NoLaunch
    <3>2. status[owner[launch.m]].state \in States \cup {"NotFound"}
      BY <2>2 DEF TypeOK, Status
    <3>3. CASE UNCHANGED faults
      <4> DEFINE a == IF status[owner[launch.m]].state = "NotFound"
                        THEN "create" ELSE "reset"
      <4>0. ~ StoreFails
        BY <3>3 DEF StoreFails, TypeOK
      <4>1. launch' = [launch EXCEPT !.at = a, !.seen = status[owner[launch.m]].state]
        BY <2>4, <4>0 DEF LaunchRead
      <4>2. /\ launch' \in [m : 0..MaxMachines, at : {"none", "read", "log", "create", "reset"},
                            md : Metadata \cup {0}, seen : States \cup {"NotFound"}]
            /\ launch'.at # "none" /\ launch'.m = launch.m
        BY <3>2, <4>1 DEF TypeOK
      <4>3. UNCHANGED <<status, pc, resume, faults, unattended, launchUnchanged>>
        BY <2>4, <4>0 DEF LaunchRead
      <4> QED
        BY <2>2, <4>2, <4>3 DEF TypeOK, Allocated, LaunchOwnsMachine, launchUnchanged
    <3> QED BY <2>4, <3>1, <3>3 DEF LaunchRead
  <2>5. status' \in [Ids -> Status] /\ faults' \in 0..MaxFaults
    <3>1. CASE LaunchRead \/ LaunchLog
      BY <3>1 DEF TypeOK, LaunchRead, LaunchLog, StoreFails
    <3>2. CASE LaunchCreate
      <4>1. [state |-> "Pending", metadata |-> launch.md, progress |-> 0] \in Status
        BY DEF TypeOK, Status, States
      <4> QED BY <3>2, <4>1 DEF TypeOK, LaunchCreate, LaunchPut, StoreFails
    <3>3. CASE LaunchReset
      <4>1. ResetStatus(status[owner[launch.m]], launch.seen, launch.md) \in Status
        BY <2>2 DEF TypeOK, ResetStatus, Status, States
      <4> QED BY <3>3, <4>1 DEF TypeOK, LaunchReset, LaunchPut, StoreFails
    <3> QED BY <1>10, <3>1, <3>2, <3>3 DEF LaunchStep
  <2>6. ASSUME NEW label \in {"activate", "done"}, EndLaunch(label),
               resume' \in SUBSET Ids, unattended' \in SUBSET Ids, UNCHANGED launchUnchanged
        PROVE  StructInv'
    BY <2>2, <2>3, <2>5, <2>6 DEF TypeOK, Allocated, LaunchOwnsMachine, EndLaunch,
        launchUnchanged, NoLaunch
  <2>7. CASE LaunchLog \/ LaunchCreate \/ LaunchReset
    <3>1. resume' \in SUBSET Ids /\ unattended' \in SUBSET Ids
      BY <2>2, <2>7 DEF LaunchLog, LaunchCreate, LaunchReset, LaunchPut, TypeOK
    <3> QED BY <2>6, <2>7, <3>1 DEF LaunchLog, LaunchCreate, LaunchReset, LaunchPut
  <2> QED BY <1>10, <2>4, <2>7 DEF LaunchStep
<1>11. ASSUME NEW id \in Ids, CancelTask(id) PROVE StructInv'
  BY <1>11 DEF TypeOK, Allocated, LaunchOwnsMachine, CancelTask, NoLaunch, Machines
<1>12. CASE Crash
  BY <1>12 DEF TypeOK, Allocated, LaunchOwnsMachine, Crash, NoLaunch, Machines
<1>13. CASE NewController \/ ControllerReady
  BY <1>13 DEF TypeOK, Allocated, LaunchOwnsMachine, NewController, ControllerReady,
               machineVars, NoLaunch
<1>14. ASSUME NEW id \in Ids, CleanTask(id) PROVE StructInv'
  BY <1>14 DEF TypeOK, Allocated, LaunchOwnsMachine, CleanTask, machineVars, NoLaunch,
               StoreFails, NoStatus, Status
<1>15. ASSUME NEW id \in Ids, ResumeTask(id) PROVE StructInv'
  <2>1. status[id].metadata \in Metadata \cup {0}
    BY DEF TypeOK, Status
  <2> QED BY <1>9, <1>15, <2>1 DEF ResumeTask
<1>16. ASSUME NEW id \in Ids, NEW md \in Metadata, LaunchTask(id, md) PROVE StructInv'
  BY <1>9, <1>16 DEF LaunchTask
<1>17. CASE UNCHANGED vars
  BY <1>17 DEF TypeOK, Allocated, LaunchOwnsMachine, vars, machineVars
<1> QED
  BY <1>1, <1>2, <1>3, <1>4, <1>5, <1>6, <1>7, <1>8, <1>10, <1>11, <1>12, <1>13,
     <1>14, <1>15, <1>16, <1>17 DEF Next, MachineStep, ResumeStep

\* The type invariant: every state the controller stores or passes between its
\* steps is a real TaskState, in every interleaving.
THEOREM TypeCorrect == Spec => []TypeOK
<1>1. Init => StructInv
  BY StructInit
<1>2. StructInv /\ [Next]_vars => StructInv'
  BY StructNext
<1>3. StructInv => TypeOK
  BY DEF StructInv
<1> QED BY <1>1, <1>2, <1>3, PTL DEF Spec

THEOREM StructCorrect == Spec => []StructInv
<1> QED BY StructInit, StructNext, PTL DEF Spec

-----------------------------------------------------------------------------
(* Cancellation.  CancelReachesLiveTask is inductive relative to StructInv. *)

LEMMA CancelNext ==
    StructInv /\ CancelReachesLiveTask /\ [Next]_vars => CancelReachesLiveTask'
<1> SUFFICES ASSUME StructInv, CancelReachesLiveTask, [Next]_vars
             PROVE  CancelReachesLiveTask'
  OBVIOUS
<1> USE ConstantsAssumption DEF StructInv, CancelReachesLiveTask
\* A step that neither registers nor cancels, and starts no machine.
<1>1. ASSUME UNCHANGED <<tasks, owner, canceled>>,
             \A m \in Machines : pc'[m] \notin {"none", "done"} => pc[m] \notin {"none", "done"}
      PROVE  CancelReachesLiveTask'
  BY <1>1
<1>2. ASSUME NEW m \in Machines, MachineStep(m) \/ SetProgress(m)
      PROVE  CancelReachesLiveTask'
  <2>1. /\ UNCHANGED <<tasks, owner, canceled>>
        /\ pc[m] \notin {"none", "done"}
        /\ \E label : pc' = [pc EXCEPT ![m] = label] \/ pc' = pc
    BY <1>2 DEF MachineStep, Activate, PendingReturns, Fire, SetState, SetProgress,
                RunningReturns, CompletedReturns, SendCallbacks, Goto, Abandon,
                controlVars, TypeOK
  <2> QED BY <1>1, <2>1 DEF TypeOK
<1>3. ASSUME NEW id \in Ids, NEW md, BeginLaunch(id, md) PROVE CancelReachesLiveTask'
  <2>1. created + 1 \in Machines /\ pc[created + 1] = "none"
    BY <1>3 DEF BeginLaunch, Machines, Allocated, TypeOK
  <2> SUFFICES ASSUME NEW m \in Machines, pc'[m] \notin {"none", "done"}, ~canceled'[m]
               PROVE  tasks'[owner'[m]] = m
    OBVIOUS
  <2>2. CASE m = created + 1
    BY <1>3, <2>1, <2>2 DEF BeginLaunch, TypeOK
  <2>3. CASE m # created + 1
    <3>1. pc[m] \notin {"none", "done"} /\ ~canceled[m] /\ owner'[m] = owner[m]
      BY <1>3, <2>3 DEF BeginLaunch, TypeOK
    <3>2. owner[m] \in Ids /\ tasks[owner[m]] = m
      BY <3>1 DEF Allocated
    <3>3. owner[m] # id
      BY <1>3, <2>3, <3>2 DEF BeginLaunch, TypeOK, Machines
    <3> QED BY <1>3, <3>1, <3>2, <3>3 DEF BeginLaunch, TypeOK
  <2> QED BY <2>2, <2>3
<1>4. ASSUME LaunchStep PROVE CancelReachesLiveTask'
  <2>1. launch.m \in Machines /\ pc[launch.m] = "launching"
    BY <1>4 DEF LaunchStep, LaunchRead, LaunchLog, LaunchCreate, LaunchReset,
                LaunchOwnsMachine
  <2> QED
    BY <1>1, <1>4, <2>1 DEF LaunchStep, LaunchRead, LaunchLog, LaunchCreate, LaunchReset,
        LaunchPut, EndLaunch, launchUnchanged, TypeOK
<1>5. ASSUME NEW id \in Ids, CancelTask(id) PROVE CancelReachesLiveTask'
  BY <1>5 DEF CancelTask, TypeOK, Allocated, Machines
<1>6. CASE Crash
  BY <1>6 DEF Crash
<1>7. CASE ResumeStep
  BY <1>1, <1>3, <1>7 DEF ResumeStep, NewController, ControllerReady, ResumeTask,
      CleanTask, machineVars
<1>8. ASSUME NEW id \in Ids, NEW md \in Metadata, LaunchTask(id, md)
      PROVE  CancelReachesLiveTask'
  BY <1>3, <1>8 DEF LaunchTask
<1>9. CASE UNCHANGED vars
  BY <1>1, <1>9 DEF vars, machineVars
<1> QED
  BY <1>2, <1>4, <1>5, <1>6, <1>7, <1>8, <1>9 DEF Next

\* Whatever launches, cancellations and crashes overlap, CancelTask (or the next
\* LaunchTask) reaches every machine whose context is still live.
THEOREM CancelReaches == Spec => []CancelReachesLiveTask
<1>1. Init => CancelReachesLiveTask
  BY DEF Init, CancelReachesLiveTask
<1> QED BY <1>1, StructCorrect, CancelNext, PTL DEF Spec

-----------------------------------------------------------------------------
(* No orphans.  The invariant says WHICH machine will move a task on: a      *)
(* Pending task has one whose next transition leaves Pending, a Running task  *)
(* one whose next transition leaves Running.  A machine of the same id that   *)
(* has been overtaken fires a trigger its state does not permit and ends, so  *)
(* it is never the witness that disappears.                                  *)

PendingDriver(m, id) ==
    /\ owner[m] = id
    /\ pc[m] \in {"activate", "pending"} \/ (pc[m] \in {"fire", "set"} /\ ~ran[m])

RunningDriver(m, id) ==
    /\ owner[m] = id
    /\ pc[m] = "running" \/ (pc[m] \in {"fire", "set"} /\ ran[m])

\* Which triggers a machine fires before and after OnTaskRunning, and where
\* they lead.
FiresInOrder ==
    \A m \in Machines :
        /\ pc[m] \in {"none", "launching", "activate", "pending"} => ~ran[m]
        /\ pc[m] \in {"fire", "set"} /\ ~ran[m] => trigger[m] \in {"Start", "Cancel", "Error"}
        /\ pc[m] \in {"fire", "set"} /\ ran[m] => trigger[m] \in {"End", "Cancel", "Error"}
        /\ pc[m] = "set" => dest[m] \in {"Running"} \cup EndStates
        /\ pc[m] = "set" /\ ran[m] => dest[m] # "Running"

Driven ==
    mode # "down" =>
        \A id \in Ids \ (unattended \cup resume) :
            /\ status[id].state = "Pending" => \E m \in Machines : PendingDriver(m, id)
            /\ status[id].state = "Running" => \E m \in Machines : RunningDriver(m, id)

\* A launch that ignored the accessor's error has been recorded as such.
LogUnattended == launch.at = "log" => owner[launch.m] \in unattended

\* A launch of NewController is that of an id it has yet to deal with.
LaunchResumes ==
    /\ mode = "resuming" /\ launch.at # "none" => owner[launch.m] \in resume
    /\ mode = "down" => launch = NoLaunch

OrphanInv ==
    /\ FiresInOrder /\ Driven /\ LogUnattended /\ LaunchResumes
    /\ mode = "up" => resume = {}

LEMMA FiresNext == StructInv /\ FiresInOrder /\ [Next]_vars => FiresInOrder'
<1> SUFFICES ASSUME StructInv, FiresInOrder, [Next]_vars PROVE FiresInOrder'
  OBVIOUS
<1> USE ConstantsAssumption DEF StructInv
<1>1. ASSUME NEW m \in Machines, MachineStep(m) \/ SetProgress(m) PROVE FiresInOrder'
  <2> USE DEF FiresInOrder, TypeOK, Goto, controlVars
  <2>1. CASE Activate(m)
    BY <2>1 DEF Activate, Abandon
  <2>2. CASE PendingReturns(m)
    BY <2>2 DEF PendingReturns, TriggerFor, Returns
  <2>3. CASE Fire(m)
    <3>1. /\ Destination(status[owner[m]].state, trigger[m])
               \in {"Running", "NotFound"} \cup EndStates
          /\ trigger[m] # "Start" =>
               Destination(status[owner[m]].state, trigger[m]) # "Running"
      BY DestinationType
    <3> QED BY <2>3, <3>1 DEF Fire, Abandon
  <2>4. CASE SetState(m)
    BY <2>4 DEF SetState, Abandon
  <2>5. CASE RunningReturns(m)
    BY <2>5 DEF RunningReturns, TriggerFor, Returns
  <2>6. CASE CompletedReturns(m) \/ SendCallbacks(m) \/ SetProgress(m)
    BY <2>6 DEF CompletedReturns, SendCallbacks, SetProgress
  <2> QED BY <1>1, <2>1, <2>2, <2>3, <2>4, <2>5, <2>6 DEF MachineStep
<1>2. ASSUME NEW id \in Ids, NEW md, BeginLaunch(id, md), UNCHANGED <<trigger, dest, ran>>
      PROVE  FiresInOrder'
  BY <1>2 DEF FiresInOrder, BeginLaunch, TypeOK, Allocated, Machines
<1>3. CASE LaunchStep
  <2>1. launch.m \in Machines /\ pc[launch.m] = "launching"
    BY <1>3 DEF LaunchStep, LaunchRead, LaunchLog, LaunchCreate, LaunchReset,
                LaunchOwnsMachine
  <2> QED
    BY <1>3, <2>1 DEF FiresInOrder, LaunchStep, LaunchRead, LaunchLog, LaunchCreate,
        LaunchReset, LaunchPut, EndLaunch, launchUnchanged, TypeOK
<1>4. CASE Crash
  BY <1>4 DEF FiresInOrder, Crash
<1>5. CASE UNCHANGED machineVars
  BY <1>5 DEF FiresInOrder, machineVars
<1>6. CASE \E id \in Ids : CancelTask(id)
  BY <1>6 DEF FiresInOrder, CancelTask
<1> QED
  BY <1>1, <1>2, <1>3, <1>4, <1>5, <1>6
     DEF Next, ResumeStep, ResumeTask, LaunchTask, NewController, ControllerReady,
         CleanTask, vars

\* The step of one machine.  The state it writes leaves Pending and Running, or
\* makes the machine itself the driver; a machine that gives up was not the
\* driver, or its error was dropped.
LEMMA DrivenMachine ==
    ASSUME StructInv, FiresInOrder, Driven, NEW m \in Machines,
           MachineStep(m) \/ SetProgress(m)
    PROVE  Driven'
<1> USE DEF StructInv
<1> SUFFICES ASSUME mode # "down", NEW id \in Ids \ (unattended' \cup resume)
             PROVE  /\ status'[id].state = "Pending" =>
                          \E n \in Machines : PendingDriver(n, id)'
                    /\ status'[id].state = "Running" =>
                          \E n \in Machines : RunningDriver(n, id)'
  BY DEF Driven, MachineStep, Activate, PendingReturns, Fire, SetState, SetProgress,
         RunningReturns, CompletedReturns, SendCallbacks, Goto, Abandon, controlVars
<1>1. /\ UNCHANGED <<owner, mode, resume>>
      /\ unattended \subseteq unattended'
      /\ pc[m] \notin {"none", "launching", "done"}
      /\ owner[m] \in Ids
      /\ \A n \in Machines \ {m} : /\ pc'[n] = pc[n] /\ ran'[n] = ran[n]
      /\ \A i \in Ids \ {owner[m]} : status'[i] = status[i]
  BY DEF MachineStep, Activate, PendingReturns, Fire, SetState, SetProgress,
         RunningReturns, CompletedReturns, SendCallbacks, Goto, Abandon, controlVars,
         TypeOK, Allocated
<1>2. /\ status[id].state = "Pending" => \E n \in Machines : PendingDriver(n, id)
      /\ status[id].state = "Running" => \E n \in Machines : RunningDriver(n, id)
  BY <1>1 DEF Driven
<1>3. \A n \in Machines \ {m} : /\ PendingDriver(n, id) => PendingDriver(n, id)'
                               /\ RunningDriver(n, id) => RunningDriver(n, id)'
  BY <1>1 DEF PendingDriver, RunningDriver
<1>4. CASE owner[m] # id
  BY <1>1, <1>2, <1>3, <1>4 DEF PendingDriver, RunningDriver
<1>5. CASE owner[m] = id
  <2> USE <1>5
  <2>1. CASE Activate(m)
    <3>1. /\ pc[m] = "activate" /\ UNCHANGED status
          /\ ~Abandon(m)
      BY <1>1, <2>1 DEF Activate, Abandon
    <3>2. pc' = [pc EXCEPT ![m] = IF status[id].state = "Pending" THEN "pending" ELSE "done"]
      BY <2>1, <3>1 DEF Activate, Goto
    <3>3. status[id].state = "Pending" => PendingDriver(m, id)'
      BY <1>1, <3>2 DEF PendingDriver, TypeOK
    <3>4. ASSUME status[id].state = "Running" PROVE \E n \in Machines : RunningDriver(n, id)'
      <4>1. PICK n \in Machines : RunningDriver(n, id)
        BY <1>2, <3>4
      <4>2. n # m
        BY <3>1, <4>1 DEF RunningDriver
      <4>3. RunningDriver(n, id)'
        BY <1>1, <4>1, <4>2 DEF RunningDriver
      <4> QED BY <4>3
    <3> QED BY <3>1, <3>3, <3>4
  <2>2. CASE PendingReturns(m)
    BY <1>1, <1>2, <1>3, <2>2 DEF PendingReturns, Goto, PendingDriver, RunningDriver, TypeOK,
        FiresInOrder
  <2>3. CASE Fire(m)
    <3>1. /\ pc[m] = "fire" /\ UNCHANGED <<status, ran>>
          /\ id \notin unattended'
      BY <2>3 DEF Fire, Abandon
    <3>2. ~Abandon(m)
      BY <3>1 DEF Abandon
    <3> DEFINE d == Destination(status[id].state, trigger[m])
    <3>3. /\ pc' = [pc EXCEPT ![m] = IF d = "NotFound" THEN "done" ELSE "set"]
          /\ ~(d = "NotFound" /\ trigger[m] = "Error" /\ ~ran[m])
      BY <2>3, <3>1, <3>2 DEF Fire, Goto
    <3>4. /\ status[id].state = "Pending" /\ ~ran[m] => d # "NotFound"
          /\ status[id].state = "Running" /\ ran[m] => d # "NotFound"
      BY <3>1, <3>3, DestinationType DEF FiresInOrder
    <3>5. /\ status[id].state = "Pending" /\ ~ran[m] => pc'[m] = "set"
          /\ status[id].state = "Running" /\ ran[m] => pc'[m] = "set"
      BY <3>3, <3>4 DEF TypeOK
    <3> HIDE DEF d
    <3> QED BY <1>1, <1>2, <1>3, <3>1, <3>5 DEF PendingDriver, RunningDriver
  <2>4. CASE SetState(m)
    <3>1. ~Abandon(m) /\ pc[m] = "set"
      BY <2>4 DEF Abandon, SetState
    <3>2. /\ status'[id].state = dest[m]
          /\ dest[m] = "Running" => pc'[m] = "running"
      BY <2>4, <3>1 DEF SetState, Goto, TypeOK, Status
    <3>3. dest[m] # "Pending"
      BY <3>1 DEF FiresInOrder, EndStates
    <3> QED BY <1>1, <3>2, <3>3 DEF RunningDriver
  <2>5. CASE SetProgress(m)
    <3>1. status'[id].state = status[id].state /\ UNCHANGED <<pc, ran>>
      BY <2>5 DEF SetProgress, TypeOK, Status
    <3> QED BY <1>1, <1>2, <3>1 DEF PendingDriver, RunningDriver
  <2>6. CASE RunningReturns(m)
    BY <1>1, <1>2, <1>3, <2>6 DEF RunningReturns, Goto, PendingDriver, RunningDriver, TypeOK
  <2>7. CASE CompletedReturns(m) \/ SendCallbacks(m)
    BY <1>1, <1>2, <1>3, <2>7 DEF CompletedReturns, SendCallbacks, PendingDriver, RunningDriver
  <2> QED BY <2>1, <2>2, <2>3, <2>4, <2>5, <2>6, <2>7 DEF MachineStep
<1> QED BY <1>4, <1>5

LEMMA OrphanNext == StructInv /\ OrphanInv /\ [Next]_vars => OrphanInv'
<1> SUFFICES ASSUME StructInv, OrphanInv, [Next]_vars PROVE OrphanInv'
  OBVIOUS
<1> USE ConstantsAssumption DEF StructInv, OrphanInv
<1>1. FiresInOrder'
  BY FiresNext
<1>2. (mode = "up" => resume = {})'
  BY DEF Next, LaunchTask, CancelTask, Crash, ResumeStep, NewController,
         ControllerReady, ResumeTask, CleanTask, LaunchStep, LaunchRead, LaunchLog,
         LaunchCreate, LaunchReset, LaunchPut, launchUnchanged, MachineStep, Activate,
         PendingReturns, Fire, SetState, SetProgress, RunningReturns, CompletedReturns,
         SendCallbacks, Abandon, controlVars, vars
<1>3. Driven'
  <2>1. ASSUME NEW m \in Machines, MachineStep(m) \/ SetProgress(m) PROVE Driven'
    BY <2>1, DrivenMachine
  <2>2. ASSUME UNCHANGED <<status, owner, pc, ran, mode, resume, unattended>> PROVE Driven'
    <3>1. \A m \in Machines, i \in Ids :
             /\ PendingDriver(m, i)' <=> PendingDriver(m, i)
             /\ RunningDriver(m, i)' <=> RunningDriver(m, i)
      BY <2>2 DEF PendingDriver, RunningDriver
    <3> QED BY <2>2, <3>1 DEF Driven
  <2>3. ASSUME NEW id \in Ids, NEW md, BeginLaunch(id, md),
               UNCHANGED <<status, ran, mode, resume, unattended>>
        PROVE  Driven'
    <3>1. created + 1 \in Machines /\ pc[created + 1] = "none"
      BY <2>3 DEF BeginLaunch, Machines, Allocated, TypeOK
    <3>2. \A m \in Machines, i \in Ids :
             /\ PendingDriver(m, i) => PendingDriver(m, i)'
             /\ RunningDriver(m, i) => RunningDriver(m, i)'
      BY <2>3, <3>1 DEF BeginLaunch, PendingDriver, RunningDriver, TypeOK
    <3> QED BY <2>3, <3>2 DEF Driven
  <2>4. CASE LaunchStep
    <3>1. /\ launch.m \in Machines /\ pc[launch.m] = "launching"
          /\ owner[launch.m] \in Ids
      BY <2>4 DEF LaunchStep, LaunchRead, LaunchLog, LaunchCreate, LaunchReset,
                  LaunchOwnsMachine, Allocated
    <3>2. /\ UNCHANGED <<owner, ran, mode>>
          /\ \A m \in Machines \ {launch.m} : pc'[m] = pc[m]
          /\ \A i \in Ids \ {owner[launch.m]} :
                /\ status'[i] = status[i]
                /\ i \in resume => i \in resume'
                /\ i \in unattended => i \in unattended'
      BY <2>4, <3>1 DEF LaunchStep, LaunchRead, LaunchLog, LaunchCreate, LaunchReset,
          LaunchPut, EndLaunch, launchUnchanged, TypeOK
    <3>3. \A m \in Machines, i \in Ids :
             /\ PendingDriver(m, i) => PendingDriver(m, i)'
             /\ RunningDriver(m, i) => RunningDriver(m, i)'
      BY <3>1, <3>2 DEF PendingDriver, RunningDriver
    <3> DEFINE Recorded == owner[launch.m] \in unattended'
               Same     == /\ UNCHANGED <<resume, unattended>>
                           /\ status'[owner[launch.m]] = status[owner[launch.m]]
               Retried  == mode # "up" /\ UNCHANGED resume
               Launched == /\ status'[owner[launch.m]].state = "Pending"
                           /\ pc'[launch.m] = "activate"
    <3>4. Recorded \/ Same \/ Retried \/ Launched
      <4>1. CASE LaunchRead
        BY <4>1 DEF LaunchRead
      <4>2. ASSUME NEW new, new.state = "Pending", LaunchPut(new)
            PROVE  Recorded \/ Same \/ Retried \/ Launched
        BY <3>1, <4>2 DEF LaunchPut, EndLaunch, TypeOK
      <4>3. CASE LaunchCreate \/ LaunchReset
        BY <4>2, <4>3 DEF LaunchCreate, LaunchReset, ResetStatus
      <4>4. CASE LaunchLog
        BY <4>4 DEF LaunchLog, LogUnattended
      <4> QED BY <2>4, <4>1, <4>3, <4>4 DEF LaunchStep
    <3>5. ASSUME NEW m \in Machines, NEW i \in Ids, owner[m] = i, pc'[m] = "activate"
          PROVE  PendingDriver(m, i)'
      BY <3>2, <3>5 DEF PendingDriver
    <3>6. Retried => mode = "down" \/ owner[launch.m] \in resume'
      BY <2>4 DEF LaunchStep, LaunchRead, LaunchLog, LaunchCreate, LaunchReset, LaunchResumes, TypeOK
    <3> SUFFICES ASSUME mode # "down", NEW i \in Ids \ (unattended' \cup resume')
                 PROVE  /\ status'[i].state = "Pending" =>
                              \E m \in Machines : PendingDriver(m, i)'
                        /\ status'[i].state = "Running" =>
                              \E m \in Machines : RunningDriver(m, i)'
      BY <3>2 DEF Driven
    <3>7. CASE i # owner[launch.m] \/ Same
      <4>1. i \notin unattended \cup resume /\ status'[i] = status[i]
        BY <3>2, <3>7
      <4> QED BY <3>3, <4>1 DEF Driven
    <3>8. CASE i = owner[launch.m] /\ Launched
      BY <3>1, <3>5, <3>8
    <3> QED BY <3>4, <3>6, <3>7, <3>8
  <2>5. CASE Crash
    BY <2>5 DEF Crash, Driven
  <2>6. CASE NewController
    BY <2>6 DEF NewController, Driven
  <2>7. ASSUME NEW id \in Ids, CleanTask(id) PROVE Driven'
    <3>1. /\ status'[id].state \notin {"Pending", "Running"}
          /\ \A i \in Ids \ {id} : status'[i] = status[i] /\ (i \in resume => i \in resume')
      BY <2>7 DEF CleanTask, NoStatus, EndStates, TypeOK
    <3>2. \A m \in Machines, i \in Ids :
             /\ PendingDriver(m, i) => PendingDriver(m, i)'
             /\ RunningDriver(m, i) => RunningDriver(m, i)'
      BY <2>7 DEF CleanTask, machineVars, PendingDriver, RunningDriver
    <3> QED BY <2>7, <3>1, <3>2 DEF Driven, CleanTask
  <2>8. CASE ControllerReady
    BY <2>8 DEF ControllerReady, Driven, machineVars, PendingDriver, RunningDriver
  <2>9. CASE \E id \in Ids : CancelTask(id)
    BY <2>2, <2>9 DEF CancelTask
  <2>10. CASE UNCHANGED vars
    BY <2>2, <2>10 DEF vars, machineVars
  <2> QED
    BY <2>1, <2>3, <2>4, <2>5, <2>6, <2>7, <2>8, <2>9, <2>10
       DEF Next, ResumeStep, ResumeTask, LaunchTask
<1>4. LogUnattended'
  <2>1. CASE LaunchStep
    <3>1. launch' = NoLaunch \/ (launch'.at # "log")
            \/ (launch'.m = launch.m /\ owner' = owner /\ owner[launch.m] \in unattended')
      <4>1. CASE LaunchRead
        BY <4>1 DEF LaunchRead, launchUnchanged, TypeOK
      <4>2. CASE LaunchLog \/ LaunchCreate \/ LaunchReset
        BY <4>2 DEF LaunchLog, LaunchCreate, LaunchReset, LaunchPut, EndLaunch
      <4> QED BY <2>1, <4>1, <4>2 DEF LaunchStep
    <3> QED BY <3>1 DEF LogUnattended, NoLaunch
  <2>2. ASSUME NEW id \in Ids, NEW md, BeginLaunch(id, md) PROVE LogUnattended'
    BY <2>2 DEF LogUnattended, BeginLaunch
  <2>3. CASE Crash
    BY <2>3 DEF LogUnattended, Crash, NoLaunch
  <2>4. ASSUME UNCHANGED <<launch, owner>>, unattended \subseteq unattended'
        PROVE  LogUnattended'
    BY <2>4 DEF LogUnattended
  <2>5. ASSUME NEW m \in Machines, MachineStep(m) \/ SetProgress(m) PROVE LogUnattended'
    BY <2>4, <2>5 DEF MachineStep, Activate, PendingReturns, Fire, SetState, SetProgress,
        RunningReturns, CompletedReturns, SendCallbacks, Abandon, controlVars
  <2> QED
    BY <2>1, <2>2, <2>3, <2>4, <2>5
       DEF Next, ResumeStep, ResumeTask, LaunchTask, NewController, ControllerReady,
           CleanTask, CancelTask, machineVars, vars
<1>5. LaunchResumes'
  <2>1. CASE LaunchRead
    <3>1. launch.at # "none" /\ launch'.m = launch.m /\ UNCHANGED <<owner, mode, resume>>
      BY <2>1 DEF LaunchRead, launchUnchanged, TypeOK
    <3> QED BY <3>1 DEF LaunchResumes, NoLaunch
  <2>2. CASE LaunchLog \/ LaunchCreate \/ LaunchReset
    <3>1. launch' = NoLaunch
      BY <2>2 DEF LaunchLog, LaunchCreate, LaunchReset, LaunchPut, EndLaunch
    <3> QED BY <3>1 DEF LaunchResumes, NoLaunch
  <2>3. ASSUME NEW id \in Ids, ResumeTask(id) PROVE LaunchResumes'
    <3>1. created + 1 \in Machines
      BY <2>3 DEF ResumeTask, BeginLaunch, Machines, TypeOK
    <3> QED BY <2>3, <3>1 DEF LaunchResumes, ResumeTask, BeginLaunch, TypeOK
  <2>4. ASSUME NEW id \in Ids, NEW md \in Metadata, LaunchTask(id, md) PROVE LaunchResumes'
    BY <2>4 DEF LaunchResumes, LaunchTask
  <2>5. CASE Crash
    BY <2>5 DEF LaunchResumes, Crash
  <2>6. CASE NewController
    BY <2>6 DEF LaunchResumes, NewController, machineVars, NoLaunch
  <2>7. CASE ControllerReady
    BY <2>7 DEF LaunchResumes, ControllerReady
  <2>8. ASSUME NEW id \in Ids, CleanTask(id) PROVE LaunchResumes'
    BY <2>8 DEF LaunchResumes, CleanTask, NoLaunch
  <2>9. ASSUME UNCHANGED <<launch, owner, mode, resume>> PROVE LaunchResumes'
    BY <2>9 DEF LaunchResumes
  <2>10. ASSUME NEW m \in Machines, MachineStep(m) \/ SetProgress(m) PROVE LaunchResumes'
    BY <2>9, <2>10 DEF MachineStep, Activate, PendingReturns, Fire, SetState, SetProgress,
        RunningReturns, CompletedReturns, SendCallbacks, Abandon, controlVars
  <2> QED
    BY <2>1, <2>2, <2>3, <2>4, <2>5, <2>6, <2>7, <2>8, <2>9, <2>10
       DEF Next, LaunchStep, ResumeStep, CancelTask, machineVars, vars
<1> QED BY <1>1, <1>2, <1>3, <1>4, <1>5

\* An unfinished task of a running controller always has a goroutine that will
\* still move it on, for any number of task ids, launches, crashes and store
\* errors, answers of the store that are lost included.  The only tasks left out
\* are those an error has left unattended since the last LaunchTask of their id
\* that succeeded: an error that ActivateCtx dropped, or one LaunchTask returned
\* to its client after the status was stored.
THEOREM NoOrphans == Spec => []NoOrphanedTask
<1>1. Init => OrphanInv
  <2> SUFFICES ASSUME Init PROVE OrphanInv
    OBVIOUS
  <2>1. FiresInOrder
    BY DEF Init, FiresInOrder
  <2>2. Driven
    BY DEF Init, Driven, NoStatus
  <2>3. LogUnattended /\ LaunchResumes /\ (mode = "up" => resume = {})
    BY DEF Init, LogUnattended, LaunchResumes, NoLaunch
  <2> QED BY <2>1, <2>2, <2>3 DEF OrphanInv
<1>2. StructInv /\ OrphanInv => NoOrphanedTask
  <2> SUFFICES ASSUME OrphanInv, mode = "up", NEW id \in Ids \ unattended, Unfinished(id)
               PROVE  \E m \in Machines : owner[m] = id /\ Active(m)
    BY DEF NoOrphanedTask
  <2>1. \E m \in Machines : PendingDriver(m, id) \/ RunningDriver(m, id)
    BY DEF OrphanInv, Driven, Unfinished
  <2> QED BY <2>1 DEF PendingDriver, RunningDriver, Active
<1> QED BY <1>1, <1>2, StructCorrect, OrphanNext, PTL DEF Spec
=============================================================================
