---------------------------- MODULE HealthMonitor ----------------------------
(***************************************************************************)
(* The gateway's health monitor.                                           *)
(*                                                                         *)
(* Run keeps the last health and status of every agent and passes each     *)
(* update on to the watchers, holding the monitor's mutex until the last   *)
(* of them has taken it.  WatchHealthStatus starts a goroutine that sends  *)
(* what the monitor knew, then joins the two channels of updates into one  *)
(* channel that its caller reads until it cancels the watch.               *)
(***************************************************************************)
EXTENDS Naturals, Sequences

CONSTANTS
    Ids,          \* the ids of the agents
    Watchers,
    Unreported,   \* the health and status of an agent before the first update
    ListenerCap,  \* capacity of the channels of updates (10)
    OutCap        \* capacity of the channel of a caller (100)

ASSUME MonitorAssumption == ListenerCap \in Nat \ {0} /\ OutCap \in Nat \ {0}

VARIABLES
    current,   \* current[a]: currentHealth and currentStatus
    run,       \* what Run is doing; it holds the mutex while it sends
    watch,     \* watch[w]: the goroutine of watcher w and the maps it keeps
    updates,   \* updates[w]: its channels of health and status updates
    out,       \* out[w]: the channel of its caller
    seen,      \* seen[w][a]: what the caller has read last
    canceled   \* watchers whose context is done

monitorVars == <<current, run, watch, updates, out, seen, canceled>>

Nothing == [a \in Ids |-> Unreported]

Idle == [at |-> "select", kind |-> "none", agent |-> "none", to |-> {}]
NoWatch == [at |-> "off", todo |-> {}, ref |-> "none", view |-> Nothing]

MonitorInit ==
    /\ current = Nothing
    /\ run = Idle
    /\ watch = [w \in Watchers |-> NoWatch]
    /\ updates = [w \in Watchers |-> [health |-> <<>>, status |-> <<>>]]
    /\ out = [w \in Watchers |-> <<>>]
    /\ seen = [w \in Watchers |-> Nothing]
    /\ canceled = {}

Registered == {w \in Watchers : watch[w].at \notin {"off", "gone"}}

-----------------------------------------------------------------------------
(* Run. *)

\* An update of a kind ("health" or "status") arrives.
Receive(kind, a, value) ==
    /\ run.at = "select"
    /\ current' = [current EXCEPT ![a][kind] = value]
    /\ run' = IF Registered = {} THEN Idle
              ELSE [at |-> "sending", kind |-> kind, agent |-> a, to |-> Registered]
    /\ UNCHANGED <<watch, updates, out, seen, canceled>>

SendUpdate(w) ==
    /\ run.at = "sending" /\ w \in run.to
    /\ Len(updates[w][run.kind]) < ListenerCap
    /\ updates' = [updates EXCEPT ![w][run.kind] =
                     Append(@, [agent |-> run.agent, value |-> current[run.agent][run.kind]])]
    /\ run' = IF run.to = {w} THEN Idle ELSE [run EXCEPT !.to = @ \ {w}]
    /\ UNCHANGED <<current, watch, out, seen, canceled>>

\* Run returns: its context is done or a channel of the listener is closed.
Stop ==
    /\ run.at = "select"
    /\ run' = [Idle EXCEPT !.at = "stopped"]
    /\ current' = Nothing
    /\ UNCHANGED <<watch, updates, out, seen, canceled>>

-----------------------------------------------------------------------------
(* WatchHealthStatus. *)

\* Mutant: what the monitor knows already is not sent.
WatchHealthStatusLater(w) ==
    /\ watch[w].at = "off"
    /\ run.at = "select"
    /\ watch' = [watch EXCEPT ![w] = [NoWatch EXCEPT !.at = "loop", !.view = current]]
    /\ UNCHANGED <<current, run, updates, out, seen, canceled>>

\* Agents that have a status but no health are left out of the first reports.
WatchHealthStatus(w) ==
    LET todo == {a \in Ids : current[a].health # Unreported.health} IN
    /\ watch[w].at = "off"
    /\ run.at = "select"
    /\ watch' = [watch EXCEPT ![w] =
                   [at |-> IF todo = {} THEN "loop" ELSE "initial",
                    todo |-> todo, ref |-> "none", view |-> current]]
    /\ UNCHANGED <<current, run, updates, out, seen, canceled>>

Report(w, a) ==
    /\ Len(out[w]) < OutCap
    /\ out' = [out EXCEPT ![w] = Append(@, [agent |-> a, view |-> watch[w].view[a]])]

SendInitial(w, a) ==
    /\ watch[w].at = "initial" /\ a \in watch[w].todo
    /\ Report(w, a)
    /\ watch' = [watch EXCEPT ![w].todo = @ \ {a},
                              ![w].at = IF watch[w].todo = {a} THEN "loop" ELSE "initial"]
    /\ UNCHANGED <<current, run, updates, seen, canceled>>

\* Mutant: the goroutine does not read its channel of status updates.
TakeUpdatesHealth(w, kind) ==
    LET u == Head(updates[w][kind]) IN
    /\ watch[w].at = "loop" /\ kind = "health"
    /\ updates[w][kind] # <<>>
    /\ updates' = [updates EXCEPT ![w][kind] = Tail(@)]
    /\ watch' = [watch EXCEPT ![w].at = "send", ![w].ref = u.agent,
                              ![w].view[u.agent][kind] = u.value]
    /\ UNCHANGED <<current, run, out, seen, canceled>>

TakeUpdates(w, kind) ==
    LET u == Head(updates[w][kind]) IN
    /\ watch[w].at = "loop"
    /\ updates[w][kind] # <<>>
    /\ updates' = [updates EXCEPT ![w][kind] = Tail(@)]
    /\ watch' = [watch EXCEPT ![w].at = "send", ![w].ref = u.agent,
                              ![w].view[u.agent][kind] = u.value]
    /\ UNCHANGED <<current, run, out, seen, canceled>>

\* The report is dropped if the context is done.
SendReport(w) ==
    /\ watch[w].at = "send"
    /\ Report(w, watch[w].ref) \/ (w \in canceled /\ UNCHANGED out)
    /\ watch' = [watch EXCEPT ![w].at = "loop", ![w].ref = "none"]
    /\ UNCHANGED <<current, run, updates, seen, canceled>>

\* The loop ends with the context, or when Run has closed the channels.
EndLoop(w) ==
    /\ watch[w].at = "loop"
    /\ \/ w \in canceled
       \/ run.at = "stopped" /\ \E kind \in {"health", "status"} : updates[w][kind] = <<>>
    /\ watch' = [watch EXCEPT ![w] = [NoWatch EXCEPT !.at = "removing"]]
    /\ UNCHANGED <<current, run, updates, out, seen, canceled>>

\* Needs the mutex.
Remove(w) ==
    /\ watch[w].at = "removing"
    /\ run.at # "sending"
    /\ watch' = [watch EXCEPT ![w].at = "gone"]
    /\ updates' = [updates EXCEPT ![w] = [health |-> <<>>, status |-> <<>>]]
    /\ UNCHANGED <<current, run, out, seen, canceled>>

\* The caller, WatchClusterHealthStatus of the management server.
Read(w) ==
    /\ w \notin canceled
    /\ out[w] # <<>>
    /\ seen' = [seen EXCEPT ![w][Head(out[w]).agent] = Head(out[w]).view]
    /\ out' = [out EXCEPT ![w] = Tail(@)]
    /\ UNCHANGED <<current, run, watch, updates, canceled>>

Cancel(w) ==
    /\ w \in Registered \ canceled
    /\ canceled' = canceled \cup {w}
    /\ UNCHANGED <<current, run, watch, updates, out, seen>>

-----------------------------------------------------------------------------
WatchStep(w) ==
    \/ \E a \in Ids : SendInitial(w, a)
    \/ \E kind \in {"health", "status"} : TakeUpdates(w, kind)
    \/ SendReport(w) \/ EndLoop(w) \/ Remove(w)

\* A watcher that was canceled is in the way of Run and can never leave: it does
\* not read its updates any more, and the mutex it needs to remove itself is
\* held by Run, or it is still sending its first reports to nobody.
Jam == \E w \in run.to : w \in canceled /\ watch[w].at \in {"removing", "initial"}
                         /\ Len(updates[w][run.kind]) >= ListenerCap

\* A caller that has read all there is knows what the monitor knows: no update
\* falls between the copy of the maps and the registration of the channels.
\* Exempt are agents that have not reported a health.
WatchFollows ==
    \A w \in Watchers \ canceled :
        /\ run.at = "select" /\ watch[w].at = "loop" /\ out[w] = <<>>
        /\ updates[w] = [health |-> <<>>, status |-> <<>>]
        => \A a \in Ids :
              current[a].health # Unreported.health => seen[w][a] = current[a]

\* Run gets rid of every update, and with it of the mutex, save in a jam.
RunGoesOn == (run.at = "sending") ~> (run.at # "sending" \/ Jam)
=============================================================================
