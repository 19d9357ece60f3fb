------------------------------- MODULE Health -------------------------------
(***************************************************************************)
(* The path of an agent's health and connection status from its plugins to *)
(* the callers of the management API: the condition trackers and the       *)
(* aggregator of the agent, the listener and the monitor of the gateway.   *)
(***************************************************************************)
EXTENDS HealthListener, HealthMonitor

ASSUME JoinAssumption == Ids = Agents /\ Unreported = [health |-> NoHealth, status |-> "none"]

vars == <<agentVars, listenerVars, monitorVars>>

Init == ListenerInit /\ MonitorInit

-----------------------------------------------------------------------------
ReceiveHealth ==
    /\ healthC # <<>>
    /\ Receive("health", Head(healthC).agent, Head(healthC).health)
    /\ healthC' = Tail(healthC)
    /\ UNCHANGED <<agentVars, handler, ended, incoming, channel, push, closing, statusC>>

ReceiveStatus ==
    /\ statusC # <<>>
    /\ Receive("status", Head(statusC).agent, Head(statusC).status)
    /\ statusC' = Tail(statusC)
    /\ UNCHANGED <<agentVars, handler, ended, incoming, channel, push, closing, healthC>>

\* A closed channel gives its last updates before it reports that it is closed.
StopRun ==
    /\ closing = "shut"
    /\ statusC = <<>> \/ healthC = <<>>
    /\ Stop
    /\ UNCHANGED <<agentVars, listenerVars>>

\* The gateway stops: the context of Run is done.
ShutDown ==
    /\ Spend("stops")
    /\ Stop
    /\ UNCHANGED <<trackerVars, query, listenerVars>>

RunStep ==
    \/ ReceiveHealth \/ ReceiveStatus \/ StopRun
    \/ (\E w \in Watchers : SendUpdate(w)) /\ UNCHANGED <<agentVars, listenerVars>>

StartWatch(w) ==
    /\ Spend("watches")
    /\ WatchHealthStatus(w)
    /\ UNCHANGED <<trackerVars, query, listenerVars>>

Listening(step) == step /\ UNCHANGED monitorVars
Watching(step) == step /\ UNCHANGED <<agentVars, listenerVars>>

Next ==
    \/ Listening(ListenerNext)
    \/ RunStep \/ ShutDown
    \/ \E w \in Watchers :
          StartWatch(w) \/ Watching(WatchStep(w)) \/ Watching(Read(w)) \/ Watching(Cancel(w))

Spec == Init /\ [][Next]_vars

\* Goroutines are scheduled, the agent answers and callers read until they cancel.
Fairness ==
    /\ WF_vars(Listening(PushStep)) /\ WF_vars(Listening(CloseStep)) /\ WF_vars(RunStep)
    /\ \A s \in Streams : WF_vars(Listening(HandlerStep(s)))
    /\ \A w \in Watchers :
          WF_vars(Watching(WatchStep(w))) /\ WF_vars(Watching(Read(w)))

FairSpec == Spec /\ Fairness

-----------------------------------------------------------------------------
(* Properties *)

Places == {"none", "begin", "acquire", "lock", "connect", "initial", "publish",
           "loop", "polling", "leaving", "left", "deregister", "done"}

\* Every variable stays within its type, and no channel overflows.
TypeOK ==
    /\ conds \in [Agents -> [Plugins -> [Keys -> Statuses \cup {"none"}]]]
    /\ storing \subseteq Agents \X Plugins
    /\ modTime \in [Agents -> [Plugins -> Start..clock]]
    /\ ended \subseteq Streams
    /\ incoming \in [Agents -> Streams \cup {0}]
    /\ \A s \in Streams :
          /\ handler[s].agent \in Agents \cup {"none"}
          /\ handler[s].at \in Places
          /\ handler[s].cur.time \in Never..clock
          /\ Len(channel[s]) <= IncomingCap
    /\ \A n \in Pushes : push[n].at \in {"none", "reading", "blocked"}
    /\ Len(statusC) <= QueueCap /\ Len(healthC) <= QueueCap
    /\ run.at \in {"select", "sending", "stopped"} /\ run.to \subseteq Registered
    /\ \A w \in Watchers :
          /\ watch[w].at \in {"off", "initial", "loop", "send", "removing", "gone"}
          /\ watch[w].todo \subseteq Agents

\* What the monitor knows of the status of a, and what is still on its way.
StatusHistory(a) ==
    LET queued == SelectSeq(statusC, LAMBDA u : u.agent = a)
        known  == IF current[a].status = "connected" THEN "connected" ELSE "disconnected"
    IN  <<known>> \o [i \in DOMAIN queued |-> queued[i].status]

\* However the streams of an agent overlap, its status updates alternate, and
\* the last of them says whether one of its handlers is at work.
StatusAlternates ==
    run.at # "stopped" =>
        \A a \in Agents :
            LET h == StatusHistory(a) IN
            /\ \A i \in 1..Len(h)-1 : h[i] # h[i+1]
            /\ (h[Len(h)] = "connected") <=> (\E s \in Connected : handler[s].agent = a)

\* The last health that was reported of a, which may still be on its way.
LastHealth(a) ==
    LET queued == SelectSeq(healthC, LAMBDA u : u.agent = a)
    IN  IF queued = <<>> THEN current[a].health ELSE queued[Len(queued)].health

\* The last health reported of an agent is the one its handler goes by, however
\* polls and updates overtake each other, and an agent without a handler is not
\* ready, whatever was in progress when its last stream ended.
LastHealthRight ==
    run.at # "stopped" =>
        \A a \in Agents :
            LET hs == {s \in Connected : handler[s].agent = a} IN
            /\ \A s \in hs : handler[s].at \in {"loop", "polling"} /\ handler[s].cur # NoHealth
                                => Equal(LastHealth(a), handler[s].cur)
            /\ hs = {} => ~LastHealth(a).ready

\* Close closes the channels only when no handler is left that could still send
\* on them, which would be a panic; nor can one get there later.
NoSendAfterClose == closing = "shut" => Holders = {}

\* An UpdateHealth waits, with the lock of the map of channels, for room in the
\* channel of a handler that has left its loop and waits for that lock.
Deadlock == \E n \in Pushes :
    push[n].at = "blocked" /\ handler[push[n].to].at \in {"leaving", "left", "deregister"}

Stuck == Deadlock \/ Jam \/ run.at = "stopped"

\* The handler of a stream that has ended comes to its end, so that the handler of
\* the next stream, which waits for the lock of the agent's id, can take over.
HandlersLeave == Locked \cap ended # {} ~> (Locked \cap ended = {} \/ Stuck)

ReportTime(a) == Min({modTime[a][p] : p \in Loaded})
IsReady(a) == \A p \in Loaded : Conditions(a, p) = {}

\* A connected agent has a health that the listener would take but has not got.
Outdated ==
    \E s \in Connected \ ended :
        /\ closing = "open"
        /\ handler[s].cur.ready # IsReady(handler[s].agent)
        /\ ReportTime(handler[s].agent) > handler[s].cur.time

\* A change of an agent's health reaches the listener in the end, unless the
\* agent dates its health no later than the last one it sent.
HealthArrives == Outdated ~> (~Outdated \/ Stuck)
=============================================================================
