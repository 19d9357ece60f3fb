-------------------------- MODULE AgentConnections --------------------------
(***************************************************************************)
(* The streams of agents, and the gateway's calls on them.                 *)
(*                                                                         *)
(* The agent's gateway client keeps a stream to the gateway and starts a   *)
(* new one when it is lost.  For each stream the gateway starts a          *)
(* goroutine in the sync requester and in the delegate server, which put   *)
(* the stream into a map of active agents and remove the agent from it     *)
(* when the context of the stream is done.  RequestSync, Request and       *)
(* Broadcast look agents up in these maps and hold a read lock of the map  *)
(* until the agent has answered.                                           *)
(*                                                                         *)
(* The mutexes are Go's: a writer that waits keeps new readers out, and    *)
(* one that is done lets all waiting readers in.                           *)
(***************************************************************************)
EXTENDS Naturals, FiniteSets

CONSTANTS
    Agents,
    Streams,  \* streams, numbered in the order in which they are started
    Calls,    \* calls of RequestSync, Request and Broadcast
    Budgets   \* bound: the agents, the servers that handle connections, the backend of
              \* the store and how often each event of the environment may happen

ASSUME ConnectionAssumption ==
    /\ Streams \subseteq Nat \ {0}
    /\ "none" \notin Agents
    /\ Budgets \subseteq
         [agents : SUBSET Agents, servers : SUBSET {"sync", "delegate"},
          backend : {"etcd", "jetstream"}, streams : Nat, losses : Nat, calls : Nat,
          faults : Nat, deletes : Nat]

VARIABLES
    clusters,    \* the agents whose cluster is in the store
    link,        \* link[a]: the stream that a believes to have, or 0
    stopped,     \* agents that do not try again
    conn,        \* conn[s]: how far Connect of stream s has come
    owner,       \* owner[s]: the agent of stream s
    broken,      \* streams that carry nothing any more, which either side finds out
    finished,    \* streams whose context at the gateway is done
    handler,     \* handler[s][v]: the goroutine of stream s in server v
    active,      \* active[v][a]: the stream in the map of server v, or 0
    leaked,      \* servers whose mutex is locked for ever
    call,        \* call[c]: a call, its answers and its result
    overlapped,  \* history: <<s, v>> such that s met another stream of its agent in v
    left         \* what is left of the budget

streamVars == <<clusters, link, stopped, conn, owner, broken, finished>>
serverVars == <<handler, active, leaked, overlapped>>
vars == <<streamVars, serverVars, call, left>>

Servers == {"sync", "delegate"}
Kinds == {"sync", "request", "broadcast"}

Server(kind) == IF kind = "sync" THEN "sync" ELSE "delegate"

NoCall == [at |-> "idle", kind |-> "none", target |-> "none", ctx |-> 0, to |-> {}, got |-> {}]

Init ==
    /\ left \in Budgets
    /\ clusters = left.agents
    /\ link = [a \in Agents |-> 0]
    /\ stopped = {}
    /\ conn = [s \in Streams |-> "none"]
    /\ owner = [s \in Streams |-> "none"]
    /\ broken = {}
    /\ finished = {}
    /\ handler = [s \in Streams |-> [v \in Servers |-> "none"]]
    /\ active = [v \in Servers |-> [a \in Agents |-> 0]]
    /\ leaked = {}
    /\ call = [c \in Calls |-> NoCall]
    /\ overlapped = {}

Spend(event) ==
    /\ left[event] > 0
    /\ left' = [left EXCEPT ![event] = @ - 1]

-----------------------------------------------------------------------------
(* Streams: runGatewayClient, the interceptors of the gateway and Connect. *)

\* The next attempt of the agent.  Without its cluster it is not authenticated.
AgentConnects(a, s) ==
    /\ a \in left.agents \ stopped /\ link[a] = 0
    /\ IF a \in clusters
       THEN /\ conn[s] = "none" /\ \A r \in Streams : r < s => conn[r] # "none"
            /\ Spend("streams")
            /\ link' = [link EXCEPT ![a] = s]
            /\ conn' = [conn EXCEPT ![s] = "details"]
            /\ owner' = [owner EXCEPT ![s] = a]
            /\ UNCHANGED stopped
       ELSE /\ stopped' = stopped \cup {a}
            /\ UNCHANGED <<link, conn, owner, left>>
    /\ UNCHANGED <<clusters, broken, finished, serverVars, call>>

\* A store call of stream s fails.
LookupFails(s) ==
    \/ (owner[s] \notin clusters \/ s \in finished) /\ UNCHANGED left
    \/ Spend("faults")

\* Connect returns an error: the context is done, and the agent tries again.
Refuse(s) ==
    /\ conn' = [conn EXCEPT ![s] = "closed"]
    /\ finished' = finished \cup {s}
    /\ link' = [a \in Agents |-> IF link[a] = s /\ s \notin broken THEN 0 ELSE link[a]]
    /\ UNCHANGED <<clusters, stopped, owner, broken, handler, active, leaked, overlapped, call>>

\* The interceptor that stores the details of the connection.
LastKnownDetails(s) ==
    /\ conn[s] = "details"
    /\ \/ LookupFails(s) /\ Refuse(s)
       \/ /\ owner[s] \in clusters
          /\ conn' = [conn EXCEPT ![s] = "get"]
          /\ UNCHANGED <<clusters, link, stopped, owner, broken, finished, serverVars, call, left>>

\* Connect reads the cluster ...
GetCluster(s) ==
    /\ conn[s] = "get"
    /\ \/ LookupFails(s) /\ Refuse(s)
       \/ /\ owner[s] \in clusters
          /\ conn' = [conn EXCEPT ![s] = "watch"]
          /\ UNCHANGED <<clusters, link, stopped, owner, broken, finished, serverVars, call, left>>

\* The watch cannot be started, which only jetstream reports, or the stream not be
\* served any more.
ServeFails(s) ==
    \/ s \in broken \cup finished /\ UNCHANGED left
    \/ left.backend = "jetstream" /\ Spend("faults")

\* ... starts the watch and then the handlers.  etcd's watch goes on from the read;
\* jetstream's takes a delete that came before it for an update.
WatchCluster(s) ==
    /\ conn[s] = "watch"
    /\ \/ ServeFails(s) /\ Refuse(s)
       \/ /\ conn' = [conn EXCEPT ![s] =
                       IF owner[s] \in clusters \/ left.backend = "etcd" THEN "serving"
                       ELSE "unwatched"]
          /\ handler' = [handler EXCEPT ![s] =
                           [v \in Servers |-> IF v \in left.servers THEN "begin" ELSE "none"]]
          /\ UNCHANGED <<clusters, link, stopped, owner, broken, finished, active, leaked,
                         overlapped, call, left>>

\* The connection is lost; the agent and the gateway find out at different times.
Lose(s) ==
    /\ conn[s] # "none" /\ s \notin broken \cup finished
    /\ Spend("losses")
    /\ broken' = broken \cup {s}
    /\ UNCHANGED <<clusters, link, stopped, conn, owner, finished, serverVars, call>>

AgentNotices(a) ==
    /\ link[a] \in broken
    /\ link' = [link EXCEPT ![a] = 0]
    /\ UNCHANGED <<clusters, stopped, conn, owner, broken, finished, serverVars, call, left>>

\* The stream is found to be broken, or the watch reports that the cluster is gone.
ContextDone(s) ==
    /\ conn[s] # "none" /\ s \notin finished
    /\ s \in broken \/ (conn[s] = "serving" /\ owner[s] \notin clusters)
    /\ finished' = finished \cup {s}
    /\ UNCHANGED <<clusters, link, stopped, conn, owner, broken, serverVars, call, left>>

\* Connect returns.  An agent that learns that it was deleted does not try again.
StreamCloses(s) ==
    /\ conn[s] \in {"serving", "unwatched"} /\ s \in finished
    /\ conn' = [conn EXCEPT ![s] = "closed"]
    /\ LET told == s \notin broken IN
       /\ link' = [a \in Agents |-> IF link[a] = s /\ told THEN 0 ELSE link[a]]
       /\ stopped' = IF told THEN stopped \cup {owner[s]} ELSE stopped
    /\ UNCHANGED <<clusters, owner, broken, finished, serverVars, call, left>>

DeleteCluster(a) ==
    /\ a \in clusters
    /\ Spend("deletes")
    /\ clusters' = clusters \ {a}
    /\ UNCHANGED <<link, stopped, conn, owner, broken, finished, serverVars, call>>

-----------------------------------------------------------------------------
(* The mutex of a server. *)

Readers(v) == {c \in Calls : call[c].at \in {"locked", "invoke"} /\ Server(call[c].kind) = v}

WriterWaits(v) == \E s \in Streams : handler[s][v] \in {"lock", "unlock"}

CanWrite(v) == v \notin leaked /\ Readers(v) = {}

\* Unlock: all calls that wait get the read lock.
AdmitReaders(v) ==
    call' = [c \in Calls |->
               IF call[c].at = "wait" /\ Server(call[c].kind) = v
               THEN [call[c] EXCEPT !.at = "locked"] ELSE call[c]]

-----------------------------------------------------------------------------
(* HandleAgentConnection of the sync requester and of the delegate server. *)

Present(s, v) == handler[s][v] \in {"active", "unlock"}

Others(s, v) == {r \in Streams \ {s} : owner[r] = owner[s] /\ Present(r, v)}

RequestLock(s, v) ==
    /\ handler[s][v] = "begin"
    /\ handler' = [handler EXCEPT ![s][v] = "lock"]
    /\ UNCHANGED <<streamVars, active, leaked, overlapped, call, left>>

\* The stream replaces whatever stream of its agent is in the map.
Register(s, v) ==
    /\ handler[s][v] = "lock" /\ CanWrite(v)
    /\ v = "delegate" => owner[s] \in clusters
    /\ active' = [active EXCEPT ![v][owner[s]] = s]
    /\ handler' = [handler EXCEPT ![s][v] = "active"]
    /\ overlapped' = overlapped \cup
         (IF Others(s, v) = {} THEN {} ELSE (Others(s, v) \cup {s}) \X {v})
    /\ AdmitReaders(v)
    /\ UNCHANGED <<streamVars, leaked, left>>

\* The delegate server looks the cluster up with the mutex locked, and returns
\* without unlocking it when that fails.
RegisterFails(s) ==
    /\ handler[s]["delegate"] = "lock" /\ CanWrite("delegate")
    /\ LookupFails(s)
    /\ handler' = [handler EXCEPT ![s]["delegate"] = "gone"]
    /\ leaked' = leaked \cup {"delegate"}
    /\ UNCHANGED <<streamVars, active, overlapped, call>>

\* Mutant: the loop of periodic syncs does not look at the context.
LeaveDelegate(s, v) ==
    /\ handler[s][v] = "active" /\ s \in finished /\ v = "delegate"
    /\ handler' = [handler EXCEPT ![s][v] = "unlock"]
    /\ UNCHANGED <<streamVars, active, leaked, overlapped, call, left>>

Leave(s, v) ==
    /\ handler[s][v] = "active" /\ s \in finished
    /\ handler' = [handler EXCEPT ![s][v] = "unlock"]
    /\ UNCHANGED <<streamVars, active, leaked, overlapped, call, left>>

\* Mutant: the agent is not removed from the map.
DeregisterNot(s, v) ==
    /\ handler[s][v] = "unlock" /\ CanWrite(v)
    /\ handler' = [handler EXCEPT ![s][v] = "gone"]
    /\ AdmitReaders(v)
    /\ UNCHANGED <<streamVars, active, leaked, overlapped, left>>

\* Mutant: the map is made anew.
DeregisterAll(s, v) ==
    /\ handler[s][v] = "unlock" /\ CanWrite(v)
    /\ active' = [active EXCEPT ![v] = [a \in Agents |-> 0]]
    /\ handler' = [handler EXCEPT ![s][v] = "gone"]
    /\ AdmitReaders(v)
    /\ UNCHANGED <<streamVars, leaked, overlapped, left>>

\* The agent is removed from the map, whichever of its streams is in it.
Deregister(s, v) ==
    /\ handler[s][v] = "unlock" /\ CanWrite(v)
    /\ active' = [active EXCEPT ![v][owner[s]] = 0]
    /\ handler' = [handler EXCEPT ![s][v] = "gone"]
    /\ AdmitReaders(v)
    /\ UNCHANGED <<streamVars, leaked, overlapped, left>>

-----------------------------------------------------------------------------
(* RequestSync, Request and Broadcast. *)

\* A call asks for the read lock; ctx is the stream whose context it has, or 0.
Begin(c, kind, target, ctx) ==
    LET v == Server(kind) IN
    /\ v \in left.servers
    /\ call[c] = NoCall /\ Spend("calls")
    /\ call' = [call EXCEPT ![c] =
                  [NoCall EXCEPT !.at = IF WriterWaits(v) \/ v \in leaked THEN "wait" ELSE "locked",
                                 !.kind = kind, !.target = target, !.ctx = ctx]]
    /\ UNCHANGED <<streamVars, serverVars>>

\* runPeriodicSync: the timer fires.
PeriodicSync(s, c) ==
    /\ handler[s]["sync"] = "active"
    /\ Begin(c, "sync", owner[s], s)

Entries(v) == {active[v][a] : a \in Agents} \ {0}

\* Mutant: an agent that is not in the map is not noticed.
TargetsUnchecked(c) ==
    LET v == Server(call[c].kind) IN
    IF call[c].kind = "broadcast" THEN SUBSET Entries(v)
    ELSE {{active[v][a]} : a \in {a \in Agents : call[c].target \in {a, "none"}}}

\* What a call may find: the stream of its target; for RequestSync without a target
\* the first of all; for Broadcast those that its selector matches.
Targets(c) ==
    LET v == Server(call[c].kind) IN
    CASE call[c].kind = "broadcast" -> SUBSET Entries(v)
      [] call[c].target # "none"    -> {{active[v][call[c].target]} \ {0}}
      [] OTHER -> IF Entries(v) = {} THEN {{}} ELSE {{s} : s \in Entries(v)}

\* Without a target the call returns NotFound.
Lookup(c) ==
    /\ call[c].at = "locked"
    /\ \E to \in Targets(c) :
          call' = [call EXCEPT ![c] =
                     [@ EXCEPT !.at = IF to = {} THEN "NotFound" ELSE "invoke", !.to = to]]
    /\ UNCHANGED <<streamVars, serverVars, left>>

\* The agent answers.  Broadcast waits for all answers.
Reply(c, s) ==
    LET got == call[c].got \cup {s} IN
    /\ call[c].at = "invoke" /\ s \in call[c].to \ call[c].got
    /\ s \notin broken \cup finished /\ link[owner[s]] = s
    /\ call' = [call EXCEPT ![c] =
                  [@ EXCEPT !.got = got, !.at = IF got = call[c].to THEN "OK" ELSE "invoke"]]
    /\ UNCHANGED <<streamVars, serverVars, left>>

\* Mutant: a call does not notice that the stream is gone.
InvokeFailsByAgent(c, s) ==
    /\ call[c].at = "invoke" /\ s \in call[c].to \ call[c].got
    /\ Spend("faults")
    /\ call' = [call EXCEPT ![c].at = "error"]
    /\ UNCHANGED <<streamVars, serverVars>>

\* The stream is gone, the context of the call is done or the agent returns an
\* error.  One error ends the whole call.
InvokeFails(c, s) ==
    /\ call[c].at = "invoke" /\ s \in call[c].to \ call[c].got
    /\ \/ {s, call[c].ctx} \cap finished # {} /\ UNCHANGED left
       \/ Spend("faults")
    /\ call' = [call EXCEPT ![c].at = "error"]
    /\ UNCHANGED <<streamVars, serverVars>>

-----------------------------------------------------------------------------
AgentStep(a) == AgentNotices(a) \/ \E s \in Streams : AgentConnects(a, s)

StreamStep(s) ==
    \/ LastKnownDetails(s) \/ GetCluster(s) \/ WatchCluster(s)
    \/ ContextDone(s) \/ StreamCloses(s)

HandlerStep(s, v) ==
    \/ RequestLock(s, v) \/ Register(s, v) \/ Leave(s, v) \/ Deregister(s, v)
    \/ v = "delegate" /\ RegisterFails(s)

CallStep(c) ==
    Lookup(c) \/ \E s \in Streams : Reply(c, s) \/ InvokeFails(c, s)

Environment ==
    \/ \E s \in Streams : Lose(s)
    \/ \E a \in Agents : DeleteCluster(a)
    \/ \E s \in Streams, c \in Calls : PeriodicSync(s, c)
    \/ \E c \in Calls, kind \in Kinds, target \in left.agents \cup {"none"} :
          /\ (kind = "request") => (target # "none")
          /\ (kind = "broadcast") => (target = "none")
          /\ Begin(c, kind, target, 0)

Next ==
    \/ Environment
    \/ \E a \in Agents : AgentStep(a)
    \/ \E s \in Streams : StreamStep(s)
    \/ \E s \in Streams, v \in Servers : HandlerStep(s, v)
    \/ \E c \in Calls : CallStep(c)

Spec == Init /\ [][Next]_vars

\* Goroutines are scheduled, agents answer and keepalives find broken streams.
Fairness ==
    /\ \A a \in Agents : WF_vars(AgentStep(a))
    /\ \A s \in Streams : WF_vars(StreamStep(s))
    /\ \A s \in Streams, v \in Servers : WF_vars(HandlerStep(s, v))
    /\ \A c \in Calls : WF_vars(CallStep(c))

FairSpec == Spec /\ Fairness

-----------------------------------------------------------------------------
(* Properties *)

StreamTypes ==
    /\ clusters \subseteq Agents /\ stopped \subseteq Agents
    /\ link \in [Agents -> Streams \cup {0}]
    /\ conn \in [Streams -> {"none", "details", "get", "watch", "serving", "unwatched", "closed"}]
    /\ owner \in [Streams -> Agents \cup {"none"}]
    /\ broken \subseteq Streams /\ finished \subseteq Streams
    /\ left \in [agents : SUBSET Agents, servers : SUBSET Servers,
                 backend : {"etcd", "jetstream"}, streams : Nat, losses : Nat, calls : Nat,
                 faults : Nat, deletes : Nat]

ServerTypes ==
    /\ handler \in [Streams -> [Servers -> {"none", "begin", "lock", "active", "unlock", "gone"}]]
    /\ active \in [Servers -> [Agents -> Streams \cup {0}]]
    /\ leaked \subseteq Servers
    /\ overlapped \subseteq Streams \X Servers

CallTypes ==
    call \in [Calls ->
        [at : {"idle", "wait", "locked", "invoke", "OK", "NotFound", "error"},
         kind : Kinds \cup {"none"}, target : Agents \cup {"none"}, ctx : Streams \cup {0},
         to : SUBSET Streams, got : SUBSET Streams]]

\* Every variable stays within its type; calls are only ever made on streams.
TypeOK == StreamTypes /\ ServerTypes /\ CallTypes

\* Whatever is in a map is a stream of that agent whose goroutine has yet to remove
\* it, however many streams of the agent come and go: no goroutine ends and leaves
\* its stream behind.  (Whether the goroutine gets that far is StreamsCleanUp; with
\* a leaked mutex it does not.)
EntryHasHandler ==
    \A v \in Servers, a \in Agents :
        LET s == active[v][a] IN s # 0 => owner[s] = a /\ Present(s, v)

\* An agent whose goroutine waits for the end of the stream can be called on that
\* stream, provided that its streams did not overlap in the server: then the end
\* of the older one removes the agent, and calls find no agent that is connected.
ConnectedIsReachable ==
    \A s \in Streams, v \in Servers :
        Present(s, v) /\ <<s, v>> \notin overlapped => active[v][owner[s]] = s

InProgress(v) == \E c \in Calls :
    Server(call[c].kind) = v /\ call[c].at \in {"wait", "locked", "invoke"}

\* Every call returns, although it keeps the map locked until its agent answers
\* and others wait for that lock, unless the mutex was leaked.
CallsReturn == \A v \in Servers : InProgress(v) ~> (~InProgress(v) \/ v \in leaked)

\* A stream that is lost, or whose cluster was deleted in sight of its watch.
Over(s) == s \in broken \cup finished \/ (owner[s] \notin clusters /\ conn[s] # "unwatched")

Leftover(v) == \E s \in Streams : Present(s, v) /\ Over(s)

\* The goroutine of a stream that is lost, or whose cluster is deleted, comes to its
\* end, although calls on that very stream hold the lock that it needs.  Two cases
\* are exempt: the mutex was leaked, or the cluster was deleted between jetstream's
\* read and its watch, which never ends the stream.
StreamsCleanUp == \A v \in Servers : Leftover(v) ~> (~Leftover(v) \/ v \in leaked)
=============================================================================
