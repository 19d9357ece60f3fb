--------------------------- MODULE HealthListener ---------------------------
(***************************************************************************)
(* The gateway's health listener.                                          *)
(*                                                                         *)
(* Each stream of an agent gets a goroutine in HandleConnection.  It takes *)
(* a place in a semaphore and the lock of the agent's id, reports the      *)
(* agent as connected, polls its health and takes the updates that the     *)
(* agent's metrics plugin sends by itself (UpdateHealth), and when the     *)
(* stream ends reports the agent as not ready and disconnected.  Reports   *)
(* go to two bounded channels.                                             *)
(***************************************************************************)
EXTENDS AgentHealth, Sequences

CONSTANTS
    Pusher,          \* the plugin that sends its health when it changes
    MaxConnections,  \* size of the semaphore
    QueueCap,        \* capacity of the two channels (1000)
    IncomingCap      \* capacity of the channel of a connection (10)

ASSUME ListenerAssumption ==
    /\ Pusher \in Plugins
    /\ MaxConnections \in Nat \ {0} /\ QueueCap \in Nat \ {0} /\ IncomingCap \in Nat \ {0}

VARIABLES
    handler,   \* handler[s]: the goroutine of stream s, its agent and curHealth
    ended,     \* the streams whose context is done
    incoming,  \* incoming[a]: the stream that updates of a go to, or 0
    channel,   \* channel[s]: updates that wait for the handler of s
    push,      \* push[n]: the health of a plugin on its way to the listener
    closing,   \* how far Close has come
    statusC, healthC

listenerVars == <<handler, ended, incoming, channel, push, closing, statusC, healthC>>

NoHealth == [ready |-> FALSE, list |-> {<<"nil", "nil">>}, time |-> Epoch]

\* The listener's own report when a connection ends.
Offline == [ready |-> FALSE, list |-> {}, time |-> Epoch]

NoHandler == [agent |-> "none", at |-> "none", cur |-> NoHealth]
NoPush == [agent |-> "none", at |-> "none", to |-> 0]

ListenerInit ==
    /\ AgentInit
    /\ handler = [s \in Streams |-> NoHandler]
    /\ ended = {}
    /\ incoming = [a \in Agents |-> 0]
    /\ channel = [s \in Streams |-> <<>>]
    /\ push = [n \in Pushes |-> NoPush]
    /\ closing = "open"
    /\ statusC = <<>> /\ healthC = <<>>

Call(s) == [by |-> "stream", n |-> s]
PushCall(n) == [by |-> "push", n |-> n]

At(s, at) == handler[s].at = at
Goto(s, at) == handler' = [handler EXCEPT ![s].at = at]

\* The handlers that hold the semaphore, the lock of their agent's id, and those
\* that have reported their agent as connected and not yet as disconnected.
Connected == {s \in Streams : handler[s].at \in
                {"initial", "publish", "loop", "polling", "leaving", "left"}}
Locked == Connected \cup {s \in Streams : handler[s].at \in
                            {"connect", "deregister"}}
Holders == Locked \cup {s \in Streams : handler[s].at = "lock"}

Live(a) == {s \in Streams \ ended : handler[s].agent = a}

PublishStatus(s, status) ==
    /\ Len(statusC) < QueueCap
    /\ statusC' = Append(statusC, [agent |-> handler[s].agent, status |-> status])

PublishHealth(s, health) ==
    /\ Len(healthC) < QueueCap
    /\ healthC' = Append(healthC, [agent |-> handler[s].agent, health |-> health])

-----------------------------------------------------------------------------
(* Updates that the metrics plugin sends: sendHealthUpdate and UpdateHealth. *)

StartPush(a) ==
    LET n == Min({n \in Pushes : push[n].at = "none"}) IN
    /\ \E k \in Pushes : push[k].at = "none"
    /\ push' = [push EXCEPT ![n] = [NoPush EXCEPT !.agent = a, !.at = "reading"]]
    /\ Ask(PushCall(n), {Pusher})

EndPush(n) ==
    /\ push' = [push EXCEPT ![n] = NoPush]
    /\ Forget(PushCall(n))

\* The rest of Set and Clear: the time of the change, and the listeners.
NotifyListeners(a, p) ==
    /\ StoreTime(a, p)
    /\ IF p = Pusher THEN StartPush(a) ELSE UNCHANGED <<push, query>>
    /\ UNCHANGED <<handler, ended, incoming, channel, closing, statusC, healthC>>

\* Mutant: the channel has no limit.
HasRoomAlways(s) == TRUE

HasRoom(s) == Len(channel[s]) < IncomingCap

\* UpdateHealth puts the update into the channel of the agent's handler, under the
\* read lock of incomingHealthUpdatesMu, for which it may have to wait for room.
\* There may be no handler, and without a stream the call does not even arrive.
UpdateHealth(n) ==
    LET a  == push[n].agent
        s  == IF push[n].at = "blocked" THEN push[n].to ELSE incoming[a]
        h  == NodeHealth(PushCall(n), Pusher)
    IN
    /\ push[n].at # "none"
    /\ Answered(PushCall(n))
    /\ \/ /\ push[n].at = "reading"
          /\ s = 0 \/ Live(a) = {}
          /\ EndPush(n)
          /\ UNCHANGED channel
       \/ /\ s # 0
          /\ HasRoom(s)
          /\ channel' = [channel EXCEPT ![s] = Append(@, h)]
          /\ EndPush(n)
       \/ /\ push[n].at = "reading" /\ s # 0
          /\ ~HasRoom(s)
          /\ push' = [push EXCEPT ![n].at = "blocked", ![n].to = s]
          /\ UNCHANGED <<channel, query>>
    /\ UNCHANGED <<trackerVars, left, handler, ended, incoming, closing, statusC, healthC>>

\* incomingHealthUpdatesMu can be taken for writing.
NoReader == \A n \in Pushes : push[n].at # "blocked"

-----------------------------------------------------------------------------
(* HandleConnection. *)

\* A stream of agent a starts; its plugins get a new client and send their health.
Connect(s, a) ==
    /\ At(s, "none") /\ \A r \in Streams : r < s => ~At(r, "none")
    /\ left.streams > 0
    /\ left' = [left EXCEPT !.streams = @ - 1]
    /\ handler' = [handler EXCEPT ![s] = [NoHandler EXCEPT !.agent = a, !.at = "begin"]]
    /\ IF Pusher \in Loaded THEN StartPush(a) ELSE UNCHANGED <<push, query>>
    /\ UNCHANGED <<trackerVars, ended, incoming, channel, closing, statusC, healthC>>

StreamEnds(s) ==
    /\ ~At(s, "none") /\ s \notin ended
    /\ ended' = ended \cup {s}
    /\ UNCHANGED <<agentVars, handler, incoming, channel, push, closing, statusC, healthC>>

Begin(s) ==
    /\ At(s, "begin")
    /\ Goto(s, IF closing = "open" THEN "acquire" ELSE "done")
    /\ UNCHANGED <<agentVars, ended, incoming, channel, push, closing, statusC, healthC>>

\* The semaphore is first come, first served: behind Close nobody gets a place.
Acquire(s) ==
    LET free == closing \in {"open", "closed"} /\ Cardinality(Holders) < MaxConnections IN
    /\ At(s, "acquire")
    /\ free \/ s \in ended
    /\ Goto(s, IF free THEN "lock" ELSE "done")
    /\ UNCHANGED <<agentVars, ended, incoming, channel, push, closing, statusC, healthC>>

\* Mutant: a new stream does not wait for the handler of the old one.
LockClientAlways(s) ==
    /\ At(s, "lock")
    /\ NoReader
    /\ incoming' = [incoming EXCEPT ![handler[s].agent] = s]
    /\ Goto(s, "connect")
    /\ UNCHANGED <<agentVars, ended, channel, push, closing, statusC, healthC>>

\* The lock of the agent's id, and the channel for updates.
LockClient(s) ==
    /\ At(s, "lock")
    /\ \A r \in Locked : handler[r].agent # handler[s].agent
    /\ NoReader
    /\ incoming' = [incoming EXCEPT ![handler[s].agent] = s]
    /\ Goto(s, "connect")
    /\ UNCHANGED <<agentVars, ended, channel, push, closing, statusC, healthC>>

ReportConnected(s) ==
    /\ At(s, "connect")
    /\ PublishStatus(s, "connected")
    /\ Goto(s, "initial")
    /\ Ask(Call(s), Loaded)
    /\ UNCHANGED <<trackerVars, left, ended, incoming, channel, push, closing, healthC>>

\* The first GetHealth of the connection.
InitialHealth(s) ==
    /\ At(s, "initial")
    /\ Answered(Call(s))
    /\ handler' = [handler EXCEPT ![s].at = "publish", ![s].cur = Aggregate(Call(s))]
    /\ Forget(Call(s))
    /\ UNCHANGED <<trackerVars, left, ended, incoming, channel, push, closing, statusC, healthC>>

\* An update counts if it differs from the last one and is newer.
Consider(s, health) ==
    handler' = [handler EXCEPT ![s] =
                  IF ~Equal(health, @.cur) /\ NewerThan(health, @.cur)
                  THEN [@ EXCEPT !.at = "publish", !.cur = health]
                  ELSE [@ EXCEPT !.at = "loop"]]

\* Mutant: the timer is not set again once the health is known.
PollUntilKnown(s) ==
    /\ At(s, "loop")
    /\ s \notin ended /\ closing = "open"
    /\ handler[s].cur = NoHealth
    /\ Goto(s, "polling")
    /\ Ask(Call(s), Loaded)
    /\ UNCHANGED <<trackerVars, left, ended, incoming, channel, push, closing, statusC, healthC>>

\* The timer fires.  A poll whose context is done fails and changes nothing, and
\* one after Close is like one before.
Poll(s) ==
    /\ At(s, "loop")
    /\ s \notin ended /\ closing = "open"
    /\ Goto(s, "polling")
    /\ Ask(Call(s), Loaded)
    /\ UNCHANGED <<trackerVars, left, ended, incoming, channel, push, closing, statusC, healthC>>

PollAnswered(s) ==
    /\ At(s, "polling")
    /\ Answered(Call(s))
    /\ Consider(s, Aggregate(Call(s)))
    /\ Forget(Call(s))
    /\ UNCHANGED <<trackerVars, left, ended, incoming, channel, push, closing, statusC, healthC>>

\* GetHealth returns an error, because the stream has ended or the call failed.
GetHealthFails(s) ==
    /\ At(s, "initial") \/ At(s, "polling")
    /\ (s \in ended /\ UNCHANGED left) \/ Spend("faults")
    /\ Goto(s, "loop")
    /\ Forget(Call(s))
    /\ UNCHANGED <<trackerVars, ended, incoming, channel, push, closing, statusC, healthC>>

TakeUpdate(s) ==
    /\ At(s, "loop")
    /\ channel[s] # <<>>
    /\ channel' = [channel EXCEPT ![s] = Tail(@)]
    /\ Consider(s, Head(channel[s]))
    /\ UNCHANGED <<agentVars, ended, incoming, push, closing, statusC, healthC>>

Publish(s) ==
    /\ At(s, "publish")
    /\ PublishHealth(s, handler[s].cur)
    /\ Goto(s, "loop")
    /\ UNCHANGED <<agentVars, ended, incoming, channel, push, closing, statusC>>

\* Mutant: the loop does not look at the context.
LeaveOnClose(s) ==
    /\ At(s, "loop")
    /\ closing # "open"
    /\ Goto(s, "leaving")
    /\ UNCHANGED <<agentVars, ended, incoming, channel, push, closing, statusC, healthC>>

\* The context of the stream is done, or the listener is closed.
Leave(s) ==
    /\ At(s, "loop")
    /\ s \in ended \/ closing # "open"
    /\ Goto(s, "leaving")
    /\ UNCHANGED <<agentVars, ended, incoming, channel, push, closing, statusC, healthC>>

\* Mutant: the health of an agent that is gone stays what it was.
ReportOfflineNot(s) ==
    /\ At(s, "leaving")
    /\ Goto(s, "left")
    /\ UNCHANGED <<agentVars, ended, incoming, channel, push, closing, statusC, healthC>>

ReportOffline(s) ==
    /\ At(s, "leaving")
    /\ PublishHealth(s, Offline)
    /\ Goto(s, "left")
    /\ UNCHANGED <<agentVars, ended, incoming, channel, push, closing, statusC>>

ReportDisconnected(s) ==
    /\ At(s, "left")
    /\ PublishStatus(s, "disconnected")
    /\ Goto(s, "deregister")
    /\ UNCHANGED <<agentVars, ended, incoming, channel, push, closing, healthC>>

\* The last deferred calls: the channel is removed, lock and place are released.
Deregister(s) ==
    /\ At(s, "deregister")
    /\ NoReader
    /\ incoming' = [incoming EXCEPT ![handler[s].agent] = 0]
    /\ channel' = [channel EXCEPT ![s] = <<>>]
    /\ handler' = [handler EXCEPT ![s].at = "done", ![s].cur = NoHealth]
    /\ UNCHANGED <<agentVars, ended, push, closing, statusC, healthC>>

-----------------------------------------------------------------------------
(* Close. *)

Close ==
    /\ closing = "open"
    /\ Spend("closes")
    /\ closing' = "closed"
    /\ UNCHANGED <<trackerVars, query, handler, ended, incoming, channel, push, statusC, healthC>>

\* The goroutine of Close asks for the whole semaphore ...
CloseWaits ==
    /\ closing = "closed"
    /\ closing' = "waiting"
    /\ UNCHANGED <<agentVars, handler, ended, incoming, channel, push, statusC, healthC>>

\* Mutant: it closes the channels without it.
CloseChannelsEarly ==
    /\ closing = "waiting"
    /\ closing' = "shut"
    /\ UNCHANGED <<agentVars, handler, ended, incoming, channel, push, statusC, healthC>>

\* ... and closes the channels when it has it.
CloseChannels ==
    /\ closing = "waiting"
    /\ Holders = {}
    /\ closing' = "shut"
    /\ UNCHANGED <<agentVars, handler, ended, incoming, channel, push, statusC, healthC>>

-----------------------------------------------------------------------------
Answer(s) ==
    /\ \E p \in Loaded :
          List(Call(s), handler[s].agent, p) \/ LastModified(Call(s), handler[s].agent, p)
    /\ UNCHANGED listenerVars

PushStep ==
    \/ \E a \in Agents, p \in Loaded : NotifyListeners(a, p)
    \/ \E n \in Pushes :
          \/ /\ \/ List(PushCall(n), push[n].agent, Pusher)
                \/ LastModified(PushCall(n), push[n].agent, Pusher)
             /\ UNCHANGED listenerVars
          \/ UpdateHealth(n)

HandlerStep(s) ==
    \/ Answer(s) \/ Begin(s) \/ Acquire(s) \/ LockClient(s) \/ ReportConnected(s)
    \/ InitialHealth(s) \/ Poll(s) \/ PollAnswered(s) \/ GetHealthFails(s)
    \/ TakeUpdate(s) \/ Publish(s) \/ Leave(s) \/ ReportOffline(s)
    \/ ReportDisconnected(s) \/ Deregister(s)

CloseStep == CloseWaits \/ CloseChannels

Environment ==
    \/ /\ \E a \in Agents, p \in Loaded, k \in Keys :
             Clear(a, p, k) \/ \E status \in Statuses : Set(a, p, k, status)
       /\ UNCHANGED listenerVars
    \/ \E s \in Streams, p \in Loaded : PluginFails(Call(s), p) /\ UNCHANGED listenerVars
    \/ \E s \in Streams, a \in Agents : Connect(s, a)
    \/ \E s \in Streams : StreamEnds(s)
    \/ Close

ListenerNext ==
    PushStep \/ CloseStep \/ Environment \/ \E s \in Streams : HandlerStep(s)
=============================================================================
