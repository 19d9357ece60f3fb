----------------------------- MODULE AgentHealth -----------------------------
(***************************************************************************)
(* How an agent knows its health.                                          *)
(*                                                                         *)
(* Each plugin of an agent has a condition tracker; it is ready when no    *)
(* condition is set, and its health carries the time of the last change.   *)
(* The tracker stores a condition and the time of the change in two steps, *)
(* and GetHealth reads them in two steps.  The agent's Aggregator asks all *)
(* plugins at once and makes one health of the answers.                    *)
(*                                                                         *)
(* One call of Set or Clear per plugin is in progress at a time, and a     *)
(* change of a condition is a tick of the clock.                           *)
(***************************************************************************)
EXTENDS Naturals, FiniteSetsExt

CONSTANTS
    Agents,
    Plugins,  \* the plugins of an agent that report a health
    Keys,     \* the conditions of a tracker ("config Sync", "Backend")
    Streams,  \* calls of GetHealth by the gateway, one for each stream
    Pushes,   \* calls of GetHealth by a plugin that sends its own health
    Budgets   \* bound: the plugins that are loaded, whether they are ready at
              \* first, and how often each event of the environment may happen

ASSUME HealthAssumption ==
    /\ IsFiniteSet(Plugins) /\ Keys # {}
    /\ Streams \subseteq Nat \ {0} /\ Pushes \subseteq Nat
    /\ Budgets \subseteq
            [plugins : SUBSET Plugins, ready : BOOLEAN, changes : Nat, faults : Nat,
             streams : Nat, closes : Nat, watches : Nat, stops : Nat]

VARIABLES
    conds,    \* conds[a][p][k]: the status of condition k, or "none"
    storing,  \* the trackers that have a new condition but not its time yet
    modTime,  \* modTime[a][p]: when the tracker was last changed
    clock,
    query,    \* query[c][p]: what call c of GetHealth has of plugin p
    left      \* what is left of the budget

trackerVars == <<conds, storing, modTime, clock>>
agentVars == <<trackerVars, query, left>>

Statuses == {"Pending", "Failure"}

Callers == [by : {"stream"}, n : Streams] \cup [by : {"push"}, n : Pushes]

\* The zero time.Time comes before the Unix epoch, the time of a nil timestamp.
Never == 0
Epoch == 1
Start == 2

Unread == [at |-> "todo", list |-> {}, time |-> Never]
NoQuery == [p \in {} |-> Unread]

AgentInit ==
    /\ left \in Budgets
    /\ conds = [a \in Agents |-> [p \in Plugins |-> [k \in Keys |->
                  IF left.ready THEN "none" ELSE "Pending"]]]
    /\ storing = {}
    /\ modTime = [a \in Agents |-> [p \in Plugins |-> Start]]
    /\ clock = Start
    /\ query = [c \in Callers |-> NoQuery]

Loaded == left.plugins

Spend(event) ==
    /\ left[event] > 0
    /\ left' = [left EXCEPT ![event] = @ - 1]

-----------------------------------------------------------------------------
(* The condition tracker. *)

Change(a, p, k, status) ==
    /\ <<a, p>> \notin storing
    /\ conds' = [conds EXCEPT ![a][p][k] = status]
    /\ storing' = storing \cup {<<a, p>>}
    /\ Spend("changes")
    /\ UNCHANGED <<modTime, clock, query>>

\* A condition that is set keeps its status, and Pending, the zero value of a
\* status, is not stored.
Set(a, p, k, status) ==
    /\ conds[a][p][k] = "none"
    /\ status # "Pending"
    /\ Change(a, p, k, status)

Clear(a, p, k) ==
    /\ conds[a][p][k] # "none"
    /\ Change(a, p, k, "none")

\* The second half of Set and Clear; the listeners are told next.
StoreTime(a, p) ==
    /\ <<a, p>> \in storing
    /\ storing' = storing \ {<<a, p>>}
    /\ clock' = clock + 1
    /\ modTime' = [modTime EXCEPT ![a][p] = clock + 1]
    /\ UNCHANGED <<conds, left>>

-----------------------------------------------------------------------------
(* GetHealth. *)

Conditions(a, p) == {<<k, conds[a][p][k]>> : k \in {k \in Keys : conds[a][p][k] # "none"}}

Ask(c, plugins) == query' = [query EXCEPT ![c] = [p \in plugins |-> Unread]]

Forget(c) == query' = [query EXCEPT ![c] = NoQuery]

Reads(c, p, at) == p \in DOMAIN query[c] /\ query[c][p].at = at

List(c, a, p) ==
    /\ Reads(c, p, "todo")
    /\ query' = [query EXCEPT ![c][p].at = "listed", ![c][p].list = Conditions(a, p)]
    /\ UNCHANGED <<trackerVars, left>>

LastModified(c, a, p) ==
    /\ Reads(c, p, "listed")
    /\ query' = [query EXCEPT ![c][p].at = "done", ![c][p].time = modTime[a][p]]
    /\ UNCHANGED <<trackerVars, left>>

\* The aggregator cannot reach the plugin: a condition of its own, and no time.
PluginFails(c, p) ==
    /\ c.by = "stream"
    /\ Reads(c, p, "todo")
    /\ Spend("faults")
    /\ query' = [query EXCEPT ![c][p] =
                   [at |-> "done", list |-> {<<"plugin", "unavailable">>}, time |-> Never]]
    /\ UNCHANGED trackerVars

Answered(c) ==
    /\ DOMAIN query[c] # {}
    /\ \A p \in DOMAIN query[c] : query[c][p].at = "done"

\* The plugin's own health ...
NodeHealth(c, p) ==
    [ready |-> query[c][p].list = {}, list |-> {<<"", e>> : e \in query[c][p].list},
     time |-> query[c][p].time]

\* ... and the agent's, whose conditions name their plugin.  The comparison
\* given to MaxBy makes it choose the earliest time.
Aggregate(c) ==
    [ready |-> \A p \in Loaded : query[c][p].list = {},
     list  |-> UNION {{<<p, e>> : e \in query[c][p].list} : p \in Loaded},
     time  |-> Min({query[c][p].time : p \in Loaded})]

Equal(h, g) == h.ready = g.ready /\ h.list = g.list

NewerThan(h, g) == h.time > g.time
=============================================================================
