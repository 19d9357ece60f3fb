---------------------------- MODULE ClusterWatch ----------------------------
(***************************************************************************)
(* The watches of the cluster store and their two consumers.               *)
(*                                                                         *)
(* The gateway's StreamServer reads the cluster of an agent that connects, *)
(* starts WatchCluster from what it read and ends the stream when the      *)
(* watch context reports the deletion.  The management server's            *)
(* WatchClusters sends the difference to the clusters the caller knows     *)
(* already, then every event; its caller keeps a mirror of the store.      *)
(*                                                                         *)
(* A watch replays the history of the store, which the model keeps in log: *)
(* log[r] is the write that made revision r.  A nil dereference in a       *)
(* goroutine of a watch ends the gateway process (panicked).               *)
(***************************************************************************)
EXTENDS ClusterStore, SequencesExt

CONSTANTS
    Watchers,  \* the consumers considered, of "stream" and "list"
    EventBuf   \* capacity of the event channels (10 and 100 in the code)

ASSUME WatchAssumption == Watchers \subseteq {"stream", "list"} /\ EventBuf \in Nat \ {0}

VARIABLES
    log,       \* log[r]: key and version that revision r left
    watcher,   \* the consumer of this behaviour
    at,        \* its state
    target,    \* "stream": the cluster of the agent
    known,     \* known[id]: the revision the watch was started with, 0 if none
    initial,   \* jetstream: initial entries not yet handled
    next,      \* the first revision of log the watch has not handled
    eventC,    \* the event channel
    mirror,    \* "list": mirror[id], the revision the caller has seen, 0 if none
    missed,    \* clusters with a change the watch came too late for, and cannot tell
    panicked

watchVars == <<watcher, at, target, known, initial, next, eventC, mirror, missed, panicked>>
vars == <<storeVars, log, watchVars>>

None == [id \in Clusters |-> 0]

Init ==
    /\ StoreInit
    /\ log = <<>>
    /\ watcher \in Watchers
    /\ at = "off"
    /\ target \in Clusters
    /\ known = None /\ mirror = None
    /\ initial = {} /\ missed = {}
    /\ next = 1
    /\ eventC = <<>>
    /\ panicked = FALSE

Present == {id \in Clusters : version[id] # 0}

-----------------------------------------------------------------------------
\* Every write of the store becomes part of the history.
Logged(step) ==
    /\ ~panicked
    /\ step
    /\ log' = IF rev' = rev THEN log
              ELSE LET id == CHOOSE i \in Clusters : modRev'[i] = rev'
                   IN  Append(log, [id |-> id, version |-> version'[id]])
    /\ UNCHANGED watchVars

\* The next event of the watch: the stream watches one key, the list all.
Watched(r) == r >= next /\ (watcher = "list" \/ log[r].id = target)
HasEvent == \E r \in 1..Len(log) : Watched(r)
NextEvent == CHOOSE r \in 1..Len(log) : Watched(r) /\ \A q \in 1..r-1 : ~Watched(q)

Send(type, id, r) ==
    /\ Len(eventC) < EventBuf
    /\ eventC' = Append(eventC, [type |-> type, id |-> id, rev |-> r])

Panic ==
    /\ panicked' = TRUE
    /\ UNCHANGED <<eventC, known>>

-----------------------------------------------------------------------------
(* The stream. *)

\* The cluster of the stream was deleted after Connect read it.
Deleted == \E r \in known[target]+1..Len(log) : log[r].id = target /\ log[r].version = 0

\* StreamServer.Connect reads the cluster ...
StreamGet ==
    /\ watcher = "stream" /\ at = "off"
    /\ version[target] # 0
    /\ at' = "got"
    /\ known' = [None EXCEPT ![target] = modRev[target]]
    /\ UNCHANGED <<watcher, target, initial, next, eventC, mirror, missed, panicked>>

\* Mutant: the watch starts with the next write instead of after the read.
WatchClusterNow ==
    /\ watcher = "stream" /\ at = "got"
    /\ at' = "watching"
    /\ eventC' = <<>> /\ initial' = {}
    /\ next' = rev + 1
    /\ UNCHANGED <<watcher, target, known, mirror, missed, panicked>>

\* ... and starts the watch: etcd at the revision after the one it read,
\* jetstream with the last entry of the key.
WatchCluster ==
    /\ watcher = "stream" /\ at = "got"
    /\ at' = "watching"
    /\ eventC' = <<>>
    /\ \/ /\ backend = "etcd"
          /\ next' = known[target] + 1
          /\ initial' = {}
          /\ UNCHANGED missed
       \/ /\ backend = "jetstream"
          /\ next' = rev + 1
          /\ initial' = {modRev[target]}
          /\ missed' = IF Deleted THEN {target} ELSE {}
    /\ UNCHANGED <<watcher, target, known, mirror, panicked>>

\* jetstream's initial loop: any entry but the one that was read, a delete
\* marker included, is sent as an update.
StreamInitial ==
    /\ watcher = "stream" /\ at \in {"watching", "done"}
    /\ \E r \in initial :
          IF r = known[target] THEN UNCHANGED eventC ELSE Send("UPDATE", target, r)
    /\ initial' = {}
    /\ UNCHANGED <<watcher, at, target, known, next, mirror, missed, panicked>>

EventType(r) == IF log[r].version = 0 THEN "DELETE" ELSE "UPDATE"

\* The goroutine of etcd's WatchCluster handles one event.  It reads the previous
\* value, and the event of a key that is created has none.
EtcdStreamEvent ==
    /\ backend = "etcd"
    /\ watcher = "stream" /\ at \in {"watching", "done"}
    /\ HasEvent
    /\ next' = NextEvent + 1
    /\ \/ log[NextEvent].version = 1 /\ Panic
       \/ /\ log[NextEvent].version # 1
          /\ Send(EventType(NextEvent), target, NextEvent)
          /\ UNCHANGED <<known, panicked>>
    /\ UNCHANGED <<watcher, at, target, initial, mirror, missed>>

\* The goroutine of jetstream's WatchCluster keeps the previous value itself.
JetStreamStreamEvent ==
    /\ backend = "jetstream"
    /\ watcher = "stream" /\ at \in {"watching", "done"}
    /\ initial = {}
    /\ HasEvent
    /\ next' = NextEvent + 1
    /\ Send(EventType(NextEvent), target, NextEvent)
    /\ UNCHANGED <<watcher, at, target, known, initial, mirror, missed, panicked>>

\* watchContext.watch: a delete event ends the context.
WatchContext ==
    /\ watcher = "stream" /\ at = "watching"
    /\ eventC # <<>>
    /\ eventC' = Tail(eventC)
    /\ at' = IF Head(eventC).type = "DELETE" THEN "done" ELSE at
    /\ UNCHANGED <<watcher, target, known, initial, next, mirror, missed, panicked>>

\* The agent closes the stream.
StreamCanceled ==
    /\ watcher = "stream" /\ at = "watching"
    /\ at' = "done"
    /\ UNCHANGED <<watcher, target, known, initial, next, eventC, mirror, missed, panicked>>

\* Connect returns, which ends the goroutine of the watch.
StreamEnds ==
    /\ watcher = "stream" /\ at = "done"
    /\ at' = "off"
    /\ known' = None /\ initial' = {} /\ next' = 1 /\ eventC' = <<>>
    /\ UNCHANGED <<watcher, target, mirror, missed, panicked>>

-----------------------------------------------------------------------------
(* The list. *)

\* A caller that has read some of the clusters ...
CallerReads(ids) ==
    /\ watcher = "list" /\ at = "off"
    /\ at' = "listed"
    /\ mirror' = [id \in Clusters |-> IF id \in ids THEN modRev[id] ELSE 0]
    /\ UNCHANGED <<watcher, target, known, initial, next, eventC, missed, panicked>>

\* ... sends references to them, and resolveClusters reads the clusters
\* again, one after the other; it is one step here because no two reads are compared.
\* What has changed since the caller read it is never reported to it; the call
\* fails if one of the clusters is gone.
ResolveKnown ==
    LET ids == {id \in Clusters : mirror[id] # 0} IN
    /\ watcher = "list" /\ at = "listed"
    /\ \/ /\ ids \subseteq Present
          /\ at' = "got"
          /\ known' = [id \in Clusters |-> IF id \in ids THEN modRev[id] ELSE 0]
          /\ missed' = {id \in ids : mirror[id] # modRev[id]}
          /\ UNCHANGED mirror
       \/ /\ ~(ids \subseteq Present)
          /\ at' = "off"
          /\ mirror' = None
          /\ UNCHANGED <<known, missed>>
    /\ UNCHANGED <<watcher, target, initial, next, eventC, panicked>>

\* Mutant: clusters that are known are taken to be up to date.
InitialEventsUnknown ==
    LET ids == SetToSeq({id \in Present : known[id] = 0})
    IN  [i \in DOMAIN ids |-> [type |-> "PUT", id |-> ids[i], rev |-> modRev[ids[i]]]]

\* What WatchClusters sends before the first event of the watch: a create for
\* each cluster that is not known, an update for each that has changed.
InitialEvents ==
    LET ids == SetToSeq({id \in Present : known[id] # modRev[id]})
    IN  [i \in DOMAIN ids |-> [type |-> IF known[ids[i]] = 0 THEN "PUT" ELSE "UPDATE",
                               id |-> ids[i], rev |-> modRev[ids[i]]]]

\* Mutant: the watch starts one revision late.
WatchClustersLate ==
    /\ watcher = "list" /\ at = "got"
    /\ at' = "watching"
    /\ next' = rev + 2
    /\ eventC' = InitialEvents
    /\ UNCHANGED <<watcher, target, known, missed, initial, mirror, panicked>>

\* The watch starts at the revision of the list.  A known cluster that is gone
\* is not reported.  jetstream goes on with the map of the known clusters.
WatchClusters ==
    /\ watcher = "list" /\ at = "got"
    /\ at' = "watching"
    /\ next' = rev + 1
    /\ eventC' = InitialEvents
    /\ known' = IF backend = "etcd" THEN known
                ELSE [id \in Clusters |-> IF version[id] # 0 THEN modRev[id] ELSE known[id]]
    /\ missed' = missed \cup {id \in Clusters : known[id] # 0 /\ version[id] = 0}
    /\ UNCHANGED <<watcher, target, initial, mirror, panicked>>

\* The goroutine of etcd's WatchClusters.
EtcdListEvent ==
    /\ backend = "etcd"
    /\ watcher = "list" /\ at = "watching"
    /\ HasEvent
    /\ next' = NextEvent + 1
    /\ Send(IF log[NextEvent].version = 1 THEN "PUT" ELSE EventType(NextEvent),
            log[NextEvent].id, NextEvent)
    /\ UNCHANGED <<watcher, at, target, known, initial, mirror, missed, panicked>>

\* The goroutine of jetstream's WatchClusters.  It takes the previous value of a
\* deleted cluster from its map, and reads the id of what it finds there.
JetStreamListEvent ==
    /\ backend = "jetstream"
    /\ watcher = "list" /\ at = "watching"
    /\ HasEvent
    /\ next' = NextEvent + 1
    /\ LET r == NextEvent  id == log[r].id IN
       \/ /\ log[r].version # 0
          /\ Send(IF known[id] = 0 THEN "PUT" ELSE "UPDATE", id, r)
          /\ known' = [known EXCEPT ![id] = r]
          /\ UNCHANGED panicked
       \/ /\ log[r].version = 0 /\ known[id] # 0
          /\ Send("DELETE", id, r)
          /\ known' = [known EXCEPT ![id] = 0]
          /\ UNCHANGED panicked
       \/ /\ log[r].version = 0 /\ known[id] = 0
          /\ Panic
    /\ UNCHANGED <<watcher, at, target, initial, mirror, missed>>

\* Management's WatchClusters sends the event on, and its caller applies it.
MirrorEvent ==
    /\ watcher = "list" /\ at = "watching"
    /\ eventC # <<>>
    /\ LET e == Head(eventC) IN
          /\ mirror' = [mirror EXCEPT ![e.id] = IF e.type = "DELETE" THEN 0 ELSE e.rev]
          /\ missed' = missed \ {e.id}
    /\ eventC' = Tail(eventC)
    /\ UNCHANGED <<watcher, at, target, known, initial, next, panicked>>

-----------------------------------------------------------------------------
WatchStep ==
    \/ StreamInitial \/ EtcdStreamEvent \/ JetStreamStreamEvent
    \/ EtcdListEvent \/ JetStreamListEvent

ConsumerStep ==
    \/ WatchCluster \/ WatchContext \/ StreamEnds
    \/ ResolveKnown \/ WatchClusters \/ MirrorEvent

\* A step of the watch or of its consumer, which leave the store alone.
Watching(step) == ~panicked /\ step /\ UNCHANGED <<storeVars, log>>

Next ==
    \/ Logged(StoreNext)
    \/ Watching(WatchStep)
    \/ Watching(ConsumerStep)
    \/ Watching(StreamGet \/ StreamCanceled)
    \/ Watching(\E ids \in SUBSET Present : CallerReads(ids))

Spec == Init /\ [][Next]_vars

\* The goroutines of watches and of their consumers are scheduled.
Fairness ==
    /\ WF_vars(Watching(WatchStep))
    /\ WF_vars(Watching(ConsumerStep))

FairSpec == Spec /\ Fairness

-----------------------------------------------------------------------------
(* Properties *)

Revs == 0..rev

Events == [type : {"PUT", "UPDATE", "DELETE"}, id : Clusters, rev : Revs]

\* Every variable stays within its type, and the history has one entry for each
\* revision.
TypeOK ==
    /\ backend \in Backends /\ watcher \in Watchers
    /\ rev = Len(log)
    /\ modRev \in [Clusters -> Revs] /\ version \in [Clusters -> Revs]
    /\ call \in [Clients -> [op : Ops \cup {"none"}, id : Clusters \cup {"none"},
                             at : {"idle", "called", "read"} \cup Results,
                             rev : Revs, tries : 0..(MaxCalls + MaxFaults),
                             since : Revs]]
    /\ calls \in 0..MaxCalls /\ faults \in 0..MaxFaults
    /\ at \in {"off", "listed", "got", "watching", "done"}
    /\ target \in Clusters /\ missed \subseteq Clusters
    /\ known \in [Clusters -> Revs] /\ mirror \in [Clusters -> Revs]
    /\ initial \subseteq Revs /\ next \in 1..rev+1
    /\ \A i \in DOMAIN eventC : eventC[i] \in Events
    /\ panicked \in BOOLEAN

\* When all events have been handled the caller of WatchClusters has seen what
\* the store holds: nothing is lost or reordered between the list and the watch,
\* with either way of telling a create from an update.  Exempt, until their next
\* event, are the clusters that changed between the caller's own read and the
\* resolution of its references, or were deleted between that and the list.
MirrorFollows ==
    watcher = "list" /\ at = "watching" /\ ~HasEvent /\ eventC = <<>> =>
        \A id \in Clusters \ missed :
            mirror[id] = IF version[id] # 0 THEN modRev[id] ELSE 0

\* The stream of a deleted cluster ends, also when the deletion comes between
\* the read and the watch, unless the watch is one of jetstream that started
\* after the deletion: it takes the delete marker for an update.
DeletionEndsStream ==
    (watcher = "stream" /\ at = "watching" /\ Deleted) ~>
        (at # "watching" \/ target \in missed \/ panicked)

\* What a comment in etcd's WatchCluster says: the version of an event is 0 or
\* more than 1, "therefore PrevKv will always be set".
PrevKvAlwaysSet ==
    watcher = "stream" /\ at = "watching" /\ HasEvent => log[NextEvent].version # 1
=============================================================================
