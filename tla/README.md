# A TLA+ model of opni

opni is a gateway that agents in many Kubernetes clusters connect to, with
plugins for metrics, logging, alerting and more. This directory models the parts
of it in which several processes, goroutines or stores have to agree: background
tasks, capability uninstallation, bootstrap, the cluster store and its watches,
agent health, and the streams of agents.

`PROJECT.json` holds the machine-readable side: the components, the runs, the
source lines each definition stands for, one mutant for every checked property,
the findings, the hazards and the theorems.

- [Inventory](#inventory)
- [Modules](#modules)
- [Runs, bounds and fairness](#runs-bounds-and-fairness)
- [Where code and comments disagree](#where-code-and-comments-disagree)
- [What the properties exempt](#what-the-properties-exempt)
- [Proofs](#proofs)
- [What is not modelled](#what-is-not-modelled)
- [Plan](#plan)

To repeat a run: `tlc -config Health.cfg MCHealth` (the module of each run is in
`PROJECT.json`). To repeat the proofs: `tlapm TaskControllerProofs.tla`, and the
same for `ClusterStoreProofs` and `AgentConnectionsProofs`.

## Inventory

| Part | Source | State | Operations | What makes it hard |
|---|---|---|---|---|
| Task controller | `pkg/task` | one persisted status per task id, a map of cancel functions | NewController, LaunchTask, CancelTask, the state machine and its runner callbacks | machines of one id share a status and are not waited for; crash and resumption; dropped errors |
| Capability backends | `plugins/{metrics,logging}/pkg` | deletion timestamp in the cluster store, task status in the task store | Install, Uninstall, CancelUninstall, the uninstall runner | two stores, no transaction; concurrent calls; crash in between |
| Bootstrap | `pkg/bootstrap`, `pkg/agent/v1`, `pkg/agent/v2` | tokens, clusters, keyrings, the agent's own keyring | Join, Auth (V1, V2), agent start and retry, DeleteCluster | three stores without a transaction; one mutex per server version; lost replies; deletion overtaking a call |
| Cluster store | `pkg/storage/etcd`, `pkg/storage/jetstream` | revisions, versions and values of keys | Create, Get, Update, Delete | optimistic concurrency, lost replies, retries |
| Watches | the same, `pkg/gateway/stream.go`, `pkg/management/clusters.go` | position in the history, event channel | WatchCluster, WatchClusters | the gap between reading and watching; deletion and re-creation |
| Health | `pkg/health` | conditions, current health and status, channels | Set, Clear, GetHealth, HandleConnection, UpdateHealth, Close, Run, WatchHealthStatus | polls race pushed updates; bounded channels filled under a lock; reconnects |
| Streams and calls | `pkg/gateway`, `pkg/clients` | maps of active agents behind RW mutexes | Connect, HandleAgentConnection, RequestSync, Request, Broadcast | read locks held during remote calls; overlapping streams of one agent |
| Management server | `pkg/management` | none of its own | DeleteCluster, WatchClusters, resolveClusters, EditCluster, tokens, RBAC | check, then act, on the stores |
| Token, keyring, role, KV and CRD stores | `pkg/storage` | entries with leases and revisions | create, update, delete | time to live across updates; conflicts |
| Plugin sync | `pkg/patch` | manifests, patch cache, plugin directory | compute and apply a patch plan | partial application |
| Node configuration sync | `plugins/*/pkg/agent` | current configuration, listeners | doSync, updateConfig | replies applied out of order; sends under a lock |
| Alerting, SLO, topology, AIOps | `plugins/` | configurations in other systems | synchronize, evaluate | thin layers over other services |
| Kubernetes controllers | `controllers`, `pkg/resources` | Kubernetes objects | Reconcile, finalizers | order of steps |

How they interact: an agent bootstraps (tokens, clusters, keyrings), then keeps a
stream to the gateway. For each stream the gateway watches the agent's cluster
and hands the stream to the health listener, the sync requester and the delegate
server. The management server reads health from the monitor, watches and deletes
clusters, and asks capability backends to install or uninstall; they mark the
cluster and launch a task.

## Modules

| Module | Models | Uses |
|---|---|---|
| `TaskController` | the task controller, for any runner | |
| `CapabilityUninstall` | metrics and logging backends with their runner | extends `TaskController` |
| `Bootstrap` | both Auth servers, the agents, DeleteCluster | |
| `ClusterStoreAPI` | what a cluster store promises: atomic operations | |
| `ClusterStore` | the etcd and JetStream stores | instantiates `ClusterStoreAPI` |
| `ClusterWatch` | the watches and their two consumers | extends `ClusterStore` |
| `AgentHealth` | condition trackers and the aggregator of an agent | |
| `HealthListener` | the gateway's listener | extends `AgentHealth` |
| `HealthMonitor` | the gateway's monitor and its watchers | |
| `Health` | the whole path of a health update | extends `HealthListener`, `HealthMonitor` |
| `AgentConnections` | streams, the maps of active agents, calls on them | |
| `MC*` | instances for TLC | extend the module they instantiate |
| `*Proofs` | theorems | extend the module they are about |

### TaskController

`status[id]` is the persisted `TaskStatus`; `tasks[id]` the entry of `c.tasks`.
A *machine* is one launch: `pc[m]` is where its goroutine is, `trigger` and
`dest` the transition being made. Each access to the store under the id's lock
is an action (`Activate`, `Fire`, `SetState`, `SetProgress`), and so is the
return of each runner callback (`PendingReturns`, `RunningReturns`,
`CompletedReturns`). `LaunchTask` holds `tasksMu` and is split at its store
accesses (`LaunchRead`, `LaunchLog`, `LaunchCreate`, `LaunchReset`). `Crash` may
come at any point, and `NewController` then resumes or cleans each stored task.
A write that reports an error may have been carried out, in a transition as in
`LaunchTask`. `unattended` records the ids whose status an error has left to no
goroutine: the code dropped the error, or `LaunchTask` returned it to its caller
after the status was stored. A launch that succeeds takes the id out. Log entries and the list of transitions are left
out; nothing reads them back.

### CapabilityUninstall

`cap[id]` is the capability, `"deleting"` when it has a deletion timestamp.
`Uninstall` is the steps read the cluster, read the task status, store the
timestamp, launch. `run[m]` is the position in `OnTaskRunning`. The two backends
have the same control flow and share the model; their differences (which
service deletes the data) are in what a call returns. `stranded` is a history
variable, which no guard reads: the ids whose timestamp a crash or an error of a
store has separated from its task, until a launch for them succeeds.

### Bootstrap

An Auth call moves through `call[n].at`, one value per store access. Call `n`
stands for the key pair it derives, so a keyring is a set of calls. The mutex of
a cluster id is kept per server version, as in the code, and DeleteCluster takes
none. A token starts with the clusters its operator made it for joining
(`MadeFor`), as CreateBootstrapToken stores them, and gains the cluster that is
created with it. Agents start, join, persist their key, connect, die and are restarted; a
store error, a lost reply or a death of the gateway may hit any step, and the
write that fails may have been carried out.

### ClusterStoreAPI, ClusterStore, ClusterWatch

`ClusterStore` keeps etcd's counters: the store's revision and the revision and
version of each key. `backend` is chosen initially, and actions differ where the
code does: etcd gives up after `Steps` attempts, JetStream retries for as long
as its context lives (`WithMaxRetries(0)`) and takes every error of an update
for a conflict. A failed access may or may not have taken effect.
`ClusterStoreAPI` has two forms, strict for etcd and loose for JetStream, which
may apply a mutator again after a lost reply. A call remembers how often it has
started over (`tries`) and the revision of the store when it was made (`since`).

`ClusterWatch` adds the history of the store, which watches replay, and two
consumers: the gateway's stream and a caller of WatchClusters with a mirror of
the store. The caller reads the clusters (`CallerReads`), passes references to
what it knows, and the management server resolves these to the versions current
by then (`ResolveKnown`), which need not be what the caller has; `missed` records
where they are not. `panicked` is the end of the process through a nil dereference.

### AgentHealth, HealthListener, HealthMonitor, Health

A tracker stores a condition and the time of its change in two steps and is read
in two steps. `handler[s]` is the goroutine of stream `s` in `HandleConnection`,
from the semaphore and the lock of the agent's id through its loop to its
deferred reports. `push[n]` is a health that the metrics plugin sends by itself;
it may block in `UpdateHealth` with the read lock held. `run` is the monitor's
loop, which holds the mutex while it sends to the watchers in `run.to`, and which
ends with the listener's channels (`StopRun`) or with its context (`ShutDown`).
All channels are bounded sequences.

### AgentConnections

`link[a]` is the stream the agent believes in, `conn[s]` the progress of
Connect: `GetCluster` and `WatchCluster` are steps of their own, and the cluster
may be deleted between them. A watch of etcd starts from the version that was
read and reports such a deletion; one of JetStream takes the delete marker for an
update, and the stream is `"unwatched"` from then on. `handler[s][v]` the goroutine of the stream in server `v` (`"sync"` or
`"delegate"`), `active[v][a]` the entry in its map. The mutexes have Go's
semantics: a waiting writer keeps new readers out, and a writer that is done
admits the waiting readers. `leaked` are servers whose mutex was never unlocked.
`overlapped` is a history variable that no guard reads.

## Runs, bounds and fairness

| Run | Expect | Shows |
|---|---|---|
| `task_controller` | pass | cancellation reaches every live machine; unfinished tasks have a goroutine and end; a restart keeps metadata and progress |
| `task_pending_error` | violation | an error of OnTaskPending leaves the task Pending |
| `capability` | pass | a deletion timestamp has a task or call that will settle it, and is settled |
| `capability_crash` | pass | the same with crashes and a store error at any point, save where these separate timestamp and task |
| `capability_not_found` | violation | a crash between timestamp and launch makes Uninstall refuse for ever |
| `bootstrap` | pass | keys agree and nobody joins a cluster without leave, with V1 and V2 calls overlapping and a failure or an expired token |
| `bootstrap_life` | pass | an agent is denied at most once, a creator's key stays, undisturbed agents connect |
| `bootstrap_delete` | violation | DeleteCluster during Auth leaves a keyring behind |
| `cluster_watch` | pass | both stores implement `ClusterStoreAPI`; watches miss nothing; streams of deleted clusters end; an update is tried again only after it was overtaken |
| `watch_prev_kv` | violation | a re-created cluster gives an event without a previous value |
| `health` | pass | statuses alternate, the last health is right, Close is safe, watchers follow, updates go on until Run ends |
| `agent_connections` | pass | no dead entries, connected agents are reachable, calls and goroutines end |

The bounds, and why they suffice for what is asked:

- **Tasks.** One id, since ids share only `tasksMu`; two launches per process
  life, the least with which machines overlap (three in `capability`, for a
  superseded, a canceled and a live task); two crashes, so that a resumption is
  interrupted; one store error.
- **Bootstrap.** Three agents, two of V1 and one of V2. In `bootstrap` all are for one
  cluster, with two tokens, one of which was made for joining that cluster; in
  `bootstrap_life` the V1 agents share a token and a cluster and the V2 agent has a
  cluster of its own. Both runs also pass, too slowly to be kept, with every choice
  of `MadeFor` (11.4 and 1.1 million states). Four calls let one agent retry while the others are in
  progress. At most one token expires or is revoked, at any point of a call,
  while the other stays. `bootstrap` has one failure and no deletion, `bootstrap_life` one
  deletion and no failure; the two together are not checked.
- **Store and watch.** One key, since keys share only the revision counter; two
  clients; four calls allow create, delete, create and an update in progress.
  Two attempts make etcd give up. Channels of two fill up. Mutators append the
  client's name, so a lost or repeated update shows.
- **Health and connections.** One run would be too large for all kinds of trouble
  at once, so the initial state chooses a *budget* that says how often each kind
  may happen: updates against polls, a reconnect, failures, Close, a watch, a watch
  while Run ends; for connections reconnects, two calls, deletion with a failure
  (with either backend, which behave alike otherwise), a broadcast. What
  needs two budgets at once is not explored. Health has one agent with two
  streams, so what agents do to each other through the shared channels, the
  listener's lock and the semaphore (which two streams do not fill) is not
  explored either. The channels have capacity one
  or two, where the code has 10 to 1000, so that they fill up. The two servers of
  `AgentConnections` share nothing but streams and are checked one at a time.

No run uses symmetry: those that check liveness could not, and the others are
small. Deadlock checking is off throughout because each model may stop when its
bounds are used up; that everything ends is what the liveness properties say.

Fairness:

- **Weak fairness of goroutines and handlers**, everywhere: Go's scheduler runs
  what is runnable. Callbacks, RPCs and the data store are taken to answer.
- **Restart** of a process that died (`NewController`, agents): a supervisor,
  Kubernetes in practice, restarts it.
- **Strong fairness of Auth steps** (`Bootstrap`): a goroutine that waits for a
  mutex gets it in the end, which `sync.Mutex` ensures with its starvation mode.
- **Keepalives** find broken streams (`AgentConnections`).
- **Callers of a watch read** until they cancel (`Health`).
- Clients, operators, failures and crashes have no fairness.

## Where code and comments disagree

Four runs expect a violation, each of a statement quoted from the repository:

1. `pkg/task/types.go:56` says that an error of OnTaskPending fails the task. The
   state machine permits only Start and Cancel in Pending, the error of the
   refused trigger is dropped, and the task stays Pending.
2. `plugins/metrics/pkg/backend/metrics.go:203` says "not found, ok to reset". The
   switch that follows has no case for a status that was not found and takes the
   default, which refuses.
3. `pkg/management/clusters.go:49` deletes "the cluster's keyring, if it exists".
   An Auth call in progress can store it afterwards.
4. `pkg/storage/etcd/cluster_store.go:204` says that PrevKv is always set. The put
   that creates a deleted cluster again has none.

## What the properties exempt

Several passing properties name an exception, because without it the code does
not keep them. These are as much a result as the properties:

- `NoOrphanedTask`, `TasksFinish`: tasks in `unattended`. After a store error in a
  transition, an error of OnTaskPending, or a Put of LaunchTask that was carried
  out and reported an error all the same (`pkg/task/controller.go:299` and `:346`), a
  task stays unfinished until it is launched again or the process restarts.
- `TimestampHasTask`, `UninstallSettles`: those tasks; timestamps in `stranded`, which
  stay behind after an error that Uninstall returns or OnTaskCompleted only logs,
  or a crash while the task is not saved as Pending or Running; and a superseded
  task that stores Completed over the Pending of its successor, which then ends
  without running.
- `ClusterHasKeyring`, `EveryAgentConnects`: any failure, deletion or expired
  token. A failure between CreateCluster and the keyring leaves a cluster that
  V2 agents can neither join (AlreadyExists) nor authenticate with.
- `KeysAgree`, `JoinsWithLeave`, `DeniedOnce`: histories with a deletion.
- `DeletionEndsStream`, `StreamsCleanUp`: JetStream watches that start after the
  deletion; they take the delete marker for an update, and the stream and its
  entries stay.
- `MirrorFollows`: clusters that changed between the caller's own read and the
  resolution of its references, whose change is not reported, and those deleted
  between that and the list, whose deletion is not. Their next event ends the
  exemption.
- `RetriesPaid` bounds the retries of an update by the writes that overtook it. It
  does not say that every update gets through: with rivals that never stop,
  JetStream retries for ever and etcd gives up.
- `HandlersLeave`, `HealthArrives`: `UpdateHealth` blocked on the channel of a
  handler that waits for the lock `UpdateHealth` holds (`pkg/health/listener.go:265`),
  a jammed monitor, and a monitor whose Run has ended.
- `HealthArrives`: a health dated no later than the last. `MaxBy` with `Before`
  (`pkg/health/aggregator.go:116`) picks the *earliest* time of all plugins, so with
  two plugins a change may never be seen as newer.
- `RunGoesOn`: the monitor sending, with its mutex held, to a canceled watcher that
  needs the mutex to leave (`pkg/health/monitor.go:87`).
- `WatchFollows`: agents without a health; the initial reports skip them.
- `ConnectedIsReachable`: agents whose streams overlapped in a server. The end of
  the older stream removes the entry of the newer (`pkg/gateway/delegate.go:76`, and
  the sync requester likewise).
- `CallsReturn`, `StreamsCleanUp`: a leaked mutex. HandleAgentConnection returns
  without unlocking when GetCluster fails (`pkg/gateway/delegate.go:62`).

Met while modelling and not stated as a property: RequestSync with an empty id
asks one agent only (`pkg/gateway/sync.go:96`); Broadcast, "best-effort" in
`stream.proto`, fails as a whole with one target; `Set` on a condition that is
set already ignores the new status; OnTaskCompleted of a canceled task clears
the timestamp of a newer uninstall; Connect reads the list of remotes without
the mutex AddRemote takes (`pkg/gateway/stream.go:80`); the goroutine of an etcd
watch can block for ever on a channel whose reader is gone.

## Proofs

TLAPS proves these for all values of the constants that satisfy the `ASSUME` of
the module: any number of ids, clusters, clients, agents, streams, calls,
crashes and faults. The assumptions say that bounds are natural numbers and that
placeholders such as 0 and `"none"` are not ids. They are evaluated by TLC.

| Theorem | States |
|---|---|
| `TaskControllerProofs!TypeCorrect` | `Spec => []TypeOK` |
| `TaskControllerProofs!CancelReaches` | `Spec => []CancelReachesLiveTask` |
| `TaskControllerProofs!NoOrphans` | `Spec => []NoOrphanedTask` |
| `ClusterStoreProofs!StoreRefinesAPI` | `StoreSpec => ImplementsStoreAPI` |
| `ClusterStoreProofs!RetriesArePaid` | `StoreSpec => []RetriesPaid` |
| `AgentConnectionsProofs!TypeCorrect` | `Spec => []TypeOK` |
| `AgentConnectionsProofs!NoDeadEntry` | `Spec => []EntryHasHandler` |
| `AgentConnectionsProofs!Reachability` | `Spec => []ConnectedIsReachable` |

**Tasks.** `StructInv` adds to the types that machines are allocated in order and
have an owner, and that the launch in progress owns a machine that is not yet
active. `CancelReachesLiveTask` is inductive relative to it. `NoOrphanedTask` is
not: it must be known that the machine of an unfinished task will really make a
transition. `OrphanInv` says so: triggers fire in the order the states permit
(`FiresInOrder`), each unfinished task has a machine at a point from which it
still moves the status (`Driven`), a launch that ignored an error has been recorded
as such (`LogUnattended`), a launch of NewController is for an id it will come back
to if the launch fails (`LaunchResumes`), and resumption is over when the process
is up.

**Cluster store.** The refinement needs `CopyCurrent`: while the key still has the
revision a call has read, it holds the value the call has read. This follows
from revisions only growing (`RevBound`). Each step is then a step of the API or
leaves what a caller sees unchanged. The theorem is about `StoreSpec`; that the
composed `ClusterWatch` takes only these store steps is checked by TLC, which
checks `ImplementsStoreAPI` of the composition.

`RetriesPaid` compares the retries with what the key has gained by now, and a step
that starts over increases them while the key stays as it is. `Paid` says why that
is covered: a call that has read its key has paid with the revisions up to the one
it read, and if the key has another revision by now, that one is larger and was
not used yet. Only the comparison that refuses it makes the call start over, so
the new revision pays.

**Connections.** `ConnectedIsReachable` is not inductive because a stream that ends
removes its agent whatever stream the map has. `MeetingRecorded` closes the gap:
two streams of one agent in a server at the same time are both recorded as
overlapped. `OwnersKnown` says that streams have an owner before they have
goroutines.

**Model-checked only.** All liveness properties, since the prover does not handle
fairness or `ENABLED`; the action properties `ResumeKeepsMetadata` and
`ResumeKeepsProgress`; everything about bootstrap,
capabilities, watches and health.

## What is not modelled

- Cryptography: key exchange, MACs, signatures. A key is a value that two sides
  share or do not.
- Time: intervals of polls and backoffs, except for the order of timestamps of
  health, and expiry of a token as an event.
- More than one gateway process. The code's locks are local to a process
  (`pkg/bootstrap/server_v2.go:113`), so the results do not extend to several.
- The plugin system, HTTP, proxies, the command line, the web interface, generated
  code and the test environment: input and output, or no protocol of their own.
- The parts in the plan below, for the time being. By volume most of the
  repository is among these: the Kubernetes resources, alerting, and the
  query-side of the plugins.

## Plan

In this order; later steps need the earlier ones or matter less.

1. **Plugin sync**: manifests, patch plan and its application as operators against
   a reference (applying the plan gives the gateway's set of plugins), and the
   client's steps with a failure between any two.
2. **Configuration sync** of the metrics, logging and topology nodes: replies
   applied out of order, sends under `configMu`.
3. **Management server** as operators with reference definitions: resolveClusters
   by name (including its index of -1), EditCluster over a stale version, role lookup;
   DeleteCluster against Install, composing `Bootstrap` and `CapabilityUninstall`.
4. **Token, keyring and CRD stores**: time to live across updates; refinement of an
   atomic store, as for clusters.
5. **Alerting**: synchronization with the Alertmanagers, the evaluation loop.
6. **OpenSearch and Kubernetes reconcilers**: order of steps and finalizers.
7. **Proofs**: `ResumeKeepsMetadata`; `TimestampHasTask`; `KeysAgree`;
   `StatusAlternates` and `NoSendAfterClose`; `WatchFollows`.
