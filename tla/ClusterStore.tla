---------------------------- MODULE ClusterStore ----------------------------
(***************************************************************************)
(* The cluster stores of pkg/storage/etcd and pkg/storage/jetstream.       *)
(*                                                                         *)
(* Both keep clusters in a key-value store that counts revisions.  Create  *)
(* is a transaction, and UpdateCluster reads the cluster, applies the      *)
(* caller's mutator to the copy and stores it on condition that the key    *)
(* still has the revision that was read; otherwise it starts over.  They   *)
(* differ in three ways: etcd gives up after a number of attempts and      *)
(* returns an error of the store, jetstream takes any error of the store   *)
(* for a conflict and goes on; and jetstream's DeleteCluster is a read     *)
(* followed by an unconditional delete.                                    *)
(***************************************************************************)
EXTENDS Naturals

CONSTANTS
    Clusters,      \* cluster ids
    Clients,       \* concurrent callers
    Backends,      \* the backends considered, of "etcd" and "jetstream"
    Initial,       \* what a cluster holds when it is created
    Mutate(_, _),  \* Mutate(c, v): what the mutator of client c makes of v
    Steps,         \* defaultBackoff.Steps: attempts of an update in etcd
    MaxCalls,      \* bound: calls of all clients
    MaxFaults      \* bound: errors of the store

ASSUME StoreAssumption ==
    /\ Backends \subseteq {"etcd", "jetstream"}
    /\ Steps \in Nat \ {0} /\ MaxCalls \in Nat /\ MaxFaults \in Nat

VARIABLES
    backend,
    rev,      \* the revision of the store
    modRev,   \* modRev[id]: the revision of the last write to the key of id
    version,  \* version[id]: writes since the key was created, 0 if there is none
    data,     \* data[id]: what the key holds
    call,     \* call[c]: the call of client c
    saw,      \* saw[c]: the copy of the cluster that call works on
    calls, faults

kvVars == <<rev, modRev, version, data>>
storeVars == <<backend, kvVars, call, saw, calls, faults>>

Ops == {"create", "update", "delete"}
Results == {"ok", "exists", "notfound", "failed"}

\* rev is the revision that was read, tries how often the update has started over,
\* since the revision of the store at the time of the call.
NoCall == [op |-> "none", id |-> "none", at |-> "idle", rev |-> 0, tries |-> 0, since |-> 0]

StoreInit ==
    /\ backend \in Backends
    /\ rev = 0
    /\ modRev = [id \in Clusters |-> 0]
    /\ version = [id \in Clusters |-> 0]
    /\ data = [id \in Clusters |-> Initial]
    /\ call = [c \in Clients |-> NoCall]
    /\ saw = [c \in Clients |-> Initial]
    /\ calls = 0
    /\ faults = 0

-----------------------------------------------------------------------------
At(c, op, at) == call[c].op = op /\ call[c].at = at

\* The call returns, and what it has read is forgotten.
Return(c, result) ==
    call' = [call EXCEPT ![c].at = result, ![c].rev = 0, ![c].tries = 0, ![c].since = 0]

\* An update is tried again from the read on, after a delay.
StartOver(c) == call' = [call EXCEPT ![c].at = "called", ![c].tries = @ + 1]

Fault == faults < MaxFaults /\ faults' = faults + 1

\* A write by c has been made: c gets the reply, or an error because it is lost.
Reply(c, lost) ==
    \/ Return(c, "ok") /\ UNCHANGED faults
    \/ Return(c, lost) /\ Fault

Put(id, v) ==
    /\ rev' = rev + 1
    /\ modRev' = [modRev EXCEPT ![id] = rev + 1]
    /\ version' = [version EXCEPT ![id] = @ + 1]
    /\ data' = [data EXCEPT ![id] = v]

Delete(id) ==
    /\ rev' = rev + 1
    /\ modRev' = [modRev EXCEPT ![id] = rev + 1]
    /\ version' = [version EXCEPT ![id] = 0]
    /\ UNCHANGED data

Call(c, op, id) ==
    /\ call[c].at \notin {"called", "read"}
    /\ calls < MaxCalls
    /\ calls' = calls + 1
    /\ call' = [call EXCEPT ![c] =
                  [op |-> op, id |-> id, at |-> "called", rev |-> 0, tries |-> 0,
                   since |-> rev]]
    /\ UNCHANGED <<backend, kvVars, saw, faults>>

\* CreateCluster: a put on condition that the key has no version.
CreateCluster(c) ==
    LET id == call[c].id IN
    /\ At(c, "create", "called")
    /\ \/ /\ version[id] = 0
          /\ Put(id, Initial)
          /\ Reply(c, "failed")
       \/ /\ version[id] # 0
          /\ Return(c, "exists")
          /\ UNCHANGED <<kvVars, faults>>
    /\ UNCHANGED <<backend, saw, calls>>

\* GetCluster, as the first step of UpdateCluster and of jetstream's DeleteCluster.
GetCluster(c) ==
    LET id == call[c].id IN
    /\ At(c, "update", "called") \/ (At(c, "delete", "called") /\ backend = "jetstream")
    /\ \/ /\ version[id] = 0
          /\ Return(c, "notfound")
          /\ UNCHANGED saw
       \/ /\ version[id] # 0
          /\ call' = [call EXCEPT ![c].at = "read", ![c].rev = modRev[id]]
          /\ saw' = [saw EXCEPT ![c] = data[id]]
    /\ UNCHANGED <<backend, kvVars, calls, faults>>

\* Mutant: the key only has to exist.
UnmodifiedExists(c) == version[call[c].id] # 0

\* The comparison of the transaction.
Unmodified(c) == version[call[c].id] # 0 /\ modRev[call[c].id] = call[c].rev

\* The transaction of etcd's UpdateCluster.
EtcdUpdate(c) ==
    /\ backend = "etcd"
    /\ At(c, "update", "read")
    /\ \/ /\ Unmodified(c)
          /\ Put(call[c].id, Mutate(c, saw[c]))
          /\ Reply(c, "failed")
       \/ /\ ~Unmodified(c)
          /\ IF call[c].tries + 1 < Steps THEN StartOver(c) ELSE Return(c, "failed")
          /\ UNCHANGED <<kvVars, faults>>
    /\ UNCHANGED <<backend, saw, calls>>

\* Mutant: the copy is not read again after a conflict.
JetStreamUpdateStale(c) ==
    /\ backend = "jetstream"
    /\ At(c, "update", "read")
    /\ \/ /\ Unmodified(c)
          /\ Put(call[c].id, Mutate(c, saw[c]))
          /\ Return(c, "ok")
          /\ UNCHANGED faults
       \/ /\ ~Unmodified(c)
          /\ call' = [call EXCEPT ![c].tries = @ + 1]
          /\ UNCHANGED <<kvVars, faults>>
    /\ UNCHANGED <<backend, saw, calls>>

\* The update of jetstream's UpdateCluster; every error starts it over.
JetStreamUpdate(c) ==
    /\ backend = "jetstream"
    /\ At(c, "update", "read")
    /\ \/ /\ Unmodified(c)
          /\ Put(call[c].id, Mutate(c, saw[c]))
          /\ \/ Return(c, "ok") /\ UNCHANGED faults
             \/ StartOver(c) /\ Fault
       \/ /\ ~Unmodified(c)
          /\ StartOver(c)
          /\ UNCHANGED <<kvVars, faults>>
    /\ UNCHANGED <<backend, saw, calls>>

EtcdDelete(c) ==
    LET id == call[c].id IN
    /\ backend = "etcd"
    /\ At(c, "delete", "called")
    /\ \/ /\ version[id] # 0
          /\ Delete(id)
          /\ Reply(c, "failed")
       \/ /\ version[id] = 0
          /\ Return(c, "notfound")
          /\ UNCHANGED <<kvVars, faults>>
    /\ UNCHANGED <<backend, saw, calls>>

\* kv.Delete writes a delete marker, whatever the key holds by now.
JetStreamDelete(c) ==
    /\ backend = "jetstream"
    /\ At(c, "delete", "read")
    /\ Delete(call[c].id)
    /\ Reply(c, "failed")
    /\ UNCHANGED <<backend, saw, calls>>

\* A request fails without effect, or the context of the call ends.
StoreFails(c) ==
    /\ call[c].at \in {"called", "read"}
    /\ Fault
    /\ IF backend = "jetstream" /\ At(c, "update", "read") THEN StartOver(c)
       ELSE Return(c, "failed")
    /\ UNCHANGED <<backend, kvVars, saw, calls>>

ClientStep(c) ==
    \/ CreateCluster(c) \/ GetCluster(c) \/ EtcdUpdate(c) \/ JetStreamUpdate(c)
    \/ EtcdDelete(c) \/ JetStreamDelete(c)

StoreNext ==
    \E c \in Clients :
        \/ \E op \in Ops, id \in Clusters : Call(c, op, id)
        \/ ClientStep(c)
        \/ StoreFails(c)

StoreSpec == StoreInit /\ [][StoreNext]_storeVars

-----------------------------------------------------------------------------
(* Properties *)

\* What a client knows of its call: whether it is still running, or its result.
Visible(c) ==
    [op |-> call[c].op, id |-> call[c].id,
     at |-> IF call[c].at = "read" THEN "called" ELSE call[c].at]

API == INSTANCE ClusterStoreAPI WITH
    present <- {id \in Clusters : version[id] # 0},
    value   <- data,
    ret     <- [c \in Clients |-> Visible(c)],
    loose   <- (backend = "jetstream")

\* Read, mutate and compare-and-set amount to one atomic operation: no update
\* that was reported is lost, none is applied to a copy that is out of date or
\* to a cluster that was deleted and created again, and no call that was refused
\* leaves a trace.  etcd keeps the strict form of ClusterStoreAPI, jetstream the
\* loose one.
ImplementsStoreAPI == API!Spec

\* The revisions the key of c's call has gained since the call.
Gained(c) ==
    LET id == call[c].id
    IN  IF modRev[id] > call[c].since THEN modRev[id] - call[c].since ELSE 0

\* An update starts over only because it was overtaken: at most once for each
\* revision its key has gained since the call, and once for each error of the
\* store.  So among competing updates one always succeeds, and the update of a
\* cluster that nobody else writes to is made at the first attempt.  A client
\* whose rivals never stop can still be overtaken for ever (jetstream's update
\* has no limit) or give up (etcd's, after Steps attempts).
RetriesPaid ==
    \A c \in Clients : call[c].op = "update" => call[c].tries <= Gained(c) + faults
=============================================================================
