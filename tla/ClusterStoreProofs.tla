------------------------- MODULE ClusterStoreProofs -------------------------
(***************************************************************************)
(* Every implementation step of ClusterStore is a step of ClusterStoreAPI  *)
(* or changes nothing a caller can see, for any number of clusters,        *)
(* clients, attempts and faults and for every mutator.                     *)
(*                                                                         *)
(* The inductive invariant says why the comparison of revisions is enough: *)
(* revisions only grow, each write gives its key a revision nobody has     *)
(* read, so a key that still has the revision a call has read holds the    *)
(* value the call has read.                                                *)
(*                                                                         *)
(* The second theorem bounds the retries.  Its invariant says what a call  *)
(* that has read has already paid with, and that a key which has moved on  *)
(* since the read has a revision left to pay for one more.                 *)
(***************************************************************************)
EXTENDS ClusterStore, TLAPS

CallType ==
    [op : Ops \cup {"none"}, id : Clusters \cup {"none"},
     at : {"idle", "called", "read"} \cup Results, rev : Nat, tries : Nat, since : Nat]

Types ==
    /\ backend \in {"etcd", "jetstream"}
    /\ rev \in Nat
    /\ modRev \in [Clusters -> Nat]
    /\ version \in [Clusters -> Nat]
    /\ data = [id \in Clusters |-> data[id]]
    /\ saw = [c \in Clients |-> saw[c]]
    /\ call \in [Clients -> CallType]

\* A call that has not returned is one of the operations, and those are on a cluster.
Running(c) == call[c].at \in {"called", "read"}
CallsMade ==
    \A c \in Clients : /\ Running(c) => call[c].op \in Ops
                       /\ call[c].op \in Ops => call[c].id \in Clusters

\* No revision is ahead of the store's.
RevBound ==
    /\ \A id \in Clusters : modRev[id] <= rev
    /\ \A c \in Clients : call[c].rev <= rev

\* The copy of an update is what the key holds while the comparison succeeds.
CopyCurrent ==
    \A c \in Clients : At(c, "update", "read") /\ Unmodified(c) => saw[c] = data[call[c].id]

Inv == Types /\ CallsMade /\ RevBound /\ CopyCurrent

\* The call of c returns a, or starts over.
To(c, a) == (a \in Results /\ Return(c, a)) \/ (a = "called" /\ StartOver(c))

\* Returning and starting over set fields of one call, and keep its operation and cluster.
LEMMA ToFields ==
    ASSUME Types, NEW c \in Clients, NEW a \in {"called"} \cup Results, To(c, a)
    PROVE  /\ call' \in [Clients -> CallType]
           /\ \A d \in Clients \ {c} : call'[d] = call[d]
           /\ call'[c].op = call[c].op /\ call'[c].id = call[c].id /\ call'[c].at = a
           /\ a \in Results => call'[c].rev = 0 /\ call'[c].tries = 0 /\ call'[c].since = 0
           /\ a = "called" => /\ call'[c].rev = call[c].rev /\ call'[c].since = call[c].since
                              /\ call'[c].tries = call[c].tries + 1
  <1>t. call \in [Clients -> CallType] /\ call[c] \in CallType
    BY DEF Types
  <1>1. CASE a \in Results /\ Return(c, a)
    <2> DEFINE k == [call[c] EXCEPT !.at = a, !.rev = 0, !.tries = 0, !.since = 0]
    <2>1. call' = [call EXCEPT ![c] = k]
      BY <1>1 DEF Return
    <2>2. /\ k \in CallType /\ k.op = call[c].op /\ k.id = call[c].id /\ k.at = a
          /\ k.rev = 0 /\ k.tries = 0 /\ k.since = 0
      BY <1>t, <1>1 DEF CallType
    <2> HIDE DEF k
    <2>3. a # "called"
      BY <1>1 DEF Results
    <2>4. call'[c] = k /\ \A d \in Clients \ {c} : call'[d] = call[d]
      BY <1>t, <2>1
    <2>5. call' \in [Clients -> CallType]
      BY <1>t, <2>1, <2>2
    <2> QED BY <2>2, <2>3, <2>4, <2>5
  <1>2. CASE a = "called" /\ StartOver(c)
    <2> DEFINE n == call[c].tries + 1
               k == [call[c] EXCEPT !.at = "called", !.tries = n]
    <2>n. n \in Nat
      BY <1>t DEF CallType
    <2>1. call' = [call EXCEPT ![c] = k]
      BY <1>2 DEF StartOver
    <2>2. /\ k \in CallType /\ k.op = call[c].op /\ k.id = call[c].id /\ k.at = "called"
          /\ k.rev = call[c].rev /\ k.tries = n /\ k.since = call[c].since
      <3> HIDE DEF n
      <3> QED BY <1>t, <2>n DEF CallType
    <2> HIDE DEF k
    <2>3. a \notin Results
      BY <1>2 DEF Results
    <2>4. call'[c] = k /\ \A d \in Clients \ {c} : call'[d] = call[d]
      BY <1>t, <2>1
    <2>5. call' \in [Clients -> CallType]
      BY <1>t, <2>1, <2>2
    <2> QED BY <1>2, <2>2, <2>3, <2>4, <2>5
  <1> QED BY <1>1, <1>2 DEF To

\* The empty store satisfies the invariant.
LEMMA InvInit == ASSUME StoreInit PROVE Inv
  <1>1. NoCall \in CallType
    BY DEF NoCall, CallType
  <1>2. Types
    BY <1>1, StoreAssumption DEF StoreInit, Types
  <1>3. CallsMade /\ RevBound /\ CopyCurrent
    BY DEF StoreInit, CallsMade, Running, RevBound, CopyCurrent, At, NoCall, Ops
  <1> QED BY <1>2, <1>3 DEF Inv

\* What the steps of a call do to the calls of the others and to the store.
Others(c) == \A d \in Clients \ {c} : call'[d] = call[d] /\ saw'[d] = saw[d]

\* A step that writes one key at the next revision, or none.
Writes(id) ==
    /\ rev' = rev + 1
    /\ modRev' = [modRev EXCEPT ![id] = rev + 1]
    /\ \A i \in Clusters \ {id} : version'[i] = version[i] /\ data'[i] = data[i]

\* The key of a running call and every revision after a write: calls that had
\* read the key fail their comparison from now on.
LEMMA WriteKeeps ==
    ASSUME Inv, Types', CallsMade', NEW c \in Clients, NEW id \in Clusters,
           Writes(id), Others(c),
           call'[c].rev <= rev, call'[c].at # "read"
    PROVE  RevBound' /\ CopyCurrent'
  <1>1. \A i \in Clusters : modRev'[i] = (IF i = id THEN rev + 1 ELSE modRev[i])
    BY DEF Inv, Types, Writes
  <1>2. \A d \in Clients : call'[d].rev <= rev
    BY DEF Inv, RevBound, Others
  <1>3. RevBound'
    <2>1. \A i \in Clusters : modRev'[i] <= rev'
      BY <1>1 DEF Inv, Types, RevBound, Writes
    <2>2. \A d \in Clients : call'[d].rev \in Nat
      BY DEF Types, CallType
    <2>3. \A d \in Clients : call'[d].rev <= rev'
      BY <1>2, <2>2 DEF Inv, Types, Writes
    <2> QED BY <2>1, <2>3 DEF RevBound
  <1>4. CopyCurrent'
    <2> SUFFICES ASSUME NEW d \in Clients, At(d, "update", "read")', Unmodified(d)'
                 PROVE  saw'[d] = data'[call'[d].id]
      BY DEF CopyCurrent
    <2>1. d # c /\ call'[d] = call[d] /\ saw'[d] = saw[d]
      BY DEF At, Others
    <2>2. call[d].id \in Clusters
      BY <2>1 DEF Inv, CallsMade, Running, At
    <2>3. call[d].id # id
      <3>1. call[d].rev \in Nat /\ call[d].rev <= rev /\ rev \in Nat
        BY DEF Inv, Types, CallType, RevBound
      <3>2. modRev'[call[d].id] = call[d].rev
        BY <2>1 DEF Unmodified
      <3> QED BY <1>1, <2>2, <3>1, <3>2
    <2>4. At(d, "update", "read") /\ Unmodified(d)
      BY <1>1, <2>1, <2>2, <2>3 DEF At, Unmodified, Writes
    <2> QED BY <2>1, <2>2, <2>3, <2>4 DEF Inv, CopyCurrent, Writes
  <1> QED BY <1>3, <1>4

\* A step that leaves the store alone and gives its call no new copy.
LEMMA QuietKeeps ==
    ASSUME Inv, Types', CallsMade', NEW c \in Clients, UNCHANGED kvVars, Others(c),
           call'[c].rev <= rev, call'[c].at # "read"
    PROVE  RevBound' /\ CopyCurrent'
  <1>1. RevBound'
    <2>1. \A d \in Clients : call'[d].rev <= rev'
      BY DEF Inv, RevBound, Others, kvVars
    <2> QED BY <2>1 DEF Inv, RevBound, kvVars
  <1>2. CopyCurrent'
    <2> SUFFICES ASSUME NEW d \in Clients, At(d, "update", "read")', Unmodified(d)'
                 PROVE  saw'[d] = data'[call'[d].id]
      BY DEF CopyCurrent
    <2>1. d # c /\ call'[d] = call[d] /\ saw'[d] = saw[d]
      BY DEF At, Others
    <2> QED BY <2>1 DEF Inv, CopyCurrent, At, Unmodified, kvVars
  <1> QED BY <1>1, <1>2

\* A step of c that only moves its call to another place.
Moves(c) ==
    /\ \E a \in {"called"} \cup Results : To(c, a)
    /\ UNCHANGED <<backend, saw>>

\* Such a step keeps the types of the calls and those of the others.
LEMMA MovesKeeps ==
    ASSUME Inv, NEW c \in Clients, Running(c), Moves(c)
    PROVE  /\ call' \in [Clients -> CallType] /\ saw' = [d \in Clients |-> saw'[d]]
           /\ CallsMade' /\ Others(c)
           /\ call'[c].rev <= rev /\ call'[c].at # "read"
  <1>1. PICK a \in {"called"} \cup Results : To(c, a)
    BY DEF Moves
  <1>2. Types
    BY DEF Inv
  <1>4. call' \in [Clients -> CallType]
    BY <1>1, <1>2, ToFields
  <1>5. \A d \in Clients \ {c} : call'[d] = call[d]
    BY <1>1, <1>2, ToFields
  <1>6. /\ call'[c].op = call[c].op /\ call'[c].id = call[c].id /\ call'[c].at = a
        /\ call'[c].rev = call[c].rev \/ call'[c].rev = 0
    BY <1>1, <1>2, ToFields
  <1>7. CallsMade'
    BY <1>5, <1>6 DEF Inv, CallsMade, Running
  <1>8. Others(c)
    BY <1>5 DEF Others, Moves
  <1>9. saw' = [d \in Clients |-> saw'[d]]
    BY DEF Moves, Inv, Types
  <1> QED BY <1>4, <1>6, <1>7, <1>8, <1>9 DEF Inv, Types, RevBound, Results

KvTypes ==
    /\ rev \in Nat /\ modRev \in [Clusters -> Nat] /\ version \in [Clusters -> Nat]
    /\ data = [id \in Clusters |-> data[id]]

\* A put or a delete writes one key.
LEMMA PutDeleteWrite ==
    ASSUME Inv, NEW id \in Clusters, NEW v, Put(id, v) \/ Delete(id)
    PROVE  Writes(id) /\ KvTypes'
  <1>1. CASE Put(id, v)
    BY <1>1 DEF Inv, Types, Put, Writes, KvTypes
  <1>2. CASE Delete(id)
    BY <1>2 DEF Inv, Types, Delete, Writes, KvTypes
  <1> QED BY <1>1, <1>2

\* A step of a running call that moves it, and writes its key or nothing.
LEMMA CallStepKeeps ==
    ASSUME Inv, NEW c \in Clients, Running(c), Moves(c),
           \/ UNCHANGED kvVars
           \/ Delete(call[c].id)
           \/ \E v \in {Initial, Mutate(c, saw[c])} : Put(call[c].id, v)
    PROVE  Inv'
  <1>1. call[c].id \in Clusters
    BY DEF Inv, CallsMade
  <1>2. /\ call' \in [Clients -> CallType] /\ saw' = [d \in Clients |-> saw'[d]]
        /\ CallsMade' /\ Others(c)
        /\ call'[c].rev <= rev /\ call'[c].at # "read"
    BY MovesKeeps
  <1>3. backend' \in {"etcd", "jetstream"}
    BY DEF Moves, Inv, Types
  <1>4. CASE UNCHANGED kvVars
    <2>1. Types'
      BY <1>2, <1>3, <1>4 DEF Inv, Types, kvVars
    <2> QED BY <1>2, <1>4, <2>1, QuietKeeps DEF Inv
  <1>5. ASSUME NEW v, Put(call[c].id, v) \/ Delete(call[c].id) PROVE Inv'
    <2>1. Writes(call[c].id) /\ KvTypes'
      BY <1>1, <1>5, PutDeleteWrite
    <2>2. Types'
      BY <1>2, <1>3, <2>1 DEF Types, KvTypes
    <2> QED BY <1>1, <1>2, <2>1, <2>2, WriteKeeps DEF Inv
  <1> QED BY <1>4, <1>5

\* Every step of the store keeps the invariant.
LEMMA InvNext == ASSUME Inv, StoreNext PROVE Inv'
  <1> PICK c \in Clients :
         (\E op \in Ops, id \in Clusters : Call(c, op, id)) \/ ClientStep(c) \/ StoreFails(c)
    BY DEF StoreNext
  <1>t. call[c] \in CallType
    BY DEF Inv, Types
  <1>1. ASSUME NEW op \in Ops, NEW id \in Clusters, Call(c, op, id) PROVE Inv'
    <2> DEFINE k == [op |-> op, id |-> id, at |-> "called", rev |-> 0, tries |-> 0, since |-> rev]
    <2>1. k \in CallType
      BY DEF CallType, Inv, Types
    <2>2. call' = [call EXCEPT ![c] = k] /\ UNCHANGED <<backend, kvVars, saw>>
      BY <1>1 DEF Call
    <2> HIDE DEF k
    <2>3. call' \in [Clients -> CallType] /\ Types'
      BY <2>1, <2>2 DEF Inv, Types, kvVars
    <2>4. call'[c] = k /\ \A d \in Clients \ {c} : call'[d] = call[d]
      BY <2>2 DEF Inv, Types
    <2>5. k.op = op /\ k.id = id /\ k.at = "called" /\ k.rev = 0
      BY DEF k
    <2>6. CallsMade'
      BY <2>4, <2>5 DEF Inv, CallsMade, Running
    <2>7. Others(c)
      BY <2>2, <2>4 DEF Others
    <2>8. call'[c].rev <= rev /\ call'[c].at # "read"
      BY <2>4, <2>5 DEF Inv, Types
    <2> QED BY <2>2, <2>3, <2>6, <2>7, <2>8, QuietKeeps DEF Inv
  <1>2. CASE CreateCluster(c)
    BY <1>2, CallStepKeeps DEF CreateCluster, Reply, Running, At, Moves, To, Results
  <1>3. CASE GetCluster(c)
    <2>1. Running(c)
      BY <1>3 DEF GetCluster, At, Running
    <2>2. CASE Return(c, "notfound") /\ UNCHANGED saw
      BY <1>3, <2>1, <2>2, CallStepKeeps DEF GetCluster, Moves, To, Results
    <2>3. CASE /\ call' = [call EXCEPT ![c].at = "read", ![c].rev = modRev[call[c].id]]
               /\ saw' = [saw EXCEPT ![c] = data[call[c].id]]
      <3> DEFINE id == call[c].id
                 k == [call[c] EXCEPT !.at = "read", !.rev = modRev[id]]
      <3>1. id \in Clusters
        BY <2>1 DEF Inv, CallsMade
      <3>2. modRev[id] \in Nat /\ modRev[id] <= rev
        BY <3>1 DEF Inv, Types, RevBound
      <3>3. k \in CallType
        BY <1>t, <3>2 DEF CallType
      <3>4. k.op = call[c].op /\ k.id = id /\ k.at = "read" /\ k.rev = modRev[id]
        BY <1>t DEF CallType
      <3>5. call' = [call EXCEPT ![c] = k]
        BY <2>3
      <3> HIDE DEF k
      <3>6. UNCHANGED <<backend, kvVars>>
        BY <1>3 DEF GetCluster
      <3>7. /\ call' \in [Clients -> CallType] /\ call'[c] = k
            /\ \A d \in Clients \ {c} : call'[d] = call[d]
        BY <3>3, <3>5 DEF Inv, Types
      <3>8. /\ saw'[c] = data[id] /\ saw' = [d \in Clients |-> saw'[d]]
            /\ \A d \in Clients \ {c} : saw'[d] = saw[d]
        BY <2>3 DEF Inv, Types
      <3>9. Types'
        BY <3>6, <3>7, <3>8 DEF Inv, Types, kvVars
      <3>10. CallsMade'
        BY <2>1, <3>4, <3>7 DEF Inv, CallsMade, Running
      <3>11. RevBound'
        BY <3>2, <3>4, <3>6, <3>7 DEF Inv, RevBound, kvVars
      <3>12. CopyCurrent'
        BY <3>4, <3>6, <3>7, <3>8 DEF Inv, CopyCurrent, At, Unmodified, kvVars
      <3> QED BY <3>9, <3>10, <3>11, <3>12 DEF Inv
    <2> QED BY <1>3, <2>2, <2>3 DEF GetCluster
  <1>4. CASE EtcdUpdate(c)
    BY <1>4, CallStepKeeps DEF EtcdUpdate, Reply, Running, At, Moves, To, Results
  <1>5. CASE JetStreamUpdate(c)
    BY <1>5, CallStepKeeps DEF JetStreamUpdate, Reply, Running, At, Moves, To, Results
  <1>6. CASE EtcdDelete(c)
    BY <1>6, CallStepKeeps DEF EtcdDelete, Reply, Running, At, Moves, To, Results
  <1>7. CASE JetStreamDelete(c)
    BY <1>7, CallStepKeeps DEF JetStreamDelete, Reply, Running, At, Moves, To, Results
  <1>8. CASE StoreFails(c)
    BY <1>8, CallStepKeeps DEF StoreFails, Running, Moves, To, Results
  <1> QED BY <1>1, <1>2, <1>3, <1>4, <1>5, <1>6, <1>7, <1>8 DEF ClientStep

-----------------------------------------------------------------------------
Ret == [c \in Clients |-> Visible(c)]
Existing == {id \in Clusters : version[id] # 0}

\* A running call that moves is seen to return, or to go on, by its client only.
LEMMA MoveSeen ==
    ASSUME Inv, NEW c \in Clients, NEW a \in {"called"} \cup Results, To(c, a)
    PROVE  Ret' = [Ret EXCEPT ![c].at = a]
  <1>1. Types
    BY DEF Inv
  <1>2. \A d \in Clients \ {c} : call'[d] = call[d]
    BY <1>1, ToFields
  <1>3. call'[c].op = call[c].op /\ call'[c].id = call[c].id /\ call'[c].at = a
    BY <1>1, ToFields
  <1>4. \A d \in Clients \ {c} : Visible(d)' = Visible(d)
    BY <1>2 DEF Visible
  <1>5. Visible(c)' = [Visible(c) EXCEPT !.at = a]
    BY <1>3 DEF Visible, Results
  <1>6. Ret[c] = Visible(c)
    BY DEF Ret
  <1> QED BY <1>4, <1>5, <1>6 DEF Ret

\* A put adds its key to those that exist, a delete takes it out.
LEMMA WriteSeen ==
    ASSUME Inv, NEW id \in Clusters, NEW v
    PROVE  /\ Put(id, v) => Existing' = Existing \cup {id}
                             /\ data' = [data EXCEPT ![id] = v]
           /\ Delete(id) => Existing' = Existing \ {id} /\ data' = data
  BY DEF Inv, Types, Put, Delete, Existing

\* Initially the store is empty and nobody has called.
LEMMA InitSeen == ASSUME StoreInit PROVE API!Init
  BY DEF StoreInit, API!Init, API!NoCall, Visible, NoCall

\* The state of ClusterStoreAPI that a state of the store stands for.
LEMMA Seen ==
    /\ API!apiVars = <<Existing, data, Ret, (backend = "jetstream")>>
    /\ \A c \in Clients : Ret[c].op = call[c].op /\ Ret[c].id = call[c].id
    /\ \A c \in Clients : Running(c) => Ret[c].at = "called"
  BY DEF API!apiVars, Existing, Ret, Visible, Running

\* Every step is a step of the API, or nothing that a caller can see.
LEMMA StepSeen == ASSUME Inv, StoreNext PROVE API!Next \/ UNCHANGED API!apiVars
  <1> PICK c \in Clients :
         (\E op \in Ops, id \in Clusters : Call(c, op, id)) \/ ClientStep(c) \/ StoreFails(c)
    BY DEF StoreNext
  <1> DEFINE id == call[c].id
  <1>r. Running(c) => /\ id \in Clusters /\ Ret[c].at = "called"
                      /\ Ret[c].id = id /\ Ret[c].op = call[c].op
    BY Seen DEF Inv, CallsMade
  <1>e. ASSUME Running(c) PROVE id \in Existing <=> version[id] # 0
    BY <1>e, <1>r DEF Existing
  <1>1. ASSUME NEW op \in Ops, NEW i \in Clusters, Call(c, op, i) PROVE API!Next
    <2> DEFINE k == [op |-> op, id |-> i, at |-> "called", rev |-> 0, tries |-> 0, since |-> rev]
    <2>1. call' = [call EXCEPT ![c] = k] /\ UNCHANGED <<backend, kvVars, saw>>
      BY <1>1 DEF Call
    <2>2. k.op = op /\ k.id = i /\ k.at = "called"
      OBVIOUS
    <2> HIDE DEF k
    <2>3. call'[c] = k /\ \A d \in Clients \ {c} : call'[d] = call[d]
      BY <2>1 DEF Inv, Types
    <2>4. Ret' = [Ret EXCEPT ![c] = [op |-> op, id |-> i, at |-> "called"]]
      BY <2>2, <2>3 DEF Ret, Visible
    <2>5. Ret[c].at # "called"
      BY <1>1 DEF Ret, Visible, Call
    <2>6. API!Call(c, op, i)
      BY <2>1, <2>4, <2>5 DEF API!Call, Ret, kvVars
    <2> QED BY <2>6 DEF API!Next, Ops, API!Ops
  <1>2. ASSUME CreateCluster(c) PROVE API!CreateCluster(c)
    <2>1. Running(c) /\ call[c].op = "create" /\ UNCHANGED backend
      BY <1>2 DEF CreateCluster, At, Running
    <2>2. API!Pending(c, "create")
      BY <1>r, <2>1 DEF API!Pending, Ret
    <2>3. CASE version[id] = 0 /\ Put(id, Initial) /\ Reply(c, "failed")
      <3>1. Ret' = [Ret EXCEPT ![c].at = "ok"] \/ Ret' = [Ret EXCEPT ![c].at = "failed"]
        BY <2>3, MoveSeen DEF Reply, To, Results
      <3>2. Existing' = Existing \cup {id} /\ data' = [data EXCEPT ![id] = Initial]
        BY <1>r, <2>1, <2>3, WriteSeen
      <3> QED BY <1>r, <1>e, <2>1, <2>2, <2>3, <3>1, <3>2
              DEF API!CreateCluster, API!Returns, Ret, Existing
    <2>4. CASE version[id] # 0 /\ Return(c, "exists") /\ UNCHANGED <<kvVars, faults>>
      <3>1. Ret' = [Ret EXCEPT ![c].at = "exists"]
        BY <2>4, MoveSeen DEF To, Results
      <3> QED BY <1>r, <1>e, <2>1, <2>2, <2>4, <3>1
              DEF API!CreateCluster, API!Returns, Ret, Existing, kvVars
    <2> QED BY <1>2, <2>3, <2>4 DEF CreateCluster
  <1>3. ASSUME GetCluster(c) PROVE API!NotFound(c) \/ UNCHANGED API!apiVars
    <2>1. Running(c) /\ call[c].op \in {"update", "delete"} /\ UNCHANGED <<backend, kvVars>>
      BY <1>3 DEF GetCluster, At, Running
    <2>2. CASE version[id] = 0 /\ Return(c, "notfound")
      <3>1. Ret' = [Ret EXCEPT ![c].at = "notfound"]
        BY <2>2, MoveSeen DEF To, Results
      <3> QED BY <1>r, <1>e, <2>1, <2>2, <3>1
              DEF API!NotFound, API!Pending, API!Returns, Ret, Existing, kvVars
    <2>3. CASE call' = [call EXCEPT ![c].at = "read", ![c].rev = modRev[id]]
      <3>1. call[c] \in CallType /\ call \in [Clients -> CallType]
        BY DEF Inv, Types
      <3>2. /\ call'[c] = [call[c] EXCEPT !.at = "read", !.rev = modRev[id]]
            /\ \A d \in Clients \ {c} : call'[d] = call[d]
        BY <2>3, <3>1
      <3>3. call'[c].op = call[c].op /\ call'[c].id = call[c].id /\ call'[c].at = "read"
        BY <3>1, <3>2 DEF CallType
      <3>4. \A d \in Clients : Visible(d)' = Visible(d)
        BY <2>1, <3>2, <3>3 DEF Visible, Running
      <3>5. Ret' = Ret
        BY <3>4 DEF Ret
      <3> QED BY <2>1, <3>5, Seen DEF API!apiVars, Ret, kvVars
    <2> QED BY <1>3, <2>2, <2>3 DEF GetCluster
  <1>4. ASSUME EtcdUpdate(c) \/ JetStreamUpdate(c)
        PROVE  API!UpdateCluster(c) \/ API!Fail(c) \/ UNCHANGED API!apiVars
    <2>1. Running(c) /\ At(c, "update", "read") /\ UNCHANGED backend
      BY <1>4 DEF EtcdUpdate, JetStreamUpdate, At, Running
    <2>2. API!Pending(c, "update")
      BY <1>r, <2>1 DEF API!Pending, Ret, At
    <2>3. ASSUME Unmodified(c), Put(id, Mutate(c, saw[c])),
                 Reply(c, "failed") \/ (backend = "jetstream" /\ (Return(c, "ok") \/ StartOver(c)))
          PROVE  API!UpdateCluster(c)
      <3>1. saw[c] = data[id]
        BY <2>1, <2>3 DEF Inv, CopyCurrent
      <3>2. id \in Existing
        BY <1>e, <2>1, <2>3 DEF Unmodified
      <3>3. Existing' = Existing /\ data' = [data EXCEPT ![id] = Mutate(c, data[id])]
        BY <1>r, <2>1, <2>3, <3>1, <3>2, WriteSeen
      <3>4. \/ Ret' = [Ret EXCEPT ![c].at = "ok"]
            \/ Ret' = [Ret EXCEPT ![c].at = "failed"]
            \/ backend = "jetstream" /\ Ret' = [Ret EXCEPT ![c].at = "called"]
        BY <2>3, MoveSeen DEF Reply, To, Results
      <3>5. [Ret EXCEPT ![c].at = "called"] = Ret
        <4>1. [Ret[c] EXCEPT !.at = "called"] = Ret[c]
          BY <1>r, <2>1 DEF Ret, Visible
        <4> QED BY <4>1 DEF Ret
      <3> QED BY <1>r, <2>1, <2>2, <3>2, <3>3, <3>4, <3>5
              DEF API!UpdateCluster, API!Returns, Ret, Existing
    <2>4. ASSUME NEW a \in {"called", "failed"}, UNCHANGED kvVars,
                 Ret' = [Ret EXCEPT ![c].at = a]
          PROVE  API!Fail(c) \/ UNCHANGED API!apiVars
      <3>1. CASE a = "failed"
        BY <1>r, <2>1, <2>4, <3>1 DEF API!Fail, API!Returns, Ret, kvVars
      <3>2. CASE a = "called"
        <4>1. [Ret[c] EXCEPT !.at = "called"] = Ret[c]
          BY <1>r, <2>1 DEF Ret, Visible
        <4>2. Ret' = Ret
          BY <2>4, <3>2, <4>1 DEF Ret
        <4> QED BY <2>1, <2>4, <4>2 DEF API!apiVars, Ret, kvVars
      <3> QED BY <3>1, <3>2
    <2>5. CASE EtcdUpdate(c) /\ ~Unmodified(c)
      <3>1. PICK a \in {"called", "failed"} : To(c, a)
        BY <2>5 DEF EtcdUpdate, To, Results
      <3>2. Ret' = [Ret EXCEPT ![c].at = a]
        BY <3>1, MoveSeen DEF Results
      <3> QED BY <2>4, <2>5, <3>2 DEF EtcdUpdate
    <2>6. CASE JetStreamUpdate(c) /\ ~Unmodified(c)
      BY <2>4, <2>6, MoveSeen DEF JetStreamUpdate, To
    <2>7. CASE Unmodified(c)
      BY <1>4, <2>3, <2>7 DEF EtcdUpdate, JetStreamUpdate
    <2> QED BY <1>4, <2>5, <2>6, <2>7
  <1>5. ASSUME EtcdDelete(c) \/ JetStreamDelete(c)
        PROVE  API!DeleteCluster(c) \/ API!NotFound(c)
    <2>1. /\ Running(c) /\ call[c].op = "delete" /\ UNCHANGED backend
          /\ JetStreamDelete(c) => call[c].at = "read"
      BY <1>5 DEF EtcdDelete, JetStreamDelete, At, Running
    <2>2. API!Pending(c, "delete")
      BY <1>r, <2>1 DEF API!Pending, Ret
    <2>3. ASSUME Delete(id), Reply(c, "failed"), version[id] # 0 \/ backend = "jetstream"
          PROVE  API!DeleteCluster(c)
      <3>1. Ret' = [Ret EXCEPT ![c].at = "ok"] \/ Ret' = [Ret EXCEPT ![c].at = "failed"]
        BY <2>3, MoveSeen DEF Reply, To, Results
      <3>2. Existing' = Existing \ {id} /\ data' = data
        BY <1>r, <2>1, <2>3, WriteSeen
      <3> QED BY <1>r, <1>e, <2>1, <2>2, <2>3, <3>1, <3>2
              DEF API!DeleteCluster, API!Returns, Ret, Existing
    <2>4. CASE EtcdDelete(c) /\ version[id] = 0
      <3>1. Ret' = [Ret EXCEPT ![c].at = "notfound"] /\ UNCHANGED kvVars
        BY <2>4, MoveSeen DEF EtcdDelete, To, Results
      <3> QED BY <1>r, <1>e, <2>1, <2>2, <2>4, <3>1
              DEF API!NotFound, API!Returns, Ret, Existing, kvVars
    <2>5. CASE EtcdDelete(c) /\ version[id] # 0
      BY <2>3, <2>5 DEF EtcdDelete
    <2>6. CASE JetStreamDelete(c)
      BY <2>3, <2>6 DEF JetStreamDelete
    <2> QED BY <1>5, <2>4, <2>5, <2>6
  <1>6. ASSUME StoreFails(c) PROVE API!Fail(c) \/ UNCHANGED API!apiVars
    <2>1. Running(c) /\ UNCHANGED <<backend, kvVars>>
      BY <1>6 DEF StoreFails, Running
    <2>2. StartOver(c) \/ Return(c, "failed")
      BY <1>6 DEF StoreFails
    <2>3. CASE Return(c, "failed")
      <3>1. Ret' = [Ret EXCEPT ![c].at = "failed"]
        BY <2>3, MoveSeen DEF To, Results
      <3> QED BY <1>r, <2>1, <3>1 DEF API!Fail, API!Returns, Ret, kvVars
    <2>4. CASE StartOver(c)
      <3>1. Ret' = [Ret EXCEPT ![c].at = "called"]
        BY <2>4, MoveSeen DEF To
      <3>2. [Ret[c] EXCEPT !.at = "called"] = Ret[c]
        BY <1>r, <2>1 DEF Ret, Visible
      <3>3. Ret' = Ret
        BY <3>1, <3>2 DEF Ret
      <3> QED BY <2>1, <3>3 DEF API!apiVars, Ret, kvVars
    <2> QED BY <2>2, <2>3, <2>4
  <1> QED BY <1>1, <1>2, <1>3, <1>4, <1>5, <1>6 DEF ClientStep, API!Next

\* Read, mutate and compare-and-set in etcd and jetstream implement the atomic
\* operations of ClusterStoreAPI, for every mutator and any number of clusters,
\* callers, conflicts and errors of the store.
THEOREM StoreRefinesAPI == StoreSpec => ImplementsStoreAPI
  <1>1. StoreInit => Inv
    BY InvInit
  <1>2. Inv /\ [StoreNext]_storeVars => Inv'
    <2> SUFFICES ASSUME Inv, [StoreNext]_storeVars PROVE Inv'
      OBVIOUS
    <2>1. CASE StoreNext
      BY <2>1, InvNext
    <2>2. CASE UNCHANGED storeVars
      BY <2>2 DEF Inv, Types, CallsMade, Running, RevBound, CopyCurrent, At, Unmodified,
                  storeVars, kvVars
    <2> QED BY <2>1, <2>2
  <1>3. StoreInit => API!Init
    BY InitSeen
  <1>4. Inv /\ [StoreNext]_storeVars => [API!Next]_(API!apiVars)
    <2> SUFFICES ASSUME Inv, [StoreNext]_storeVars PROVE API!Next \/ UNCHANGED API!apiVars
      OBVIOUS
    <2>1. CASE StoreNext
      BY <2>1, StepSeen
    <2>2. CASE UNCHANGED storeVars
      BY <2>2 DEF API!apiVars, Visible, storeVars, kvVars
    <2> QED BY <2>1, <2>2
  <1> QED BY <1>1, <1>2, <1>3, <1>4, PTL DEF StoreSpec, ImplementsStoreAPI, API!Spec

-----------------------------------------------------------------------------
\* How far revision m is ahead of s.
Over(m, s) == IF m > s THEN m - s ELSE 0

\* Why the retries of d's call are paid for.  A call that has read its key at some
\* revision has paid by the revisions up to that one; if the key has another
\* revision by now, that one is larger, and larger than the revision of the call.
Paid(d) ==
    /\ call[d].since <= rev
    /\ ~Running(d) => call[d].tries = 0
    /\ call[d].at = "called" =>
          call[d].tries <= Over(modRev[call[d].id], call[d].since) + faults
    /\ call[d].at = "read" =>
          LET m == modRev[call[d].id]
          IN  /\ call[d].tries <= Over(call[d].rev, call[d].since) + faults
              /\ call[d].rev <= m
              /\ m # call[d].rev => m > call[d].since
              /\ m = call[d].rev => version[call[d].id] # 0

RetryInv == faults \in Nat /\ \A d \in Clients : Paid(d)

\* The numbers Paid speaks of.
LEMMA PaidTypes ==
    ASSUME Inv, NEW d \in Clients
    PROVE  /\ rev \in Nat /\ call[d].rev \in Nat /\ call[d].tries \in Nat /\ call[d].since \in Nat
           /\ call[d].rev <= rev
           /\ Running(d) => /\ call[d].id \in Clusters /\ modRev[call[d].id] \in Nat
                            /\ modRev[call[d].id] <= rev
  BY DEF Inv, Types, CallType, RevBound, CallsMade

\* A write gives its key a revision above the one of every call and of every read.
LEMMA WritePays ==
    ASSUME Inv, NEW d \in Clients, Running(d), NEW id \in Clusters, Writes(id), Paid(d)
    PROVE  /\ modRev'[call[d].id] \in Nat /\ modRev'[call[d].id] >= modRev[call[d].id]
           /\ call[d].id = id => /\ modRev'[id] = rev + 1 /\ rev + 1 > call[d].since
                                 /\ rev + 1 > call[d].rev
           /\ call[d].id # id => /\ modRev'[call[d].id] = modRev[call[d].id]
                                 /\ version'[call[d].id] = version[call[d].id]
  <1>1. \A i \in Clusters : modRev'[i] = (IF i = id THEN rev + 1 ELSE modRev[i])
    BY DEF Inv, Types, Writes
  <1>2. call[d].since <= rev
    BY DEF Paid
  <1> QED BY <1>1, <1>2, PaidTypes DEF Writes

\* A call that stays as it is remains paid for, whoever writes to the store.
LEMMA OtherPaid ==
    ASSUME Inv, NEW d \in Clients, Paid(d), call'[d] = call[d],
           faults \in Nat, faults' \in Nat, faults' >= faults,
           UNCHANGED kvVars \/ (\E id \in Clusters : Writes(id))
    PROVE  Paid(d)'
  <1>t. /\ rev \in Nat /\ call[d].rev \in Nat /\ call[d].tries \in Nat /\ call[d].since \in Nat
        /\ Running(d) => modRev[call[d].id] \in Nat
    BY PaidTypes
  <1>1. CASE UNCHANGED kvVars
    BY <1>t, <1>1 DEF Paid, Over, Running, kvVars
  <1>2. ASSUME NEW id \in Clusters, Writes(id) PROVE Paid(d)'
    <2>1. call[d].since <= rev' /\ (~Running(d) => call[d].tries = 0)
      BY <1>t, <1>2 DEF Paid, Writes
    <2>2. CASE ~Running(d)
      BY <2>1, <2>2 DEF Paid, Running
    <2>3. CASE Running(d)
      <3> DEFINE m == modRev[call[d].id]
                 n == modRev'[call[d].id]
      <3>1. /\ n \in Nat /\ m \in Nat /\ n >= m
            /\ call[d].id = id => n = rev + 1 /\ rev + 1 > call[d].since /\ rev + 1 > call[d].rev
            /\ call[d].id # id => n = m /\ version'[call[d].id] = version[call[d].id]
        BY <1>t, <1>2, <2>3, WritePays
      <3> HIDE DEF m, n
      <3>2. ASSUME call[d].at = "called"
            PROVE  call[d].tries <= Over(n, call[d].since) + faults'
        <4>1. call[d].tries <= Over(m, call[d].since) + faults
          BY <3>2 DEF Paid, m
        <4> QED BY <1>t, <3>1, <4>1 DEF Over
      <3>3. ASSUME call[d].at = "read"
            PROVE  /\ call[d].tries <= Over(call[d].rev, call[d].since) + faults'
                   /\ call[d].rev <= n
                   /\ n # call[d].rev => n > call[d].since
                   /\ n = call[d].rev => version'[call[d].id] # 0
        <4>1. /\ call[d].tries <= Over(call[d].rev, call[d].since) + faults
              /\ call[d].rev <= m
              /\ m # call[d].rev => m > call[d].since
              /\ m = call[d].rev => version[call[d].id] # 0
          BY <3>3 DEF Paid, m
        <4>2. call[d].tries <= Over(call[d].rev, call[d].since) + faults'
          BY <1>t, <4>1 DEF Over
        <4> QED BY <1>t, <3>1, <4>1, <4>2
      <3> QED BY <2>1, <3>2, <3>3 DEF Paid, Running, n
    <2> QED BY <2>2, <2>3
  <1> QED BY <1>1, <1>2

\* A call that returns, or starts over because its key was overtaken or for an
\* error of the store, is paid for.
LEMMA MovePaid ==
    ASSUME Inv, RetryInv, NEW c \in Clients, Running(c), faults' \in Nat,
           NEW a \in {"called"} \cup Results, To(c, a),
           UNCHANGED kvVars \/ Writes(call[c].id),
           a = "called" =>
              /\ call[c].at = "read"
              /\ \/ UNCHANGED kvVars /\ faults' = faults /\ ~Unmodified(c)
                 \/ faults' = faults + 1
    PROVE  Paid(c)'
  <1>p. Paid(c) /\ faults \in Nat
    BY DEF RetryInv
  <1>t. /\ rev \in Nat /\ call[c].rev \in Nat /\ call[c].tries \in Nat /\ call[c].since \in Nat
        /\ call[c].id \in Clusters /\ modRev[call[c].id] \in Nat
    BY PaidTypes
  <1>y. Types
    BY DEF Inv
  <1>r. rev' \in Nat /\ rev' >= rev
    BY <1>t DEF kvVars, Writes
  <1>1. CASE a \in Results
    <2>1. call'[c].tries = 0 /\ call'[c].since = 0 /\ call'[c].at = a
      BY <1>1, <1>y, ToFields
    <2> QED BY <1>1, <1>r, <2>1 DEF Paid, Running, Results
  <1>2. CASE a = "called"
    <2> DEFINE m == modRev[call[c].id]
               n == modRev'[call[c].id]
               s == call[c].since
    <2>1. /\ call'[c].tries = call[c].tries + 1 /\ call'[c].since = s /\ call'[c].at = "called"
          /\ call'[c].id = call[c].id
      BY <1>2, <1>y, ToFields
    <2>2. /\ call[c].tries <= Over(call[c].rev, s) + faults
          /\ s <= rev /\ call[c].rev <= m
          /\ m # call[c].rev => m > s
          /\ m = call[c].rev => version[call[c].id] # 0
      BY <1>2, <1>p DEF Paid
    <2>3. n \in Nat /\ n >= m
      <3>1. CASE UNCHANGED kvVars
        BY <1>t, <3>1 DEF kvVars
      <3>2. CASE Writes(call[c].id)
        BY <1>p, <1>t, <3>2, WritePays
      <3> QED BY <3>1, <3>2
    <2>4. call[c].tries + 1 <= Over(n, s) + faults'
      <3>1. CASE UNCHANGED kvVars /\ faults' = faults /\ ~Unmodified(c)
        <4>1. n = m /\ m # call[c].rev
          BY <2>2, <3>1 DEF kvVars, Unmodified
        <4> HIDE DEF m, n, s
        <4>2. m \in Nat /\ s \in Nat
          BY <1>t DEF m, s
        <4> QED BY <1>p, <1>t, <2>2, <3>1, <4>1, <4>2 DEF Over
      <3>2. CASE faults' = faults + 1
        <4> HIDE DEF m, n, s
        <4>2. m \in Nat /\ s \in Nat
          BY <1>t DEF m, s
        <4> QED BY <1>p, <1>t, <2>2, <2>3, <3>2, <4>2 DEF Over
      <3> QED BY <1>2, <3>1, <3>2
    <2>5. s <= rev'
      BY <1>t, <1>r, <2>2
    <2> QED BY <2>1, <2>4, <2>5 DEF Paid, Running
  <1> QED BY <1>1, <1>2

\* Every step keeps all calls paid for.
LEMMA RetryNext == ASSUME Inv, RetryInv, StoreNext PROVE RetryInv'
  <1> PICK c \in Clients :
         (\E op \in Ops, id \in Clusters : Call(c, op, id)) \/ ClientStep(c) \/ StoreFails(c)
    BY DEF StoreNext
  <1> DEFINE id == call[c].id
  <1>t. call[c] \in CallType /\ call \in [Clients -> CallType] /\ rev \in Nat
    BY DEF Inv, Types
  <1>f. faults \in Nat
    BY DEF RetryInv
  <1>o. ASSUME \A d \in Clients \ {c} : call'[d] = call[d],
               faults' \in Nat, faults' >= faults,
               UNCHANGED kvVars \/ (\E i \in Clusters : Writes(i)),
               Paid(c)'
        PROVE  RetryInv'
    <2>1. ASSUME NEW d \in Clients \ {c} PROVE Paid(d)'
      BY <1>f, <1>o, <2>1, OtherPaid DEF RetryInv
    <2> QED BY <1>o, <2>1 DEF RetryInv
  <1>m. ASSUME Running(c), NEW a \in {"called"} \cup Results, To(c, a),
               UNCHANGED faults \/ faults' = faults + 1,
               \/ UNCHANGED kvVars
               \/ Delete(id)
               \/ \E v \in {Initial, Mutate(c, saw[c])} : Put(id, v),
               a = "called" =>
                  /\ call[c].at = "read"
                  /\ \/ UNCHANGED kvVars /\ faults' = faults /\ ~Unmodified(c)
                     \/ faults' = faults + 1
        PROVE  RetryInv'
    <2>1. id \in Clusters
      BY <1>m DEF Inv, CallsMade
    <2>2. UNCHANGED kvVars \/ Writes(id)
      BY <1>m, <2>1, PutDeleteWrite
    <2>3. faults' \in Nat /\ faults' >= faults
      BY <1>f, <1>m
    <2>4. \A d \in Clients \ {c} : call'[d] = call[d]
      <3>1. Types
        BY DEF Inv
      <3> QED BY <1>m, <3>1, ToFields
    <2>5. Paid(c)'
      BY <1>m, <2>2, <2>3, MovePaid
    <2> QED BY <1>o, <2>1, <2>2, <2>3, <2>4, <2>5
  <1>1. ASSUME NEW op \in Ops, NEW i \in Clusters, Call(c, op, i) PROVE RetryInv'
    <2> DEFINE k == [op |-> op, id |-> i, at |-> "called", rev |-> 0, tries |-> 0, since |-> rev]
    <2>1. call' = [call EXCEPT ![c] = k] /\ UNCHANGED <<kvVars, faults>>
      BY <1>1 DEF Call
    <2>2. k.at = "called" /\ k.tries = 0 /\ k.since = rev /\ k.id = i
      OBVIOUS
    <2> HIDE DEF k
    <2>3. call'[c] = k /\ \A d \in Clients \ {c} : call'[d] = call[d]
      BY <1>t, <2>1
    <2>4. modRev'[i] \in Nat /\ rev' = rev
      BY <2>1 DEF Inv, Types, kvVars
    <2>5. Over(modRev'[i], rev') + faults' >= 0
      BY <1>t, <1>f, <2>1, <2>4 DEF Over
    <2>6. /\ call'[c].at = "called" /\ call'[c].tries = 0
          /\ call'[c].since = rev' /\ call'[c].id = i /\ rev' <= rev'
      BY <1>t, <2>2, <2>3, <2>4
    <2>7. Paid(c)'
      BY <2>5, <2>6 DEF Paid, Running
    <2> QED BY <1>f, <1>o, <2>1, <2>3, <2>7
  <1>2. CASE CreateCluster(c)
    BY <1>2, <1>m DEF CreateCluster, Reply, Fault, Running, At, To, Results
  <1>3. CASE GetCluster(c)
    <2>1. Running(c) /\ call[c].at = "called" /\ UNCHANGED <<kvVars, faults>>
      BY <1>3 DEF GetCluster, At, Running
    <2>2. CASE Return(c, "notfound")
      BY <1>m, <2>1, <2>2 DEF To, Results
    <2>3. CASE version[id] # 0 /\ call' = [call EXCEPT ![c].at = "read", ![c].rev = modRev[id]]
      <3>1. /\ call'[c] = [call[c] EXCEPT !.at = "read", !.rev = modRev[id]]
            /\ \A d \in Clients \ {c} : call'[d] = call[d]
        BY <1>t, <2>3
      <3>2. /\ call'[c].at = "read" /\ call'[c].rev = modRev[id] /\ call'[c].id = id
            /\ call'[c].tries = call[c].tries /\ call'[c].since = call[c].since
        BY <1>t, <3>1 DEF CallType
      <3>3. /\ call[c].tries <= Over(modRev[id], call[c].since) + faults
            /\ call[c].since <= rev /\ modRev[id] \in Nat
        BY <2>1, PaidTypes DEF RetryInv, Paid
      <3>4. Paid(c)'
        BY <2>1, <2>3, <3>2, <3>3 DEF Paid, Running, kvVars
      <3> QED BY <1>f, <1>o, <2>1, <3>1, <3>4
    <2> QED BY <1>3, <2>2, <2>3 DEF GetCluster
  <1>4. CASE EtcdUpdate(c)
    BY <1>4, <1>m DEF EtcdUpdate, Reply, Fault, Running, At, To, Results
  <1>5. CASE JetStreamUpdate(c)
    BY <1>5, <1>m DEF JetStreamUpdate, Fault, Running, At, To, Results
  <1>6. CASE EtcdDelete(c)
    BY <1>6, <1>m DEF EtcdDelete, Reply, Fault, Running, At, To, Results
  <1>7. CASE JetStreamDelete(c)
    BY <1>7, <1>m DEF JetStreamDelete, Reply, Fault, Running, At, To, Results
  <1>8. CASE StoreFails(c)
    BY <1>8, <1>m DEF StoreFails, Fault, Running, At, To, Results
  <1> QED BY <1>1, <1>2, <1>3, <1>4, <1>5, <1>6, <1>7, <1>8 DEF ClientStep

\* UpdateCluster starts over at most once for each revision that its key has gained
\* since the call and once for each error of the store, for any number of callers,
\* calls, attempts and errors: whoever is refused was overtaken by a write.
THEOREM RetriesArePaid == StoreSpec => []RetriesPaid
  <1> DEFINE J == Inv /\ RetryInv
  <1>1. StoreInit => J
    BY InvInit DEF StoreInit, RetryInv, Paid, Running, NoCall
  <1>2. J /\ [StoreNext]_storeVars => J'
    <2> SUFFICES ASSUME J, [StoreNext]_storeVars PROVE J'
      OBVIOUS
    <2>1. CASE StoreNext
      BY <2>1, InvNext, RetryNext
    <2>2. CASE UNCHANGED storeVars
      <3>1. Inv'
        BY <2>2 DEF Inv, Types, CallsMade, Running, RevBound, CopyCurrent, At, Unmodified,
                    storeVars, kvVars
      <3>2. RetryInv'
        BY <2>2 DEF RetryInv, Paid, Running, storeVars, kvVars
      <3> QED BY <3>1, <3>2
    <2> QED BY <2>1, <2>2
  <1>3. J => RetriesPaid
    <2> SUFFICES ASSUME J, NEW c \in Clients, call[c].op = "update"
                 PROVE  call[c].tries <= Gained(c) + faults
      BY DEF RetriesPaid
    <2>1. Paid(c) /\ faults \in Nat
      BY DEF RetryInv
    <2>2. /\ call[c].rev \in Nat /\ call[c].tries \in Nat /\ call[c].since \in Nat
          /\ Running(c) => modRev[call[c].id] \in Nat
      BY PaidTypes
    <2>3. CASE Running(c)
      BY <2>1, <2>2, <2>3 DEF Paid, Running, Over, Gained
    <2>4. CASE ~Running(c)
      <3>1. call[c].tries = 0
        BY <2>1, <2>4 DEF Paid
      <3>2. modRev[call[c].id] \in Nat
        BY DEF Inv, Types, CallsMade, Ops
      <3>3. Gained(c) \in Nat
        BY <2>2, <3>2 DEF Gained
      <3> QED BY <2>1, <3>1, <3>3
    <2> QED BY <2>3, <2>4
  <1> QED BY <1>1, <1>2, <1>3, PTL DEF StoreSpec
=============================================================================
