--------------------------- MODULE ClusterStoreAPI ---------------------------
(***************************************************************************)
(* What storage.ClusterStore promises its callers: CreateCluster,          *)
(* DeleteCluster and UpdateCluster each take effect in one step, between   *)
(* the call and its return.                                                *)
(*                                                                         *)
(* A call that returns an error other than ErrNotFound or ErrAlreadyExists *)
(* may have taken effect, because the reply of the store may be lost.  The *)
(* promise has two forms.  A strict store applies a mutator at most once   *)
(* per call, and fails to delete what is not there.  A loose one may apply *)
(* the mutator of a call again after a lost reply, and may report that it  *)
(* deleted a cluster that somebody else had just deleted.                  *)
(***************************************************************************)
CONSTANTS Clusters, Clients,
    Initial,       \* what a cluster holds when it is created
    Mutate(_, _)   \* Mutate(c, v): what the mutator of client c makes of v

VARIABLES
    present,  \* the clusters that exist
    value,    \* value[id]: what cluster id holds
    ret,      \* ret[c]: the call of client c and what it returned
    loose     \* the form of the promise

apiVars == <<present, value, ret, loose>>

Ops == {"create", "update", "delete"}

NoCall == [op |-> "none", id |-> "none", at |-> "idle"]

Init ==
    /\ present = {}
    /\ value = [id \in Clusters |-> Initial]
    /\ ret = [c \in Clients |-> NoCall]
    /\ loose \in BOOLEAN

Call(c, op, id) ==
    /\ ret[c].at # "called"
    /\ ret' = [ret EXCEPT ![c] = [op |-> op, id |-> id, at |-> "called"]]
    /\ UNCHANGED <<present, value, loose>>

Pending(c, op) == ret[c].op = op /\ ret[c].at = "called"

Returns(c, result) == ret' = [ret EXCEPT ![c].at = result]

CreateCluster(c) ==
    /\ Pending(c, "create")
    /\ \/ /\ ret[c].id \notin present
          /\ present' = present \cup {ret[c].id}
          /\ value' = [value EXCEPT ![ret[c].id] = Initial]
          /\ Returns(c, "ok") \/ Returns(c, "failed")
       \/ /\ ret[c].id \in present
          /\ Returns(c, "exists")
          /\ UNCHANGED <<present, value>>
    /\ UNCHANGED loose

UpdateCluster(c) ==
    /\ Pending(c, "update")
    /\ ret[c].id \in present
    /\ value' = [value EXCEPT ![ret[c].id] = Mutate(c, @)]
    /\ Returns(c, "ok") \/ Returns(c, "failed") \/ (loose /\ UNCHANGED ret)
    /\ UNCHANGED <<present, loose>>

DeleteCluster(c) ==
    /\ Pending(c, "delete")
    /\ ret[c].id \in present \/ loose
    /\ present' = present \ {ret[c].id}
    /\ Returns(c, "ok") \/ Returns(c, "failed")
    /\ UNCHANGED <<value, loose>>

NotFound(c) ==
    /\ Pending(c, "update") \/ Pending(c, "delete")
    /\ ret[c].id \notin present
    /\ Returns(c, "notfound")
    /\ UNCHANGED <<present, value, loose>>

Fail(c) ==
    /\ ret[c].at = "called"
    /\ Returns(c, "failed")
    /\ UNCHANGED <<present, value, loose>>

Next ==
    \E c \in Clients :
        \/ \E op \in Ops, id \in Clusters : Call(c, op, id)
        \/ CreateCluster(c) \/ UpdateCluster(c) \/ DeleteCluster(c)
        \/ NotFound(c) \/ Fail(c)

Spec == Init /\ [][Next]_apiVars
=============================================================================
