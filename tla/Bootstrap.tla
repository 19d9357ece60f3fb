------------------------------ MODULE Bootstrap ------------------------------
(***************************************************************************)
(* Joining the gateway with a bootstrap token: the two bootstrap servers   *)
(* of pkg/bootstrap (V1 installs a capability, V2 only creates the         *)
(* cluster), the agents of pkg/agent/v1 and pkg/agent/v2 that use them,    *)
(* and DeleteCluster of the management server.                             *)
(*                                                                         *)
(* An Auth call is a sequence of accesses to tokens, clusters and keyrings *)
(* with no transaction around them.  A per-server mutex of the cluster id  *)
(* covers all of it but the first (GetToken); V1 and V2 have a mutex each, *)
(* and DeleteCluster has none.  The client and the handler of one call use *)
(* a key pair of their own, so call n stands for the shared key it makes.  *)
(***************************************************************************)
EXTENDS Naturals, FiniteSets

CONSTANTS
    Agents,      \* records [id, token, cap]; cap = "none" is an agent of v2
    MadeFor,     \* MadeFor[t]: the clusters token t was created for joining
    MaxCalls,    \* bound: Auth calls
    MaxFaults,   \* bound: store errors, lost replies, deaths of agent or gateway
    MaxDeletes,  \* bound: calls of DeleteCluster
    Operator     \* what people do besides: "expire" a token, "rebootstrap" an agent

Ids == {a.id : a \in Agents}
Tokens == {a.token : a \in Agents}

ASSUME BootstrapAssumption ==
    /\ MadeFor \in [Tokens -> SUBSET Ids]
    /\ MaxCalls \in Nat /\ MaxFaults \in Nat /\ MaxDeletes \in Nat
    /\ Operator \subseteq {"expire", "rebootstrap"}

VARIABLES
    token,    \* token[t]: live, how often used, the clusters it may join
    cluster,  \* cluster[i]: exists, its capabilities, and the call that created it
    keyring,  \* keyring[i]: the shared keys in the gateway's keyring; {} is none
    call,     \* call[n]: the handler of the n-th Auth call
    agent,    \* agent[a]: where the process is, its call, the key it has stored
    del,      \* the DeleteCluster call in progress
    faults, deletes

vars == <<token, cluster, keyring, call, agent, del, faults, deletes>>

Caps == {a.cap : a \in Agents} \ {"none"}
V1(a) == a.cap # "none"
Calls == 1..MaxCalls

Locked == {"create", "usage", "keyring", "merge", "put", "install"}
Outcomes == {"done", "denied", "notoken", "exists", "failed"}
FreeCall == [at |-> "free", agent |-> CHOOSE a \in Agents : TRUE,
             joins |-> FALSE, edit |-> FALSE, kr |-> {}]
NoCluster == [exists |-> FALSE, caps |-> {}, by |-> 0]
NoDelete == [at |-> "idle", id |-> CHOOSE i \in Ids : TRUE]

\* CreateBootstrapToken gives a token the capabilities the operator asked for, of
\* which the servers look at join_existing_cluster.
NewToken(t) == [live |-> TRUE, usage |-> 0, join |-> MadeFor[t]]

Init ==
    /\ token = [t \in Tokens |-> NewToken(t)]
    /\ cluster = [i \in Ids |-> NoCluster]
    /\ keyring = [i \in Ids |-> {}]
    /\ call = [n \in Calls |-> FreeCall]
    /\ agent = [a \in Agents |-> [at |-> "off", call |-> 0, store |-> 0]]
    /\ del = NoDelete
    /\ faults = 0
    /\ deletes = 0

\* A handler that returns forgets what it read.
Goto(n, at) ==
    call' = [call EXCEPT ![n] =
        IF at \in Outcomes THEN [FreeCall EXCEPT !.at = at, !.agent = call[n].agent]
        ELSE [@ EXCEPT !.at = at]]
AgentGoto(a, at) == agent' = [agent EXCEPT ![a].at = at]
storeVars == <<token, cluster, keyring>>
otherVars == <<agent, del, faults, deletes>>

-----------------------------------------------------------------------------
(* The agent process. *)

\* New: a stored keyring is used as it is, unless --re-bootstrap was given.
\* The plugin sync that follows is a unary call, which the gateway serves
\* without looking at the keyring, so it sends no agent back here.
AgentStart(a, rebootstrap) ==
    /\ agent[a].at = "off"
    /\ rebootstrap => ~V1(a) /\ "rebootstrap" \in Operator
    /\ AgentGoto(a, IF agent[a].store = 0 \/ rebootstrap THEN "join" ELSE "connect")
    /\ UNCHANGED <<storeVars, call, del, faults, deletes>>

\* Bootstrap: Join lists the signatures of the live tokens, and with its own
\* the client starts an Auth call.  Without it the process ends.
AgentJoin(a) ==
    /\ agent[a].at = "join"
    /\ \/ /\ token[a.token].live
          /\ \E n \in Calls :
               /\ call[n].at = "free"
               /\ \A k \in 1..(n - 1) : call[k].at # "free"
               /\ call' = [call EXCEPT ![n] = [FreeCall EXCEPT !.at = "token", !.agent = a]]
               /\ agent' = [agent EXCEPT ![a].at = "wait", ![a].call = n]
       \/ /\ ~token[a.token].live
          /\ AgentGoto(a, "off")
          /\ UNCHANGED call
    /\ UNCHANGED <<storeVars, del, faults, deletes>>

\* The reply: the client derives the shared key, or Bootstrap fails and the
\* process ends.
AgentReply(a) ==
    /\ agent[a].at = "wait"
    /\ call[agent[a].call].at \in Outcomes
    /\ AgentGoto(a, IF call[agent[a].call].at = "done" THEN "persist" ELSE "off")
    /\ UNCHANGED <<storeVars, call, del, faults, deletes>>

\* ks.Put is retried until it succeeds.
AgentPersist(a) ==
    /\ agent[a].at = "persist"
    /\ agent' = [agent EXCEPT ![a].at = "connect", ![a].store = agent[a].call]
    /\ UNCHANGED <<storeVars, call, del, faults, deletes>>

\* The process dies, or gives up waiting, before it has stored its key.
AgentDies(a) ==
    /\ agent[a].at \in {"wait", "persist"}
    /\ faults < MaxFaults
    /\ faults' = faults + 1
    /\ agent' = [agent EXCEPT ![a].at = "off", ![a].call = 0]
    /\ UNCHANGED <<storeVars, call, del, deletes>>

\* VerifyKeyring of the gateway, for the stream the agent opens.
VerifyKeyring(a) == agent[a].store \in keyring[a.id]

\* Connect: an agent the gateway knows is connected once its cluster is
\* found.  Unauthenticated ends an agent of v2; one of v1 tries again, and
\* so does either when only the cluster is missing.
AgentConnect(a) ==
    /\ agent[a].at = "connect"
    /\ \/ VerifyKeyring(a) /\ cluster[a.id].exists /\ AgentGoto(a, "connected")
       \/ ~VerifyKeyring(a) /\ ~V1(a) /\ AgentGoto(a, "off")
    /\ UNCHANGED <<storeVars, call, del, faults, deletes>>

\* The stream ends, for instance because the watch on the cluster saw it deleted.
AgentDisconnect(a) ==
    /\ agent[a].at = "connected"
    /\ AgentGoto(a, "connect")
    /\ UNCHANGED <<storeVars, call, del, faults, deletes>>

-----------------------------------------------------------------------------
(* Auth.  n is the call, a the agent that made it. *)

\* GetToken, before the mutex of the cluster id is taken.
GetToken(n) ==
    LET a == call[n].agent IN
    /\ call[n].at = "token"
    /\ \/ ~token[a.token].live /\ Goto(n, "notoken")
       \/ /\ token[a.token].live
          /\ call' = [call EXCEPT ![n].at = "lock", ![n].joins = a.id \in token[a.token].join]
    /\ UNCHANGED <<storeVars, otherVars>>

\* Mutant: no mutex.
LockFreeAlways(n) == TRUE

\* The mutexes of V1 and V2 for one cluster id are different.
LockFree(n) ==
    \A k \in Calls : call[k].at \in Locked =>
        ~(/\ call[k].agent.id = call[n].agent.id
          /\ V1(call[k].agent) = V1(call[n].agent))

\* Mutant: the capability of the token is not looked at.
LockClusterAnyToken(n) ==
    LET a == call[n].agent
        c == cluster[a.id] IN
    /\ call[n].at = "lock"
    /\ LockFree(n)
    /\ \/ ~c.exists /\ Goto(n, "create")
       \/ c.exists /\ (~V1(a) \/ a.cap \in c.caps) /\ Goto(n, "exists")
       \/ /\ c.exists /\ V1(a) /\ a.cap \notin c.caps
          /\ call' = [call EXCEPT ![n].at = "usage", ![n].edit = TRUE]
    /\ UNCHANGED <<storeVars, otherVars>>

\* GetCluster under the mutex decides what the call may do.
LockCluster(n) ==
    LET a == call[n].agent
        c == cluster[a.id] IN
    /\ call[n].at = "lock"
    /\ LockFree(n)
    /\ \/ ~c.exists /\ Goto(n, "create")
       \/ c.exists /\ (~V1(a) \/ a.cap \in c.caps) /\ Goto(n, "exists")
       \/ c.exists /\ V1(a) /\ a.cap \notin c.caps /\ ~call[n].joins /\ Goto(n, "denied")
       \/ /\ c.exists /\ V1(a) /\ a.cap \notin c.caps /\ call[n].joins
          /\ call' = [call EXCEPT ![n].at = "usage", ![n].edit = TRUE]
    /\ UNCHANGED <<storeVars, otherVars>>

\* The store refuses a second cluster with the same id.
CreateCluster(n) ==
    LET a == call[n].agent IN
    /\ call[n].at = "create"
    /\ \/ /\ cluster[a.id].exists
          /\ Goto(n, "failed")
          /\ UNCHANGED cluster
       \/ /\ ~cluster[a.id].exists
          /\ cluster' = [cluster EXCEPT ![a.id] =
               [exists |-> TRUE, caps |-> IF V1(a) THEN {a.cap} ELSE {}, by |-> n]]
          /\ Goto(n, "usage")
    /\ UNCHANGED <<token, keyring, otherVars>>

\* Mutants: a retried update counts twice; the token never gets to join.
UpdateTokenTwice(n) ==
    LET a == call[n].agent IN
    /\ call[n].at = "usage" /\ token[a.token].live
    /\ token' = [token EXCEPT ![a.token].usage = @ + 2,
         ![a.token].join = IF V1(a) /\ ~call[n].edit THEN @ \cup {a.id} ELSE @]
    /\ Goto(n, IF call[n].edit THEN "merge" ELSE "keyring")
    /\ UNCHANGED <<cluster, keyring, otherVars>>

UpdateTokenNoJoin(n) ==
    LET a == call[n].agent IN
    /\ call[n].at = "usage" /\ token[a.token].live
    /\ token' = [token EXCEPT ![a.token].usage = @ + 1]
    /\ Goto(n, IF call[n].edit THEN "merge" ELSE "keyring")
    /\ UNCHANGED <<cluster, keyring, otherVars>>

\* UpdateToken counts the use.  A V1 call that created the cluster also lets
\* the token join it again.  The token may be gone by now.
UpdateToken(n) ==
    LET a == call[n].agent IN
    /\ call[n].at = "usage"
    /\ \/ ~token[a.token].live /\ Goto(n, "failed") /\ UNCHANGED token
       \/ /\ token[a.token].live
          /\ token' = [token EXCEPT
               ![a.token].usage = @ + 1,
               ![a.token].join = IF V1(a) /\ ~call[n].edit THEN @ \cup {a.id} ELSE @]
          /\ Goto(n, IF call[n].edit THEN "merge" ELSE "keyring")
    /\ UNCHANGED <<cluster, keyring, otherVars>>

\* Mutant: the handler returns before it stores the keyring.
PutKeyringLost(n) ==
    /\ call[n].at = "keyring"
    /\ Goto(n, "done")
    /\ UNCHANGED <<storeVars, otherVars>>

\* The keyring of a new cluster replaces whatever was stored.
PutKeyring(n) ==
    LET a == call[n].agent IN
    /\ call[n].at = "keyring"
    /\ keyring' = [keyring EXCEPT ![a.id] = {n}]
    /\ Goto(n, IF V1(a) THEN "install" ELSE "done")
    /\ UNCHANGED <<token, cluster, otherVars>>

\* handleEdit reads the keyring, and in a second access stores the merged one.
GetKeyring(n) ==
    LET kr == keyring[call[n].agent.id] IN
    /\ call[n].at = "merge"
    /\ \/ kr = {} /\ Goto(n, "failed")
       \/ kr # {} /\ call' = [call EXCEPT ![n].at = "put", ![n].kr = kr]
    /\ UNCHANGED <<storeVars, otherVars>>

\* Mutant: the new keyring is stored without the keys of the old one.
MergeKeyringReplace(n) ==
    /\ call[n].at = "put"
    /\ keyring' = [keyring EXCEPT ![call[n].agent.id] = {n}]
    /\ Goto(n, "install")
    /\ UNCHANGED <<token, cluster, otherVars>>

MergeKeyring(n) ==
    /\ call[n].at = "put"
    /\ keyring' = [keyring EXCEPT ![call[n].agent.id] = call[n].kr \cup {n}]
    /\ Goto(n, "install")
    /\ UNCHANGED <<token, cluster, otherVars>>

\* The backend's Install adds the capability to the cluster.  Only handleEdit
\* looks at its result.
InstallCapability(n) ==
    LET a == call[n].agent IN
    /\ call[n].at = "install"
    /\ cluster' = [cluster EXCEPT ![a.id].caps = IF cluster[a.id].exists THEN @ \cup {a.cap} ELSE @]
    /\ Goto(n, IF cluster[a.id].exists \/ ~call[n].edit THEN "done" ELSE "failed")
    /\ UNCHANGED <<token, keyring, otherVars>>

\* A store access or CanInstall fails.  The context of a call whose client has
\* gone is canceled, so that one may fail at any time.  A write that returned an
\* error may have been carried out; where the handler goes on after a write, that
\* is the write followed by a failure of the next access.
HandlerFails(n) ==
    LET i == call[n].agent.id IN
    /\ call[n].at \in {"token", "lock"} \cup Locked
    /\ \/ agent[call[n].agent].call # n /\ UNCHANGED faults
       \/ faults < MaxFaults /\ faults' = faults + 1
    /\ Goto(n, IF call[n].at = "install" /\ ~call[n].edit THEN "done" ELSE "failed")
    /\ keyring' \in {keyring} \cup
          IF call[n].at = "keyring" THEN {[keyring EXCEPT ![i] = {n}]} ELSE {}
    /\ cluster' \in {cluster} \cup
          IF call[n].at = "install" /\ cluster[i].exists
            THEN {[cluster EXCEPT ![i].caps = @ \cup {call[n].agent.cap}]} ELSE {}
    /\ UNCHANGED <<token, agent, del, deletes>>

\* The gateway dies: its clients see their calls fail, the mutexes are gone.
GatewayDies ==
    /\ faults < MaxFaults
    /\ faults' = faults + 1
    /\ call' = [n \in Calls |->
         IF call[n].at \in Outcomes \cup {"free"} THEN call[n]
         ELSE [FreeCall EXCEPT !.at = "failed", !.agent = call[n].agent]]
    /\ del' = NoDelete
    /\ UNCHANGED <<storeVars, agent, deletes>>

-----------------------------------------------------------------------------
(* The management server. *)

\* DeleteCluster refuses a cluster with capabilities, and then deletes the
\* keyring and the cluster one after the other.
DeleteResolve(i) ==
    /\ del.at = "idle" /\ deletes < MaxDeletes
    /\ cluster[i].exists /\ cluster[i].caps = {}
    /\ del' = [at |-> "keyring", id |-> i]
    /\ deletes' = deletes + 1
    /\ UNCHANGED <<storeVars, call, agent, faults>>

DeleteKeyring ==
    /\ del.at = "keyring"
    /\ keyring' = [keyring EXCEPT ![del.id] = {}]
    /\ del' = [del EXCEPT !.at = "cluster"]
    /\ UNCHANGED <<token, cluster, call, agent, faults, deletes>>

DeleteCluster ==
    /\ del.at = "cluster"
    /\ cluster' = [cluster EXCEPT ![del.id] = NoCluster]
    /\ del' = NoDelete
    /\ UNCHANGED <<token, keyring, call, agent, faults, deletes>>

\* An uninstall task of module CapabilityUninstall ends.
CapabilityRemoved(i, c) ==
    /\ deletes < MaxDeletes
    /\ c \in cluster[i].caps
    /\ cluster' = [cluster EXCEPT ![i].caps = @ \ {c}]
    /\ UNCHANGED <<token, keyring, call, otherVars>>

\* Bound: at most one token goes.
AllTokensLive == \A t \in Tokens : token[t].live

\* RevokeBootstrapToken, or the end of the token's lease.
DeleteToken(t) ==
    /\ "expire" \in Operator
    /\ AllTokensLive
    /\ token' = [token EXCEPT ![t].live = FALSE]
    /\ UNCHANGED <<cluster, keyring, call, otherVars>>

-----------------------------------------------------------------------------
AuthStep(n) ==
    \/ GetToken(n) \/ LockCluster(n) \/ CreateCluster(n) \/ UpdateToken(n)
    \/ PutKeyring(n) \/ GetKeyring(n) \/ MergeKeyring(n) \/ InstallCapability(n)

AgentStep(a) ==
    \/ AgentStart(a, FALSE) \/ AgentJoin(a) \/ AgentReply(a)
    \/ AgentPersist(a) \/ AgentConnect(a)

DeleteStep == DeleteKeyring \/ DeleteCluster

Next ==
    \/ \E n \in Calls : AuthStep(n) \/ HandlerFails(n)
    \/ \E a \in Agents : AgentStep(a) \/ AgentStart(a, TRUE) \/ AgentDies(a) \/ AgentDisconnect(a)
    \/ \E i \in Ids : DeleteResolve(i) \/ \E c \in Caps : CapabilityRemoved(i, c)
    \/ \E t \in Tokens : DeleteToken(t)
    \/ DeleteStep
    \/ GatewayDies

Spec == Init /\ [][Next]_vars

\* Handlers run to their end, agents are restarted by their supervisor and
\* retry, and a mutex is handed to a goroutine that waits for it.
Fairness ==
    /\ \A n \in Calls : SF_vars(AuthStep(n))
    /\ \A a \in Agents : WF_vars(AgentStep(a))
    /\ WF_vars(DeleteStep)

FairSpec == Spec /\ Fairness

-----------------------------------------------------------------------------
CallType ==
    [at : {"free", "token", "lock"} \cup Locked \cup Outcomes, agent : Agents,
     joins : BOOLEAN, edit : BOOLEAN, kr : SUBSET Calls]

\* Every variable stays within its type.
TypeOK ==
    /\ token \in [Tokens -> [live : BOOLEAN, usage : 0..MaxCalls, join : SUBSET Ids]]
    /\ cluster \in [Ids -> [exists : BOOLEAN, caps : SUBSET Caps, by : 0..MaxCalls]]
    /\ keyring \in [Ids -> SUBSET Calls]
    /\ call \in [Calls -> CallType]
    /\ agent \in [Agents ->
         [at : {"off", "join", "wait", "persist", "connect", "connected"},
          call : 0..MaxCalls, store : 0..MaxCalls]]
    /\ del \in [at : {"idle", "keyring", "cluster"}, id : Ids]
    /\ faults \in 0..MaxFaults /\ deletes \in 0..MaxDeletes

AtRest == del.at = "idle" /\ \A n \in Calls : call[n].at \in Outcomes \cup {"free"}

\* While no cluster is deleted, a key an agent got from Auth stays in the
\* gateway's keyring, however many calls for the same cluster overlap,
\* fail half-way or die with the gateway: handleEdit's Get and Put lose none.
KeysAgree ==
    deletes = 0 => \A a \in Agents :
        /\ agent[a].store # 0 => agent[a].store \in keyring[a.id]
        /\ agent[a].at = "persist" => agent[a].call \in keyring[a.id]

\* While no cluster is deleted, an Auth call succeeds for a cluster only with the
\* token that created it, or with one the operator made for joining it: the
\* leave to join that the first call gives its token reaches no other.
JoinsWithLeave ==
    deletes = 0 => \A n \in Calls :
        LET a == call[n].agent IN
        call[n].at = "done" =>
            \/ a.token = call[cluster[a.id].by].agent.token
            \/ a.id \in MadeFor[a.token]

\* An agent that shares the token of the agent that created the cluster is
\* denied at most once: its second call reads the token after the first call
\* of the creator has let go of the mutex.
DeniedOnce ==
    deletes = 0 => \A a \in Agents : a.id \in token[a.token].join =>
        Cardinality({n \in Calls : call[n].agent = a /\ call[n].at = "denied"}) <= 1

\* Without failures, expired tokens and deletions a cluster never stays
\* without a keyring, which would shut its agent out for ever.
ClusterHasKeyring ==
    AtRest /\ faults = 0 /\ deletes = 0 /\ AllTokensLive =>
        \A i \in Ids : cluster[i].exists => keyring[i] # {}

\* Without failures, deletions and expired tokens every agent gets connected.
EveryAgentConnects ==
    \A a \in Agents :
        <>(\/ agent[a].at = "connected"
           \/ deletes > 0 \/ faults > 0 \/ ~AllTokensLive)

\* Where one server version serves a cluster id, the key of the agent that
\* created a cluster stays in its keyring until DeleteCluster takes it out: a
\* call that is overtaken by a deletion cannot overwrite the keyring of the
\* cluster's successor.
CreatorKeyKept ==
    \A i \in Ids :
        /\ cluster[i].exists
        /\ call[cluster[i].by].at = "done"
        /\ ~(del.at = "cluster" /\ del.id = i)
        => cluster[i].by \in keyring[i]

\* What DeleteCluster says it does: the keyring goes with the cluster.
KeyringGoesWithCluster ==
    AtRest => \A i \in Ids : keyring[i] # {} => cluster[i].exists
=================================================================
