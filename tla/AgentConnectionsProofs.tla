----------------------- MODULE AgentConnectionsProofs -----------------------
(***************************************************************************)
(* For any number of agents, streams, calls and faults, the maps of active *)
(* agents hold only streams whose goroutine has yet to remove them, and    *)
(* agents whose streams did not overlap can be called while connected.     *)
(*                                                                         *)
(* The end of one stream removes its agent even if the map has another     *)
(* stream of it.  That this hurts only streams that overlap is the         *)
(* strengthening MeetingRecorded: two streams of one agent that are in a   *)
(* server at the same time are both recorded as overlapped.                *)
(***************************************************************************)
EXTENDS AgentConnections, TLAPS

\* A stream has an owner from the start, and goroutines only when it is served.
OwnersKnown ==
    \A s \in Streams :
        /\ conn[s] # "none" => owner[s] \in Agents
        /\ conn[s] \in {"none", "details", "get", "watch"} => \A v \in Servers : handler[s][v] = "none"

\* Two streams of an agent that are in a server at the same time are overlapped.
MeetingRecorded ==
    \A s, r \in Streams, v \in Servers :
        s # r /\ owner[s] = owner[r] /\ Present(s, v) /\ Present(r, v) => <<s, v>> \in overlapped

MapInv == EntryHasHandler /\ ConnectedIsReachable /\ MeetingRecorded /\ OwnersKnown

IInv == TypeOK /\ MapInv

USE DEF Servers, Kinds

\* The initial states are typed and no map has an entry.
LEMMA InitInv == Init => IInv
  <1> SUFFICES ASSUME Init PROVE IInv
    OBVIOUS
  <1>1. StreamTypes
    BY ConnectionAssumption DEF Init, StreamTypes
  <1>2. ServerTypes
    BY DEF Init, ServerTypes
  <1>3. CallTypes
    BY DEF Init, CallTypes, NoCall
  <1>4. MapInv
    BY DEF Init, MapInv, EntryHasHandler, ConnectedIsReachable, MeetingRecorded, OwnersKnown, Present
  <1> QED
    BY <1>1, <1>2, <1>3, <1>4 DEF IInv, TypeOK

Budget == [agents : SUBSET Agents, servers : SUBSET Servers,
           backend : {"etcd", "jetstream"}, streams : Nat, losses : Nat, calls : Nat,
           faults : Nat, deletes : Nat]

\* Spending from the budget keeps its type.
LEMMA SpendType ==
  ASSUME StreamTypes, NEW event \in {"streams", "losses", "calls", "faults", "deletes"}, Spend(event)
  PROVE  left' \in Budget
  BY DEF StreamTypes, Spend, Budget

\* A store call or a stream that fails keeps the type of the budget.
LEMMA LookupFailsType ==
  ASSUME StreamTypes, NEW s \in Streams, LookupFails(s) \/ ServeFails(s)
  PROVE  left' \in Budget
  <1>1. CASE UNCHANGED left
    BY <1>1 DEF StreamTypes, Budget
  <1>2. CASE Spend("faults")
    BY <1>2, SpendType
  <1> QED
    BY <1>1, <1>2 DEF LookupFails, ServeFails

\* Steps that leave streams and servers alone keep what is said of the maps.
LEMMA MapUnchanged ==
  ASSUME MapInv, UNCHANGED <<owner, handler, active, overlapped>>, 
         \A s \in Streams : \/ conn'[s] = conn[s]
                            \/ conn[s] # "none" /\ conn'[s] = "closed"
                            \/ conn[s] = "details" /\ conn'[s] = "get"
                            \/ conn[s] = "get" /\ conn'[s] = "watch"
  PROVE  MapInv'
  BY DEF MapInv, EntryHasHandler, ConnectedIsReachable, MeetingRecorded, OwnersKnown, Present

\* The steps of agents, of Connect and of the environment of streams.
LEMMA StreamInv ==
  ASSUME IInv,
         \/ \E a \in Agents : AgentStep(a) \/ DeleteCluster(a)
         \/ \E s \in Streams : StreamStep(s) \/ Lose(s)
  PROVE  IInv'
  <1> USE DEF IInv, TypeOK
  <1>1. ASSUME NEW a \in Agents, NEW s \in Streams, AgentConnects(a, s) PROVE IInv'
    <2>1. StreamTypes'
      BY <1>1, SpendType DEF StreamTypes, Budget, AgentConnects
    <2>2. ServerTypes' /\ CallTypes'
      BY <1>1 DEF ServerTypes, CallTypes, AgentConnects, serverVars
    <2>3. MapInv'
      <3>1. CASE a \in clusters
        <4>1. \A v \in Servers : ~Present(s, v)
          BY <1>1, <3>1 DEF AgentConnects, MapInv, OwnersKnown, Present
        <4>2. \A r \in Streams, v \in Servers : Present(r, v)' <=> Present(r, v)
          BY <1>1 DEF AgentConnects, serverVars, Present
        <4>3. /\ UNCHANGED <<handler, active, overlapped>>
              /\ \A r \in Streams : r # s => owner'[r] = owner[r] /\ conn'[r] = conn[r]
              /\ conn[s] = "none" /\ conn'[s] = "details" /\ owner'[s] = a
          BY <1>1, <3>1 DEF AgentConnects, serverVars, StreamTypes
        <4>4. EntryHasHandler'
          BY <4>1, <4>2, <4>3 DEF MapInv, EntryHasHandler, ServerTypes
        <4>5. ConnectedIsReachable' /\ MeetingRecorded'
          BY <4>1, <4>2, <4>3 DEF MapInv, ConnectedIsReachable, MeetingRecorded
        <4>6. OwnersKnown'
          BY <4>3 DEF MapInv, OwnersKnown
        <4> QED
          BY <4>4, <4>5, <4>6 DEF MapInv
      <3>2. CASE a \notin clusters
        BY <1>1, <3>2, MapUnchanged DEF AgentConnects, serverVars
      <3> QED
        BY <3>1, <3>2
    <2> QED
      BY <2>1, <2>2, <2>3
  <1>2. ASSUME NEW s \in Streams, conn[s] # "none", LookupFails(s) \/ ServeFails(s), Refuse(s) PROVE IInv'
    <2>1. StreamTypes'
      BY <1>2, LookupFailsType DEF StreamTypes, Budget, Refuse
    <2>2. ServerTypes' /\ CallTypes'
      BY <1>2 DEF ServerTypes, CallTypes, Refuse
    <2>3. MapInv'
      BY <1>2, MapUnchanged DEF Refuse, StreamTypes
    <2> QED
      BY <2>1, <2>2, <2>3
  <1>3. ASSUME NEW s \in Streams, LastKnownDetails(s) PROVE IInv'
    <2>1. CASE LookupFails(s) /\ Refuse(s)
      BY <1>2, <1>3, <2>1 DEF LastKnownDetails
    <2>2. CASE conn' = [conn EXCEPT ![s] = "get"] /\ UNCHANGED <<clusters, link, stopped, owner, broken,
                                                         finished, serverVars, call, left>>
      <3>1. StreamTypes' /\ ServerTypes' /\ CallTypes'
        BY <2>2 DEF StreamTypes, ServerTypes, CallTypes, serverVars
      <3>2. MapInv'
        BY <1>3, <2>2, MapUnchanged DEF StreamTypes, serverVars, LastKnownDetails
      <3> QED
        BY <3>1, <3>2
    <2> QED
      BY <1>3, <2>1, <2>2 DEF LastKnownDetails
  <1>4. ASSUME NEW s \in Streams, WatchCluster(s) PROVE IInv'
    <2>1. CASE ServeFails(s) /\ Refuse(s)
      BY <1>2, <1>4, <2>1 DEF WatchCluster
    <2>2. CASE ~(ServeFails(s) /\ Refuse(s))
      <3>0. /\ \E a \in {"serving", "unwatched"} : conn' = [conn EXCEPT ![s] = a]
            /\ handler' = [handler EXCEPT ![s] =
                             [v \in Servers |-> IF v \in left.servers THEN "begin" ELSE "none"]]
            /\ UNCHANGED <<clusters, link, stopped, owner, broken, finished, active, leaked,
                           overlapped, call, left>>
        BY <1>4, <2>2 DEF WatchCluster
      <3>1. StreamTypes' /\ ServerTypes' /\ CallTypes'
        <4>1. StreamTypes'
          BY <3>0 DEF StreamTypes
        <4>2. ServerTypes'
          BY <3>0 DEF ServerTypes
        <4>3. CallTypes'
          BY <3>0 DEF CallTypes
        <4> QED
          BY <4>1, <4>2, <4>3
      <3>2. \A r \in Streams, v \in Servers : Present(r, v)' <=> Present(r, v)
        BY <1>4, <2>2 DEF WatchCluster, ServerTypes, Present, MapInv, OwnersKnown
      <3>3. MapInv'
        BY <1>4, <2>2, <3>2 DEF WatchCluster, StreamTypes, ServerTypes, MapInv, EntryHasHandler,
             ConnectedIsReachable, MeetingRecorded, OwnersKnown
      <3> QED
        BY <3>1, <3>3
    <2> QED
      BY <2>1, <2>2
  <1>5. ASSUME NEW s \in Streams, Lose(s) PROVE IInv'
    <2>1. StreamTypes'
      BY <1>5, SpendType DEF StreamTypes, Budget, Lose
    <2>2. ServerTypes' /\ CallTypes' /\ MapInv'
      BY <1>5, MapUnchanged DEF ServerTypes, CallTypes, Lose, serverVars
    <2> QED
      BY <2>1, <2>2
  <1>6. ASSUME NEW a \in Agents, AgentNotices(a) PROVE IInv'
    BY <1>6, MapUnchanged DEF StreamTypes, ServerTypes, CallTypes, AgentNotices, serverVars
  <1>7. ASSUME NEW s \in Streams, ContextDone(s) PROVE IInv'
    BY <1>7, MapUnchanged DEF StreamTypes, ServerTypes, CallTypes, ContextDone, serverVars
  <1>8. ASSUME NEW s \in Streams, StreamCloses(s) PROVE IInv'
    <2>1. owner[s] \in Agents
      BY <1>8 DEF StreamCloses, MapInv, OwnersKnown
    <2>2. StreamTypes'
      BY <1>8, <2>1 DEF StreamTypes, StreamCloses
    <2>3. ServerTypes' /\ CallTypes' /\ MapInv'
      BY <1>8, MapUnchanged DEF StreamTypes, ServerTypes, CallTypes, StreamCloses, serverVars
    <2> QED
      BY <2>2, <2>3
  <1>9. ASSUME NEW a \in Agents, DeleteCluster(a) PROVE IInv'
    <2>1. StreamTypes'
      BY <1>9, SpendType DEF StreamTypes, Budget, DeleteCluster
    <2>2. ServerTypes' /\ CallTypes' /\ MapInv'
      BY <1>9, MapUnchanged DEF ServerTypes, CallTypes, DeleteCluster, serverVars
    <2> QED
      BY <2>1, <2>2
  <1>10. ASSUME NEW s \in Streams, GetCluster(s) PROVE IInv'
    <2>1. CASE LookupFails(s) /\ Refuse(s)
      BY <1>2, <1>10, <2>1 DEF GetCluster
    <2>2. CASE conn' = [conn EXCEPT ![s] = "watch"] /\ UNCHANGED <<clusters, link, stopped, owner, broken,
                                                         finished, serverVars, call, left>>
      <3>1. StreamTypes' /\ ServerTypes' /\ CallTypes'
        BY <2>2 DEF StreamTypes, ServerTypes, CallTypes, serverVars
      <3>2. MapInv'
        BY <1>10, <2>2, MapUnchanged DEF StreamTypes, serverVars, GetCluster
      <3> QED
        BY <3>1, <3>2
    <2> QED
      BY <1>10, <2>1, <2>2 DEF GetCluster
  <1> QED
    BY <1>1, <1>3, <1>4, <1>5, <1>6, <1>7, <1>8, <1>9, <1>10 DEF AgentStep, StreamStep

\* The goroutines of the sync requester and of the delegate server.
LEMMA HandlerInv ==
  ASSUME IInv, NEW s \in Streams, NEW v \in Servers, HandlerStep(s, v)
  PROVE  IInv'
  <1> USE DEF IInv, TypeOK
  <1>1. CallTypes'
    <2>1. CASE UNCHANGED call
      BY <2>1 DEF CallTypes
    <2>2. CASE AdmitReaders(v)
      BY <2>2 DEF CallTypes, AdmitReaders
    <2> QED
      BY <2>1, <2>2 DEF HandlerStep, RequestLock, Register, RegisterFails, Leave, Deregister
  <1>2. CASE RequestLock(s, v)
    <2>1. StreamTypes' /\ ServerTypes'
      BY <1>2 DEF RequestLock, streamVars, StreamTypes, ServerTypes
    <2>2. \A r \in Streams, w \in Servers : Present(r, w)' <=> Present(r, w)
      BY <1>2 DEF RequestLock, Present, ServerTypes
    <2>3. MapInv'
      BY <1>2, <2>2 DEF RequestLock, streamVars, StreamTypes, ServerTypes, MapInv, EntryHasHandler,
           ConnectedIsReachable, MeetingRecorded, OwnersKnown
    <2> QED
      BY <1>1, <2>1, <2>3
  <1>3. CASE Register(s, v)
    <2>1. owner[s] \in Agents
      BY <1>3 DEF Register, MapInv, OwnersKnown
    <2>2. StreamTypes' /\ ServerTypes'
      BY <1>3, <2>1 DEF Register, streamVars, StreamTypes, ServerTypes, Others
    <2>3. \A r \in Streams, w \in Servers :
            Present(r, w)' <=> (Present(r, w) \/ (r = s /\ w = v))
      BY <1>3 DEF Register, Present, ServerTypes
    <2>4. UNCHANGED <<owner, conn>> /\ active' = [active EXCEPT ![v][owner[s]] = s]
      BY <1>3 DEF Register, streamVars
    <2>5. \A r \in Streams : r # s /\ owner[r] = owner[s] /\ Present(r, v) =>
              <<s, v>> \in overlapped' /\ <<r, v>> \in overlapped'
      BY <1>3 DEF Register, Others
    <2>6. overlapped \subseteq overlapped'
      BY <1>3 DEF Register
    <2>7. EntryHasHandler'
      BY <2>1, <2>3, <2>4 DEF MapInv, EntryHasHandler, ServerTypes
    <2>8. ConnectedIsReachable'
      <3> SUFFICES ASSUME NEW r \in Streams, NEW w \in Servers, Present(r, w)', <<r, w>> \notin overlapped'
                   PROVE  active'[w][owner[r]] = r
        BY <2>4 DEF ConnectedIsReachable
      <3>1. CASE r = s /\ w = v
        BY <2>1, <2>4, <3>1 DEF ServerTypes
      <3>2. CASE ~(r = s /\ w = v)
        <4>1. Present(r, w) /\ active[w][owner[r]] = r
          BY <2>3, <2>6, <3>2 DEF MapInv, ConnectedIsReachable
        <4>2. w # v \/ owner[r] # owner[s]
          BY <2>5, <3>2, <4>1
        <4>3. owner[r] \in Agents
          BY <4>1 DEF MapInv, OwnersKnown, Present
        <4> QED
          BY <2>1, <2>4, <4>1, <4>2, <4>3 DEF ServerTypes
      <3> QED
        BY <3>1, <3>2
    <2>9. MeetingRecorded'
      BY <2>3, <2>4, <2>5, <2>6 DEF MapInv, MeetingRecorded
    <2>10. OwnersKnown'
      BY <1>3, <2>4 DEF Register, MapInv, OwnersKnown, ServerTypes
    <2> QED
      BY <1>1, <2>2, <2>7, <2>8, <2>9, <2>10 DEF MapInv
  <1>4. CASE RegisterFails(s)
    <2>1. StreamTypes' /\ ServerTypes'
      BY <1>4, LookupFailsType DEF Budget, RegisterFails, streamVars, StreamTypes, ServerTypes
    <2>2. \A r \in Streams, w \in Servers : Present(r, w)' <=> Present(r, w)
      BY <1>4 DEF RegisterFails, Present, ServerTypes
    <2>3. MapInv'
      BY <1>4, <2>2 DEF RegisterFails, streamVars, StreamTypes, ServerTypes, MapInv, EntryHasHandler,
           ConnectedIsReachable, MeetingRecorded, OwnersKnown
    <2> QED
      BY <1>1, <2>1, <2>3
  <1>5. CASE Leave(s, v)
    <2>1. StreamTypes' /\ ServerTypes'
      BY <1>5 DEF Leave, streamVars, StreamTypes, ServerTypes
    <2>2. \A r \in Streams, w \in Servers : Present(r, w)' <=> Present(r, w)
      BY <1>5 DEF Leave, Present, ServerTypes
    <2>3. MapInv'
      BY <1>5, <2>2 DEF Leave, streamVars, StreamTypes, ServerTypes, MapInv, EntryHasHandler,
           ConnectedIsReachable, MeetingRecorded, OwnersKnown
    <2> QED
      BY <1>1, <2>1, <2>3
  <1>6. CASE Deregister(s, v)
    <2>1. owner[s] \in Agents /\ Present(s, v)
      BY <1>6 DEF Deregister, MapInv, OwnersKnown, Present
    <2>2. StreamTypes' /\ ServerTypes'
      BY <1>6, <2>1 DEF Deregister, streamVars, StreamTypes, ServerTypes
    <2>3. \A r \in Streams, w \in Servers :
            Present(r, w)' <=> (Present(r, w) /\ ~(r = s /\ w = v))
      BY <1>6 DEF Deregister, Present, ServerTypes
    <2>4. UNCHANGED <<owner, conn, overlapped>> /\ active' = [active EXCEPT ![v][owner[s]] = 0]
      BY <1>6 DEF Deregister, streamVars
    <2>5. EntryHasHandler'
      BY <2>1, <2>3, <2>4 DEF MapInv, EntryHasHandler, ServerTypes
    <2>6. ConnectedIsReachable'
      <3> SUFFICES ASSUME NEW r \in Streams, NEW w \in Servers, Present(r, w)', <<r, w>> \notin overlapped'
                   PROVE  active'[w][owner[r]] = r
        BY <2>4 DEF ConnectedIsReachable
      <3>1. Present(r, w) /\ active[w][owner[r]] = r
        BY <2>3, <2>4 DEF MapInv, ConnectedIsReachable
      <3>2. w # v \/ owner[r] # owner[s]
        BY <2>1, <2>3, <2>4, <3>1 DEF MapInv, MeetingRecorded
      <3>3. owner[r] \in Agents
        BY <3>1 DEF MapInv, OwnersKnown, Present
      <3> QED
        BY <2>1, <2>4, <3>1, <3>2, <3>3 DEF ServerTypes
    <2>7. MeetingRecorded'
      BY <2>3, <2>4 DEF MapInv, MeetingRecorded
    <2>8. OwnersKnown'
      BY <1>6, <2>4 DEF Deregister, MapInv, OwnersKnown, ServerTypes
    <2> QED
      BY <1>1, <2>2, <2>5, <2>6, <2>7, <2>8 DEF MapInv
  <1> QED
    BY <1>2, <1>3, <1>4, <1>5, <1>6 DEF HandlerStep

\* Calls read the maps and change only themselves.
LEMMA CallInv ==
  ASSUME IInv, UNCHANGED <<streamVars, serverVars>>,
         \/ UNCHANGED left
         \/ \E event \in {"calls", "faults"} : Spend(event),
         CallTypes'
  PROVE  IInv'
  <1>1. left' \in Budget
    BY SpendType DEF IInv, TypeOK, StreamTypes, Budget
  <1>2. StreamTypes' /\ ServerTypes'
    BY <1>1 DEF Budget, IInv, TypeOK, StreamTypes, ServerTypes, streamVars, serverVars
  <1>3. MapInv'
    BY MapUnchanged DEF IInv, streamVars, serverVars
  <1> QED
    BY <1>2, <1>3 DEF IInv, TypeOK

\* What a call finds in a map are streams.
LEMMA TargetsAreStreams ==
  ASSUME IInv, NEW c \in Calls
  PROVE  \A to \in Targets(c) : to \subseteq Streams
  <1>1. call[c].target \in Agents \cup {"none"} /\ Server(call[c].kind) \in Servers
    BY DEF IInv, TypeOK, CallTypes, Server
  <1>2. Entries(Server(call[c].kind)) \subseteq Streams
    BY <1>1 DEF IInv, TypeOK, ServerTypes, Entries
  <1>3. call[c].target # "none" => {active[Server(call[c].kind)][call[c].target]} \ {0} \subseteq Streams
    BY <1>1 DEF IInv, TypeOK, ServerTypes
  <1> QED
    BY <1>2, <1>3 DEF Targets

Call == [at : {"idle", "wait", "locked", "invoke", "OK", "NotFound", "error"},
         kind : Kinds \cup {"none"}, target : Agents \cup {"none"}, ctx : Streams \cup {0},
         to : SUBSET Streams, got : SUBSET Streams]

\* A call with another place, other targets or other answers is a call.
LEMMA CallUpdates ==
  ASSUME NEW x \in Call, NEW set \in SUBSET Streams,
         NEW at \in {"wait", "locked", "invoke", "OK", "NotFound", "error"}
  PROVE  /\ [x EXCEPT !.at = at, !.to = set] \in Call
         /\ [x EXCEPT !.got = set, !.at = at] \in Call
  BY DEF Call

\* RequestSync, Request and Broadcast.
LEMMA CallStepInv ==
  ASSUME IInv, NEW c \in Calls,
         \/ CallStep(c)
         \/ \E kind \in Kinds, target \in Agents \cup {"none"}, ctx \in Streams \cup {0} :
               Begin(c, kind, target, ctx)
  PROVE  IInv'
  <1>1. ASSUME NEW kind \in Kinds, NEW target \in Agents \cup {"none"}, NEW ctx \in Streams \cup {0},
               Begin(c, kind, target, ctx)
        PROVE  IInv'
    <2>1. CallTypes'
      BY <1>1 DEF IInv, TypeOK, CallTypes, Begin, NoCall
    <2> QED
      BY <1>1, <2>1, CallInv DEF Begin
  <1>2. CASE Lookup(c)
    <2>1. CallTypes'
      <3>1. PICK to \in Targets(c) :
               call' = [call EXCEPT ![c] =
                          [@ EXCEPT !.at = IF to = {} THEN "NotFound" ELSE "invoke", !.to = to]]
        BY <1>2 DEF Lookup
      <3>2. to \subseteq Streams
        BY TargetsAreStreams
      <3> DEFINE new == [call[c] EXCEPT !.at = IF to = {} THEN "NotFound" ELSE "invoke", !.to = to]
      <3>3. call \in [Calls -> Call]
        BY DEF IInv, TypeOK, CallTypes, Call
      <3>4. new \in Call
        BY <3>2, <3>3, CallUpdates
      <3>5. call' = [call EXCEPT ![c] = new]
        BY <3>1
      <3> HIDE DEF new
      <3> QED
        BY <3>3, <3>4, <3>5 DEF CallTypes, Call
    <2> QED
      BY <1>2, <2>1, CallInv DEF Lookup
  <1>3. ASSUME NEW s \in Streams, Reply(c, s) PROVE IInv'
    <2>1. CallTypes'
      <3> DEFINE got == call[c].got \cup {s}
                 new == [call[c] EXCEPT !.got = got, !.at = IF got = call[c].to THEN "OK" ELSE "invoke"]
      <3>1. call \in [Calls -> Call] /\ got \in SUBSET Streams
        BY DEF IInv, TypeOK, CallTypes, Call
      <3>2. new \in Call
        BY <3>1, CallUpdates
      <3>3. call' = [call EXCEPT ![c] = new]
        BY <1>3 DEF Reply
      <3> HIDE DEF new
      <3> QED
        BY <3>1, <3>2, <3>3 DEF CallTypes, Call
    <2> QED
      BY <1>3, <2>1, CallInv DEF Reply
  <1>4. ASSUME NEW s \in Streams, InvokeFails(c, s) PROVE IInv'
    <2>1. CallTypes'
      BY <1>4 DEF IInv, TypeOK, CallTypes, InvokeFails
    <2> QED
      BY <1>4, <2>1, CallInv DEF InvokeFails
  <1> QED
    BY <1>1, <1>2, <1>3, <1>4 DEF CallStep

\* Every step keeps the invariant.
LEMMA NextInv == IInv /\ [Next]_vars => IInv'
  <1> SUFFICES ASSUME IInv, [Next]_vars PROVE IInv'
    OBVIOUS
  <1>1. CASE UNCHANGED vars
    BY <1>1, MapUnchanged DEF vars, streamVars, serverVars, IInv, TypeOK, StreamTypes, ServerTypes, CallTypes
  <1>2. ASSUME NEW s \in Streams, NEW c \in Calls, PeriodicSync(s, c) PROVE IInv'
    <2>1. owner[s] \in Agents \cup {"none"}
      BY DEF IInv, TypeOK, StreamTypes
    <2> QED
      BY <1>2, <2>1, CallStepInv DEF PeriodicSync
  <1>3. CASE Environment
    <2>1. left.agents \subseteq Agents
      BY DEF IInv, TypeOK, StreamTypes
    <2> QED
      BY <1>2, <1>3, <2>1, StreamInv, CallStepInv DEF Environment
  <1> QED
    BY <1>1, <1>3, StreamInv, HandlerInv, CallStepInv DEF Next

\* The inductive invariant holds throughout.
LEMMA Invariance == Spec => []IInv
  BY InitInv, NextInv, PTL DEF Spec

\* Type correctness: calls of the gateway are only ever made on streams, and no
\* variable leaves its type.
THEOREM TypeCorrect == Spec => []TypeOK
  BY Invariance, PTL DEF IInv

\* Nothing in the maps of the sync requester and the delegate server outlives the
\* goroutine that has to remove it, for any number of agents and overlapping streams.
THEOREM NoDeadEntry == Spec => []EntryHasHandler
  BY Invariance, PTL DEF IInv, MapInv

\* An agent whose streams do not overlap in a server can be called for as long as
\* the server believes it to be connected.
THEOREM Reachability == Spec => []ConnectedIsReachable
  BY Invariance, PTL DEF IInv, MapInv
=============================================================================
