------------------------ MODULE SessionTakeoverProofs ------------------------
(***************************************************************************)
(* SessionTakeover implements SessionOwnership for any number of nodes,    *)
(* CONNECTs, failures, crashes and sweeps.  Where the CONNECTs reach the   *)
(* broker at different nodes, the owner alone keeps running once all is    *)
(* handled, and every registry names what runs at its node.                *)
(***************************************************************************)
EXTENDS SessionTakeover, TLAPS

PcState == {"idle", "reset", "recover", "expire", "create", "check", "start",
            "confirm", "undo", "ok", "superseded", "failed"}
ActorState == {"none", "starting", "active", "inactive", "deleting", "stopped"}
Request == [op : {"register", "unregister"}, node : Nodes, instance : Nat]
MapEntry == [node : Nodes, instance : Nat]
Notice == [instance : Nat, step : {"unregister", "remove"}]

\* The steps of CreateSessionMessage before the session actor exists.
Unstarted == {"idle", "reset", "recover", "expire", "create", "check", "start"}

Types ==
  /\ log \in Seq(Request)
  /\ applied \in [Nodes -> Nat]
  /\ session_actor_map \in [Nodes -> MapEntry]
  /\ pc \in [Connects -> PcState]
  /\ instance \in [Connects -> Nat]
  /\ actor \in [Connects -> ActorState]
  /\ writes \subseteq [by : Connects, op : {"disconnect", "delete"}]
  /\ lifecycle \in [Nodes -> Seq(Notice)]

\* A CONNECT holds the id of a registration of its own as soon as it has one.
OwnIds ==
  /\ \A a \in Connects : pc[a] = "idle" <=> instance[a] = 0
  /\ \A a \in Connects : instance[a] # 0 => instance[a] \in Issued
  /\ \A a \in Connects : \A b \in Connects :
       instance[a] = instance[b] /\ instance[a] # 0 => a = b

NotYetStarted == \A a \in Connects : pc[a] \in Unstarted => actor[a] = "none"

\* What a SessionStopped message says is true.
NoticesTrue ==
  \A n \in Nodes : \A k \in 1 .. Len(lifecycle[n]) :
    \E a \in Connects : actor[a] = "stopped" /\ instance[a] = lifecycle[n][k].instance

IInv == Types /\ OwnIds /\ NotYetStarted /\ NoticesTrue

Live == {instance[a] : a \in {b \in Connects : Running(b)}}
Ended == {instance[a] : a \in {b \in Connects : actor[b] = "stopped"}}

\* The invariant holds initially.
LEMMA InitInv == Init => IInv
  <1> SUFFICES ASSUME Init PROVE IInv
    BY Zenon
  <1>1. Types
    BY TakeoverAssumption DEF Init, Types, Request, NoEntry, MapEntry, PcState, ActorState, Notice
  <1>2. OwnIds /\ NotYetStarted /\ NoticesTrue
    BY DEF Init, OwnIds, NotYetStarted, NoticesTrue, Unstarted
  <1> QED BY <1>1, <1>2, Zenon DEF IInv

\* Applying a well-formed request at a node keeps the replicas well formed.
LEMMA ApplyTypes ==
  ASSUME Types, NEW n \in Nodes, NEW req \in Request, NEW index \in Nat, ApplyAt(n, req, index)
  PROVE  applied' \in [Nodes -> Nat] /\ session_actor_map' \in [Nodes -> MapEntry]
  <1>1. ApplyRequest(req, index, session_actor_map[n]) \in MapEntry
    BY TakeoverAssumption, Zenon DEF Types, ApplyRequest, MapEntry, Request, NoEntry
  <1> QED BY <1>1, Zenon DEF Types, ApplyAt

\* Committing a request extends the log and keeps everything well formed.
LEMMA CommitTypes ==
  ASSUME Types, NEW req \in Request, Commit(req)
  PROVE  /\ log' \in Seq(Request) /\ Len(log') = Len(log) + 1
         /\ \A i \in 1 .. Len(log) : log'[i] = log[i]
         /\ log'[Len(log) + 1] = req
         /\ applied' \in [Nodes -> Nat] /\ session_actor_map' \in [Nodes -> MapEntry]
         /\ session_actor_map'[Leader] =
              ApplyRequest(req, Len(log) + 1, session_actor_map[Leader])
  <1>1. log \in Seq(Request) /\ Len(log) \in Nat
    BY DEF Types
  <1>2. log' = Append(log, req)
    BY Zenon DEF Commit
  <1>3. applied' \in [Nodes -> Nat] /\ session_actor_map' \in [Nodes -> MapEntry]
    BY <1>1, ApplyTypes, TakeoverAssumption DEF Commit
  <1>4. session_actor_map'[Leader] = ApplyRequest(req, Len(log) + 1, session_actor_map[Leader])
    BY TakeoverAssumption, Zenon DEF Commit, ApplyAt, Types
  <1> QED BY <1>1, <1>2, <1>3, <1>4

\* What a commit does to the set of issued ids.
LEMMA CommitIssued ==
  ASSUME Types, NEW req \in Request, Commit(req)
  PROVE  Issued' = IF req.op = "register" THEN Issued \cup {Len(log) + 1} ELSE Issued
  <1>1. /\ Len(log) \in Nat /\ Len(log') = Len(log) + 1
        /\ \A i \in 1 .. Len(log) : log'[i] = log[i]
        /\ log'[Len(log) + 1] = req
    BY CommitTypes DEF Types
  <1>2. ASSUME NEW i PROVE i \in 1 .. Len(log') <=> (i \in 1 .. Len(log) \/ i = Len(log) + 1)
    BY <1>1
  <1>3. Issued' = {i \in 1 .. Len(log') : log'[i].op = "register"}
    BY Zenon DEF Issued
  <1>4. CASE req.op = "register"
    <2>1. ASSUME NEW i PROVE i \in Issued' <=> i \in Issued \cup {Len(log) + 1}
      BY <1>1, <1>2, <1>3, <1>4, Zenon DEF Issued
    <2> QED BY <2>1, <1>4, Zenon
  <1>5. CASE req.op # "register"
    <2>1. ASSUME NEW i PROVE i \in Issued' <=> i \in Issued
      BY <1>1, <1>2, <1>3, <1>5, Zenon DEF Issued
    <2> QED BY <2>1, <1>5, Zenon
  <1> QED BY <1>4, <1>5, Zenon

AbstractStep == [Ownership!Next]_(Ownership!abstractVars)

\* A step that leaves log, owner, ids and actors alone is a stutter of SessionOwnership.
LEMMA Stutter ==
  ASSUME log' = log, Owner' = Owner, instance' = instance, actor' = actor
  PROVE  AbstractStep
  <1>1. Issued' = Issued /\ Live' = Live /\ Ended' = Ended
    BY Zenon DEF Issued, Live, Ended, Running
  <1> QED BY <1>1, Zenon DEF AbstractStep, Ownership!abstractVars, Live, Ended

\* Steps of CreateSessionMessage that only move on.
LEMMA PcStep ==
  ASSUME IInv, NEW a \in Connects, NEW v \in PcState \ {"idle"},
         pc[a] # "idle", v \in Unstarted => pc[a] \in Unstarted,
         pc' = [pc EXCEPT ![a] = v],
         UNCHANGED <<log, applied, session_actor_map, instance, actor, writes, lifecycle>>
  PROVE  IInv' /\ AbstractStep
  <1>1. Types'
    BY Zenon DEF IInv, Types
  <1>2. OwnIds'
    BY Zenon DEF IInv, Types, OwnIds, Issued
  <1>3. NotYetStarted'
    BY Zenon DEF IInv, Types, NotYetStarted
  <1>4. NoticesTrue'
    BY Zenon DEF IInv, NoticesTrue
  <1>5. AbstractStep
    BY Stutter, Zenon DEF Owner
  <1> QED BY <1>1, <1>2, <1>3, <1>4, <1>5, Zenon DEF IInv

\* Steps of the requests in flight, the managers' mailboxes and the sweep.
LEMMA OutsideStep ==
  ASSUME IInv, writes' \subseteq writes,
         UNCHANGED <<log, applied, session_actor_map, pc, instance, actor, lifecycle>>
  PROVE  IInv' /\ AbstractStep
  <1>1. Types'
    BY Zenon DEF IInv, Types
  <1>2. OwnIds' /\ NotYetStarted' /\ NoticesTrue'
    BY ZenonT(30) DEF IInv, OwnIds, Issued, NotYetStarted, NoticesTrue
  <1>3. AbstractStep
    BY Stutter, Zenon DEF Owner
  <1> QED BY <1>1, <1>2, <1>3, Zenon DEF IInv

\* Register is a Claim: the log index of the registration exceeds all ids.
LEMMA RegisterStep ==
  ASSUME IInv, NEW a \in Connects, Register(a)
  PROVE  IInv' /\ AbstractStep
  <1> DEFINE i == Len(log) + 1
  <1> DEFINE req == RegisterSession(Home[a])
  <1>0. Types /\ OwnIds /\ NotYetStarted /\ NoticesTrue
    BY Zenon DEF IInv
  <1>1. req \in Request /\ req.op = "register"
    BY TakeoverAssumption, Zenon DEF RegisterSession, Request
  <1>2. Commit(req)
    BY Zenon DEF Register
  <1>3. i \in Nat /\ i # 0 /\ \A j \in Issued : j \in Nat /\ j < i
    BY <1>0 DEF Types, Issued
  <1>4. /\ log' \in Seq(Request) /\ applied' \in [Nodes -> Nat]
        /\ session_actor_map' \in [Nodes -> MapEntry]
        /\ session_actor_map'[Leader] = ApplyRequest(req, i, session_actor_map[Leader])
    BY <1>0, <1>1, <1>2, CommitTypes, Zenon
  <1>5. Issued' = Issued \cup {i}
    BY <1>0, <1>1, <1>2, CommitIssued, Zenon
  <1>6. /\ pc[a] = "idle" /\ actor' = actor /\ lifecycle' = lifecycle /\ writes' = writes
        /\ instance' = [instance EXCEPT ![a] = i]
        /\ \E v \in {"recover", "reset", "failed"} : pc' = [pc EXCEPT ![a] = v]
    BY Zenon DEF Register, Goto, actorVars
  <1>7. instance[a] = 0 /\ actor[a] = "none"
    BY <1>0, <1>6, Zenon DEF OwnIds, NotYetStarted, Unstarted
  <1> HIDE DEF i, req
  <1>8. Types'
    BY <1>0, <1>3, <1>4, <1>6, Zenon DEF Types, PcState
  <1>9. OwnIds'
    <2>1. \A b \in Connects : pc'[b] = "idle" <=> instance'[b] = 0
      BY <1>0, <1>3, <1>6, Zenon DEF Types, OwnIds
    <2>2. \A b \in Connects : instance'[b] # 0 => instance'[b] \in Issued'
      BY <1>0, <1>5, <1>6, Zenon DEF Types, OwnIds
    <2>3. \A b \in Connects : \A c \in Connects :
            instance'[b] = instance'[c] /\ instance'[b] # 0 => b = c
      BY <1>0, <1>3, <1>6 DEF Types, OwnIds
    <2> QED BY <2>1, <2>2, <2>3, Zenon DEF OwnIds
  <1>10. NotYetStarted'
    BY <1>0, <1>6, <1>7, Zenon DEF Types, NotYetStarted, Unstarted
  <1>11. NoticesTrue'
    BY <1>0, <1>6, <1>7 DEF Types, NoticesTrue
  <1>12. AbstractStep
    <2>1. Owner' = i
      BY <1>1, <1>4 DEF Owner, ApplyRequest
    <2>2. Live' = Live
      BY <1>0, <1>6, <1>7, Zenon DEF Live, Running, Types
    <2>3. Ended' = Ended
      BY <1>0, <1>6, <1>7, Zenon DEF Ended, Types
    <2>4. Ownership!Claim
      BY <2>1, <2>2, <2>3, <1>3, <1>5, Zenon DEF Ownership!Claim, Live, Ended
    <2> QED BY <2>4, Zenon DEF AbstractStep, Ownership!Next
  <1> QED BY <1>8, <1>9, <1>10, <1>11, <1>12, Zenon DEF IInv

\* StartSession is a Start: the CONNECT's id was issued and never ran before.
LEMMA StartStep ==
  ASSUME IInv, NEW a \in Connects, StartSession(a)
  PROVE  IInv' /\ AbstractStep
  <1>0. Types /\ OwnIds /\ NotYetStarted /\ NoticesTrue
    BY Zenon DEF IInv
  <1>1. /\ pc[a] = "start" /\ pc' = [pc EXCEPT ![a] = "confirm"]
        /\ actor' = [actor EXCEPT ![a] = "starting"]
        /\ log' = log /\ applied' = applied /\ session_actor_map' = session_actor_map
        /\ instance' = instance /\ writes' = writes /\ lifecycle' = lifecycle
    BY Zenon DEF StartSession, Goto, mapVars
  <1>2. actor[a] = "none" /\ instance[a] # 0
    BY <1>0, <1>1, Zenon DEF OwnIds, NotYetStarted, Unstarted
  <1>3. Types'
    BY <1>0, <1>1, Zenon DEF Types, PcState, ActorState
  <1>4. OwnIds'
    BY <1>0, <1>1, Zenon DEF Types, OwnIds, Issued
  <1>5. NotYetStarted'
    BY <1>0, <1>1, Zenon DEF Types, NotYetStarted, Unstarted
  <1>6. NoticesTrue'
    BY <1>0, <1>1, <1>2, Zenon DEF Types, NoticesTrue
  <1>7. AbstractStep
    <2>1. Issued' = Issued /\ Owner' = Owner
      BY <1>1, Zenon DEF Issued, Owner
    <2>2. Live' = Live \cup {instance[a]}
      <3>1. ASSUME NEW b \in Connects PROVE Running(b)' <=> (Running(b) \/ b = a)
        BY <1>0, <1>1, Zenon DEF Running, Types
      <3> QED BY <3>1, <1>1, Zenon DEF Live
    <2>3. Ended' = Ended
      BY <1>0, <1>1, <1>2, Zenon DEF Ended, Types
    <2>4. instance[a] \in Issued
      BY <1>0, <1>2, Zenon DEF OwnIds
    <2>5. instance[a] \notin Live /\ instance[a] \notin Ended
      BY <1>0, <1>2, Zenon DEF OwnIds, Live, Ended, Running
    <2>6. PICK i : i = instance[a]
      BY Zenon
    <2>7. \E j \in Issued : Ownership!Start(j)
      <3>1. Ownership!Start(i)
        BY <2>1, <2>2, <2>3, <2>4, <2>5, <2>6, Zenon DEF Ownership!Start, Live, Ended
      <3> QED BY <2>4, <2>6, <3>1, Zenon
    <2>8. Ownership!Next
      BY <2>7, Zenon DEF Ownership!Next
    <2> QED BY <2>8, Zenon DEF AbstractStep
  <1> QED BY <1>3, <1>4, <1>5, <1>6, <1>7, Zenon DEF IInv

\* Ending the sessions of a set of CONNECTs is an End.
LEMMA EndStep ==
  ASSUME Types, OwnIds, NotYetStarted, NEW S \in SUBSET Connects,
         \A a \in S : Running(a),
         actor' = [b \in Connects |-> IF b \in S THEN "stopped" ELSE actor[b]],
         log' = log, Owner' = Owner, instance' = instance
  PROVE  AbstractStep
  <1> DEFINE I == {instance[a] : a \in S}
  <1>1. Issued' = Issued
    BY Zenon DEF Issued
  <1>2. \A a \in Connects : Running(a) => instance[a] # 0
    BY Zenon DEF OwnIds, NotYetStarted, Running, Unstarted, Types
  <1>3. I \subseteq Live
    BY Zenon DEF Live
  <1>4. Live' = Live \ I
    <2>1. \A b \in Connects : Running(b)' <=> (Running(b) /\ b \notin S)
      BY Zenon DEF Running
    <2>2. \A b \in Connects : Running(b) => (instance[b] \in I <=> b \in S)
      BY <1>2, Zenon DEF OwnIds
    <2>3. Live' = {instance[b] : b \in {c \in Connects : Running(c) /\ c \notin S}}
      BY <2>1, Zenon DEF Live
    <2> HIDE DEF I
    <2> QED BY <2>2, <2>3, Zenon DEF Live
  <1>5. Ended' = Ended \cup I
    BY Zenon DEF Ended
  <1>6. PICK K : K = I
    BY Zenon
  <1>7. \E J \in SUBSET Live : Ownership!End(J)
    <2> HIDE DEF I
    <2>1. Ownership!End(K)
      BY <1>1, <1>3, <1>4, <1>5, <1>6, Zenon DEF Ownership!End, Live, Ended
    <2>2. K \in SUBSET Live
      BY <1>3, <1>6, Zenon
    <2> QED BY <2>1, <2>2, Zenon
  <1>8. Ownership!Next
    BY <1>7, Zenon DEF Ownership!Next, Live
  <1> QED BY <1>8, Zenon DEF AbstractStep

\* force_stop, from whichever handler: an End of that one session.
LEMMA StopStep ==
  ASSUME IInv, NEW a \in Connects, Running(a), Stop(a), writes' \subseteq writes,
         UNCHANGED <<log, applied, session_actor_map, pc, instance>>
  PROVE  IInv' /\ AbstractStep
  <1> DEFINE note == [instance |-> instance[a], step |-> "unregister"]
  <1>0. Types /\ OwnIds /\ NotYetStarted /\ NoticesTrue
    BY Zenon DEF IInv
  <1>1. /\ actor' = [actor EXCEPT ![a] = "stopped"]
        /\ lifecycle' = [lifecycle EXCEPT ![Home[a]] = Append(lifecycle[Home[a]], note)]
    BY Zenon DEF Stop
  <1>2. Home[a] \in Nodes /\ note \in Notice /\ lifecycle[Home[a]] \in Seq(Notice)
    BY <1>0, TakeoverAssumption, Zenon DEF Types, Notice
  <1>3. Types'
    <2>1. lifecycle' \in [Nodes -> Seq(Notice)]
      BY <1>0, <1>1, <1>2 DEF Types
    <2>2. actor' \in [Connects -> ActorState]
      BY <1>0, <1>1, Zenon DEF Types, ActorState
    <2> QED BY <1>0, <2>1, <2>2, Zenon DEF Types
  <1>4. OwnIds'
    BY <1>0, Zenon DEF OwnIds, Issued
  <1>5. pc[a] \notin Unstarted
    BY <1>0, Zenon DEF NotYetStarted, Running
  <1>6. NotYetStarted'
    BY <1>0, <1>1, <1>5, Zenon DEF Types, NotYetStarted
  <1>7. actor'[a] = "stopped" /\ \A b \in Connects : actor[b] = "stopped" => actor'[b] = "stopped"
    BY <1>0, <1>1, Zenon DEF Types
  <1>8. NoticesTrue'
    <2> SUFFICES ASSUME NEW n \in Nodes, NEW k \in 1 .. Len(lifecycle'[n])
                 PROVE  \E b \in Connects :
                          actor'[b] = "stopped" /\ instance'[b] = lifecycle'[n][k].instance
      BY Zenon DEF NoticesTrue
    <2>1. CASE n # Home[a] \/ k # Len(lifecycle[n]) + 1
      <3>1. k \in 1 .. Len(lifecycle[n]) /\ lifecycle'[n][k] = lifecycle[n][k]
        BY <1>0, <1>1, <1>2, <2>1, SMTT(30) DEF Types
      <3>2. PICK b \in Connects : actor[b] = "stopped" /\ instance[b] = lifecycle[n][k].instance
        BY <1>0, <3>1, Zenon DEF NoticesTrue
      <3> QED BY <3>1, <3>2, <1>7, Zenon
    <2>2. CASE n = Home[a] /\ k = Len(lifecycle[n]) + 1
      <3>1. lifecycle'[n][k] = note
        BY <1>0, <1>1, <1>2, <2>2 DEF Types
      <3> QED BY <3>1, <1>7
    <2> QED BY <2>1, <2>2, Zenon
  <1>9. AbstractStep
    <2>1. actor' = [b \in Connects |-> IF b \in {a} THEN "stopped" ELSE actor[b]]
      BY <1>0, <1>1, Zenon DEF Types
    <2>2. {a} \in SUBSET Connects /\ (\A b \in {a} : Running(b)) /\ Owner' = Owner
      BY Zenon DEF Owner
    <2> QED BY <1>0, <2>1, <2>2, EndStep, Zenon
  <1> QED BY <1>3, <1>4, <1>6, <1>8, <1>9, Zenon DEF IInv

\* A running actor changes state and keeps running.
LEMMA RunStep ==
  ASSUME IInv, NEW a \in Connects, Running(a),
         NEW v \in {"active", "inactive", "deleting"},
         actor' = [actor EXCEPT ![a] = v],
         writes' \subseteq [by : Connects, op : {"disconnect", "delete"}],
         UNCHANGED <<log, applied, session_actor_map, pc, instance, lifecycle>>
  PROVE  IInv' /\ AbstractStep
  <1>0. Types /\ OwnIds /\ NotYetStarted /\ NoticesTrue
    BY Zenon DEF IInv
  <1>1. Types'
    BY <1>0, Zenon DEF Types, ActorState
  <1>2. OwnIds'
    BY <1>0, Zenon DEF OwnIds, Issued
  <1>3. pc[a] \notin Unstarted
    BY <1>0, Zenon DEF NotYetStarted, Running
  <1>4. NotYetStarted'
    BY <1>0, <1>3, Zenon DEF Types, NotYetStarted
  <1>5. \A b \in Connects : Running(b)' <=> Running(b)
    BY <1>0, Zenon DEF Types, Running
  <1>6. \A b \in Connects : actor'[b] = "stopped" <=> actor[b] = "stopped"
    BY <1>0, Zenon DEF Types, Running
  <1>7. NoticesTrue'
    BY <1>0, <1>6, Zenon DEF NoticesTrue
  <1>8. AbstractStep
    <2>1. Issued' = Issued /\ Owner' = Owner
      BY Zenon DEF Issued, Owner
    <2>2. Live' = Live
      BY <1>5, Zenon DEF Live
    <2>3. Ended' = Ended
      BY <1>6, Zenon DEF Ended
    <2> QED BY <2>1, <2>2, <2>3, Zenon DEF AbstractStep, Ownership!abstractVars, Live, Ended
  <1> QED BY <1>1, <1>2, <1>4, <1>7, <1>8, Zenon DEF IInv

\* A follower that catches up changes nothing the leader decides.
LEMMA FollowerStep ==
  ASSUME IInv, NEW n \in Nodes, ApplyNext(n)
  PROVE  IInv' /\ AbstractStep
  <1> DEFINE index == applied[n] + 1
  <1>0. Types /\ OwnIds /\ NotYetStarted /\ NoticesTrue
    BY Zenon DEF IInv
  <1>1. /\ n # Leader /\ applied[n] < Len(log) /\ ApplyAt(n, log[index], index)
        /\ UNCHANGED <<log, pc, instance, actor, writes, lifecycle>>
    BY Zenon DEF ApplyNext, connectVars, actorVars
  <1>2. index \in Nat /\ log[index] \in Request
    BY <1>0, <1>1 DEF Types
  <1> HIDE DEF index
  <1>3. applied' \in [Nodes -> Nat] /\ session_actor_map' \in [Nodes -> MapEntry]
    BY <1>0, <1>1, <1>2, ApplyTypes, Zenon
  <1>4. Types'
    BY <1>0, <1>1, <1>3, Zenon DEF Types
  <1>5. OwnIds' /\ NotYetStarted' /\ NoticesTrue'
    BY <1>0, <1>1, ZenonT(30) DEF OwnIds, Issued, NotYetStarted, NoticesTrue
  <1>6. Owner' = Owner
    BY <1>0, <1>1, TakeoverAssumption, Zenon DEF Owner, ApplyAt, Types
  <1>7. AbstractStep
    BY <1>1, <1>6, Stutter, Zenon
  <1> QED BY <1>4, <1>5, <1>7, Zenon DEF IInv

\* Unregistering a stopped session is a Release if it still owns the client, and
\* has no effect on the owner otherwise.
LEMMA UnregisterStep ==
  ASSUME IInv, NEW n \in Nodes, UnregisterStopped(n)
  PROVE  IInv' /\ AbstractStep
  <1>0. Types /\ OwnIds /\ NotYetStarted /\ NoticesTrue
    BY Zenon DEF IInv
  <1>1. /\ lifecycle[n] # <<>> /\ lifecycle' = [lifecycle EXCEPT ![n][1].step = "remove"]
        /\ UNCHANGED <<pc, instance, actor, writes>>
    BY Zenon DEF UnregisterStopped, connectVars
  <1>2. PICK i : i = Head(lifecycle[n]).instance
    BY Zenon
  <1>3. lifecycle[n] \in Seq(Notice) /\ 1 \in 1 .. Len(lifecycle[n]) /\ i = lifecycle[n][1].instance
    BY <1>0, <1>1, <1>2 DEF Types
  <1>4. i \in Nat /\ i \in Ended
    BY <1>0, <1>3, Zenon DEF NoticesTrue, Ended, Types
  <1>5. lifecycle' \in [Nodes -> Seq(Notice)]
    <2>1. [lifecycle[n] EXCEPT ![1].step = "remove"] \in Seq(Notice)
      <3>0. lifecycle[n][1] \in Notice
        BY <1>3
      <3>1. [lifecycle[n][1] EXCEPT !.step = "remove"] \in Notice
        BY <3>0, Zenon DEF Notice
      <3> QED BY <1>3, <3>1
    <2> QED BY <1>0, <1>1, <2>1, Zenon DEF Types
  <1>6. \A m \in Nodes : /\ Len(lifecycle'[m]) = Len(lifecycle[m])
                         /\ \A k \in 1 .. Len(lifecycle[m]) :
                              lifecycle'[m][k].instance = lifecycle[m][k].instance
    BY <1>0, <1>1, <1>3, SMTT(30) DEF Types, Notice
  <1>7. NotYetStarted' /\ NoticesTrue'
    BY <1>0, <1>1, <1>6 DEF NotYetStarted, NoticesTrue
  <1>8. CASE Commit(UnregisterSession(i))
    <2> DEFINE req == UnregisterSession(i)
    <2>1. req \in Request /\ req.op = "unregister" /\ req.instance = i
      BY <1>4, TakeoverAssumption, Zenon DEF UnregisterSession, Request
    <2> HIDE DEF req
    <2>2. Commit(req)
      BY <1>8, Zenon DEF req
    <2>3. /\ log' \in Seq(Request) /\ applied' \in [Nodes -> Nat]
          /\ session_actor_map' \in [Nodes -> MapEntry]
          /\ session_actor_map'[Leader] = ApplyRequest(req, Len(log) + 1, session_actor_map[Leader])
      BY <1>0, <2>1, <2>2, CommitTypes, Zenon
    <2>4. Issued' = Issued
      BY <1>0, <2>1, <2>2, CommitIssued, Zenon
    <2>5. Types'
      BY <1>0, <1>1, <1>5, <2>3, Zenon DEF Types
    <2>6. OwnIds'
      BY <1>0, <1>1, <2>4, Zenon DEF OwnIds
    <2>7. Live' = Live /\ Ended' = Ended
      BY <1>1, Zenon DEF Live, Ended, Running
    <2>8. Owner' = IF Owner = i THEN 0 ELSE Owner
      BY <2>1, <2>3 DEF Owner, ApplyRequest, NoEntry
    <2>9. CASE Owner = i
      <3>1. Ownership!Release
        BY <1>4, <2>4, <2>7, <2>8, <2>9, Zenon DEF Ownership!Release, Live, Ended
      <3>2. AbstractStep
        BY <3>1, Zenon DEF AbstractStep, Ownership!Next
      <3> QED BY <3>2, <2>5, <2>6, <1>7, Zenon DEF IInv
    <2>10. CASE Owner # i
      <3>1. AbstractStep
        BY <2>4, <2>7, <2>8, <2>10, Zenon DEF AbstractStep, Ownership!abstractVars, Live, Ended
      <3> QED BY <3>1, <2>5, <2>6, <1>7, Zenon DEF IInv
    <2> QED BY <2>9, <2>10, Zenon
  <1>9. CASE UNCHANGED mapVars
    <2>1. UNCHANGED <<log, applied, session_actor_map>> /\ Owner' = Owner
      BY <1>9, Zenon DEF mapVars, Owner
    <2>2. Types'
      BY <1>0, <1>1, <1>5, <2>1, Zenon DEF Types
    <2>3. OwnIds'
      BY <1>0, <1>1, <2>1, Zenon DEF OwnIds, Issued
    <2>4. AbstractStep
      BY <1>1, <2>1, Stutter, Zenon
    <2> QED BY <2>2, <2>3, <2>4, <1>7, Zenon DEF IInv
  <1>10. Commit(UnregisterSession(i)) \/ UNCHANGED mapVars
    <2>1. Commit(UnregisterSession(Head(lifecycle[n]).instance)) \/ UNCHANGED mapVars
      BY Zenon DEF UnregisterStopped
    <2> QED BY <2>1, <1>2, Zenon DEF Commit, UnregisterSession
  <1> QED BY <1>8, <1>9, <1>10, Zenon

\* RemoveSessionMessage takes the notice off the channel.
LEMMA RemoveStep ==
  ASSUME IInv, NEW n \in Nodes, RemoveSession(n)
  PROVE  IInv' /\ AbstractStep
  <1>0. Types /\ OwnIds /\ NotYetStarted /\ NoticesTrue
    BY Zenon DEF IInv
  <1>1. /\ lifecycle[n] # <<>> /\ lifecycle' = [lifecycle EXCEPT ![n] = Tail(lifecycle[n])]
        /\ UNCHANGED <<log, applied, session_actor_map, pc, instance, actor, writes>>
    BY Zenon DEF RemoveSession, mapVars, connectVars
  <1>2. /\ lifecycle[n] \in Seq(Notice) /\ Tail(lifecycle[n]) \in Seq(Notice)
        /\ Len(Tail(lifecycle[n])) = Len(lifecycle[n]) - 1
        /\ \A k \in 1 .. Len(lifecycle[n]) - 1 : Tail(lifecycle[n])[k] = lifecycle[n][k + 1]
    BY <1>0, <1>1 DEF Types
  <1>3. Types'
    BY <1>0, <1>1, <1>2, Zenon DEF Types
  <1>4. OwnIds' /\ NotYetStarted'
    BY <1>0, <1>1, Zenon DEF OwnIds, Issued, NotYetStarted
  <1>5. NoticesTrue'
    <2> SUFFICES ASSUME NEW m \in Nodes, NEW k \in 1 .. Len(lifecycle'[m])
                 PROVE  \E b \in Connects :
                          actor'[b] = "stopped" /\ instance'[b] = lifecycle'[m][k].instance
      BY Zenon DEF NoticesTrue
    <2>1. \E j \in 1 .. Len(lifecycle[m]) : lifecycle'[m][k] = lifecycle[m][j]
      <3>1. CASE m = n
        <4>1. k + 1 \in 1 .. Len(lifecycle[n]) /\ lifecycle'[n][k] = lifecycle[n][k + 1]
          BY <1>0, <1>1, <1>2, <3>1 DEF Types
        <4> QED BY <4>1, <3>1, Zenon
      <3>2. CASE m # n
        BY <1>0, <1>1, <3>2, Zenon DEF Types
      <3> QED BY <3>1, <3>2, Zenon
    <2> QED BY <2>1, <1>0, <1>1, Zenon DEF NoticesTrue
  <1>6. AbstractStep
    BY <1>1, Stutter, Zenon DEF Owner
  <1> QED BY <1>3, <1>4, <1>5, <1>6, Zenon DEF IInv

\* A crash ends every session of the node and forgets its queues.
LEMMA CrashStep ==
  ASSUME IInv, NEW n \in Nodes, Crash(n)
  PROVE  IInv' /\ AbstractStep
  <1> DEFINE S == {a \in Connects : Home[a] = n /\ Running(a)}
  <1>0. Types /\ OwnIds /\ NotYetStarted /\ NoticesTrue
    BY Zenon DEF IInv
  <1>1. /\ n # Leader
        /\ applied' = [applied EXCEPT ![n] = 0]
        /\ session_actor_map' = [session_actor_map EXCEPT ![n] = NoEntry]
        /\ lifecycle' = [lifecycle EXCEPT ![n] = <<>>]
        /\ UNCHANGED <<log, instance, writes>>
    BY Zenon DEF Crash
  <1>2. pc' = [a \in Connects |-> IF Home[a] = n /\ pc[a] \notin {"idle", "ok", "superseded"}
                                   THEN "failed" ELSE pc[a]]
    BY Zenon DEF Crash
  <1>3. actor' = [a \in Connects |-> IF a \in S THEN "stopped" ELSE actor[a]]
    BY Zenon DEF Crash
  <1>4. Types'
    <2>1. pc' \in [Connects -> PcState] /\ actor' \in [Connects -> ActorState]
      BY <1>0, <1>2, <1>3, Zenon DEF Types, PcState, ActorState
    <2>2. NoEntry \in MapEntry
      BY TakeoverAssumption, Zenon DEF NoEntry, MapEntry
    <2>3. <<>> \in Seq(Notice)
      OBVIOUS
    <2> QED BY <1>0, <1>1, <2>1, <2>2, <2>3, Zenon DEF Types
  <1>5. OwnIds'
    BY <1>0, <1>1, <1>2, Zenon DEF Types, OwnIds, Issued
  <1>6. NotYetStarted'
    <2>1. \A a \in S : pc[a] \notin Unstarted
      BY <1>0, Zenon DEF NotYetStarted, Running
    <2>2. \A a \in Connects : pc'[a] \in Unstarted => pc[a] = pc'[a]
      BY <1>2, Zenon DEF Unstarted
    <2> QED BY <1>0, <1>3, <2>1, <2>2, Zenon DEF NotYetStarted
  <1>7. NoticesTrue'
    <2>1. \A b \in Connects : actor[b] = "stopped" => actor'[b] = "stopped"
      BY <1>3, Zenon
    <2>2. \A m \in Nodes : \A k \in 1 .. Len(lifecycle'[m]) :
            k \in 1 .. Len(lifecycle[m]) /\ lifecycle'[m][k] = lifecycle[m][k]
      BY <1>0, <1>1 DEF Types
    <2> QED BY <1>0, <1>1, <2>1, <2>2 DEF NoticesTrue
  <1>8. AbstractStep
    <2>1. Owner' = Owner
      BY <1>0, <1>1, TakeoverAssumption, Zenon DEF Owner, Types
    <2>2. S \in SUBSET Connects /\ \A a \in S : Running(a)
      BY Zenon
    <2>3. PICK K : K = S
      BY Zenon
    <2> HIDE DEF S
    <2> QED BY <1>0, <1>1, <1>3, <2>1, <2>2, <2>3, EndStep, Zenon
  <1> QED BY <1>4, <1>5, <1>6, <1>7, <1>8, Zenon DEF IInv

\* Every step of CreateSessionMessage after the registration.
LEMMA CreateStep ==
  ASSUME IInv, NEW a \in Connects, CreateSession(a)
  PROVE  IInv' /\ AbstractStep
  <1>1. CASE ResetState(a)
    <2>1. PICK v \in {"create", "check"} : pc[a] = "reset" /\ pc' = [pc EXCEPT ![a] = v]
      BY <1>1, Zenon DEF ResetState, Goto
    <2>2. UNCHANGED <<log, applied, session_actor_map, instance, actor, writes, lifecycle>>
      BY <1>1, Zenon DEF ResetState, mapVars, actorVars
    <2> QED BY <2>1, <2>2, PcStep, Zenon DEF PcState, Unstarted
  <1>2. CASE RecoverState(a)
    <2>1. PICK v \in {"create", "check", "expire", "failed"} :
            pc[a] = "recover" /\ pc' = [pc EXCEPT ![a] = v]
      BY <1>2, Zenon DEF RecoverState, Goto
    <2>2. UNCHANGED <<log, applied, session_actor_map, instance, actor, writes, lifecycle>>
      BY <1>2, Zenon DEF RecoverState, mapVars, actorVars
    <2> QED BY <2>1, <2>2, PcStep, Zenon DEF PcState, Unstarted
  <1>3. CASE ExpireState(a)
    <2>1. pc[a] = "expire" /\ pc' = [pc EXCEPT ![a] = "create"]
      BY <1>3, Zenon DEF ExpireState, Goto
    <2>2. UNCHANGED <<log, applied, session_actor_map, instance, actor, writes, lifecycle>>
      BY <1>3, Zenon DEF ExpireState, mapVars, actorVars
    <2> QED BY <2>1, <2>2, PcStep, Zenon DEF PcState, Unstarted
  <1>4. CASE CreateState(a)
    <2>1. PICK v \in {"check", "failed"} : pc[a] = "create" /\ pc' = [pc EXCEPT ![a] = v]
      BY <1>4, Zenon DEF CreateState, Goto
    <2>2. UNCHANGED <<log, applied, session_actor_map, instance, actor, writes, lifecycle>>
      BY <1>4, Zenon DEF CreateState, mapVars, actorVars
    <2> QED BY <2>1, <2>2, PcStep, Zenon DEF PcState, Unstarted
  <1>5. CASE CheckOwner(a)
    <2>1. PICK v \in {"start", "superseded", "failed"} :
            pc[a] = "check" /\ pc' = [pc EXCEPT ![a] = v]
      BY <1>5, Zenon DEF CheckOwner, Goto
    <2>2. UNCHANGED <<log, applied, session_actor_map, instance, actor, writes, lifecycle>>
      BY <1>5, Zenon DEF CheckOwner, mapVars, actorVars
    <2> QED BY <2>1, <2>2, PcStep, Zenon DEF PcState, Unstarted
  <1>6. CASE ConfirmOwner(a)
    <2>1. PICK v \in {"ok", "undo"} : pc[a] = "confirm" /\ pc' = [pc EXCEPT ![a] = v]
      BY <1>6, Zenon DEF ConfirmOwner, Goto
    <2>2. UNCHANGED <<log, applied, session_actor_map, instance, actor, writes, lifecycle>>
      BY <1>6, Zenon DEF ConfirmOwner, mapVars, actorVars
    <2> QED BY <2>1, <2>2, PcStep, Zenon DEF PcState, Unstarted
  <1>7. CASE UndoSession(a)
    <2>1. pc[a] = "undo" /\ pc' = [pc EXCEPT ![a] = "superseded"]
      BY <1>7, Zenon DEF UndoSession, Goto
    <2>2. UNCHANGED <<log, applied, session_actor_map, instance, actor, writes, lifecycle>>
      BY <1>7, Zenon DEF UndoSession, mapVars
    <2> QED BY <2>1, <2>2, PcStep, Zenon DEF PcState, Unstarted
  <1> QED BY <1>1, <1>2, <1>3, <1>4, <1>5, <1>6, <1>7, StartStep, Zenon DEF CreateSession

\* Every step of a session actor.
LEMMA ActorStep ==
  ASSUME IInv, NEW a \in Connects, ActorStarted(a) \/ HandleForceStop(a) \/ ClientDisconnect(a)
  PROVE  IInv' /\ AbstractStep
  <1>1. CASE ActorStarted(a)
    <2>1. /\ actor[a] = "starting" /\ actor' = [actor EXCEPT ![a] = "active"]
          /\ UNCHANGED <<log, applied, session_actor_map, pc, instance, writes, lifecycle>>
      BY <1>1, Zenon DEF ActorStarted, mapVars, connectVars
    <2> QED BY <2>1, RunStep, Zenon DEF Running, IInv, Types
  <1>2. CASE HandleForceStop(a)
    BY <1>2, StopStep, Zenon DEF HandleForceStop, Running, mapVars, connectVars
  <1>3. CASE ClientDisconnect(a)
    <2>1. /\ actor[a] = "active"
          /\ UNCHANGED <<log, applied, session_actor_map, pc, instance>>
      BY <1>3, Zenon DEF ClientDisconnect, mapVars, connectVars
    <2>2. CASE Stop(a) /\ UNCHANGED writes
      BY <2>1, <2>2, StopStep, Zenon DEF Running
    <2>3. CASE \E inactive \in BOOLEAN :
                 /\ actor' = [actor EXCEPT ![a] = IF inactive THEN "inactive" ELSE "deleting"]
                 /\ writes' = writes \cup {[by |-> a, op |-> IF inactive THEN "disconnect" ELSE "delete"]}
                 /\ UNCHANGED lifecycle
      <3>1. PICK v \in {"inactive", "deleting"} : actor' = [actor EXCEPT ![a] = v]
        BY <2>3, Zenon
      <3>2. writes' \subseteq [by : Connects, op : {"disconnect", "delete"}]
        BY <2>3 DEF IInv, Types
      <3> QED BY <2>1, <2>3, <3>1, <3>2, RunStep, Zenon DEF Running
    <2> QED BY <1>3, <2>2, <2>3, Zenon DEF ClientDisconnect
  <1> QED BY <1>1, <1>2, <1>3, Zenon

\* Every step of the requests in flight.
LEMMA WriteStep ==
  ASSUME IInv, NEW w \in writes, WriteCommits(w) \/ WriteDropped(w)
  PROVE  IInv' /\ AbstractStep
  <1>1. writes' \subseteq writes /\ UNCHANGED <<log, applied, session_actor_map, pc, instance>>
    BY Zenon DEF WriteCommits, WriteDropped, mapVars, connectVars
  <1>2. w.by \in Connects
    BY Zenon DEF IInv, Types
  <1>3. CASE Stop(w.by) /\ actor[w.by] = "deleting"
    BY <1>1, <1>2, <1>3, StopStep, Zenon DEF Running
  <1>4. CASE UNCHANGED <<actor, lifecycle>>
    BY <1>1, <1>4, OutsideStep, Zenon
  <1> QED BY <1>3, <1>4, Zenon DEF WriteCommits, WriteDropped

\* Every step of a node's session manager.
LEMMA ManagerStepInv ==
  ASSUME IInv, NEW n \in Nodes, ManagerStep(n) \/ Crash(n)
  PROVE  IInv' /\ AbstractStep
  <1>1. ASSUME NEW i \in Indices, HandleForceStopRequest(n, i) PROVE IInv' /\ AbstractStep
    BY <1>1, OutsideStep, Zenon DEF HandleForceStopRequest, connectVars
  <1> QED BY <1>1, FollowerStep, UnregisterStep, RemoveStep, CrashStep, Zenon DEF ManagerStep

\* Every step of the expiry sweep.
LEMMA SweepStepInv ==
  ASSUME IInv, ScanExpired \/ SweepStep
  PROVE  IInv' /\ AbstractStep
  <1>1. /\ UNCHANGED writes
        /\ UNCHANGED <<log, applied, session_actor_map, pc, instance, actor, lifecycle>>
    BY Zenon DEF ScanExpired, SweepStep, SweepForceStop, SweepAwait, SweepDelete,
           mapVars, connectVars, actorVars
  <1> QED BY <1>1, OutsideStep, Zenon

\* The invariant is inductive, and every step is a step or a stutter of SessionOwnership.
LEMMA NextInv == IInv /\ [Next]_vars => IInv' /\ AbstractStep
  <1> SUFFICES ASSUME IInv, [Next]_vars PROVE IInv' /\ AbstractStep
    BY Zenon
  <1>1. CASE UNCHANGED vars
    BY <1>1, OutsideStep, Zenon DEF vars, mapVars, connectVars, actorVars
  <1>2. ASSUME NEW a \in Connects,
               Register(a) \/ CreateSession(a) \/ ActorStarted(a) \/ HandleForceStop(a) \/ ClientDisconnect(a)
        PROVE  IInv' /\ AbstractStep
    BY <1>2, RegisterStep, CreateStep, ActorStep, Zenon
  <1>3. ASSUME NEW w \in writes, WriteCommits(w) \/ WriteDropped(w) PROVE IInv' /\ AbstractStep
    BY <1>3, WriteStep, Zenon
  <1>4. ASSUME NEW n \in Nodes, ManagerStep(n) \/ Crash(n) PROVE IInv' /\ AbstractStep
    BY <1>4, ManagerStepInv, Zenon
  <1>5. CASE ScanExpired \/ SweepStep
    BY <1>5, SweepStepInv, Zenon
  <1> QED BY <1>1, <1>2, <1>3, <1>4, <1>5, Zenon DEF Next

\* An initial state of the protocol is an initial state of SessionOwnership.
LEMMA InitAbstract == Init => Ownership!Init
  <1> SUFFICES ASSUME Init PROVE Ownership!Init
    BY Zenon
  <1>1. Issued = {}
    BY DEF Init, Issued
  <1>2. Owner = 0
    BY TakeoverAssumption, Zenon DEF Init, Owner, NoEntry
  <1>3. Live = {} /\ Ended = {}
    BY Zenon DEF Init, Live, Ended, Running
  <1> QED BY <1>1, <1>2, <1>3, Zenon DEF Ownership!Init, Live, Ended

\* The takeover protocol implements SessionOwnership for any set of nodes and
\* CONNECTs, wherever they arrive, whatever they ask for, and with any number of
\* failed requests, follower crashes and sweeps: a later CONNECT always wins,
\* and the owner loses the client only to one or after its own session ended.
THEOREM TakeoverImplementsOwnership == Spec => RefinesOwnership
  <1>1. Init => IInv /\ Ownership!Init
    BY InitInv, InitAbstract, Zenon
  <1>2. IInv /\ [Next]_vars => IInv' /\ [Ownership!Next]_(Ownership!abstractVars)
    BY NextInv, Zenon DEF AbstractStep
  <1> QED BY <1>1, <1>2, PTL DEF Spec, RefinesOwnership, Ownership!Spec

-------------------------------------------------------------------------------
(* What is left once everything in flight is handled.  The history of a    *)
(* node's map is read off the log: `applied` says how far the node is, and *)
(* LaterRegister whether the client registered again before that.          *)

\* The CONNECTs reach the broker at different nodes.
OneEach == \A a \in Connects : \A b \in Connects : Home[a] = Home[b] => a = b

\* The client registered again after entry i of the log, up to entry k.
LaterRegister(i, k) == \E j \in (i + 1) .. k : log[j].op = "register"

\* The requests in the log come from the CONNECTs and from stopped sessions.
LogTrue ==
  /\ \A k \in 1 .. Len(log) : log[k].op = "unregister" =>
       \E a \in Connects : actor[a] = "stopped" /\ instance[a] = log[k].instance
  /\ \A a \in Connects : instance[a] # 0 => log[instance[a]] = RegisterSession(Home[a])

AppliedBounds ==
  /\ applied[Leader] = Len(log)
  /\ \A n \in Nodes : applied[n] <= Len(log)

\* A node's map names a session that has not stopped, once the node has applied
\* its registration and no later one.
Replayed ==
  \A n \in Nodes : \A a \in Connects :
    /\ instance[a] # 0 /\ actor[a] # "stopped"
    /\ instance[a] <= applied[n] /\ ~LaterRegister(instance[a], applied[n])
    => session_actor_map[n] = [node |-> Home[a], instance |-> instance[a]]

\* A node's map names the latest registration it has applied, or none.
NoLater ==
  \A n \in Nodes : session_actor_map[n].instance # 0 =>
    /\ session_actor_map[n].instance <= applied[n]
    /\ ~LaterRegister(session_actor_map[n].instance, applied[n])

MapInv == LogTrue /\ AppliedBounds /\ Replayed /\ NoLater

\* No CONNECT displaces another one from a registry.
Tables == sessions \in [Nodes -> Nat] /\ replaced = [a \in Connects |-> 0]

\* A registry names a session of its node that runs or has its SessionStopped
\* message waiting.
Registry ==
  \A n \in Nodes : sessions[n] # 0 =>
    \E a \in Connects :
      /\ Home[a] = n /\ pc[a] \notin Unstarted /\ instance[a] = sessions[n]
      /\ Running(a) \/ \E k \in 1 .. Len(lifecycle[n]) : lifecycle[n][k].instance = instance[a]

\* A running session is in its node's registry, or has been told to stop.
Found ==
  \A a \in Connects : Running(a) =>
    /\ pc[a] \in {"confirm", "undo", "ok", "superseded"}
    /\ pc[a] # "superseded" => sessions[Home[a]] = instance[a]
    /\ pc[a] = "superseded" => a \in mailbox

\* A session that passed the second ownership check is told to stop as soon as
\* its node applies a later registration.
Caught ==
  \A a \in Connects :
    Running(a) /\ pc[a] = "ok" /\ LaterRegister(instance[a], applied[Home[a]]) =>
      a \in mailbox \/ <<Home[a], instance[a]>> \in force_stops

LocalInv == Tables /\ Registry /\ Found

TInv == MapInv /\ LocalInv /\ Caught

\* The invariant holds initially.
LEMMA InitLocal == Init => TInv
  <1> SUFFICES ASSUME Init PROVE TInv
    BY Zenon
  <1>1. MapInv
    BY TakeoverAssumption DEF Init, MapInv, LogTrue, AppliedBounds, Replayed, NoLater, NoEntry
  <1>2. LocalInv
    BY Zenon DEF Init, LocalInv, Tables, Registry, Found, Running
  <1>3. Caught
    BY Zenon DEF Init, Caught, Running
  <1> QED BY <1>1, <1>2, <1>3, Zenon DEF TInv

\* Steps that leave the log and the maps alone.  Actors may stop, none revives.
LEMMA MapKept ==
  ASSUME MapInv, \A a \in Connects : actor[a] = "stopped" => actor'[a] = "stopped",
         UNCHANGED <<log, applied, session_actor_map, instance>>
  PROVE  MapInv'
  <1>1. LogTrue' /\ AppliedBounds'
    BY Zenon DEF MapInv, LogTrue, AppliedBounds
  <1>2. Replayed' /\ NoLater'
    BY Zenon DEF MapInv, Replayed, NoLater, LaterRegister
  <1> QED BY <1>1, <1>2, Zenon DEF MapInv

\* A node applies the next entry of a log that may have grown by it.
LEMMA MapApplied ==
  ASSUME IInv, IInv', MapInv, LogTrue', AppliedBounds',
         NEW n \in Nodes, NEW index \in Nat, index = applied[n] + 1,
         index <= Len(log'), Len(log) <= Len(log'),
         \A j \in 1 .. Len(log) : log'[j] = log[j],
         ApplyAt(n, log'[index], index),
         \A a \in Connects : actor[a] = "stopped" => actor'[a] = "stopped",
         \A a \in Connects : instance'[a] # 0 => instance'[a] = instance[a] \/ instance'[a] = Len(log) + 1
  PROVE  MapInv'
  <1> DEFINE req == log'[index]
  <1>0. Types /\ Types' /\ OwnIds' /\ Len(log) \in Nat /\ Len(log') \in Nat
    <2>1. Types /\ Types' /\ OwnIds'
      BY Zenon DEF IInv
    <2>2. log \in Seq(Request) /\ log' \in Seq(Request)
      BY <2>1, Zenon DEF Types
    <2> QED BY <2>1, <2>2
  <1>1. /\ session_actor_map' =
             [session_actor_map EXCEPT ![n] = ApplyRequest(req, index, session_actor_map[n])]
        /\ applied' = [applied EXCEPT ![n] = index]
    BY Zenon DEF ApplyAt
  <1>2. req \in Request /\ index # 0
    BY <1>0 DEF Types
  <1>3. \A m \in Nodes : applied[m] \in Nat /\ applied[m] <= Len(log)
    BY <1>0, Zenon DEF Types, MapInv, AppliedBounds
  <1>4. \A a \in Connects : instance'[a] \in Nat /\ instance[a] \in Nat
    BY <1>0, Zenon DEF Types
  <1>5. ASSUME NEW i \in Nat, NEW m \in Nodes
        PROVE  LaterRegister(i, applied[m]) <=> \E j \in (i + 1) .. applied[m] : log'[j].op = "register"
    <2>1. \A j \in (i + 1) .. applied[m] : log'[j] = log[j]
      BY <1>0, <1>3, SMTT(30)
    <2> QED BY <2>1, Zenon DEF LaterRegister
  <1> HIDE DEF req
  <1>6. Replayed'
    <2> SUFFICES ASSUME NEW m \in Nodes, NEW a \in Connects,
                        instance'[a] # 0, actor'[a] # "stopped",
                        instance'[a] <= applied'[m],
                        ~LaterRegister(instance[a], applied[m])'
                 PROVE  session_actor_map'[m] = [node |-> Home[a], instance |-> instance'[a]]
      BY Zenon DEF Replayed
    <2>1. \A j \in (instance'[a] + 1) .. applied'[m] : log'[j].op # "register"
      BY Zenon DEF LaterRegister
    <2>2. CASE m = n /\ instance'[a] = index
      <3>1. req = RegisterSession(Home[a])
        BY <2>2, Zenon DEF LogTrue, req
      <3>2. ApplyRequest(req, index, session_actor_map[n]) = [node |-> Home[a], instance |-> index]
        BY <3>1, Zenon DEF ApplyRequest, RegisterSession
      <3> QED BY <1>0, <1>1, <2>2, <3>2, Zenon DEF Types
    <2>3. CASE ~(m = n /\ instance'[a] = index)
      <3>1. instance'[a] <= applied[m]
        BY <1>0, <1>1, <1>3, <1>4, <2>3, SMTT(30) DEF Types
      <3>2. instance[a] = instance'[a] /\ actor[a] # "stopped"
        BY <1>3, <1>4, <3>1, SMTT(30)
      <3>3. \A j \in (instance[a] + 1) .. applied[m] : log'[j].op # "register"
        BY <1>0, <1>1, <1>3, <1>4, <2>1, <3>2 DEF Types
      <3>4. ~LaterRegister(instance[a], applied[m])
        BY <1>4, <1>5, <3>3, Zenon
      <3>5. session_actor_map[m] = [node |-> Home[a], instance |-> instance[a]]
        BY <3>1, <3>2, <3>4, Zenon DEF MapInv, Replayed
      <3>6. CASE m # n
        BY <1>0, <1>1, <3>2, <3>5, <3>6, Zenon DEF Types
      <3>7. CASE m = n
        <4>1. applied'[m] = index /\ index \in (instance'[a] + 1) .. applied'[m]
          BY <1>0, <1>1, <1>3, <1>4, <3>1, <3>7, SMTT(30) DEF Types
        <4>2. req.op # "register"
          BY <2>1, <4>1, Zenon DEF req
        <4>3. req.op = "unregister"
          BY <1>2, <4>2, Zenon DEF Request
        <4>4. PICK b \in Connects : actor'[b] = "stopped" /\ instance'[b] = req.instance
          BY <1>2, <4>3 DEF LogTrue, req
        <4>5. instance'[a] # req.instance
          BY <1>0, <4>4, Zenon DEF OwnIds
        <4>6. ApplyRequest(req, index, session_actor_map[n]) = session_actor_map[n]
          BY <3>2, <3>5, <3>7, <4>2, <4>5 DEF ApplyRequest
        <4> QED BY <1>0, <1>1, <3>2, <3>5, <3>7, <4>6, ZenonT(30) DEF Types
      <3> QED BY <3>6, <3>7, Zenon
    <2> QED BY <2>2, <2>3, Zenon
  <1>7. NoLater'
    <2> SUFFICES ASSUME NEW m \in Nodes, session_actor_map'[m].instance # 0
                 PROVE  /\ session_actor_map'[m].instance <= applied'[m]
                        /\ ~LaterRegister(session_actor_map[m].instance, applied[m])'
      BY Zenon DEF NoLater
    <2>1. session_actor_map[m].instance \in Nat /\ session_actor_map[n].instance \in Nat
      BY <1>0, Zenon DEF Types, MapEntry
    <2>2. CASE m # n
      <3>1. session_actor_map'[m] = session_actor_map[m] /\ applied'[m] = applied[m]
        BY <1>0, <1>1, <2>2, Zenon DEF Types
      <3>2. /\ session_actor_map[m].instance <= applied[m]
            /\ ~LaterRegister(session_actor_map[m].instance, applied[m])
        BY <3>1, Zenon DEF MapInv, NoLater
      <3>3. \A j \in (session_actor_map[m].instance + 1) .. applied[m] : log'[j].op # "register"
        BY <1>5, <2>1, <3>2, Zenon
      <3> QED BY <3>1, <3>2, <3>3, Zenon DEF LaterRegister
    <2>3. CASE m = n /\ req.op = "register"
      <3>1. session_actor_map'[m].instance = index /\ applied'[m] = index
        BY <1>0, <1>1, <2>3, Zenon DEF Types, ApplyRequest
      <3> QED BY <3>1 DEF LaterRegister
    <2>4. CASE m = n /\ req.op # "register"
      <3>1. session_actor_map'[m] = session_actor_map[m] /\ applied'[m] = index
        BY <1>0, <1>1, <2>4, Zenon DEF Types, ApplyRequest, NoEntry
      <3>2. /\ session_actor_map[m].instance <= applied[m]
            /\ ~LaterRegister(session_actor_map[m].instance, applied[m])
        BY <3>1, Zenon DEF MapInv, NoLater
      <3>3. \A j \in (session_actor_map[m].instance + 1) .. applied[m] : log'[j].op # "register"
        BY <1>5, <2>1, <3>2, Zenon
      <3>4. \A j \in (session_actor_map[m].instance + 1) .. index : log'[j].op # "register"
        BY <1>3, <2>1, <2>4, <3>3, SMTT(30) DEF req
      <3> QED BY <1>3, <2>1, <2>4, <3>1, <3>2, <3>4, SMTT(30) DEF LaterRegister
    <2> QED BY <2>2, <2>3, <2>4, Zenon
  <1> QED BY <1>6, <1>7, Zenon DEF MapInv

\* Applying a registration, a node tells the session it displaces to stop.
LEMMA CaughtApplied ==
  ASSUME IInv, IInv', MapInv, Caught,
         NEW n \in Nodes, NEW index \in Nat, index = applied[n] + 1,
         index <= Len(log'), Len(log) <= Len(log'),
         \A j \in 1 .. Len(log) : log'[j] = log[j],
         ApplyAt(n, log'[index], index), actor' = actor, mailbox' = mailbox,
         \A a \in Connects : pc'[a] = "ok" => pc[a] = "ok" /\ instance'[a] = instance[a]
  PROVE  Caught'
  <1>0. /\ Len(log) \in Nat /\ applied \in [Nodes -> Nat]
        /\ \A m \in Nodes : applied[m] \in Nat /\ applied[m] <= Len(log)
        /\ \A a \in Connects : instance[a] \in Nat
    BY SMTT(30) DEF IInv, Types, MapInv, AppliedBounds
  <1>1. /\ force_stops' = force_stops \cup StopsPrevious(n, log'[index], session_actor_map[n])
        /\ applied' = [applied EXCEPT ![n] = index]
    BY Zenon DEF ApplyAt
  <1> SUFFICES ASSUME NEW a \in Connects, Running(a)', pc'[a] = "ok",
                      LaterRegister(instance[a], applied[Home[a]])'
               PROVE  a \in mailbox \/ <<Home[a], instance[a]>> \in force_stops'
    <2>1. ASSUME NEW a \in Connects, Running(a)', pc'[a] = "ok" PROVE instance'[a] = instance[a]
      BY <2>1, Zenon
    <2> QED BY <2>1, Zenon DEF Caught
  <1>2. Running(a) /\ pc[a] = "ok" /\ instance'[a] = instance[a] /\ Home[a] \in Nodes
    BY TakeoverAssumption, Zenon DEF Running
  <1>3. PICK j \in (instance[a] + 1) .. applied'[Home[a]] : log'[j].op = "register"
    BY <1>2, Zenon DEF LaterRegister
  <1>4. CASE LaterRegister(instance[a], applied[Home[a]])
    BY <1>1, <1>2, <1>4, Zenon DEF Caught
  <1>5. CASE ~LaterRegister(instance[a], applied[Home[a]])
    <2>1. j \notin (instance[a] + 1) .. applied[Home[a]]
      <3>1. ASSUME j \in (instance[a] + 1) .. applied[Home[a]] PROVE FALSE
        <4>1. log'[j] = log[j]
          BY <1>0, <1>2, <3>1, SMTT(30)
        <4> QED BY <1>3, <1>5, <3>1, <4>1, Zenon DEF LaterRegister
      <3> QED BY <3>1, Zenon
    <2>2. Home[a] = n /\ j = index /\ instance[a] <= applied[n]
      BY <1>0, <1>1, <1>2, <1>3, <2>1, SMTT(30)
    <2>3. instance[a] # 0 /\ actor[a] # "stopped"
      BY <1>2, Zenon DEF IInv, OwnIds, Running
    <2>4. session_actor_map[n] = [node |-> n, instance |-> instance[a]]
      BY <1>5, <2>2, <2>3, Zenon DEF MapInv, Replayed
    <2>5. StopsPrevious(n, log'[index], session_actor_map[n]) = {<<n, instance[a]>>}
      BY <1>3, <2>2, <2>3, <2>4 DEF StopsPrevious
    <2> QED BY <1>1, <2>2, <2>5, Zenon
  <1> QED BY <1>4, <1>5, Zenon

\* Steps that leave the history alone and take back no request to stop.
LEMMA CaughtKept ==
  ASSUME Caught, UNCHANGED <<log, applied, instance>>, force_stops \subseteq force_stops',
         \A a \in Connects : Running(a)' /\ pc'[a] = "ok" => Running(a) /\ pc[a] = "ok",
         \A a \in mailbox : Running(a)' => a \in mailbox'
  PROVE  Caught'
  BY Zenon DEF Caught, LaterRegister

\* Before its session actor exists a CONNECT leaves the registries alone.
LEMMA UnstartedLocal ==
  ASSUME IInv, LocalInv, NEW a \in Connects, pc[a] \in Unstarted, NEW v,
         pc' = [pc EXCEPT ![a] = v], \A b \in Connects : b # a => instance'[b] = instance[b],
         UNCHANGED <<sessions, replaced, actor, mailbox, lifecycle>>
  PROVE  LocalInv'
  <1>0. Types /\ NotYetStarted /\ Tables /\ Registry /\ Found
    BY Zenon DEF IInv, LocalInv
  <1>1. ~Running(a) /\ \A b \in Connects : Running(b)' <=> Running(b)
    BY <1>0, Zenon DEF NotYetStarted, Running
  <1>2. Tables'
    BY <1>0, Zenon DEF Tables
  <1>3. \A b \in Connects : b # a => pc'[b] = pc[b]
    BY <1>0, Zenon DEF Types
  <1>4. Registry'
    <2> SUFFICES ASSUME NEW n \in Nodes, sessions[n] # 0
                 PROVE  \E b \in Connects :
                          /\ Home[b] = n /\ pc'[b] \notin Unstarted /\ instance'[b] = sessions[n]
                          /\ Running(b)' \/ \E k \in 1 .. Len(lifecycle[n]) : lifecycle[n][k].instance = instance'[b]
      BY DEF Registry
    <2>1. PICK b \in Connects :
            /\ Home[b] = n /\ pc[b] \notin Unstarted /\ instance[b] = sessions[n]
            /\ Running(b) \/ \E k \in 1 .. Len(lifecycle[n]) : lifecycle[n][k].instance = instance[b]
      BY <1>0, Zenon DEF Registry
    <2>2. pc'[b] = pc[b] /\ instance'[b] = instance[b] /\ (Running(b)' <=> Running(b))
      BY <1>1, <1>3, <2>1, Zenon
    <2> QED BY <2>1, <2>2, Zenon
  <1>5. Found'
    BY <1>0, <1>1, <1>3, Zenon DEF Found
  <1> QED BY <1>2, <1>4, <1>5, Zenon DEF LocalInv

\* A new session enters a registry that holds no other one.
LEMMA StartLocal ==
  ASSUME OneEach, IInv, LocalInv, NEW a \in Connects, StartSession(a)
  PROVE  LocalInv'
  <1>0. Types /\ OwnIds /\ NotYetStarted /\ Tables /\ Registry /\ Found
    BY Zenon DEF IInv, LocalInv
  <1>1. /\ pc[a] = "start" /\ pc' = [pc EXCEPT ![a] = "confirm"]
        /\ actor' = [actor EXCEPT ![a] = "starting"]
        /\ replaced' = [replaced EXCEPT ![a] = sessions[Home[a]]]
        /\ sessions' = [sessions EXCEPT ![Home[a]] = instance[a]]
        /\ UNCHANGED <<instance, mailbox, lifecycle>>
    BY Zenon DEF StartSession, Goto
  <1>2. Home[a] \in Nodes /\ instance[a] \in Nat
    BY <1>0, TakeoverAssumption, Zenon DEF Types
  <1>3. sessions[Home[a]] = 0
    BY <1>0, <1>1, <1>2 DEF OneEach, Registry, Unstarted
  <1>4. Tables'
    BY <1>0, <1>1, <1>2, <1>3, Zenon DEF Tables
  <1>5. \A b \in Connects : b # a => pc'[b] = pc[b] /\ (Running(b)' <=> Running(b))
    BY <1>0, <1>1, Zenon DEF Types, Running
  <1>6. pc'[a] = "confirm" /\ Running(a)'
    BY <1>0, <1>1, Zenon DEF Types, Running
  <1>7. \A n \in Nodes : n # Home[a] => sessions'[n] = sessions[n]
    BY <1>0, <1>1, Zenon DEF Tables
  <1>8. sessions'[Home[a]] = instance[a]
    BY <1>0, <1>1, <1>2, Zenon DEF Tables
  <1>9. Registry'
    <2> SUFFICES ASSUME NEW n \in Nodes, sessions'[n] # 0
                 PROVE  \E b \in Connects :
                          /\ Home[b] = n /\ pc'[b] \notin Unstarted /\ instance[b] = sessions'[n]
                          /\ Running(b)' \/ \E k \in 1 .. Len(lifecycle[n]) : lifecycle[n][k].instance = instance[b]
      BY <1>1 DEF Registry
    <2>1. CASE n = Home[a]
      BY <1>6, <1>8, <2>1, Zenon DEF Unstarted
    <2>2. CASE n # Home[a]
      <3>1. PICK b \in Connects :
            /\ Home[b] = n /\ pc[b] \notin Unstarted /\ instance[b] = sessions[n]
            /\ Running(b) \/ \E k \in 1 .. Len(lifecycle[n]) : lifecycle[n][k].instance = instance[b]
        BY <1>0, <1>7, <2>2, Zenon DEF Registry
      <3> QED BY <1>5, <1>7, <2>2, <3>1, Zenon
    <2> QED BY <2>1, <2>2, Zenon
  <1>10. Found'
    <2> SUFFICES ASSUME NEW b \in Connects, Running(b)'
                 PROVE  /\ pc'[b] \in {"confirm", "undo", "ok", "superseded"}
                        /\ pc'[b] # "superseded" => sessions'[Home[b]] = instance[b]
                        /\ pc'[b] = "superseded" => b \in mailbox
      BY <1>1, Zenon DEF Found
    <2>1. CASE b = a
      BY <1>6, <1>8, <2>1, Zenon
    <2>2. CASE b # a
      BY <1>0, <1>5, <1>7, <2>2, TakeoverAssumption, ZenonT(30) DEF Found, OneEach
    <2> QED BY <2>1, <2>2, Zenon
  <1> QED BY <1>4, <1>9, <1>10, Zenon DEF LocalInv

\* The second ownership check leaves the registries alone.
LEMMA ConfirmLocal ==
  ASSUME IInv, LocalInv, NEW a \in Connects, ConfirmOwner(a)
  PROVE  LocalInv'
  <1>0. Types /\ Tables /\ Registry /\ Found
    BY Zenon DEF IInv, LocalInv
  <1>1. /\ pc[a] = "confirm" /\ \E v \in {"ok", "undo"} : pc' = [pc EXCEPT ![a] = v]
        /\ UNCHANGED <<sessions, replaced, instance, actor, mailbox, lifecycle>>
    BY Zenon DEF ConfirmOwner, Goto, actorVars
  <1>2. /\ pc'[a] \in {"ok", "undo"}
        /\ \A b \in Connects : b # a => pc'[b] = pc[b]
    BY <1>0, <1>1, Zenon DEF Types
  <1>3. \A b \in Connects : (pc[b] \notin Unstarted => pc'[b] \notin Unstarted) /\ (Running(b)' <=> Running(b))
    BY <1>1, <1>2, Zenon DEF Unstarted, Running
  <1>4. Tables' /\ Registry'
    BY <1>0, <1>1, <1>3 DEF Tables, Registry
  <1>5. Found'
    BY <1>0, <1>1, <1>2, <1>3, Zenon DEF Found
  <1> QED BY <1>4, <1>5, Zenon DEF LocalInv

\* A session that lost the second check leaves the registry and is told to stop.
LEMMA UndoLocal ==
  ASSUME OneEach, IInv, LocalInv, NEW a \in Connects, UndoSession(a)
  PROVE  LocalInv'
  <1>0. Types /\ Tables /\ Registry /\ Found
    BY Zenon DEF IInv, LocalInv
  <1>1. /\ pc[a] = "undo" /\ pc' = [pc EXCEPT ![a] = "superseded"]
        /\ mailbox' = (IF Running(a) THEN mailbox \cup {a} ELSE mailbox)
        /\ UNCHANGED <<replaced, instance, actor, lifecycle>>
    BY Zenon DEF UndoSession, Goto
  <1>2. Home[a] \in Nodes /\ replaced[a] = 0
    BY <1>0, TakeoverAssumption, Zenon DEF Tables
  <1>3. sessions[Home[a]] \in {0, instance[a]}
    <2>1. CASE sessions[Home[a]] = 0
      BY <2>1, Zenon
    <2>2. CASE sessions[Home[a]] # 0
      <3>1. PICK b \in Connects : Home[b] = Home[a] /\ instance[b] = sessions[Home[a]]
        BY <1>0, <1>2, <2>2, Zenon DEF Registry
      <3> QED BY <3>1, Zenon DEF OneEach
    <2> QED BY <2>1, <2>2, Zenon
  <1>4. sessions' = [sessions EXCEPT ![Home[a]] = 0]
    BY <1>2, <1>3, Zenon DEF UndoSession, Vacate
  <1>5. \A b \in Connects : b # a => pc'[b] = pc[b] /\ Home[b] # Home[a]
    BY <1>0, <1>1, Zenon DEF Types, OneEach
  <1>6. pc'[a] = "superseded" /\ \A b \in Connects : Running(b)' <=> Running(b)
    BY <1>0, <1>1, Zenon DEF Types, Running
  <1>7. sessions'[Home[a]] = 0 /\ \A n \in Nodes : n # Home[a] => sessions'[n] = sessions[n]
    BY <1>0, <1>2, <1>4, Zenon DEF Tables
  <1>8. Tables'
    BY <1>0, <1>1, <1>4, Zenon DEF Tables
  <1>9. Registry'
    <2> SUFFICES ASSUME NEW n \in Nodes, sessions'[n] # 0
                 PROVE  \E b \in Connects :
                          /\ Home[b] = n /\ pc'[b] \notin Unstarted /\ instance[b] = sessions'[n]
                          /\ Running(b)' \/ \E k \in 1 .. Len(lifecycle[n]) : lifecycle[n][k].instance = instance[b]
      BY <1>1 DEF Registry
    <2>1. n # Home[a] /\ sessions'[n] = sessions[n]
      BY <1>7, Zenon
    <2>2. PICK b \in Connects :
            /\ Home[b] = n /\ pc[b] \notin Unstarted /\ instance[b] = sessions[n]
            /\ Running(b) \/ \E k \in 1 .. Len(lifecycle[n]) : lifecycle[n][k].instance = instance[b]
      BY <1>0, <2>1, Zenon DEF Registry
    <2>3. b # a
      BY <2>1, <2>2, Zenon
    <2> QED BY <1>5, <1>6, <2>1, <2>2, <2>3, Zenon
  <1>10. Found'
    <2> SUFFICES ASSUME NEW b \in Connects, Running(b)'
                 PROVE  /\ pc'[b] \in {"confirm", "undo", "ok", "superseded"}
                        /\ pc'[b] # "superseded" => sessions'[Home[b]] = instance[b]
                        /\ pc'[b] = "superseded" => b \in mailbox'
      BY <1>1, Zenon DEF Found
    <2>1. Running(b)
      BY <1>6, Zenon
    <2>2. CASE b = a
      BY <1>1, <1>6, <2>1, <2>2, Zenon
    <2>3. CASE b # a
      <3>1. pc'[b] = pc[b] /\ sessions'[Home[b]] = sessions[Home[b]]
        BY <1>5, <1>7, <2>3, TakeoverAssumption, Zenon
      <3> QED BY <1>0, <1>1, <2>1, <3>1, Zenon DEF Found
    <2> QED BY <2>2, <2>3, Zenon
  <1> QED BY <1>8, <1>9, <1>10, Zenon DEF LocalInv

\* Steps after which the same sessions run and the same notices wait.
LEMMA QuietLocal ==
  ASSUME LocalInv, UNCHANGED <<sessions, replaced, pc, instance>>,
         \A a \in Connects : Running(a)' <=> Running(a),
         mailbox \subseteq mailbox',
         \A n \in Nodes : /\ Len(lifecycle'[n]) = Len(lifecycle[n])
                          /\ \A k \in 1 .. Len(lifecycle[n]) :
                               lifecycle'[n][k].instance = lifecycle[n][k].instance
  PROVE  LocalInv'
  <1>0. Tables /\ Registry /\ Found
    BY Zenon DEF LocalInv
  <1>1. Tables' /\ Found'
    BY <1>0, Zenon DEF Tables, Found
  <1>2. Registry'
    <2> SUFFICES ASSUME NEW n \in Nodes, sessions[n] # 0
                 PROVE  \E b \in Connects :
                          /\ Home[b] = n /\ pc[b] \notin Unstarted /\ instance[b] = sessions[n]
                          /\ Running(b)' \/ \E k \in 1 .. Len(lifecycle'[n]) : lifecycle'[n][k].instance = instance[b]
      BY DEF Registry
    <2>1. PICK b \in Connects :
            /\ Home[b] = n /\ pc[b] \notin Unstarted /\ instance[b] = sessions[n]
            /\ Running(b) \/ \E k \in 1 .. Len(lifecycle[n]) : lifecycle[n][k].instance = instance[b]
      BY <1>0, Zenon DEF Registry
    <2> QED BY <2>1
  <1> QED BY <1>1, <1>2, Zenon DEF LocalInv

\* A session that stops leaves its SessionStopped message.
LEMMA StopLocal ==
  ASSUME IInv, LocalInv, NEW a \in Connects, Running(a), Stop(a),
         UNCHANGED <<sessions, replaced, pc, instance>>
  PROVE  LocalInv'
  <1> DEFINE note == [instance |-> instance[a], step |-> "unregister"]
  <1>0. Types /\ Tables /\ Registry /\ Found
    BY Zenon DEF IInv, LocalInv
  <1>1. /\ actor' = [actor EXCEPT ![a] = "stopped"]
        /\ mailbox' = mailbox \ {a}
        /\ lifecycle' = [lifecycle EXCEPT ![Home[a]] = Append(lifecycle[Home[a]], note)]
    BY Zenon DEF Stop
  <1>2. Home[a] \in Nodes /\ lifecycle[Home[a]] \in Seq(Notice) /\ note.instance = instance[a]
    BY <1>0, TakeoverAssumption, Zenon DEF Types
  <1>3. ~Running(a)' /\ \A b \in Connects : b # a => (Running(b)' <=> Running(b))
    BY <1>0, <1>1, Zenon DEF Types, Running
  <1> HIDE DEF note
  <1>4. \A n \in Nodes : \A k \in 1 .. Len(lifecycle[n]) :
          k \in 1 .. Len(lifecycle'[n]) /\ lifecycle'[n][k] = lifecycle[n][k]
    BY <1>0, <1>1, <1>2, SMTT(30) DEF Types
  <1>5. \E k \in 1 .. Len(lifecycle'[Home[a]]) : lifecycle'[Home[a]][k].instance = instance[a]
    <2>1. /\ Len(lifecycle[Home[a]]) + 1 \in 1 .. Len(lifecycle'[Home[a]])
          /\ lifecycle'[Home[a]][Len(lifecycle[Home[a]]) + 1] = note
      BY <1>0, <1>1, <1>2 DEF Types
    <2> QED BY <1>2, <2>1, Zenon
  <1>6. Tables'
    BY <1>0, Zenon DEF Tables
  <1>7. Found'
    BY <1>0, <1>1, <1>3, Zenon DEF Found
  <1>8. Registry'
    <2> SUFFICES ASSUME NEW n \in Nodes, sessions[n] # 0
                 PROVE  \E b \in Connects :
                          /\ Home[b] = n /\ pc[b] \notin Unstarted /\ instance[b] = sessions[n]
                          /\ Running(b)' \/ \E k \in 1 .. Len(lifecycle'[n]) : lifecycle'[n][k].instance = instance[b]
      BY ZenonT(30) DEF Registry
    <2>1. PICK b \in Connects :
            /\ Home[b] = n /\ pc[b] \notin Unstarted /\ instance[b] = sessions[n]
            /\ Running(b) \/ \E k \in 1 .. Len(lifecycle[n]) : lifecycle[n][k].instance = instance[b]
      BY <1>0, Zenon DEF Registry
    <2>2. CASE b = a
      BY <1>5, <2>1, <2>2, Zenon
    <2>3. CASE b # a
      <3>1. CASE Running(b)
        BY <1>3, <2>1, <2>3, <3>1, Zenon
      <3>2. CASE \E k \in 1 .. Len(lifecycle[n]) : lifecycle[n][k].instance = instance[b]
        BY <1>4, <2>1, <3>2
      <3> QED BY <2>1, <3>1, <3>2, Zenon
    <2> QED BY <2>2, <2>3, Zenon
  <1> QED BY <1>6, <1>7, <1>8, Zenon DEF LocalInv

\* RemoveSessionMessage takes out a stopped session only.
LEMMA RemoveLocal ==
  ASSUME OneEach, IInv, LocalInv, NEW n \in Nodes, RemoveSession(n)
  PROVE  LocalInv'
  <1>0. Types /\ OwnIds /\ NoticesTrue /\ Tables /\ Registry /\ Found
    BY Zenon DEF IInv, LocalInv
  <1>1. /\ lifecycle[n] # <<>> /\ lifecycle' = [lifecycle EXCEPT ![n] = Tail(lifecycle[n])]
        /\ sessions' = [sessions EXCEPT ![n] = Vacate(sessions[n], Head(lifecycle[n]).instance)]
        /\ UNCHANGED <<pc, instance, actor, mailbox, replaced>>
    BY Zenon DEF RemoveSession, connectVars
  <1>2. /\ lifecycle[n] \in Seq(Notice) /\ Head(lifecycle[n]) = lifecycle[n][1]
        /\ 1 \in 1 .. Len(lifecycle[n])
        /\ Len(Tail(lifecycle[n])) = Len(lifecycle[n]) - 1
        /\ \A k \in 1 .. Len(lifecycle[n]) - 1 : Tail(lifecycle[n])[k] = lifecycle[n][k + 1]
    BY <1>0, <1>1 DEF Types
  <1>3. PICK c \in Connects : actor[c] = "stopped" /\ instance[c] = lifecycle[n][1].instance
    BY <1>0, <1>2, Zenon DEF NoticesTrue
  <1>4. /\ sessions'[n] = (IF sessions[n] = instance[c] THEN 0 ELSE sessions[n])
        /\ \A m \in Nodes : m # n => sessions'[m] = sessions[m] /\ lifecycle'[m] = lifecycle[m]
        /\ lifecycle'[n] = Tail(lifecycle[n])
    BY <1>0, <1>1, <1>2, <1>3, Zenon DEF Types, Tables, Vacate
  <1>5. \A b \in Connects : Running(b)' <=> Running(b)
    BY <1>1, Zenon DEF Running
  <1>6. Tables'
    <2>1. Vacate(sessions[n], Head(lifecycle[n]).instance) \in Nat
      BY <1>0, Zenon DEF Tables, Vacate
    <2> QED BY <1>0, <1>1, <2>1, Zenon DEF Tables
  <1>7. Found'
    <2> SUFFICES ASSUME NEW b \in Connects, Running(b)
                 PROVE  /\ pc[b] \in {"confirm", "undo", "ok", "superseded"}
                        /\ pc[b] # "superseded" => sessions'[Home[b]] = instance[b]
                        /\ pc[b] = "superseded" => b \in mailbox
      BY <1>1, <1>5, Zenon DEF Found
    <2>1. b # c /\ instance[b] # 0 /\ Home[b] \in Nodes
      BY <1>0, <1>3, TakeoverAssumption, Zenon DEF Running, Found, OwnIds
    <2>2. instance[b] # instance[c]
      BY <1>0, <2>1, Zenon DEF OwnIds
    <2> QED BY <1>0, <1>4, <2>1, <2>2, ZenonT(30) DEF Found
  <1>8. pc' = pc /\ instance' = instance
    BY <1>1, Zenon
  <1>9. Registry'
    <2> SUFFICES ASSUME NEW m \in Nodes, sessions'[m] # 0
                 PROVE  \E b \in Connects :
                          /\ Home[b] = m /\ pc[b] \notin Unstarted /\ instance[b] = sessions'[m]
                          /\ Running(b)' \/ \E k \in 1 .. Len(lifecycle'[m]) : lifecycle'[m][k].instance = instance[b]
      BY <1>8 DEF Registry
    <2>1. sessions'[m] = sessions[m]
      BY <1>4, Zenon
    <2>2. PICK b \in Connects :
            /\ Home[b] = m /\ pc[b] \notin Unstarted /\ instance[b] = sessions[m]
            /\ Running(b) \/ \E k \in 1 .. Len(lifecycle[m]) : lifecycle[m][k].instance = instance[b]
      BY <1>0, <2>1, Zenon DEF Registry
    <2>3. ASSUME NEW k \in 1 .. Len(lifecycle[m]), lifecycle[m][k].instance = instance[b]
          PROVE  \E j \in 1 .. Len(lifecycle'[m]) : lifecycle'[m][j].instance = instance[b]
      <3>1. CASE m # n
        BY <1>4, <2>3, <3>1, Zenon
      <3>2. CASE m = n
        <4>1. k # 1
          BY <1>3, <1>4, <2>1, <2>2, <2>3, <3>2, Zenon
        <4>2. /\ k - 1 \in 1 .. Len(lifecycle'[n])
              /\ lifecycle'[n][k - 1] = lifecycle[n][k]
          BY <1>2, <1>4, <3>2, <4>1
        <4> QED BY <2>3, <3>2, <4>2, Zenon
      <3> QED BY <3>1, <3>2, Zenon
    <2> QED BY <1>5, <2>1, <2>2, <2>3, Zenon
  <1> QED BY <1>6, <1>7, <1>9, Zenon DEF LocalInv

\* A crash empties the node: no session, no registry entry, no map.
LEMMA CrashInv ==
  ASSUME IInv, TInv, NEW n \in Nodes, Crash(n)
  PROVE  TInv'
  <1>0. Types /\ MapInv /\ Tables /\ Registry /\ Found /\ Caught
    BY Zenon DEF IInv, TInv, LocalInv
  <1>1. /\ n # Leader
        /\ applied' = [applied EXCEPT ![n] = 0]
        /\ session_actor_map' = [session_actor_map EXCEPT ![n] = NoEntry]
        /\ force_stops' = {m \in force_stops : m[1] # n}
        /\ sessions' = [sessions EXCEPT ![n] = 0]
        /\ lifecycle' = [lifecycle EXCEPT ![n] = <<>>]
        /\ mailbox' = mailbox \ {a \in Connects : Home[a] = n}
        /\ UNCHANGED <<log, instance, replaced>>
    BY Zenon DEF Crash
  <1>2. /\ pc' = [a \in Connects |-> IF Home[a] = n /\ pc[a] \notin {"idle", "ok", "superseded"}
                                      THEN "failed" ELSE pc[a]]
        /\ actor' = [a \in Connects |-> IF Home[a] = n /\ Running(a) THEN "stopped" ELSE actor[a]]
    BY Zenon DEF Crash
  <1>3. \A a \in Connects : /\ Running(a)' <=> Running(a) /\ Home[a] # n
                            /\ Home[a] # n => pc'[a] = pc[a]
                            /\ actor[a] = "stopped" => actor'[a] = "stopped"
    BY <1>2, Zenon DEF Running
  <1>4. /\ applied'[n] = 0 /\ session_actor_map'[n].instance = 0 /\ sessions'[n] = 0
        /\ \A m \in Nodes : m # n =>
             /\ applied'[m] = applied[m] /\ session_actor_map'[m] = session_actor_map[m]
             /\ sessions'[m] = sessions[m] /\ lifecycle'[m] = lifecycle[m]
    BY <1>0, <1>1, Zenon DEF Types, Tables, NoEntry
  <1>5. \A a \in Connects : instance[a] \in Nat /\ Home[a] \in Nodes
    BY <1>0, TakeoverAssumption, Zenon DEF Types
  <1>6. MapInv'
    <2>1. LogTrue'
      BY <1>0, <1>1, <1>3, Zenon DEF MapInv, LogTrue
    <2>2. AppliedBounds'
      BY <1>0, <1>1, <1>4, TakeoverAssumption DEF MapInv, AppliedBounds, Types
    <2>3. Replayed'
      <3> SUFFICES ASSUME NEW m \in Nodes, NEW a \in Connects,
                          instance[a] # 0, actor'[a] # "stopped", instance[a] <= applied'[m],
                          ~LaterRegister(instance[a], applied[m])'
                   PROVE  session_actor_map'[m] = [node |-> Home[a], instance |-> instance[a]]
        BY <1>1 DEF Replayed
      <3>1. m # n
        BY <1>4, <1>5
      <3>2. ~LaterRegister(instance[a], applied[m])
        BY <1>1, <1>4, <3>1, Zenon DEF LaterRegister
      <3> QED BY <1>0, <1>3, <1>4, <3>1, <3>2, Zenon DEF MapInv, Replayed
    <2>4. NoLater'
      <3> SUFFICES ASSUME NEW m \in Nodes, session_actor_map'[m].instance # 0
                   PROVE  /\ session_actor_map'[m].instance <= applied'[m]
                          /\ ~LaterRegister(session_actor_map[m].instance, applied[m])'
        BY Zenon DEF NoLater
      <3>1. m # n
        BY <1>4, Zenon
      <3> QED BY <1>0, <1>1, <1>4, <3>1, ZenonT(30) DEF MapInv, NoLater, LaterRegister
    <2> QED BY <2>1, <2>2, <2>3, <2>4, Zenon DEF MapInv
  <1>7. Tables'
    BY <1>0, <1>1, Zenon DEF Tables
  <1>8. Registry'
    <2> SUFFICES ASSUME NEW m \in Nodes, sessions'[m] # 0
                 PROVE  \E b \in Connects :
                          /\ Home[b] = m /\ pc'[b] \notin Unstarted /\ instance[b] = sessions'[m]
                          /\ Running(b)' \/ \E k \in 1 .. Len(lifecycle'[m]) : lifecycle'[m][k].instance = instance[b]
      BY <1>1 DEF Registry
    <2>1. m # n
      BY <1>4, Zenon
    <2>2. PICK b \in Connects :
            /\ Home[b] = m /\ pc[b] \notin Unstarted /\ instance[b] = sessions[m]
            /\ Running(b) \/ \E k \in 1 .. Len(lifecycle[m]) : lifecycle[m][k].instance = instance[b]
      BY <1>0, <1>4, <2>1, Zenon DEF Registry
    <2> QED BY <1>3, <1>4, <2>1, <2>2, SMTT(30)
  <1>9. Found'
    BY <1>0, <1>1, <1>3, <1>4, <1>5 DEF Found
  <1>10. Caught'
    <2> SUFFICES ASSUME NEW a \in Connects, Running(a)', pc'[a] = "ok",
                        LaterRegister(instance[a], applied[Home[a]])'
                 PROVE  a \in mailbox' \/ <<Home[a], instance[a]>> \in force_stops'
      BY <1>1, Zenon DEF Caught
    <2>1. Running(a) /\ Home[a] # n /\ pc[a] = "ok"
      BY <1>3, Zenon
    <2>2. LaterRegister(instance[a], applied[Home[a]])
      BY <1>1, <1>4, <1>5, <2>1, Zenon DEF LaterRegister
    <2> QED BY <1>0, <1>1, <2>1, <2>2, Zenon DEF Caught
  <1> QED BY <1>6, <1>7, <1>8, <1>9, <1>10, Zenon DEF TInv, LocalInv

\* A committed request is applied at the leader.
LEMMA CommitInv ==
  ASSUME IInv, IInv', MapInv, Caught, NEW req \in Request, Commit(req), LogTrue',
         actor' = actor, mailbox' = mailbox,
         \A a \in Connects : instance'[a] # 0 => instance'[a] = instance[a] \/ instance'[a] = Len(log) + 1,
         \A a \in Connects : pc'[a] = "ok" => pc[a] = "ok" /\ instance'[a] = instance[a]
  PROVE  MapInv' /\ Caught'
  <1>0. Types /\ AppliedBounds /\ Leader \in Nodes
    BY TakeoverAssumption, Zenon DEF IInv, MapInv
  <1>1. /\ Len(log) \in Nat /\ Len(log') = Len(log) + 1
        /\ \A i \in 1 .. Len(log) : log'[i] = log[i]
        /\ log'[Len(log) + 1] = req
    BY <1>0, CommitTypes, SMTT(30) DEF Types
  <1>2. PICK index \in Nat : index = Len(log) + 1
    BY <1>1
  <1>3. index = applied[Leader] + 1
    BY <1>0, <1>2, Zenon DEF AppliedBounds
  <1>4. ApplyAt(Leader, log'[index], index)
    BY <1>1, <1>2, Zenon DEF Commit
  <1>5. AppliedBounds'
    <2>1. applied' = [applied EXCEPT ![Leader] = index]
      BY <1>4, Zenon DEF ApplyAt
    <2> QED BY <1>0, <1>1, <1>2, <2>1 DEF AppliedBounds, Types
  <1>6. index <= Len(log') /\ Len(log) <= Len(log')
    BY <1>1, <1>2
  <1>7. MapInv'
    BY <1>0, <1>1, <1>3, <1>4, <1>5, <1>6, MapApplied, Zenon
  <1>8. Caught'
    BY <1>0, <1>1, <1>3, <1>4, <1>6, CaughtApplied, Zenon
  <1> QED BY <1>7, <1>8, Zenon

\* Registering, the only step of a CONNECT that commits an entry of the map's log.
LEMMA RegisterInv ==
  ASSUME IInv, IInv', TInv, NEW a \in Connects, Register(a)
  PROVE  TInv'
  <1> DEFINE req == RegisterSession(Home[a])
  <1>0. Types /\ OwnIds /\ NotYetStarted /\ MapInv /\ LocalInv /\ Caught
    BY Zenon DEF IInv, TInv
  <1>1. req \in Request /\ req.op = "register" /\ Commit(req)
    BY TakeoverAssumption, Zenon DEF RegisterSession, Request, Register
  <1>2. /\ pc[a] = "idle" /\ \E v \in {"recover", "reset", "failed"} : pc' = [pc EXCEPT ![a] = v]
        /\ instance' = [instance EXCEPT ![a] = Len(log) + 1]
        /\ UNCHANGED <<sessions, replaced, actor, mailbox, lifecycle>>
    BY Zenon DEF Register, Goto, actorVars
  <1>3. /\ Len(log) \in Nat /\ Len(log') = Len(log) + 1
        /\ \A i \in 1 .. Len(log) : log'[i] = log[i]
        /\ log'[Len(log) + 1] = req
    BY <1>0, <1>1, CommitTypes DEF Types
  <1>4. instance[a] = 0 /\ actor[a] = "none"
    BY <1>0, <1>2, Zenon DEF OwnIds, NotYetStarted, Unstarted
  <1>5. \A b \in Connects : /\ b # a => instance'[b] = instance[b] /\ pc'[b] = pc[b]
                            /\ instance'[a] = Len(log) + 1 /\ pc'[a] # "ok"
    BY <1>0, <1>2, Zenon DEF Types
  <1> HIDE DEF req
  <1>6. LogTrue'
    <2>1. ASSUME NEW k \in 1 .. Len(log'), log'[k].op = "unregister"
          PROVE  \E b \in Connects : actor'[b] = "stopped" /\ instance'[b] = log'[k].instance
      <3>1. k \in 1 .. Len(log) /\ log'[k] = log[k]
        BY <1>1, <1>3, <2>1
      <3>2. PICK b \in Connects : actor[b] = "stopped" /\ instance[b] = log[k].instance
        BY <1>0, <2>1, <3>1, Zenon DEF MapInv, LogTrue
      <3> QED BY <1>2, <1>4, <1>5, <3>1, <3>2, Zenon
    <2>2. ASSUME NEW b \in Connects, instance'[b] # 0
          PROVE  log'[instance'[b]] = RegisterSession(Home[b])
      <3>1. CASE b = a
        BY <1>3, <1>5, <3>1, Zenon DEF req
      <3>2. CASE b # a
        <4>1. instance[b] \in 1 .. Len(log) /\ instance'[b] = instance[b]
          BY <1>0, <1>5, <2>2, <3>2, Zenon DEF OwnIds, Issued
        <4> QED BY <1>0, <1>3, <2>2, <4>1, Zenon DEF MapInv, LogTrue
      <3> QED BY <3>1, <3>2, Zenon
    <2> QED BY <2>1, <2>2, Zenon DEF LogTrue
  <1>7. MapInv' /\ Caught'
    BY <1>0, <1>1, <1>2, <1>5, <1>6, CommitInv, Zenon
  <1>8. LocalInv'
    <2>1. PICK v : pc' = [pc EXCEPT ![a] = v]
      BY <1>2, Zenon
    <2>2. pc[a] \in Unstarted
      BY <1>2, Zenon DEF Unstarted
    <2> QED BY <1>0, <1>2, <1>5, <2>1, <2>2, UnstartedLocal, Zenon
  <1> QED BY <1>7, <1>8, Zenon DEF TInv

\* The other steps of CreateSessionMessage.
LEMMA CreateInv ==
  ASSUME OneEach, IInv, TInv, NEW a \in Connects, CreateSession(a)
  PROVE  TInv'
  <1>0. Types /\ OwnIds /\ NotYetStarted /\ MapInv /\ LocalInv /\ Caught
    BY Zenon DEF IInv, TInv
  <1>1. UNCHANGED <<log, applied, session_actor_map, force_stops, instance>>
    BY Zenon DEF CreateSession, ResetState, RecoverState, ExpireState, CreateState, CheckOwner,
           StartSession, ConfirmOwner, UndoSession, mapVars
  <1>2. CASE ResetState(a) \/ RecoverState(a) \/ ExpireState(a) \/ CreateState(a) \/ CheckOwner(a)
    <2>1. /\ pc[a] \in {"reset", "recover", "expire", "create", "check"}
          /\ \E v \in PcState \ {"ok"} : pc' = [pc EXCEPT ![a] = v]
          /\ UNCHANGED <<sessions, replaced, actor, mailbox, lifecycle>>
      BY <1>2, Zenon DEF ResetState, RecoverState, ExpireState, CreateState, CheckOwner, Goto, actorVars, PcState
    <2>2. PICK v \in PcState \ {"ok"} : pc' = [pc EXCEPT ![a] = v]
      BY <2>1, Zenon
    <2>3. \A b \in Connects : pc'[b] = "ok" => pc[b] = "ok"
      BY <1>0, <2>2, Zenon DEF Types
    <2>4. MapInv'
      BY <1>0, <1>1, <2>1, MapKept, Zenon
    <2>5. Caught'
      BY <1>0, <1>1, <2>1, <2>3, CaughtKept, Zenon DEF Running
    <2>6. LocalInv'
      <3>1. pc[a] \in Unstarted
        BY <2>1, Zenon DEF Unstarted
      <3> QED BY <1>0, <1>1, <2>1, <2>2, <3>1, UnstartedLocal, Zenon
    <2> QED BY <2>4, <2>5, <2>6, Zenon DEF TInv
  <1>3. CASE StartSession(a)
    <2>1. /\ pc[a] = "start" /\ pc' = [pc EXCEPT ![a] = "confirm"]
          /\ actor' = [actor EXCEPT ![a] = "starting"] /\ mailbox' = mailbox
      BY <1>3, Zenon DEF StartSession, Goto
    <2>2. \A b \in Connects : pc'[b] = "ok" => b # a /\ pc[b] = "ok" /\ actor'[b] = actor[b]
      BY <1>0, <2>1, Zenon DEF Types
    <2>3. actor[a] = "none"
      BY <1>0, <2>1, Zenon DEF NotYetStarted, Unstarted
    <2>4. \A b \in Connects : actor[b] = "stopped" => actor'[b] = "stopped"
      BY <1>0, <2>1, <2>3, Zenon DEF Types
    <2>5. MapInv'
      BY <1>0, <1>1, <2>4, MapKept, Zenon
    <2>6. Caught'
      BY <1>0, <1>1, <2>1, <2>2, CaughtKept, Zenon DEF Running
    <2> QED BY <1>0, <1>3, <2>5, <2>6, StartLocal, Zenon DEF TInv
  <1>4. CASE ConfirmOwner(a)
    <2>1. /\ pc[a] = "confirm" /\ \E v \in {"ok", "undo"} : pc' = [pc EXCEPT ![a] = v]
          /\ UNCHANGED <<actor, mailbox>>
          /\ pc' = [pc EXCEPT ![a] = "ok"] => Owner = instance[a]
      BY <1>0, <1>4, Zenon DEF ConfirmOwner, Goto, actorVars, Types
    <2>2. MapInv'
      BY <1>0, <1>1, <2>1, MapKept, Zenon
    <2>3. Caught'
      <3> SUFFICES ASSUME NEW b \in Connects, Running(b)', pc'[b] = "ok",
                          LaterRegister(instance[b], applied[Home[b]])'
                   PROVE  b \in mailbox \/ <<Home[b], instance[b]>> \in force_stops
        BY <1>1, <2>1, Zenon DEF Caught
      <3>1. Running(b) /\ LaterRegister(instance[b], applied[Home[b]])
        BY <1>1, <2>1, Zenon DEF Running, LaterRegister
      <3>2. CASE b # a
        <4>1. pc[b] = "ok"
          BY <1>0, <2>1, <3>2, Zenon DEF Types
        <4> QED BY <1>0, <3>1, <4>1, Zenon DEF Caught
      <3>3. CASE b = a
        <4>1. pc' = [pc EXCEPT ![a] = "ok"]
          BY <1>0, <2>1, <3>3, Zenon DEF Types
        <4>2. Owner = instance[a] /\ instance[a] # 0
          BY <1>0, <2>1, <4>1, Zenon DEF OwnIds
        <4>3. ~LaterRegister(instance[a], applied[Leader])
          BY <1>0, <4>2, TakeoverAssumption, Zenon DEF MapInv, NoLater, Owner
        <4>4. /\ applied[Home[a]] \in Nat /\ applied[Leader] \in Nat /\ instance[a] \in Nat
              /\ applied[Home[a]] <= applied[Leader]
          BY <1>0, TakeoverAssumption, Zenon DEF Types, MapInv, AppliedBounds
        <4>5. \A j \in (instance[a] + 1) .. applied[Home[a]] : j \in (instance[a] + 1) .. applied[Leader]
          BY <4>4, SMTT(30)
        <4> QED BY <3>1, <3>3, <4>3, <4>5, Zenon DEF LaterRegister
      <3> QED BY <3>2, <3>3, Zenon
    <2> QED BY <1>0, <1>4, <2>2, <2>3, ConfirmLocal, Zenon DEF TInv
  <1>5. CASE UndoSession(a)
    <2>1. /\ pc' = [pc EXCEPT ![a] = "superseded"] /\ actor' = actor /\ mailbox \subseteq mailbox'
      BY <1>5, Zenon DEF UndoSession, Goto
    <2>2. \A b \in Connects : pc'[b] = "ok" => pc[b] = "ok"
      BY <1>0, <2>1, Zenon DEF Types
    <2>3. MapInv'
      BY <1>0, <1>1, <2>1, MapKept, Zenon
    <2>4. Caught'
      BY <1>0, <1>1, <2>1, <2>2, CaughtKept, Zenon DEF Running
    <2> QED BY <1>0, <1>5, <2>3, <2>4, UndoLocal, Zenon DEF TInv
  <1> QED BY <1>2, <1>3, <1>4, <1>5, Zenon DEF CreateSession

\* A session stops.
LEMMA StopInv ==
  ASSUME IInv, TInv, NEW a \in Connects, Running(a), Stop(a),
         UNCHANGED <<log, applied, session_actor_map, force_stops, sessions, replaced, pc, instance>>
  PROVE  TInv'
  <1>0. Types /\ MapInv /\ LocalInv /\ Caught
    BY Zenon DEF IInv, TInv
  <1>1. actor' = [actor EXCEPT ![a] = "stopped"] /\ mailbox' = mailbox \ {a}
    BY Zenon DEF Stop
  <1>2. /\ \A b \in Connects : actor[b] = "stopped" => actor'[b] = "stopped"
        /\ \A b \in Connects : Running(b)' => Running(b) /\ b # a
    BY <1>0, <1>1, Zenon DEF Types, Running
  <1>3. MapInv'
    BY <1>0, <1>2, MapKept, Zenon
  <1>4. Caught'
    <2>1. \A b \in mailbox : Running(b)' => b \in mailbox'
      BY <1>0, <1>1, Zenon DEF Types, Running
    <2> QED BY <1>0, <1>2, <2>1, CaughtKept, Zenon
  <1> QED BY <1>0, <1>3, <1>4, StopLocal, Zenon DEF TInv

\* Steps of the actors and of the sweep that stop no session.
LEMMA QuietInv ==
  ASSUME TInv, \A a \in Connects : Running(a)' <=> Running(a),
         \A a \in Connects : actor[a] = "stopped" => actor'[a] = "stopped",
         force_stops \subseteq force_stops',
         UNCHANGED <<log, applied, session_actor_map, sessions, replaced, pc, instance, mailbox, lifecycle>>
  PROVE  TInv'
  <1>0. MapInv /\ LocalInv /\ Caught
    BY Zenon DEF TInv
  <1>1. MapInv'
    BY <1>0, MapKept, Zenon
  <1>2. Caught'
    BY <1>0, CaughtKept, Zenon
  <1>3. LocalInv'
    BY <1>0, QuietLocal, Zenon
  <1> QED BY <1>1, <1>2, <1>3, Zenon DEF TInv

\* Every step of a session actor.
LEMMA ActorInv ==
  ASSUME IInv, TInv, NEW a \in Connects, ActorStarted(a) \/ HandleForceStop(a) \/ ClientDisconnect(a)
  PROVE  TInv'
  <1>0. Types
    BY Zenon DEF IInv
  <1>1. UNCHANGED <<log, applied, session_actor_map, force_stops, sessions, replaced, pc, instance>>
    BY Zenon DEF ActorStarted, HandleForceStop, ClientDisconnect, mapVars, connectVars
  <1>2. Running(a)
    BY Zenon DEF ActorStarted, HandleForceStop, ClientDisconnect, Running
  <1>3. CASE Stop(a)
    BY <1>1, <1>2, <1>3, StopInv, Zenon
  <1>4. CASE /\ \E v \in {"active", "inactive", "deleting"} : actor' = [actor EXCEPT ![a] = v]
             /\ UNCHANGED <<mailbox, lifecycle>>
    <2>1. \A b \in Connects : /\ Running(b)' <=> Running(b)
                              /\ actor[b] = "stopped" => actor'[b] = "stopped"
      BY <1>0, <1>2, <1>4, Zenon DEF Types, Running
    <2> QED BY <1>1, <1>4, <2>1, QuietInv, Zenon
  <1> QED BY <1>3, <1>4, Zenon DEF ActorStarted, HandleForceStop, ClientDisconnect

\* Every step of the requests in flight.
LEMMA WriteInv ==
  ASSUME IInv, TInv, NEW w \in writes, WriteCommits(w) \/ WriteDropped(w)
  PROVE  TInv'
  <1>1. UNCHANGED <<log, applied, session_actor_map, force_stops, sessions, replaced, pc, instance>>
    BY Zenon DEF WriteCommits, WriteDropped, mapVars, connectVars
  <1>2. w.by \in Connects
    BY Zenon DEF IInv, Types
  <1>3. CASE Stop(w.by) /\ actor[w.by] = "deleting"
    BY <1>1, <1>2, <1>3, StopInv, Zenon DEF Running
  <1>4. CASE UNCHANGED <<actor, mailbox, lifecycle>>
    BY <1>1, <1>4, QuietInv, Zenon DEF Running
  <1> QED BY <1>3, <1>4, Zenon DEF WriteCommits, WriteDropped

\* A follower applies the next entry.
LEMMA FollowerInv ==
  ASSUME IInv, IInv', TInv, NEW n \in Nodes, ApplyNext(n)
  PROVE  TInv'
  <1>0. Types /\ MapInv /\ LocalInv /\ Caught
    BY Zenon DEF IInv, TInv
  <1>1. /\ n # Leader /\ applied[n] < Len(log) /\ ApplyAt(n, log[applied[n] + 1], applied[n] + 1)
        /\ UNCHANGED <<log, sessions, replaced, pc, instance, actor, mailbox, lifecycle>>
    BY Zenon DEF ApplyNext, connectVars, actorVars
  <1>2. applied[n] \in Nat /\ Len(log) \in Nat
    BY <1>0 DEF Types
  <1>3. PICK index \in Nat : index = applied[n] + 1
    BY <1>2
  <1>4. ApplyAt(n, log'[index], index) /\ index <= Len(log') /\ Len(log) <= Len(log')
    BY <1>1, <1>2, <1>3
  <1>5. LogTrue'
    BY <1>0, <1>1, Zenon DEF MapInv, LogTrue
  <1>6. AppliedBounds'
    <2>1. applied' = [applied EXCEPT ![n] = index]
      BY <1>4, Zenon DEF ApplyAt
    <2> QED BY <1>0, <1>1, <1>2, <1>3, <2>1, TakeoverAssumption, SMTT(30) DEF MapInv, AppliedBounds, Types
  <1>7. MapInv'
    BY <1>0, <1>1, <1>3, <1>4, <1>5, <1>6, MapApplied, Zenon
  <1>8. Caught'
    BY <1>0, <1>1, <1>3, <1>4, CaughtApplied, Zenon
  <1>9. LocalInv'
    BY <1>0, <1>1, QuietLocal, Zenon DEF Running
  <1> QED BY <1>7, <1>8, <1>9, Zenon DEF TInv

\* ForceStopWithSessionService finds the session it is for in the registry.
LEMMA ForceStopInv ==
  ASSUME IInv, TInv, NEW n \in Nodes, NEW i, HandleForceStopRequest(n, i)
  PROVE  TInv'
  <1>0. MapInv /\ LocalInv /\ Caught /\ Found
    BY Zenon DEF TInv, LocalInv
  <1>1. /\ force_stops' = force_stops \ {<<n, i>>}
        /\ mailbox' = mailbox \cup {a \in Connects : sessions[n] = i /\ instance[a] = i /\ Running(a)}
        /\ UNCHANGED <<log, applied, session_actor_map, sessions, replaced, pc, instance, actor, lifecycle>>
    BY Zenon DEF HandleForceStopRequest, connectVars
  <1>2. MapInv'
    BY <1>0, <1>1, MapKept, Zenon
  <1>3. LocalInv'
    BY <1>0, <1>1, QuietLocal, Zenon DEF Running
  <1>4. Caught'
    <2> SUFFICES ASSUME NEW a \in Connects, Running(a), pc[a] = "ok",
                        LaterRegister(instance[a], applied[Home[a]])
                 PROVE  a \in mailbox' \/ <<Home[a], instance[a]>> \in force_stops'
      BY <1>1, Zenon DEF Caught, Running, LaterRegister
    <2>1. sessions[Home[a]] = instance[a]
      BY <1>0, Zenon DEF Found
    <2>2. a \in mailbox \/ <<Home[a], instance[a]>> \in force_stops
      BY <1>0, Zenon DEF Caught
    <2>3. CASE <<Home[a], instance[a]>> = <<n, i>>
      BY <1>1, <2>1, <2>3, Zenon
    <2>4. CASE <<Home[a], instance[a]>> # <<n, i>>
      BY <1>1, <2>2, <2>4, Zenon
    <2> QED BY <2>3, <2>4, Zenon
  <1> QED BY <1>2, <1>3, <1>4, Zenon DEF TInv

\* Unregistering a stopped session.
LEMMA UnregisterInv ==
  ASSUME IInv, IInv', TInv, NEW n \in Nodes, UnregisterStopped(n)
  PROVE  TInv'
  <1>0. Types /\ NoticesTrue /\ MapInv /\ LocalInv /\ Caught
    BY Zenon DEF IInv, TInv
  <1>1. /\ lifecycle[n] # <<>> /\ lifecycle' = [lifecycle EXCEPT ![n][1].step = "remove"]
        /\ UNCHANGED <<sessions, replaced, pc, instance, actor, mailbox>>
    BY Zenon DEF UnregisterStopped, connectVars
  <1>2. PICK i : i = Head(lifecycle[n]).instance
    BY Zenon
  <1>3. lifecycle[n] \in Seq(Notice) /\ 1 \in 1 .. Len(lifecycle[n]) /\ i = lifecycle[n][1].instance
    BY <1>0, <1>1, <1>2 DEF Types
  <1>4. PICK c \in Connects : actor[c] = "stopped" /\ instance[c] = i
    BY <1>0, <1>3, Zenon DEF NoticesTrue
  <1>5. \A m \in Nodes : /\ Len(lifecycle'[m]) = Len(lifecycle[m])
                         /\ \A k \in 1 .. Len(lifecycle[m]) :
                              lifecycle'[m][k].instance = lifecycle[m][k].instance
    BY <1>0, <1>1, <1>3, SMTT(30) DEF Types, Notice
  <1>6. LocalInv'
    <2>1. \A a \in Connects : Running(a)' <=> Running(a)
      BY <1>1, Zenon DEF Running
    <2> QED BY <1>0, <1>1, <1>5, <2>1, QuietLocal, Zenon
  <1>7. CASE Commit(UnregisterSession(i))
    <2> DEFINE req == UnregisterSession(i)
    <2>0. i \in Nat
      BY <1>0, <1>4, Zenon DEF Types
    <2>1. req \in Request /\ req.instance = i /\ req.op = "unregister"
      BY <2>0, TakeoverAssumption, Zenon DEF UnregisterSession, Request
    <2>2. Commit(req)
      BY <1>7, ZenonT(30)
    <2> HIDE DEF req
    <2>3. /\ Len(log) \in Nat /\ Len(log') = Len(log) + 1
          /\ \A k \in 1 .. Len(log) : log'[k] = log[k]
          /\ log'[Len(log) + 1] = req
      BY <1>0, <2>1, <2>2, CommitTypes, SMTT(30) DEF Types
    <2>4. LogTrue'
      <3>1. ASSUME NEW k \in 1 .. Len(log'), log'[k].op = "unregister"
            PROVE  \E b \in Connects : actor[b] = "stopped" /\ instance[b] = log'[k].instance
        <4>1. CASE k = Len(log) + 1
          BY <1>4, <2>1, <2>3, <4>1, Zenon
        <4>2. CASE k # Len(log) + 1
          <5>1. k \in 1 .. Len(log) /\ log'[k] = log[k]
            BY <2>3, <4>2
          <5> QED BY <1>0, <3>1, <5>1, Zenon DEF MapInv, LogTrue
        <4> QED BY <4>1, <4>2, Zenon
      <3>2. ASSUME NEW b \in Connects, instance[b] # 0
            PROVE  log'[instance[b]] = RegisterSession(Home[b])
        <4>1. instance[b] \in 1 .. Len(log)
          BY <3>2, Zenon DEF IInv, OwnIds, Issued
        <4> QED BY <1>0, <2>3, <3>2, <4>1, Zenon DEF MapInv, LogTrue
      <3> QED BY <1>1, <3>1, <3>2, Zenon DEF LogTrue
    <2>5. MapInv' /\ Caught'
      BY <1>0, <1>1, <2>1, <2>2, <2>4, CommitInv, Zenon
    <2> QED BY <1>6, <2>5, Zenon DEF TInv
  <1>8. CASE UNCHANGED mapVars
    <2>1. UNCHANGED <<log, applied, session_actor_map, force_stops>>
      BY <1>8, Zenon DEF mapVars
    <2>2. MapInv'
      BY <1>0, <1>1, <2>1, MapKept, Zenon
    <2>3. Caught'
      BY <1>0, <1>1, <2>1, CaughtKept, Zenon DEF Running
    <2> QED BY <1>6, <2>2, <2>3, Zenon DEF TInv
  <1>9. Commit(UnregisterSession(i)) \/ UNCHANGED mapVars
    <2>1. Commit(UnregisterSession(Head(lifecycle[n]).instance)) \/ UNCHANGED mapVars
      BY Zenon DEF UnregisterStopped
    <2> QED BY <2>1, <1>2, Zenon DEF Commit, UnregisterSession
  <1> QED BY <1>7, <1>8, <1>9, Zenon

\* RemoveSessionMessage.
LEMMA RemoveInv ==
  ASSUME OneEach, IInv, TInv, NEW n \in Nodes, RemoveSession(n)
  PROVE  TInv'
  <1>0. MapInv /\ LocalInv /\ Caught
    BY Zenon DEF TInv
  <1>1. UNCHANGED <<log, applied, session_actor_map, force_stops, pc, instance, actor, mailbox>>
    BY Zenon DEF RemoveSession, mapVars, connectVars
  <1>2. MapInv'
    BY <1>0, <1>1, MapKept, Zenon
  <1>3. Caught'
    BY <1>0, <1>1, CaughtKept, Zenon DEF Running
  <1> QED BY <1>0, <1>2, <1>3, RemoveLocal, Zenon DEF TInv

\* Every step keeps the invariant if the CONNECTs come to different nodes.
LEMMA TakeoverInductive ==
  ASSUME OneEach, IInv, IInv', TInv, [Next]_vars
  PROVE  TInv'
  <1>1. CASE UNCHANGED vars
    BY <1>1, QuietInv, Zenon DEF vars, mapVars, connectVars, actorVars, Running
  <1>2. ASSUME NEW a \in Connects,
               Register(a) \/ CreateSession(a) \/ ActorStarted(a) \/ HandleForceStop(a) \/ ClientDisconnect(a)
        PROVE  TInv'
    BY <1>2, RegisterInv, CreateInv, ActorInv, Zenon
  <1>3. ASSUME NEW w \in writes, WriteCommits(w) \/ WriteDropped(w) PROVE TInv'
    BY <1>3, WriteInv, Zenon
  <1>4. ASSUME NEW n \in Nodes, ManagerStep(n) \/ Crash(n) PROVE TInv'
    <2>1. ASSUME NEW i \in Indices, HandleForceStopRequest(n, i) PROVE TInv'
      BY <2>1, ForceStopInv, Zenon
    <2> QED BY <1>4, <2>1, FollowerInv, UnregisterInv, RemoveInv, CrashInv, Zenon DEF ManagerStep
  <1>5. CASE ScanExpired \/ SweepStep
    <2>1. /\ UNCHANGED <<log, applied, session_actor_map, sessions, replaced, pc, instance, mailbox, lifecycle>>
          /\ actor' = actor /\ force_stops \subseteq force_stops'
      BY <1>5, ZenonT(30) DEF ScanExpired, SweepStep, SweepForceStop, SweepAwait, SweepDelete,
                  mapVars, connectVars, actorVars
    <2> QED BY <2>1, QuietInv, Zenon DEF Running
  <1> QED BY <1>1, <1>2, <1>3, <1>4, <1>5, Zenon DEF Next

\* Once everything is handled, a running session has no later registration.
LEMMA SettledOwner ==
  ASSUME IInv, TInv, Settled, NEW a \in Connects, Running(a)
  PROVE  pc[a] = "ok" /\ sessions[Home[a]] = instance[a] /\ instance[a] # 0 /\ Owner = instance[a]
  <1>0. /\ mailbox = {} /\ force_stops = {} /\ \A n \in Nodes : applied[n] = Len(log)
        /\ pc[a] \notin {"confirm", "undo"}
    BY Zenon DEF Settled
  <1>1. pc[a] = "ok" /\ sessions[Home[a]] = instance[a]
    BY <1>0, Zenon DEF TInv, LocalInv, Found
  <1>2. instance[a] # 0 /\ instance[a] \in 1 .. Len(log) /\ actor[a] # "stopped"
    BY <1>1, Zenon DEF IInv, OwnIds, Issued, Running
  <1>3. ~LaterRegister(instance[a], applied[Home[a]])
    BY <1>0, <1>1, Zenon DEF TInv, Caught
  <1>4. applied[Home[a]] = Len(log) /\ applied[Leader] = Len(log) /\ Leader \in Nodes
    BY <1>0, TakeoverAssumption, Zenon
  <1>5. instance[a] <= applied[Leader] /\ ~LaterRegister(instance[a], applied[Leader])
    BY <1>2, <1>3, <1>4
  <1>6. session_actor_map[Leader] = [node |-> Home[a], instance |-> instance[a]]
    BY <1>2, <1>4, <1>5, Zenon DEF TInv, MapInv, Replayed
  <1> QED BY <1>1, <1>2, <1>6 DEF Owner

\* OnlyOwnerRuns, for any number of nodes, CONNECTs, failures, crashes and
\* sweeps: a replaced session is always stopped, by the request its node sends
\* when it applies the new registration or by its own second ownership check,
\* if every CONNECT of the client comes to another node.
THEOREM OnlyOwnerKeepsRunning ==
  ASSUME OneEach
  PROVE  Spec => []OnlyOwnerRuns
  <1>1. Init => IInv /\ TInv
    BY InitInv, InitLocal, Zenon
  <1>2. (IInv /\ TInv) /\ [Next]_vars => (IInv /\ TInv)'
    BY NextInv, TakeoverInductive, Zenon
  <1>3. IInv /\ TInv => OnlyOwnerRuns
    BY SettledOwner, ZenonT(30) DEF OnlyOwnerRuns
  <1> QED BY <1>1, <1>2, <1>3, PTL DEF Spec

\* RegistryHoldsRunning under the same condition: once everything is handled, a
\* registry names the session that runs at its node, and no other.
THEOREM RegistriesExact ==
  ASSUME OneEach
  PROVE  Spec => []RegistryHoldsRunning
  <1>1. Init => IInv /\ TInv
    BY InitInv, InitLocal, Zenon
  <1>2. (IInv /\ TInv) /\ [Next]_vars => (IInv /\ TInv)'
    BY NextInv, TakeoverInductive, Zenon
  <1>3. IInv /\ TInv => RegistryHoldsRunning
    <2> SUFFICES ASSUME IInv, TInv, Settled, NEW n \in Nodes
                 PROVE  {i \in {sessions[n]} : i # 0} =
                          {instance[a] : a \in {b \in Connects : Running(b) /\ Home[b] = n}}
      BY Zenon DEF RegistryHoldsRunning
    <2>1. ASSUME NEW a \in Connects, Running(a), Home[a] = n
          PROVE  instance[a] = sessions[n] /\ sessions[n] # 0
      BY <2>1, SettledOwner, Zenon
    <2>2. ASSUME sessions[n] # 0
          PROVE  \E a \in Connects : Running(a) /\ Home[a] = n /\ instance[a] = sessions[n]
      <3>1. Len(lifecycle[n]) = 0
        BY DEF Settled
      <3> QED BY <2>2, <3>1 DEF TInv, LocalInv, Registry
    <2> QED BY <2>1, <2>2, Zenon
  <1> QED BY <1>1, <1>2, <1>3, PTL DEF Spec
===============================================================================
