-------------------------- MODULE RaftGatewayProofs --------------------------
(***************************************************************************)
(* A write that was acknowledged is in the log, no request is in the log   *)
(* twice, and a registration the state machine refused is not              *)
(* acknowledged, for any number of nodes, requests, elections, restarts    *)
(* and lost RPCs.                                                          *)
(*                                                                         *)
(* A request travels as one message: it is a call or is kept by one actor, *)
(* and by neither once it is in the log.  Whatever handler a call has      *)
(* reached writes if and only if the caller asked for a write.             *)
(***************************************************************************)
EXTENDS RaftGateway, TLAPS

IsCall(c) ==
  /\ c = [x \in DOMAIN c |-> c[x]] /\ {"req", "node", "handler", "forward", "rpc"} \subseteq DOMAIN c
  /\ c.req \in Ids

IsRequest(q) ==
  /\ q = [x \in DOMAIN q |-> q[x]] /\ {"status", "entry", "by", "value", "before"} \subseteq DOMAIN q
  /\ q.status = "error" => q.entry = NoEntry

Shapes ==
  /\ group \in Groups
  /\ req = [r \in Ids |-> req[r]] /\ \A r \in Ids : IsRequest(req[r])
  /\ pending = [n \in Nodes |-> pending[n]]
  /\ \A c \in calls : IsCall(c)
  /\ \A n \in Nodes : \A m \in pending[n] : IsCall(m)
  /\ log \in Seq([req : Ids, outcome : {"done"} \cup Rejections])

\* A request is carried by one message.
Alone ==
  /\ \A c, d \in calls : c.req = d.req => c = d
  /\ \A n \in Nodes : \A m \in pending[n] : \A c \in calls : c.req # m.req
  /\ \A n, k \in Nodes : \A m \in pending[n], l \in pending[k] : m.req = l.req => n = k /\ m = l

\* Nothing carries a request that was written, or that was not made.
Carried(r) == (\E c \in calls : c.req = r) \/ \E n \in Nodes : \E m \in pending[n] : m.req = r

Gone ==
  \A r \in Ids : /\ Logged(r) => ~Carried(r)
                 /\ req[r].status = "idle" => ~Carried(r) /\ ~Logged(r)

\* What the handlers of the three actors have in common: what is acknowledged
\* while it is kept is not sent again, and the handler that a forwarded call
\* reaches writes if the one that forwards it does.
Sound(h) ==
  /\ h.initializing = "queue_ok" => h.type # "command"
  /\ group = "topic" => ~h.forwards
  /\ group = "session_state" /\ h.forwards /\ h.work # "write" =>
       /\ Head(h.remote).work # "write" /\ ~Head(h.remote).forwards
       /\ Head(h.remote).initializing # "queue_ok"

\* A handler that a call can be passed on to.
Next_(h, next) ==
  /\ Sound(next)
  /\ (next.work = "write") <=> (h.work = "write")
  /\ next.work = "write" => next.initializing \notin {"queue_ok", "empty"}
  /\ group = "session_state" /\ h.work = "write" => h.reports \subseteq next.reports

\* What a caller asked for and the handler its call has reached.
Meets(entry, h) ==
  /\ (h.work = "write") <=> (entry.handler.work = "write")
  /\ h.work = "write" /\ h.initializing \in {"queue_ok", "empty"} => entry.handler.type = "clean"
  /\ group = "session_state" /\ h.work = "write" => entry.handler.reports \subseteq h.reports

Kinds ==
  /\ \A c \in calls :
       /\ Sound(c.handler)
       /\ c.forward # <<>> => Next_(c.handler, Head(c.forward))
       /\ req[c.req].status \in {"waiting", "error"}
       /\ req[c.req].status = "waiting" => Meets(req[c.req].entry, c.handler)
  /\ \A n \in Nodes : \A m \in pending[n] :
       Sound(m.handler) /\ (m.handler.type = "command" => req[m.req].status = "error")

IInv == Shapes /\ Alone /\ Gone /\ Kinds /\ WrittenOnce /\ AckedIsLogged /\ RefusedIsReported

-----------------------------------------------------------------------------
\* The handlers.

\* A call that a handler forwards reaches a handler of the same kind.
LEMMA RemoteIsNext ==
  ASSUME group \in Groups, NEW h, Sound(h), h.forwards
  PROVE  Next_(h, Remote(h))
  <1>1. CASE group = "topic"
    BY <1>1, Zenon DEF Sound
  <1>2. CASE group = "session_state"
    <2>1. Remote(h) = State!Remote(h)
      BY <1>2, Zenon DEF Remote
    <2>2. CASE h.work = "write"
      <3>1. /\ Remote(h).type = "other" /\ Remote(h).work = "write" /\ Remote(h).initializing = "queue"
            /\ Remote(h).reports = h.reports
        BY <2>1, <2>2, Zenon DEF State!Remote, State!Reporting, State!DirectWriteToRaft, State!Handler
      <3> QED BY <1>2, <2>2, <3>1, Zenon DEF Next_, Sound
    <2>3. CASE h.work # "write"
      <3>1. Remote(h) = Head(h.remote)
        BY <2>1, <2>3, Zenon DEF State!Remote
      <3> QED BY <1>2, <2>3, <3>1, Zenon DEF Next_, Sound
    <2> QED BY <2>2, <2>3, Zenon
  <1>3. CASE group = "session_actor_map"
    <2>1. /\ Remote(h).type = "other" /\ Remote(h).initializing \in {"queue", "reject"}
          /\ Remote(h).work = IF h.work = "write" THEN "write" ELSE "leader_read"
      BY <1>3, Zenon DEF Remote, Map!Remote, Map!DirectWriteToRaft, Map!get_session_actor_map,
                  Map!GetSessionActorMapLinearizable, Map!Handler
    <2> QED BY <1>3, <2>1, Zenon DEF Next_, Sound
  <1> QED BY <1>1, <1>2, <1>3, Zenon DEF Groups

\* The group of a behaviour never changes.
LEMMA KindsFrame ==
  ASSUME UNCHANGED group
  PROVE  /\ \A h : Sound(h)' <=> Sound(h)
         /\ \A h, next : Next_(h, next)' <=> Next_(h, next)
         /\ \A entry, h : Meets(entry, h)' <=> Meets(entry, h)
  BY ZenonT(30) DEF Sound, Next_, Meets

\* What a caller may send to its actor.
LEMMA EntryKinds ==
  ASSUME group \in Groups, NEW e \in Entries
  PROVE  /\ Sound(e.handler) /\ Meets(e, e.handler)
         /\ e.forward # <<>> => Next_(e.handler, Head(e.forward))
  <1>1. CASE group = "topic"
    <2>1. e \in Topic!Entries
      BY <1>1, Zenon DEF Entries
    <2> QED BY <1>1, <2>1
          DEF Sound, Meets, Next_, Topic!Entries, Topic!Entry, Topic!Handler, Topic!Command,
              Topic!Query, Topic!subscribe, Topic!unsubscribe, Topic!register_retain, Topic!clean_retain,
              Topic!get_subscriptions_linearizable, Topic!get_retain_publish_packets_linearizable,
              Topic!Subscribe, Topic!Unsubscribe, Topic!RegisterRetainPublishPacket,
              Topic!CleanRetainPublishPacket, Topic!GetSubscriptions,
              Topic!GetSubscriptionsEnsureLinearizable, Topic!GetRetainPublishPacket,
              Topic!GetRetainPublishPacketEnsureLinearizable,
              Topic!GetRetainMessageListWithPagination, Topic!GetTopicListWithPagination,
              Topic!GetClusterNodes, Topic!DirectWriteToRaft, Topic!subscribe_topic,
              Topic!unsubscribe_topic, Topic!get_subscribers_by_topic,
              Topic!register_retain_publish_message, Topic!get_retain_publish_message,
              Topic!clean_retain_publish_message
  <1>2. CASE group = "session_state"
    <2>1. e \in State!Entries
      BY <1>2, Zenon DEF Entries
    <2> QED BY <1>2, <2>1
          DEF Sound, Meets, Next_, State!Entries, State!Entry, State!Handler,
              State!Command, State!Query, State!Reporting, State!Reaching,
              State!service_store_offline, State!service_pop_offline,
              State!service_get_linearizable, State!service_create, State!service_delete,
              State!service_update_connection, State!service_scan_expired,
              State!service_subscribe, State!service_unsubscribe,
              State!service_register_rx, State!service_register_tx, State!service_advance,
              State!service_clean_finished, State!start_inflight_delivery,
              State!discard_unsent_inflight, State!write_delivery_command,
              State!store_offline_message, State!pop_offline_message,
              State!get_session_state, State!create_session_state,
              State!delete_session_state, State!register_inflight_rx_packet,
              State!register_inflight_tx_packet, State!advance_inflight_state,
              State!get_current_inflight_packet, State!get_next_inflight_packet,
              State!GetCurrentInflightPacketLinearizable,
              State!GetNextInflightPacketLinearizable,
              State!GetSessionStateEnsureLinearizable, State!GetClusterNodes,
              State!GetPayloadReady, State!StoreOfflineMessage, State!PopOfflineMessage,
              State!CreateSessionState, State!DeleteSessionState, State!SubscribeTopic,
              State!UnsubscribeTopic, State!UpdateSessionConnectionState,
              State!RegisterInflightRxPacket, State!RegisterInflightTxPacket,
              State!AdvanceInflightState, State!InflightCleanFinishedItems,
              State!DirectWriteToRaft, State!ScanExpiredSessions, State!GetSessionState,
              State!GetCurrentInflightPacket, State!GetNextInflightPacket
  <1>3. CASE group = "session_actor_map"
    <2>1. e \in Map!Entries
      BY <1>3, Zenon DEF Entries
    <2> QED BY <1>3, <2>1
          DEF Sound, Meets, Next_, Map!Entries, Map!Entry, Map!Handler, Map!Command,
              Map!service_renew_session, Map!service_register, Map!service_unregister,
              Map!service_get, Map!service_get_linearizable,
              Map!register_session_actor_map, Map!un_register_session_actor_map,
              Map!renew_session_lease, Map!get_session_actor_map,
              Map!GetClientListWithPagination, Map!GetClusterNodes, Map!RenewSession,
              Map!RegisterSessionActorMap, Map!UnregisterSessionActorMap,
              Map!GetSessionActorMap, Map!GetSessionActorMapLinearizable
  <1> QED BY <1>1, <1>2, <1>3, Zenon DEF Groups

-----------------------------------------------------------------------------
\* Answers.

\* Answering a caller touches what that caller was told and nothing else.
Told(q, c, status, entry) ==
  /\ q = [r \in Ids |-> q[r]] /\ \A r \in Ids : IsRequest(q[r])
  /\ \A r \in Ids : r # c.req => q[r] = req[r]
  /\ IF req[c.req].status = "waiting" THEN q[c.req].status = status /\ q[c.req].entry = entry
                                      ELSE q[c.req] = req[c.req]

\* The log is about requests.
LEMMA LogOfRequests ==
  ASSUME Shapes, NEW i \in DOMAIN log
  PROVE  log[i] \in [req : Ids, outcome : {"done"} \cup Rejections] /\ log[i].req \in Ids
  <1> DEFINE S == [req : Ids, outcome : {"done"} \cup Rejections]
  <1>1. log \in Seq(S)
    BY Zenon DEF Shapes
  <1>2. \A x \in S : x.req \in Ids
    BY Zenon
  <1> HIDE DEF S
  <1>3. log[i] \in S
    BY <1>1
  <1>4. log[i].req \in Ids
    BY <1>2, <1>3, Zenon
  <1> QED BY <1>3, <1>4, Zenon DEF S

\* What Refuse does.
LEMMA Refusing ==
  ASSUME Shapes, NEW c, c.req \in Ids
  PROVE  Told(Refuse(c), c, "error", NoEntry)
  <1>1. /\ req = [r \in Ids |-> req[r]]
        /\ \A r \in Ids : IsRequest(req[r])
    BY Zenon DEF Shapes
  <1>2. CASE req[c.req].status # "waiting"
    BY <1>1, <1>2, Zenon DEF Refuse, Told
  <1>3. CASE req[c.req].status = "waiting"
    <2>1. Refuse(c) = [req EXCEPT ![c.req] = Refused]
      BY <1>3, Zenon DEF Refuse
    <2>2. IsRequest(Refused) /\ Refused.status = "error" /\ Refused.entry = NoEntry
      BY Zenon DEF Refused, IsRequest
    <2> QED BY <1>1, <1>3, <2>1, <2>2, Zenon DEF Told
  <1> QED BY <1>2, <1>3, Zenon

\* What Answer does.
LEMMA Answering ==
  ASSUME Shapes, NEW c, c.req \in Ids, NEW by, NEW value
  PROVE  Told(Answer(c, by, value), c, "ok", req[c.req].entry)
  <1>1. /\ req = [r \in Ids |-> req[r]]
        /\ \A r \in Ids : IsRequest(req[r])
    BY Zenon DEF Shapes
  <1>2. CASE req[c.req].status # "waiting"
    BY <1>1, <1>2, Zenon DEF Answer, Told
  <1>3. CASE req[c.req].status = "waiting"
    <2>1. PICK t : t = [req[c.req] EXCEPT !.status = "ok", !.by = by, !.value = value]
      BY Zenon
    <2>2. Answer(c, by, value) = [req EXCEPT ![c.req] = t]
      BY <1>1, <1>3, <2>1, Zenon DEF Answer
    <2>3. IsRequest(t) /\ t.status = "ok" /\ t.entry = req[c.req].entry
      BY <1>1, <2>1, Zenon DEF IsRequest
    <2> QED BY <1>1, <1>3, <2>2, <2>3, Zenon DEF Told
  <1> QED BY <1>2, <1>3, Zenon

\* A step that ends a call, or not, without writing.
LEMMA EndStep ==
  ASSUME IInv, NEW c \in calls, NEW status, NEW entry, Told(req', c, status, entry),
         \/ status = "error" /\ entry = NoEntry
         \/ /\ status = "ok" /\ entry = req[c.req].entry /\ calls' = calls \ {c}
            /\ c.handler.work # "write",
         calls' \in {calls, calls \ {c}},
         UNCHANGED <<group, pending, log>>
  PROVE  IInv'
  <1>1. c.req \in Ids /\ req[c.req].status \in {"waiting", "error"}
    BY Zenon DEF IInv, Shapes, IsCall, Kinds
  <1>2. calls' \subseteq calls
    BY Zenon
  <1>3. Shapes'
    BY <1>2, Zenon DEF IInv, Shapes, Told, IsRequest, IsCall, NoEntry
  <1>4. Alone'
    BY <1>2 DEF IInv, Alone
  <1>5. Gone'
    BY <1>1, <1>2, Zenon DEF IInv, Gone, Carried, Logged, Told
  <1>6. Kinds'
    <2>1. ASSUME NEW d \in calls'
          PROVE  (/\ Sound(d.handler)
                  /\ d.forward # <<>> => Next_(d.handler, Head(d.forward))
                  /\ req[d.req].status \in {"waiting", "error"}
                  /\ req[d.req].status = "waiting" => Meets(req[d.req].entry, d.handler))'
      <3>1. d \in calls /\ d.req \in Ids
        BY <1>2, Zenon DEF IInv, Shapes, IsCall
      <3>2. CASE d.req # c.req
        <4>1. req'[d.req] = req[d.req]
          BY <3>1, <3>2, Zenon DEF Told
        <4> QED BY <3>1, <4>1, KindsFrame, Zenon DEF IInv, Kinds
      <3>3. CASE d.req = c.req
        <4>1. d = c
          BY <3>1, <3>3, Zenon DEF IInv, Alone
        <4>2. req'[c.req].status = "error"
          BY <1>1, <2>1, <4>1, Zenon DEF Told
        <4> QED BY <3>1, <4>1, <4>2, KindsFrame, Zenon DEF IInv, Kinds
      <3> QED BY <3>2, <3>3, Zenon
    <2>2. ASSUME NEW n \in Nodes, NEW m \in pending'[n]
          PROVE  (Sound(m.handler) /\ (m.handler.type = "command" => req[m.req].status = "error"))'
      <3>1. m \in pending[n] /\ m.req \in Ids /\ m.req # c.req
        BY Zenon DEF IInv, Shapes, IsCall, Alone
      <3>2. req'[m.req] = req[m.req]
        BY <3>1, Zenon DEF Told
      <3> QED BY <3>1, <3>2, KindsFrame, Zenon DEF IInv, Kinds
    <2> QED BY <2>1, <2>2, Zenon DEF Kinds
  <1>7. WrittenOnce'
    BY Zenon DEF IInv, WrittenOnce
  <1>8. AckedIsLogged'
    BY <1>1, <1>2 DEF IInv, AckedIsLogged, Acked, Told, Logged, Kinds, Meets
  <1>9. RefusedIsReported'
    <2>1. ASSUME NEW i \in DOMAIN log
          PROVE  req'[log[i].req] = req[log[i].req]
      <3>1. log[i].req \in Ids
        BY LogOfRequests, Zenon DEF IInv
      <3>2. ~Carried(log[i].req)
        BY <3>1, Zenon DEF IInv, Gone, Logged
      <3> QED BY <3>1, <3>2, Zenon DEF Carried, Told
    <2> QED BY <2>1, Zenon DEF IInv, RefusedIsReported
  <1> QED BY <1>3, <1>4, <1>5, <1>6, <1>7, <1>8, <1>9, Zenon DEF IInv

\* What is true of a call.
CallOK(d) ==
  /\ Sound(d.handler)
  /\ d.forward # <<>> => Next_(d.handler, Head(d.forward))
  /\ req[d.req].status \in {"waiting", "error"}
  /\ req[d.req].status = "waiting" => Meets(req[d.req].entry, d.handler)

\* What is true of a message that is kept.
KeptOK(m) == Sound(m.handler) /\ (m.handler.type = "command" => req[m.req].status = "error")

\* Messages whose callers were told nothing new.
LEMMA MessagesFrame ==
  ASSUME UNCHANGED group, NEW d, req'[d.req] = req[d.req]
  PROVE  (CallOK(d) => CallOK(d)') /\ (KeptOK(d) => KeptOK(d)')
  BY KindsFrame, Zenon DEF CallOK, KeptOK

\* Elections, replication and a failed start.
LEMMA OtherStep ==
  ASSUME IInv, UNCHANGED <<group, pending, log, req, calls>>
  PROVE  IInv'
  <1>1. Shapes' /\ Alone'
    BY DEF IInv, Shapes, Alone
  <1>2. Gone' /\ WrittenOnce' /\ AckedIsLogged' /\ RefusedIsReported'
    BY Zenon DEF IInv, Gone, Carried, Logged, WrittenOnce, AckedIsLogged, Acked, RefusedIsReported
  <1>3. Kinds'
    BY KindsFrame, Zenon DEF IInv, Kinds
  <1> QED BY <1>1, <1>2, <1>3, Zenon DEF IInv

\* An actor that is still initializing: a call may become a message it keeps.
LEMMA KeepStep ==
  ASSUME IInv, NEW c \in calls, HandleInitializing(c)
  PROVE  IInv'
  <1>1. /\ IsCall(c) /\ c.req \in Ids /\ CallOK(c) /\ Shapes
    BY Zenon DEF IInv, Shapes, IsCall, Kinds, CallOK
  <1>2. /\ calls' = calls \ {c} /\ UNCHANGED <<group, log>>
        /\ \/ pending' = [pending EXCEPT ![c.node] = @ \cup {c}]
           \/ pending' = pending
    BY Zenon DEF HandleInitializing
  <1>3. \/ /\ Told(req', c, "ok", req[c.req].entry) /\ c.handler.initializing \in {"queue_ok", "empty"}
           /\ pending' # pending => c.handler.initializing = "queue_ok"
        \/ Told(req', c, "error", NoEntry)
    BY <1>1, Refusing, Answering, Zenon DEF HandleInitializing
  <1>4. /\ req' = [r \in Ids |-> req'[r]] /\ \A r \in Ids : IsRequest(req'[r])
        /\ \A r \in Ids : r # c.req => req'[r] = req[r]
        /\ req'[c.req].status # "idle"
    BY <1>1, <1>3, Zenon DEF Told, CallOK
  <1>5. /\ pending' = [n \in Nodes |-> pending'[n]]
        /\ \A n \in Nodes : \A m \in pending'[n] : m \in pending[n] \/ (m = c /\ n = c.node /\ pending' # pending)
    BY <1>1, <1>2 DEF Shapes
  <1>6. Shapes'
    BY <1>1, <1>2, <1>4, <1>5, ZenonT(30) DEF Shapes
  <1>7. Alone'
    BY <1>2, <1>5 DEF IInv, Alone
  <1>8. Gone'
    <2> SUFFICES ASSUME NEW r \in Ids
                 PROVE  (/\ Logged(r) => ~Carried(r)
                         /\ req[r].status = "idle" => ~Carried(r) /\ ~Logged(r))'
      BY Zenon DEF Gone
    <2>1. (Logged(r)' <=> Logged(r)) /\ (Carried(r)' => Carried(r))
      BY <1>2, <1>5, Zenon DEF Logged, Carried
    <2>2. req'[r].status = "idle" => req[r].status = "idle"
      BY <1>4, Zenon
    <2> QED BY <2>1, <2>2, Zenon DEF IInv, Gone
  <1>9. Kinds'
    <2>1. ASSUME NEW d \in calls' PROVE CallOK(d)'
      <3>1. d \in calls /\ d.req # c.req /\ d.req \in Ids
        BY <1>2, Zenon DEF IInv, Alone, Shapes, IsCall
      <3> QED BY <1>2, <1>4, <3>1, MessagesFrame, Zenon DEF IInv, Kinds, CallOK
    <2>2. ASSUME NEW n \in Nodes, NEW m \in pending'[n] PROVE KeptOK(m)'
      <3>1. CASE m \in pending[n]
        <4>1. m.req # c.req /\ m.req \in Ids
          BY <3>1, Zenon DEF IInv, Alone, Shapes, IsCall
        <4> QED BY <1>2, <1>4, <3>1, <4>1, MessagesFrame, Zenon DEF IInv, Kinds, KeptOK
      <3>2. CASE m = c /\ pending' # pending
        <4>1. c.handler.initializing = "queue_ok" \/ req'[c.req].status = "error"
          BY <1>1, <1>3, <3>2, Zenon DEF Told, CallOK
        <4> QED BY <1>1, <1>2, <3>2, <4>1, KindsFrame, Zenon DEF CallOK, KeptOK, Sound
      <3> QED BY <1>5, <3>1, <3>2, Zenon
    <2> QED BY <2>1, <2>2, Zenon DEF Kinds, CallOK, KeptOK
  <1>10. WrittenOnce'
    BY <1>2, Zenon DEF IInv, WrittenOnce
  <1>11. AckedIsLogged'
    <2> SUFFICES ASSUME NEW r \in Acked(req)'
                 PROVE  Logged(r) \/ req'[r].entry.handler.type = "clean"
      BY <1>2, Zenon DEF AckedIsLogged, Logged
    <2>1. CASE r # c.req \/ req'[r] = req[r]
      BY <1>4, <2>1, Zenon DEF IInv, AckedIsLogged, Acked
    <2>2. CASE r = c.req /\ req'[r] # req[r]
      BY <1>1, <1>3, <2>2, Zenon DEF Told, CallOK, Meets, Acked
    <2> QED BY <2>1, <2>2, Zenon
  <1>12. RefusedIsReported'
    <2>1. ASSUME NEW i \in DOMAIN log
          PROVE  req'[log[i].req] = req[log[i].req]
      <3>1. log[i].req \in Ids
        BY LogOfRequests, Zenon DEF IInv
      <3>2. ~Carried(log[i].req)
        BY <3>1, Zenon DEF IInv, Gone, Logged
      <3> QED BY <1>4, <3>1, <3>2, Zenon DEF Carried
    <2> QED BY <1>2, <2>1, Zenon DEF IInv, RefusedIsReported
  <1> QED BY <1>6, <1>7, <1>8, <1>9, <1>10, <1>11, <1>12, Zenon DEF IInv

\* A write: the call is gone, and its request is in the log.
LEMMA WriteStep ==
  ASSUME IInv, NEW c \in calls, NEW outcome \in {"done"} \cup Rejections, try_local_write(c, outcome)
  PROVE  IInv'
  <1>1. IsCall(c) /\ c.req \in Ids /\ CallOK(c) /\ Shapes /\ c.handler.work = "write"
    BY Zenon DEF IInv, Shapes, IsCall, Kinds, CallOK, try_local_write
  <1>2. /\ calls' = calls \ {c} /\ UNCHANGED <<group, pending>>
        /\ log' = Append(log, [req |-> c.req, outcome |-> outcome])
        /\ outcome \in {"done"} \cup Refusals(c.handler)
    BY Zenon DEF try_local_write
  <1>3. \/ Told(req', c, "ok", req[c.req].entry) /\ outcome \notin c.handler.reports
        \/ Told(req', c, "error", NoEntry)
    BY <1>1, Refusing, Answering, Zenon DEF try_local_write
  <1>4. /\ req' = [r \in Ids |-> req'[r]] /\ \A r \in Ids : IsRequest(req'[r])
        /\ \A r \in Ids : r # c.req => req'[r] = req[r]
        /\ req'[c.req].status # "idle"
    BY <1>1, <1>3, Zenon DEF Told, CallOK
  <1>5. /\ log' \in Seq([req : Ids, outcome : {"done"} \cup Rejections])
        /\ Len(log) \in Nat /\ DOMAIN log = 1..Len(log) /\ DOMAIN log' = 1..(Len(log) + 1)
        /\ \A i \in DOMAIN log : log'[i] = log[i]
        /\ log'[Len(log) + 1].req = c.req /\ log'[Len(log) + 1].outcome = outcome
    <2> DEFINE S == [req : Ids, outcome : {"done"} \cup Rejections]
    <2>1. PICK x : x = [req |-> c.req, outcome |-> outcome]
      BY Zenon
    <2>2. x \in S /\ x.req = c.req /\ x.outcome = outcome
      BY <1>1, <2>1, Zenon
    <2>3. log \in Seq(S) /\ log' = Append(log, x)
      BY <1>1, <1>2, <2>1, Zenon DEF Shapes
    <2> HIDE DEF S
    <2>4. log' \in Seq(S)
      BY <2>2, <2>3
    <2>5. /\ Len(log) \in Nat /\ DOMAIN log = 1..Len(log) /\ DOMAIN log' = 1..(Len(log) + 1)
          /\ \A i \in DOMAIN log : log'[i] = log[i]
          /\ log'[Len(log) + 1] = x
      BY <2>2, <2>3
    <2> QED BY <2>2, <2>4, <2>5, Zenon DEF S
  <1>6. Carried(c.req) /\ ~Logged(c.req)
    BY <1>1, Zenon DEF IInv, Gone, Carried
  <1>7. \A i \in DOMAIN log : log[i].req # c.req
    BY <1>6, Zenon DEF Logged
  <1>8. Shapes'
    BY <1>1, <1>2, <1>4, <1>5, Zenon DEF Shapes
  <1>9. Alone'
    BY <1>2 DEF IInv, Alone
  <1>10. Gone'
    <2> SUFFICES ASSUME NEW r \in Ids
                 PROVE  (/\ Logged(r) => ~Carried(r)
                         /\ req[r].status = "idle" => ~Carried(r) /\ ~Logged(r))'
      BY Zenon DEF Gone
    <2>1. CASE r # c.req
      <3>1. Logged(r)' => Logged(r)
        BY <1>5, <2>1 DEF Logged
      <3>2. Carried(r)' => Carried(r)
        BY <1>2, Zenon DEF Carried
      <3> QED BY <1>4, <2>1, <3>1, <3>2, Zenon DEF IInv, Gone
    <2>2. CASE r = c.req
      <3>1. ~Carried(r)'
        BY <1>2, <2>2, Zenon DEF Carried, IInv, Alone
      <3> QED BY <1>4, <2>2, <3>1, Zenon
    <2> QED BY <2>1, <2>2, Zenon
  <1>11. Kinds'
    <2>1. ASSUME NEW d \in calls' PROVE CallOK(d)'
      <3>1. d \in calls /\ d.req # c.req /\ d.req \in Ids
        BY <1>2, Zenon DEF IInv, Alone, Shapes, IsCall
      <3> QED BY <1>2, <1>4, <3>1, MessagesFrame, Zenon DEF IInv, Kinds, CallOK
    <2>2. ASSUME NEW n \in Nodes, NEW m \in pending'[n] PROVE KeptOK(m)'
      <3>1. m \in pending[n] /\ m.req # c.req /\ m.req \in Ids
        BY <1>2, Zenon DEF IInv, Alone, Shapes, IsCall
      <3> QED BY <1>2, <1>4, <3>1, MessagesFrame, Zenon DEF IInv, Kinds, KeptOK
    <2> QED BY <2>1, <2>2, Zenon DEF Kinds, CallOK, KeptOK
  <1>12. WrittenOnce'
    <2> SUFFICES ASSUME NEW i \in 1..(Len(log) + 1), NEW j \in 1..(Len(log) + 1), log'[i].req = log'[j].req
                 PROVE  i = j
      BY <1>5, Zenon DEF WrittenOnce
    <2>1. CASE i \in DOMAIN log /\ j \in DOMAIN log
      BY <1>5, <2>1, Zenon DEF IInv, WrittenOnce
    <2>2. CASE i \notin DOMAIN log \/ j \notin DOMAIN log
      BY <1>5, <1>7, <2>2
    <2> QED BY <2>1, <2>2, Zenon
  <1>13. AckedIsLogged'
    <2> SUFFICES ASSUME NEW r \in Acked(req)'
                 PROVE  Logged(r)' \/ req'[r].entry.handler.type = "clean"
      BY Zenon DEF AckedIsLogged
    <2>1. CASE r = c.req
      BY <1>5, <2>1 DEF Logged
    <2>2. CASE r # c.req
      <3>1. req'[r] = req[r] /\ r \in Acked(req)
        BY <1>4, <2>2, Zenon DEF Acked
      <3>2. Logged(r) => Logged(r)'
        BY <1>5 DEF Logged
      <3> QED BY <3>1, <3>2, Zenon DEF IInv, AckedIsLogged
    <2> QED BY <2>1, <2>2, Zenon
  <1>14. RefusedIsReported'
    <2> SUFFICES ASSUME NEW i \in 1..(Len(log) + 1), log'[i].outcome # "done",
                        log'[i].outcome \in req'[log'[i].req].entry.handler.reports
                 PROVE  req'[log'[i].req].status # "ok"
      BY <1>5, Zenon DEF RefusedIsReported
    <2>1. CASE i \in DOMAIN log
      <3>1. log'[i] = log[i] /\ log[i].req # c.req /\ log[i].req \in Ids
        BY <1>5, <1>7, <2>1, LogOfRequests, Zenon DEF IInv
      <3>2. req'[log[i].req] = req[log[i].req]
        BY <1>4, <3>1, Zenon
      <3> QED BY <2>1, <3>1, <3>2, Zenon DEF IInv, RefusedIsReported
    <2>2. CASE i = Len(log) + 1
      <3>1. log'[i].req = c.req /\ log'[i].outcome = outcome
        BY <1>5, <2>2, Zenon
      <3>2. group = "session_state"
        BY <1>2, <3>1, Zenon DEF Refusals
      <3> QED BY <1>1, <1>3, <3>1, <3>2, Zenon DEF Told, CallOK, Meets
    <2> QED BY <1>5, <2>1, <2>2
  <1> QED BY <1>8, <1>9, <1>10, <1>11, <1>12, <1>13, <1>14, Zenon DEF IInv

\* Calls that replace calls or kept messages of the same requests, and are the
\* only ones to carry them.
LEMMA CarryStep ==
  ASSUME IInv, Shapes', Alone', UNCHANGED <<group, log, req>>,
         \A r \in Ids : Carried(r)' => Carried(r),
         \A d \in calls' : CallOK(d)', \A n \in Nodes : \A m \in pending'[n] : KeptOK(m)'
  PROVE  IInv'
  <1>1. Gone'
    BY Zenon DEF IInv, Gone, Logged
  <1>2. Kinds'
    BY Zenon DEF Kinds, CallOK, KeptOK
  <1>3. WrittenOnce' /\ AckedIsLogged' /\ RefusedIsReported'
    BY Zenon DEF IInv, WrittenOnce, AckedIsLogged, Acked, Logged, RefusedIsReported
  <1> QED BY <1>1, <1>2, <1>3, Zenon DEF IInv

\* A call that is passed on to the node its actor takes for the leader.
LEMMA ForwardStep ==
  ASSUME IInv, NEW c \in calls, NEW to, NEW next, Next_(c.handler, next),
         calls' = (calls \ {c}) \cup {[req |-> c.req, node |-> to, handler |-> next,
                                      forward |-> <<>>, rpc |-> TRUE]},
         UNCHANGED <<group, pending, log, req>>
  PROVE  IInv'
  <1>1. PICK d : d = [req |-> c.req, node |-> to, handler |-> next, forward |-> <<>>, rpc |-> TRUE]
    BY Zenon
  <1>2. calls' = (calls \ {c}) \cup {d} /\ d.req = c.req /\ d.handler = next /\ d.forward = <<>>
    BY <1>1, Zenon
  <1>3. IsCall(c) /\ c.req \in Ids /\ CallOK(c)
    BY Zenon DEF IInv, Shapes, IsCall, Kinds, CallOK
  <1>4. IsCall(d)
    BY <1>1, <1>3, Zenon DEF IsCall
  <1>5. Shapes'
    BY <1>2, <1>4, Zenon DEF IInv, Shapes
  <1>6. Alone'
    BY <1>2 DEF IInv, Alone
  <1>7. \A r \in Ids : Carried(r)' => Carried(r)
    BY <1>2, Zenon DEF Carried
  <1>8. CallOK(d)'
    <2>1. Sound(next) /\ (req[c.req].status = "waiting" => Meets(req[c.req].entry, next))
      BY <1>3, Zenon DEF CallOK, Meets, Next_
    <2> QED BY <1>2, <1>3, <2>1, KindsFrame, Zenon DEF CallOK
  <1>9. \A x \in calls' : CallOK(x)'
    BY <1>2, <1>8, MessagesFrame, Zenon DEF IInv, Kinds, CallOK
  <1>10. \A n \in Nodes : \A m \in pending'[n] : KeptOK(m)'
    BY MessagesFrame, Zenon DEF IInv, Kinds, KeptOK
  <1> QED BY <1>5, <1>6, <1>7, <1>9, <1>10, CarryStep, Zenon

\* An actor starts and sends itself the commands it kept.
LEMMA CompleteStep ==
  ASSUME IInv, NEW n \in Nodes, InitializationComplete(n)
  PROVE  IInv'
  <1>1. Replayed(pending[n]) = {m \in pending[n] : m.handler.type = "command"}
    BY Zenon DEF IInv, Shapes, Groups, Replayed, Topic!process_pending_messages,
           State!process_pending_messages, Map!process_pending_messages
  <1>2. /\ pending' = [pending EXCEPT ![n] = {}] /\ UNCHANGED <<group, log, req>>
        /\ calls' = calls \cup {[m EXCEPT !.forward = <<>>, !.rpc = FALSE] : m \in Replayed(pending[n])}
    BY Zenon DEF InitializationComplete
  <1>3. /\ pending' = [k \in Nodes |-> pending'[k]] /\ pending'[n] = {}
        /\ \A k \in Nodes : k # n => pending'[k] = pending[k]
    BY <1>2, Zenon DEF IInv, Shapes
  <1> DEFINE Again(m) == [m EXCEPT !.forward = <<>>, !.rpc = FALSE]
  <1>4. ASSUME NEW m \in pending[n], m.handler.type = "command"
        PROVE  /\ IsCall(Again(m)) /\ Again(m).req = m.req
               /\ \A d : d = Again(m) => CallOK(d)'
    <2>1. IsCall(m) /\ KeptOK(m)
      BY Zenon DEF IInv, Shapes, Kinds, KeptOK
    <2>2. PICK d : d = Again(m)
      BY Zenon
    <2>3. IsCall(d) /\ d.req = m.req /\ d.handler = m.handler /\ d.forward = <<>>
      BY <2>1, <2>2, Zenon DEF IsCall
    <2>4. CallOK(d)'
      BY <1>2, <1>4, <2>1, <2>3, KindsFrame, Zenon DEF CallOK, KeptOK
    <2> QED BY <2>2, <2>3, <2>4, Zenon
  <1>5. \A d \in calls' : d \in calls \/ \E m \in pending[n] : m.handler.type = "command" /\ d = Again(m)
    BY <1>1, <1>2, Zenon
  <1> HIDE DEF Again
  <1>6. Shapes'
    <2>1. \A d \in calls' : IsCall(d)
      BY <1>4, <1>5, Zenon DEF IInv, Shapes
    <2>2. \A k \in Nodes : \A m \in pending'[k] : IsCall(m)
      BY <1>3, Zenon DEF IInv, Shapes
    <2>3. /\ group' \in Groups /\ req' = [r \in Ids |-> req'[r]] /\ \A r \in Ids : IsRequest(req'[r])
          /\ log' \in Seq([req : Ids, outcome : {"done"} \cup Rejections])
      BY <1>2, Zenon DEF IInv, Shapes
    <2> QED BY <1>3, <2>1, <2>2, <2>3, Zenon DEF Shapes, IsCall, IsRequest
  <1>7. Alone'
    BY <1>3, <1>4, <1>5 DEF IInv, Alone
  <1>8. \A r \in Ids : Carried(r)' => Carried(r)
    BY <1>3, <1>4, <1>5 DEF Carried
  <1>9. \A d \in calls' : CallOK(d)'
    BY <1>2, <1>4, <1>5, MessagesFrame, Zenon DEF IInv, Kinds, CallOK
  <1>10. \A k \in Nodes : \A m \in pending'[k] : KeptOK(m)'
    BY <1>2, <1>3, MessagesFrame, Zenon DEF IInv, Kinds, KeptOK
  <1> QED BY <1>2, <1>6, <1>7, <1>8, <1>9, <1>10, CarryStep, Zenon

\* A process ends: its messages are gone, and the callers behind them told.
LEMMA RestartStep ==
  ASSUME IInv, NEW n \in Nodes, Restart(n)
  PROVE  IInv'
  <1>1. /\ pending' = [pending EXCEPT ![n] = {}] /\ UNCHANGED <<group, log>>
        /\ calls' \subseteq calls
        /\ req' = [r \in Ids |-> IF req[r].status = "waiting" /\ \E c \in {d \in calls : d.node = n} : c.req = r
                                 THEN Refused ELSE req[r]]
    BY Zenon DEF Restart
  <1>2. /\ pending' = [k \in Nodes |-> pending'[k]]
        /\ \A k \in Nodes : pending'[k] \subseteq pending[k]
    BY <1>1, Zenon DEF IInv, Shapes
  <1>3. IsRequest(Refused) /\ Refused.status = "error" /\ Refused.entry = NoEntry
    BY Zenon DEF Refused, IsRequest
  <1>4. /\ req' = [r \in Ids |-> req'[r]]
        /\ \A r \in Ids : req'[r] = req[r] \/ (req'[r] = Refused /\ req[r].status = "waiting")
    BY <1>1, Zenon
  <1>5. Shapes'
    BY <1>1, <1>2, <1>3, <1>4, Zenon DEF IInv, Shapes
  <1>6. Alone'
    BY <1>1, <1>2 DEF IInv, Alone
  <1>7. Gone'
    BY <1>1, <1>2, <1>3, <1>4 DEF IInv, Gone, Carried, Logged
  <1>8. Kinds'
    <2>1. ASSUME NEW d \in calls' PROVE CallOK(d)'
      <3>1. d \in calls /\ d.req \in Ids /\ CallOK(d)
        BY <1>1, Zenon DEF IInv, Shapes, IsCall, Kinds, CallOK
      <3>2. CASE req'[d.req] = req[d.req]
        BY <1>1, <3>1, <3>2, MessagesFrame, Zenon
      <3>3. CASE req'[d.req] = Refused
        BY <1>1, <1>3, <3>1, <3>3, KindsFrame, Zenon DEF CallOK
      <3> QED BY <1>4, <3>1, <3>2, <3>3, Zenon
    <2>2. ASSUME NEW k \in Nodes, NEW m \in pending'[k] PROVE KeptOK(m)'
      <3>1. m \in pending[k] /\ m.req \in Ids /\ KeptOK(m)
        BY <1>2, Zenon DEF IInv, Shapes, IsCall, Kinds, KeptOK
      <3>2. CASE req'[m.req] = req[m.req]
        BY <1>1, <3>1, <3>2, MessagesFrame, Zenon
      <3>3. CASE req'[m.req] = Refused
        BY <1>1, <1>3, <3>1, <3>3, KindsFrame, Zenon DEF KeptOK
      <3> QED BY <1>4, <3>1, <3>2, <3>3, Zenon
    <2> QED BY <2>1, <2>2, Zenon DEF Kinds, CallOK, KeptOK
  <1>9. WrittenOnce'
    BY <1>1, Zenon DEF IInv, WrittenOnce
  <1>10. AckedIsLogged'
    BY <1>1, <1>3, <1>4 DEF IInv, AckedIsLogged, Acked, Logged
  <1>11. RefusedIsReported'
    <2>1. ASSUME NEW i \in DOMAIN log
          PROVE  req'[log[i].req] = req[log[i].req] \/ req'[log[i].req] = Refused
      BY <1>4, LogOfRequests, Zenon DEF IInv
    <2> QED BY <1>1, <1>3, <2>1, ZenonT(30) DEF IInv, RefusedIsReported
  <1> QED BY <1>5, <1>6, <1>7, <1>8, <1>9, <1>10, <1>11, Zenon DEF IInv

\* A caller sends a new request.
LEMMA SendStep ==
  ASSUME IInv, NEW r \in Ids, NEW n \in Nodes, NEW e \in Entries, Send(r, n, e)
  PROVE  IInv'
  <1>1. PICK c : c = [req |-> r, node |-> n, handler |-> e.handler, forward |-> e.forward, rpc |-> FALSE]
    BY Zenon
  <1>2. /\ IsCall(c) /\ c.req = r /\ c.handler = e.handler /\ c.forward = e.forward
    BY <1>1, Zenon DEF IsCall
  <1>3. /\ UNCHANGED <<group, pending, log>> /\ calls' = calls \cup {c} /\ req[r].status = "idle"
        /\ req' = [req EXCEPT ![r] = [@ EXCEPT !.status = "waiting", !.entry = e, !.before = Acked(req)]]
    BY <1>1, Zenon DEF Send
  <1>4. PICK q : q = [req[r] EXCEPT !.status = "waiting", !.entry = e, !.before = Acked(req)]
    BY Zenon
  <1>5. IsRequest(q) /\ q.status = "waiting" /\ q.entry = e
    BY <1>4, Zenon DEF IInv, Shapes, IsRequest
  <1>6. /\ req' = [s \in Ids |-> req'[s]] /\ req'[r] = q
        /\ \A s \in Ids : s # r => req'[s] = req[s]
    <2>1. req = [s \in Ids |-> req[s]] /\ req' = [req EXCEPT ![r] = q]
      BY <1>3, <1>4, Zenon DEF IInv, Shapes
    <2> QED BY <2>1, Zenon
  <1>7. ~Carried(r) /\ ~Logged(r)
    BY <1>3, Zenon DEF IInv, Gone
  <1>8. Shapes'
    BY <1>2, <1>3, <1>5, <1>6, Zenon DEF IInv, Shapes
  <1>9. Alone'
    BY <1>2, <1>3, <1>7 DEF IInv, Alone, Carried
  <1>10. Gone'
    <2> SUFFICES ASSUME NEW s \in Ids
                 PROVE  (/\ Logged(s) => ~Carried(s)
                         /\ req[s].status = "idle" => ~Carried(s) /\ ~Logged(s))'
      BY Zenon DEF Gone
    <2>1. Logged(s)' <=> Logged(s)
      BY <1>3, Zenon DEF Logged
    <2>2. s # r => (Carried(s)' <=> Carried(s)) /\ req'[s] = req[s]
      BY <1>2, <1>3, <1>6, Zenon DEF Carried
    <2> QED BY <1>5, <1>6, <1>7, <2>1, <2>2, Zenon DEF IInv, Gone
  <1>11. Kinds'
    <2>1. CallOK(c)'
      <3>1. /\ Sound(e.handler) /\ Meets(e, e.handler)
            /\ e.forward # <<>> => Next_(e.handler, Head(e.forward))
        BY EntryKinds, Zenon DEF IInv, Shapes
      <3> QED BY <1>2, <1>3, <1>5, <1>6, <3>1, KindsFrame, Zenon DEF CallOK
    <2>2. ASSUME NEW d \in calls PROVE CallOK(d)'
      <3>1. d.req \in Ids /\ d.req # r
        BY <1>7, Zenon DEF IInv, Shapes, IsCall, Carried
      <3> QED BY <1>3, <1>6, <3>1, MessagesFrame, Zenon DEF IInv, Kinds, CallOK
    <2>3. ASSUME NEW k \in Nodes, NEW m \in pending'[k] PROVE KeptOK(m)'
      <3>1. m \in pending[k] /\ m.req \in Ids /\ m.req # r
        BY <1>3, <1>7, Zenon DEF IInv, Shapes, IsCall, Carried
      <3> QED BY <1>3, <1>6, <3>1, MessagesFrame, Zenon DEF IInv, Kinds, KeptOK
    <2> QED BY <1>3, <2>1, <2>2, <2>3, Zenon DEF Kinds, CallOK, KeptOK
  <1>12. WrittenOnce'
    BY <1>3, Zenon DEF IInv, WrittenOnce
  <1>13. AckedIsLogged'
    <2> SUFFICES ASSUME NEW s \in Acked(req)'
                 PROVE  Logged(s) \/ req'[s].entry.handler.type = "clean"
      BY <1>3, Zenon DEF AckedIsLogged, Logged
    <2>1. s # r /\ req'[s] = req[s] /\ s \in Acked(req)
      BY <1>5, <1>6, Zenon DEF Acked
    <2> QED BY <2>1, Zenon DEF IInv, AckedIsLogged
  <1>14. RefusedIsReported'
    <2>1. ASSUME NEW i \in DOMAIN log
          PROVE  req'[log[i].req] = req[log[i].req]
      <3>1. log[i].req \in Ids /\ log[i].req # r
        BY <1>7, LogOfRequests, Zenon DEF IInv, Logged
      <3> QED BY <1>6, <3>1, Zenon
    <2> QED BY <1>3, <2>1, Zenon DEF IInv, RefusedIsReported
  <1> QED BY <1>8, <1>9, <1>10, <1>11, <1>12, <1>13, <1>14, Zenon DEF IInv

\* What the actor of a node does with a call.
LEMMA HandleStep ==
  ASSUME IInv, NEW c \in calls, Handle(c) \/ RpcFails(c)
  PROVE  IInv'
  <1>1. c.req \in Ids /\ Shapes
    BY Zenon DEF IInv, Shapes, IsCall
  <1>2. Told(Refuse(c), c, "error", NoEntry)
    BY <1>1, Refusing, Zenon
  <1>3. CASE HandleInitializing(c)
    BY <1>3, KeepStep, Zenon
  <1>4. CASE HandleFailed(c)
    <2>1. req' = Refuse(c) /\ calls' = calls \ {c} /\ UNCHANGED <<group, pending, log>>
      BY <1>4, Zenon DEF HandleFailed
    <2> QED BY <1>2, <2>1, EndStep, Zenon
  <1>5. CASE RpcFails(c)
    <2>1. req' = Refuse(c) /\ calls' \in {calls, calls \ {c}} /\ UNCHANGED <<group, pending, log>>
      BY <1>5, Zenon DEF RpcFails
    <2> QED BY <1>2, <2>1, EndStep, Zenon
  <1>6. CASE \E outcome \in {"done"} \cup Rejections : try_local_write(c, outcome)
    BY <1>6, WriteStep, Zenon
  <1>7. CASE try_local_linearizable_read(c) \/ LocalRead(c) \/ LocalMetrics(c)
    <2>1. PICK by, value : req' = Answer(c, by, value)
      BY <1>7, Zenon DEF try_local_linearizable_read, LocalRead, LocalMetrics
    <2>2. /\ calls' = calls \ {c} /\ UNCHANGED <<group, pending, log>> /\ c.handler.work # "write"
      BY <1>7, Zenon DEF try_local_linearizable_read, LocalRead, LocalMetrics
    <2>3. Told(req', c, "ok", req[c.req].entry)
      BY <1>1, <2>1, Answering, Zenon
    <2> QED BY <2>2, <2>3, EndStep, Zenon
  <1>8. CASE NotLeader(c)
    <2> DEFINE next == IF c.handler.forwards THEN <<Remote(c.handler)>> ELSE c.forward
    <2>1. UNCHANGED <<group, pending, log>>
      BY <1>8, Zenon DEF NotLeader
    <2>2. CASE req' = Refuse(c) /\ calls' = calls \ {c}
      BY <1>2, <2>1, <2>2, EndStep, Zenon
    <2>3. CASE /\ next # <<>> /\ req' = req
               /\ calls' = (calls \ {c}) \cup
                            {[req |-> c.req, node |-> view[c.node], handler |-> Head(next),
                              forward |-> <<>>, rpc |-> TRUE]}
      <3>1. Next_(c.handler, Head(next))
        <4>1. /\ Sound(c.handler) /\ group \in Groups
              /\ c.forward # <<>> => Next_(c.handler, Head(c.forward))
          BY Zenon DEF IInv, Kinds, Shapes
        <4>2. CASE c.handler.forwards
          BY <4>1, <4>2, RemoteIsNext
        <4>3. CASE ~c.handler.forwards
          BY <2>3, <4>1, <4>3, Zenon
        <4> QED BY <4>2, <4>3, Zenon
      <3> HIDE DEF next
      <3> QED BY <2>1, <2>3, <3>1, ForwardStep, Zenon
    <2> QED BY <1>8, <2>2, <2>3, Zenon DEF NotLeader
  <1> QED BY <1>3, <1>4, <1>5, <1>6, <1>7, <1>8, Zenon DEF Handle

\* Every step keeps the invariant.
LEMMA NextInv ==
  ASSUME IInv, [Next]_vars
  PROVE  IInv'
  <1>1. CASE UNCHANGED vars
    BY <1>1, OtherStep, Zenon DEF vars
  <1>2. CASE \E r \in Ids, n \in Nodes : \E e \in Entries : Send(r, n, e)
    BY <1>2, SendStep, Zenon
  <1>3. CASE \E c \in calls : Handle(c) \/ RpcFails(c)
    BY <1>3, HandleStep, Zenon
  <1>4. ASSUME NEW n \in Nodes,
               InitializationFailed(n) \/ Elect(n) \/ AppendEntries(n) \/ InstallSnapshot(n)
        PROVE  IInv'
    <2>1. UNCHANGED <<group, pending, log, req, calls>>
      BY <1>4, Zenon DEF InitializationFailed, Elect, AppendEntries, InstallSnapshot
    <2> QED BY <2>1, OtherStep, Zenon
  <1> QED BY <1>1, <1>2, <1>3, <1>4, CompleteStep, RestartStep, Zenon DEF Next

\* The invariant holds initially.
LEMMA InitInv == Init => IInv
  <1> SUFFICES ASSUME Init PROVE IInv
    BY Zenon
  <1>1. \A r \in Ids : IsRequest(req[r]) /\ req[r].status = "idle"
    BY Zenon DEF Init, IsRequest
  <1>2. Shapes
    <2>1. req = [r \in Ids |-> req[r]]
      BY Zenon DEF Init
    <2>2. pending = [n \in Nodes |-> pending[n]] /\ \A n \in Nodes : pending[n] = {}
      BY Zenon DEF Init
    <2>3. group \in Groups /\ calls = {} /\ log = <<>>
      BY Zenon DEF Init
    <2> QED BY <1>1, <2>1, <2>2, <2>3 DEF Shapes
  <1>3. Alone /\ Gone /\ Kinds
    BY DEF Init, Alone, Gone, Carried, Logged, Kinds
  <1>4. WrittenOnce /\ AckedIsLogged /\ RefusedIsReported
    BY <1>1 DEF Init, WrittenOnce, AckedIsLogged, Acked, RefusedIsReported
  <1> QED BY <1>2, <1>3, <1>4, Zenon DEF IInv

\* Whatever a Raft actor or service acknowledges as written has been committed
\* (handle_raft_write, forward_to_leader, the topic service), but for the
\* clean-up an initializing actor keeps and drops.
THEOREM AcknowledgedIsCommitted == Spec => []AckedIsLogged
  <1>1. IInv /\ [Next]_vars => IInv'
    BY NextInv, Zenon
  <1>2. IInv => AckedIsLogged
    BY Zenon DEF IInv
  <1> QED BY InitInv, <1>1, <1>2, PTL DEF Spec

\* No request is committed twice, by however many actors it passes and
\* whether or not it was kept (forward_to_leader, process_pending_messages).
THEOREM CommittedOnce == Spec => []WrittenOnce
  <1>1. IInv /\ [Next]_vars => IInv'
    BY NextInv, Zenon
  <1>2. IInv => WrittenOnce
    BY Zenon DEF IInv
  <1> QED BY InitInv, <1>1, <1>2, PTL DEF Spec

\* A registration that the state machine refused is never acknowledged, on the
\* leader or behind forwards (handle_raft_write, map_remote_status).
THEOREM RefusalsReachCallers == Spec => []RefusedIsReported
  <1>1. IInv /\ [Next]_vars => IInv'
    BY NextInv, Zenon
  <1>2. IInv => RefusedIsReported
    BY Zenon DEF IInv
  <1> QED BY InitInv, <1>1, <1>2, PTL DEF Spec

-----------------------------------------------------------------------------
\* Linearizable reads.

\* The writes a caller knew of when it asked stay acknowledged.
KnownAcked == \A r \in Ids : \A q \in req[r].before : q \in Ids /\ req[q].status = "ok"

LogRequests == {log[i].req : i \in DOMAIN log}

\* What a step does to answers: an acknowledgement is final and its request is
\* not written later, and what a leader read tells is the whole log.
AnswersGrow ==
  /\ \A r \in Ids : req[r].status = "ok" => req'[r] = req[r] /\ (Logged(r)' => Logged(r))
  /\ \A r \in Ids : req'[r].before \in {req[r].before, {}, Acked(req)}
  /\ \A r \in Ids : req'[r] # req[r] /\ req'[r].status = "ok" /\ req'[r].by = "leader_read"
                       => req'[r].value = LogRequests'

\* The fields Answer and Refuse set.
LEMMA AnswerFields ==
  ASSUME Shapes, NEW c, c.req \in Ids, NEW by, NEW value,
         req' = Answer(c, by, value) \/ req' = Refuse(c)
  PROVE  /\ \A r \in Ids : r # c.req \/ req[r].status # "waiting" => req'[r] = req[r]
         /\ req'[c.req].before \in {req[c.req].before, {}}
         /\ req'[c.req] # req[c.req] /\ req'[c.req].status = "ok" =>
              req' = Answer(c, by, value) /\ req'[c.req].by = by /\ req'[c.req].value = value
  <1>1. /\ req = [r \in Ids |-> req[r]]
        /\ \A r \in Ids : IsRequest(req[r])
    BY Zenon DEF Shapes
  <1>2. CASE req' = Refuse(c) /\ req[c.req].status = "waiting"
    <2>1. Refused.status = "error" /\ Refused.before = {}
      BY Zenon DEF Refused
    <2> QED BY <1>1, <1>2, <2>1, Zenon DEF Refuse
  <1>3. CASE req' = Answer(c, by, value) /\ req[c.req].status = "waiting"
    <2>1. PICK t : t = [req[c.req] EXCEPT !.status = "ok", !.by = by, !.value = value]
      BY Zenon
    <2>2. req' = [req EXCEPT ![c.req] = t]
      BY <1>1, <1>3, <2>1, Zenon DEF Answer
    <2>3. t.before = req[c.req].before /\ t.by = by /\ t.value = value
      BY <1>1, <2>1, Zenon DEF IsRequest
    <2> QED BY <1>1, <1>3, <2>2, <2>3, Zenon
  <1>4. CASE req[c.req].status # "waiting"
    BY <1>1, <1>4, Zenon DEF Answer, Refuse
  <1> QED BY <1>2, <1>3, <1>4, Zenon

\* Every step is such a step.
LEMMA StepAnswers ==
  ASSUME IInv, [Next]_vars
  PROVE  AnswersGrow
  <1>0. /\ Shapes /\ \A c \in calls : c.req \in Ids /\ req[c.req].status \in {"waiting", "error"}
    BY Zenon DEF IInv, Shapes, IsCall, Kinds
  <1>1. CASE UNCHANGED <<req, log>>
    BY <1>1, Zenon DEF AnswersGrow, Logged
  <1>2. ASSUME NEW c \in calls, NEW by, NEW value, UNCHANGED log,
               req' = Answer(c, by, value) \/ req' = Refuse(c),
               by = "leader_read" => value = LogRequests
        PROVE  AnswersGrow
    <2>1. /\ \A r \in Ids : r # c.req \/ req[r].status # "waiting" => req'[r] = req[r]
          /\ req'[c.req].before \in {req[c.req].before, {}}
          /\ req'[c.req] # req[c.req] /\ req'[c.req].status = "ok" =>
               req'[c.req].by = by /\ req'[c.req].value = value
      BY <1>0, <1>2, AnswerFields
    <2> QED BY <1>0, <1>2, <2>1 DEF AnswersGrow, Logged, LogRequests
  <1>3. ASSUME NEW c \in calls, NEW outcome \in {"done"} \cup Rejections, try_local_write(c, outcome)
        PROVE  AnswersGrow
    <2>1. req' = Answer(c, "write", {}) \/ req' = Refuse(c)
      BY <1>3, Zenon DEF try_local_write
    <2>2. /\ \A r \in Ids : r # c.req \/ req[r].status # "waiting" => req'[r] = req[r]
          /\ req'[c.req].before \in {req[c.req].before, {}}
          /\ req'[c.req] # req[c.req] /\ req'[c.req].status = "ok" => req'[c.req].by = "write"
      BY <1>0, <2>1, AnswerFields
    <2>3. \A r \in Ids : r # c.req => (Logged(r)' => Logged(r))
      <3>1. PICK x : x = [req |-> c.req, outcome |-> outcome]
        BY Zenon
      <3>2. log' = Append(log, x) /\ x.req = c.req
        BY <1>3, <3>1, Zenon DEF try_local_write
      <3>3. log \in Seq([req : Ids, outcome : {"done"} \cup Rejections])
        BY <1>0, Zenon DEF Shapes
      <3>4. \A i \in DOMAIN log' : (i \in DOMAIN log /\ log'[i] = log[i]) \/ log'[i] = x
        BY <3>2, <3>3
      <3> QED BY <3>2, <3>4, Zenon DEF Logged
    <2> QED BY <1>0, <2>2, <2>3, Zenon DEF AnswersGrow
  <1>4. ASSUME NEW c \in calls, Handle(c) \/ RpcFails(c)
        PROVE  AnswersGrow
    <2>1. CASE HandleInitializing(c)
      <3>1. UNCHANGED log /\ (req' = Answer(c, "initializing", {}) \/ req' = Refuse(c))
        BY <2>1, Zenon DEF HandleInitializing
      <3> QED BY <1>2, <3>1
    <2>2. CASE HandleFailed(c) \/ RpcFails(c)
      <3>1. UNCHANGED log /\ req' = Refuse(c)
        BY <2>2, Zenon DEF HandleFailed, RpcFails
      <3> QED BY <1>2, <3>1, Zenon
    <2>3. CASE try_local_linearizable_read(c)
      BY <1>2, <2>3, Zenon DEF try_local_linearizable_read, LogRequests
    <2>4. CASE LocalRead(c)
      <3>1. PICK value : UNCHANGED log /\ req' = Answer(c, "local_read", value)
        BY <2>4, Zenon DEF LocalRead
      <3> QED BY <1>2, <3>1
    <2>5. CASE LocalMetrics(c)
      <3>1. UNCHANGED log /\ req' = Answer(c, "metrics", {})
        BY <2>5, Zenon DEF LocalMetrics
      <3> QED BY <1>2, <3>1
    <2>6. CASE NotLeader(c)
      <3>1. UNCHANGED log /\ (req' = req \/ req' = Refuse(c))
        BY <2>6, Zenon DEF NotLeader
      <3>2. CASE req' = Refuse(c)
        BY <1>2, <3>1, <3>2, Zenon
      <3> QED BY <1>1, <3>1, <3>2, Zenon
    <2> QED BY <1>3, <1>4, <2>1, <2>2, <2>3, <2>4, <2>5, <2>6, Zenon DEF Handle
  <1>5. ASSUME NEW r \in Ids, NEW n \in Nodes, NEW e \in Entries, Send(r, n, e)
        PROVE  AnswersGrow
    <2>1. UNCHANGED log /\ req[r].status = "idle"
      BY <1>5, Zenon DEF Send
    <2>2. PICK q : q = [req[r] EXCEPT !.status = "waiting", !.entry = e, !.before = Acked(req)]
      BY Zenon
    <2>3. q.status = "waiting" /\ q.before = Acked(req)
      BY <1>0, <2>2, Zenon DEF Shapes, IsRequest
    <2>4. req = [s \in Ids |-> req[s]] /\ req' = [req EXCEPT ![r] = q]
      BY <1>0, <1>5, <2>2, Zenon DEF Shapes, Send
    <2>5. req'[r] = q /\ \A s \in Ids : s # r => req'[s] = req[s]
      BY <2>4, Zenon
    <2> QED BY <2>1, <2>3, <2>5, Zenon DEF AnswersGrow, Logged
  <1>6. ASSUME NEW n \in Nodes, Restart(n)
        PROVE  AnswersGrow
    <2>1. UNCHANGED log /\ Refused.status = "error" /\ Refused.before = {}
      BY <1>6, Zenon DEF Restart, Refused
    <2>2. \A r \in Ids : req'[r] = req[r] \/ (req'[r] = Refused /\ req[r].status = "waiting")
      BY <1>6, Zenon DEF Restart
    <2> QED BY <2>1, <2>2, Zenon DEF AnswersGrow, Logged
  <1>7. ASSUME NEW n \in Nodes,
               \/ InitializationComplete(n) \/ InitializationFailed(n)
               \/ Elect(n) \/ AppendEntries(n) \/ InstallSnapshot(n)
        PROVE  AnswersGrow
    <2>1. UNCHANGED <<req, log>>
      BY <1>7, Zenon DEF InitializationComplete, InitializationFailed, Elect, AppendEntries, InstallSnapshot
    <2> QED BY <1>1, <2>1, Zenon
  <1>8. CASE UNCHANGED vars
    BY <1>1, <1>8, Zenon DEF vars
  <1> QED BY <1>4, <1>5, <1>6, <1>7, <1>8, Zenon DEF Next

\* A read that the leader served through ensure_linearizable shows every write
\* that was acknowledged before its caller asked, whatever leaders and processes
\* have come and gone since (try_local_linearizable_read).
THEOREM LeaderReadsAreCurrent == Spec => []LeaderReadsAcked
  <1>1. Init => KnownAcked /\ LeaderReadsAcked
    BY DEF Init, KnownAcked, LeaderReadsAcked
  <1>2. ASSUME IInv, KnownAcked, LeaderReadsAcked, [Next]_vars
        PROVE  KnownAcked' /\ LeaderReadsAcked'
    <2>1. AnswersGrow
      BY <1>2, StepAnswers, Zenon
    <2>2. KnownAcked'
      <3> SUFFICES ASSUME NEW r \in Ids, NEW q \in req'[r].before
                   PROVE  q \in Ids /\ req'[q].status = "ok"
        BY Zenon DEF KnownAcked
      <3>1. q \in Ids /\ req[q].status = "ok"
        BY <1>2, <2>1 DEF AnswersGrow, KnownAcked, Acked
      <3> QED BY <2>1, <3>1, Zenon DEF AnswersGrow
    <2>3. LeaderReadsAcked'
      <3> SUFFICES ASSUME NEW r \in Ids, req'[r].status = "ok", req'[r].by = "leader_read",
                          NEW q \in req'[r].before, Logged(q)'
                   PROVE  q \in req'[r].value
        BY Zenon DEF LeaderReadsAcked
      <3>1. CASE req'[r] = req[r]
        <4>1. q \in Ids /\ req[q].status = "ok"
          BY <1>2, <3>1, Zenon DEF KnownAcked
        <4>2. Logged(q)
          BY <2>1, <4>1, Zenon DEF AnswersGrow
        <4> QED BY <1>2, <3>1, <4>2, Zenon DEF LeaderReadsAcked
      <3>2. CASE req'[r] # req[r]
        BY <2>1, <3>2 DEF AnswersGrow, LogRequests, Logged
      <3> QED BY <3>1, <3>2, Zenon
    <2> QED BY <2>2, <2>3, Zenon
  <1>3. IInv /\ [Next]_vars => IInv'
    BY NextInv, Zenon
  <1> QED BY InitInv, <1>1, <1>2, <1>3, PTL DEF Spec
==============================================================================
