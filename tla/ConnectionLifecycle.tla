-------------------------- MODULE ConnectionLifecycle --------------------------
(***************************************************************************)
(* One network connection, the session actor created for it and the timers *)
(* of that session (broker/src/connection.rs, session/session_actor.rs,    *)
(* timer_actor.rs), from the first packet to the end of both actors.       *)
(*                                                                         *)
(* Four parties exchange messages: the connection actor (mailbox `cbox`),  *)
(* with its reader future and its network sender task; the session actor   *)
(* (`sbox`); the timer actor (`tbox`); and the client at the other end of  *)
(* the socket.  What PUBLISH and SUBSCRIBE do is in InboundPackets.  Time  *)
(* is left out: a registered timer may expire at any moment.               *)
(***************************************************************************)
EXTENDS Integers, Sequences, Functions

CONSTANTS
  Setups,     \* clients: kind of session, what they send, bounds on faults
  BatchSize,  \* packets in the encode buffer before it is flushed at once
  Capacity    \* commands the channel to the network sender holds

ASSUME ConnectionAssumption ==
  /\ BatchSize \in Nat \ {0} /\ Capacity \in Nat \ {0}
  /\ \A s \in Setups :
       /\ s.version \in {3, 5}
       /\ s.clean_start \in BOOLEAN /\ s.expires \in BOOLEAN \* session_expiry_interval > 0
       /\ s.named \in BOOLEAN     \* CONNECT has a client identifier
       /\ s.will \in BOOLEAN /\ s.delay \in BOOLEAN  \* a will; will delay interval > 0
       /\ s.recovers \in BOOLEAN  \* the session has packets to send again
       /\ s.first \in {"connect", "unsupported", "malformed", "other"}
       /\ Range(s.sends) \subseteq {"pingreq", "disconnect", "disconnect0", "badexpiry", "auth", "malformed"}
       /\ s.retries \in Nat       \* bound on expiries of the retry timer
       /\ s.stops \in Nat         \* bound on ForceDisconnect and ForceStop

VARIABLES
  setup,
  tcp, unread,          \* the client's end of the socket; packets not yet read
  reader,               \* where the reader future is
  cstate, normally,     \* the connection actor; disconnected_normally
  linked,               \* it knows its session (UpdateSession)
  cbox, buffer,         \* its mailbox; encode_buffer
  sender, closing,      \* network_sender is present; its shutdown future
  channel, batch, net,  \* the sender task: commands, unflushed packets, state
  socket, accepted,     \* packets sent; packets taken into the encode buffer
  lost,                 \* some accepted packet will never be sent
  sstate, sbox, will,   \* the session actor; will_message
  zero, deleting,       \* its expiry interval is 0; spawned deletions of its state
  routed, disconnected, \* wills routed; a DISCONNECT packet was handled
  timers, tbox,         \* registered timers; messages to the timer actor
  retries, stops

client == <<tcp, unread>>
connection == <<cstate, normally, linked, cbox, buffer, sender, closing>>
network == <<channel, batch, net, socket, accepted, lost>>
sess == <<sstate, sbox, will, zero, deleting, routed, disconnected>>
timing == <<timers, tbox>>
bounds == <<setup, retries, stops>>
vars == <<client, reader, connection, network, sess, timing, bounds>>

Init ==
  /\ setup \in Setups
  /\ tcp = "open" /\ unread = <<setup.first>> \o setup.sends
  /\ reader = "first" /\ cstate = "running" /\ normally = FALSE /\ linked = FALSE
  /\ cbox = <<>> /\ buffer = <<>> /\ sender = TRUE /\ closing = "no"
  /\ channel = <<>> /\ batch = <<>> /\ net = "running"
  /\ socket = <<>> /\ accepted = <<>> /\ lost = FALSE
  /\ sstate = "none" /\ sbox = <<>> /\ will = FALSE /\ zero = FALSE /\ deleting = 0
  /\ routed = 0 /\ disconnected = FALSE
  /\ timers = {} /\ tbox = <<>> /\ retries = 0 /\ stops = 0

\* The session a CONNECT asks for: clean_session, and an expiry interval of Some(0).
session_options ==
  [clean_session |-> setup.clean_start /\ (setup.version = 5 => ~setup.expires),
   zero |-> setup.version = 5 /\ ~setup.expires]

-------------------------------------------------------------------------------
\* Messages; do_send to a stopped actor is dropped.  A message of the reader
\* names where the reader goes on once it is answered.

Write(p) == [kind |-> "write", what |-> p, next |-> ""]
Disconnect(reason) == [kind |-> "disconnect", what |-> reason, next |-> ""]
NetworkEvent == [kind |-> "event", what |-> "", next |-> ""]
Asking(kind, what, next) == [kind |-> kind, what |-> what, next |-> next]

ToConnection(msgs) == cbox' = IF cstate = "stopped" THEN <<>> ELSE cbox \o msgs
ToSession(msgs) == sbox' = IF sstate = "stopped" THEN <<>> ELSE sbox \o msgs

\* Both timers are registered, and removed, in one go.
Timers == {"inflight", "keepalive"}
Register(ts) == <<[op |-> "register", timers |-> ts]>>
RemoveTimers == <<[op |-> "remove", timers |-> Timers]>>

\* The client closes its end, or vanishes: no end of stream ever arrives then,
\* and packets under way may be gone.
ClientLeaves ==
  /\ tcp = "open"
  /\ \/ tcp' = "closed" /\ UNCHANGED unread
     \/ tcp' = "vanished" /\ unread' \in {unread, <<>>}
  /\ UNCHANGED <<reader, connection, network, sess, timing, bounds>>

-------------------------------------------------------------------------------
\* The network sender: a task that gathers batches and writes them.

Data(packets) == [shutdown |-> FALSE, packets |-> packets]
Queued(commands) ==
  LET gathered[k \in 0..Len(commands)] == IF k = 0 THEN <<>> ELSE gathered[k - 1] \o commands[k].packets
  IN  gathered[Len(commands)]

NetReceive ==
  /\ net = "running" /\ channel # <<>> /\ ~Head(channel).shutdown
  /\ batch' = batch \o Head(channel).packets /\ channel' = Tail(channel)
  /\ UNCHANGED <<net, socket, accepted, lost, client, reader, connection, sess, timing, bounds>>

\* The periodic or the size-triggered flush.
NetFlush ==
  /\ net = "running" /\ batch # <<>> /\ tcp # "closed"
  /\ socket' = socket \o batch /\ batch' = <<>>
  /\ UNCHANGED <<channel, net, accepted, lost, client, reader, connection, sess, timing, bounds>>

\* The write fails: the actor gets an event, what was gathered is lost.
NetWriteError ==
  /\ net = "running" /\ batch # <<>> /\ tcp # "open"
  /\ net' = "exited" /\ batch' = <<>> /\ channel' = <<>> /\ lost' = TRUE
  /\ ToConnection(<<NetworkEvent>>)
  /\ UNCHANGED <<socket, accepted, client, reader, cstate, normally, linked, buffer, sender, closing,
                 sess, timing, bounds>>

\* Shutdown: what is gathered and what is still queued is flushed, if the
\* socket takes it.
NetShutdown ==
  /\ net = "running" /\ channel # <<>> /\ Head(channel).shutdown
  /\ net' = "exited" /\ batch' = <<>> /\ channel' = <<>>
  /\ LET rest == batch \o Queued(channel)
     IN  \/ tcp # "closed" /\ socket' = socket \o rest /\ UNCHANGED lost
         \/ tcp # "open" /\ lost' = (lost \/ rest # <<>>) /\ UNCHANGED socket
  /\ UNCHANGED <<accepted, client, reader, connection, sess, timing, bounds>>

\* NetworkSender::shutdown: the command waits for room in the channel.
ShutdownAsked ==
  /\ closing \in {"asking", "detached"}
  /\ net = "running" => Len(channel) < Capacity
  /\ channel' = IF net = "running" THEN Append(channel, [shutdown |-> TRUE, packets |-> <<>>]) ELSE channel
  /\ closing' = IF closing = "asking" THEN "asked" ELSE "no"
  /\ UNCHANGED <<batch, net, socket, accepted, lost, client, reader, cstate, normally, linked, cbox,
                 buffer, sender, sess, timing, bounds>>

-------------------------------------------------------------------------------
\* The connection actor.

Room == net = "running" /\ Len(channel) < Capacity

flush_batch_Keeps(buf) ==
  IF ~sender \/ buf = <<>>
    THEN buffer' = buf /\ UNCHANGED <<channel, lost>>
    ELSE /\ buffer' = buf
         /\ channel' = IF Room THEN Append(channel, Data(buf)) ELSE channel
         /\ lost' = (lost \/ ~Room)

\* flush_batch on an encode buffer `buf`: try_send drops it when there is no room.
flush_batch(buf) ==
  IF ~sender \/ buf = <<>>
    THEN buffer' = buf /\ UNCHANGED <<channel, lost>>
    ELSE /\ buffer' = <<>>
         /\ channel' = IF Room THEN Append(channel, Data(buf)) ELSE channel
         /\ lost' = (lost \/ ~Room)

Farewell(norm) == IF linked THEN <<IF norm THEN "closed" ELSE "unexpected">> ELSE <<>>

\* ctx.stop(), then stopping and stopped: the last flush, the sender's shutdown in
\* a task of its own, and word to the session.  Dropping a shutdown future that
\* still waits for room aborts the sender task.
Stop(norm, told) ==
  /\ cstate' = "stopped" /\ normally' = norm /\ cbox' = <<>> /\ reader' = "end" /\ sender' = FALSE
  /\ ToSession(told \o Farewell(norm))
  /\ IF closing = "asking"
       THEN /\ closing' = "no" /\ net' = "exited" /\ batch' = <<>> /\ channel' = <<>> /\ buffer' = <<>>
            /\ lost' = (lost \/ (net = "running" /\ batch \o Queued(channel) # <<>>))
       ELSE /\ closing' = IF sender THEN "detached" ELSE closing
            /\ flush_batch(buffer)
            /\ UNCHANGED <<net, batch>>
  /\ UNCHANGED <<linked, socket, accepted, client, sstate, will, zero, deleting, routed, disconnected,
                 timing, bounds>>

Handling(kind) == cstate = "running" /\ cbox # <<>> /\ Head(cbox).kind = kind

\* The answer resumes the reader.
Answer == reader' = IF Head(cbox).next = "" THEN reader ELSE Head(cbox).next

\* WritePacketToClient: refused without a sender; the packet may have expired or be
\* too large for the client; a full buffer is flushed at once.
HandleWrite ==
  /\ Handling("write") /\ Answer /\ cbox' = Tail(cbox)
  /\ IF ~sender
       THEN UNCHANGED <<buffer, channel, lost, accepted>>
       ELSE /\ accepted' = Append(accepted, Head(cbox).what)
            /\ LET buf == Append(buffer, Head(cbox).what)
               IN  IF Len(buf) >= BatchSize THEN flush_batch(buf)
                                            ELSE buffer' = buf /\ UNCHANGED <<channel, lost>>
  /\ UNCHANGED <<cstate, normally, linked, sender, closing, batch, net, socket, client, sess, timing, bounds>>

FlushTick ==
  /\ cstate = "running" /\ buffer # <<>> /\ sender
  /\ flush_batch(buffer)
  /\ UNCHANGED <<reader, cstate, normally, linked, cbox, sender, closing, batch, net, socket, accepted,
                 client, sess, timing, bounds>>

\* Disconnect(reason): the first one shuts the sender down, a later one stops at once.
HandleDisconnect ==
  /\ Handling("disconnect")
  /\ LET norm == normally \/ Head(cbox).what = "normal"
     IN  IF sender
           THEN /\ flush_batch(buffer)
                /\ sender' = FALSE /\ closing' = "asking" /\ normally' = norm /\ cbox' = Tail(cbox)
                /\ UNCHANGED <<reader, cstate, linked, batch, net, socket, accepted, client, sess, timing, bounds>>
           ELSE Stop(norm, <<>>)

\* The shutdown future ends, by the task's end or after 5 seconds.
ShutdownDone ==
  /\ cstate = "running" /\ closing = "asked"
  /\ Stop(normally, <<>>)

HandleLink ==
  /\ Handling("link") /\ Answer /\ cbox' = Tail(cbox) /\ linked' = TRUE
  /\ UNCHANGED <<cstate, normally, buffer, sender, closing, network, client, sess, timing, bounds>>

HandleNormally ==
  /\ Handling("normally") /\ Answer /\ cbox' = Tail(cbox) /\ normally' = TRUE
  /\ UNCHANGED <<cstate, linked, buffer, sender, closing, network, client, sess, timing, bounds>>

\* handle_disconnection tells the session, and stopped tells it again.
HandleEvent ==
  /\ Handling("event")
  /\ Stop(normally, Farewell(normally))

-------------------------------------------------------------------------------
\* The reader future.

ReaderSends(msg, then) ==
  /\ ToConnection(<<msg>>) /\ reader' = then
  /\ UNCHANGED <<cstate, normally, linked, buffer, sender, closing, network, timing, bounds>>

Reads(where, p) == reader = where /\ unread # <<>> /\ Head(unread) = p /\ unread' = Tail(unread) /\ UNCHANGED tcp
Stays == UNCHANGED <<connection, network, timing, bounds>>

\* The first packet must be CONNECT; any other packet ends the reader and nothing else.
ReadFirst ==
  /\ \/ Reads("first", "unsupported") /\ ReaderSends(Asking("write", "connack_error", "abort"), "wait")
     \/ Reads("first", "malformed") /\ ReaderSends(NetworkEvent, "end")
     \/ Reads("first", "other") /\ reader' = "end" /\ Stays
     \/ Reads("first", "connect") /\ reader' = "connect" /\ Stays
  /\ UNCHANGED sess

\* Only MQTT 5 may leave the client identifier to the broker, with Clean Start.
prepare_client_identifier == setup.version = 3 \/ setup.named \/ setup.clean_start

will_message_from_connect_will == setup.will => setup.version = 3 \/ ~setup.delay

\* handle_initial_connect is refused before the session manager is asked: for the
\* client identifier, the will delay or by the authenticate hook.
ConnectRefused ==
  /\ reader = "connect"
  /\ ReaderSends(Asking("write", "connack_error", "abort"), "wait")
  /\ UNCHANGED <<client, sess>>

ConnectAccepted ==
  /\ reader = "connect" /\ prepare_client_identifier /\ will_message_from_connect_will
  /\ reader' = "create"
  /\ UNCHANGED <<client, sess>> /\ Stays

\* SessionActor::started, before CreateSession is answered.
started ==
  /\ reader = "create" /\ sstate = "none"
  /\ sstate' = "active" /\ will' = setup.will /\ zero' = session_options.zero
  /\ sbox' = <<"recover">>
  /\ tbox' = tbox \o Register(Timers)
  /\ UNCHANGED <<deleting, routed, disconnected, timers, client, reader, connection, network, bounds>>

\* The manager answers: with the session, or with an error, the session force-stopped
\* if it had been started.
SessionCreated ==
  /\ reader = "create" /\ sstate # "none"
  /\ ReaderSends(Asking("write", "connack", "link"), "wait")
  /\ UNCHANGED <<client, sess>>

CreateFailed ==
  /\ reader = "create"
  /\ ReaderSends(Asking("write", "connack_error", "abort"), "wait")
  /\ IF sstate = "none" THEN UNCHANGED sbox ELSE ToSession(<<"force_stop">>)
  /\ UNCHANGED <<client, sstate, will, zero, deleting, routed, disconnected>>

ReaderLinks ==
  /\ reader = "link"
  /\ ReaderSends(Asking("link", "", "loop"), "wait")
  /\ UNCHANGED <<client, sess>>

ReaderAborts ==
  /\ reader = "abort"
  /\ ReaderSends(Disconnect("internal"), "end")
  /\ UNCHANGED <<client, sess>>

ReaderBroken ==
  /\ reader = "broken"
  /\ ReaderSends(NetworkEvent, "end")
  /\ UNCHANGED <<client, sess>>

Goodbyes == {"disconnect", "disconnect0", "badexpiry"}

\* The read loop.  DISCONNECT is noted (disconnected_normally) before it is forwarded.
ReadPacket ==
  /\ \/ /\ Reads("loop", "pingreq") /\ ToSession(<<"pingreq">>)
        /\ UNCHANGED <<reader, sstate, will, zero, deleting, routed, disconnected>> /\ Stays
     \/ Reads("loop", "auth") /\ ReaderSends(Asking("write", "disconnect", "abort"), "wait") /\ UNCHANGED sess
     \/ /\ Reads("loop", "malformed")
        /\ \/ ReaderSends(Asking("write", "disconnect", "broken"), "wait")
           \/ ReaderSends(NetworkEvent, "end")
        /\ UNCHANGED sess
     \/ /\ \E p \in Goodbyes : Reads("loop", p) /\ ReaderSends(Asking("normally", "", p), "wait")
        /\ UNCHANGED sess

ReadForward ==
  /\ reader \in Goodbyes /\ ToSession(<<reader>>) /\ reader' = "loop"
  /\ UNCHANGED <<client, sstate, will, zero, deleting, routed, disconnected>> /\ Stays

\* End of stream.
ReadClosed ==
  /\ reader \in {"first", "loop"} /\ unread = <<>> /\ tcp = "closed"
  /\ ReaderSends(NetworkEvent, "end")
  /\ UNCHANGED <<client, sess>>

-------------------------------------------------------------------------------
\* The session actor.

SessionStays == UNCHANGED <<reader, cstate, normally, linked, buffer, sender, closing, network, client, timers>>

\* force_stop, after the messages `msgs` were sent to the connection; the timers are
\* removed (by force_stop and, to no further effect, by stopped).
force_stop(msgs) ==
  /\ ToConnection(msgs \o <<Disconnect("normal")>>)
  /\ tbox' = tbox \o RemoveTimers
  /\ sstate' = "stopped" /\ sbox' = <<>> /\ deleting' = 0
  /\ UNCHANGED zero

\* set_state(Inactive)
Deactivate(msgs) ==
  /\ ToConnection(msgs)
  /\ tbox' = tbox \o RemoveTimers
  /\ sstate' = "inactive" /\ sbox' = Tail(sbox)
  /\ UNCHANGED deleting

finish_connection_disconnect_OnlyClean(msgs, z) ==
  IF session_options.clean_session THEN force_stop(msgs)
  ELSE ToConnection(msgs) /\ sbox' = Tail(sbox) /\ UNCHANGED <<deleting, zero, sstate, tbox>>

\* finish_connection_disconnect with expiry interval `z` zero or not: the state is
\* deleted in a spawned future, or kept by an inactive session, or the session stops.
finish_connection_disconnect(msgs, z) ==
  IF session_options.clean_session THEN force_stop(msgs)
  ELSE IF z THEN /\ ToConnection(msgs) /\ sbox' = Tail(sbox) /\ deleting' = deleting + 1
                 /\ zero' = TRUE /\ UNCHANGED <<sstate, tbox>>
  ELSE Deactivate(msgs) /\ zero' = FALSE

DeleteDone ==
  /\ deleting > 0 /\ sstate \in {"active", "inactive"}
  /\ force_stop(<<>>)
  /\ UNCHANGED <<will, routed, disconnected, bounds>> /\ SessionStays

Receives(m) == sstate \in {"active", "inactive"} /\ sbox # <<>> /\ Head(sbox) = m

\* AllInflightRetryImmediate and the offline messages queued by started.
HandleRecover ==
  /\ Receives("recover")
  /\ ToConnection(IF setup.recovers THEN <<Write("resent")>> ELSE <<>>)
  /\ sbox' = Tail(sbox)
  /\ UNCHANGED <<sstate, will, zero, deleting, routed, disconnected, tbox, bounds>> /\ SessionStays

HandlePingreq ==
  /\ Receives("pingreq")
  /\ ToConnection(<<Write("pingresp")>>) /\ sbox' = Tail(sbox)
  /\ UNCHANGED <<sstate, will, zero, deleting, routed, disconnected, tbox, bounds>> /\ SessionStays

\* handle_disconnect; a session expiry interval above the current one is answered
\* with DISCONNECT, and the connection is not told to close.
handle_disconnect ==
  /\ \E p \in Goodbyes :
       /\ Receives(p)
       /\ finish_connection_disconnect(
            <<IF p = "badexpiry" THEN Write("disconnect") ELSE Disconnect("normal")>>,
            zero \/ p = "disconnect0")
  /\ will' = FALSE /\ disconnected' = TRUE
  /\ UNCHANGED <<routed, bounds>> /\ SessionStays

send_will_message_Kept ==
  /\ routed' = IF will THEN routed + 1 ELSE routed
  /\ UNCHANGED will

\* send_will_message takes the will.
send_will_message ==
  /\ routed' = IF will THEN routed + 1 ELSE routed
  /\ will' = FALSE

HandleKeepAliveExpired ==
  /\ Receives("keepalive") /\ send_will_message
  /\ finish_connection_disconnect(<<Disconnect("keepalive")>>, zero)
  /\ UNCHANGED <<disconnected, bounds>> /\ SessionStays

HandleUnexpected_NoWill ==
  /\ Receives("unexpected")
  /\ finish_connection_disconnect(<<>>, zero)
  /\ UNCHANGED <<will, routed, disconnected, bounds>> /\ SessionStays

HandleUnexpected ==
  /\ Receives("unexpected") /\ send_will_message
  /\ finish_connection_disconnect(<<>>, zero)
  /\ UNCHANGED <<disconnected, bounds>> /\ SessionStays

HandleClosed ==
  /\ Receives("closed")
  /\ finish_connection_disconnect(<<>>, zero)
  /\ UNCHANGED <<will, routed, disconnected, bounds>> /\ SessionStays

\* InflightRetry registers the timer again, whatever the state of the session.
HandleInflightRetry ==
  /\ Receives("inflight")
  /\ tbox' = tbox \o Register({"inflight"}) /\ sbox' = Tail(sbox)
  /\ ToConnection(IF setup.recovers THEN <<Write("resent")>> ELSE <<>>)
  /\ UNCHANGED <<sstate, will, zero, deleting, routed, disconnected, bounds>> /\ SessionStays

\* ForceDisconnect does nothing to an inactive session, and never deletes the state.
HandleForceDisconnect ==
  /\ Receives("force_disconnect")
  /\ IF sstate = "inactive"
       THEN sbox' = Tail(sbox) /\ UNCHANGED <<cbox, tbox, sstate, deleting, zero>>
     ELSE IF session_options.clean_session THEN force_stop(<<Disconnect("normal")>>)
     ELSE Deactivate(<<Disconnect("normal")>>) /\ UNCHANGED zero
  /\ UNCHANGED <<will, routed, disconnected, bounds>> /\ SessionStays

HandleForceStop ==
  /\ Receives("force_stop")
  /\ force_stop(<<>>)
  /\ UNCHANGED <<will, routed, disconnected, bounds>> /\ SessionStays

-------------------------------------------------------------------------------
\* The timer actor.

TimerHandle ==
  /\ tbox # <<>> /\ tbox' = Tail(tbox)
  /\ timers' = IF Head(tbox).op = "register" THEN timers \cup Head(tbox).timers
                                             ELSE timers \ Head(tbox).timers
  /\ UNCHANGED <<client, reader, connection, network, sess, bounds>>

\* An expired timer is removed and its session told.
TimerExpires(t) ==
  /\ t \in timers /\ timers' = timers \ {t}
  /\ t = "inflight" => retries < setup.retries
  /\ retries' = IF t = "inflight" THEN retries + 1 ELSE retries
  /\ ToSession(<<t>>)
  /\ UNCHANGED <<tbox, client, reader, connection, network, sstate, will, zero, deleting, routed,
                 disconnected, setup, stops>>

\* ForceDisconnect (an administrator) or ForceStop (a takeover) from outside.
Forced ==
  /\ stops < setup.stops /\ sstate \in {"active", "inactive"}
  /\ stops' = stops + 1
  /\ \E m \in {"force_disconnect", "force_stop"} : ToSession(<<m>>)
  /\ UNCHANGED <<client, reader, connection, network, sstate, will, zero, deleting, routed,
                 disconnected, timing, setup, retries>>

\* Both actors may have come to rest for good.
NetworkStep == NetReceive \/ NetFlush \/ NetWriteError \/ NetShutdown \/ ShutdownAsked
ConnectionStep ==
  \/ HandleWrite \/ HandleDisconnect \/ HandleLink \/ HandleNormally \/ HandleEvent
FlushStep == FlushTick
ReaderStep ==
  \/ ReadFirst \/ ConnectRefused \/ ConnectAccepted \/ SessionCreated \/ CreateFailed \/ ReaderLinks
  \/ ReaderAborts \/ ReaderBroken \/ ReadPacket \/ ReadForward \/ ReadClosed
SessionStep ==
  \/ HandleRecover \/ HandlePingreq \/ handle_disconnect \/ HandleKeepAliveExpired \/ HandleUnexpected
  \/ HandleClosed \/ HandleInflightRetry \/ HandleForceDisconnect \/ HandleForceStop

Next ==
  \/ ClientLeaves \/ NetworkStep \/ ConnectionStep \/ FlushStep \/ ShutdownDone \/ ReaderStep
  \/ started \/ SessionStep \/ DeleteDone \/ TimerHandle \/ (\E t \in timers : TimerExpires(t)) \/ Forced

\* Every task and actor runs; the client and an administrator owe nothing.
Fairness ==
  /\ WF_vars(NetworkStep) /\ WF_vars(ConnectionStep) /\ WF_vars(FlushStep) /\ WF_vars(ShutdownDone)
  /\ WF_vars(ReaderStep) /\ WF_vars(started) /\ WF_vars(SessionStep) /\ WF_vars(DeleteDone)
  /\ WF_vars(TimerHandle) /\ WF_vars(TimerExpires("keepalive"))

Spec == Init /\ [][Next]_vars /\ Fairness

-------------------------------------------------------------------------------
TypeOK ==
  /\ tcp \in {"open", "closed", "vanished"}
  /\ reader \in {"first", "connect", "create", "link", "loop", "abort", "broken", "wait", "end"} \cup Goodbyes
  /\ cstate \in {"running", "stopped"} /\ normally \in BOOLEAN /\ linked \in BOOLEAN
  /\ sender \in BOOLEAN /\ closing \in {"no", "asking", "asked", "detached"}
  /\ net \in {"running", "exited"} /\ lost \in BOOLEAN /\ Len(channel) <= Capacity
  /\ sstate \in {"none", "active", "inactive", "stopped"}
  /\ will \in BOOLEAN /\ zero \in BOOLEAN /\ deleting \in Nat /\ disconnected \in BOOLEAN
  /\ timers \subseteq Timers /\ routed \in Nat

\* The packets a connection took from its session and its reader reach the socket in
\* that order, none twice, and unless a full channel, a failed write or an aborted
\* sender lost a batch, none is missing: what was accepted is what was sent followed
\* by what the sender task, its channel and the encode buffer still hold.
OutputInOrder ==
  ~lost => accepted = socket \o batch \o Queued(channel) \o buffer

\* A will message is published at most once, although up to three messages (the keep
\* alive timer and two from the connection) may ask for it.
WillOnce == routed <= 1

\* After the session handled a DISCONNECT packet its will is never published.
WillDiscarded == [][routed' > routed => ~disconnected]_vars

\* A stopped session leaves no timer behind in the timer actor, and an inactive one no
\* keep alive timer (its retry timer may be registered again by a late InflightRetry).
TimersRemoved ==
  tbox = <<>> => /\ sstate = "stopped" => timers = {}
                 /\ sstate = "inactive" => "keepalive" \notin timers

\* A session whose client has left, with or without the connection noticing, ends up
\* inactive or stopped, its timer removed: even when the connection stopped before it
\* knew the session, or no end of stream ever arrives.
SessionReleased ==
  (tcp # "open" /\ sstate = "active") ~> (sstate \in {"inactive", "stopped"})

\* The will of an accepted client is published when it leaves without DISCONNECT, unless the session is
\* forced out first (ForceDisconnect and ForceStop report a normal disconnect).
WillPublished ==
  (/\ tcp # "open" /\ will /\ "connack" \in Range(accepted)
   /\ Range(setup.sends) \cap Goodbyes = {} /\ setup.stops = 0) ~> (routed = 1)

===============================================================================
