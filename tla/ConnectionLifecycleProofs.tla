----------------------- MODULE ConnectionLifecycleProofs -----------------------
(***************************************************************************)
(* What the will message and the timers of a session do, and in which      *)
(* order its packets reach the socket, for every kind of client, every     *)
(* batch size and channel capacity, and any number of late, repeated and   *)
(* crossing messages between the three actors.                             *)
(***************************************************************************)
EXTENDS ConnectionLifecycle, SequenceTheorems, WellFoundedInduction, TLAPS

TimerMessage == [op : {"register", "remove"}, timers : SUBSET Timers]

Types ==
  /\ setup \in Setups
  /\ sstate \in {"none", "active", "inactive", "stopped"}
  /\ timers \subseteq Timers
  /\ tbox \in Seq(TimerMessage)
  /\ \A j \in DOMAIN tbox : tbox[j].op = "remove" => tbox[j].timers = Timers

\* A will still held was not published; a session that handled a DISCONNECT holds none.
Wills ==
  /\ will \in BOOLEAN /\ disconnected \in BOOLEAN /\ routed \in {0, 1}
  /\ sstate = "none" => ~will /\ routed = 0 /\ ~disconnected
  /\ will => routed = 0
  /\ disconnected => ~will

\* The timer actor has let go of timer t, or a removal is on its way to it behind every
\* registration of t.
LetGo(t) ==
  /\ t \in timers => \E k \in DOMAIN tbox : tbox[k].op = "remove"
  /\ \A j \in DOMAIN tbox :
       tbox[j].op = "register" /\ t \in tbox[j].timers
         => \E k \in DOMAIN tbox : k > j /\ tbox[k].op = "remove"

Released ==
  /\ sstate = "stopped" => \A t \in Timers : LetGo(t)
  /\ sstate = "inactive" => LetGo("keepalive")

IInv == Types /\ Wills /\ Released

-------------------------------------------------------------------------------
\* All that the proofs need to know of a step.

Living == sstate \in {"active", "inactive"}

\* The session actor's part: what a handler does with its state, ...
WillStep ==
  \/ UNCHANGED <<will, routed, disconnected>>
  \/ will' = FALSE /\ disconnected' = TRUE /\ routed' = routed
  \/ send_will_message /\ disconnected' = disconnected

\* ... and with its timers.
TimerStep ==
  \/ UNCHANGED <<sstate, tbox>>
  \/ sstate' = sstate /\ tbox' = tbox \o Register({"inflight"})
  \/ sstate' \in {"inactive", "stopped"} /\ tbox' = tbox \o RemoveTimers

SessionMove == Living /\ WillStep /\ TimerStep /\ timers' = timers /\ setup' = setup

Quiet == UNCHANGED <<setup, sstate, will, routed, disconnected, timers, tbox>>

TimerMove ==
  /\ UNCHANGED <<setup, sstate, will, routed, disconnected>>
  /\ \/ /\ tbox # <<>> /\ tbox' = Tail(tbox)
        /\ timers' = IF Head(tbox).op = "register" THEN timers \cup Head(tbox).timers
                                                   ELSE timers \ Head(tbox).timers
     \/ tbox' = tbox /\ timers' \subseteq timers

StartMove ==
  /\ sstate = "none" /\ sstate' = "active" /\ will' = setup.will /\ tbox' = tbox \o Register(Timers)
  /\ UNCHANGED <<setup, routed, disconnected, timers>>

\* The network sender, the connection actor and its reader leave the session alone.
LEMMA OutsideQuiet ==
  ClientLeaves \/ NetworkStep \/ ConnectionStep \/ FlushStep \/ ShutdownDone \/ ReaderStep \/ Forced
    => Quiet
<1>1. ASSUME NEW b, NEW m, Stop(b, m) PROVE Quiet
  BY <1>1, Zenon DEF Stop, Quiet, timing, bounds
<1>2. ClientLeaves \/ NetworkStep \/ FlushStep \/ Forced => Quiet
  BY Zenon DEF ClientLeaves, NetworkStep, NetReceive, NetFlush, NetWriteError, NetShutdown, ShutdownAsked, FlushStep,
         FlushTick, Forced, Quiet, sess, timing, bounds
<1>3. HandleWrite \/ HandleLink \/ HandleNormally => Quiet
  BY Zenon DEF HandleWrite, HandleLink, HandleNormally, Quiet, sess, timing, bounds
<1>4. HandleDisconnect \/ HandleEvent \/ ShutdownDone => Quiet
  BY <1>1, Zenon DEF HandleDisconnect, HandleEvent, ShutdownDone, Quiet, sess, timing, bounds
<1>5. ASSUME ReaderStep PROVE Quiet
  <2>1. CASE ReadFirst \/ ReadPacket \/ ReadForward \/ ReadClosed
    BY <2>1, Zenon DEF ReadFirst, ReadPacket, ReadForward, ReadClosed, ReaderSends, Stays, Quiet, sess, timing, bounds
  <2>2. CASE ConnectRefused \/ ConnectAccepted \/ SessionCreated \/ CreateFailed \/ ReaderLinks \/ ReaderAborts
             \/ ReaderBroken
    BY <2>2, Zenon DEF ConnectRefused, ConnectAccepted, SessionCreated, CreateFailed, ReaderLinks, ReaderAborts,
                ReaderBroken, ReaderSends, Stays, Quiet, sess, timing, bounds
  <2> QED BY <1>5, <2>1, <2>2, Zenon DEF ReaderStep
<1> QED BY <1>2, <1>3, <1>4, <1>5, Zenon DEF ConnectionStep

\* A handler of the session actor runs in a living session; it removes the timers
\* whenever it makes the session inactive or stops it.
LEMMA SessionMoves ==
  SessionStep \/ DeleteDone => SessionMove
<1>1. ASSUME NEW msgs, NEW z, finish_connection_disconnect(msgs, z) PROVE TimerStep
  BY <1>1, Zenon DEF finish_connection_disconnect, force_stop, Deactivate, TimerStep
<1>2. ASSUME NEW m, Receives(m) PROVE Living
  BY <1>2, Zenon DEF Receives, Living
<1>3. HandleRecover \/ HandlePingreq \/ HandleInflightRetry => SessionMove
  BY <1>2, Zenon DEF HandleRecover, HandlePingreq, HandleInflightRetry, SessionMove, WillStep, TimerStep, SessionStays, bounds
<1>4. handle_disconnect => SessionMove
  BY <1>1, <1>2, Zenon DEF handle_disconnect, SessionMove, WillStep, SessionStays, bounds
<1>5. HandleKeepAliveExpired \/ HandleUnexpected \/ HandleClosed => SessionMove
  BY <1>1, <1>2, Zenon DEF HandleKeepAliveExpired, HandleUnexpected, HandleClosed, SessionMove, WillStep, SessionStays, bounds
<1>6. HandleForceDisconnect \/ HandleForceStop => SessionMove
  BY <1>2, Zenon DEF HandleForceDisconnect, HandleForceStop, force_stop, Deactivate, SessionMove, WillStep, TimerStep,
              SessionStays, bounds
<1>7. DeleteDone => SessionMove
  BY Zenon DEF DeleteDone, Living, force_stop, SessionMove, WillStep, TimerStep, SessionStays, bounds
<1> QED BY <1>3, <1>4, <1>5, <1>6, <1>7, Zenon DEF SessionStep

\* Every step is one of four kinds.
LEMMA Moves ==
  [Next]_vars => Quiet \/ SessionMove \/ TimerMove \/ StartMove
<1>1. TimerHandle \/ (\E t \in timers : TimerExpires(t)) => TimerMove
  BY Zenon DEF TimerHandle, TimerExpires, TimerMove, sess, bounds
<1>2. started => StartMove
  BY Zenon DEF started, StartMove, bounds
<1>3. UNCHANGED vars => Quiet
  BY Zenon DEF vars, Quiet, sess, timing, bounds
<1> QED BY <1>1, <1>2, <1>3, OutsideQuiet, SessionMoves, Zenon DEF Next

-------------------------------------------------------------------------------
\* Messages the session appends to the timer actor's mailbox.

\* What a message added to the timer actor's mailbox does to it.
LEMMA AppendedTypes ==
  ASSUME Types, NEW m \in TimerMessage, m.op = "remove" => m.timers = Timers,
         tbox' = tbox \o <<m>>
  PROVE  /\ tbox' \in Seq(TimerMessage)
         /\ \A j \in DOMAIN tbox' : tbox'[j].op = "remove" => tbox'[j].timers = Timers
         /\ Len(tbox') = Len(tbox) + 1
         /\ tbox'[Len(tbox) + 1] = m
         /\ \A j \in 1..Len(tbox) : tbox'[j] = tbox[j]
<1> DEFINE n == Len(tbox)
<1>1. tbox \in Seq(TimerMessage) /\ n \in Nat /\ DOMAIN tbox = 1..n
  BY DEF Types
<1>2. tbox' = Append(tbox, m)
  BY <1>1
<1>3. tbox' \in Seq(TimerMessage) /\ Len(tbox') = n + 1 /\ tbox'[n + 1] = m
  BY <1>1, <1>2, AppendProperties
<1>4. \A j \in 1..n : tbox'[j] = tbox[j]
  BY <1>1, <1>2, AppendProperties
<1>5. DOMAIN tbox' = 1..(n + 1)
  BY <1>3
<1>6. ASSUME NEW j \in DOMAIN tbox', tbox'[j].op = "remove" PROVE tbox'[j].timers = Timers
  <2>1. CASE j \in 1..n  BY <2>1, <1>1, <1>4, <1>6, Zenon DEF Types
  <2>2. CASE j = n + 1   BY <2>2, <1>3, <1>6, Zenon
  <2> QED BY <1>1, <1>5, <2>1, <2>2
<1> QED BY <1>3, <1>4, <1>6, Zenon

\* A registration of another timer, or a removal, keeps t let go.
LEMMA LetGoKept ==
  ASSUME Types, NEW m \in TimerMessage, m.op = "remove" => m.timers = Timers,
         tbox' = tbox \o <<m>>, timers' = timers, NEW t \in Timers,
         \/ m.op = "remove"
         \/ t \notin m.timers /\ LetGo(t)
  PROVE  LetGo(t)'
<1> DEFINE n == Len(tbox)
<1>1. n \in Nat /\ DOMAIN tbox = 1..n
  BY DEF Types
<1>2. /\ tbox' \in Seq(TimerMessage) /\ Len(tbox') = n + 1
      /\ tbox'[n + 1] = m /\ \A j \in 1..n : tbox'[j] = tbox[j]
  BY AppendedTypes, Zenon
<1>3. DOMAIN tbox' = 1..(n + 1)
  BY <1>2
<1> HIDE DEF n
<1>4. CASE m.op = "remove"
  <2>1. n + 1 \in DOMAIN tbox' /\ tbox'[n + 1].op = "remove"
    BY <1>1, <1>2, <1>3, <1>4
  <2>2. ASSUME NEW j \in DOMAIN tbox', tbox'[j].op = "register"
        PROVE  \E k \in DOMAIN tbox' : k > j /\ tbox'[k].op = "remove"
    <3>1. j # n + 1
      BY <2>1, <2>2, Zenon
    <3> QED BY <1>1, <1>3, <2>1, <3>1
  <2> QED BY <2>1, <2>2, Zenon DEF LetGo
<1>5. CASE t \notin m.timers /\ LetGo(t)
  <2>1. t \in timers' => \E k \in DOMAIN tbox' : tbox'[k].op = "remove"
    BY <1>1, <1>2, <1>3, <1>5 DEF LetGo
  <2>2. ASSUME NEW j \in DOMAIN tbox', tbox'[j].op = "register", t \in tbox'[j].timers
        PROVE  \E k \in DOMAIN tbox' : k > j /\ tbox'[k].op = "remove"
    <3>1. j \in 1..n
      BY <1>1, <1>2, <1>3, <1>5, <2>2
    <3>2. PICK k \in 1..n : k > j /\ tbox[k].op = "remove"
      BY <1>1, <1>2, <1>5, <2>2, <3>1, Zenon DEF LetGo
    <3>3. k \in DOMAIN tbox' /\ tbox'[k].op = "remove"
      BY <1>1, <1>2, <1>3, <3>2
    <3> QED BY <3>2, <3>3, Zenon
  <2> QED BY <2>1, <2>2, Zenon DEF LetGo
<1> QED BY <1>4, <1>5, Zenon

\* The timer actor handles its oldest message.
LEMMA LetGoHandled ==
  ASSUME Types, NEW t \in Timers, LetGo(t), tbox # <<>>, tbox' = Tail(tbox),
         timers' = IF Head(tbox).op = "register" THEN timers \cup Head(tbox).timers
                                                 ELSE timers \ Head(tbox).timers
  PROVE  LetGo(t)'
<1> DEFINE n == Len(tbox)
<1>1. n \in Nat \ {0} /\ DOMAIN tbox = 1..n /\ Head(tbox) = tbox[1]
  BY EmptySeq DEF Types
<1>2. tbox' \in Seq(TimerMessage) /\ Len(tbox') = n - 1 /\ \A k \in 1..(n - 1) : tbox'[k] = tbox[k + 1]
  BY HeadTailProperties, Zenon DEF Types
<1>3. DOMAIN tbox' = 1..(n - 1)
  BY <1>2
<1>4. tbox[1] \in TimerMessage /\ (tbox[1].op = "remove" => tbox[1].timers = Timers)
  BY <1>1 DEF Types
<1> HIDE DEF n
<1>5. ASSUME NEW i \in Nat, NEW k \in 1..n, k > i, i >= 1, tbox[k].op = "remove"
      PROVE  \E l \in DOMAIN tbox' : l > i - 1 /\ tbox'[l].op = "remove"
  <2>1. k - 1 \in DOMAIN tbox' /\ k - 1 > i - 1 /\ tbox'[k - 1] = tbox[k]
    BY <1>1, <1>2, <1>3, <1>5
  <2> QED BY <1>5, <2>1, Zenon
<1>6. ASSUME t \in timers' PROVE \E k \in DOMAIN tbox' : tbox'[k].op = "remove"
  <2>1. tbox[1].op = "register"
    BY <1>1, <1>4, <1>6, Zenon DEF TimerMessage
  <2>2. PICK k \in 1..n : k > 1 /\ tbox[k].op = "remove"
    <3>1. CASE t \in timers
      <4>1. PICK k \in 1..n : tbox[k].op = "remove"
        BY <1>1, <3>1, Zenon DEF LetGo
      <4>2. k # 1
        BY <2>1, <4>1, Zenon
      <4> QED BY <1>1, <4>1, <4>2
    <3>2. CASE t \in tbox[1].timers
      BY <1>1, <2>1, <3>2 DEF LetGo
    <3> QED BY <1>1, <1>6, <2>1, <3>1, <3>2, Zenon
  <2> QED BY <1>5, <2>2
<1>7. ASSUME NEW j \in DOMAIN tbox', tbox'[j].op = "register", t \in tbox'[j].timers
      PROVE  \E k \in DOMAIN tbox' : k > j /\ tbox'[k].op = "remove"
  <2>1. j + 1 \in 1..n /\ tbox'[j] = tbox[j + 1] /\ j \in Nat /\ j >= 1
    BY <1>1, <1>2, <1>3
  <2>2. PICK k \in 1..n : k > j + 1 /\ tbox[k].op = "remove"
    BY <1>1, <1>7, <2>1, Zenon DEF LetGo
  <2>3. PICK l \in DOMAIN tbox' : l > (j + 1) - 1 /\ tbox'[l].op = "remove"
    BY <1>5, <2>1, <2>2
  <2> QED BY <1>3, <2>1, <2>3, SMTT(30)
<1> QED BY <1>6, <1>7, Zenon DEF LetGo

-------------------------------------------------------------------------------
\* The invariant holds initially.
LEMMA InitTypes == Init => IInv
<1> SUFFICES ASSUME Init PROVE IInv
  BY Zenon
<1>1. Types  BY DEF Init, Types
<1>2. Wills  BY Zenon DEF Init, Wills
<1>3. Released  BY Zenon DEF Init, Released
<1> QED BY <1>1, <1>2, <1>3, Zenon DEF IInv

\* Every step keeps the types.
LEMMA StepTypes ==
  ASSUME IInv, [Next]_vars
  PROVE  Types'
<1> USE DEF IInv
<1>1. CASE Quiet
  BY <1>1, Zenon DEF Quiet, Types
<1>2. CASE TimerMove
  <2>1. UNCHANGED <<setup, sstate>>
    BY <1>2, Zenon DEF TimerMove
  <2>2. CASE tbox' = tbox /\ timers' \subseteq timers
    BY <2>1, <2>2, Zenon DEF Types
  <2>3. CASE /\ tbox # <<>> /\ tbox' = Tail(tbox)
             /\ timers' = IF Head(tbox).op = "register" THEN timers \cup Head(tbox).timers
                                                        ELSE timers \ Head(tbox).timers
    <3>1. /\ tbox' \in Seq(TimerMessage) /\ Len(tbox') = Len(tbox) - 1
          /\ \A k \in 1..(Len(tbox) - 1) : tbox'[k] = tbox[k + 1]
      BY <2>3, HeadTailProperties, Zenon DEF Types
    <3>2. Head(tbox) \in TimerMessage /\ Len(tbox) \in Nat /\ DOMAIN tbox = 1..Len(tbox)
      BY <2>3, HeadTailProperties DEF Types
    <3>3. timers' \subseteq Timers
      BY <2>3, <3>2, Zenon DEF Types, TimerMessage
    <3>4. ASSUME NEW j \in DOMAIN tbox' PROVE tbox'[j].op = "remove" => tbox'[j].timers = Timers
      <4>1. j \in 1..(Len(tbox) - 1) /\ j + 1 \in DOMAIN tbox
        BY <3>1, <3>2
      <4> QED BY <3>1, <4>1, Zenon DEF Types
    <3> QED BY <2>1, <3>1, <3>3, <3>4, Zenon DEF Types
  <2> QED BY <1>2, <2>2, <2>3, Zenon DEF TimerMove
<1>3. ASSUME NEW m \in TimerMessage, m.op = "remove" => m.timers = Timers, tbox' = tbox \o <<m>>,
             timers' = timers, setup' = setup, sstate' \in {"none", "active", "inactive", "stopped"}
      PROVE  Types'
  BY <1>3, AppendedTypes, Zenon DEF Types
<1>4. CASE SessionMove
  BY <1>3, <1>4, Zenon DEF SessionMove, TimerStep, Types, TimerMessage, Register, RemoveTimers, Timers
<1>5. CASE StartMove
  BY <1>3, <1>5, Zenon DEF StartMove, TimerMessage, Register, Timers
<1> QED BY <1>1, <1>2, <1>4, <1>5, Moves, Zenon

\* Every step keeps what is known of the will.
LEMMA StepWills ==
  ASSUME IInv, [Next]_vars
  PROVE  Wills'
<1> USE DEF IInv
<1>1. CASE Quiet
  BY <1>1, Zenon DEF Quiet, Wills
<1>2. CASE TimerMove
  BY <1>2, Zenon DEF TimerMove, Wills
<1>3. CASE SessionMove
  <2>1. sstate' # "none"
    BY <1>3, Zenon DEF SessionMove, Living, TimerStep
  <2>2. CASE UNCHANGED <<will, routed, disconnected>>
    BY <2>1, <2>2, Zenon DEF Wills
  <2>3. CASE will' = FALSE /\ disconnected' = TRUE /\ routed' = routed
    BY <2>1, <2>3, Zenon DEF Wills
  <2>4. CASE send_will_message /\ disconnected' = disconnected
    <3>1. will' = FALSE /\ disconnected' \in BOOLEAN
      BY <2>4, Zenon DEF send_will_message, Wills
    <3>2. routed' \in {0, 1}
      <4>1. CASE will   BY <2>4, <4>1 DEF send_will_message, Wills
      <4>2. CASE ~will  BY <2>4, <4>2, Zenon DEF send_will_message, Wills
      <4> QED BY <4>1, <4>2, Zenon
    <3> QED BY <2>1, <3>1, <3>2, Zenon DEF Wills
  <2> QED BY <1>3, <2>2, <2>3, <2>4, Zenon DEF SessionMove, WillStep
<1>4. CASE StartMove
  <2>1. setup.will \in BOOLEAN
    BY ConnectionAssumption, Zenon DEF Types
  <2> QED BY <1>4, <2>1, Zenon DEF StartMove, Wills
<1> QED BY <1>1, <1>2, <1>3, <1>4, Moves, Zenon

\* Every step keeps what is known of the timers.
LEMMA StepReleased ==
  ASSUME IInv, [Next]_vars
  PROVE  Released'
<1> USE DEF IInv
<1>1. "keepalive" \in Timers /\ "keepalive" # "inflight"
  BY Zenon DEF Timers
<1>2. CASE Quiet
  BY <1>2, ZenonT(30) DEF Quiet, Released, LetGo
<1>3. CASE TimerMove
  <2>1. ASSUME NEW t \in Timers, LetGo(t) PROVE LetGo(t)'
    <3>1. CASE tbox' = tbox /\ timers' \subseteq timers
      BY <2>1, <3>1, Zenon DEF LetGo
    <3> QED BY <1>3, <2>1, <3>1, LetGoHandled, Zenon DEF TimerMove
  <2>2. sstate' = sstate
    BY <1>3, Zenon DEF TimerMove
  <2> QED BY <1>1, <2>1, <2>2, Zenon DEF Released
<1>4. CASE SessionMove
  <2>1. timers' = timers
    BY <1>4, Zenon DEF SessionMove
  <2>2. CASE UNCHANGED <<sstate, tbox>>
    BY <2>1, <2>2 DEF Released, LetGo
  <2>3. CASE sstate' = sstate /\ tbox' = tbox \o Register({"inflight"})
    <3> DEFINE m == [op |-> "register", timers |-> {"inflight"}]
    <3>1. m \in TimerMessage /\ m.op # "remove" /\ tbox' = tbox \o <<m>> /\ "keepalive" \notin m.timers
      BY <2>3, Zenon DEF TimerMessage, Register, Timers
    <3>2. sstate # "stopped"
      BY <1>4, Zenon DEF SessionMove, Living
    <3> HIDE DEF m
    <3>3. LetGo("keepalive") => LetGo("keepalive")'
      BY <1>1, <2>1, <3>1, LetGoKept, Zenon
    <3> QED BY <2>3, <3>2, <3>3, Zenon DEF Released
  <2>4. CASE sstate' \in {"inactive", "stopped"} /\ tbox' = tbox \o RemoveTimers
    <3> DEFINE m == [op |-> "remove", timers |-> Timers]
    <3>1. m \in TimerMessage /\ m.op = "remove" /\ m.timers = Timers /\ tbox' = tbox \o <<m>>
      BY <2>4, Zenon DEF TimerMessage, RemoveTimers
    <3> HIDE DEF m
    <3>2. ASSUME NEW t \in Timers PROVE LetGo(t)'
      BY <2>1, <3>1, LetGoKept, Zenon
    <3> QED BY <1>1, <3>2, Zenon DEF Released
  <2> QED BY <1>4, <2>2, <2>3, <2>4, Zenon DEF SessionMove, TimerStep
<1>5. CASE StartMove
  BY <1>5, Zenon DEF StartMove, Released
<1> QED BY <1>2, <1>3, <1>4, <1>5, Moves, Zenon

\* The invariant holds in every state.
LEMMA Inductive == Spec => []IInv
<1>1. Init => IInv
  BY InitTypes, Zenon
<1>2. IInv /\ [Next]_vars => IInv'
  BY StepTypes, StepWills, StepReleased, Zenon DEF IInv
<1> QED BY <1>1, <1>2, PTL DEF Spec

-------------------------------------------------------------------------------
\* A will message is published at most once, however many of the keep alive timer, the
\* network event and the end of the connection ask for it (send_will_message).
THEOREM WillPublishedAtMostOnce == Spec => []WillOnce
<1>1. IInv => WillOnce
  BY DEF IInv, Wills, WillOnce
<1> QED BY <1>1, Inductive, PTL

\* A session that handled a DISCONNECT packet never publishes its will afterwards
\* (handle_disconnect), whatever late messages still reach it.
THEOREM DisconnectDiscardsWill == Spec => WillDiscarded
<1>1. ASSUME IInv, [Next]_vars PROVE [routed' > routed => ~disconnected]_vars
  <2>1. CASE Quiet \/ TimerMove \/ StartMove
    BY <1>1, <2>1 DEF Quiet, TimerMove, StartMove, IInv, Wills
  <2>2. CASE SessionMove
    BY <1>1, <2>2 DEF SessionMove, WillStep, send_will_message, IInv, Wills
  <2> QED BY <1>1, <2>1, <2>2, Moves, Zenon
<1> QED BY <1>1, Inductive, PTL DEF Spec, WillDiscarded

\* Once the timer actor has caught up, a stopped session has no timer and an inactive
\* one no keep alive timer (force_stop, set_state(Inactive)), although expiries and
\* registrations cross the removals.
THEOREM TimersLetGo == Spec => []TimersRemoved
<1>1. IInv => TimersRemoved
  <2> SUFFICES ASSUME IInv, tbox = <<>>
               PROVE  /\ sstate = "stopped" => timers = {}
                      /\ sstate = "inactive" => "keepalive" \notin timers
    BY Zenon DEF TimersRemoved
  <2>1. ASSUME NEW t, LetGo(t) PROVE t \notin timers
    BY <2>1 DEF LetGo
  <2>2. timers \subseteq Timers
    BY Zenon DEF IInv, Types
  <2> QED BY <2>1, <2>2, Zenon DEF IInv, Released
<1> QED BY <1>1, Inductive, PTL

-------------------------------------------------------------------------------
\* What Queued, a recursive function over the places of the channel, computes.

\* A nonempty set of natural numbers has a least element: induction, in a form that
\* takes a set and not a predicate.
LEMMA Least ==
  ASSUME NEW T \in SUBSET Nat, T # {}
  PROVE  \E x \in T : \A y \in T : x <= y
<1>1. IsWellFoundedOn(OpToRel(<, Nat), Nat)
  BY NatLessThanWellFounded, Zenon
<1>2. PICK x \in T : \A y \in T : ~(<<y, x>> \in OpToRel(<, Nat))
  BY <1>1, WFMin, Zenon
<1>3. \A y \in T : ~(y < x)
  BY <1>2, Zenon DEF OpToRel
<1> QED BY <1>3

\* The names of packets, of message kinds and of the reader's places.
Words ==
  {"", "abort", "badexpiry", "broken", "connack", "connack_error", "disconnect", "disconnect0", "event",
   "internal", "keepalive", "link", "loop", "normal", "normally", "pingresp", "resent", "write"}

Command == [shutdown : BOOLEAN, packets : Seq(Words)]

\* f gathers the packets of the commands from the left.
Gathers(f, c) == f = [k \in 0..Len(c) |-> IF k = 0 THEN <<>> ELSE f[k - 1] \o c[k].packets]

\* There is one way to gather them.
LEMMA GathersOnce ==
  ASSUME NEW c, Len(c) \in Nat, NEW f, NEW g, Gathers(f, c), Gathers(g, c)
  PROVE  f = g
<1> DEFINE T == {k \in 0..Len(c) : f[k] # g[k]}
<1>1. ASSUME T # {} PROVE FALSE
  <2>0. T \in SUBSET Nat
    OBVIOUS
  <2>1. PICK k \in T : \A j \in T : k <= j
    <3> HIDE DEF T
    <3> QED BY <1>1, <2>0, Least, Zenon
  <2>2. k \in 0..Len(c) /\ f[k] # g[k] /\ k # 0
    BY <2>1, Zenon DEF Gathers
  <2>3. k - 1 \in 0..Len(c) /\ k - 1 \notin T
    BY <2>1, <2>2
  <2>4. f[k - 1] = g[k - 1]
    BY <2>3, Zenon
  <2>5. f[k] = f[k - 1] \o c[k].packets /\ g[k] = g[k - 1] \o c[k].packets
    BY <2>2, Zenon DEF Gathers
  <2> QED BY <2>2, <2>4, <2>5, Zenon
<1>2. \A k \in 0..Len(c) : f[k] = g[k]
  BY <1>1, Zenon
<1>3. f = [k \in 0..Len(c) |-> f[k]] /\ g = [k \in 0..Len(c) |-> g[k]]
  BY Zenon DEF Gathers
<1> QED BY <1>2, <1>3, Zenon

\* What is queued is what is gathered at the end.
LEMMA QueuedGathers ==
  ASSUME NEW c, Len(c) \in Nat, NEW g, Gathers(g, c)
  PROVE  Queued(c) = g[Len(c)]
<1>1. \E f : f = [k \in 0..Len(c) |-> IF k = 0 THEN <<>> ELSE f[k - 1] \o c[k].packets]
             /\ Queued(c) = f[Len(c)]
  BY Zenon DEF Queued, Gathers
<1>2. PICK f : Gathers(f, c) /\ Queued(c) = f[Len(c)]
  BY <1>1, Zenon DEF Gathers
<1> QED BY <1>2, GathersOnce, Zenon

\* The commands of a channel have packets.
LEMMA Packets ==
  ASSUME NEW c \in Seq(Command)
  PROVE  Len(c) \in Nat /\ \A k \in 1..Len(c) : c[k].packets \in Seq(Words)
<1>1. Len(c) \in Nat /\ \A k \in 1..Len(c) : c[k] \in Command
  OBVIOUS
<1> QED BY <1>1, Zenon DEF Command

\* The packets of a channel can be gathered.
LEMMA GathersExists ==
  ASSUME NEW c \in Seq(Command)
  PROVE  \E f \in [0..Len(c) -> Seq(Words)] : Gathers(f, c)
<1> DEFINE Partial(n, f) ==
      \A k \in 0..n : f[k] = IF k = 0 THEN <<>> ELSE f[k - 1] \o c[k].packets
<1> DEFINE T == {n \in 0..Len(c) : ~\E f \in [0..n -> Seq(Words)] : Partial(n, f)}
<1>0. Len(c) \in Nat /\ \A k \in 1..Len(c) : c[k].packets \in Seq(Words)
  BY Packets, Zenon
<1>1. ASSUME T # {} PROVE FALSE
  <2>0. T \in SUBSET Nat
    BY <1>0
  <2>1. PICK n \in T : \A j \in T : n <= j
    <3> HIDE DEF T
    <3> QED BY <1>1, <2>0, Least, Zenon
  <2>2. n \in 0..Len(c)
    BY <2>1, Zenon
  <2>3. n # 0
    <3>1. ASSUME n = 0 PROVE \E f \in [0..n -> Seq(Words)] : Partial(n, f)
      <4>1. [k \in 0..n |-> <<>>] \in [0..n -> Seq(Words)] /\ 0..n = {0}
        BY <3>1
      <4> QED BY <4>1, Zenon
    <3> QED BY <2>1, <3>1, Zenon
  <2>4. n \in 1..Len(c) /\ n - 1 \in 0..Len(c) /\ ~(n <= n - 1)
    BY <1>0, <2>2, <2>3
  <2>5. n - 1 \notin T
    <3> HIDE DEF T
    <3> QED BY <2>1, <2>4, Zenon
  <2>6. PICK f \in [0..(n - 1) -> Seq(Words)] : Partial(n - 1, f)
    BY <2>4, <2>5, Zenon
  <2> DEFINE last == f[n - 1] \o c[n].packets
  <2> DEFINE g == [k \in 0..n |-> IF k = n THEN last ELSE f[k]]
  <2>7. last \in Seq(Words)
    <3>1. f[n - 1] \in Seq(Words) /\ c[n].packets \in Seq(Words)
      BY <1>0, <2>4
    <3> QED BY <3>1, ConcatProperties, Zenon
  <2>8. last = f[n - 1] \o c[n].packets
    BY Zenon
  <2> HIDE DEF last
  <2>9. g \in [0..n -> Seq(Words)]
    BY <2>4, <2>7
  <2>10. Partial(n, g)
    <3> SUFFICES ASSUME NEW k \in 0..n PROVE g[k] = IF k = 0 THEN <<>> ELSE g[k - 1] \o c[k].packets
      BY Zenon
    <3>1. k # 0 => k - 1 \in 0..n /\ g[k - 1] = f[k - 1]
      BY <2>4
    <3>2. CASE k = n
      BY <2>3, <2>8, <3>1, <3>2, Zenon
    <3>3. CASE k # n
      <4>1. k \in 0..(n - 1) /\ g[k] = f[k]
        BY <2>4, <3>3
      <4> QED BY <2>6, <3>1, <4>1, Zenon
    <3> QED BY <3>2, <3>3, Zenon
  <2> QED BY <2>1, <2>9, <2>10, Zenon
<1>2. PICK f \in [0..Len(c) -> Seq(Words)] : Partial(Len(c), f)
  <2>1. Len(c) \in 0..Len(c)
    BY <1>0
  <2>2. Len(c) \notin T
    <3> HIDE DEF T
    <3> QED BY <1>1, Zenon
  <2> QED BY <2>1, <2>2, Zenon
<1>3. Gathers(f, c)
  BY <1>2, Zenon DEF Gathers
<1> QED BY <1>3, Zenon

\* A command sent behind the others.
LEMMA QueuedAppend ==
  ASSUME NEW c \in Seq(Command), NEW d \in Command
  PROVE  Queued(Append(c, d)) = Queued(c) \o d.packets /\ Queued(c) \in Seq(Words)
<1> DEFINE n == Len(c)
<1> DEFINE t == Append(c, d)
<1>0. /\ n \in Nat /\ Len(t) = n + 1 /\ t[n + 1] = d /\ \A k \in 1..n : t[k] = c[k]
  BY AppendProperties
<1>1. PICK f \in [0..n -> Seq(Words)] : Gathers(f, c)
  BY GathersExists, Zenon
<1> DEFINE g == [k \in 0..(n + 1) |-> IF k = n + 1 THEN f[n] \o d.packets ELSE f[k]]
<1>2. Gathers(g, t)
  <2>1. ASSUME NEW k \in 0..(n + 1) PROVE g[k] = IF k = 0 THEN <<>> ELSE g[k - 1] \o t[k].packets
    <3>1. k # 0 => k - 1 \in 0..(n + 1) /\ g[k - 1] = f[k - 1]
      BY <1>0
    <3>2. CASE k = n + 1
      <4>1. k - 1 = n /\ k # 0 /\ t[k] = d /\ g[k] = f[n] \o d.packets
        BY <1>0, <3>2, SMTT(30)
      <4> HIDE DEF n, t, g
      <4> QED BY <3>1, <4>1, Zenon
    <3>3. CASE k # n + 1
      <4>1. k \in 0..n /\ g[k] = f[k] /\ (k # 0 => t[k] = c[k])
        BY <1>0, <3>3
      <4>2. f[k] = IF k = 0 THEN <<>> ELSE f[k - 1] \o c[k].packets
        BY <1>1, <4>1, Zenon DEF Gathers
      <4> QED BY <3>1, <4>1, <4>2, Zenon
    <3> QED BY <3>2, <3>3, Zenon
  <2>2. g = [k \in 0..(n + 1) |-> g[k]]
    BY Zenon
  <2> HIDE DEF t, g
  <2> QED BY <1>0, <2>1, <2>2, Zenon DEF Gathers
<1>3. Queued(t) = g[n + 1]
  <2> HIDE DEF g, t
  <2> QED BY <1>0, <1>2, QueuedGathers
<1>4. Queued(c) = f[n] /\ f[n] \in Seq(Words)
  BY <1>0, <1>1, QueuedGathers, SMTT(30)
<1> QED BY <1>0, <1>3, <1>4

\* What is queued is a sequence of packets.
LEMMA QueuedSeq ==
  ASSUME NEW c \in Seq(Command)
  PROVE  Queued(c) \in Seq(Words)
<1>1. [shutdown |-> FALSE, packets |-> <<>>] \in Command
  BY EmptySeq, Zenon DEF Command
<1> QED BY <1>1, QueuedAppend, Zenon

\* An empty channel.
LEMMA QueuedEmpty == Queued(<<>>) = <<>>
<1> DEFINE g == [k \in 0..0 |-> <<>>]
<1>1. Gathers(g, <<>>) /\ Len(<<>>) = 0
  BY DEF Gathers
<1>2. g[0] = <<>>
  OBVIOUS
<1> HIDE DEF g
<1> QED BY <1>1, <1>2, QueuedGathers, Zenon

\* Concatenation can be regrouped; the equation is named, for the provers would apply
\* it again and again.
Regroup(a, b, c) == (a \o b) \o c = a \o (b \o c)

\* Concatenation is associative.
LEMMA Regroups ==
  ASSUME NEW S, NEW a \in Seq(S), NEW b \in Seq(S), NEW c \in Seq(S)
  PROVE  Regroup(a, b, c)
BY ConcatAssociative, SMTT(30) DEF Regroup

\* A command received.
LEMMA QueuedTail ==
  ASSUME NEW c \in Seq(Command), c # <<>>
  PROVE  Queued(c) = Head(c).packets \o Queued(Tail(c)) /\ Head(c) \in Command /\ Tail(c) \in Seq(Command)
<1> DEFINE n == Len(c)
<1> DEFINE t == Tail(c)
<1> DEFINE p == c[1].packets
<1>0. /\ n \in Nat /\ n # 0 /\ t \in Seq(Command) /\ Len(t) = n - 1 /\ Head(c) = c[1] /\ Head(c) \in Command
      /\ \A k \in 1..(n - 1) : t[k] = c[k + 1]
  BY EmptySeq, HeadTailProperties
<1>1. p \in Seq(Words)
  <2>1. 1 \in 1..n
    BY <1>0
  <2> QED BY <2>1, Packets, Zenon
<1>2. \A k \in 1..(n - 1) : t[k].packets \in Seq(Words)
  BY <1>0, Packets, Zenon
<1>3. PICK f \in [0..(n - 1) -> Seq(Words)] : Gathers(f, t)
  BY <1>0, GathersExists, Zenon
<1> DEFINE g == [k \in 0..n |-> IF k = 0 THEN <<>> ELSE p \o f[k - 1]]
<1> HIDE DEF t
<1>4. ASSUME NEW k \in 0..n PROVE g[k] = IF k = 0 THEN <<>> ELSE g[k - 1] \o c[k].packets
  <2>1. CASE k = 0
    BY <2>1, Zenon
  <2>2. CASE k = 1
    <3>1. f[0] = <<>>
      BY <1>0, <1>3 DEF Gathers
    <3>2. g[1] = p \o f[0] /\ g[0] = <<>>
      <4>1. 0 \in 0..n /\ 1 \in 0..n /\ 1 # 0 /\ 1 - 1 = 0
        BY <1>0
      <4> HIDE DEF n, p
      <4> QED BY <4>1, Zenon
    <3>3. p \o <<>> = p /\ <<>> \o p = p
      BY <1>1, ConcatEmptySeq, Zenon
    <3>4. k - 1 = 0 /\ k # 0
      BY <2>2
    <3> HIDE DEF g
    <3> QED BY <2>2, <3>1, <3>2, <3>3, <3>4, Zenon
  <2>3. CASE k > 1
    <3>1. /\ k - 1 \in 1..(n - 1) /\ k - 1 \in 0..(n - 1) /\ k - 2 \in 0..(n - 1) /\ (k - 1) - 1 = k - 2
          /\ k - 1 # 0 /\ (k - 1) + 1 = k /\ k # 0 /\ k - 1 \in 0..n
      BY <1>0, <2>3
    <3>2. f[k - 1] = f[k - 2] \o t[k - 1].packets
      BY <1>0, <1>3, <3>1, Zenon DEF Gathers
    <3>3. t[k - 1] = c[k]
      BY <1>0, <3>1, Zenon
    <3>4. f[k - 2] \in Seq(Words) /\ t[k - 1].packets \in Seq(Words)
      BY <1>2, <1>3, <3>1, Zenon
    <3>5. g[k] = p \o f[k - 1] /\ g[k - 1] = p \o f[k - 2]
      BY <3>1, Zenon
    <3>6. (p \o f[k - 2]) \o t[k - 1].packets = p \o (f[k - 2] \o t[k - 1].packets)
      <4>1. Regroup(p, f[k - 2], t[k - 1].packets)
        BY <1>1, <3>4, Regroups, Zenon
      <4> QED BY <4>1, Zenon DEF Regroup
    <3> HIDE DEF n, g, p
    <3>7. g[k] = g[k - 1] \o c[k].packets
      BY <3>2, <3>3, <3>5, <3>6, Zenon
    <3> QED BY <3>1, <3>7, Zenon
  <2> QED BY <1>0, <2>1, <2>2, <2>3
<1>5. Gathers(g, c)
  BY <1>4, Zenon DEF Gathers
<1>6. Queued(c) = g[n]
  <2> HIDE DEF g
  <2> QED BY <1>0, <1>5, QueuedGathers, Zenon
<1>7. Queued(t) = f[n - 1]
  <2>1. n - 1 \in Nat
    BY <1>0
  <2> HIDE DEF n, g
  <2> QED BY <1>0, <1>3, <2>1, QueuedGathers, Zenon
<1>8. g[n] = p \o f[n - 1]
  <2>1. n \in 0..n /\ n # 0
    BY <1>0
  <2> HIDE DEF n, p
  <2> QED BY <2>1, Zenon
<1> HIDE DEF n, g
<1> QED BY <1>0, <1>6, <1>7, <1>8, Zenon DEF t

\* Packets on the socket, in the batch, in the channel and in the encode buffer, in line.
Line(a, b, c, d) == a \o b \o c \o d

\* The ways packets move on: from the channel to the batch, from the batch to the socket,
\* from the channel to the socket, from the encode buffer to the channel, and into the
\* encode buffer.
LEMMA ChannelToBatch ==
  ASSUME NEW S, NEW a \in Seq(S), NEW b \in Seq(S), NEW c \in Seq(S), NEW d \in Seq(S), NEW p \in Seq(S)
  PROVE  Line(a, b, p \o c, d) = Line(a, b \o p, c, d)
<1>1. a \o b \in Seq(S)
  BY ConcatProperties, Zenon
<1>2. Regroup(a \o b, p, c) /\ Regroup(a, b, p)
  BY <1>1, Regroups, Zenon
<1> QED BY <1>2, Zenon DEF Line, Regroup

\* Writing out the batch keeps the line.
LEMMA BatchToSocket ==
  ASSUME NEW S, NEW a \in Seq(S), NEW b \in Seq(S), NEW c \in Seq(S), NEW d \in Seq(S)
  PROVE  Line(a, b, c, d) = Line(a \o b, <<>>, c, d)
<1>1. a \o b \in Seq(S)
  BY ConcatProperties, Zenon
<1>2. (a \o b) \o <<>> = a \o b
  BY <1>1, ConcatEmptySeq, Zenon
<1> QED BY <1>2, Zenon DEF Line

\* So does writing out the batch and what the channel holds.
LEMMA ChannelToSocket ==
  ASSUME NEW S, NEW a \in Seq(S), NEW b \in Seq(S), NEW c \in Seq(S), NEW d \in Seq(S)
  PROVE  Line(a, b, c, d) = Line(a \o (b \o c), <<>>, <<>>, d)
<1>1. b \o c \in Seq(S) /\ a \o (b \o c) \in Seq(S)
  BY ConcatProperties, Zenon
<1>2. (a \o (b \o c)) \o <<>> = a \o (b \o c)
  BY <1>1, ConcatEmptySeq, Zenon
<1>3. Regroup(a, b, c)
  BY Regroups, Zenon
<1> QED BY <1>2, <1>3, Zenon DEF Line, Regroup

\* Handing the buffered packets to the channel keeps the line.
LEMMA BufferToChannel ==
  ASSUME NEW S, NEW a \in Seq(S), NEW b \in Seq(S), NEW c \in Seq(S), NEW d \in Seq(S)
  PROVE  Line(a, b, c \o d, <<>>) = Line(a, b, c, d)
<1>1. a \o b \in Seq(S) /\ c \o d \in Seq(S)
  BY ConcatProperties, Zenon
<1>2. a \o b \o (c \o d) \in Seq(S)
  BY <1>1, ConcatProperties, Zenon
<1>3. a \o b \o (c \o d) \o <<>> = a \o b \o (c \o d)
  BY <1>2, ConcatEmptySeq, Zenon
<1>4. Regroup(a \o b, c, d)
  BY <1>1, Regroups, Zenon
<1> QED BY <1>3, <1>4, Zenon DEF Line, Regroup

Taken(a, b, c, d, p) == Line(a, b, c, d \o p) = Line(a, b, c, d) \o p

\* A packet that is buffered joins the line at its end.
LEMMA IntoBuffer ==
  ASSUME NEW S, NEW a \in Seq(S), NEW b \in Seq(S), NEW c \in Seq(S), NEW d \in Seq(S), NEW p \in Seq(S)
  PROVE  Taken(a, b, c, d, p)
<1>1. a \o b \in Seq(S)
  BY ConcatProperties, Zenon
<1>2. a \o b \o c \in Seq(S)
  BY <1>1, ConcatProperties, Zenon
<1>3. Regroup(a \o b \o c, d, p)
  BY <1>2, Regroups, Zenon
<1> QED BY <1>3, Zenon DEF Taken, Line, Regroup

-------------------------------------------------------------------------------
\* The packets on their way to the socket.

CMessage == [kind : Words, what : Words, next : Words]

Shapes ==
  /\ cbox \in Seq(CMessage) /\ channel \in Seq(Command)
  /\ buffer \in Seq(Words) /\ batch \in Seq(Words) /\ socket \in Seq(Words) /\ accepted \in Seq(Words)
  /\ lost \in BOOLEAN /\ sender \in BOOLEAN

\* Without a sender nothing is left in the encode buffer; the sender has been given up
\* when its shutdown waits for room; a sender task that has ended holds nothing.
Emptied ==
  /\ closing = "asking" => ~sender
  /\ ~sender => buffer = <<>>
  /\ net # "running" => batch = <<>> /\ channel = <<>>

OutInv == Shapes /\ Emptied /\ OutputInOrder

Still == UNCHANGED <<channel, batch, net, socket, accepted, lost, buffer, sender, closing>>

\* A message for the connection actor arrives in its mailbox, or is dropped.
LEMMA Told ==
  ASSUME Shapes, NEW msgs \in Seq(CMessage), ToConnection(msgs)
  PROVE  cbox' \in Seq(CMessage)
BY ConcatProperties, EmptySeq, Zenon DEF Shapes, ToConnection

\* The messages the actors send.
LEMMA Messages ==
  /\ <<>> \in Seq(CMessage) /\ <<NetworkEvent>> \in Seq(CMessage)
  /\ \A x \in Words : <<Write(x)>> \in Seq(CMessage) /\ <<Disconnect(x)>> \in Seq(CMessage)
  /\ \A x \in Words, y \in Words, z \in Words : <<Asking(x, y, z)>> \in Seq(CMessage)
<1>1. ASSUME NEW m \in CMessage PROVE <<m>> \in Seq(CMessage)
  OBVIOUS
<1>2. NetworkEvent \in CMessage
  BY Zenon DEF NetworkEvent, CMessage, Words
<1>3. \A x \in Words : Write(x) \in CMessage /\ Disconnect(x) \in CMessage
  <2>1. "write" \in Words /\ "disconnect" \in Words /\ "" \in Words
    BY Zenon DEF Words
  <2> QED BY <2>1, Zenon DEF Write, Disconnect, CMessage
<1>4. \A x \in Words, y \in Words, z \in Words : Asking(x, y, z) \in CMessage
  BY Zenon DEF Asking, CMessage
<1> QED BY <1>1, <1>2, <1>3, <1>4, EmptySeq, Zenon

\* The client, the reader and the timers leave the packets accepted alone.
LEMMA ReaderOutput ==
  ASSUME Shapes, ClientLeaves \/ ReaderStep \/ started \/ TimerHandle \/ (\E t \in timers : TimerExpires(t)) \/ Forced
  PROVE  Still /\ cbox' \in Seq(CMessage)
<1>1. CASE ClientLeaves \/ started \/ TimerHandle \/ (\E t \in timers : TimerExpires(t)) \/ Forced
  BY <1>1, Zenon DEF Shapes, ClientLeaves, started, TimerHandle, TimerExpires, Forced, Still, connection, network
<1>2. ASSUME Stays PROVE Still /\ cbox' \in Seq(CMessage)
  BY <1>2, Zenon DEF Shapes, Stays, Still, connection, network
<1>3. ASSUME NEW m, NEW r, ReaderSends(m, r), <<m>> \in Seq(CMessage) PROVE Still /\ cbox' \in Seq(CMessage)
  BY <1>3, Told, ZenonT(30) DEF ReaderSends, Still, network
<1>4. CASE ReadFirst
  BY <1>2, <1>3, <1>4, Messages DEF ReadFirst, Words
<1>5. CASE ReadPacket
  <2>1. ASSUME NEW p \in Goodbyes PROVE <<Asking("normally", "", p)>> \in Seq(CMessage)
    <3>1. p \in Words /\ "normally" \in Words /\ "" \in Words
      BY Zenon DEF Goodbyes, Words
    <3> QED BY <3>1, Messages, Zenon
  <2>2. /\ "write" \in Words /\ "disconnect" \in Words /\ "abort" \in Words /\ "broken" \in Words
    BY Zenon DEF Words
  <2>3. /\ <<Asking("write", "disconnect", "abort")>> \in Seq(CMessage)
        /\ <<Asking("write", "disconnect", "broken")>> \in Seq(CMessage)
        /\ <<NetworkEvent>> \in Seq(CMessage)
    BY <2>2, Messages, Zenon
  <2> QED BY <1>2, <1>3, <1>5, <2>1, <2>3, Zenon DEF ReadPacket
<1>6. CASE ReadForward \/ ConnectAccepted
  BY <1>2, <1>6, Zenon DEF ReadForward, ConnectAccepted
<1>7. CASE ReadClosed \/ ConnectRefused \/ SessionCreated \/ CreateFailed \/ ReaderLinks \/ ReaderAborts \/ ReaderBroken
  <2>1. /\ "write" \in Words /\ "connack_error" \in Words /\ "abort" \in Words /\ "connack" \in Words
        /\ "link" \in Words /\ "" \in Words /\ "loop" \in Words /\ "internal" \in Words
    BY Zenon DEF Words
  <2>2. /\ <<Asking("write", "connack_error", "abort")>> \in Seq(CMessage)
        /\ <<Asking("write", "connack", "link")>> \in Seq(CMessage)
        /\ <<Asking("link", "", "loop")>> \in Seq(CMessage)
        /\ <<Disconnect("internal")>> \in Seq(CMessage)
        /\ <<NetworkEvent>> \in Seq(CMessage)
    BY <2>1, Messages, Zenon
  <2> QED BY <1>3, <1>7, <2>2, Zenon DEF ReadClosed, ConnectRefused, SessionCreated, CreateFailed, ReaderLinks,
                                  ReaderAborts, ReaderBroken
<1> QED BY <1>1, <1>4, <1>5, <1>6, <1>7, Zenon DEF ReaderStep

\* So does the session actor.
LEMMA SessionOutput ==
  ASSUME Shapes, SessionStep \/ DeleteDone
  PROVE  Still /\ cbox' \in Seq(CMessage)
<1>1. ASSUME NEW msgs \in Seq(CMessage), force_stop(msgs) PROVE cbox' \in Seq(CMessage)
  <2>1. msgs \o <<Disconnect("normal")>> \in Seq(CMessage)
    BY Messages, ConcatProperties, ZenonT(30) DEF Words
  <2> QED BY <1>1, <2>1, Told, Zenon DEF force_stop
<1>2. ASSUME NEW msgs \in Seq(CMessage), Deactivate(msgs) PROVE cbox' \in Seq(CMessage)
  BY <1>2, Told, Zenon DEF Deactivate
<1>3. ASSUME NEW msgs \in Seq(CMessage), NEW z, finish_connection_disconnect(msgs, z)
      PROVE  cbox' \in Seq(CMessage)
  BY <1>1, <1>2, <1>3, Told, Zenon DEF finish_connection_disconnect
<1>4. Still
  <2>1. SessionStays
    BY Zenon DEF SessionStep, DeleteDone, HandleRecover, HandlePingreq, handle_disconnect, HandleKeepAliveExpired,
           HandleUnexpected, HandleClosed, HandleInflightRetry, HandleForceDisconnect, HandleForceStop
  <2> QED BY <2>1, Zenon DEF SessionStays, Still, network
<1>5. CASE HandleRecover \/ HandleInflightRetry \/ HandlePingreq
  <2>1. (IF setup.recovers THEN <<Write("resent")>> ELSE <<>>) \in Seq(CMessage) /\ <<Write("pingresp")>> \in Seq(CMessage)
    BY Messages DEF Words
  <2> QED BY <1>4, <1>5, <2>1, Told, Zenon DEF HandleRecover, HandleInflightRetry, HandlePingreq
<1>6. CASE handle_disconnect
  <2>1. ASSUME NEW p PROVE <<IF p = "badexpiry" THEN Write("disconnect") ELSE Disconnect("normal")>> \in Seq(CMessage)
    BY Messages, ZenonT(30) DEF Words
  <2> QED BY <1>3, <1>4, <1>6, <2>1, Zenon DEF handle_disconnect
<1>7. CASE HandleKeepAliveExpired \/ HandleUnexpected \/ HandleClosed
  <2>1. <<Disconnect("keepalive")>> \in Seq(CMessage) /\ <<>> \in Seq(CMessage)
    BY Messages, ZenonT(30) DEF Words
  <2> QED BY <1>3, <1>4, <1>7, <2>1, Zenon DEF HandleKeepAliveExpired, HandleUnexpected, HandleClosed
<1>8. CASE HandleForceDisconnect \/ HandleForceStop \/ DeleteDone
  <2>1. <<Disconnect("normal")>> \in Seq(CMessage) /\ <<>> \in Seq(CMessage) /\ cbox \in Seq(CMessage)
    BY Messages, ZenonT(30) DEF Shapes, Words
  <2> QED BY <1>1, <1>2, <1>4, <1>8, <2>1, Zenon DEF HandleForceDisconnect, HandleForceStop, DeleteDone
<1> QED BY <1>5, <1>6, <1>7, <1>8, Zenon DEF SessionStep

\* flush_batch hands the encode buffer `buf` to the channel, or drops it and says so.
LEMMA FlushOutput ==
  ASSUME Shapes, Emptied, NEW buf \in Seq(Words), NEW taken, flush_batch(buf),
         ~lost => taken = Line(socket, batch, Queued(channel), buf)
  PROVE  /\ buffer' \in Seq(Words) /\ channel' \in Seq(Command) /\ lost' \in BOOLEAN
         /\ sender => buffer' = <<>>
         /\ ~sender => buffer' = buf
         /\ net # "running" => channel' = <<>>
         /\ ~lost' => taken = Line(socket, batch, Queued(channel'), buffer')
<1>1. CASE ~sender \/ buf = <<>>
  BY <1>1, Zenon DEF flush_batch, Shapes, Emptied
<1>2. CASE ~(~sender \/ buf = <<>>) /\ ~Room
  BY <1>2, EmptySeq, Zenon DEF flush_batch, Shapes, Emptied
<1>3. CASE ~(~sender \/ buf = <<>>) /\ Room
  <2>1. /\ buffer' = <<>> /\ channel' = Append(channel, Data(buf)) /\ lost' = lost /\ net = "running" /\ sender
    BY <1>3, Zenon DEF flush_batch, Room, Shapes
  <2>2. Data(buf) \in Command /\ Data(buf).packets = buf
    BY Zenon DEF Data, Command
  <2>3. channel \in Seq(Command) /\ batch \in Seq(Words) /\ socket \in Seq(Words) /\ lost \in BOOLEAN
    BY Zenon DEF Shapes
  <2>4. channel' \in Seq(Command)
    BY <2>1, <2>2, <2>3, AppendProperties, Zenon
  <2>5. Queued(channel') = Queued(channel) \o buf /\ Queued(channel) \in Seq(Words)
    BY <2>1, <2>2, <2>3, QueuedAppend, Zenon
  <2>6. Line(socket, batch, Queued(channel) \o buf, <<>>) = Line(socket, batch, Queued(channel), buf)
    BY <2>3, <2>5, BufferToChannel
  <2>7. Line(socket, batch, Queued(channel'), buffer') = Line(socket, batch, Queued(channel), buf)
    BY <2>1, <2>5, <2>6, Zenon
  <2> QED BY <2>1, <2>3, <2>4, <2>7, EmptySeq, Zenon
<1> QED BY <1>1, <1>2, <1>3, Zenon

\* The end of the connection actor.
LEMMA StopOutput ==
  ASSUME OutInv, NEW b, NEW m, Stop(b, m)
  PROVE  OutInv'
<1>1. /\ sender' = FALSE /\ cbox' = <<>> /\ socket' = socket /\ accepted' = accepted
      /\ cbox' \in Seq(CMessage) /\ sender' \in BOOLEAN /\ socket' \in Seq(Words) /\ accepted' \in Seq(Words)
  BY EmptySeq, Zenon DEF Stop, OutInv, Shapes
<1>2. CASE closing = "asking"
  <2>1. /\ net' = "exited" /\ batch' = <<>> /\ channel' = <<>> /\ buffer' = <<>>
        /\ lost' = (lost \/ (net = "running" /\ batch \o Queued(channel) # <<>>))
    BY <1>2, Zenon DEF Stop
  <2>2. Shapes'
    BY <1>1, <2>1, EmptySeq, Zenon DEF Shapes
  <2>3. Emptied'
    BY <1>1, <2>1, Zenon DEF Emptied
  <2>4. OutputInOrder'
    <3> SUFFICES ASSUME ~lost' PROVE accepted' = socket' \o batch' \o Queued(channel') \o buffer'
      BY Zenon DEF OutputInOrder
    <3>1. ~lost /\ ~(net = "running" /\ batch \o Queued(channel) # <<>>)
      BY <2>1, Zenon
    <3>2. /\ buffer = <<>> /\ accepted = socket \o batch \o Queued(channel) \o buffer
          /\ batch \in Seq(Words) /\ channel \in Seq(Command)
      BY <1>2, <3>1, Zenon DEF OutInv, Emptied, OutputInOrder, Shapes
    <3>3. Queued(channel) \in Seq(Words)
      BY <3>2, QueuedSeq, Zenon
    <3>4. batch = <<>> /\ Queued(channel) = <<>>
      <4>1. CASE net = "running"
        BY <3>1, <3>2, <3>3, <4>1, ConcatEqualIffEmpty
      <4>2. CASE net # "running"
        BY <4>2, QueuedEmpty, Zenon DEF OutInv, Emptied
      <4> QED BY <4>1, <4>2, Zenon
    <3> QED BY <1>1, <2>1, <3>2, <3>4, QueuedEmpty, Zenon
  <2> QED BY <2>2, <2>3, <2>4, Zenon DEF OutInv
<1>3. CASE closing # "asking"
  <2>1. flush_batch(buffer) /\ net' = net /\ batch' = batch
    BY <1>3, Zenon DEF Stop
  <2>2. ~lost => accepted = Line(socket, batch, Queued(channel), buffer)
    BY Zenon DEF OutInv, OutputInOrder, Line
  <2>3. buffer \in Seq(Words)
    BY Zenon DEF OutInv, Shapes
  <2>4. /\ buffer' \in Seq(Words) /\ channel' \in Seq(Command) /\ lost' \in BOOLEAN
        /\ sender => buffer' = <<>>
        /\ ~sender => buffer' = buffer
        /\ net # "running" => channel' = <<>>
        /\ ~lost' => accepted = Line(socket, batch, Queued(channel'), buffer')
    BY <2>1, <2>2, <2>3, FlushOutput, Zenon DEF OutInv
  <2>5. buffer' = <<>>
    BY <2>4, Zenon DEF OutInv, Shapes, Emptied
  <2>6. Shapes'
    BY <1>1, <2>1, <2>4, Zenon DEF Shapes, OutInv
  <2>7. Emptied'
    BY <1>1, <2>1, <2>4, <2>5, Zenon DEF Emptied, OutInv
  <2>8. OutputInOrder'
    BY <1>1, <2>1, <2>4, Zenon DEF OutputInOrder, Line
  <2> QED BY <2>6, <2>7, <2>8, Zenon DEF OutInv
<1> QED BY <1>2, <1>3, Zenon

\* The network sender gathers, writes and ends.
LEMMA SenderOutput ==
  ASSUME OutInv, NetworkStep
  PROVE  OutInv'
<1> DEFINE q == Queued(channel)
<1>1. /\ cbox \in Seq(CMessage) /\ channel \in Seq(Command) /\ lost \in BOOLEAN /\ sender \in BOOLEAN
      /\ buffer \in Seq(Words) /\ batch \in Seq(Words) /\ socket \in Seq(Words) /\ accepted \in Seq(Words)
  BY Zenon DEF OutInv, Shapes
<1>2. q \in Seq(Words)
  BY <1>1, QueuedSeq, Zenon
<1>3. ~lost => accepted = Line(socket, batch, q, buffer)
  BY Zenon DEF OutInv, OutputInOrder, Line
<1> HIDE DEF q
<1>4. CASE NetReceive
  <2>1. /\ net = "running" /\ channel # <<>> /\ batch' = batch \o Head(channel).packets /\ channel' = Tail(channel)
        /\ UNCHANGED <<net, socket, accepted, lost, cbox, buffer, sender, closing>>
    BY <1>4, Zenon DEF NetReceive, connection
  <2>2. /\ q = Head(channel).packets \o Queued(channel') /\ Head(channel) \in Command /\ channel' \in Seq(Command)
    BY <1>1, <2>1, QueuedTail, Zenon DEF q
  <2>3. Head(channel).packets \in Seq(Words) /\ Queued(channel') \in Seq(Words)
    BY <2>2, QueuedSeq, Zenon DEF Command
  <2>4. batch' \in Seq(Words)
    BY <1>1, <2>1, <2>3, ConcatProperties, Zenon
  <2>5. Line(socket, batch, q, buffer) = Line(socket, batch', Queued(channel'), buffer)
    BY <1>1, <2>1, <2>2, <2>3, ChannelToBatch
  <2>6. Shapes'
    BY <1>1, <2>1, <2>2, <2>4, Zenon DEF Shapes
  <2>7. Emptied'
    BY <2>1, Zenon DEF OutInv, Emptied
  <2>8. OutputInOrder'
    BY <1>3, <2>1, <2>5, Zenon DEF OutputInOrder, Line
  <2> QED BY <2>6, <2>7, <2>8, Zenon DEF OutInv
<1>5. CASE NetFlush
  <2>1. /\ net = "running" /\ socket' = socket \o batch /\ batch' = <<>>
        /\ UNCHANGED <<channel, net, accepted, lost, cbox, buffer, sender, closing>>
    BY <1>5, Zenon DEF NetFlush, connection
  <2>2. socket' \in Seq(Words) /\ batch' \in Seq(Words)
    BY <1>1, <2>1, ConcatProperties, EmptySeq, Zenon
  <2>3. Line(socket, batch, q, buffer) = Line(socket', batch', q, buffer)
    BY <1>1, <1>2, <2>1, BatchToSocket
  <2>4. Shapes'
    BY <1>1, <2>1, <2>2, Zenon DEF Shapes
  <2>5. Emptied'
    BY <2>1, Zenon DEF OutInv, Emptied
  <2>6. OutputInOrder'
    BY <1>3, <2>1, <2>3, Zenon DEF OutputInOrder, Line, q
  <2> QED BY <2>4, <2>5, <2>6, Zenon DEF OutInv
<1>6. CASE NetWriteError
  <2>1. /\ net' = "exited" /\ batch' = <<>> /\ channel' = <<>> /\ lost' = TRUE
        /\ ToConnection(<<NetworkEvent>>) /\ UNCHANGED <<socket, accepted, buffer, sender, closing>>
    BY <1>6, Zenon DEF NetWriteError
  <2>2. cbox' \in Seq(CMessage)
    BY <2>1, Messages, Told, Zenon DEF OutInv
  <2>3. Shapes'
    BY <1>1, <2>1, <2>2, EmptySeq, Zenon DEF Shapes
  <2>4. Emptied'
    BY <2>1, Zenon DEF OutInv, Emptied
  <2> QED BY <2>1, <2>3, <2>4, Zenon DEF OutInv, OutputInOrder
<1>7. CASE NetShutdown
  <2>1. /\ net' = "exited" /\ batch' = <<>> /\ channel' = <<>>
        /\ \/ socket' = socket \o (batch \o q) /\ lost' = lost
           \/ lost' = (lost \/ batch \o q # <<>>) /\ socket' = socket
        /\ UNCHANGED <<accepted, cbox, buffer, sender, closing>>
    BY <1>7, Zenon DEF NetShutdown, connection, q
  <2>2. batch \o q \in Seq(Words)
    BY <1>1, <1>2, ConcatProperties, Zenon
  <2>3. socket' \in Seq(Words) /\ lost' \in BOOLEAN
    BY <1>1, <2>1, <2>2, ConcatProperties, Zenon
  <2>4. Shapes'
    BY <1>1, <2>1, <2>3, EmptySeq, Zenon DEF Shapes
  <2>5. Emptied'
    BY <2>1, Zenon DEF OutInv, Emptied
  <2>6. ASSUME ~lost' PROVE ~lost /\ socket' = socket \o (batch \o q)
    <3>1. CASE socket' = socket \o (batch \o q) /\ lost' = lost
      BY <2>6, <3>1, Zenon
    <3>2. CASE lost' = (lost \/ batch \o q # <<>>) /\ socket' = socket
      <4>1. ~lost /\ batch \o q = <<>> /\ socket \o <<>> = socket
        BY <1>1, <2>6, <3>2, ConcatEmptySeq, Zenon
      <4> QED BY <3>2, <4>1, Zenon
    <3> QED BY <2>1, <3>1, <3>2, Zenon
  <2>7. Line(socket, batch, q, buffer) = Line(socket \o (batch \o q), <<>>, <<>>, buffer)
    BY <1>1, <1>2, ChannelToSocket
  <2>8. OutputInOrder'
    BY <1>3, <2>1, <2>6, <2>7, QueuedEmpty, Zenon DEF OutputInOrder, Line
  <2> QED BY <2>4, <2>5, <2>8, Zenon DEF OutInv
<1>8. CASE ShutdownAsked
  <2> DEFINE d == [shutdown |-> TRUE, packets |-> <<>>]
  <2>1. /\ channel' = IF net = "running" THEN Append(channel, d) ELSE channel
        /\ closing' # "asking"
        /\ UNCHANGED <<batch, net, socket, accepted, lost, cbox, buffer, sender>>
    BY <1>8, Zenon DEF ShutdownAsked
  <2>2. d \in Command /\ d.packets = <<>>
    BY EmptySeq, Zenon DEF Command
  <2> HIDE DEF d
  <2>3. Append(channel, d) \in Seq(Command) /\ Queued(Append(channel, d)) = q
    <3>1. Append(channel, d) \in Seq(Command)
      BY <1>1, <2>2, AppendProperties, Zenon
    <3>2. Queued(Append(channel, d)) = q \o <<>>
      BY <1>1, <2>2, QueuedAppend, Zenon DEF q
    <3>3. q \o <<>> = q
      BY <1>2, ConcatEmptySeq, Zenon
    <3> QED BY <3>1, <3>2, <3>3, Zenon
  <2>4. channel' \in Seq(Command) /\ Queued(channel') = q
    BY <1>1, <2>1, <2>3, Zenon DEF q
  <2>5. Shapes'
    BY <1>1, <2>1, <2>4, Zenon DEF Shapes
  <2>6. Emptied'
    BY <2>1, Zenon DEF OutInv, Emptied
  <2>7. OutputInOrder'
    BY <1>3, <2>1, <2>4, Zenon DEF OutputInOrder, Line
  <2> QED BY <2>5, <2>6, <2>7, Zenon DEF OutInv
<1> QED BY <1>4, <1>5, <1>6, <1>7, <1>8, Zenon DEF NetworkStep

\* A step that leaves the packets alone keeps what is known of them.
LEMMA StillOutput ==
  ASSUME OutInv, Still, cbox' \in Seq(CMessage)
  PROVE  OutInv'
<1>1. Shapes'
  BY Zenon DEF OutInv, Shapes, Still
<1>2. Emptied'
  BY Zenon DEF OutInv, Emptied, Still
<1>3. OutputInOrder'
  BY Zenon DEF OutInv, OutputInOrder, Still
<1> QED BY <1>1, <1>2, <1>3, Zenon DEF OutInv

\* The encode buffer is flushed: what holds of the packets taken, with `buf` in the
\* buffer, holds afterwards.
LEMMA FlushKeeps ==
  ASSUME OutInv, NEW buf \in Seq(Words), flush_batch(buf), accepted' \in Seq(Words), cbox' \in Seq(CMessage),
         UNCHANGED <<socket, batch, net>>, sender, sender' \in BOOLEAN,
         closing' = "asking" => ~sender',
         ~lost => accepted' = Line(socket, batch, Queued(channel), buf)
  PROVE  OutInv'
<1>1. /\ buffer' = <<>> /\ channel' \in Seq(Command) /\ lost' \in BOOLEAN
      /\ net # "running" => channel' = <<>>
      /\ ~lost' => accepted' = Line(socket, batch, Queued(channel'), buffer')
  BY FlushOutput, Zenon DEF OutInv
<1>2. Shapes'
  BY <1>1, EmptySeq, Zenon DEF OutInv, Shapes
<1>3. Emptied'
  BY <1>1, Zenon DEF OutInv, Emptied
<1>4. OutputInOrder'
  BY <1>1, Zenon DEF OutputInOrder, Line
<1> QED BY <1>2, <1>3, <1>4, Zenon DEF OutInv

\* The connection actor takes packets, flushes them and ends.
LEMMA ConnectionOutput ==
  ASSUME OutInv, ConnectionStep \/ FlushStep \/ ShutdownDone
  PROVE  OutInv'
<1>1. /\ cbox \in Seq(CMessage) /\ buffer \in Seq(Words) /\ accepted \in Seq(Words) /\ sender \in BOOLEAN
      /\ channel \in Seq(Command) /\ batch \in Seq(Words) /\ socket \in Seq(Words)
  BY Zenon DEF OutInv, Shapes
<1>2. ~lost => accepted = Line(socket, batch, Queued(channel), buffer)
  BY Zenon DEF OutInv, OutputInOrder, Line
<1>3. cbox # <<>> => Head(cbox) \in CMessage /\ Tail(cbox) \in Seq(CMessage)
  BY <1>1, HeadTailProperties, Zenon
<1>4. CASE HandleLink \/ HandleNormally
  <2>1. Still /\ cbox # <<>> /\ cbox' = Tail(cbox)
    BY <1>4, Zenon DEF HandleLink, HandleNormally, Handling, Still, network
  <2> QED BY <1>3, <2>1, StillOutput, Zenon
<1>5. CASE HandleEvent \/ ShutdownDone
  BY <1>5, StopOutput, Zenon DEF HandleEvent, ShutdownDone
<1>6. CASE FlushStep
  <2>1. /\ sender /\ flush_batch(buffer)
        /\ UNCHANGED <<cbox, sender, closing, batch, net, socket, accepted>>
    BY <1>6, Zenon DEF FlushStep, FlushTick
  <2>2. closing' = "asking" => ~sender'
    BY <2>1, Zenon DEF OutInv, Emptied
  <2> QED BY <1>1, <1>2, <2>1, <2>2, FlushKeeps, Zenon
<1>7. CASE HandleDisconnect
  <2>1. CASE sender
    <3>1. /\ flush_batch(buffer) /\ sender' = FALSE /\ cbox # <<>> /\ cbox' = Tail(cbox)
          /\ UNCHANGED <<batch, net, socket, accepted>>
      BY <1>7, <2>1, Zenon DEF HandleDisconnect, Handling
    <3> QED BY <1>1, <1>2, <1>3, <2>1, <3>1, FlushKeeps, Zenon
  <2>2. CASE ~sender
    BY <1>7, <2>2, StopOutput, Zenon DEF HandleDisconnect
  <2> QED BY <2>1, <2>2, Zenon
<1>8. CASE HandleWrite
  <2>1. cbox # <<>> /\ cbox' = Tail(cbox) /\ UNCHANGED <<sender, closing, batch, net, socket>>
    BY <1>8, Zenon DEF HandleWrite, Handling
  <2>2. CASE ~sender
    <3>1. UNCHANGED <<buffer, channel, lost, accepted>>
      BY <1>8, <2>2, Zenon DEF HandleWrite
    <3> QED BY <1>3, <2>1, <3>1, StillOutput, Zenon DEF Still
  <2>3. CASE sender
    <3> DEFINE x == Head(cbox).what
    <3> DEFINE buf == Append(buffer, x)
    <3>1. x \in Words
      BY <1>3, <2>1, Zenon DEF CMessage
    <3>2. /\ accepted' = Append(accepted, x)
          /\ IF Len(buf) >= BatchSize THEN flush_batch(buf) ELSE buffer' = buf /\ UNCHANGED <<channel, lost>>
      BY <1>8, <2>3, Zenon DEF HandleWrite
    <3> HIDE DEF x
    <3>3. buf \in Seq(Words) /\ Append(accepted, x) \in Seq(Words)
      BY <1>1, <3>1, AppendProperties, Zenon
    <3>4. Queued(channel) \in Seq(Words)
      BY <1>1, QueuedSeq, Zenon
    <3>5. Line(socket, batch, Queued(channel), buf) = Line(socket, batch, Queued(channel), buffer) \o <<x>>
      <4> DEFINE p == <<x>>
      <4> DEFINE q == Queued(channel)
      <4>1. p \in Seq(Words) /\ q \in Seq(Words) /\ buf = buffer \o p
        BY <1>1, <3>1, <3>4, AppendIsConcat
      <4> HIDE DEF p, q, buf
      <4>2. Taken(socket, batch, q, buffer, p)
        BY <1>1, <4>1, IntoBuffer, Zenon
      <4> QED BY <4>1, <4>2, Zenon DEF Taken, p, q
    <3>6. ~lost => accepted' = Line(socket, batch, Queued(channel), buf)
      <4>1. accepted' = accepted \o <<x>>
        BY <1>1, <3>1, <3>2, AppendIsConcat, Zenon
      <4> HIDE DEF buf
      <4> QED BY <1>2, <3>5, <4>1, Zenon
    <3>7. closing' = "asking" => ~sender'
      BY <2>1, Zenon DEF OutInv, Emptied
    <3>8. cbox' \in Seq(CMessage)
      BY <1>3, <2>1, Zenon
    <3> HIDE DEF buf
    <3>9. CASE Len(buf) >= BatchSize
      BY <1>1, <2>1, <2>3, <3>2, <3>3, <3>6, <3>7, <3>8, <3>9, FlushKeeps, Zenon
    <3>10. CASE ~(Len(buf) >= BatchSize)
      <4>1. buffer' = buf /\ channel' = channel /\ lost' = lost
        BY <3>2, <3>10, Zenon
      <4>2. Shapes'
        BY <2>1, <3>2, <3>3, <3>8, <4>1, Zenon DEF OutInv, Shapes
      <4>3. Emptied'
        BY <2>1, <2>3, <4>1, Zenon DEF OutInv, Emptied
      <4>4. OutputInOrder'
        BY <2>1, <3>6, <4>1, Zenon DEF OutputInOrder, Line
      <4> QED BY <4>2, <4>3, <4>4, Zenon DEF OutInv
    <3> QED BY <3>9, <3>10, Zenon
  <2> QED BY <2>2, <2>3, Zenon
<1> QED BY <1>4, <1>5, <1>6, <1>7, <1>8, Zenon DEF ConnectionStep

\* The packets stay in line.
LEMMA OutputInductive == Spec => []OutInv
<1>1. Init => OutInv
  <2> SUFFICES ASSUME Init PROVE OutInv
    BY Zenon
  <2>1. Shapes
    BY EmptySeq, Zenon DEF Init, Shapes
  <2>2. Emptied
    BY Zenon DEF Init, Emptied
  <2>3. OutputInOrder
    BY QueuedEmpty DEF Init, OutputInOrder
  <2> QED BY <2>1, <2>2, <2>3, Zenon DEF OutInv
<1>2. ASSUME OutInv, [Next]_vars PROVE OutInv'
  <2>1. CASE ClientLeaves \/ ReaderStep \/ started \/ TimerHandle \/ (\E t \in timers : TimerExpires(t)) \/ Forced
    BY <1>2, <2>1, ReaderOutput, StillOutput, Zenon DEF OutInv
  <2>2. CASE SessionStep \/ DeleteDone
    BY <1>2, <2>2, SessionOutput, StillOutput, Zenon DEF OutInv
  <2>3. CASE NetworkStep
    BY <1>2, <2>3, SenderOutput, Zenon
  <2>4. CASE ConnectionStep \/ FlushStep \/ ShutdownDone
    BY <1>2, <2>4, ConnectionOutput, Zenon
  <2>5. CASE UNCHANGED vars
    <3>1. Still /\ cbox' \in Seq(CMessage)
      BY <1>2, <2>5, Zenon DEF vars, connection, network, Still, OutInv, Shapes
    <3> QED BY <1>2, <3>1, StillOutput, Zenon
  <2> QED BY <1>2, <2>1, <2>2, <2>3, <2>4, <2>5, Zenon DEF Next
<1> QED BY <1>1, <1>2, PTL DEF Spec

\* Whatever the batch size, the capacity of the channel and the order in which the
\* connection actor, the reader and the sender task run, packets reach the socket in the
\* order in which WritePacketToClient took them, and none is missing unless one was
\* dropped: try_send found no room, a write failed, or the sender task was aborted.
THEOREM OutputKeepsOrder == Spec => []OutputInOrder
<1>1. OutInv => OutputInOrder
  BY Zenon DEF OutInv
<1> QED BY <1>1, OutputInductive, PTL

===============================================================================
