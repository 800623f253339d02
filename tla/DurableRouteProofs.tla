-------------------------- MODULE DurableRouteProofs --------------------------
(***************************************************************************)
(* A durable route is never lost (router_actor.rs), for any number of      *)
(* overlapping tasks, any number of crashes and any retry limit; and it is *)
(* delivered once if no two tasks of one kind overlapped and no process    *)
(* crashed between a delivery and its record.                              *)
(*                                                                         *)
(* NothingLost speaks of the two stores only.  It is preserved because of  *)
(* what each task may rely on at the stage it is at: nothing is removed at *)
(* one side by a task that has not seen the message safe, or at its end,   *)
(* at the other.                                                           *)
(***************************************************************************)
EXTENDS DurableRoute, TLAPS

\* The message needs no copy any more.
Ended == delivered # 0 \/ dropped

\* The destination answers for the message.
Held == Ended \/ (inbox.status = "Pending" /\ dst_payload)

\* What the tasks of the source may rely on.
SourceSafe ==
  /\ \A d \in Dispatchers : dispatch[d].pc = "delete" => Held
  /\ enqueued /\ ~Held => outbox # NoRow /\ src_payload

\* What the handlers and tasks of the destination may rely on.
DestinationSafe ==
  /\ inbox # NoRow => Held
  /\ \A d \in Dispatchers :
       /\ handler[d] = "stored" => Ended \/ dst_payload
       /\ handler[d] = "replied" => Held
  /\ \A p \in Processors :
       /\ process[p].pc = "deliver" => Ended \/ dst_payload
       /\ process[p].pc \in {"delivered", "delete"} => Ended

Types ==
  /\ now \in Nat
  /\ outbox \in Rows /\ inbox \in Rows
  /\ dispatch \in [Dispatchers -> Tasks({"idle", "start", "send", "wait", "delete"})]
  /\ handler \in [Dispatchers -> {"idle", "arrived", "unknown", "stored", "replied"}]
  /\ process \in [Processors -> Tasks({"idle", "start", "deliver", "delivered", "delete"})]

IInv == Types /\ SourceSafe /\ DestinationSafe

\* The invariant holds initially: nothing is enqueued and every task is idle.
LEMMA InitInv == Init => IInv
  <1> SUFFICES ASSUME Init PROVE IInv
    BY Zenon
  <1>1. Types
    BY Zenon DEF Init, Types, Tasks, Rows, Idle, NoRow, Row
  <1>2. SourceSafe
    BY Zenon DEF Init, SourceSafe, Idle
  <1>3. DestinationSafe
    BY Zenon DEF Init, DestinationSafe, Idle, NoRow, Row
  <1> QED BY <1>1, <1>2, <1>3, Zenon DEF IInv

\* The invariant gives what is claimed of the two stores.
LEMMA InvNothingLost == IInv => NothingLost
  BY Zenon DEF IInv, SourceSafe, Held, Ended, NothingLost

\* A task keeps its shape when it reads the clock and moves on.
LEMMA TaskMoves ==
  ASSUME NEW S, NEW t \in Tasks(S), NEW c \in S, NEW n \in Nat
  PROVE  [t EXCEPT !.pc = c, !.at = n] \in Tasks(S)
  BY Zenon DEF Tasks, Rows

\* Every step keeps the types.
LEMMA TypesStep == Types /\ [Next]_vars => Types'
  <1> SUFFICES ASSUME Types, [Next]_vars PROVE Types'
    BY Zenon
  <1> USE DEF Types, Tasks, Rows, Row, NoRow, Pending, Completed, Idle, Started, Retried
  <1>1. CASE Enqueue
    BY <1>1 DEF Enqueue, destination
  <1>2. CASE Tick \/ Cleanup \/ CrashSource \/ CrashDestination
    BY <1>2 DEF Tick, Cleanup, CrashSource, CrashDestination, source, destination
  <1>3. ASSUME NEW d \in Dispatchers, ScanOutbox(d) \/ Dispatch(d) \/ SendFails(d)
        PROVE  Types'
    <2>1. CASE ScanOutbox(d)
      BY <2>1, Zenon DEF ScanOutbox, destination
    <2>2. CASE SendFails(d)
      BY <2>2 DEF SendFails, destination
    <2>3. CASE DispatchGivesUp(d)
      BY <2>3 DEF DispatchGivesUp, destination
    <2>4. CASE DispatchEnds(d)
      BY <2>4, Zenon DEF DispatchEnds, destination
    <2>5. CASE NodeUnknown(d)
      BY <2>5 DEF NodeUnknown, destination
    <2>6. CASE DispatchReads(d)
      <3> DEFINE t == [dispatch[d] EXCEPT !.pc = "send", !.at = now]
      <3> HIDE DEF Tasks, Rows, Idle, NoRow
      <3>1. t \in Tasks({"idle", "start", "send", "wait", "delete"})
        BY TaskMoves, Zenon
      <3>2. dispatch' = [dispatch EXCEPT ![d] = t]
        BY <2>6, Zenon DEF DispatchReads
      <3> HIDE DEF t
      <3> QED BY <2>6, <3>1, <3>2 DEF DispatchReads, destination
    <2>7. CASE Send(d)
      BY <2>7, SMTT(30) DEF Send, destination
    <2>8. CASE Acked(d)
      BY <2>8, SMTT(30) DEF Acked, destination
    <2>9. CASE DeleteSourcePayload(d)
      BY <2>9, Zenon DEF DeleteSourcePayload, destination
    <2> QED BY <1>3, <2>1, <2>2, <2>3, <2>4, <2>5, <2>6, <2>7, <2>8, <2>9, Zenon DEF Dispatch
  <1>4. ASSUME NEW d \in Dispatchers, Handle(d)
        PROVE  Types'
    <2>1. CASE HandlerDrops(d)
      BY <2>1, Zenon DEF HandlerDrops, source
    <2>2. CASE HandlerLooksUp(d)
      BY <2>2, Zenon DEF HandlerLooksUp, source
    <2>3. CASE HandlerStoresPayload(d)
      BY <2>3, Zenon DEF HandlerStoresPayload, source
    <2>4. CASE HandlerAccepts(d)
      BY <2>4 DEF HandlerAccepts, source
    <2>5. CASE ReplyLost(d)
      BY <2>5, Zenon DEF ReplyLost, source
    <2> QED BY <1>4, <2>1, <2>2, <2>3, <2>4, <2>5, Zenon DEF Handle
  <1>5. ASSUME NEW p \in Processors, ScanInbox(p) \/ Process(p)
        PROVE  Types'
    <2>1. CASE ScanInbox(p)
      BY <2>1, Zenon DEF ScanInbox, source
    <2>2. CASE ProcessGivesUp(p)
      <3>1. inbox' \in Rows
        BY <2>2 DEF ProcessGivesUp
      <3>2. process' \in [Processors -> Tasks({"idle", "start", "deliver", "delivered", "delete"})]
        BY <2>2 DEF ProcessGivesUp
      <3> QED BY <2>2, <3>1, <3>2, Zenon DEF ProcessGivesUp, source
    <2>3. CASE ProcessEnds(p)
      BY <2>3, Zenon DEF ProcessEnds, source
    <2>4. CASE ProcessReads(p)
      <3> DEFINE t == [process[p] EXCEPT !.pc = "deliver", !.at = now]
      <3> HIDE DEF Tasks, Rows, Idle, NoRow
      <3>1. t \in Tasks({"idle", "start", "deliver", "delivered", "delete"})
        BY TaskMoves, Zenon
      <3>2. process' = [process EXCEPT ![p] = t]
        BY <2>4, Zenon DEF ProcessReads
      <3> HIDE DEF t
      <3> QED BY <2>4, <3>1, <3>2 DEF ProcessReads, source
    <2>5. CASE SessionAccepts(p)
      BY <2>5, SMTT(30) DEF SessionAccepts, source
    <2>6. CASE SessionRefuses(p)
      BY <2>6 DEF SessionRefuses, source
    <2>7. CASE ProcessCompletes(p)
      <3>1. inbox' \in Rows
        BY <2>7 DEF ProcessCompletes
      <3>2. process' \in [Processors -> Tasks({"idle", "start", "deliver", "delivered", "delete"})]
        BY <2>7 DEF ProcessCompletes
      <3> HIDE DEF Tasks, Rows, Idle, NoRow
      <3> QED BY <2>7, <3>1, <3>2, Zenon DEF ProcessCompletes, source
    <2>8. CASE DeleteInboxPayload(p)
      BY <2>8, Zenon DEF DeleteInboxPayload, source
    <2> QED BY <1>5, <2>1, <2>2, <2>3, <2>4, <2>5, <2>6, <2>7, <2>8, Zenon DEF Process
  <1>6. CASE UNCHANGED vars
    BY <1>6, Zenon DEF vars, source, destination
  <1> QED BY <1>1, <1>2, <1>3, <1>4, <1>5, <1>6, Zenon DEF Next

\* Every step keeps what the tasks rely on.
LEMMA SafeStep == IInv /\ [Next]_vars => SourceSafe' /\ DestinationSafe'
  <1> SUFFICES ASSUME IInv, [Next]_vars PROVE SourceSafe' /\ DestinationSafe'
    BY Zenon
  <1> USE DEF IInv, Types, SourceSafe, DestinationSafe, Held, Ended, Tasks, Rows, Row, NoRow,
              Pending, Completed, Idle, Started, Retried, route, source, destination, ghosts
  <1>1. CASE Enqueue
    BY <1>1 DEF Enqueue
  <1>2. CASE Tick \/ Cleanup \/ CrashSource \/ CrashDestination
    BY <1>2 DEF Tick, Cleanup, CrashSource, CrashDestination
  <1>3. ASSUME NEW d \in Dispatchers, ScanOutbox(d) \/ Dispatch(d) \/ SendFails(d)
        PROVE  SourceSafe' /\ DestinationSafe'
    <2>1. CASE ScanOutbox(d)
      BY <2>1 DEF ScanOutbox
    <2>2. CASE SendFails(d)
      BY <2>2 DEF SendFails
    <2>3. CASE DispatchGivesUp(d)
      BY <2>3, Zenon DEF DispatchGivesUp
    <2>4. CASE DispatchEnds(d)
      BY <2>4 DEF DispatchEnds
    <2>5. CASE NodeUnknown(d)
      BY <2>5 DEF NodeUnknown
    <2>6. CASE DispatchReads(d)
      BY <2>6 DEF DispatchReads
    <2>7. CASE Send(d)
      BY <2>7 DEF Send
    <2>8. CASE Acked(d)
      BY <2>8, Zenon DEF Acked
    <2>9. CASE DeleteSourcePayload(d)
      BY <2>9, Zenon DEF DeleteSourcePayload
    <2> QED BY <1>3, <2>1, <2>2, <2>3, <2>4, <2>5, <2>6, <2>7, <2>8, <2>9, Zenon DEF Dispatch
  <1>4. ASSUME NEW d \in Dispatchers, Handle(d)
        PROVE  SourceSafe' /\ DestinationSafe'
    <2>1. CASE HandlerDrops(d)
      BY <2>1, Zenon DEF HandlerDrops
    <2>2. CASE HandlerLooksUp(d)
      <3>1. SourceSafe'
        BY <2>2, Zenon DEF HandlerLooksUp
      <3>2. DestinationSafe'
        BY <2>2, Zenon DEF HandlerLooksUp
      <3> QED BY <3>1, <3>2, Zenon
    <2>3. CASE HandlerStoresPayload(d)
      BY <2>3, Zenon DEF HandlerStoresPayload
    <2>4. CASE HandlerAccepts(d)
      BY <2>4 DEF HandlerAccepts
    <2>5. CASE ReplyLost(d)
      BY <2>5, Zenon DEF ReplyLost
    <2> QED BY <1>4, <2>1, <2>2, <2>3, <2>4, <2>5, Zenon DEF Handle
  <1>5. ASSUME NEW p \in Processors, ScanInbox(p) \/ Process(p)
        PROVE  SourceSafe' /\ DestinationSafe'
    <2>1. CASE ScanInbox(p)
      BY <2>1, Zenon DEF ScanInbox
    <2>2. CASE ProcessGivesUp(p)
      BY <2>2, Zenon DEF ProcessGivesUp
    <2>3. CASE ProcessEnds(p)
      BY <2>3 DEF ProcessEnds
    <2>4. CASE ProcessReads(p)
      BY <2>4 DEF ProcessReads
    <2>5. CASE SessionAccepts(p)
      BY <2>5 DEF SessionAccepts
    <2>6. CASE SessionRefuses(p)
      BY <2>6 DEF SessionRefuses
    <2>7. CASE ProcessCompletes(p)
      BY <2>7, Zenon DEF ProcessCompletes
    <2>8. CASE DeleteInboxPayload(p)
      BY <2>8, Zenon DEF DeleteInboxPayload
    <2> QED BY <1>5, <2>1, <2>2, <2>3, <2>4, <2>5, <2>6, <2>7, <2>8, Zenon DEF Process
  <1>6. CASE UNCHANGED vars
    BY <1>6, Zenon DEF vars
  <1> QED BY <1>1, <1>2, <1>3, <1>4, <1>5, <1>6, Zenon DEF Next

\* A message routed to another node is delivered or given up by a step that
\* says so, or is still in a store with its row: for any number of overlapping
\* dispatch and processing tasks, crashes, retries and any time to live.
THEOREM RouteNotLost == Spec => []NothingLost
  <1>1. IInv /\ [Next]_vars => IInv'
    BY TypesStep, SafeStep, Zenon DEF IInv
  <1> QED BY InitInv, InvNothingLost, <1>1, PTL DEF Spec
-------------------------------------------------------------------------------
\* As long as no two tasks overlapped there is one call and one task at a time,
\* a call that found no row is the only one to write one, and a task at work
\* means that the row is pending.
Alone ==
  ~overlapped =>
    /\ \A d, e \in Dispatchers : handler[d] # "idle" /\ handler[e] # "idle" => d = e
    /\ \A p, q \in Processors : process[p] # Idle /\ process[q] # Idle => p = q
    /\ \A d \in Dispatchers : handler[d] \in {"unknown", "stored"} => inbox = NoRow
    /\ \A p \in Processors :
         process[p].pc \in {"start", "deliver", "delivered"} => inbox.status = "Pending"

\* A completed row is removed only after the message has expired, and a task
\* that starts after that gives the message up.
CleanedLate ==
  cleaned /\ ~overlapped =>
    /\ Ttl <= now
    /\ \A p \in Processors : process[p].pc # "deliver"

\* The one delivery is on record, or about to be, or the message has expired.
Recorded ==
  crashes = 0 /\ ~overlapped /\ delivered # 0 =>
    /\ delivered = 1
    /\ \/ Ttl <= now
       \/ inbox.status = "Completed"
       \/ \E p \in Processors : process[p].pc = "delivered"
    /\ \A p \in Processors :
         /\ process[p].pc # "deliver"
         /\ process[p].pc = "start" => Ttl <= now

\* An attempt is counted only by a task that was below the limit.
Attempts ==
  /\ outbox.attempts <= MaxRetries /\ inbox.attempts <= MaxRetries
  /\ \A d \in Dispatchers : dispatch[d].pc \in {"send", "wait"} => dispatch[d].row.attempts < MaxRetries
  /\ \A p \in Processors :
       /\ process[p].row.attempts <= MaxRetries
       /\ process[p].pc = "deliver" => process[p].row.attempts < MaxRetries

Counts ==
  /\ now <= MaxTime /\ delivered \in 0..2 /\ crashes \in 0..MaxCrashes
  /\ enqueued \in BOOLEAN /\ packet_expires \in BOOLEAN
  /\ src_payload \in BOOLEAN /\ dst_payload \in BOOLEAN
  /\ dropped \in BOOLEAN /\ cleaned \in BOOLEAN /\ overlapped \in BOOLEAN

OnceInv == Alone /\ CleanedLate /\ Recorded /\ Attempts /\ Counts
\* Every step keeps the tasks apart, or records that they overlap.
LEMMA AloneStep == Types /\ Counts /\ Alone /\ [Next]_vars => Alone'
  <1> SUFFICES ASSUME Types /\ Counts /\ Alone, [Next]_vars PROVE Alone'
    BY Zenon
  <1> USE DEF Types, Counts, Alone, Tasks, Rows, Row, NoRow, Pending, Completed, Idle, Started, Retried, route, source, destination, ghosts
  <1>1. CASE Enqueue
    BY <1>1, Zenon DEF Enqueue
  <1>2. CASE Tick \/ Cleanup
    BY <1>2 DEF Tick, Cleanup
  <1>3. CASE CrashSource \/ CrashDestination
    BY <1>3 DEF CrashSource, CrashDestination
  <1>4. ASSUME NEW d \in Dispatchers, ScanOutbox(d) \/ Dispatch(d) \/ SendFails(d)
        PROVE  Alone'
    <2>1. CASE ScanOutbox(d)
      BY <2>1 DEF ScanOutbox
    <2>2. CASE SendFails(d)
      BY <2>2, Zenon DEF SendFails
    <2>3. CASE DispatchGivesUp(d)
      BY <2>3, Zenon DEF DispatchGivesUp
    <2>4. CASE DispatchEnds(d)
      BY <2>4, Zenon DEF DispatchEnds
    <2>5. CASE NodeUnknown(d)
      BY <2>5, Zenon DEF NodeUnknown
    <2>6. CASE DispatchReads(d)
      BY <2>6, Zenon DEF DispatchReads
    <2>7. CASE Send(d)
      BY <2>7 DEF Send
    <2>8. CASE Acked(d)
      BY <2>8 DEF Acked
    <2>9. CASE DeleteSourcePayload(d)
      BY <2>9, Zenon DEF DeleteSourcePayload
    <2> QED BY <1>4, <2>1, <2>2, <2>3, <2>4, <2>5, <2>6, <2>7, <2>8, <2>9, Zenon DEF Dispatch
  <1>5. ASSUME NEW d \in Dispatchers, Handle(d)
        PROVE  Alone'
    <2>1. CASE HandlerDrops(d)
      BY <2>1 DEF HandlerDrops
    <2>2. CASE HandlerLooksUp(d)
      BY <2>2 DEF HandlerLooksUp
    <2>3. CASE HandlerStoresPayload(d)
      BY <2>3 DEF HandlerStoresPayload
    <2>4. CASE HandlerAccepts(d)
      <3> SUFFICES ASSUME ~overlapped' PROVE Alone'
        BY Zenon DEF Alone
      <3>1. PICK p \in Processors : process' = [process EXCEPT ![p] = Started(inbox')]
        BY <2>4, Zenon DEF HandlerAccepts
      <3>2. \A q \in Processors : process[q] = Idle
        BY <2>4, Zenon DEF HandlerAccepts
      <3>3. \A e \in Dispatchers : handler[e] # "idle" => e = d
        BY <2>4, Zenon DEF HandlerAccepts
      <3>4. inbox'.status = "Pending"
        BY <2>4, Zenon DEF HandlerAccepts
      <3> QED BY <2>4, <3>1, <3>2, <3>3, <3>4 DEF HandlerAccepts
    <2>5. CASE ReplyLost(d)
      BY <2>5 DEF ReplyLost
    <2> QED BY <1>5, <2>1, <2>2, <2>3, <2>4, <2>5, Zenon DEF Handle
  <1>6. ASSUME NEW p \in Processors, ScanInbox(p) \/ Process(p)
        PROVE  Alone'
    <2>1. CASE ScanInbox(p)
      BY <2>1, Zenon DEF ScanInbox
    <2>2. CASE ProcessGivesUp(p)
      BY <2>2 DEF ProcessGivesUp
    <2>3. CASE ProcessEnds(p)
      BY <2>3 DEF ProcessEnds
    <2>4. CASE ProcessReads(p)
      BY <2>4, SMTT(30) DEF ProcessReads
    <2>5. CASE SessionAccepts(p)
      BY <2>5 DEF SessionAccepts
    <2>6. CASE SessionRefuses(p)
      BY <2>6 DEF SessionRefuses
    <2>7. CASE ProcessCompletes(p)
      BY <2>7 DEF ProcessCompletes
    <2>8. CASE DeleteInboxPayload(p)
      BY <2>8 DEF DeleteInboxPayload
    <2> QED BY <1>6, <2>1, <2>2, <2>3, <2>4, <2>5, <2>6, <2>7, <2>8, Zenon DEF Process
  <1>7. CASE UNCHANGED vars
    BY <1>7, Zenon DEF vars
  <1> QED BY <1>1, <1>2, <1>3, <1>4, <1>5, <1>6, <1>7, Zenon DEF Next

\* Every step keeps the cleanup late.
LEMMA LateStep == Types /\ Counts /\ Alone /\ CleanedLate /\ [Next]_vars => CleanedLate'
  <1> SUFFICES ASSUME Types /\ Counts /\ Alone /\ CleanedLate, [Next]_vars PROVE CleanedLate'
    BY Zenon
  <1> USE RouteAssumption DEF Types, Counts, Alone, CleanedLate, GivenUp, expiry_at, Tasks, Rows, Row, NoRow, Pending, Completed, Idle, Started, Retried, route, source, destination, ghosts
  <1>1. CASE Enqueue
    BY <1>1, Zenon DEF Enqueue
  <1>2. CASE Tick \/ Cleanup
    <2>1. CASE Tick
      BY <2>1 DEF Tick
    <2>2. CASE Cleanup
      BY <2>2 DEF Cleanup
    <2> QED BY <1>2, <2>1, <2>2, Zenon
  <1>3. CASE CrashSource \/ CrashDestination
    <2>1. CASE CrashSource
      BY <2>1, Zenon DEF CrashSource
    <2>2. CASE CrashDestination
      BY <2>2, Zenon DEF CrashDestination
    <2> QED BY <1>3, <2>1, <2>2, Zenon
  <1>4. ASSUME NEW d \in Dispatchers, ScanOutbox(d) \/ Dispatch(d) \/ SendFails(d)
        PROVE  CleanedLate'
    <2>1. CASE ScanOutbox(d)
      BY <2>1, Zenon DEF ScanOutbox
    <2>2. CASE SendFails(d)
      BY <2>2, Zenon DEF SendFails
    <2>3. CASE DispatchGivesUp(d)
      BY <2>3, Zenon DEF DispatchGivesUp
    <2>4. CASE DispatchEnds(d)
      BY <2>4, Zenon DEF DispatchEnds
    <2>5. CASE NodeUnknown(d)
      BY <2>5, Zenon DEF NodeUnknown
    <2>6. CASE DispatchReads(d)
      BY <2>6, Zenon DEF DispatchReads
    <2>7. CASE Send(d)
      BY <2>7, Zenon DEF Send
    <2>8. CASE Acked(d)
      BY <2>8, Zenon DEF Acked
    <2>9. CASE DeleteSourcePayload(d)
      BY <2>9, Zenon DEF DeleteSourcePayload
    <2> QED BY <1>4, <2>1, <2>2, <2>3, <2>4, <2>5, <2>6, <2>7, <2>8, <2>9, Zenon DEF Dispatch
  <1>5. ASSUME NEW d \in Dispatchers, Handle(d)
        PROVE  CleanedLate'
    <2>1. CASE HandlerDrops(d)
      BY <2>1, Zenon DEF HandlerDrops
    <2>2. CASE HandlerLooksUp(d)
      BY <2>2, Zenon DEF HandlerLooksUp
    <2>3. CASE HandlerStoresPayload(d)
      BY <2>3, Zenon DEF HandlerStoresPayload
    <2>4. CASE HandlerAccepts(d)
      BY <2>4 DEF HandlerAccepts
    <2>5. CASE ReplyLost(d)
      BY <2>5, Zenon DEF ReplyLost
    <2> QED BY <1>5, <2>1, <2>2, <2>3, <2>4, <2>5, Zenon DEF Handle
  <1>6. ASSUME NEW p \in Processors, ScanInbox(p) \/ Process(p)
        PROVE  CleanedLate'
    <2>1. CASE ScanInbox(p)
      BY <2>1, Zenon DEF ScanInbox
    <2>2. CASE ProcessGivesUp(p)
      BY <2>2 DEF ProcessGivesUp
    <2>3. CASE ProcessEnds(p)
      BY <2>3, Zenon DEF ProcessEnds
    <2>4. CASE ProcessReads(p)
      BY <2>4, Zenon DEF ProcessReads
    <2>5. CASE SessionAccepts(p)
      BY <2>5, Zenon DEF SessionAccepts
    <2>6. CASE SessionRefuses(p)
      BY <2>6, Zenon DEF SessionRefuses
    <2>7. CASE ProcessCompletes(p)
      BY <2>7 DEF ProcessCompletes
    <2>8. CASE DeleteInboxPayload(p)
      BY <2>8, Zenon DEF DeleteInboxPayload
    <2> QED BY <1>6, <2>1, <2>2, <2>3, <2>4, <2>5, <2>6, <2>7, <2>8, Zenon DEF Process
  <1>7. CASE UNCHANGED vars
    BY <1>7, Zenon DEF vars
  <1> QED BY <1>1, <1>2, <1>3, <1>4, <1>5, <1>6, <1>7, Zenon DEF Next

\* Every step keeps the delivery on record.
LEMMA RecordedStep == Types /\ Counts /\ Alone /\ Recorded /\ [Next]_vars => Recorded'
  <1> SUFFICES ASSUME Types /\ Counts /\ Alone /\ Recorded, [Next]_vars PROVE Recorded'
    BY Zenon
  <1> USE RouteAssumption DEF Types, Counts, Alone, Recorded, GivenUp, expiry_at, Tasks, Rows, Row, NoRow, Pending, Completed, Idle, Started, Retried, route, source, destination, ghosts
  <1>1. CASE Enqueue
    BY <1>1, Zenon DEF Enqueue
  <1>2. CASE Tick \/ Cleanup
    BY <1>2 DEF Tick, Cleanup
  <1>3. CASE CrashSource \/ CrashDestination
    BY <1>3 DEF CrashSource, CrashDestination
  <1>4. ASSUME NEW d \in Dispatchers, ScanOutbox(d) \/ Dispatch(d) \/ SendFails(d)
        PROVE  Recorded'
    <2>1. CASE ScanOutbox(d)
      BY <2>1, Zenon DEF ScanOutbox
    <2>2. CASE SendFails(d)
      BY <2>2, Zenon DEF SendFails
    <2>3. CASE DispatchGivesUp(d)
      BY <2>3, Zenon DEF DispatchGivesUp
    <2>4. CASE DispatchEnds(d)
      BY <2>4, Zenon DEF DispatchEnds
    <2>5. CASE NodeUnknown(d)
      BY <2>5, Zenon DEF NodeUnknown
    <2>6. CASE DispatchReads(d)
      BY <2>6, Zenon DEF DispatchReads
    <2>7. CASE Send(d)
      BY <2>7, Zenon DEF Send
    <2>8. CASE Acked(d)
      BY <2>8, Zenon DEF Acked
    <2>9. CASE DeleteSourcePayload(d)
      BY <2>9, Zenon DEF DeleteSourcePayload
    <2> QED BY <1>4, <2>1, <2>2, <2>3, <2>4, <2>5, <2>6, <2>7, <2>8, <2>9, Zenon DEF Dispatch
  <1>5. ASSUME NEW d \in Dispatchers, Handle(d)
        PROVE  Recorded'
    <2>1. CASE HandlerDrops(d)
      BY <2>1, Zenon DEF HandlerDrops
    <2>2. CASE HandlerLooksUp(d)
      BY <2>2, Zenon DEF HandlerLooksUp
    <2>3. CASE HandlerStoresPayload(d)
      BY <2>3, Zenon DEF HandlerStoresPayload
    <2>4. CASE HandlerAccepts(d)
      BY <2>4 DEF HandlerAccepts
    <2>5. CASE ReplyLost(d)
      BY <2>5, Zenon DEF ReplyLost
    <2> QED BY <1>5, <2>1, <2>2, <2>3, <2>4, <2>5, Zenon DEF Handle
  <1>6. ASSUME NEW p \in Processors, ScanInbox(p) \/ Process(p)
        PROVE  Recorded'
    <2>1. CASE ScanInbox(p)
      <3> SUFFICES ASSUME crashes = 0, ~overlapped', delivered # 0 PROVE Recorded'
        BY <2>1, Zenon DEF ScanInbox
      <3>1. \A q \in Processors : process[q] = Idle
        BY <2>1, Zenon DEF ScanInbox
      <3>2. Ttl <= now
        BY <2>1, <3>1 DEF ScanInbox
      <3> QED BY <2>1, <3>1, <3>2, Zenon DEF ScanInbox
    <2>2. CASE ProcessGivesUp(p)
      BY <2>2 DEF ProcessGivesUp
    <2>3. CASE ProcessEnds(p)
      BY <2>3, Zenon DEF ProcessEnds
    <2>4. CASE ProcessReads(p)
      BY <2>4, Zenon DEF ProcessReads
    <2>5. CASE SessionAccepts(p)
      BY <2>5 DEF SessionAccepts
    <2>6. CASE SessionRefuses(p)
      BY <2>6, Zenon DEF SessionRefuses
    <2>7. CASE ProcessCompletes(p)
      BY <2>7 DEF ProcessCompletes
    <2>8. CASE DeleteInboxPayload(p)
      BY <2>8 DEF DeleteInboxPayload
    <2> QED BY <1>6, <2>1, <2>2, <2>3, <2>4, <2>5, <2>6, <2>7, <2>8, Zenon DEF Process
  <1>7. CASE UNCHANGED vars
    BY <1>7, Zenon DEF vars
  <1> QED BY <1>1, <1>2, <1>3, <1>4, <1>5, <1>6, <1>7, Zenon DEF Next

\* Every step keeps the attempts within the limit.
LEMMA AttemptsStep == Types /\ Attempts /\ [Next]_vars => Attempts'
  <1> SUFFICES ASSUME Types /\ Attempts, [Next]_vars PROVE Attempts'
    BY Zenon
  <1> USE RouteAssumption DEF Types, Attempts, GivenUp, Tasks, Rows, Row, NoRow, Pending, Completed, Idle, Started, Retried, route, source, destination, ghosts
  <1>1. CASE Enqueue
    BY <1>1 DEF Enqueue
  <1>2. CASE Tick \/ Cleanup
    BY <1>2, SMTT(30) DEF Tick, Cleanup
  <1>3. CASE CrashSource \/ CrashDestination
    BY <1>3 DEF CrashSource, CrashDestination
  <1>4. ASSUME NEW d \in Dispatchers, ScanOutbox(d) \/ Dispatch(d) \/ SendFails(d)
        PROVE  Attempts'
    <2>1. CASE ScanOutbox(d)
      BY <2>1, Zenon DEF ScanOutbox
    <2>2. CASE SendFails(d)
      BY <2>2 DEF SendFails
    <2>3. CASE DispatchGivesUp(d)
      BY <2>3 DEF DispatchGivesUp
    <2>4. CASE DispatchEnds(d)
      BY <2>4, Zenon DEF DispatchEnds
    <2>5. CASE NodeUnknown(d)
      BY <2>5 DEF NodeUnknown
    <2>6. CASE DispatchReads(d)
      BY <2>6 DEF DispatchReads
    <2>7. CASE Send(d)
      BY <2>7 DEF Send
    <2>8. CASE Acked(d)
      BY <2>8 DEF Acked
    <2>9. CASE DeleteSourcePayload(d)
      BY <2>9, Zenon DEF DeleteSourcePayload
    <2> QED BY <1>4, <2>1, <2>2, <2>3, <2>4, <2>5, <2>6, <2>7, <2>8, <2>9, Zenon DEF Dispatch
  <1>5. ASSUME NEW d \in Dispatchers, Handle(d)
        PROVE  Attempts'
    <2>1. CASE HandlerDrops(d)
      BY <2>1, Zenon DEF HandlerDrops
    <2>2. CASE HandlerLooksUp(d)
      BY <2>2, Zenon DEF HandlerLooksUp
    <2>3. CASE HandlerStoresPayload(d)
      BY <2>3, Zenon DEF HandlerStoresPayload
    <2>4. CASE HandlerAccepts(d)
      BY <2>4 DEF HandlerAccepts
    <2>5. CASE ReplyLost(d)
      BY <2>5, Zenon DEF ReplyLost
    <2> QED BY <1>5, <2>1, <2>2, <2>3, <2>4, <2>5, Zenon DEF Handle
  <1>6. ASSUME NEW p \in Processors, ScanInbox(p) \/ Process(p)
        PROVE  Attempts'
    <2>1. CASE ScanInbox(p)
      BY <2>1, Zenon DEF ScanInbox
    <2>2. CASE ProcessGivesUp(p)
      BY <2>2, SMTT(30) DEF ProcessGivesUp
    <2>3. CASE ProcessEnds(p)
      BY <2>3 DEF ProcessEnds
    <2>4. CASE ProcessReads(p)
      BY <2>4 DEF ProcessReads
    <2>5. CASE SessionAccepts(p)
      BY <2>5 DEF SessionAccepts
    <2>6. CASE SessionRefuses(p)
      BY <2>6 DEF SessionRefuses
    <2>7. CASE ProcessCompletes(p)
      BY <2>7 DEF ProcessCompletes
    <2>8. CASE DeleteInboxPayload(p)
      BY <2>8 DEF DeleteInboxPayload
    <2> QED BY <1>6, <2>1, <2>2, <2>3, <2>4, <2>5, <2>6, <2>7, <2>8, Zenon DEF Process
  <1>7. CASE UNCHANGED vars
    BY <1>7, Zenon DEF vars
  <1> QED BY <1>1, <1>2, <1>3, <1>4, <1>5, <1>6, <1>7, Zenon DEF Next

\* Every step keeps the counters and flags in their range.
LEMMA CountsStep == Types /\ Counts /\ [Next]_vars => Counts'
  <1> SUFFICES ASSUME Types /\ Counts, [Next]_vars PROVE Counts'
    BY Zenon
  <1> USE RouteAssumption DEF Types, Counts, route, source, destination, ghosts
  <1>1. CASE Enqueue
    BY <1>1, Zenon DEF Enqueue
  <1>2. CASE Tick \/ Cleanup
    <2>1. CASE Tick
      <3>1. now' <= MaxTime
        BY <2>1 DEF Tick
      <3> QED BY <2>1, <3>1, Zenon DEF Tick
    <2>2. CASE Cleanup
      BY <2>2, Zenon DEF Cleanup
    <2> QED BY <1>2, <2>1, <2>2, Zenon
  <1>3. CASE CrashSource \/ CrashDestination
    BY <1>3 DEF CrashSource, CrashDestination
  <1>4. ASSUME NEW d \in Dispatchers, ScanOutbox(d) \/ Dispatch(d) \/ SendFails(d)
        PROVE  Counts'
    <2>1. CASE ScanOutbox(d)
      BY <2>1, Zenon DEF ScanOutbox
    <2>2. CASE SendFails(d)
      BY <2>2, Zenon DEF SendFails
    <2>3. CASE DispatchGivesUp(d)
      BY <2>3, Zenon DEF DispatchGivesUp
    <2>4. CASE DispatchEnds(d)
      BY <2>4, Zenon DEF DispatchEnds
    <2>5. CASE NodeUnknown(d)
      BY <2>5, Zenon DEF NodeUnknown
    <2>6. CASE DispatchReads(d)
      BY <2>6, Zenon DEF DispatchReads
    <2>7. CASE Send(d)
      BY <2>7, Zenon DEF Send
    <2>8. CASE Acked(d)
      BY <2>8, Zenon DEF Acked
    <2>9. CASE DeleteSourcePayload(d)
      BY <2>9, Zenon DEF DeleteSourcePayload
    <2> QED BY <1>4, <2>1, <2>2, <2>3, <2>4, <2>5, <2>6, <2>7, <2>8, <2>9, Zenon DEF Dispatch
  <1>5. ASSUME NEW d \in Dispatchers, Handle(d)
        PROVE  Counts'
    <2>1. CASE HandlerDrops(d)
      BY <2>1, Zenon DEF HandlerDrops
    <2>2. CASE HandlerLooksUp(d)
      BY <2>2, Zenon DEF HandlerLooksUp
    <2>3. CASE HandlerStoresPayload(d)
      BY <2>3, Zenon DEF HandlerStoresPayload
    <2>4. CASE HandlerAccepts(d)
      BY <2>4, Zenon DEF HandlerAccepts
    <2>5. CASE ReplyLost(d)
      BY <2>5, Zenon DEF ReplyLost
    <2> QED BY <1>5, <2>1, <2>2, <2>3, <2>4, <2>5, Zenon DEF Handle
  <1>6. ASSUME NEW p \in Processors, ScanInbox(p) \/ Process(p)
        PROVE  Counts'
    <2>1. CASE ScanInbox(p)
      BY <2>1, Zenon DEF ScanInbox
    <2>2. CASE ProcessGivesUp(p)
      BY <2>2, Zenon DEF ProcessGivesUp
    <2>3. CASE ProcessEnds(p)
      BY <2>3, Zenon DEF ProcessEnds
    <2>4. CASE ProcessReads(p)
      BY <2>4, Zenon DEF ProcessReads
    <2>5. CASE SessionAccepts(p)
      BY <2>5 DEF SessionAccepts
    <2>6. CASE SessionRefuses(p)
      BY <2>6, Zenon DEF SessionRefuses
    <2>7. CASE ProcessCompletes(p)
      BY <2>7, Zenon DEF ProcessCompletes
    <2>8. CASE DeleteInboxPayload(p)
      BY <2>8, Zenon DEF DeleteInboxPayload
    <2> QED BY <1>6, <2>1, <2>2, <2>3, <2>4, <2>5, <2>6, <2>7, <2>8, Zenon DEF Process
  <1>7. CASE UNCHANGED vars
    BY <1>7, Zenon DEF vars
  <1> QED BY <1>1, <1>2, <1>3, <1>4, <1>5, <1>6, <1>7, Zenon DEF Next

\* The strengthening holds initially.
LEMMA InitOnce == Init => OnceInv
  <1> SUFFICES ASSUME Init PROVE OnceInv
    BY Zenon
  <1>1. Alone /\ CleanedLate /\ Recorded
    BY Zenon DEF Init, Alone, CleanedLate, Recorded, Idle, NoRow, Row
  <1>2. Attempts
    BY RouteAssumption DEF Init, Attempts, Idle, NoRow, Row
  <1>3. Counts
    <2>1. now <= MaxTime /\ crashes \in 0..MaxCrashes /\ delivered \in 0..2
      BY RouteAssumption DEF Init
    <2> QED BY <2>1, Zenon DEF Init, Counts
  <1> QED BY <1>1, <1>2, <1>3, Zenon DEF OnceInv

\* Together they are inductive.
LEMMA OnceStep == IInv /\ OnceInv /\ [Next]_vars => IInv' /\ OnceInv'
  BY TypesStep, SafeStep, AloneStep, LateStep, RecordedStep, AttemptsStep, CountsStep, Zenon DEF IInv, OnceInv

\* A session takes a routed message once, however often the call for it is
\* repeated or answered late, unless tasks overlapped or a process died: for
\* every retry limit, time to live and interval at which the inbox is cleaned.
THEOREM RouteDeliveredOnce == Spec => []DeliveredOnce
  <1>1. OnceInv => DeliveredOnce
    BY DEF OnceInv, Recorded, Counts, DeliveredOnce
  <1> QED BY InitInv, InitOnce, OnceStep, <1>1, PTL DEF Spec

\* The inbox forgets a route only when no copy of it can be delivered any more.
THEOREM CleanupForgetsSafely == Spec => NoDeliveryAfterCleanup
  <1>1. OnceInv /\ [Next]_vars => [cleaned /\ ~overlapped => ~\E p \in Processors : SessionAccepts(p)]_vars
    BY Zenon DEF OnceInv, CleanedLate, SessionAccepts
  <1> QED BY InitInv, InitOnce, OnceStep, <1>1, PTL DEF Spec, NoDeliveryAfterCleanup

\* Every variable keeps its type, and neither row ever counts more attempts
\* than the retry limit.
THEOREM RouteTypeCorrect == Spec => []TypeOK
  <1>1. IInv /\ OnceInv => TypeOK
    BY RouteAssumption DEF IInv, Types, OnceInv, Counts, Attempts, TypeOK
  <1> QED BY InitInv, InitOnce, OnceStep, <1>1, PTL DEF Spec
===============================================================================
