----------------------------- MODULE PluginManager -----------------------------
(***************************************************************************)
(* The plugin host (plugin_host/src/plugin_manager.rs): plugin processes,  *)
(* their connections, the task that handles what they send (rx), the       *)
(* heartbeat task, the control operations of the REST interface and the    *)
(* calls of hooks by the broker.                                           *)
(*                                                                         *)
(* Every start of a plugin makes an instance, named by its auth_code: here *)
(* the position of the instance in `inst`.  The host's own tasks run on    *)
(* one thread, so a step lasts from one await to the next; hook calls run  *)
(* on other threads.  One hook is modelled at a time (scope.hook).  Left   *)
(* out: manifests, logs, restart counts and other data that is only shown. *)
(***************************************************************************)
EXTENDS Integers, Sequences, SequencesExt, FiniteSets, TLC, HookChain

CONSTANTS
  Names,     \* plugins
  Ops,       \* control requests, each made at most once
  Calls,     \* hook calls, each made at most once
  Capacity,  \* messages the channel to a connection holds
  RxCapacity, \* messages the channel to the rx task holds
  Scopes     \* situations to explore

MaxPings == 3   \* failed pings that make a plugin unhealthy

Callers == Calls \cup {"beat"}
Kinds == {"none", "start", "stop", "restart", "shutdown"}

ASSUME PluginAssumption ==
  /\ Capacity \in Nat \ {0} /\ RxCapacity \in Nat \ {0} /\ "beat" \notin Calls
  /\ \A s \in Scopes :
       /\ s.up \subseteq Names          \* running when the behaviour starts
       /\ s.declares \subseteq Names    \* declare the hook in InitializeResponse
       /\ s.priority \in [Names -> Nat] /\ s.hook \in Hooks /\ s.default \in BOOLEAN
       /\ s.ops \in [Ops -> [kind : Kinds, name : Names]]
       /\ s.calls \subseteq Calls
       /\ s.exits \in Nat               \* bound on processes that exit by themselves
       /\ {s.beats, s.breaks, s.malformed} \subseteq BOOLEAN

VARIABLES
  scope,
  plugins,   \* running_plugins: name -> entry
  inst,      \* instances, in the order of their start
  hooks,     \* HookManager, the registrations of scope.hook
  lock,      \* its RwLock: calls that read, tasks that wait to write
  rx,        \* the task of start_handle_plugin_rx_cmd and its channel
  inflight,  \* InflightManager: requests that wait for a response
  io,        \* send_and_wait of each caller
  chain,     \* the hook calls
  beat,      \* the heartbeat task
  ops,       \* the control requests
  exits, down

vars == <<scope, plugins, inst, hooks, lock, rx, inflight, io, chain, beat, ops, exits, down>>

Started(n) ==
  [name |-> n, proc |-> "up", conn |-> "none", wait |-> "waiting", notify |-> <<>>,
   aborts |-> <<>>, sent |-> <<>>, held |-> <<>>, late |-> FALSE]
Entry(state, code) ==
  [state |-> state, code |-> code, abort |-> state # "Failed", ipc |-> state = "Running", pings |-> 0]

\* The answers a plugin may give to a hook; a ping is answered by anything.
Replies(id) == IF id[1] = "beat" THEN {<<>>} ELSE scope.replies

Idle == [phase |-> "idle", to |-> 0, id |-> <<>>, out |-> Timeout]

\* After start_all_plugins, with the plugins of scope.up initialized.
Init ==
  /\ scope \in Scopes
  /\ inst = [i \in 1 .. Cardinality(scope.up) |-> [Started(SetToSeq(scope.up)[i]) EXCEPT !.conn = "ready"]]
  /\ plugins = [n \in scope.up |-> Entry("Running", CHOOSE i \in DOMAIN inst : inst[i].name = n)]
  /\ hooks = SortSeq(SelectSeq([i \in DOMAIN inst |-> [name |-> inst[i].name, code |-> i,
                                                        priority |-> scope.priority[inst[i].name]]],
                               LAMBDA h : h.name \in scope.declares),
                     LAMBDA g, h : g.priority < h.priority)
  /\ lock = [readers |-> {}, writers |-> <<>>]
  /\ rx = [phase |-> "idle", q |-> <<>>, msg |-> <<>>]
  /\ inflight = {}
  /\ io = [c \in Callers |-> Idle]
  /\ chain = [c \in Calls |-> [phase |-> "idle", todo |-> <<>>, acc |-> ChainStart(scope.hook, 1), heard |-> <<>>]]
  /\ beat = [phase |-> "idle", todo |-> {}, at |-> <<>>]
  /\ ops = [o \in Ops |-> [phase |-> "idle", name |-> scope.ops[o].name, code |-> 0, todo |-> {}]]
  /\ exits = 0 /\ down = FALSE

-------------------------------------------------------------------------------
(* Starting an instance *)

\* start_prepared_plugin: the entry of the name is replaced, and with it the
\* only lasting sender of the previous instance's abort channel.
Insert(n, spawned) ==
  LET code == Len(inst) + 1
  IN  /\ inst' = Append(inst, IF spawned THEN Started(n) ELSE [Started(n) EXCEPT !.proc = "down", !.wait = "done"])
      /\ plugins' = (n :> Entry(IF spawned THEN "Starting" ELSE "Failed", code)) @@ plugins

Kind(o) == scope.ops[o].kind
Asked(o, kind) == Kind(o) = kind /\ ops[o].phase = "idle"
Ends(o, phase) == ops' = [ops EXCEPT ![o].phase = phase]

start_prepared_plugin(o, n) ==
  \E spawned \in {TRUE, ~scope.breaks} :
     /\ Insert(n, spawned)
     /\ ops' = [ops EXCEPT ![o].phase = IF spawned THEN "ok" ELSE "failed"]

\* prepare_plugin_start fails when the manifest or the executable is missing.
Unprepared(o) == scope.breaks /\ Ends(o, "failed") /\ UNCHANGED <<plugins, inst>>

State(n) == IF n \in DOMAIN plugins THEN plugins[n].state ELSE "none"

start_plugin(o) ==
  LET n == ops[o].name
  IN  /\ Asked(o, "start")
      /\ IF State(n) \in {"Running", "Starting", "Stopping"}
         THEN Ends(o, "failed") /\ UNCHANGED <<plugins, inst>>
         ELSE Unprepared(o) \/ start_prepared_plugin(o, n)
      /\ UNCHANGED <<scope, hooks, lock, rx, inflight, io, chain, beat, exits, down>>

-------------------------------------------------------------------------------
(* Stopping an instance *)

\* The first part of stop_plugin, up to the send of the abort signal.
Stoppable(n) == State(n) \in {"Running", "Starting"} /\ plugins[n].abort
StopIsVoid(n) == State(n) \in {"Stopped", "Failed"}
BeginStop(o, n) ==
  /\ Stoppable(n)
  /\ plugins' = [plugins EXCEPT ![n].state = "Stopping"]
  /\ ops' = [ops EXCEPT ![o].phase = "aborting", ![o].name = n, ![o].code = plugins[n].code,
                        ![o].todo = @ \ {n}]
  /\ UNCHANGED inst

stop_plugin(o) ==
  LET n == ops[o].name
  IN  /\ Asked(o, "stop")
      /\ \/ BeginStop(o, n)
         \/ ~Stoppable(n) /\ Ends(o, IF StopIsVoid(n) THEN "ok" ELSE "failed") /\ UNCHANGED <<plugins, inst>>
      /\ UNCHANGED <<scope, hooks, lock, rx, inflight, io, chain, beat, exits, down>>

restart_plugin(o) ==
  LET n == ops[o].name
  IN  /\ Asked(o, "restart")
      /\ IF State(n) = "Stopping"
         THEN Ends(o, "failed") /\ UNCHANGED <<plugins, inst>>
         ELSE \/ Unprepared(o)
              \/ BeginStop(o, n)
              \/ (StopIsVoid(n) \/ State(n) = "none") /\ start_prepared_plugin(o, n)
              \/ State(n) \in {"Running", "Starting"} /\ ~plugins[n].abort
                   /\ Ends(o, "failed") /\ UNCHANGED <<plugins, inst>>
      /\ UNCHANGED <<scope, hooks, lock, rx, inflight, io, chain, beat, exits, down>>

\* abort_tx.send: fails when the wait task is gone.
SendAbort(o) ==
  LET i == ops[o].code
  IN  /\ ops[o].phase = "aborting"
      /\ \/ /\ inst[i].wait = "done"
            /\ Ends(o, IF Kind(o) = "shutdown" THEN "stopped" ELSE "failed")
            /\ UNCHANGED inst
         \/ /\ inst[i].wait # "done" /\ inst[i].aborts = <<>>
            /\ inst' = [inst EXCEPT ![i].aborts = <<o>>]
            /\ Ends(o, "stopping")
      /\ UNCHANGED <<scope, plugins, hooks, lock, rx, inflight, io, chain, beat, exits, down>>

\* notify_receiver.recv returns once nobody holds the sender any more.
Notified(o) == LET i == ops[o].code IN o \notin ToSet(inst[i].aborts) \cup ToSet(inst[i].notify)

StopReturns(o) ==
  /\ ops[o].phase = "stopping" /\ Notified(o)
  /\ \/ /\ Kind(o) = "stop" /\ Ends(o, "ok") /\ UNCHANGED <<plugins, inst>>
     \/ /\ Kind(o) = "shutdown" /\ Ends(o, "stopped") /\ UNCHANGED <<plugins, inst>>
     \/ /\ Kind(o) = "restart" /\ start_prepared_plugin(o, ops[o].name)
  /\ UNCHANGED <<scope, hooks, lock, rx, inflight, io, chain, beat, exits, down>>

-------------------------------------------------------------------------------
(* Shutdown: every plugin is stopped in turn, then the rx task *)

\* rx_cmd_sender.send: waits for room; fails, unnoticed, when the task is gone.
Send(msg) ==
  /\ Len(rx.q) < RxCapacity
  /\ rx' = IF rx.phase = "ended" THEN rx ELSE [rx EXCEPT !.q = Append(@, msg)]

shutdown(o) ==
  /\ Asked(o, "shutdown")
  /\ down' = TRUE
  /\ ops' = [ops EXCEPT ![o].phase = "stopped", ![o].todo = DOMAIN plugins]
  /\ UNCHANGED <<scope, plugins, inst, hooks, lock, rx, inflight, io, chain, beat, exits>>

ShutdownNext(o) ==
  /\ Kind(o) = "shutdown" /\ ops[o].phase = "stopped"
  /\ \/ \E n \in ops[o].todo :
          /\ \/ BeginStop(o, n)
             \/ ~Stoppable(n) /\ ops' = [ops EXCEPT ![o].todo = @ \ {n}] /\ UNCHANGED <<plugins, inst>>
          /\ UNCHANGED rx
     \/ ops[o].todo = {} /\ Send(<<"Shutdown">>) /\ Ends(o, "ok") /\ UNCHANGED <<plugins, inst>>
  /\ UNCHANGED <<scope, hooks, lock, inflight, io, chain, beat, exits, down>>

-------------------------------------------------------------------------------
(* The wait task of an instance *)

\* Somebody can still send an abort signal: the entry, or a stop in progress.
HasSender(i) ==
  \/ \E n \in DOMAIN plugins : plugins[n].code = i /\ plugins[n].abort
  \/ \E o \in Ops : ops[o].phase \in {"aborting", "stopping"} /\ ops[o].code = i

\* plugin_abort_rx.recv: a signal, or None when the channel is closed.
Abort(i) ==
  /\ inst[i].wait = "waiting"
  /\ inst[i].aborts # <<>> \/ (~HasSender(i) /\ (inst[i].proc = "up" \/ inst[i].notify # <<>>))
  /\ inst' = [inst EXCEPT ![i].notify = inst[i].aborts, ![i].aborts = <<>>, ![i].proc = "down"]
  /\ UNCHANGED <<scope, plugins, hooks, lock, rx, inflight, io, chain, beat, ops, exits, down>>

\* process.wait: the exit is reported to the rx task.
ReportExit(i) ==
  /\ inst[i].wait = "waiting" /\ inst[i].proc = "down"
  /\ Send(<<"Status", i>>)
  /\ inst' = [inst EXCEPT ![i].wait = "reported"]
  /\ UNCHANGED <<scope, plugins, hooks, lock, inflight, io, chain, beat, ops, exits, down>>

\* The rx task has handled the report, or dropped it.
WaitEnds_silent(i) ==
  /\ inst[i].wait = "heard" \/ (inst[i].wait = "reported" /\ rx.phase = "ended")
  /\ inst' = [inst EXCEPT ![i].wait = "done"]
  /\ UNCHANGED <<scope, plugins, hooks, lock, rx, inflight, io, chain, beat, ops, exits, down>>
WaitEnds(i) ==
  /\ inst[i].wait = "heard" \/ (inst[i].wait = "reported" /\ rx.phase = "ended")
  /\ inst' = [inst EXCEPT ![i].wait = "done", ![i].notify = <<>>, ![i].aborts = <<>>]
  /\ UNCHANGED <<scope, plugins, hooks, lock, rx, inflight, io, chain, beat, ops, exits, down>>

-------------------------------------------------------------------------------
(* A plugin process and its connection (handle_plugin_connection) *)

Exit(i) ==
  /\ inst[i].proc = "up" /\ exits < scope.exits
  /\ exits' = exits + 1
  /\ inst' = [inst EXCEPT ![i].proc = "down"]
  /\ UNCHANGED <<scope, plugins, hooks, lock, rx, inflight, io, chain, beat, ops, down>>

\* The listener accepts the connection and sends InitializeRequest.
Connect(i) ==
  /\ inst[i].proc = "up" /\ inst[i].conn = "none" /\ ~down
  /\ inst' = [inst EXCEPT ![i].conn = "open"]
  /\ UNCHANGED <<scope, plugins, hooks, lock, rx, inflight, io, chain, beat, ops, exits, down>>

\* The plugin writes its InitializeResponse, which the host may read later.
AnswerInit(i) ==
  /\ inst[i].proc = "up" /\ inst[i].conn = "open"
  /\ inst' = [inst EXCEPT ![i].conn = "written"]
  /\ UNCHANGED <<scope, plugins, hooks, lock, rx, inflight, io, chain, beat, ops, exits, down>>

Closed(i) == inst' = [inst EXCEPT ![i].conn = "closed", ![i].sent = <<>>]

\* The first message: an InitializeResponse, whole or with an undecodable
\* body, or something else, which ends the connection.
ReadInit(i) ==
  /\ inst[i].conn = "written"
  /\ \/ /\ \E body \in {"whole"} \cup (IF scope.malformed THEN {"undecodable"} ELSE {}) : Send(<<"Init", i, body>>)
        /\ inst' = [inst EXCEPT ![i].conn = "ready"]
     \/ scope.malformed /\ Closed(i) /\ UNCHANGED rx
  /\ UNCHANGED <<scope, plugins, hooks, lock, inflight, io, chain, beat, ops, exits, down>>

\* A request goes to the plugin, which keeps it to answer it or forgets it.
\* Events are not answered.
Deliver(i) ==
  /\ inst[i].conn = "ready" /\ inst[i].sent # <<>> /\ inst[i].proc = "up"
  /\ \E held \in {inst[i].held} \cup {<<id>> : id \in IF inst[i].held = <<>> THEN {Head(inst[i].sent)} \ {<<>>} ELSE {}} :
       inst' = [inst EXCEPT ![i].sent = Tail(@), ![i].held = held]
  /\ UNCHANGED <<scope, plugins, hooks, lock, rx, inflight, io, chain, beat, ops, exits, down>>

Answer(i) ==
  /\ inst[i].conn = "ready" /\ inst[i].proc = "up" /\ inst[i].held # <<>>
  /\ \E r \in Replies(inst[i].held[1]) : Send(<<"Response", inst[i].held[1], r>>)
  /\ inst' = [inst EXCEPT ![i].held = <<>>]
  /\ UNCHANGED <<scope, plugins, hooks, lock, inflight, io, chain, beat, ops, exits, down>>

\* The socket is closed, or the response to InitializeRequest is overdue.
\* What the plugin wrote before is read first.
ConnectionEnds(i) ==
  /\ \/ inst[i].proc = "down" /\ inst[i].conn \in {"open", "ready"}
     \/ inst[i].conn = "open" /\ scope.malformed
  /\ Closed(i)
  /\ UNCHANGED <<scope, plugins, hooks, lock, rx, inflight, io, chain, beat, ops, exits, down>>

-------------------------------------------------------------------------------
(* The task of start_handle_plugin_rx_cmd *)

WantsWrite(task) == lock' = [lock EXCEPT !.writers = Append(@, task)]
MayWrite(task) == lock.readers = {} /\ lock.writers # <<>> /\ Head(lock.writers) = task
Written == lock' = [lock EXCEPT !.writers = Tail(@)]

RxEnds == rx' = [phase |-> "ended", q |-> <<>>, msg |-> <<>>]
RxNext == rx' = [rx EXCEPT !.q = Tail(@)]
RxWaits == rx' = [phase |-> "writing", q |-> Tail(rx.q), msg |-> Head(rx.q)]

\* Up to hook_manager.write() of a report or of an initialization.
RxStatus ==
  /\ Head(rx.q)[1] = "Status"
  /\ RxWaits /\ WantsWrite("rx")
  /\ UNCHANGED <<plugins, inflight, io>>

RxInit ==
  LET i == Head(rx.q)[2]
      n == inst[i].name
  IN  /\ Head(rx.q)[1] = "Init"
      /\ \/ Head(rx.q)[3] = "undecodable" /\ RxEnds /\ UNCHANGED <<plugins, lock>>
         \/ /\ Head(rx.q)[3] = "whole" /\ plugins[n].code = i
            /\ plugins' = [plugins EXCEPT ![n].state = "Running", ![n].ipc = TRUE]
            /\ RxWaits /\ WantsWrite("rx")
         \/ Head(rx.q)[3] = "whole" /\ plugins[n].code # i /\ RxNext /\ UNCHANGED <<plugins, lock>>
      /\ UNCHANGED <<inflight, io>>

\* InflightManager::remove; a response nobody waits for is dropped.
RxResponse ==
  LET id == Head(rx.q)[2]
  IN  /\ Head(rx.q)[1] = "Response"
      /\ inflight' = inflight \ {id}
      /\ io' = [c \in Callers |->
                  IF id \in inflight /\ io[c].id = id /\ io[c].phase = "waiting"
                  THEN [io[c] EXCEPT !.phase = "over", !.out = Answered(Head(rx.q)[3])] ELSE io[c]]
      /\ RxNext
      /\ UNCHANGED <<plugins, lock>>

RxTake ==
  /\ rx.phase = "idle" /\ rx.q # <<>>
  /\ \/ RxStatus \/ RxInit \/ RxResponse
     \/ Head(rx.q)[1] = "Shutdown" /\ RxEnds /\ UNCHANGED <<plugins, lock, inflight, io>>
  /\ UNCHANGED <<scope, inst, hooks, chain, beat, ops, exits, down>>

\* The registrations of an instance that exited go first, also those of an
\* instance that has been replaced; its entry changes only if it is current.
StatusChanged_checkfirst(i) ==
  LET n == inst[i].name
  IN  /\ hooks' = IF plugins[n].code = i THEN remove_plugin_instance(hooks, i) ELSE hooks
      /\ plugins' = IF plugins[n].code = i
                    THEN [plugins EXCEPT ![n].state = "Stopped", ![n].abort = FALSE, ![n].ipc = FALSE]
                    ELSE plugins
      /\ inst' = [inst EXCEPT ![i].wait = "heard"]
StatusChanged(i) ==
  LET n == inst[i].name
  IN  /\ hooks' = remove_plugin_instance(hooks, i)
      /\ plugins' = IF plugins[n].code = i
                    THEN [plugins EXCEPT ![n].state = "Stopped", ![n].abort = FALSE, ![n].ipc = FALSE]
                    ELSE plugins
      /\ inst' = [inst EXCEPT ![i].wait = "heard"]

\* `late` records that the exit of the instance had been handled before.
Initialized(i) ==
  LET n == inst[i].name
  IN  /\ hooks' = replace_plugin_hooks(hooks, n, i, n \in scope.declares, scope.priority[n])
      /\ inst' = [inst EXCEPT ![i].late = inst[i].wait \in {"heard", "done"}]
      /\ UNCHANGED plugins

RxWrite ==
  /\ rx.phase = "writing" /\ MayWrite("rx") /\ Written
  /\ IF rx.msg[1] = "Status" THEN StatusChanged(rx.msg[2]) ELSE Initialized(rx.msg[2])
  /\ rx' = [rx EXCEPT !.phase = "idle", !.msg = <<>>]
  /\ UNCHANGED <<scope, inflight, io, chain, beat, ops, exits, down>>

-------------------------------------------------------------------------------
(* InflightManager::send_and_wait *)

InUse ==
  inflight \cup UNION {ToSet(inst[i].sent) \cup ToSet(inst[i].held) : i \in DOMAIN inst}
    \cup {m[2] : m \in {m \in ToSet(rx.q) : m[1] = "Response"}}
Fresh(c) == <<c, CHOOSE k \in 1 .. 9 : <<c, k>> \notin InUse /\ \A j \in 1 .. k - 1 : <<c, j>> \in InUse>>

\* An event has no id and is not entered into the inflight map.
BeginRequest(c, i, event) ==
  LET id == IF event THEN <<>> ELSE Fresh(c)
  IN  /\ io' = [io EXCEPT ![c] = [phase |-> "sending", to |-> i, id |-> id, out |-> Timeout]]
      /\ inflight' = inflight \cup ({id} \ {<<>>})

clean_up(id) == inflight' = inflight \ {id}

\* The send waits for room in the channel, without a timeout.
SendRequest(c) ==
  LET i == io[c].to
  IN  /\ io[c].phase = "sending"
      /\ \/ /\ inst[i].conn = "closed"
            /\ io' = [io EXCEPT ![c].phase = "over", ![c].out = SendError]
            /\ clean_up(io[c].id)
            /\ UNCHANGED inst
         \/ /\ inst[i].conn # "closed" /\ Len(inst[i].sent) < Capacity
            /\ inst' = [inst EXCEPT ![i].sent = Append(@, io[c].id)]
            /\ io' = [io EXCEPT ![c].phase = IF io[c].id = <<>> THEN "over" ELSE "waiting"]
            /\ UNCHANGED inflight
      /\ UNCHANGED <<scope, plugins, hooks, lock, rx, chain, beat, ops, exits, down>>

TimedOut(c) ==
  /\ io[c].phase = "waiting"
  /\ io' = [io EXCEPT ![c].phase = "over", ![c].out = Timeout]
  /\ clean_up(io[c].id)
  /\ UNCHANGED <<scope, plugins, inst, hooks, lock, rx, chain, beat, ops, exits, down>>

-------------------------------------------------------------------------------
(* Hook calls *)

\* hook_manager.read(): waits behind the tasks that want to write.
CallHook(c) ==
  /\ c \in scope.calls /\ chain[c].phase = "idle"
  /\ chain' = [chain EXCEPT ![c].phase = "locking"]
  /\ UNCHANGED <<scope, plugins, inst, hooks, lock, rx, inflight, io, beat, ops, exits, down>>

TakeHooks(c) ==
  /\ chain[c].phase = "locking" /\ lock.writers = <<>>
  /\ IF hooks = <<>>
     THEN /\ chain' = [chain EXCEPT ![c].phase = "done", ![c].acc = WithoutHooks(scope.hook, 1, scope.default)]
          /\ UNCHANGED lock
     ELSE /\ chain' = [chain EXCEPT ![c].phase = "chain", ![c].todo = hooks]
          /\ lock' = [lock EXCEPT !.readers = @ \cup {c}]
  /\ UNCHANGED <<scope, plugins, inst, hooks, rx, inflight, io, beat, ops, exits, down>>

get_registered_plugin_sender(h) ==
  h.name \in DOMAIN plugins /\ plugins[h.name].code = h.code
    /\ plugins[h.name].state = "Running" /\ plugins[h.name].ipc

NextPlugin(c) ==
  LET h == Head(chain[c].todo)
  IN  /\ chain[c].phase = "chain" /\ io[c].phase = "idle"
      /\ chain[c].todo # <<>> /\ ~chain[c].acc.over
      /\ chain' = [chain EXCEPT ![c].todo = Tail(@)]
      /\ \/ ~get_registered_plugin_sender(h) /\ UNCHANGED <<io, inflight>>
         \/ get_registered_plugin_sender(h) /\ BeginRequest(c, h.code, scope.hook = "Event")
      /\ UNCHANGED <<scope, plugins, inst, hooks, lock, rx, beat, ops, exits, down>>

\* `heard` is what the plugins said, and what each had been sent.
Outcome(c) ==
  /\ chain[c].phase = "chain" /\ io[c].phase = "over"
  /\ chain' = [chain EXCEPT ![c].acc = ChainStep(scope.hook, @, io[c].out),
                            ![c].heard = Append(@, [code |-> io[c].to, out |-> io[c].out, sent |-> chain[c].acc.val])]
  /\ io' = [io EXCEPT ![c] = Idle]
  /\ UNCHANGED <<scope, plugins, inst, hooks, lock, rx, inflight, beat, ops, exits, down>>

CallReturns(c) ==
  /\ chain[c].phase = "chain" /\ io[c].phase = "idle"
  /\ chain[c].acc.over \/ chain[c].todo = <<>>
  /\ chain' = [chain EXCEPT ![c].phase = "done", ![c].todo = <<>>]
  /\ lock' = [lock EXCEPT !.readers = @ \ {c}]
  /\ UNCHANGED <<scope, plugins, inst, hooks, rx, inflight, io, beat, ops, exits, down>>

-------------------------------------------------------------------------------
(* start_heartbeat_check_task *)

Tick ==
  /\ scope.beats /\ beat.phase = "idle" /\ beat.todo = {} /\ ~down
  /\ LET targets == {n \in DOMAIN plugins : plugins[n].state = "Running" /\ plugins[n].ipc}
     IN  targets # {} /\ beat' = [beat EXCEPT !.todo = {<<n, plugins[n].code>> : n \in targets}]
  /\ UNCHANGED <<scope, plugins, inst, hooks, lock, rx, inflight, io, chain, ops, exits, down>>

Ping ==
  /\ beat.phase = "idle"
  /\ \E t \in beat.todo :
       /\ BeginRequest("beat", t[2], FALSE)
       /\ beat' = [phase |-> "pinging", todo |-> beat.todo \ {t}, at |-> t]
  /\ UNCHANGED <<scope, plugins, inst, hooks, lock, rx, chain, ops, exits, down>>

\* reset_health_check, increment_health_check_failure
PingCount(pings, out) == IF out.kind = "answer" THEN 0 ELSE pings + 1

\* The entry is looked up again: it may be that of a newer instance.
PingResult ==
  LET n == beat.at[1]
      pings == PingCount(plugins[n].pings, io["beat"].out)
  IN  /\ beat.phase = "pinging" /\ io["beat"].phase = "over"
      /\ io' = [io EXCEPT !["beat"] = Idle]
      /\ \/ /\ plugins[n].code # beat.at[2]
            /\ beat' = [beat EXCEPT !.phase = "idle", !.at = <<>>]
            /\ UNCHANGED <<plugins, lock>>
         \/ /\ plugins[n].code = beat.at[2] /\ pings < MaxPings
            /\ plugins' = [plugins EXCEPT ![n].pings = pings]
            /\ beat' = [beat EXCEPT !.phase = "idle", !.at = <<>>]
            /\ UNCHANGED lock
         \/ /\ plugins[n].code = beat.at[2] /\ pings >= MaxPings
            /\ plugins' = [plugins EXCEPT ![n].pings = pings, ![n].state = "Failed", ![n].ipc = FALSE]
            /\ beat' = [beat EXCEPT !.phase = "writing"]
            /\ WantsWrite("beat")
      /\ UNCHANGED <<scope, inst, hooks, rx, inflight, chain, ops, exits, down>>

BeatWrite ==
  /\ beat.phase = "writing" /\ MayWrite("beat") /\ Written
  /\ hooks' = remove_plugin_instance(hooks, beat.at[2])
  /\ beat' = [beat EXCEPT !.phase = "idle", !.at = <<>>]
  /\ UNCHANGED <<scope, plugins, inst, rx, inflight, io, chain, ops, exits, down>>

-------------------------------------------------------------------------------
Control(o) == start_plugin(o) \/ stop_plugin(o) \/ restart_plugin(o) \/ shutdown(o)
Stopping(o) == SendAbort(o) \/ StopReturns(o) \/ ShutdownNext(o)
WaitTask(i) == Abort(i) \/ ReportExit(i) \/ WaitEnds(i)
Connection(i) == ReadInit(i) \/ Deliver(i) \/ ConnectionEnds(i)
Plugin(i) == Exit(i) \/ Connect(i) \/ AnswerInit(i) \/ Answer(i)
RxTask == RxTake \/ RxWrite
Call(c) == TakeHooks(c) \/ NextPlugin(c) \/ SendRequest(c) \/ TimedOut(c) \/ Outcome(c) \/ CallReturns(c)
Heartbeat == Tick \/ Ping \/ SendRequest("beat") \/ TimedOut("beat") \/ PingResult \/ BeatWrite

Next ==
  \/ \E o \in Ops : Control(o) \/ Stopping(o)
  \/ \E i \in DOMAIN inst : WaitTask(i) \/ Connection(i) \/ Plugin(i)
  \/ RxTask
  \/ \E c \in Calls : CallHook(c) \/ Call(c)
  \/ Heartbeat

\* The host's tasks and calls go on as long as they can, and plugins read what
\* they are sent; they need not connect, answer or exit.
Instances == 1 .. Cardinality(Names) + Cardinality(Ops)
Fairness ==
  /\ \A o \in Ops : WF_vars(Stopping(o))
  /\ \A i \in Instances : WF_vars(i \in DOMAIN inst /\ WaitTask(i)) /\ WF_vars(i \in DOMAIN inst /\ Connection(i))
  /\ WF_vars(RxTask)
  /\ \A c \in Calls : WF_vars(Call(c))
  /\ WF_vars(Heartbeat)

Spec == Init /\ [][Next]_vars /\ Fairness

-------------------------------------------------------------------------------
(* Properties *)

\* Type invariant: entries, instances, requests and tasks are well formed.
TypeOK ==
  /\ \A n \in DOMAIN plugins :
       /\ plugins[n].state \in {"Starting", "Running", "Stopping", "Stopped", "Failed"}
       /\ plugins[n].code \in DOMAIN inst /\ inst[plugins[n].code].name = n
  /\ \A i \in DOMAIN inst :
       /\ inst[i].wait \in {"waiting", "reported", "heard", "done"} /\ Len(inst[i].sent) <= Capacity
       /\ Len(inst[i].aborts) <= 1 /\ Len(inst[i].notify) <= 1
  /\ lock.readers \subseteq Calls /\ Len(lock.writers) <= 2
  /\ \A o \in Ops : ops[o].phase \in {"idle", "aborting", "stopping", "stopped", "ok", "failed"}

\* A hook registration belongs to the current, running instance of its plugin,
\* or its removal is on the way: the instance's exit has yet to be handled
\* (plugin_manager.rs:791), or the heartbeat task has found it dead (:632).
\* So a chain never keeps an instance that is gone for good.  Two exceptions:
\* without the rx task nothing is removed; and an instance initialized after
\* its exit was handled registers hooks that a restart meanwhile leaves behind.
NoStaleHooks ==
  rx.phase # "ended" =>
    \A h \in ToSet(hooks) :
      \/ h.name \in DOMAIN plugins /\ plugins[h.name].code = h.code /\ plugins[h.name].state = "Running"
      \/ inst[h.code].wait # "done" \/ inst[h.code].late
      \/ beat.phase = "writing" /\ beat.at[2] = h.code

\* A call's result is what the answers it got, in priority order, stand for:
\* Authenticate needs a yes, no timeout, and one tenant; Authorize no refusal
\* and no timeout; OnMessagePublish hands each modification to the next plugin;
\* OnMessageSubscribe keeps the last word.  Nobody is asked after a refusal.
LastWord(heard, Test(_), default) ==
  LET ks == {k \in DOMAIN heard : Test(heard[k].out)}
  IN  IF ks = {} THEN default ELSE heard[CHOOSE k \in ks : \A j \in ks : j <= k].out.reply[1]
Original == [yes |-> TRUE, val |-> 1, cont |-> TRUE]
Modifies(out) == Decoded(out) /\ out.reply[1].val # 0
Refuses(out) == Decoded(out) /\ ~out.reply[1].yes
VerdictFollows ==
  \A c \in Calls :
    LET heard == chain[c].heard
        said == {h.out : h \in ToSet(heard)}
        late == \E out \in said : out.kind = "timeout"
        refused == \E out \in said : Refuses(out)
        words == {out.reply[1] : out \in {out \in said : Decoded(out)}}
        result == chain[c].acc
    IN  chain[c].phase = "done" /\ heard # <<>> =>
          /\ \A j, k \in DOMAIN heard : j < k =>
               scope.priority[inst[heard[j].code].name] <= scope.priority[inst[heard[k].code].name]
          /\ scope.hook \in {"Authenticate", "Authorize", "OnMessagePublish"} =>
               \A k \in 1 .. Len(heard) - 1 : ~Refuses(heard[k].out)
          /\ scope.hook = "Authenticate" =>
               (result.yes <=> ~late /\ ~refused /\ Cardinality({w.val : w \in words}) = 1)
          /\ scope.hook = "Authorize" => (result.yes <=> ~late /\ ~refused)
          /\ scope.hook = "OnMessagePublish" =>
               /\ result.yes <=> ~refused
               /\ result.val = LastWord(heard, Modifies, Original).val
               /\ \A k \in DOMAIN heard : heard[k].sent = LastWord(SubSeq(heard, 1, k - 1), Modifies, Original).val
          /\ scope.hook = "OnMessageSubscribe" =>
               LET w == LastWord(heard, Decoded, Original) IN result.yes = w.yes /\ result.val = w.val

\* Every hook call returns and every stop ends: with an answer, a timeout, or
\* the end of the connection.  Each is made once, so that it is enough that
\* none is in progress again and again.
Settles ==
  []<>( /\ \A c \in Calls : chain[c].phase \in {"idle", "done"}
        /\ \A o \in Ops : ops[o].phase \in {"idle", "ok", "failed"} )

===============================================================================
