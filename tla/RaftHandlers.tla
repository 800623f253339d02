---------------------------- MODULE RaftHandlers ----------------------------
(***************************************************************************)
(* The shape that the message handlers of the three Raft actors share      *)
(* (topic, session state, session actor map).  Every handler first looks   *)
(* at the state of its actor:                                              *)
(*   Initializing   it refuses the message, or keeps it and refuses it, or *)
(*                  keeps it and answers Ok, or answers with nothing       *)
(*   Failed, Stopped  it refuses the message                               *)
(*   Running        it does its work, and if the work needs the leader and *)
(*                  this node is not the leader, it gives up or calls an   *)
(*                  RPC of the leader                                      *)
(* A handler is a record of these choices.  Two messages whose handlers    *)
(* make the same choices are the same record: what they carry is data.     *)
(***************************************************************************)

\* type         "command" for what is sent again after initialization, "clean"
\*              for the clean-up of inflight packets, "other" for the rest
\* work         what a running actor does
\* initializing what an initializing actor does
\* forwards     whether the handler calls the leader
\* remote       the handler a forwarded read reaches, if it is not its own
\* reports      the answers of the state machine that become errors
Handler(type, work, initializing, forwards) ==
  [type |-> type, work |-> work, initializing |-> initializing,
   forwards |-> forwards, remote |-> <<>>, reports |-> {}]

Reporting(h, reports) == [h EXCEPT !.reports = reports]
Reaching(h, remote) == [h EXCEPT !.remote = <<remote>>]

\* A call of a service: the message it sends to the local actor, and the
\* RPC it makes itself when the actor answers that another node is leader.
Entry(handler, forward) == [handler |-> handler, forward |-> forward]

Types == {"command", "clean", "other"}
Works == {"write", "local_read", "leader_read", "raft", "member", "metrics"}
Rejections == {"inflight", "missing"}
=============================================================================
