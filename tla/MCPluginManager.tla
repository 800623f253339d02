---------------------------- MODULE MCPluginManager ----------------------------
(* Situations small enough for TLC, each about one part of the plugin host. *)
EXTENDS PluginManager

MCNames == {"a", "b"}
MCOps == {"o1", "o2"}
MCCalls == {"c1", "c2"}

Nothing == [kind |-> "none", name |-> "a"]
On(n, kind) == [kind |-> kind, name |-> n]
Requested(first, second) == ("o1" :> first) @@ ("o2" :> second)

Base ==
  [up |-> {"a"}, declares |-> {"a", "b"}, priority |-> ("a" :> 1) @@ ("b" :> 2), hook |-> "Authorize",
   default |-> FALSE, ops |-> Requested(Nothing, Nothing), calls |-> {}, replies |-> {<<>>},
   exits |-> 0, beats |-> FALSE, breaks |-> FALSE, malformed |-> FALSE]

Says(yes, val, cont) == <<[yes |-> yes, val |-> val, cont |-> cont]>>

\* Two control requests for one plugin, whose process may exit by itself.
ControlScopes ==
  {[Base EXCEPT !.ops = Requested(On("a", p[1]), On("a", p[2])), !.exits = 1] :
     p \in {<<"start", "stop">>, <<"stop", "stop">>, <<"stop", "restart">>, <<"restart", "restart">>}}
  \cup {[Base EXCEPT !.ops = Requested(On("a", k), On("a", "restart")), !.exits = 1, !.breaks = TRUE] :
          k \in {"none", "start"}}

\* Heartbeats while the plugin exits, does not answer or is restarted.
BeatScopes ==
  { [Base EXCEPT !.exits = 1, !.beats = TRUE],
    [Base EXCEPT !.ops = Requested(On("a", "restart"), Nothing), !.beats = TRUE],
    [Base EXCEPT !.up = {}, !.ops = Requested(On("a", "start"), Nothing), !.exits = 1, !.beats = TRUE] }

\* Two plugins in a chain, one of which may exit.
ChainScopes ==
  {[Base EXCEPT !.up = MCNames, !.hook = h, !.calls = {"c1"}, !.exits = 1,
                !.replies = {<<>>, Says(TRUE, 2, TRUE), Says(TRUE, 3, h = "Authenticate"), Says(TRUE, 0, TRUE), Says(FALSE, 2, TRUE)}] :
     h \in Requests}

\* Calls that hold the lock while another plugin is stopped.
LockScopes ==
  {[Base EXCEPT !.up = MCNames, !.hook = h, !.calls = MCCalls, !.declares = {"a"}, !.replies = {Says(TRUE, 2, TRUE)},
                !.ops = Requested(On("b", "stop"), Nothing)] : h \in {"Authorize", "Event"}}

\* Plugins that do not speak the protocol, and the end of the broker.
OtherScopes ==
  { [Base EXCEPT !.malformed = TRUE, !.ops = Requested(On("b", "start"), On("a", "stop"))],
    [Base EXCEPT !.calls = {"c1"}, !.ops = Requested(On("a", "shutdown"), On("b", "start"))],
    [Base EXCEPT !.ops = Requested(On("a", "shutdown"), On("a", "stop"))] }

MCScopes == ControlScopes \cup BeatScopes \cup ChainScopes \cup LockScopes \cup OtherScopes

===============================================================================
