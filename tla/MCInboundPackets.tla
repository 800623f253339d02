--------------------------- MODULE MCInboundPackets ---------------------------
\* InboundPackets for clients that send up to three packets.
EXTENDS InboundPackets, TLC

P(kind, id, level, flag, list, handling) ==
  [kind |-> kind, id |-> id, qos |-> level, retain |-> flag, filters |-> list,
   handling |-> handling]

Publish(id, level, flag) == P("publish", id, level, flag, <<>>, "always")
Pubrel(id) == P("pubrel", id, 0, "no", <<>>, "always")
Subscribe(list, handling) == P("subscribe", 1, 0, "no", list, handling)
Unsubscribe(list) == P("unsubscribe", 1, 0, "no", list, "always")
Message == P("message", 1, 0, "no", <<>>, "always")
Ping == P("pingreq", 1, 0, "no", <<>>, "always")

Client(persistent, paced, own, list, e, r) ==
  [persistent |-> persistent, paced |-> paced, self |-> own, packets |-> list,
   errors |-> e, refusals |-> r]

\* A client that sends several packets at once sends only PUBLISH packets, or
\* none; the others wait for each answer.
MCScripts ==
  LET flows == {<<Publish(1, 2, "set"), Pubrel(1), Publish(1, 2, "no")>>,
                <<Subscribe(<<"a", "b">>, "new"), Publish(1, 1, "set"), Subscribe(<<"a">>, "new")>>,
                <<Subscribe(<<"a", "b">>, "always"), Unsubscribe(<<"a", "b">>), Publish(2, 1, "clear")>>,
                <<Publish(1, 1, "set"), Publish(2, 0, "clear"), Ping>>}
      burst == <<Publish(1, 1, "set"), Publish(2, 2, "set"), Publish(2, 0, "clear")>>
  IN  {Client(p, TRUE, FALSE, f, 2, 1) : p \in BOOLEAN, f \in flows}
      \cup {Client(FALSE, TRUE, TRUE, f, 2, 1) : f \in flows}
      \cup {Client(p, FALSE, FALSE, burst, 0, 0) : p \in BOOLEAN}
      \cup {Client(TRUE, FALSE, FALSE, SubSeq(burst, 1, 2), 1, 1)}
      \cup {Client(p, FALSE, FALSE, <<Subscribe(<<"a">>, "new"), Message, Unsubscribe(<<"a">>)>>, 1, 1) :
              p \in BOOLEAN}

\* A client that sends a SUBSCRIBE right after a PUBLISH.
MCPipelined == {Client(FALSE, FALSE, FALSE, <<Publish(1, 1, "no"), Subscribe(<<"a">>, "new")>>, 0, 0)}
===============================================================================
