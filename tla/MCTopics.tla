------------------------------- MODULE MCTopics -------------------------------
(***************************************************************************)
(* The scopes that the topic storage, its replica and the router are       *)
(* checked in.                                                             *)
(***************************************************************************)
EXTENDS RouteFanOut

Sub(tenant, client, share, levels, no_local) ==
  [op |-> "subscribe", tenant |-> tenant, client |-> client, filter |-> Filter(share, levels),
   qos |-> 1, no_local |-> no_local]
Unsub(tenant, client, share, levels) ==
  [op |-> "unsubscribe", tenant |-> tenant, client |-> client, filter |-> Filter(share, levels)]
Retain(tenant, levels, packet) ==
  [op |-> "retain", tenant |-> tenant, client |-> 1, topic |-> levels, packet |-> packet]
Clean(tenant, levels) == [op |-> "clean_retain", tenant |-> tenant, topic |-> levels]

After(s, commands) == FoldLeft(Effect, s, commands)

NoRoutes == [packets |-> <<>>, sessions |-> <<>>, tenants |-> {}, moves |-> 0, failures |-> FALSE]
NoFaults == [snapshots |-> FALSE, crashes |-> 0, dropped |-> 0]

\* Lookups: two commands after some subscriptions and retained packets.
a == <<"a">>
ab == <<"a", "b">>
Sharp == <<"a", "#">>
Plus == <<"+", "b">>
Lookups == NoRoutes @@ NoFaults @@
  [decided |-> 2,
   base |-> After(New, <<Sub("public", 1, "", <<"#">>, FALSE), Sub("public", 1, "", Plus, FALSE),
                         Sub("public", 2, "g", ab, FALSE), Retain("public", a, 1)>>),
   script |-> LET c == {Sub("public", 1, "", ab, FALSE), Sub("public", 2, "", Sharp, FALSE),
                        Sub("public", 2, "", ab, FALSE), Sub("public", 2, "g", <<"+">>, FALSE),
                        Sub("public", 1, "empty", a, FALSE), Sub("public", 1, "", <<"#", "a">>, FALSE),
                        Sub("t", 1, "", ab, FALSE), Unsub("public", 2, "", ab),
                        Unsub("public", 2, "g", ab), Unsub("public", 1, "", <<"#">>),
                        Unsub("public", 1, "", <<"c">>), Retain("public", ab, 2),
                        Retain("public", a, 3), Clean("public", a), Clean("public", <<"c">>),
                        [op |-> "create_tenant", tenant |-> "t"], [op |-> "blank"]}
              IN <<c, c>>]
MCTopicSet == {a, ab, <<"b">>, <<"a", "b", "c">>}
MCFilters == {a, ab, <<"#">>, Sharp, Plus, <<"+">>, <<"+", "#">>, <<"a", "b", "#">>}

\* The replica: crashes, snapshots and an entry that is dropped.  The first
\* snapshot was written by a version that kept subscriptions under other keys.
Legacy == [After(New, <<Sub("public", 2, "", a, FALSE)>>) EXCEPT
             !.subs = {[x EXCEPT !.key = legacy_normal_subscription_key(x.client)] : x \in @}]
Replica == NoRoutes @@
  [decided |-> 3, base |-> Legacy, snapshots |-> TRUE, crashes |-> 1, dropped |-> 1,
   script |-> <<{Sub("public", 1, "", a, FALSE), Sub("t", 1, "", a, FALSE)},
                {Unsub("public", 1, "", a), Retain("public", a, 1), Retain("t", a, 1)},
                {Unsub("public", 2, "", a), Clean("public", a)}>>]

\* Routing while a subscription is made or ended and a session moves.
Members == After(New, <<Sub("public", 1, "", a, FALSE), Sub("public", 2, "", <<"+">>, TRUE),
                        Sub("public", 1, "g", a, FALSE), Sub("public", 3, "g", a, FALSE)>>)
Route(source) == [kind |-> "route", tenant |-> "public", topic |-> a, source |-> source, expires |-> FALSE]
Moving == NoFaults @@
  [decided |-> 0, base |-> Members, packets |-> <<Route(2)>>, tenants |-> {"public"},
   sessions |-> <<"here", "away", "here">>, moves |-> 1, failures |-> TRUE,
   script |-> <<{Sub("public", 2, "", a, FALSE), Unsub("public", 1, "", a)}>>]
Missing == NoFaults @@
  [decided |-> 0, base |-> New, packets |-> <<[Route(1) EXCEPT !.expires = TRUE]>>,
   tenants |-> {"public"},
   sessions |-> <<"here", "away">>, moves |-> 1, failures |-> TRUE,
   script |-> <<{Sub("public", 1, "", a, FALSE)}, {Sub("public", 2, "g", a, FALSE)}>>]
Turns == NoFaults @@
  [decided |-> 0, base |-> Members, tenants |-> {"public"}, script |-> <<>>,
   packets |-> <<Route(0), Route(0), Route(0), [Route(0) EXCEPT !.kind = "local"]>>,
   sessions |-> <<"here", "away", "here">>, moves |-> 0, failures |-> FALSE]
Broadcast == NoFaults @@
  [decided |-> 0, base |-> After(Members, <<Sub("t", 4, "", a, FALSE)>>), tenants |-> {"public", "t"},
   script |-> <<>>, packets |-> <<[Route(0) EXCEPT !.kind = "all"], [Route(0) EXCEPT !.kind = "all", !.expires = TRUE]>>,
   sessions |-> <<"here", "away", "dead", "here">>, moves |-> 1, failures |-> FALSE]

MCScopes == {Lookups, Replica, Moving, Missing, Turns, Broadcast}
=============================================================================
