----------------------------- MODULE TopicStorage -----------------------------
(***************************************************************************)
(* The subscription and retained message trees (topic/topic_storage.rs),   *)
(* one per tenant.  A node of a tree is the sequence of levels that leads  *)
(* to it, so the children of a node are the paths one level longer.        *)
(*                                                                         *)
(* A storage is a record:                                                  *)
(*   tenants   the tenants that have a tree                                *)
(*   nodes     the nodes that exist, [tenant, path]; none is ever removed  *)
(*   subs      the subscriptions kept at the nodes, each under its key     *)
(*   retained  the retained packets kept at the nodes                      *)
(*   topic_info_recorder, retain_message_recorder                          *)
(*             the flat copies of both that the lists of the API are read  *)
(*             from                                                        *)
(* An operation is the storage after it; an error leaves it as it is.      *)
(***************************************************************************)
EXTENDS Naturals, Sequences, SequencesExt

\* A topic filter as a client writes it: [share, levels], share "" for a normal
\* one.  parse_shared_subscription_filter takes it apart.
Filter(share, levels) == [share |-> share, levels |-> levels]

\* test_topic: "#" is the last level, and no level mixes a wildcard with text.
test_topic(levels) ==
  /\ \A i \in 1..(Len(levels) - 1) : levels[i] # "#"
  /\ \A i \in DOMAIN levels : levels[i] # "mixed"

is_valid_share_name(share) == share \notin {"empty", "mixed"}

\* The normalized filter, or that the filter is no good.
parse_shared_subscription_filter(f) ==
  f.share # "" => is_valid_share_name(f.share) /\ f.levels # <<>> /\ test_topic(f.levels)

normal_subscription_key(client) == <<"$normal", client>>
legacy_normal_subscription_key(client) == <<client>>
shared_subscription_key(client, share) == <<"$shared", client, share>>
node_key(client, share) ==
  IF share = "" THEN normal_subscription_key(client) ELSE shared_subscription_key(client, share)

Empty == [tenants |-> {}, nodes |-> {}, subs |-> {}, retained |-> {},
          topic_info_recorder |-> {}, retain_message_recorder |-> {}]

create_tenant(s, tenant) ==
  [s EXCEPT !.tenants = @ \cup {tenant}, !.nodes = @ \cup {[tenant |-> tenant, path |-> <<>>]}]

New == create_tenant(Empty, "public")

\* find_or_create_leaf on the way down.
WayTo(tenant, levels) == {[tenant |-> tenant, path |-> SubSeq(levels, 1, i)] : i \in 0..Len(levels)}

\* Whether get_leaf finds every node on the way down.
Reaches(s, tenant, levels) == [tenant |-> tenant, path |-> levels] \in s.nodes

-----------------------------------------------------------------------------
(* Subscriptions *)

add_subscription(subs, sub) ==
  {x \in subs : ~(x.tenant = sub.tenant /\ x.path = sub.path /\ x.key = sub.key)} \cup {sub}

recursion_subscribe(s, sub) ==
  [s EXCEPT !.nodes = @ \cup WayTo(sub.tenant, sub.path), !.subs = add_subscription(@, sub)]

\* The flat copy keeps the QoS of the first subscription (or_insert), so it is
\* left out of it here.
subscribe_with_options(s, c) ==
  LET sub == [tenant |-> c.tenant, path |-> c.filter.levels,
              key |-> node_key(c.client, c.filter.share),
              client |-> c.client, share |-> c.filter.share, qos |-> c.qos, no_local |-> c.no_local]
      info == [tenant |-> c.tenant, client |-> c.client, filter |-> c.filter]
  IN  IF ~parse_shared_subscription_filter(c.filter) \/ ~test_topic(c.filter.levels)
           \/ c.tenant \notin s.tenants
      THEN s
      ELSE [recursion_subscribe(s, sub) EXCEPT !.topic_info_recorder = @ \cup {info}]

\* Under the keys given, only the client's own subscription with that share.
remove_subscriptions(subs, tenant, path, keys, client, share) ==
  {x \in subs : ~(/\ x.tenant = tenant /\ x.path = path /\ x.key \in keys
                  /\ x.client = client /\ x.share = share)}

unsubscribe(s, c) ==
  LET keys == IF c.filter.share # "" THEN {shared_subscription_key(c.client, c.filter.share)}
              ELSE {normal_subscription_key(c.client), legacy_normal_subscription_key(c.client)}
      info == [tenant |-> c.tenant, client |-> c.client, filter |-> c.filter]
  IN  IF ~parse_shared_subscription_filter(c.filter) \/ c.tenant \notin s.tenants
           \/ ~Reaches(s, c.tenant, c.filter.levels)
      THEN s
      ELSE [s EXCEPT !.subs = remove_subscriptions(@, c.tenant, c.filter.levels, keys,
                                                   c.client, c.filter.share),
                     !.topic_info_recorder = @ \ {info}]

SubscriptionsAt(s, tenant, path) == {x \in s.subs : x.tenant = tenant /\ x.path = path}

RECURSIVE recursion_get_subscriptions(_, _, _, _)
recursion_get_subscriptions(s, tenant, node, rest) ==
  IF rest = <<>> THEN SubscriptionsAt(s, tenant, node)
  ELSE SubscriptionsAt(s, tenant, Append(node, "#"))
       \cup UNION {recursion_get_subscriptions(s, tenant, Append(node, level), Tail(rest)) :
                     level \in {l \in {"+", Head(rest)} : Reaches(s, tenant, Append(node, l))}}

get_subscriptions(s, tenant, topic) == recursion_get_subscriptions(s, tenant, <<>>, topic)

-----------------------------------------------------------------------------
(* Retained packets *)

set_retain_publish_message(retained, tenant, path, packet) ==
  {r \in retained : ~(r.tenant = tenant /\ r.path = path)}
  \cup {[tenant |-> tenant, path |-> path, packet |-> packet]}

\* Whether register_retain_publish_packet refuses; its caller must know.
RetainRefused(s, c) == ~test_topic(c.topic) \/ c.tenant \notin s.tenants

register_retain_publish_packet(s, c) ==
  IF RetainRefused(s, c) THEN s
  ELSE [s EXCEPT !.nodes = @ \cup WayTo(c.tenant, c.topic),
                 !.retained = set_retain_publish_message(@, c.tenant, c.topic, c.packet),
                 !.retain_message_recorder =
                   {r \in @ : ~(r.tenant = c.tenant /\ r.topic = c.topic)}
                   \cup {[tenant |-> c.tenant, topic |-> c.topic, client |-> c.client]}]

clean_retain_publish_packet(s, c) ==
  IF c.tenant \notin s.tenants \/ ~Reaches(s, c.tenant, c.topic) THEN s
  ELSE [s EXCEPT !.retained = {r \in @ : ~(r.tenant = c.tenant /\ r.path = c.topic)},
                 !.retain_message_recorder =
                   {r \in @ : ~(r.tenant = c.tenant /\ r.topic = c.topic)}]

RetainedAt(s, tenant, path) == {r \in s.retained : r.tenant = tenant /\ r.path = path}
Leaves(s, tenant, node) ==
  {n.path : n \in {m \in s.nodes : m.tenant = tenant /\ m.path # <<>> /\ Front(m.path) = node}}

\* Mutant: only what is below the node.
RECURSIVE collect_retain_subtree_below(_, _, _)
collect_retain_subtree_below(s, tenant, node) ==
  UNION {RetainedAt(s, tenant, leaf) \cup collect_retain_subtree_below(s, tenant, leaf) :
           leaf \in Leaves(s, tenant, node)}

RECURSIVE collect_retain_subtree(_, _, _)
collect_retain_subtree(s, tenant, node) ==
  RetainedAt(s, tenant, node)
  \cup UNION {collect_retain_subtree(s, tenant, leaf) : leaf \in Leaves(s, tenant, node)}

RECURSIVE recursion_get_retain_packet(_, _, _, _)
recursion_get_retain_packet(s, tenant, node, rest) ==
  CASE rest = <<>> -> RetainedAt(s, tenant, node)
    [] rest # <<>> /\ Head(rest) = "#" -> collect_retain_subtree(s, tenant, node)
    [] rest # <<>> /\ Head(rest) = "+" ->
         UNION {recursion_get_retain_packet(s, tenant, leaf, Tail(rest)) :
                  leaf \in Leaves(s, tenant, node)}
    [] OTHER ->
         IF Reaches(s, tenant, Append(node, Head(rest)))
         THEN recursion_get_retain_packet(s, tenant, Append(node, Head(rest)), Tail(rest)) ELSE {}

\* A packet that has expired stays in the tree and is not given out.
get_retain_publish_packet(s, tenant, levels, expired) ==
  IF ~test_topic(levels) \/ tenant \notin s.tenants THEN {}
  ELSE {r \in recursion_get_retain_packet(s, tenant, <<>>, levels) : r.packet \notin expired}

-----------------------------------------------------------------------------
(* Snapshots: a stored subscription is given the key that its fields say.  *)

to_serializable(s) == s
from_serializable(s) == [s EXCEPT !.subs = {[x EXCEPT !.key = node_key(x.client, x.share)] : x \in @}]

-----------------------------------------------------------------------------
(* What a filter matches, in one line: each level is the same or "+", and  *)
(* "#" stands for what is left of the topic.  parent tells whether "a/#"   *)
(* matches "a".                                                            *)
Matches(filter, topic, parent) ==
  LET sharp == filter # <<>> /\ Last(filter) = "#"
      fixed == IF sharp THEN Front(filter) ELSE filter
  IN  /\ IF sharp THEN Len(topic) >= Len(fixed) /\ (Len(topic) = Len(fixed) => parent)
         ELSE Len(topic) = Len(fixed)
      /\ \A i \in DOMAIN fixed : fixed[i] \in {"+", topic[i]}
=============================================================================
