------------------------------- MODULE HookChain -------------------------------
(***************************************************************************)
(* Hook registrations and hook chains of the plugin host                   *)
(* (plugin_host/src/hook/manager.rs and the call_* methods of              *)
(* plugin_host/src/plugin_manager.rs), as operators.                       *)
(*                                                                         *)
(* The registrations of one hook are a sequence of records: the plugin's   *)
(* name, the instance (its auth_code) and its priority.  A hook nobody     *)
(* registered has no entry in the map: the empty sequence.                 *)
(*                                                                         *)
(* What one plugin of a chain contributes is an outcome: an answer, a      *)
(* timeout or a failed send.  An answer that does not decode, or has       *)
(* another type, is <<>>; a decoded one is <<[yes, val, cont]>>, where     *)
(* yes is authenticated, authorized, allow or allowed; val is the tenant   *)
(* identifier, the modified message (0: none) or the granted QoS; cont is  *)
(* continue_chain.                                                         *)
(***************************************************************************)
EXTENDS Integers, Sequences

register_hook(hooks, name, code, priority) ==
  LET new == [name |-> name, code |-> code, priority |-> priority]
      upTo == SelectSeq(hooks, LAMBDA h : h.priority <= priority)
      above == SelectSeq(hooks, LAMBDA h : h.priority > priority)
  IN  upTo \o <<new>> \o above

remove_plugin_instance(hooks, code) == SelectSeq(hooks, LAMBDA h : h.code # code)

remove_plugin_name(hooks, name) == SelectSeq(hooks, LAMBDA h : h.name # name)

\* A plugin that does not declare this hook registers nothing for it.
replace_plugin_hooks(hooks, name, code, declares, priority) ==
  LET kept == remove_plugin_name(hooks, name)
  IN  IF declares THEN register_hook(kept, name, code, priority) ELSE kept

Requests == {"Authenticate", "Authorize", "OnMessagePublish", "OnMessageSubscribe"}

\* ClientConnected, ClientDisconnected, MessagePublished, SubscribeAdded, SubscribeRemoved
Hooks == Requests \cup {"Event"}

Answered(r) == [kind |-> "answer", reply |-> r]
Timeout == [kind |-> "timeout", reply |-> <<>>]
SendError == [kind |-> "error", reply |-> <<>>]
Decoded(out) == out.kind = "answer" /\ out.reply # <<>>

\* What a chain starts from: val is what the request carries.
ChainStart(hook, val) ==
  [yes |-> hook # "Authenticate", val |-> IF hook \in {"Authenticate", "Authorize"} THEN 0 ELSE val,
   first |-> TRUE, over |-> FALSE]

\* What a call returns when no plugin registered the hook.
WithoutHooks(hook, val, default) ==
  [ChainStart(hook, val) EXCEPT !.yes = IF hook \in {"Authenticate", "Authorize"} THEN default ELSE @,
                                !.over = TRUE]

Denied(acc, val) == [acc EXCEPT !.yes = FALSE, !.val = val, !.over = TRUE]

call_authenticate_hook_patient(acc, out) ==
  LET r == out.reply[1]
  IN  CASE Decoded(out) /\ ~r.yes -> Denied(acc, r.val)
        [] Decoded(out) /\ r.yes /\ ~acc.first /\ r.val # acc.val -> Denied(acc, 0)
        [] Decoded(out) /\ r.yes /\ (acc.first \/ r.val = acc.val) ->
             [acc EXCEPT !.yes = TRUE, !.val = r.val, !.first = FALSE]
        [] OTHER -> acc
call_authenticate_hook(acc, out) ==
  LET r == out.reply[1]
  IN  CASE out.kind = "timeout" -> Denied(acc, 0)
        [] Decoded(out) /\ ~r.yes -> Denied(acc, r.val)
        [] Decoded(out) /\ r.yes /\ ~acc.first /\ r.val # acc.val -> Denied(acc, 0)
        [] Decoded(out) /\ r.yes /\ (acc.first \/ r.val = acc.val) ->
             [acc EXCEPT !.yes = TRUE, !.val = r.val, !.first = FALSE]
        [] OTHER -> acc

call_authorize_hook(acc, out) ==
  IF out.kind = "timeout" \/ (Decoded(out) /\ ~out.reply[1].yes) THEN Denied(acc, 0) ELSE acc

call_on_message_publish(acc, out) ==
  LET r == out.reply[1]
  IN  IF Decoded(out)
      THEN [acc EXCEPT !.yes = r.yes, !.val = IF r.val = 0 THEN @ ELSE r.val, !.over = ~r.yes \/ ~r.cont]
      ELSE acc

call_on_message_subscribe(acc, out) ==
  LET r == out.reply[1]
  IN  IF Decoded(out) THEN [acc EXCEPT !.yes = r.yes, !.val = r.val, !.over = ~r.cont] ELSE acc

ChainStep(hook, acc, out) ==
  CASE hook = "Authenticate" -> call_authenticate_hook(acc, out)
    [] hook = "Authorize" -> call_authorize_hook(acc, out)
    [] hook = "OnMessagePublish" -> call_on_message_publish(acc, out)
    [] hook = "OnMessageSubscribe" -> call_on_message_subscribe(acc, out)
    [] hook = "Event" -> acc

===============================================================================
