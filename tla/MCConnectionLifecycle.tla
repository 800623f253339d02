------------------------- MODULE MCConnectionLifecycle -------------------------
(* Clients small enough for TLC: each covers one way a connection may end. *)
EXTENDS ConnectionLifecycle

Client(version, clean, expires, sends) ==
  [version |-> version, clean_start |-> clean, expires |-> expires, named |-> TRUE, will |-> TRUE,
   delay |-> FALSE, recovers |-> FALSE, first |-> "connect", sends |-> sends, retries |-> 0, stops |-> 0]

MCSetups ==
  { Client(3, TRUE, FALSE, <<"disconnect">>),
    Client(3, FALSE, FALSE, <<"pingreq">>),
    Client(5, TRUE, FALSE, <<"auth">>),
    Client(5, TRUE, TRUE, <<"disconnect0">>),
    Client(5, FALSE, TRUE, <<"badexpiry">>),
    Client(5, FALSE, FALSE, <<>>),
    [Client(5, FALSE, TRUE, <<"malformed">>) EXCEPT !.will = FALSE],
    [Client(5, FALSE, TRUE, <<>>) EXCEPT !.named = FALSE],
    [Client(5, TRUE, TRUE, <<>>) EXCEPT !.delay = TRUE],
    [Client(3, TRUE, FALSE, <<>>) EXCEPT !.first = "unsupported"],
    [Client(3, TRUE, FALSE, <<>>) EXCEPT !.first = "malformed"],
    [Client(3, TRUE, FALSE, <<>>) EXCEPT !.first = "other"],
    [Client(3, FALSE, FALSE, <<>>) EXCEPT !.retries = 1],
    [Client(3, FALSE, FALSE, <<>>) EXCEPT !.recovers = TRUE],
    [Client(3, TRUE, FALSE, <<>>) EXCEPT !.stops = 1],
    [Client(3, FALSE, FALSE, <<>>) EXCEPT !.stops = 1] }

===============================================================================
