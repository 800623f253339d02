-------------------------- MODULE MCOutboundDelivery --------------------------
\* OutboundDelivery for small sessions.
EXTENDS OutboundDelivery, TLC

CONSTANTS m1, m2, m3

MCwanted == [m \in Msgs |-> IF m = m3 THEN 0 ELSE 1]
MCqos == [m \in Msgs |-> IF m = m2 THEN 2 ELSE 1]

Session(persistent, v5, maximum, msgs, early, rx, e, r, s) ==
  [persistent |-> persistent, v5 |-> v5, receive_maximum |-> maximum,
   msgs |-> msgs, early |-> early, rx |-> rx, errors |-> e, retries |-> r, stops |-> s]

\* Two messages with every fault; three with fewer.
MCSessions ==
  {Session(TRUE, TRUE, 1, {m1, m2}, TRUE, {3}, 1, 0, 1),
   Session(TRUE, TRUE, 2, {m1, m2, m3}, FALSE, {}, 0, 0, 1),
   Session(TRUE, TRUE, 0, {m1, m2, m3}, FALSE, {}, 1, 0, 0),
   Session(TRUE, FALSE, 1, {m1, m2}, TRUE, {}, 1, 0, 1),
   Session(TRUE, TRUE, 1, {m1, m2}, FALSE, {}, 1, 1, 0),
   Session(FALSE, TRUE, 1, {m1, m2, m3}, FALSE, {3}, 0, 0, 1),
   Session(FALSE, FALSE, 1, {m1, m2}, TRUE, {}, 0, 1, 0)}
===============================================================================
