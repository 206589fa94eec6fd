---------------------------- MODULE MCSeatHolds ----------------------------
(* Small instances of SeatHolds for TLC. *)
EXTENDS SeatHolds

CONSTANTS c1, c2, g0, h1, h2, k1, k2, key

Seat(c) == [cabin |-> c, quantity |-> 1]

\* One cabin: every hold request wants one seat of it.
OneCabin == {c1}
OneSeatEach == [g \in Holders |-> <<Seat(c1)>>]

\* Two cabins: two-leg trips, h2's with the legs in the opposite order.
TwoCabins == {c1, c2}
OppositeLegs ==
    [g \in Holders |-> IF g = h2 THEN <<Seat(c2), Seat(c1)>> ELSE <<Seat(c1), Seat(c2)>>]

\* Two cabins: two-leg trips in the same order, one of them an old hold, and
\* a party of two in one cabin.
Trips ==
    [g \in Holders |-> IF g \in {g0, h1} THEN <<Seat(c1), Seat(c2)>>
                       ELSE <<[cabin |-> c2, quantity |-> 2]>>]

OneEach == [c \in Cabins |-> 1]
TwoEach == [c \in Cabins |-> 2]

\* Which group each confirm request names, and under which key.
OldGroup == [r \in Confirmers |-> g0]
SameKey == [r \in Confirmers |-> key]
NoKeys == [r \in Confirmers |-> NoKey]
NotWaiting == [r \in Confirmers |-> {}]
SecondWaits == [r \in Confirmers |-> IF r = k2 THEN {k1} ELSE {}]

=============================================================================
