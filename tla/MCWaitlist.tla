---------------------------- MODULE MCWaitlist ----------------------------
(* Small instances of Waitlist for TLC. *)
EXTENDS Waitlist

CONSTANTS economy, old, hold, join, party, promote, again, next, sale, key

\* The old hold, the party and its promotion are for both seats of the cabin,
\* the others for one: when the booking is cancelled, two promotions fit.
Wishes ==
    [g \in Holders |->
        <<[cabin |-> economy, quantity |-> IF g \in {old, party, next} THEN 2 ELSE 1]>>]
TwoSeats == [c \in Cabins |-> 2]

\* Two promotions of one entry, and one of the party's.
Named == [r \in Promotes |-> IF r = next THEN party ELSE join]

\* The old hold is confirmed; the booking may be cancelled.
OldGroup == [r \in Confirmers |-> old]
SameKey == [r \in Confirmers |-> key]
NotWaitingFor == [r \in Confirmers |-> {}]

=============================================================================
