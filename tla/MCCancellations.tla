-------------------------- MODULE MCCancellations --------------------------
(* Small instances of Cancellations for TLC. *)
EXTENDS Cancellations

CONSTANTS i1, i2, i3, b1, b2, f1, cancel, again, whole, ground, regret, key

\* Booking b1 has two passengers and booking b2 one, all on one flight: a
\* flight cancellation meets both bookings, and a booking may be empty before
\* its own cancellation looks.
CoupleAndSolo == [i \in Items |-> IF i = i3 THEN b2 ELSE b1]
OneFlight == [i \in Items |-> f1]
OneCabin == OneFlight

\* What each request cancels, and why.
Targets == [r \in Requests |-> IF r = cancel THEN i1 ELSE IF r = again THEN i1
                               ELSE IF r = whole THEN b1 ELSE f1]
Reasons == [r \in Requests |-> IF r \in FlightCancels THEN "airline_cancellation" ELSE "customer"]

SameKey == [r \in Requests |-> key]
AgainWaits == [r \in Requests |-> IF r = again THEN {cancel} ELSE {}]

=============================================================================
