----------------------------- MODULE MCBookings -----------------------------
(* Small instances of Bookings for TLC. *)
EXTENDS Bookings, TLC

CONSTANTS f1, f2, economy, connection, basic, flexible, onward

Party(fare, n) == [fare |-> fare, quantity |-> n]

\* One flight with one cabin, sold at a basic and a flexible fare.
OneFlight == [c \in {economy} |-> f1]
OneCabin == [c \in {economy} |-> 2]
OneCutoff == [c \in {economy} |-> 1]
OneClass == [f \in {basic, flexible} |-> economy]
OnePrice == [f \in {basic, flexible} |-> IF f = basic THEN 2 ELSE 3]
Pairs == {<<Party(basic, 1), Party(flexible, 1)>>, <<Party(basic, 2)>>}

\* A trip over two flights; its second leg competes with a local passenger.
TwoFlights == [c \in {economy, connection} |-> IF c = economy THEN f1 ELSE f2]
TwoCabins == [c \in {economy, connection} |-> IF c = economy THEN 2 ELSE 1]
TwoCutoffs == [c \in {economy, connection} |-> IF c = economy THEN 2 ELSE 1]
TwoClasses == [f \in {basic, onward} |-> IF f = basic THEN economy ELSE connection]
TwoPrices == [f \in {basic, onward} |-> IF f = basic THEN 2 ELSE 1]
Journeys == {<<Party(basic, 1), Party(onward, 1)>>, <<Party(onward, 1)>>}

LeavesAt2 == [f \in Flights |-> 2]

\* Hold requests are interchangeable.
MCSymmetry == Permutations(Groups)

=============================================================================
