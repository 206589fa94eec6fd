--------------------------- MODULE MCFlightAdmin ---------------------------
(* Small instances of FlightAdmin for TLC. *)
EXTENDS FlightAdmin

CONSTANTS x, y, grow, shrink, regrow, take, edit, late, later, resolve, cancel, map, big

\* Two cabins of two seats; one seat of y is sold.
TwoEach == [c \in Cabins |-> 2]
OneSold == [c \in Cabins |-> IF c = y THEN 1 ELSE 0]

\* x grows to three seats while y shrinks to one and grows back to two, and a
\* passenger takes the free seat of y.
InCabin == [r \in Resizes \cup Passengers |-> IF r = grow THEN x ELSE y]
Asked == [r \in Resizes \cup Passengers |->
            CASE r = grow -> 3 [] r = shrink -> 1 [] r = regrow -> 2
              [] r = take -> 1]

\* Two small delays that together are a large one, and an early edit.
Times == [r \in Edits \cup Delays |->
            CASE r = edit -> 4 [] r = late -> 6 [] r = later -> 7]

\* One map fills the cabins, the other has a seat too many.
FullMap == [r \in Maps |-> [c \in Cabins |-> IF r = big THEN 3 ELSE 2]]

=============================================================================
