--------------------------- MODULE SeatInventory ---------------------------
(***************************************************************************)
(* What the booking services promise about the seats of each cabin: every  *)
(* seat is free, held or sold, exactly once; a seat is sold only after it  *)
(* was held, and no seat is taken that was not free.  Groups, fares, money *)
(* and time do not appear: any number of seats of any cabins may move in   *)
(* one request.                                                            *)
(***************************************************************************)
EXTENDS Integers

CONSTANTS
    SeatClasses,  \* cabins
    Total         \* Total[c]: seats of cabin c

VARIABLES free, held, sold

vars == <<free, held, sold>>

Counts == [SeatClasses -> Nat]

Init ==
    /\ free = Total
    /\ held = [c \in SeatClasses |-> 0]
    /\ sold = [c \in SeatClasses |-> 0]

\* Where cabin c's seats may go in one request.
MayMove(c) ==
    /\ free'[c] + held'[c] + sold'[c] = free[c] + held[c] + sold[c]
    /\ sold'[c] > sold[c] => held[c] - held'[c] >= sold'[c] - sold[c]

Move ==
    /\ free' \in Counts /\ held' \in Counts /\ sold' \in Counts
    /\ \A c \in SeatClasses : MayMove(c)

Spec == Init /\ [][Move]_vars

=============================================================================
