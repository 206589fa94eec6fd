----------------------------- MODULE MCSeatLock -----------------------------
(* A small instance of SeatLock for TLC. *)
EXTENDS SeatLock

\* Both seats taken at once, one given back, and the no-op call.
MCDeltas == {-2, 0, 1}

=============================================================================
