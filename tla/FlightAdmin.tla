---------------------------- MODULE FlightAdmin ----------------------------
(***************************************************************************)
(* Concurrent administration of one flight, statement by statement: cabins *)
(* are resized, the schedule edited, delays recorded and resolved, a seat  *)
(* map defined, the flight cancelled, while passengers take seats.  Each   *)
(* request is one transaction of PostgreSQL at READ COMMITTED.             *)
(*                                                                         *)
(* flights and seat_classes have a version each.  Every row is kept twice: *)
(* as committed and as last written, with the transaction that has its row *)
(* lock.  adjust_available_seats is one step (SeatLock, ImplementsCounter);*)
(* a cancellation gives the seats of its items back cabin by cabin         *)
(* (Cancellations has them one by one).                                    *)
(***************************************************************************)
EXTENDS Integers, FiniteSetsExt

CONSTANTS
    Cabins,      \* seat_classes rows of the flight
    Resizes,     \* PATCH /admin/flights/{id}/seat-classes/{cabin} requests
    Passengers,  \* requests that take seats of a cabin
    Edits,       \* PATCH /admin/flights/{id} requests
    Delays,      \* PATCH /admin/flights/{id}/delay requests
    Resolves,    \* PATCH /admin/flights/{id}/resolve-delay requests
    Cancels,     \* DELETE /admin/flights/{id} requests
    Maps,        \* PUT /admin/flights/{id}/seat-map requests
    Nobody,      \* no request: the row is not locked
    CabinOf,     \* CabinOf[r]: the cabin of a resize or of a passenger
    Seats,       \* Seats[r]: total_seats asked for, or the seats taken
    Leaves,      \* Leaves[r]: the departure an edit or a delay asks for
    Layout,      \* Layout[r][c]: seats of cabin c in the seat map
    Capacity,    \* Capacity[c]: total_seats of the cabin at the start
    Sold,        \* Sold[c]: seats of confirmed items at the start
    Departure,   \* departure_datetime at the start
    NoTime,      \* original_departure_datetime is null
    OverrideShift \* policy.SCHEDULE_CHANGE_OVERRIDE_HOURS

Requests ==
    Resizes \cup Passengers \cup Edits \cup Delays \cup Resolves \cup Cancels \cup Maps

ASSUME NobodyAssumption == Nobody \notin Requests
ASSUME KindsAssumption ==
    /\ Maps \cap (Resizes \cup Passengers \cup Edits \cup Delays \cup Resolves \cup Cancels) = {}
    /\ Resizes \cap (Passengers \cup Edits \cup Delays \cup Resolves \cup Cancels) = {}
    /\ Passengers \cap (Edits \cup Delays \cup Resolves \cup Cancels) = {}
    /\ Edits \cap (Delays \cup Resolves \cup Cancels) = {}
    /\ Delays \cap (Resolves \cup Cancels) = {} /\ Resolves \cap Cancels = {}
ASSUME TimesAssumption ==
    /\ Departure \in Int /\ NoTime \notin Int
    /\ Leaves \in [Edits \cup Delays -> Int] /\ OverrideShift \in Nat
ASSUME SeatsAssumption ==
    /\ IsFiniteSet(Cabins) /\ IsFiniteSet(Passengers)
    /\ CabinOf \in [Resizes \cup Passengers -> Cabins]
    /\ Seats \in [Resizes \cup Passengers -> Nat] /\ Layout \in [Maps -> [Cabins -> Nat]]
    /\ Capacity \in [Cabins -> Nat] /\ Sold \in [Cabins -> Nat]
    /\ \A c \in Cabins : Sold[c] <= Capacity[c]

VARIABLES
    flight,      \* the flights row, committed
    flightRow,   \* the flights row as last written
    flightOwner, \* who has its lock
    cabin,       \* the seat_classes rows, committed
    cabinRow,    \* the seat_classes rows as last written
    cabinOwner,  \* who has their locks
    entitled,    \* the flight's items have schedule_change_override, committed
    overwrote,   \* a committed seat map replaced a version it had not read
    unbalanced,  \* some commit has left the flight out of balance
    pc,          \* where each request stands
    seen,        \* the flight its session loaded
    seenCabin,   \* the cabin its session loaded
    sum,         \* the SUM(total_seats) it last selected
    todo         \* cabins a cancellation has yet to give seats back to

flightVars == <<flight, flightRow, flightOwner>>
cabinVars == <<cabin, cabinRow, cabinOwner>>
ghosts == <<entitled, overwrote, unbalanced>>
session == <<seen, seenCabin, sum, todo>>
vars == <<flightVars, cabinVars, ghosts, pc, session>>

Ended == {"committed", "rolled_back"}
Running == {"cabin", "resize", "sum", "capacity", "recheck", "compare",
            "layout", "define", "update", "release", "commit"}

\* Seats of cabin c that passengers took.
TakenIn(c) ==
    SumFunctionOnSet(Seats, {p \in Passengers : CabinOf[p] = c /\ pc[p] = "committed"})

\* create_flight: the cabins add up to total_seats, versions start at 1.
NewFlight ==
    [version |-> 1, status |-> "scheduled", departure |-> Departure, original |-> NoTime,
     capacity |-> SumFunctionOnSet(Capacity, Cabins),
     seatMap |-> [c \in Cabins |-> 0]]

NewCabin(c) ==
    [version |-> 1, total |-> Capacity[c], available |-> Capacity[c] - Sold[c]]

NoCabin == [version |-> 0, total |-> 0, available |-> 0]

Init ==
    /\ flight = NewFlight /\ flightRow = NewFlight /\ flightOwner = Nobody
    /\ cabin = [c \in Cabins |-> NewCabin(c)]
    /\ cabinRow = cabin
    /\ cabinOwner = [c \in Cabins |-> Nobody]
    /\ entitled = FALSE /\ overwrote = FALSE /\ unbalanced = FALSE
    /\ pc = [r \in Requests |-> "idle"]
    /\ seen = [r \in Requests |-> NewFlight]
    /\ seenCabin = [r \in Requests |-> NoCabin]
    /\ sum = [r \in Requests |-> 0]
    /\ todo = [r \in Requests |-> {}]

-----------------------------------------------------------------------------
(* Rows, locks and sessions *)

Goto(r, label) == pc' = [pc EXCEPT ![r] = label]

FlightFree(r) == flightOwner \in {r, Nobody}

\* Mutant: an UPDATE does not wait for the row lock of another transaction.
CabinNotLocked(r, c) == TRUE

CabinFree(r, c) == cabinOwner[c] \in {r, Nobody}

FlightSeen(r) == IF flightOwner = r THEN flightRow ELSE flight
CabinSeen(r, c) == IF cabinOwner[c] = r THEN cabinRow[c] ELSE cabin[c]
SumSeen(r) == SumFunctionOnSet([c \in Cabins |-> CabinSeen(r, c).total], Cabins)

WriteFlight(r, row) ==
    /\ FlightFree(r)
    /\ flightRow' = row /\ flightOwner' = r
    /\ UNCHANGED flight

WriteCabin(r, c, row) ==
    /\ CabinFree(r, c)
    /\ cabinRow' = [cabinRow EXCEPT ![c] = row]
    /\ cabinOwner' = [cabinOwner EXCEPT ![c] = r]
    /\ UNCHANGED cabin

\* Mutant: the transaction stays open, with its row locks.
LeaveTransaction(r) ==
    /\ UNCHANGED <<flightOwner, cabinOwner>>
    /\ seen' = [seen EXCEPT ![r] = NewFlight]
    /\ seenCabin' = [seenCabin EXCEPT ![r] = NoCabin]
    /\ sum' = [sum EXCEPT ![r] = 0]
    /\ todo' = [todo EXCEPT ![r] = {}]

\* The transaction is over: its locks are free, its session is gone.
CloseSession(r) ==
    /\ flightOwner' = IF flightOwner = r THEN Nobody ELSE flightOwner
    /\ cabinOwner' = [c \in Cabins |-> IF cabinOwner[c] = r THEN Nobody ELSE cabinOwner[c]]
    /\ seen' = [seen EXCEPT ![r] = NewFlight]
    /\ seenCabin' = [seenCabin EXCEPT ![r] = NoCabin]
    /\ sum' = [sum EXCEPT ![r] = 0]
    /\ todo' = [todo EXCEPT ![r] = {}]

\* get_db rolls back on any exception.
Abort(r) ==
    /\ Goto(r, "rolled_back")
    /\ flightRow' = IF flightOwner = r THEN flight ELSE flightRow
    /\ cabinRow' = [c \in Cabins |-> IF cabinOwner[c] = r THEN cabin[c] ELSE cabinRow[c]]
    /\ CloseSession(r)
    /\ UNCHANGED <<flight, cabin, ghosts>>

-----------------------------------------------------------------------------
(* get_flight and the tests on its status *)

Admits(r) ==
    /\ r \in Edits \cup Delays \cup Cancels => flight.status # "cancelled"
    /\ r \in Resolves => flight.status = "delayed"

Load(r) ==
    /\ pc[r] = "idle" /\ r \notin Passengers
    /\ Admits(r)
    /\ seen' = [seen EXCEPT ![r] = flight]
    /\ Goto(r, IF r \in Resizes THEN "cabin" ELSE IF r \in Maps THEN "layout" ELSE "update")
    /\ UNCHANGED <<flightVars, cabinVars, ghosts, seenCabin, sum, todo>>

Refuse(r) ==
    /\ pc[r] = "idle" /\ ~Admits(r)
    /\ Abort(r)

-----------------------------------------------------------------------------
(* adjust_seat_allocation *)

\* Shrinking below the seats already booked is refused.
ReadCabin(r) ==
    LET row == cabin[CabinOf[r]] IN
    /\ pc[r] = "cabin"
    /\ Seats[r] >= row.total - row.available
    /\ seenCabin' = [seenCabin EXCEPT ![r] = row]
    /\ Goto(r, "resize")
    /\ UNCHANGED <<flightVars, cabinVars, ghosts, seen, sum, todo>>

BelowBooked(r) ==
    /\ pc[r] = "cabin"
    /\ Seats[r] < cabin[CabinOf[r]].total - cabin[CabinOf[r]].available
    /\ Abort(r)

\* Mutant: WHERE id = :id alone.
CabinById(r) == TRUE

\* WHERE version = the one read.
CabinUnchanged(r) == cabin[CabinOf[r]].version = seenCabin[r].version

\* Mutant: available_seats is set from the row read, not from the row updated.
ResizedFromCopy(r, row) ==
    [version |-> row.version + 1, total |-> Seats[r], available |-> seenCabin[r].available]

\* SET total_seats, available_seats = available_seats + delta, version + 1.
Resized(r, row) ==
    [version |-> row.version + 1, total |-> Seats[r],
     available |-> row.available + (Seats[r] - seenCabin[r].total)]

ResizeCabin(r) ==
    LET c == CabinOf[r] IN
    /\ pc[r] = "resize" /\ CabinUnchanged(r)
    /\ WriteCabin(r, c, Resized(r, cabin[c]))
    /\ Goto(r, "sum")
    /\ UNCHANGED <<flightVars, ghosts, session>>

CabinConflict(r) ==
    /\ pc[r] = "resize" /\ ~CabinUnchanged(r)
    /\ Abort(r)

\* The new sum is compared with the total_seats of the session's copy.
SumCabins(r) ==
    /\ pc[r] = "sum"
    /\ sum' = [sum EXCEPT ![r] = SumSeen(r)]
    /\ Goto(r, IF SumSeen(r) = seen[r].capacity THEN "recheck" ELSE "capacity")
    /\ UNCHANGED <<flightVars, cabinVars, ghosts, seen, seenCabin, todo>>

\* UPDATE flights SET total_seats = sum WHERE id: no version test.
WriteCapacity(r) ==
    /\ pc[r] = "capacity"
    /\ WriteFlight(r, [flight EXCEPT !.capacity = sum[r]])
    /\ Goto(r, "recheck")
    /\ UNCHANGED <<cabinVars, ghosts, session>>

SumAgain(r) ==
    /\ pc[r] = "recheck"
    /\ sum' = [sum EXCEPT ![r] = SumSeen(r)]
    /\ Goto(r, "compare")
    /\ UNCHANGED <<flightVars, cabinVars, ghosts, seen, seenCabin, todo>>

\* Mutant: the comparison uses the copies at hand.
BalancesInMemory(r) == TRUE

Balances(r) == sum[r] = FlightSeen(r).capacity

Compare(r) ==
    /\ pc[r] = "compare" /\ Balances(r)
    /\ Goto(r, "commit")
    /\ UNCHANGED <<flightVars, cabinVars, ghosts, session>>

\* "Seat allocation no longer balances".
OutOfBalance(r) ==
    /\ pc[r] = "compare" /\ ~Balances(r)
    /\ Abort(r)

-----------------------------------------------------------------------------
(* Seats taken: adjust_available_seats *)

Adjusted(row, delta) ==
    [version |-> row.version + 1, total |-> row.total, available |-> row.available + delta]

AdjustSeats(r) ==
    LET c == CabinOf[r] IN
    /\ r \in Passengers /\ pc[r] = "idle"
    /\ cabin[c].available >= Seats[r]
    /\ WriteCabin(r, c, Adjusted(cabin[c], -Seats[r]))
    /\ Goto(r, "commit")
    /\ UNCHANGED <<flightVars, ghosts, session>>

TooFewSeats(r) ==
    /\ r \in Passengers /\ pc[r] = "idle"
    /\ cabin[CabinOf[r]].available < Seats[r]
    /\ Abort(r)

-----------------------------------------------------------------------------
(* edit_flight_schedule, mark_flight_delayed, resolve_delay, cancel_flight *)

\* Mutant: the original departure is the one of the latest delay.
OriginalOfLatest(r, row) == seen[r].departure

\* COALESCE(original_departure_datetime, the departure read).
OriginalOf(r, row) == IF row.original = NoTime THEN seen[r].departure ELSE row.original

StatusAfter(r, row) ==
    IF r \in Delays THEN "delayed" ELSE IF r \in Cancels THEN "cancelled"
    ELSE IF r \in Resolves THEN "scheduled" ELSE row.status

\* The row as the UPDATE of r's operation writes it.
Updated(r, row) ==
    [version |-> row.version + 1, status |-> StatusAfter(r, row),
     departure |-> IF r \in Edits \cup Delays THEN Leaves[r] ELSE row.departure,
     original |-> IF r \in Delays THEN OriginalOf(r, row) ELSE row.original,
     capacity |-> row.capacity, seatMap |-> row.seatMap]

\* Mutant: WHERE id = :id alone.
FlightById(r) == TRUE

\* WHERE version = the one read.
FlightUnchanged(r) == flight.version = seen[r].version

\* Seats of confirmed items: a committed cancellation left none.
SoldIn(c) == IF \E k \in Cancels : pc[k] = "committed" THEN 0 ELSE Sold[c]

\* _optimistic_update_flight; a cancellation then selects the items it has to
\* cancel.
UpdateFlight(r) ==
    LET affected == {c \in Cabins : r \in Cancels /\ SoldIn(c) > 0} IN
    /\ pc[r] = "update" /\ FlightUnchanged(r)
    /\ WriteFlight(r, Updated(r, flight))
    /\ todo' = [todo EXCEPT ![r] = affected]
    /\ Goto(r, IF affected = {} THEN "commit" ELSE "release")
    /\ UNCHANGED <<cabinVars, ghosts, seen, seenCabin, sum>>

FlightConflict(r) ==
    /\ pc[r] = "update" /\ ~FlightUnchanged(r)
    /\ Abort(r)

ReleaseSeats(r) ==
    /\ pc[r] = "release"
    /\ \E c \in todo[r] :
        /\ WriteCabin(r, c, Adjusted(cabin[c], Sold[c]))
        /\ todo' = [todo EXCEPT ![r] = @ \ {c}]
        /\ Goto(r, IF todo[r] = {c} THEN "commit" ELSE "release")
    /\ UNCHANGED <<flightVars, ghosts, seen, seenCabin, sum>>

-----------------------------------------------------------------------------
(* define_seat_map *)

\* A layout must fit into the cabins as they are now.
Fits(r) == \A c \in Cabins : Layout[r][c] <= cabin[c].total

ReadLayout(r) ==
    /\ pc[r] = "layout" /\ Fits(r)
    /\ Goto(r, "define")
    /\ UNCHANGED <<flightVars, cabinVars, ghosts, session>>

DoesNotFit(r) ==
    /\ pc[r] = "layout" /\ ~Fits(r)
    /\ Abort(r)

\* The flush writes seat_map and version = version read + 1 by primary key.
Mapped(r, row) ==
    [version |-> seen[r].version + 1, status |-> row.status, departure |-> row.departure,
     original |-> row.original, capacity |-> row.capacity, seatMap |-> Layout[r]]

DefineSeatMap(r) ==
    /\ pc[r] = "define"
    /\ WriteFlight(r, Mapped(r, flight))
    /\ Goto(r, "commit")
    /\ UNCHANGED <<cabinVars, ghosts, session>>

-----------------------------------------------------------------------------
(* The end of a request *)

Distance(s, t) == IF s < t THEN t - s ELSE s - t

\* Mutant: the shift of a delay is measured from the latest departure.
ShiftFromDeparture(r) == Distance(Leaves[r], seen[r].departure)

\* How far r moves the flight: an edit from the departure it read, a delay
\* from the original departure.
Shift(r) ==
    Distance(Leaves[r], IF r \in Delays /\ seen[r].original # NoTime
                        THEN seen[r].original ELSE seen[r].departure)

Balanced == flight.capacity = SumFunctionOnSet([c \in Cabins |-> cabin[c].total], Cabins)

\* get_db commits.  apply_schedule_change_override ran when the shift was large.
Commit(r) ==
    /\ pc[r] = "commit"
    /\ Goto(r, "committed")
    /\ flight' = FlightSeen(r)
    /\ cabin' = [c \in Cabins |-> CabinSeen(r, c)]
    /\ entitled' = (entitled \/ (r \in Edits \cup Delays /\ Shift(r) > OverrideShift))
    /\ overwrote' = (overwrote \/ (r \in Maps /\ ~FlightUnchanged(r)))
    /\ unbalanced' = (unbalanced \/ ~Balanced')
    /\ CloseSession(r)
    /\ UNCHANGED <<flightRow, cabinRow>>

\* An exception, a deadlock that PostgreSQL breaks included.
Rollback(r) == pc[r] \in Running /\ Abort(r)

\* r's next statement needs a row that o has written.
WaitsFor(r, o) ==
    /\ r # o
    /\ \/ pc[r] = "resize" /\ CabinUnchanged(r) /\ cabinOwner[CabinOf[r]] = o
       \/ pc[r] = "update" /\ FlightUnchanged(r) /\ flightOwner = o
       \/ pc[r] \in {"capacity", "define"} /\ flightOwner = o
       \/ /\ pc[r] = "release" /\ \A c \in todo[r] : ~CabinFree(r, c)
          /\ \E c \in todo[r] : cabinOwner[c] = o

\* PostgreSQL aborts one transaction of a cycle.  A request that waits and is
\* waited for has the flights row or waits for it, so two make the cycle.
DeadlockVictim(r) ==
    /\ \E o \in Requests : WaitsFor(r, o) /\ WaitsFor(o, r)
    /\ Rollback(r)

Terminating == (\A r \in Requests : pc[r] \in Ended) /\ UNCHANGED vars

Step(r) ==
    \/ ReadCabin(r) \/ BelowBooked(r) \/ ResizeCabin(r) \/ CabinConflict(r)
    \/ SumCabins(r) \/ WriteCapacity(r) \/ SumAgain(r) \/ Compare(r) \/ OutOfBalance(r)
    \/ UpdateFlight(r) \/ FlightConflict(r) \/ ReleaseSeats(r)
    \/ ReadLayout(r) \/ DoesNotFit(r) \/ DefineSeatMap(r) \/ Commit(r)

Next ==
    \/ \E r \in Requests :
        \/ Load(r) \/ Refuse(r) \/ AdjustSeats(r) \/ TooFewSeats(r)
        \/ Step(r) \/ Rollback(r)
    \/ Terminating

Spec == Init /\ [][Next]_vars

\* A handler whose statement has completed goes on; PostgreSQL breaks cycles.
Fairness ==
    /\ \A r \in Requests : WF_vars(Step(r))
    /\ WF_vars(\E r \in Requests : DeadlockVictim(r))

FairSpec == Spec /\ Fairness

-----------------------------------------------------------------------------
(* Properties *)

Flight ==
    [version : Nat, status : {"scheduled", "delayed", "cancelled"}, departure : Int,
     original : Int \cup {NoTime}, capacity : Int, seatMap : [Cabins -> Nat]]
Cabin == [version : Nat, total : Int, available : Int]

\* Every variable stays in its type; only running requests have locks.
TypeOK ==
    /\ flight \in Flight /\ flightRow \in Flight /\ flightOwner \in Requests \cup {Nobody}
    /\ cabin \in [Cabins -> Cabin] /\ cabinRow \in [Cabins -> Cabin]
    /\ cabinOwner \in [Cabins -> Requests \cup {Nobody}]
    /\ entitled \in BOOLEAN /\ overwrote \in BOOLEAN /\ unbalanced \in BOOLEAN
    /\ pc \in [Requests -> Running \cup Ended \cup {"idle"}]
    /\ seen \in [Requests -> Flight] /\ seenCabin \in [Requests -> Cabin]
    /\ sum \in [Requests -> Int] /\ todo \in [Requests -> SUBSET Cabins]
    /\ \A r \in Requests : pc[r] \notin Running =>
        flightOwner # r /\ \A c \in Cabins : cabinOwner[c] # r

\* adjust_seat_allocation changes the size of a cabin and nothing else: whatever
\* passengers and cancellations do meanwhile, exactly the booked seats are
\* missing from it, and it never has fewer than are booked.
BookedSeatsKept ==
    \A c \in Cabins :
        /\ cabin[c].total - cabin[c].available = SoldIn(c) + TakenIn(c)
        /\ cabin[c].available >= 0

Commits(r) == pc[r] = "commit" /\ pc'[r] = "committed"

\* "Re-validate the flight-level invariant": a request that wrote the flights
\* row holds its lock until it commits, so however many cabins are resized at
\* once, the first commit that leaves the flight out of balance is not its.
WritersKeepBalance ==
    [][\A r \in Requests : ~unbalanced /\ Commits(r) /\ flightOwner = r => Balanced']_vars

\* "A cancelled flight's schedule cannot be edited", "cannot be marked as
\* delayed": no request that read the flight before its cancellation revives
\* it, unless a seat map has overwritten a version.
CancelledIsFinal ==
    [][flight.status = "cancelled" /\ ~overwrote' => flight'.status = "cancelled"]_vars

\* "Snapshot the true original times exactly once": the first delay records the
\* departure that it replaces, edits committed since it read the flight
\* included, and no later delay changes it.
OriginalIsTrue ==
    [][flight'.original # flight.original =>
        /\ flight.original = NoTime
        /\ flight'.original = flight.departure \/ overwrote']_vars

\* README "repeated small delays accumulate": a delay entitles the passengers
\* when the flight now leaves too far from its original departure.
DelaysAccumulate ==
    [][\A r \in Delays :
        Commits(r) /\ Distance(flight'.departure, flight'.original) > OverrideShift
            => entitled' \/ overwrote']_vars

\* A resize locks a cabin and then the flight, a cancellation the flight and
\* then its cabins: still every request that started is answered.
RequestsEnd == \A r \in Requests : pc[r] \in Running ~> pc[r] \in Ended

\* README "an admin can never leave a flight in a non-balancing state".
AlwaysBalanced == Balanced

\* "A cancelled flight cannot be marked as delayed" (409 on conflict).
CancelledStays == [][flight.status = "cancelled" => flight'.status = "cancelled"]_vars

=============================================================================
