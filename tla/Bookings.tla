------------------------------ MODULE Bookings ------------------------------
(***************************************************************************)
(* The booking rules, one request at a time: hold, confirm, cancel an item *)
(* or a booking, cancel, delay, resolve and retime a flight, approve a     *)
(* refund.  Every request is atomic here (SeatHolds has the interleavings).*)
(* A request the code refuses with an exception is rolled back and is no   *)
(* step, with one exception: a hold request that fails commits what it did *)
(* so far (RefuseHold).  Callers are owners or admins: those checks only   *)
(* refuse.  A group is confirmed at most once, so it names its booking; an *)
(* item is <<group, leg, passenger>>.                                      *)
(***************************************************************************)
EXTENDS Integers, SequencesExt, FiniteSetsExt, Rows

CONSTANTS
    Flights,
    SeatClasses,    \* seat_classes rows: the cabins of the flights
    FlightOf,       \* FlightOf[c]: the flight of cabin c
    Total,          \* Total[c]: its seats
    Cutoff,         \* Cutoff[c]: policy.CUTOFF_MINUTES for its class
    Fares,
    ClassOf,        \* ClassOf[f]: the cabin a fare is for
    Price,          \* Price[f]: its price
    Refundable,     \* the fares that are refundable
    Groups,         \* hold requests
    Itineraries,    \* the item lists they ask for: sequences of [fare, quantity]
    Departure,      \* Departure[f]: when each flight was to leave
    DelayTimes,     \* departures a delay may announce
    EditTimes,      \* departures a schedule edit may set
    HoldMinutes,    \* settings.seat_hold_minutes
    OverrideShift,  \* policy.SCHEDULE_CHANGE_OVERRIDE_HOURS
    MaxTime         \* bound: the clock stops here

ASSUME PolicyAssumption == HoldMinutes \in Nat /\ OverrideShift \in Nat /\ MaxTime \in Nat
ASSUME CatalogueAssumption ==
    /\ FlightOf \in [SeatClasses -> Flights] /\ ClassOf \in [Fares -> SeatClasses]
    /\ Total \in [SeatClasses -> Nat] /\ Price \in [Fares -> Nat]
    /\ Departure \in [Flights -> Nat] /\ DelayTimes \cup EditTimes \subseteq Nat
\* BookingHoldRequest: at least one item, at least one passenger each.
ASSUME ItinerariesAssumption ==
    Itineraries \subseteq Seq([fare : Fares, quantity : Nat \ {0}]) \ {<<>>}

VARIABLES
    now,      \* utcnow()
    flight,   \* status, departure, original departure (or NoTime)
    seats,    \* seat_classes.available_seats
    group,    \* the seat_holds rows of each group: legs, statuses, expiry times
    booking,  \* status and total_price of each group's booking
    item,     \* booking_items: status, override, and the audited reason
    refund    \* the refunds rows of each item, in order

vars == <<now, flight, seats, group, booking, item, refund>>

NoTime == -1
Reasons == {"customer", "airline_cancellation", "airline_schedule_change"}

\* Legs of a group and its items: one for each passenger of each leg.
Legs(g) == group[g].legs
LegClass(legs, i) == ClassOf[legs[i].fare]
LegsIn(legs, c) == {i \in DOMAIN legs : LegClass(legs, i) = c}
Quantities(legs) == [i \in DOMAIN legs |-> legs[i].quantity]
Items(g) == UNION {{<<g, i, k>> : k \in 1 .. Legs(g)[i].quantity} : i \in DOMAIN Legs(g)}
FareOf(x) == Legs(x[1])[x[2]].fare
ItemClass(x) == ClassOf[FareOf(x)]
ItemFlight(x) == FlightOf[ItemClass(x)]

\* Mutant: the query does not filter on the status.
AnyStatus == DOMAIN item

Confirmed == {x \in DOMAIN item : item[x].status = "confirmed"}

Init ==
    /\ now = 0
    /\ flight = [f \in Flights |->
            [status |-> "scheduled", departure |-> Departure[f], original |-> NoTime]]
    /\ seats = Total
    /\ group = Nothing /\ booking = Nothing
    /\ item = Nothing /\ refund = Nothing

-----------------------------------------------------------------------------
(* Lazy expiry: expire_stale_holds of a set of cabins *)

\* Mutant: the status is not looked at.
LapsedAnyStatus(g, i) == group[g].expires[i] < now

IsStale(g, i) == group[g].hold[i] = "active" /\ group[g].expires[i] < now

HoldsIn(c) == UNION {{<<g, i>> : i \in LegsIn(Legs(g), c)} : g \in DOMAIN group}
QuantityOf(S) == SumFunctionOnSet([h \in S |-> Legs(h[1])[h[2]].quantity], S)

Freed(c) == QuantityOf({h \in HoldsIn(c) : IsStale(h[1], h[2])})

\* Mutant: the seats of other cabins' stale holds are counted as well.
SeatsAfterAll(cs) == [c \in SeatClasses |-> seats[c] + Freed(c)]

\* available_seats and the holds after the stale ones of cabins cs expired.
SeatsAfter(cs) == [c \in SeatClasses |-> seats[c] + IF c \in cs THEN Freed(c) ELSE 0]
WithHold(row, hold) == [legs |-> row.legs, hold |-> hold, expires |-> row.expires]
HoldsAfter(g, cs) ==
    [i \in DOMAIN Legs(g) |->
        IF IsStale(g, i) /\ LegClass(Legs(g), i) \in cs THEN "expired" ELSE group[g].hold[i]]
GroupsAfter(cs) == [g \in DOMAIN group |-> WithHold(group[g], HoldsAfter(g, cs))]

-----------------------------------------------------------------------------
(* hold_booking *)

\* The checks made before a leg's cabin is looked at: the flight is scheduled
\* and its cutoff has not passed.
IsOpen(c) ==
    LET f == flight[FlightOf[c]] IN f.status = "scheduled" /\ now <= f.departure - Cutoff[c]

\* Seats of leg i's cabin that legs 1..i want together.
Wanted(legs, i) ==
    SumFunctionOnSet(Quantities(legs), {j \in LegsIn(legs, LegClass(legs, i)) : j <= i})

Holdable(legs, i) ==
    LET c == LegClass(legs, i) IN IsOpen(c) /\ seats[c] + Freed(c) >= Wanted(legs, i)

\* Each hold has its own expires_at; the later legs' may be late ticks after
\* the first one's.
NewGroup(legs, hold, late) ==
    [legs |-> legs, hold |-> hold,
     expires |-> [i \in DOMAIN legs |-> now + HoldMinutes + IF i = 1 THEN 0 ELSE late]]

Hold(g, legs) ==
    LET cs == {LegClass(legs, i) : i \in DOMAIN legs} IN
    /\ g \notin DOMAIN group
    /\ \A i \in DOMAIN legs : Holdable(legs, i)
    /\ seats' = [c \in SeatClasses |->
            SeatsAfter(cs)[c] - SumFunctionOnSet(Quantities(legs), LegsIn(legs, c))]
    /\ \E late \in 0 .. Min({Len(legs) - 1, MaxTime - now}) :
        group' = Over([h \in {g} |-> NewGroup(legs, [i \in DOMAIN legs |-> "active"], late)],
                      GroupsAfter(cs))
    /\ UNCHANGED <<now, flight, booking, item, refund>>

\* The first leg that cannot be held ends the request: earlier legs are
\* released, the expiries done on the way are committed, no later leg is tried.
RefuseHold(g, legs) ==
    LET bad == {i \in DOMAIN legs : ~Holdable(legs, i)}
        first == Min(bad)
        cs == {LegClass(legs, i) : i \in 1 .. first - 1}
                \cup ({LegClass(legs, first)} \cap {c \in SeatClasses : IsOpen(c)})
        released == [i \in DOMAIN legs |-> IF i < first THEN "released" ELSE "none"]
    IN
    /\ g \notin DOMAIN group
    /\ bad # {}
    /\ seats' = SeatsAfter(cs)
    /\ group' = Over(IF first = 1 THEN Nothing ELSE [h \in {g} |-> NewGroup(legs, released, 0)],
                     GroupsAfter(cs))
    /\ UNCHANGED <<now, flight, booking, item, refund>>

-----------------------------------------------------------------------------
(* confirm_booking *)

TotalPrice(g) == SumFunctionOnSet([x \in Items(g) |-> Price[FareOf(x)]], Items(g))

\* Mutant: one live hold is enough.
SomeLive(g) == \E i \in DOMAIN Legs(g) : group[g].hold[i] = "active" /\ ~IsStale(g, i)

AllLive(g) == \A i \in DOMAIN Legs(g) : group[g].hold[i] = "active" /\ ~IsStale(g, i)

\* convert_hold_to_booking skips holds that are not active.
ConvertHolds(hold) == [i \in DOMAIN hold |-> IF hold[i] = "active" THEN "converted" ELSE hold[i]]

\* The flight is not looked at again: neither its status nor its cutoff.
Confirm(g) ==
    LET cs == {LegClass(Legs(g), i) : i \in DOMAIN Legs(g)} IN
    /\ g \in DOMAIN group
    /\ AllLive(g)
    /\ seats' = SeatsAfter(cs)
    /\ group' = [GroupsAfter(cs) EXCEPT ![g] = WithHold(@, ConvertHolds(@.hold))]
    /\ booking' = Over([h \in {g} |-> [status |-> "confirmed", total |-> TotalPrice(g)]], booking)
    /\ item' = Over([x \in Items(g) |->
            [status |-> "confirmed", override |-> FALSE, reason |-> "none"]], item)
    /\ refund' = Over([x \in Items(g) |-> <<>>], refund)
    /\ UNCHANGED <<now, flight>>

-----------------------------------------------------------------------------
(* Cancellation and refunds *)

\* create_refund_for_item: the rows a cancellation adds, none or one.
RefundRows(x, reason) ==
    IF reason = "customer"
    THEN IF FareOf(x) \in Refundable \/ item[x].override
         THEN <<[type |-> "refund", status |-> "processed"]>> ELSE <<>>
    ELSE <<[type |-> IF FareOf(x) \in Refundable THEN "refund" ELSE "travel_credit",
            status |-> "pending_approval"]>>

\* recompute_booking_status.
StatusFrom(g, items) ==
    IF \A x \in Items(g) : items[x].status = "cancelled" THEN "cancelled"
    ELSE IF \E x \in Items(g) : items[x].status = "cancelled" THEN "partially_cancelled"
    ELSE "confirmed"

\* Mutant: the parent is only recomputed when the whole booking goes.
WholeBookings(xs) == {g \in DOMAIN booking : Items(g) \subseteq xs}

\* The bookings whose status has to be recomputed.
Parents(xs) == {g \in DOMAIN booking : xs \cap Items(g) # {}}

\* cancel_booking_item for every item of xs, one after the other.
CancelItems(xs, reason) ==
    /\ seats' = [c \in SeatClasses |-> seats[c] + Cardinality({x \in xs : ItemClass(x) = c})]
    /\ item' = [x \in DOMAIN item |->
            IF x \in xs
            THEN [status |-> "cancelled", override |-> item[x].override, reason |-> reason]
            ELSE item[x]]
    /\ refund' = [x \in DOMAIN refund |->
            IF x \in xs THEN refund[x] \o RefundRows(x, reason) ELSE refund[x]]
    /\ booking' = [g \in DOMAIN booking |->
            IF g \in Parents(xs)
            THEN [status |-> StatusFrom(g, item'), total |-> booking[g].total] ELSE booking[g]]

CancelItem(x, reason) ==
    /\ item[x].status # "cancelled"
    /\ CancelItems({x}, reason)
    /\ UNCHANGED <<now, flight, group>>

CancelBooking(g, reason) ==
    LET xs == Items(g) \cap Confirmed IN
    /\ xs # {}
    /\ CancelItems(xs, reason)
    /\ UNCHANGED <<now, flight, group>>

ApproveRefund(x, k) ==
    /\ refund[x][k].status = "pending_approval"
    /\ refund' = [refund EXCEPT ![x][k].status = "processed"]
    /\ UNCHANGED <<now, flight, seats, group, booking, item>>

-----------------------------------------------------------------------------
(* Flights *)

\* Mutant: items already cancelled are compensated again.
EverOnFlight(f) == {x \in DOMAIN item : ItemFlight(x) = f}

OnFlight(f) == {x \in Confirmed : ItemFlight(x) = f}

CancelFlight(f) ==
    /\ flight[f].status # "cancelled"
    /\ flight' = [flight EXCEPT ![f].status = "cancelled"]
    /\ CancelItems(OnFlight(f), "airline_cancellation")
    /\ UNCHANGED <<now, group>>

Distance(s, t) == IF s < t THEN t - s ELSE s - t

\* apply_schedule_change_override, when the shift is over the threshold.
Override(f, shift) ==
    item' = [x \in DOMAIN item |->
        IF shift > OverrideShift /\ x \in OnFlight(f)
        THEN [item[x] EXCEPT !.override = TRUE] ELSE item[x]]

\* Mutant: no COALESCE, each delay is measured from the previous one.
PreviousOf(f) == flight[f].departure

\* The departure before the first delay, which later delays are measured from.
OriginalOf(f) == IF flight[f].original = NoTime THEN flight[f].departure ELSE flight[f].original

MarkDelayed(f, departure) ==
    /\ flight[f].status # "cancelled"
    /\ flight' = [flight EXCEPT ![f] =
            [status |-> "delayed", departure |-> departure, original |-> OriginalOf(f)]]
    /\ Override(f, Distance(departure, OriginalOf(f)))
    /\ UNCHANGED <<now, seats, group, booking, refund>>

EditSchedule(f, departure) ==
    /\ flight[f].status # "cancelled"
    /\ flight' = [flight EXCEPT ![f].departure = departure]
    /\ Override(f, Distance(departure, flight[f].departure))
    /\ UNCHANGED <<now, seats, group, booking, refund>>

ResolveDelay(f) ==
    /\ flight[f].status = "delayed"
    /\ flight' = [flight EXCEPT ![f].status = "scheduled"]
    /\ UNCHANGED <<now, seats, group, booking, item, refund>>

Tick ==
    /\ now < MaxTime
    /\ now' = now + 1
    /\ UNCHANGED <<flight, seats, group, booking, item, refund>>

-----------------------------------------------------------------------------

Next ==
    \/ \E g \in Groups, legs \in Itineraries : Hold(g, legs) \/ RefuseHold(g, legs)
    \/ \E g \in Groups : Confirm(g)
    \/ \E g \in DOMAIN booking, reason \in Reasons : CancelBooking(g, reason)
    \/ \E x \in DOMAIN item, reason \in Reasons : CancelItem(x, reason)
    \/ \E x \in DOMAIN refund : \E k \in DOMAIN refund[x] : ApproveRefund(x, k)
    \/ \E f \in Flights : CancelFlight(f) \/ ResolveDelay(f)
    \/ \E f \in Flights, t \in DelayTimes : MarkDelayed(f, t)
    \/ \E f \in Flights, t \in EditTimes : EditSchedule(f, t)
    \/ Tick

Spec == Init /\ [][Next]_vars

-----------------------------------------------------------------------------
(* Properties *)

\* Every variable stays in its type.
TypeOK ==
    /\ now \in 0 .. MaxTime
    /\ \A f \in Flights : flight[f].status \in {"scheduled", "delayed", "cancelled"}
    /\ DOMAIN group \subseteq Groups /\ DOMAIN booking \subseteq DOMAIN group
    /\ DOMAIN item = UNION {Items(g) : g \in DOMAIN booking} /\ DOMAIN refund = DOMAIN item
    /\ \A c \in SeatClasses : seats[c] \in 0 .. Total[c]

Held == [c \in SeatClasses |-> QuantityOf({h \in HoldsIn(c) : group[h[1]].hold[h[2]] = "active"})]
Sold == [c \in SeatClasses |-> Cardinality({x \in Confirmed : ItemClass(x) = c})]

\* Served one at a time, the requests implement the seat inventory: every seat
\* is free, held or sold exactly once, whatever the order of holds, expiries,
\* confirmations, item, booking and flight cancellations.
Inventory == INSTANCE SeatInventory WITH free <- seats, held <- Held, sold <- Sold

InventorySpec == Inventory!Spec

\* recompute_booking_status runs wherever an item changes: a booking's status
\* always says what its items say, also after another flight took some of them.
StatusFollowsItems == \A g \in DOMAIN booking : booking[g].status = StatusFrom(g, item)

\* Each cancelled item is settled exactly once and by its own reason: never
\* two refunds, none for a confirmed item, and always one when the airline
\* cancelled or the customer was entitled to it at that moment.
SettledOnce ==
    \A x \in DOMAIN item :
        /\ Len(refund[x]) <= 1
        /\ item[x].status = "confirmed" => refund[x] = <<>>
        /\ item[x].reason \in Reasons \ {"customer"} => Len(refund[x]) = 1
        /\ item[x].reason = "customer" =>
            (refund[x] # <<>> <=> FareOf(x) \in Refundable \/ item[x].override)

\* The money given back for a booking never exceeds what it cost.
RefundsWithinPrice ==
    \A g \in DOMAIN booking :
        SumFunctionOnSet([x \in Items(g) |-> Len(refund[x]) * Price[FareOf(x)]], Items(g))
            <= booking[g].total

\* Decision #1/#2 over a whole life: a group's legs are all sold or none is,
\* and a booking exists exactly for the groups that are sold.
SoldAsAWhole ==
    \A g \in DOMAIN group :
        IF g \in DOMAIN booking
        THEN \A i \in DOMAIN Legs(g) : group[g].hold[i] = "converted"
        ELSE \A i \in DOMAIN Legs(g) : group[g].hold[i] # "converted"

\* README: the shift is "measured against the original time, so repeated small
\* delays accumulate": whenever a flight is moved, every passenger then on a
\* flight now more than the threshold off its first timetable has the override.
\* For flights that are delayed only: edit_flight_schedule measures from the
\* departure before the edit, so its shifts do not add up.
ShiftsAccumulate ==
    [][\A f \in Flights :
        (/\ flight'[f].departure # flight[f].departure
         /\ Distance(flight'[f].departure, Departure[f]) > OverrideShift)
            => \A x \in OnFlight(f) : item'[x].override]_vars

\* cancel_flight: "cancel a whole flight and compensate every affected booking
\* item": nobody is left with a confirmed seat on a cancelled flight.
CancelledFlightsAreEmpty ==
    \A f \in Flights : flight[f].status = "cancelled" => OnFlight(f) = {}

=============================================================================
