--------------------------- MODULE Cancellations ---------------------------
(***************************************************************************)
(* Concurrent cancellations, statement by statement: one booking item, a   *)
(* whole booking, a whole flight.  Each request is one transaction of      *)
(* PostgreSQL at READ COMMITTED with one SQLAlchemy session.               *)
(*                                                                         *)
(* The session matters: loading a booking loads its items, and an object   *)
(* once loaded is not refreshed by later SELECTs, so a request decides on  *)
(* the copies it has (mem, memB).  A flush writes by primary key what      *)
(* differs from the copy.  Uncommitted rows and row locks are as in        *)
(* SeatHolds.  The cabins are full at the start; nothing is sold later.    *)
(***************************************************************************)
EXTENDS Integers, SequencesExt, FiniteSetsExt, Rows

CONSTANTS
    Items,          \* booking_items, all confirmed at the start
    NoItem,
    BookingOf,      \* BookingOf[i], FlightOf[i], CabinOf[i]: their rows
    FlightOf,
    CabinOf,
    Refundable,     \* items whose fare is refundable
    ItemCancels,    \* POST /bookings/{id}/items/{id}/cancel requests
    BookingCancels, \* POST /bookings/{id}/cancel requests
    FlightCancels,  \* DELETE /admin/flights/{id} requests
    On,             \* On[r]: the item, booking or flight of request r
    Reason,         \* Reason[r]: "customer" or one of the airline's
    Key,            \* Key[r]: the Idempotency-Key of an item cancel, or NoKey
    NoKey,
    After,          \* After[r]: requests whose answers r's client waited for
    MaxRetries      \* policy.MAX_OPTIMISTIC_LOCK_RETRIES

Requests == ItemCancels \cup BookingCancels \cup FlightCancels
Bookings == {BookingOf[i] : i \in Items}
Cabins == {CabinOf[i] : i \in Items}
Flights == {FlightOf[i] : i \in Items}
ItemsOf(b) == {i \in Items : BookingOf[i] = b}
ItemsIn(c) == {i \in Items : CabinOf[i] = c}
ItemsOn(f) == {i \in Items : FlightOf[i] = f}

ASSUME ItemsAssumption == IsFiniteSet(Items) /\ NoItem \notin Items

\* Each kind of request names one row of its own kind; cancel_flight always
\* passes the airline's reason.
ASSUME RequestsAssumption ==
    /\ ItemCancels \cap BookingCancels = {}
    /\ (ItemCancels \cup BookingCancels) \cap FlightCancels = {}
    /\ \A r \in ItemCancels : On[r] \in Items
    /\ \A r \in BookingCancels : On[r] \in Bookings
    /\ \A r \in FlightCancels : On[r] \in Flights /\ Reason[r] # "customer"

VARIABLES
    seats,     \* seat_classes.available_seats, committed
    commits,   \* how many commits changed each cabin's row
    item,      \* booking_items.status, committed
    booking,   \* bookings.status, committed
    grounded,  \* flights cancelled, committed
    audit,     \* audit_logs "booking.cancel_item" rows of each item: refund type
    cache,     \* idempotency keys with a stored response
    dSeats,    \* per request: seat counts it wrote, not yet committed
    dItems,    \* per request: items it cancelled, not yet committed
    dBookings, \* per request: booking statuses it wrote, not yet committed
    dFlights,  \* per request: flights it cancelled, not yet committed
    pc,        \* where each request stands
    todo,      \* the items it has yet to cancel
    cur,       \* the item it is cancelling
    mem,       \* its session's copies of items
    memB,      \* its session's copies of bookings
    since      \* commits to the cabin when its current adjust call began

db == <<seats, commits, item, booking, grounded, audit>>
writes == <<dSeats, dItems, dBookings, dFlights>>
session == <<todo, cur, mem, memB, since>>
vars == <<db, cache, writes, pc, session>>

Ended == {"committed", "rolled_back", "replayed"}
Running == {"select", "flight", "next", "release", "flush", "recompute", "commit"}

Init ==
    /\ seats = [c \in Cabins |-> 0] /\ commits = [c \in Cabins |-> 0]
    /\ item = [i \in Items |-> "confirmed"]
    /\ booking = [b \in Bookings |-> "confirmed"]
    /\ grounded = {} /\ cache = {}
    /\ audit = [i \in Items |-> <<>>]
    /\ dSeats = [r \in Requests |-> Nothing]
    /\ dItems = [r \in Requests |-> {}]
    /\ dBookings = [r \in Requests |-> Nothing]
    /\ dFlights = [r \in Requests |-> {}]
    /\ pc = [r \in Requests |-> "idle"]
    /\ todo = [r \in Requests |-> {}]
    /\ cur = [r \in Requests |-> NoItem]
    /\ mem = [r \in Requests |-> Nothing] /\ memB = [r \in Requests |-> Nothing]
    /\ since = [r \in Requests |-> 0]

-----------------------------------------------------------------------------

Goto(r, label) == pc' = [pc EXCEPT ![r] = label]

ForgetCopies(r) ==
    /\ todo' = [todo EXCEPT ![r] = {}]
    /\ cur' = [cur EXCEPT ![r] = NoItem]
    /\ mem' = [mem EXCEPT ![r] = Nothing] /\ memB' = [memB EXCEPT ![r] = Nothing]
    /\ since' = [since EXCEPT ![r] = 0]

\* Mutant: the transaction stays open, with its row locks.
LeaveTransaction(r) == ForgetCopies(r) /\ UNCHANGED writes

\* The transaction is over and the session with its copies is gone.
CloseSession(r) ==
    /\ dSeats' = [dSeats EXCEPT ![r] = Nothing]
    /\ dItems' = [dItems EXCEPT ![r] = {}]
    /\ dBookings' = [dBookings EXCEPT ![r] = Nothing]
    /\ dFlights' = [dFlights EXCEPT ![r] = {}]
    /\ ForgetCopies(r)

\* An exception, the handler's own or any other: get_db rolls back.
Abort(r) ==
    /\ Goto(r, "rolled_back")
    /\ CloseSession(r)
    /\ UNCHANGED <<db, cache>>

\* Mutant: a write does not wait for another transaction's row lock.
SeatsNotLocked(r, c) == TRUE

\* A row another request has written is locked until that request ends.
SeatsFree(r, c) == \A o \in Requests \ {r} : c \notin DOMAIN dSeats[o]
ItemFree(r, i) == \A o \in Requests \ {r} : i \notin dItems[o]
BookingFree(r, b) == \A o \in Requests \ {r} : b \notin DOMAIN dBookings[o]
FlightFree(r, f) == \A o \in Requests \ {r} : f \notin dFlights[o]

ItemSeen(r, i) == IF i \in dItems[r] THEN "cancelled" ELSE item[i]
BookingSeen(r, b) == Over(dBookings[r], booking)[b]

\* db.get(Booking): the booking and, with it, its items enter the session;
\* copies already there stay as they are.
LoadBooking(r, b) ==
    /\ mem' = [mem EXCEPT ![r] = Over(@, [i \in ItemsOf(b) |-> ItemSeen(r, i)])]
    /\ memB' = [memB EXCEPT ![r] = Over(@, [x \in {b} |-> BookingSeen(r, b)])]

\* A client that retries sends the retry once the first try was answered.
Sent(r) == pc[r] = "idle" /\ \A q \in After[r] : pc[q] \in Ended

Replay(r) ==
    /\ r \in ItemCancels /\ Sent(r)
    /\ Key[r] \in cache
    /\ Goto(r, "replayed")
    /\ UNCHANGED <<db, cache, writes, session>>

StartItem(r) ==
    /\ r \in ItemCancels /\ Sent(r)
    /\ Key[r] \notin cache
    /\ LoadBooking(r, BookingOf[On[r]])
    /\ todo' = [todo EXCEPT ![r] = {On[r]}]
    /\ Goto(r, "next")
    /\ UNCHANGED <<db, cache, writes, cur, since>>

StartBooking(r) ==
    /\ r \in BookingCancels /\ Sent(r)
    /\ LoadBooking(r, On[r])
    /\ Goto(r, "select")
    /\ UNCHANGED <<db, cache, writes, todo, cur, since>>

ConfirmedIn(S) == {i \in S : item[i] = "confirmed"}

\* cancel_full_booking: SELECT the confirmed items, none is a conflict.
SelectItems(r) ==
    /\ pc[r] = "select" /\ r \in BookingCancels
    /\ ConfirmedIn(ItemsOf(On[r])) # {}
    /\ todo' = [todo EXCEPT ![r] = ConfirmedIn(ItemsOf(On[r]))]
    /\ Goto(r, "next")
    /\ UNCHANGED <<db, cache, writes, cur, mem, memB, since>>

NoActiveItems(r) ==
    /\ pc[r] = "select" /\ r \in BookingCancels
    /\ ConfirmedIn(ItemsOf(On[r])) = {}
    /\ Abort(r)

\* cancel_flight: read the flight; one that is cancelled already is a conflict.
StartFlight(r) ==
    /\ r \in FlightCancels /\ Sent(r)
    /\ Goto(r, IF On[r] \in grounded THEN "rolled_back" ELSE "flight")
    /\ UNCHANGED <<db, cache, writes, session>>

\* UPDATE flights ... WHERE version = read: a commit since then is a conflict.
CancelFlightRow(r) ==
    /\ pc[r] = "flight"
    /\ FlightFree(r, On[r]) /\ On[r] \notin grounded
    /\ dFlights' = [dFlights EXCEPT ![r] = {On[r]}]
    /\ Goto(r, "select")
    /\ UNCHANGED <<db, cache, dSeats, dItems, dBookings, session>>

FlightChanged(r) ==
    /\ pc[r] = "flight"
    /\ FlightFree(r, On[r]) /\ On[r] \in grounded
    /\ Abort(r)

\* Its SELECT of the confirmed items puts fresh copies into the session.
SelectFlightItems(r) ==
    LET found == ConfirmedIn(ItemsOn(On[r])) IN
    /\ pc[r] = "select" /\ r \in FlightCancels
    /\ todo' = [todo EXCEPT ![r] = found]
    /\ mem' = [mem EXCEPT ![r] = [i \in found |-> "confirmed"]]
    /\ Goto(r, IF found = {} THEN "commit" ELSE "next")
    /\ UNCHANGED <<db, cache, writes, cur, memB, since>>

\* Between two items cancel_flight refers to no booking: the session may drop
\* one, with the items only the booking referred to.
DropBooking(r) ==
    /\ pc[r] = "next" /\ r \in FlightCancels
    /\ \E b \in DOMAIN memB[r] :
        LET gone == ItemsOf(b) \ (todo[r] \cup dItems[r]) IN
        /\ memB' = [memB EXCEPT ![r] = [k \in DOMAIN @ \ {b} |-> @[k]]]
        /\ mem' = [mem EXCEPT ![r] = [i \in DOMAIN @ \ gone |-> @[i]]]
    /\ UNCHANGED <<db, cache, writes, pc, todo, cur, since>>

-----------------------------------------------------------------------------
(* cancel_booking_item *)

\* The item's booking is loaded too; an item whose copy is cancelled is a conflict.
TakeItem(r) ==
    /\ pc[r] = "next"
    /\ \E i \in todo[r] :
        /\ mem[r][i] = "confirmed"
        /\ LoadBooking(r, BookingOf[i])
        /\ todo' = [todo EXCEPT ![r] = @ \ {i}]
        /\ cur' = [cur EXCEPT ![r] = i]
        /\ since' = [since EXCEPT ![r] = commits[CabinOf[i]]]
    /\ Goto(r, "release")
    /\ UNCHANGED <<db, cache, writes>>

AlreadyCancelled(r) ==
    /\ pc[r] = "next"
    /\ \E i \in todo[r] : mem[r][i] = "cancelled"
    /\ Abort(r)

\* released_seats_for_fare: adjust_available_seats(+1).
ReleaseSeat(r) ==
    LET c == CabinOf[cur[r]] IN
    /\ pc[r] = "release"
    /\ SeatsFree(r, c)
    /\ dSeats' = [dSeats EXCEPT ![r] = Over([x \in {c} |-> Over(@, seats)[c] + 1], @)]
    /\ Goto(r, "flush")
    /\ UNCHANGED <<db, cache, dItems, dBookings, dFlights, session>>

\* "Unable to release seat back to inventory": every attempt lost a race.
GiveUp(r) ==
    LET c == CabinOf[cur[r]] IN
    /\ pc[r] = "release"
    /\ c \notin DOMAIN dSeats[r] /\ commits[c] - since[r] >= MaxRetries
    /\ Abort(r)

\* UPDATE booking_items by primary key; the refund and audit rows go with it.
FlushItem(r) ==
    /\ pc[r] = "flush"
    /\ ItemFree(r, cur[r])
    /\ dItems' = [dItems EXCEPT ![r] = @ \cup {cur[r]}]
    /\ mem' = [mem EXCEPT ![r][cur[r]] = "cancelled"]
    /\ Goto(r, "recompute")
    /\ UNCHANGED <<db, cache, dSeats, dBookings, dFlights, todo, cur, memB, since>>

\* Mutant: only the item at hand is looked at.
StatusOfCurrent(r, b) == mem[r][cur[r]]

\* recompute_booking_status, from the session's copies of the items.
StatusFrom(r, b) ==
    IF \A i \in ItemsOf(b) : mem[r][i] = "cancelled" THEN "cancelled"
    ELSE IF \E i \in ItemsOf(b) : mem[r][i] = "cancelled" THEN "partially_cancelled"
    ELSE "confirmed"

\* An UPDATE of the booking is sent only when the status differs from the copy.
\* The item endpoint then stores its response, before the commit.
Recompute(r) ==
    LET b == BookingOf[cur[r]]
        new == StatusFrom(r, b)
    IN
    /\ pc[r] = "recompute"
    /\ IF new = memB[r][b] THEN UNCHANGED dBookings
       ELSE BookingFree(r, b) /\ dBookings' = [dBookings EXCEPT ![r] = Over([x \in {b} |-> new], @)]
    /\ memB' = [memB EXCEPT ![r][b] = new]
    /\ cache' = IF r \in ItemCancels THEN cache \cup ({Key[r]} \ {NoKey}) ELSE cache
    /\ Goto(r, IF todo[r] = {} THEN "commit" ELSE "next")
    /\ UNCHANGED <<db, dSeats, dItems, dFlights, todo, cur, mem, since>>

-----------------------------------------------------------------------------

\* Mutant: nothing is due when the fare is not refundable, whatever the reason.
FareRefund(r, i) == IF i \in Refundable THEN "refund" ELSE "none"

\* create_refund_for_item: the type of the refunds row, or none.
RefundType(r, i) ==
    IF i \in Refundable THEN "refund"
    ELSE IF Reason[r] = "customer" THEN "none" ELSE "travel_credit"

Commit(r) ==
    /\ pc[r] = "commit"
    /\ Goto(r, "committed")
    /\ seats' = Over(dSeats[r], seats)
    /\ commits' = [c \in Cabins |-> commits[c] + IF c \in DOMAIN dSeats[r] THEN 1 ELSE 0]
    /\ item' = [i \in Items |-> ItemSeen(r, i)]
    /\ audit' = [i \in Items |->
            IF i \in dItems[r] THEN Append(audit[i], RefundType(r, i)) ELSE audit[i]]
    /\ booking' = Over(dBookings[r], booking)
    /\ grounded' = grounded \cup dFlights[r]
    /\ CloseSession(r)
    /\ UNCHANGED cache

\* An exception, PostgreSQL breaking a deadlock included.
Rollback(r) ==
    /\ pc[r] \in Running
    /\ Abort(r)

\* The cache is lost on a restart, or an entry reaches its TTL.
Forget ==
    /\ \E k \in cache : cache' = cache \ {k}
    /\ UNCHANGED <<db, writes, pc, session>>

Terminating == (\A r \in Requests : pc[r] \in Ended) /\ UNCHANGED vars

Next ==
    \/ \E r \in Requests :
        \/ Replay(r) \/ StartItem(r) \/ StartBooking(r) \/ StartFlight(r)
        \/ SelectItems(r) \/ NoActiveItems(r)
        \/ CancelFlightRow(r) \/ FlightChanged(r) \/ SelectFlightItems(r)
        \/ DropBooking(r) \/ TakeItem(r) \/ AlreadyCancelled(r)
        \/ ReleaseSeat(r) \/ GiveUp(r) \/ FlushItem(r) \/ Recompute(r) \/ Commit(r) \/ Rollback(r)
    \/ Forget \/ Terminating

Spec == Init /\ [][Next]_vars

-----------------------------------------------------------------------------
(* Properties *)

Status == {"confirmed", "partially_cancelled", "cancelled"}

\* Every variable stays in its type; only running requests have written rows.
TypeOK ==
    /\ seats \in [Cabins -> Nat] /\ commits \in [Cabins -> Nat]
    /\ item \in [Items -> {"confirmed", "cancelled"}]
    /\ booking \in [Bookings -> Status] /\ grounded \subseteq Flights
    /\ \A i \in Items : Range(audit[i]) \subseteq {"none", "refund", "travel_credit"}
    /\ pc \in [Requests -> Running \cup Ended \cup {"idle"}]
    /\ todo \in [Requests -> SUBSET Items]
    /\ cur \in [Requests -> Items \cup {NoItem}]
    /\ \A r \in Requests :
        /\ DOMAIN mem[r] \subseteq Items /\ DOMAIN memB[r] \subseteq Bookings
        /\ pc[r] \notin Running =>
            dSeats[r] = Nothing /\ dItems[r] = {} /\ dBookings[r] = Nothing /\ dFlights[r] = {}

\* README "Audit trail ... in the same transaction": in every interleaving a
\* cabin gets back exactly one seat per audited cancellation, none lost to a
\* race on the count and none given back by a request that failed.
SeatsMatchAudit ==
    \A c \in Cabins :
        seats[c] = SumFunctionOnSet([i \in Items |-> Len(audit[i])], ItemsIn(c))

\* A stale copy never makes a booking look better settled than it is: its
\* status is confirmed only while no item is cancelled, and cancelled only
\* when all are.
StatusNeverAhead ==
    \A b \in Bookings :
        /\ booking[b] = "confirmed" <=> \A i \in ItemsOf(b) : item[i] = "confirmed"
        /\ booking[b] = "cancelled" => \A i \in ItemsOf(b) : item[i] = "cancelled"

CancelledByCustomer(i) ==
    \E r \in Requests :
        pc[r] = "committed" /\ Reason[r] = "customer" /\ On[r] \in {i, BookingOf[i]}

\* cancel_flight "compensate every affected booking item (Decision #6)": nobody
\* is left on a cancelled flight, and nobody leaves it with nothing except a
\* passenger who also cancelled.
AirlinePays ==
    \A f \in grounded : \A i \in ItemsOn(f) :
        /\ item[i] = "cancelled"
        /\ CancelledByCustomer(i) \/ Range(audit[i]) \ {"none"} # {}

\* "This booking item is already cancelled": an item is cancelled, its seat
\* given back and its refund created once.
CancelledOnce == \A i \in Items : Len(audit[i]) <= 1

\* recompute_booking_status: "derive the parent booking status from its items".
StatusFollowsItems ==
    \A b \in Bookings :
        (\A i \in ItemsOf(b) : item[i] = "cancelled") => booking[b] = "cancelled"

=============================================================================
