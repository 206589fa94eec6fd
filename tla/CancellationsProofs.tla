------------------------ MODULE CancellationsProofs ------------------------
(***************************************************************************)
(* Concurrent cancellations, for every set of requests, bookings, cabins   *)
(* and flights: proved in TLAPS.  A request decides on copies that may be  *)
(* old; the invariant says in what way a copy can be old, and what a       *)
(* request has written before it commits.                                  *)
(***************************************************************************)
EXTENDS Cancellations, RowsAndSums, TLAPS

Refunds == {"none", "refund", "travel_credit"}

\* Where a request has a current item.
Working == {"release", "flush", "recompute"}

\* The variables the argument is about are functions of their keys.
Shapes ==
    /\ seats \in [Cabins -> Nat] /\ commits \in [Cabins -> Nat]
    /\ item \in [Items -> {"confirmed", "cancelled"}]
    /\ booking \in [Bookings -> Status] /\ grounded \subseteq Flights
    /\ audit \in [Items -> Seq(Refunds)]
    /\ pc \in [Requests -> Running \cup Ended \cup {"idle"}]
    /\ todo \in [Requests -> SUBSET Items]
    /\ cur \in [Requests -> Items \cup {NoItem}]
    /\ dItems \in [Requests -> SUBSET Items]
    /\ dFlights \in [Requests -> SUBSET Flights]
    /\ DOMAIN dSeats = Requests /\ DOMAIN dBookings = Requests
    /\ DOMAIN mem = Requests /\ DOMAIN memB = Requests
    /\ \A r \in Requests :
        /\ DOMAIN mem[r] \subseteq Items /\ DOMAIN memB[r] \subseteq Bookings
        /\ DOMAIN dSeats[r] \subseteq Cabins /\ DOMAIN dBookings[r] \subseteq Bookings

\* A request has written rows only while it runs, items only while it works
\* on them.
Clean(r) ==
    /\ pc[r] \notin Running =>
        dSeats[r] = Nothing /\ dItems[r] = {} /\ dBookings[r] = Nothing /\ dFlights[r] = {}
    /\ pc[r] \in {"flight", "select"} => dItems[r] = {}

\* What is certain about a copy: an item that is cancelled in the session is
\* cancelled, and so is every item the request cancelled itself; a booking that
\* is not confirmed in the session is not confirmed.
Copies(r) ==
    /\ \A i \in DOMAIN mem[r] :
        mem[r][i] = "cancelled" => item[i] = "cancelled" \/ i \in dItems[r]
    /\ \A i \in dItems[r] : i \in DOMAIN mem[r] /\ mem[r][i] = "cancelled"
    /\ \A b \in DOMAIN memB[r] :
        memB[r][b] # "confirmed" => booking[b] # "confirmed" \/ b \in DOMAIN dBookings[r]

\* The current item is in the session with its booking and all its items, and
\* is cancelled by the flush.
Current(r) ==
    pc[r] \in Working =>
        /\ cur[r] \in Items
        /\ ItemsOf(BookingOf[cur[r]]) \subseteq DOMAIN mem[r]
        /\ BookingOf[cur[r]] \in DOMAIN memB[r]
        /\ cur[r] \in dItems[r] <=> pc[r] = "recompute"

\* A booking is written for an item the request cancelled, and as cancelled
\* only when all its items are.
WrittenBookings(r) ==
    \A b \in DOMAIN dBookings[r] :
        /\ dBookings[r][b] \in {"partially_cancelled", "cancelled"}
        /\ \E i \in ItemsOf(b) : i \in dItems[r]
        /\ dBookings[r][b] = "cancelled" =>
            \A i \in ItemsOf(b) : item[i] = "cancelled" \/ i \in dItems[r]

\* After the recomputation the booking of a cancelled item is not confirmed.
Recomputed(r) ==
    \A i \in dItems[r] :
        \/ pc[r] = "recompute" /\ i = cur[r]
        \/ booking[BookingOf[i]] # "confirmed"
        \/ BookingOf[i] \in DOMAIN dBookings[r]

\* The items a request may cancel.
Scope(r) ==
    IF r \in ItemCancels THEN {On[r]}
    ELSE IF r \in BookingCancels THEN ItemsOf(On[r]) ELSE ItemsOn(On[r])

Own(r) ==
    /\ todo[r] \subseteq Scope(r) /\ dItems[r] \subseteq Scope(r)
    /\ pc[r] \in Working => cur[r] \in Scope(r)
    /\ pc[r] = "flight" => r \in FlightCancels
    /\ dFlights[r] # {} => r \in FlightCancels /\ dFlights[r] = {On[r]}

\* A flight cancellation leaves out no item of its flight.
Flightwise(r) ==
    /\ r \in FlightCancels /\ pc[r] \in {"next", "commit"} \cup Working =>
        \A i \in ItemsOn(On[r]) :
            \/ item[i] = "cancelled" \/ i \in todo[r] \/ i \in dItems[r]
            \/ pc[r] \in {"release", "flush"} /\ i = cur[r]
    /\ pc[r] = "commit" => todo[r] = {}

\* The seats r has given back to cabin c: one per item it has cancelled, and
\* one for the item it is about to cancel.
Released(r, c) ==
    Cardinality(dItems[r] \cap ItemsIn(c))
        + IF pc[r] = "flush" /\ CabinOf[cur[r]] = c THEN 1 ELSE 0

Counted(r) ==
    \A c \in Cabins :
        IF c \in DOMAIN dSeats[r] THEN dSeats[r][c] = seats[c] + Released(r, c)
        ELSE Released(r, c) = 0

Local(r) ==
    /\ Clean(r) /\ Copies(r) /\ Current(r) /\ WrittenBookings(r) /\ Recomputed(r)
    /\ Own(r) /\ Flightwise(r) /\ Counted(r)

\* Two requests never have the same cabin row.
Locks == \A r \in Requests : \A o \in Requests \ {r} : DOMAIN dSeats[r] \cap DOMAIN dSeats[o] = {}

\* Who is cancelled and has nothing to show for it has cancelled himself.
Paid == \A i \in Items : item[i] = "cancelled" =>
    CancelledByCustomer(i) \/ Range(audit[i]) \ {"none"} # {}

Empty == \A f \in grounded : \A i \in ItemsOn(f) : item[i] = "cancelled"

IInv ==
    /\ Shapes /\ Locks /\ (\A r \in Requests : Local(r))
    /\ StatusNeverAhead /\ Paid /\ Empty /\ SeatsMatchAudit

-----------------------------------------------------------------------------
(* Steps that commit nothing *)

\* Nothing is committed and only r goes on.
Alone(r) ==
    /\ UNCHANGED db
    /\ pc[r] # "committed" /\ pc'[r] # "committed"
    /\ \A o \in Requests \ {r} :
        /\ pc'[o] = pc[o] /\ todo'[o] = todo[o] /\ cur'[o] = cur[o]
        /\ mem'[o] = mem[o] /\ memB'[o] = memB[o]
        /\ dSeats'[o] = dSeats[o] /\ dItems'[o] = dItems[o]
        /\ dBookings'[o] = dBookings[o] /\ dFlights'[o] = dFlights[o]

LEMMA OthersStay ==
    ASSUME NEW r \in Requests, Alone(r), NEW o \in Requests \ {r}, Local(o)
    PROVE  Local(o)'
<1> USE DEF Alone, db
<1>1. Clean(o)' /\ Copies(o)' /\ Current(o)' /\ WrittenBookings(o)' /\ Recomputed(o)'
  BY DEF Local, Clean, Copies, Current, WrittenBookings, Recomputed
<1>2. Own(o)' /\ Flightwise(o)'
  BY DEF Local, Own, Scope, Flightwise
<1>3. Counted(o)'
  BY DEF Local, Counted, Released
<1>4. QED
  BY <1>1, <1>2, <1>3 DEF Local

\* What is left to show of such a step: the part of r.
LEMMA StepAlone ==
    ASSUME IInv, NEW r \in Requests, Alone(r), Shapes', Local(r)',
           \A o \in Requests \ {r} : DOMAIN dSeats'[r] \cap DOMAIN dSeats[o] = {}
    PROVE  IInv'
<1>1. \A o \in Requests : Local(o)'
  BY OthersStay DEF IInv
<1>2. Locks'
  BY DEF IInv, Locks, Alone
<1>3. StatusNeverAhead' /\ Empty' /\ SeatsMatchAudit'
  BY DEF IInv, Alone, db, StatusNeverAhead, Empty, SeatsMatchAudit
<1>4. Paid'
  <2>1. \A q \in Requests : pc'[q] = "committed" <=> pc[q] = "committed"
    BY DEF Alone
  <2>2. \A i \in Items : CancelledByCustomer(i)' <=> CancelledByCustomer(i)
    BY <2>1 DEF CancelledByCustomer
  <2>3. QED
    BY <2>2 DEF IInv, Alone, db, Paid
<1>5. QED
  BY <1>1, <1>2, <1>3, <1>4 DEF IInv

\* A request that ends without a commit leaves nothing behind.
LEMMA AbortStep ==
    ASSUME IInv, NEW r \in Requests, pc[r] # "committed", Abort(r)
    PROVE  IInv'
<1> USE DEF Abort, Goto, CloseSession, ForgetCopies, Nothing
<1>1. Shapes'
  BY DEF IInv, Shapes, Ended, db
<1>2. Alone(r)
  BY DEF IInv, Shapes, Alone
<1>3. /\ pc'[r] = "rolled_back" /\ dSeats'[r] = Nothing /\ dItems'[r] = {}
      /\ dBookings'[r] = Nothing /\ dFlights'[r] = {} /\ todo'[r] = {}
      /\ mem'[r] = Nothing /\ memB'[r] = Nothing
  BY DEF IInv, Shapes
<1>4. Local(r)'
  <2>1. Clean(r)' /\ Copies(r)' /\ Current(r)' /\ WrittenBookings(r)' /\ Recomputed(r)'
    BY <1>3 DEF Clean, Copies, Current, WrittenBookings, Recomputed, Working
  <2>2. Own(r)' /\ Flightwise(r)'
    BY <1>3 DEF Own, Flightwise, Working
  <2>3. \A c \in Cabins : Released(r, c)' = 0
    <3>1. Cardinality({}) = 0
      BY FS_EmptySet
    <3>2. ASSUME NEW c \in Cabins PROVE dItems'[r] \cap ItemsIn(c) = {}
      BY <1>3
    <3>3. pc'[r] # "flush" /\ 0 + 0 = 0
      BY <1>3
    <3> HIDE DEF Abort, CloseSession, ForgetCopies, Goto
    <3>4. QED
      BY <3>1, <3>2, <3>3 DEF Released
  <2>4. Counted(r)'
    BY <1>3, <2>3 DEF Counted
  <2>5. QED
    BY <2>1, <2>2, <2>4 DEF Local
<1>5. QED
  BY <1>1, <1>2, <1>3, <1>4, StepAlone

\* What LoadBooking does to the session of r.
LEMMA Loaded ==
    ASSUME Shapes, NEW r \in Requests, Copies(r), NEW b \in Bookings, LoadBooking(r, b)
    PROVE  /\ DOMAIN mem' = Requests /\ DOMAIN memB' = Requests
           /\ \A o \in Requests \ {r} : mem'[o] = mem[o] /\ memB'[o] = memB[o]
           /\ DOMAIN mem'[r] = DOMAIN mem[r] \cup ItemsOf(b)
           /\ DOMAIN memB'[r] = DOMAIN memB[r] \cup {b}
           /\ \A i \in DOMAIN mem[r] : mem'[r][i] = mem[r][i]
           /\ \A i \in DOMAIN mem'[r] :
                mem'[r][i] = "cancelled" => item[i] = "cancelled" \/ i \in dItems[r]
           /\ \A k \in DOMAIN memB'[r] :
                memB'[r][k] # "confirmed" => booking[k] # "confirmed" \/ k \in DOMAIN dBookings[r]
<1> DEFINE new == [i \in ItemsOf(b) |-> ItemSeen(r, i)]
<1> DEFINE newB == [x \in {b} |-> BookingSeen(r, b)]
<1>1. /\ DOMAIN mem' = Requests /\ DOMAIN memB' = Requests
      /\ mem'[r] = Over(mem[r], new) /\ memB'[r] = Over(memB[r], newB)
      /\ \A o \in Requests \ {r} : mem'[o] = mem[o] /\ memB'[o] = memB[o]
  BY DEF LoadBooking, Shapes
<1>2. /\ DOMAIN new = ItemsOf(b)
      /\ \A i \in ItemsOf(b) : new[i] = "cancelled" => item[i] = "cancelled" \/ i \in dItems[r]
  BY DEF ItemSeen
<1>3. DOMAIN newB = {b} /\ newB[b] = BookingSeen(r, b)
  OBVIOUS
<1>4. BookingSeen(r, b) # "confirmed" => booking[b] # "confirmed" \/ b \in DOMAIN dBookings[r]
  <2>1. /\ \A x \in DOMAIN dBookings[r] : Over(dBookings[r], booking)[x] = dBookings[r][x]
        /\ \A x \in DOMAIN booking \ DOMAIN dBookings[r] :
            Over(dBookings[r], booking)[x] = booking[x]
    BY OverIs
  <2>2. DOMAIN booking = Bookings
    BY DEF Shapes
  <2>3. QED
    BY <2>1, <2>2 DEF BookingSeen
<1> HIDE DEF new, newB
<1>5. /\ DOMAIN mem'[r] = DOMAIN mem[r] \cup ItemsOf(b)
      /\ \A i \in DOMAIN mem[r] : mem'[r][i] = mem[r][i]
      /\ \A i \in ItemsOf(b) \ DOMAIN mem[r] : mem'[r][i] = new[i]
  <2>1. /\ DOMAIN Over(mem[r], new) = DOMAIN mem[r] \cup DOMAIN new
        /\ \A x \in DOMAIN mem[r] : Over(mem[r], new)[x] = mem[r][x]
        /\ \A x \in DOMAIN new \ DOMAIN mem[r] : Over(mem[r], new)[x] = new[x]
    BY OverIs
  <2>2. QED
    BY <1>1, <1>2, <2>1
<1>6. /\ DOMAIN memB'[r] = DOMAIN memB[r] \cup {b}
      /\ \A k \in DOMAIN memB[r] : memB'[r][k] = memB[r][k]
      /\ \A k \in {b} \ DOMAIN memB[r] : memB'[r][k] = newB[k]
  <2>1. /\ DOMAIN Over(memB[r], newB) = DOMAIN memB[r] \cup DOMAIN newB
        /\ \A x \in DOMAIN memB[r] : Over(memB[r], newB)[x] = memB[r][x]
        /\ \A x \in DOMAIN newB \ DOMAIN memB[r] : Over(memB[r], newB)[x] = newB[x]
    BY OverIs
  <2>2. QED
    BY <1>1, <1>3, <2>1
<1>7. QED
  BY <1>1, <1>2, <1>3, <1>4, <1>5, <1>6 DEF Copies

\* Steps that write no row and take up no item.
LEMMA CountedStays ==
    ASSUME NEW r \in Requests, Counted(r), UNCHANGED <<seats, dSeats, dItems>>,
           pc[r] # "flush", pc'[r] # "flush"
    PROVE  Counted(r)'
BY DEF Counted, Released

LEMMA AnsweredStep ==
    ASSUME IInv, NEW r \in Requests, Replay(r) \/ StartFlight(r)
    PROVE  IInv'
<1> USE DEF Replay, StartFlight, Sent, Goto, db, writes, session
<1>1. Shapes'
  BY DEF IInv, Shapes, Ended, Running
<1>2. Alone(r)
  BY DEF IInv, Shapes, Alone
<1>3. UNCHANGED <<seats, item, booking, writes, todo, cur, mem, memB>>
  OBVIOUS
<1>4. pc[r] = "idle" /\ pc'[r] \in {"replayed", "rolled_back", "flight"}
      /\ (pc'[r] = "flight" => r \in FlightCancels)
  BY DEF IInv, Shapes
<1>5. Local(r)
  BY DEF IInv
<1>6. Clean(r)' /\ Copies(r)' /\ Current(r)' /\ WrittenBookings(r)' /\ Recomputed(r)'
  BY <1>3, <1>4, <1>5
     DEF Local, Clean, Copies, Current, WrittenBookings, Recomputed, Working, Running
<1>7. Own(r)' /\ Flightwise(r)'
  BY <1>3, <1>4, <1>5 DEF Local, Own, Flightwise, Scope, Working
<1>8. Counted(r)'
  BY <1>3, <1>4, <1>5, CountedStays DEF Local
<1>9. Local(r)'
  BY <1>6, <1>7, <1>8 DEF Local
<1>10. \A o \in Requests \ {r} : DOMAIN dSeats'[r] \cap DOMAIN dSeats[o] = {}
  BY <1>3 DEF IInv, Locks
<1>11. QED
  BY <1>1, <1>2, <1>9, <1>10, StepAlone

\* The item and the booking endpoint load the booking and, the former at once,
\* the latter after its SELECT, know what is to be cancelled.
LEMMA StartStep ==
    ASSUME IInv, NEW r \in Requests, StartItem(r) \/ StartBooking(r)
    PROVE  IInv'
<1> DEFINE b == IF r \in ItemCancels THEN BookingOf[On[r]] ELSE On[r]
<1>1. Local(r) /\ Shapes /\ Copies(r)
  BY DEF IInv, Local
<1>2. b \in Bookings /\ LoadBooking(r, b)
  BY RequestsAssumption DEF StartItem, StartBooking, Bookings
<1> HIDE DEF b
<1>3. /\ DOMAIN mem' = Requests /\ DOMAIN memB' = Requests
      /\ \A o \in Requests \ {r} : mem'[o] = mem[o] /\ memB'[o] = memB[o]
      /\ DOMAIN mem'[r] = DOMAIN mem[r] \cup ItemsOf(b)
      /\ DOMAIN memB'[r] = DOMAIN memB[r] \cup {b}
      /\ \A i \in DOMAIN mem[r] : mem'[r][i] = mem[r][i]
      /\ \A i \in DOMAIN mem'[r] :
            mem'[r][i] = "cancelled" => item[i] = "cancelled" \/ i \in dItems[r]
      /\ \A k \in DOMAIN memB'[r] :
            memB'[r][k] # "confirmed" => booking[k] # "confirmed" \/ k \in DOMAIN dBookings[r]
  BY <1>1, <1>2, Loaded
<1>4. /\ UNCHANGED <<seats, commits, item, booking, grounded, audit, cur>>
      /\ UNCHANGED <<dSeats, dItems, dBookings, dFlights>>
      /\ pc[r] = "idle" /\ pc'[r] \in {"next", "select"}
      /\ pc' = [pc EXCEPT ![r] = pc'[r]]
      /\ todo' = [todo EXCEPT ![r] = todo'[r]]
      /\ todo'[r] \subseteq Scope(r) \cap Items /\ r \notin FlightCancels
  <2>1. CASE StartItem(r)
    <3>1. todo' = [todo EXCEPT ![r] = {On[r]}] /\ pc' = [pc EXCEPT ![r] = "next"]
      BY <2>1 DEF StartItem, Goto
    <3>2. On[r] \in Items /\ r \notin FlightCancels /\ Scope(r) = {On[r]}
      BY <2>1, RequestsAssumption DEF StartItem, Scope
    <3>3. QED
      BY <1>1, <2>1, <3>1, <3>2 DEF StartItem, Sent, Shapes, db, writes
  <2>2. CASE StartBooking(r)
    <3>1. todo' = todo /\ pc' = [pc EXCEPT ![r] = "select"]
      BY <2>2 DEF StartBooking, Goto
    <3>2. r \notin FlightCancels
      BY <2>2, RequestsAssumption DEF StartBooking
    <3>3. QED
      BY <1>1, <2>2, <3>1, <3>2
         DEF StartBooking, Sent, Shapes, db, writes, Local, Own
  <2>3. QED
    BY <2>1, <2>2
<1>5. /\ dSeats[r] = Nothing /\ dItems[r] = {} /\ dBookings[r] = Nothing /\ dFlights[r] = {}
  BY <1>1, <1>4 DEF Local, Clean, Running
<1>6. Shapes'
  <2>1. ItemsOf(b) \subseteq Items
    BY DEF ItemsOf
  <2>2. /\ seats' \in [Cabins -> Nat] /\ commits' \in [Cabins -> Nat]
        /\ item' \in [Items -> {"confirmed", "cancelled"}]
        /\ booking' \in [Bookings -> Status] /\ grounded' \subseteq Flights
        /\ audit' \in [Items -> Seq(Refunds)]
        /\ cur' \in [Requests -> Items \cup {NoItem}]
        /\ dItems' \in [Requests -> SUBSET Items]
        /\ dFlights' \in [Requests -> SUBSET Flights]
        /\ DOMAIN dSeats' = Requests /\ DOMAIN dBookings' = Requests
    BY <1>1, <1>4 DEF Shapes
  <2>3. pc' \in [Requests -> Running \cup Ended \cup {"idle"}]
        /\ todo' \in [Requests -> SUBSET Items]
    BY <1>1, <1>4 DEF Shapes, Running
  <2>4. ASSUME NEW o \in Requests
        PROVE  /\ DOMAIN mem'[o] \subseteq Items /\ DOMAIN memB'[o] \subseteq Bookings
               /\ DOMAIN dSeats'[o] \subseteq Cabins /\ DOMAIN dBookings'[o] \subseteq Bookings
    <3>1. /\ DOMAIN mem[o] \subseteq Items /\ DOMAIN memB[o] \subseteq Bookings
          /\ DOMAIN dSeats[o] \subseteq Cabins /\ DOMAIN dBookings[o] \subseteq Bookings
      BY <1>1 DEF Shapes
    <3>2. QED
      BY <1>2, <1>3, <1>4, <2>1, <3>1
  <2>5. QED
    BY <1>3, <2>2, <2>3, <2>4 DEF Shapes
<1>7. Alone(r)
  BY <1>1, <1>3, <1>4 DEF Shapes, Alone, db
<1>8. Clean(r)' /\ Copies(r)' /\ Current(r)' /\ WrittenBookings(r)' /\ Recomputed(r)'
  BY <1>3, <1>4, <1>5
     DEF Clean, Copies, Current, WrittenBookings, Recomputed, Working, Running, Nothing
<1>9. Own(r)' /\ Flightwise(r)'
  BY <1>4, <1>5 DEF Own, Flightwise, Scope, Working
<1>10. Counted(r)'
  BY <1>1, <1>4, CountedStays DEF Local
<1>11. Local(r)'
  BY <1>8, <1>9, <1>10 DEF Local
<1>12. \A o \in Requests \ {r} : DOMAIN dSeats'[r] \cap DOMAIN dSeats[o] = {}
  BY <1>4 DEF IInv, Locks
<1>13. QED
  BY <1>6, <1>7, <1>11, <1>12, StepAlone

LEMMA SelectItemsStep ==
    ASSUME IInv, NEW r \in Requests, SelectItems(r)
    PROVE  IInv'
<1>1. Shapes /\ Local(r)
  BY DEF IInv
<1>2. /\ UNCHANGED <<seats, commits, item, booking, grounded, audit>>
      /\ UNCHANGED <<dSeats, dItems, dBookings, dFlights, cur, mem, memB>>
      /\ pc[r] = "select" /\ pc' = [pc EXCEPT ![r] = "next"]
      /\ todo' = [todo EXCEPT ![r] = ConfirmedIn(ItemsOf(On[r]))]
  BY DEF SelectItems, Goto, db, writes
<1>3. r \in BookingCancels /\ r \notin FlightCancels /\ r \notin ItemCancels
  BY RequestsAssumption DEF SelectItems
<1>4. ConfirmedIn(ItemsOf(On[r])) \subseteq Scope(r) \cap Items
  BY <1>3 DEF ConfirmedIn, ItemsOf, Scope
<1>5. Shapes'
  BY <1>1, <1>2, <1>4 DEF Shapes, Running
<1>6. Alone(r) /\ pc'[r] = "next" /\ todo'[r] \subseteq Scope(r)
  BY <1>1, <1>2, <1>4 DEF Shapes, Alone, db
<1>7. Clean(r)' /\ Copies(r)' /\ Current(r)' /\ WrittenBookings(r)' /\ Recomputed(r)'
  BY <1>1, <1>2, <1>6
     DEF Local, Clean, Copies, Current, WrittenBookings, Recomputed, Working, Running
<1>8. Own(r)' /\ Flightwise(r)'
  BY <1>1, <1>2, <1>3, <1>6 DEF Local, Own, Flightwise, Scope, Working
<1>9. Counted(r)'
  BY <1>1, <1>2, <1>6, CountedStays DEF Local
<1>10. Local(r)'
  BY <1>7, <1>8, <1>9 DEF Local
<1>11. \A o \in Requests \ {r} : DOMAIN dSeats'[r] \cap DOMAIN dSeats[o] = {}
  BY <1>2 DEF IInv, Locks
<1>12. QED
  BY <1>5, <1>6, <1>10, <1>11, StepAlone

LEMMA CancelFlightRowStep ==
    ASSUME IInv, NEW r \in Requests, CancelFlightRow(r)
    PROVE  IInv'
<1>1. Shapes /\ Local(r)
  BY DEF IInv
<1>2. /\ UNCHANGED <<seats, commits, item, booking, grounded, audit>>
      /\ UNCHANGED <<dSeats, dItems, dBookings, todo, cur, mem, memB>>
      /\ pc[r] = "flight" /\ pc' = [pc EXCEPT ![r] = "select"]
      /\ dFlights' = [dFlights EXCEPT ![r] = {On[r]}]
  BY DEF CancelFlightRow, Goto, db, session
<1>3. r \in FlightCancels /\ On[r] \in Flights
  BY <1>1, <1>2, RequestsAssumption DEF Local, Own
<1>4. Shapes'
  BY <1>1, <1>2, <1>3 DEF Shapes, Running
<1>5. Alone(r) /\ pc'[r] = "select" /\ dFlights'[r] = {On[r]}
  BY <1>1, <1>2 DEF Shapes, Alone, db
<1>6. Clean(r)' /\ Copies(r)' /\ Current(r)' /\ WrittenBookings(r)' /\ Recomputed(r)'
  BY <1>1, <1>2, <1>5
     DEF Local, Clean, Copies, Current, WrittenBookings, Recomputed, Working, Running
<1>7. Own(r)' /\ Flightwise(r)'
  BY <1>1, <1>2, <1>3, <1>5 DEF Local, Own, Flightwise, Scope, Working
<1>8. Counted(r)'
  BY <1>1, <1>2, <1>5, CountedStays DEF Local
<1>9. Local(r)'
  BY <1>6, <1>7, <1>8 DEF Local
<1>10. \A o \in Requests \ {r} : DOMAIN dSeats'[r] \cap DOMAIN dSeats[o] = {}
  BY <1>2 DEF IInv, Locks
<1>11. QED
  BY <1>4, <1>5, <1>9, <1>10, StepAlone

LEMMA SelectFlightItemsStep ==
    ASSUME IInv, NEW r \in Requests, SelectFlightItems(r)
    PROVE  IInv'
<1> DEFINE found == ConfirmedIn(ItemsOn(On[r]))
<1> DEFINE copies == [i \in found |-> "confirmed"]
<1>1. Shapes /\ Local(r)
  BY DEF IInv
<1>2. /\ UNCHANGED <<seats, commits, item, booking, grounded, audit>>
      /\ UNCHANGED <<dSeats, dItems, dBookings, dFlights, cur, memB>>
      /\ pc[r] = "select" /\ r \in FlightCancels
      /\ pc' = [pc EXCEPT ![r] = IF found = {} THEN "commit" ELSE "next"]
      /\ todo' = [todo EXCEPT ![r] = found]
      /\ mem' = [mem EXCEPT ![r] = copies]
  BY DEF SelectFlightItems, Goto, db, writes
<1>3. r \notin ItemCancels \cup BookingCancels
  BY <1>2, RequestsAssumption
<1>4. /\ DOMAIN copies = found /\ \A i \in found : copies[i] = "confirmed"
      /\ found \subseteq ItemsOn(On[r]) /\ found \subseteq Items
      /\ \A i \in ItemsOn(On[r]) : i \in found \/ item[i] = "cancelled"
  BY <1>1 DEF ConfirmedIn, ItemsOn, Shapes
<1> HIDE DEF found, copies
<1>5. Shapes'
  <2>1. \A o \in Requests : DOMAIN mem'[o] \subseteq Items
    BY <1>1, <1>2, <1>4 DEF Shapes
  <2>2. pc' \in [Requests -> Running \cup Ended \cup {"idle"}]
    BY <1>1, <1>2 DEF Shapes, Running
  <2>3. QED
    BY <1>1, <1>2, <1>4, <2>1, <2>2 DEF Shapes
<1>6. /\ pc'[r] = IF found = {} THEN "commit" ELSE "next"
      /\ todo'[r] = found /\ mem'[r] = copies
      /\ \A o \in Requests \ {r} : pc'[o] = pc[o] /\ todo'[o] = todo[o] /\ mem'[o] = mem[o]
  BY <1>1, <1>2 DEF Shapes
<1>7. Alone(r)
  BY <1>2, <1>6 DEF Alone, db
<1>8. dItems[r] = {}
  BY <1>1, <1>2 DEF Local, Clean
<1>9. Clean(r)' /\ Copies(r)' /\ Current(r)' /\ WrittenBookings(r)' /\ Recomputed(r)'
  BY <1>1, <1>2, <1>4, <1>6, <1>8
     DEF Local, Clean, Copies, Current, WrittenBookings, Recomputed, Working, Running
<1>10. Own(r)' /\ Flightwise(r)'
  BY <1>1, <1>2, <1>3, <1>4, <1>6 DEF Local, Own, Flightwise, Scope, Working
<1>11. Counted(r)'
  BY <1>1, <1>2, <1>6, CountedStays DEF Local
<1>12. Local(r)'
  BY <1>9, <1>10, <1>11 DEF Local
<1>13. \A o \in Requests \ {r} : DOMAIN dSeats'[r] \cap DOMAIN dSeats[o] = {}
  BY <1>2 DEF IInv, Locks
<1>14. QED
  BY <1>5, <1>7, <1>12, <1>13, StepAlone

\* A dropped booking may come back with other copies: an item the request
\* cancelled itself stays in the session.
LEMMA DropBookingStep ==
    ASSUME IInv, NEW r \in Requests, DropBooking(r)
    PROVE  IInv'
<1>1. Shapes /\ Local(r)
  BY DEF IInv
<1>2. PICK b \in DOMAIN memB[r] :
        /\ memB' = [memB EXCEPT ![r] = [k \in DOMAIN @ \ {b} |-> @[k]]]
        /\ mem' = [mem EXCEPT ![r] =
                    [i \in DOMAIN @ \ (ItemsOf(b) \ (todo[r] \cup dItems[r])) |-> @[i]]]
  BY DEF DropBooking
<1>3. /\ UNCHANGED <<seats, commits, item, booking, grounded, audit>>
      /\ UNCHANGED <<dSeats, dItems, dBookings, dFlights, pc, todo, cur>>
      /\ pc[r] = "next"
  BY DEF DropBooking, db, writes
<1>4. /\ DOMAIN mem' = Requests /\ DOMAIN memB' = Requests
      /\ \A o \in Requests \ {r} : mem'[o] = mem[o] /\ memB'[o] = memB[o]
      /\ DOMAIN mem'[r] \subseteq DOMAIN mem[r] /\ DOMAIN memB'[r] \subseteq DOMAIN memB[r]
      /\ dItems[r] \cap DOMAIN mem[r] \subseteq DOMAIN mem'[r]
      /\ \A i \in DOMAIN mem'[r] : mem'[r][i] = mem[r][i]
      /\ \A k \in DOMAIN memB'[r] : memB'[r][k] = memB[r][k]
  BY <1>1, <1>2 DEF Shapes
<1>5. Shapes'
  <2>1. \A o \in Requests : DOMAIN mem'[o] \subseteq Items /\ DOMAIN memB'[o] \subseteq Bookings
    BY <1>1, <1>4 DEF Shapes
  <2>2. QED
    BY <1>1, <1>3, <1>4, <2>1 DEF Shapes
<1>6. Alone(r)
  BY <1>3, <1>4 DEF Alone, db
<1>7. Clean(r)' /\ Copies(r)' /\ Current(r)' /\ WrittenBookings(r)' /\ Recomputed(r)'
  BY <1>1, <1>3, <1>4
     DEF Local, Clean, Copies, Current, WrittenBookings, Recomputed, Working, Running
<1>8. Own(r)' /\ Flightwise(r)'
  BY <1>1, <1>3 DEF Local, Own, Flightwise, Scope, Working
<1>9. Counted(r)'
  BY <1>1, <1>3, CountedStays DEF Local
<1>10. Local(r)'
  BY <1>7, <1>8, <1>9 DEF Local
<1>11. \A o \in Requests \ {r} : DOMAIN dSeats'[r] \cap DOMAIN dSeats[o] = {}
  BY <1>3 DEF IInv, Locks
<1>12. QED
  BY <1>5, <1>6, <1>10, <1>11, StepAlone

-----------------------------------------------------------------------------
(* The four statements that cancel an item *)

LEMMA TakeItemStep ==
    ASSUME IInv, NEW r \in Requests, TakeItem(r)
    PROVE  IInv'
<1>1. Shapes /\ Local(r) /\ Copies(r)
  BY DEF IInv, Local
<1>2. PICK i \in todo[r] :
        /\ mem[r][i] = "confirmed" /\ LoadBooking(r, BookingOf[i])
        /\ todo' = [todo EXCEPT ![r] = @ \ {i}] /\ cur' = [cur EXCEPT ![r] = i]
  BY DEF TakeItem
<1>3. /\ UNCHANGED <<seats, commits, item, booking, grounded, audit>>
      /\ UNCHANGED <<dSeats, dItems, dBookings, dFlights>>
      /\ pc[r] = "next" /\ pc' = [pc EXCEPT ![r] = "release"]
  BY DEF TakeItem, Goto, db, writes
<1> DEFINE b == BookingOf[i]
<1>4. i \in Items /\ b \in Bookings /\ ItemsOf(b) \subseteq Items /\ i \notin dItems[r]
  BY <1>1, <1>2 DEF Shapes, Bookings, ItemsOf, Copies
<1> HIDE DEF b
<1>5. /\ DOMAIN mem' = Requests /\ DOMAIN memB' = Requests
      /\ \A o \in Requests \ {r} : mem'[o] = mem[o] /\ memB'[o] = memB[o]
      /\ DOMAIN mem'[r] = DOMAIN mem[r] \cup ItemsOf(b)
      /\ DOMAIN memB'[r] = DOMAIN memB[r] \cup {b}
      /\ \A j \in DOMAIN mem[r] : mem'[r][j] = mem[r][j]
      /\ \A j \in DOMAIN mem'[r] :
            mem'[r][j] = "cancelled" => item[j] = "cancelled" \/ j \in dItems[r]
      /\ \A k \in DOMAIN memB'[r] :
            memB'[r][k] # "confirmed" => booking[k] # "confirmed" \/ k \in DOMAIN dBookings[r]
  BY <1>1, <1>2, <1>4, Loaded DEF b
<1>6. /\ pc'[r] = "release" /\ todo'[r] = todo[r] \ {i} /\ cur'[r] = i
      /\ \A o \in Requests \ {r} : pc'[o] = pc[o] /\ todo'[o] = todo[o] /\ cur'[o] = cur[o]
  BY <1>1, <1>2, <1>3 DEF Shapes
<1>7. Shapes'
  <2>1. ASSUME NEW o \in Requests
        PROVE  /\ DOMAIN mem'[o] \subseteq Items /\ DOMAIN memB'[o] \subseteq Bookings
               /\ DOMAIN dSeats'[o] \subseteq Cabins /\ DOMAIN dBookings'[o] \subseteq Bookings
    <3>1. /\ DOMAIN mem[o] \subseteq Items /\ DOMAIN memB[o] \subseteq Bookings
          /\ DOMAIN dSeats[o] \subseteq Cabins /\ DOMAIN dBookings[o] \subseteq Bookings
      BY <1>1 DEF Shapes
    <3>2. QED
      BY <1>3, <1>4, <1>5, <3>1
  <2>2. pc' \in [Requests -> Running \cup Ended \cup {"idle"}]
    BY <1>1, <1>3 DEF Shapes, Running
  <2>3. todo' \in [Requests -> SUBSET Items] /\ cur' \in [Requests -> Items \cup {NoItem}]
    BY <1>1, <1>2, <1>4 DEF Shapes
  <2>4. QED
    BY <1>1, <1>3, <1>5, <2>1, <2>2, <2>3 DEF Shapes
<1>8. Alone(r)
  BY <1>3, <1>5, <1>6 DEF Alone, db
<1>9. Clean(r)' /\ WrittenBookings(r)' /\ Recomputed(r)'
  BY <1>1, <1>3, <1>6 DEF Local, Clean, WrittenBookings, Recomputed, Running
<1>10. Copies(r)'
  BY <1>1, <1>3, <1>5 DEF Copies
<1>11. Current(r)'
  BY <1>3, <1>4, <1>5, <1>6 DEF Current, b
<1>12. Own(r)' /\ Flightwise(r)'
  BY <1>1, <1>2, <1>3, <1>6 DEF Local, Own, Flightwise, Scope, Working
<1>13. Counted(r)'
  BY <1>1, <1>3, <1>6, CountedStays DEF Local
<1>14. Local(r)'
  BY <1>9, <1>10, <1>11, <1>12, <1>13 DEF Local
<1>15. \A o \in Requests \ {r} : DOMAIN dSeats'[r] \cap DOMAIN dSeats[o] = {}
  BY <1>3 DEF IInv, Locks
<1>16. QED
  BY <1>7, <1>8, <1>14, <1>15, StepAlone

LEMMA ReleasedIs ==
    ASSUME Shapes, NEW r \in Requests, NEW c \in Cabins
    PROVE  IsFiniteSet(dItems[r] \cap ItemsIn(c)) /\ Released(r, c) \in Nat
<1>1. dItems[r] \cap ItemsIn(c) \subseteq Items /\ IsFiniteSet(Items)
  BY ItemsAssumption DEF Shapes
<1>2. IsFiniteSet(dItems[r] \cap ItemsIn(c))
  BY <1>1, FS_Subset
<1>3. Cardinality(dItems[r] \cap ItemsIn(c)) \in Nat
  BY <1>2, FS_CardinalityType
<1>4. QED
  BY <1>2, <1>3 DEF Released

LEMMA ReleaseSeatStep ==
    ASSUME IInv, NEW r \in Requests, ReleaseSeat(r)
    PROVE  IInv'
<1> DEFINE c == CabinOf[cur[r]]
<1> DEFINE seen == Over(dSeats[r], seats)[c]
<1> DEFINE new == [x \in {c} |-> seen + 1]
<1>1. Shapes /\ Local(r)
  BY DEF IInv
<1>2. /\ UNCHANGED <<seats, commits, item, booking, grounded, audit>>
      /\ UNCHANGED <<dItems, dBookings, dFlights, todo, cur, mem, memB>>
      /\ pc[r] = "release" /\ pc' = [pc EXCEPT ![r] = "flush"]
      /\ dSeats' = [dSeats EXCEPT ![r] = Over(new, dSeats[r])]
  BY <1>1 DEF ReleaseSeat, Goto, db, session, Shapes
<1>3. \A o \in Requests \ {r} : c \notin DOMAIN dSeats[o]
  BY DEF ReleaseSeat, SeatsFree
<1>4. c \in Cabins
  BY <1>1, <1>2 DEF Local, Current, Working, Cabins
<1>5. seen = IF c \in DOMAIN dSeats[r] THEN dSeats[r][c] ELSE seats[c]
  <2>1. /\ \A x \in DOMAIN dSeats[r] : Over(dSeats[r], seats)[x] = dSeats[r][x]
        /\ \A x \in DOMAIN seats \ DOMAIN dSeats[r] : Over(dSeats[r], seats)[x] = seats[x]
    BY OverIs
  <2>2. DOMAIN seats = Cabins
    BY <1>1 DEF Shapes
  <2>3. QED
    BY <1>4, <2>1, <2>2
<1>6. DOMAIN new = {c} /\ new[c] = seen + 1
  OBVIOUS
<1> HIDE DEF new, seen
<1>7. /\ DOMAIN Over(new, dSeats[r]) = {c} \cup DOMAIN dSeats[r]
      /\ Over(new, dSeats[r])[c] = seen + 1
      /\ \A x \in DOMAIN dSeats[r] \ {c} : Over(new, dSeats[r])[x] = dSeats[r][x]
  <2>1. /\ DOMAIN Over(new, dSeats[r]) = DOMAIN new \cup DOMAIN dSeats[r]
        /\ \A x \in DOMAIN new : Over(new, dSeats[r])[x] = new[x]
        /\ \A x \in DOMAIN dSeats[r] \ DOMAIN new : Over(new, dSeats[r])[x] = dSeats[r][x]
    BY OverIs
  <2>2. QED
    BY <1>6, <2>1
<1>8. /\ DOMAIN dSeats' = Requests
      /\ dSeats'[r] = Over(new, dSeats[r])
      /\ \A o \in Requests \ {r} : dSeats'[o] = dSeats[o]
      /\ pc'[r] = "flush" /\ \A o \in Requests \ {r} : pc'[o] = pc[o]
  BY <1>1, <1>2 DEF Shapes
<1>9. Shapes'
  <2>1. \A o \in Requests : DOMAIN dSeats'[o] \subseteq Cabins
    BY <1>1, <1>4, <1>7, <1>8 DEF Shapes
  <2>2. pc' \in [Requests -> Running \cup Ended \cup {"idle"}]
    BY <1>1, <1>2 DEF Shapes, Running
  <2>3. QED
    BY <1>1, <1>2, <1>8, <2>1, <2>2 DEF Shapes
<1>10. Alone(r)
  BY <1>2, <1>8 DEF Alone, db
<1>11. Clean(r)' /\ Copies(r)' /\ Current(r)' /\ WrittenBookings(r)' /\ Recomputed(r)'
  BY <1>1, <1>2, <1>8
     DEF Local, Clean, Copies, Current, WrittenBookings, Recomputed, Working, Running
<1>12. Own(r)' /\ Flightwise(r)'
  BY <1>1, <1>2, <1>8 DEF Local, Own, Flightwise, Scope, Working
<1>13. Counted(r)'
  <2> SUFFICES ASSUME NEW d \in Cabins
               PROVE  IF d \in DOMAIN dSeats'[r]
                      THEN dSeats'[r][d] = seats[d] + Released(r, d)' ELSE Released(r, d)' = 0
    BY <1>2 DEF Counted
  <2>1. Cardinality(dItems[r] \cap ItemsIn(d)) \in Nat
    BY <1>1, ReleasedIs, FS_CardinalityType
  <2>2. /\ Released(r, d) = Cardinality(dItems[r] \cap ItemsIn(d))
        /\ Released(r, d)' = Cardinality(dItems[r] \cap ItemsIn(d)) + IF c = d THEN 1 ELSE 0
    BY <1>2, <1>8, <2>1 DEF Released
  <2>3. IF d \in DOMAIN dSeats[r] THEN dSeats[r][d] = seats[d] + Released(r, d)
        ELSE Released(r, d) = 0
    BY <1>1 DEF Local, Counted
  <2>4. seats[d] \in Nat /\ Released(r, d) \in Nat
    BY <1>1, ReleasedIs DEF Shapes
  <2>5. CASE d = c
    BY <1>5, <1>7, <1>8, <2>2, <2>3, <2>4, <2>5
  <2>6. CASE d # c
    BY <1>7, <1>8, <2>2, <2>3, <2>4, <2>6
  <2>7. QED
    BY <2>5, <2>6
<1>14. Local(r)'
  BY <1>11, <1>12, <1>13 DEF Local
<1>15. \A o \in Requests \ {r} : DOMAIN dSeats'[r] \cap DOMAIN dSeats[o] = {}
  BY <1>3, <1>7, <1>8 DEF IInv, Locks
<1>16. QED
  BY <1>9, <1>10, <1>14, <1>15, StepAlone

LEMMA FlushItemStep ==
    ASSUME IInv, NEW r \in Requests, FlushItem(r)
    PROVE  IInv'
<1> DEFINE i == cur[r]
<1>1. Shapes /\ Local(r)
  BY DEF IInv
<1>2. /\ UNCHANGED <<seats, commits, item, booking, grounded, audit>>
      /\ UNCHANGED <<dSeats, dBookings, dFlights, todo, cur, memB>>
      /\ pc[r] = "flush" /\ pc' = [pc EXCEPT ![r] = "recompute"]
      /\ dItems' = [dItems EXCEPT ![r] = @ \cup {i}]
      /\ mem' = [mem EXCEPT ![r][i] = "cancelled"]
  BY DEF FlushItem, Goto, db
<1>3. i \in Items /\ i \notin dItems[r] /\ i \in Scope(r)
      /\ ItemsOf(BookingOf[i]) \subseteq DOMAIN mem[r] /\ BookingOf[i] \in DOMAIN memB[r]
  BY <1>1, <1>2 DEF Local, Current, Own, Working
<1>4. i \in DOMAIN mem[r]
  BY <1>3 DEF ItemsOf
<1> HIDE DEF i
<1>5. /\ pc'[r] = "recompute" /\ dItems'[r] = dItems[r] \cup {i}
      /\ DOMAIN mem' = Requests /\ DOMAIN mem'[r] = DOMAIN mem[r]
      /\ mem'[r][i] = "cancelled"
      /\ \A j \in DOMAIN mem[r] \ {i} : mem'[r][j] = mem[r][j]
      /\ \A o \in Requests \ {r} : pc'[o] = pc[o] /\ dItems'[o] = dItems[o] /\ mem'[o] = mem[o]
  BY <1>1, <1>2, <1>4 DEF Shapes
<1>6. Shapes'
  <2>1. \A o \in Requests : DOMAIN mem'[o] \subseteq Items
    BY <1>1, <1>5 DEF Shapes
  <2>2. pc' \in [Requests -> Running \cup Ended \cup {"idle"}]
    BY <1>1, <1>2 DEF Shapes, Running
  <2>3. dItems' \in [Requests -> SUBSET Items]
    BY <1>1, <1>2, <1>3 DEF Shapes
  <2>4. QED
    BY <1>1, <1>2, <1>5, <2>1, <2>2, <2>3 DEF Shapes
<1>7. Alone(r)
  BY <1>2, <1>5 DEF Alone, db
<1>8. Clean(r)' /\ Copies(r)' /\ WrittenBookings(r)' /\ Recomputed(r)'
  BY <1>1, <1>2, <1>4, <1>5
     DEF Local, Clean, Copies, WrittenBookings, Recomputed, Running, i
<1>9. Current(r)'
  BY <1>2, <1>3, <1>5 DEF Current, Working, i
<1>10. Own(r)' /\ Flightwise(r)'
  BY <1>1, <1>2, <1>3, <1>5 DEF Local, Own, Flightwise, Scope, Working, i
<1>11. ASSUME NEW c \in Cabins PROVE Released(r, c)' = Released(r, c)
  <2> DEFINE T == dItems[r] \cap ItemsIn(c)
  <2> DEFINE U == T \cup {i}
  <2> DEFINE new == dItems'[r] \cap ItemsIn(c)
  <2>1. IsFiniteSet(T) /\ i \notin T
    BY <1>1, <1>3, ReleasedIs
  <2>2. Cardinality(T) \in Nat /\ Cardinality(U) = Cardinality(T) + 1
    <3> HIDE DEF T
    <3>1. QED
      BY <2>1, FS_AddElement, FS_CardinalityType
  <2>3. Released(r, c) = Cardinality(T) + IF CabinOf[i] = c THEN 1 ELSE 0
    BY <1>2 DEF Released, i
  <2>4. Released(r, c)' = Cardinality(new) + 0
    BY <1>5 DEF Released
  <2>5. new = IF CabinOf[i] = c THEN U ELSE T
    BY <1>3, <1>5 DEF ItemsIn
  <2> HIDE DEF T, U, new
  <2>6. QED
    BY <2>2, <2>3, <2>4, <2>5
<1>12. Counted(r)'
  BY <1>1, <1>2, <1>11 DEF Local, Counted
<1>13. Local(r)'
  BY <1>8, <1>9, <1>10, <1>12 DEF Local
<1>14. \A o \in Requests \ {r} : DOMAIN dSeats'[r] \cap DOMAIN dSeats[o] = {}
  BY <1>2 DEF IInv, Locks
<1>15. QED
  BY <1>6, <1>7, <1>13, <1>14, StepAlone

\* The status is computed from the copies, and an equal status is not written.
LEMMA RecomputeStep ==
    ASSUME IInv, NEW r \in Requests, Recompute(r)
    PROVE  IInv'
<1> DEFINE b == BookingOf[cur[r]]
<1> DEFINE new == StatusFrom(r, b)
<1> DEFINE row == [x \in {b} |-> new]
<1>1. Shapes /\ Local(r)
  BY DEF IInv
<1>2. /\ UNCHANGED <<seats, commits, item, booking, grounded, audit>>
      /\ UNCHANGED <<dSeats, dItems, dFlights, todo, cur, mem>>
      /\ pc[r] = "recompute"
      /\ pc' = [pc EXCEPT ![r] = IF todo[r] = {} THEN "commit" ELSE "next"]
      /\ memB' = [memB EXCEPT ![r][b] = new]
      /\ \/ new = memB[r][b] /\ UNCHANGED dBookings
         \/ dBookings' = [dBookings EXCEPT ![r] = Over(row, dBookings[r])]
  BY <1>1 DEF Recompute, Goto, db, Shapes
<1>3. /\ cur[r] \in Items /\ cur[r] \in dItems[r] /\ cur[r] \in ItemsOf(b)
      /\ ItemsOf(b) \subseteq DOMAIN mem[r] /\ b \in DOMAIN memB[r] /\ b \in Bookings
  BY <1>1, <1>2 DEF Local, Current, Working, ItemsOf, Bookings
<1>4. /\ new \in {"partially_cancelled", "cancelled"}
      /\ new = "cancelled" => \A i \in ItemsOf(b) : item[i] = "cancelled" \/ i \in dItems[r]
  <2>1. mem[r][cur[r]] = "cancelled"
    BY <1>1, <1>3 DEF Local, Copies
  <2>2. new \in {"partially_cancelled", "cancelled"}
    BY <1>3, <2>1 DEF StatusFrom
  <2>3. new = "cancelled" => \A i \in ItemsOf(b) : mem[r][i] = "cancelled"
    BY DEF StatusFrom
  <2>4. QED
    BY <1>1, <1>3, <2>2, <2>3 DEF Local, Copies
<1>5. DOMAIN row = {b} /\ row[b] = new
  OBVIOUS
<1> HIDE DEF row, new, b
<1>6. /\ DOMAIN Over(row, dBookings[r]) = {b} \cup DOMAIN dBookings[r]
      /\ Over(row, dBookings[r])[b] = new
      /\ \A x \in DOMAIN dBookings[r] \ {b} : Over(row, dBookings[r])[x] = dBookings[r][x]
  <2>1. /\ DOMAIN Over(row, dBookings[r]) = DOMAIN row \cup DOMAIN dBookings[r]
        /\ \A x \in DOMAIN row : Over(row, dBookings[r])[x] = row[x]
        /\ \A x \in DOMAIN dBookings[r] \ DOMAIN row :
            Over(row, dBookings[r])[x] = dBookings[r][x]
    BY OverIs
  <2>2. QED
    BY <1>5, <2>1
<1>7. /\ DOMAIN dBookings' = Requests
      /\ \A o \in Requests \ {r} : dBookings'[o] = dBookings[o]
      /\ \/ new = memB[r][b] /\ dBookings'[r] = dBookings[r]
         \/ /\ DOMAIN dBookings'[r] = {b} \cup DOMAIN dBookings[r]
            /\ dBookings'[r][b] = new
            /\ \A x \in DOMAIN dBookings[r] \ {b} : dBookings'[r][x] = dBookings[r][x]
  <2>1. CASE UNCHANGED dBookings /\ new = memB[r][b]
    BY <1>1, <2>1 DEF Shapes
  <2>2. CASE dBookings' = [dBookings EXCEPT ![r] = Over(row, dBookings[r])]
    <3>1. /\ DOMAIN dBookings' = Requests
          /\ dBookings'[r] = Over(row, dBookings[r])
          /\ \A o \in Requests \ {r} : dBookings'[o] = dBookings[o]
      BY <1>1, <2>2 DEF Shapes
    <3>2. QED
      BY <1>6, <3>1
  <2>3. QED
    BY <1>2, <2>1, <2>2
<1>8. /\ pc'[r] = IF todo[r] = {} THEN "commit" ELSE "next"
      /\ DOMAIN memB' = Requests /\ DOMAIN memB'[r] = DOMAIN memB[r]
      /\ memB'[r][b] = new
      /\ \A k \in DOMAIN memB[r] \ {b} : memB'[r][k] = memB[r][k]
      /\ \A o \in Requests \ {r} : pc'[o] = pc[o] /\ memB'[o] = memB[o]
  BY <1>1, <1>2, <1>3 DEF Shapes
<1>9. /\ DOMAIN dBookings[r] \subseteq DOMAIN dBookings'[r]
      /\ DOMAIN dBookings'[r] \subseteq DOMAIN dBookings[r] \cup {b}
  BY <1>7
\* Unchanged and still not confirmed: it was not confirmed before.
<1>10. booking[b] # "confirmed" \/ b \in DOMAIN dBookings'[r]
  BY <1>1, <1>3, <1>4, <1>7 DEF Local, Copies
<1>11. Shapes'
  <2>1. ASSUME NEW o \in Requests
        PROVE  /\ DOMAIN mem'[o] \subseteq Items /\ DOMAIN memB'[o] \subseteq Bookings
               /\ DOMAIN dSeats'[o] \subseteq Cabins /\ DOMAIN dBookings'[o] \subseteq Bookings
    <3>1. /\ DOMAIN mem[o] \subseteq Items /\ DOMAIN memB[o] \subseteq Bookings
          /\ DOMAIN dSeats[o] \subseteq Cabins /\ DOMAIN dBookings[o] \subseteq Bookings
      BY <1>1 DEF Shapes
    <3>2. QED
      BY <1>2, <1>3, <1>7, <1>8, <1>9, <3>1
  <2>2. pc' \in [Requests -> Running \cup Ended \cup {"idle"}]
    BY <1>1, <1>2 DEF Shapes, Running
  <2>3. QED
    BY <1>1, <1>2, <1>7, <1>8, <2>1, <2>2 DEF Shapes
<1>12. Alone(r)
  BY <1>2, <1>7, <1>8 DEF Alone, db
<1>13. Clean(r)' /\ Current(r)'
  BY <1>1, <1>2, <1>8 DEF Local, Clean, Current, Working, Running
<1>14. Copies(r)'
  BY <1>1, <1>2, <1>8, <1>9, <1>10 DEF Local, Copies
<1>15. WrittenBookings(r)'
  <2>1. WrittenBookings(r)
    BY <1>1 DEF Local
  <2>2. QED
    BY <1>2, <1>3, <1>4, <1>7, <2>1 DEF WrittenBookings
<1>16. Recomputed(r)'
  <2>1. ASSUME NEW i \in dItems[r]
        PROVE  booking[BookingOf[i]] # "confirmed" \/ BookingOf[i] \in DOMAIN dBookings'[r]
    <3>1. CASE i = cur[r]
      BY <1>10, <3>1 DEF b
    <3>2. CASE i # cur[r]
      BY <1>1, <1>9, <3>2 DEF Local, Recomputed
    <3>3. QED
      BY <3>1, <3>2
  <2>2. QED
    BY <1>2, <2>1 DEF Recomputed
<1>17. Own(r)' /\ Flightwise(r)'
  BY <1>1, <1>2, <1>8 DEF Local, Own, Flightwise, Scope, Working
<1>18. Counted(r)'
  BY <1>1, <1>2, <1>8, CountedStays DEF Local
<1>19. Local(r)'
  BY <1>13, <1>14, <1>15, <1>16, <1>17, <1>18 DEF Local
<1>20. \A o \in Requests \ {r} : DOMAIN dSeats'[r] \cap DOMAIN dSeats[o] = {}
  BY <1>2 DEF IInv, Locks
<1>21. QED
  BY <1>11, <1>12, <1>19, <1>20, StepAlone

-----------------------------------------------------------------------------
(* The commit *)

\* A commit cancels items and unconfirms bookings, and adds to each cabin what
\* the request has released there.
Committed(r) ==
    /\ \A i \in Items : item'[i] = IF i \in dItems[r] THEN "cancelled" ELSE item[i]
    /\ \A b \in Bookings :
        booking'[b] = IF b \in DOMAIN dBookings[r] THEN dBookings[r][b] ELSE booking[b]
    /\ \A c \in Cabins : seats'[c] = seats[c] + Cardinality(dItems[r] \cap ItemsIn(c))
    /\ \A c \in Cabins \ DOMAIN dSeats[r] : seats'[c] = seats[c]
    /\ \A i \in Items :
        IF i \in dItems[r]
        THEN /\ Len(audit'[i]) = Len(audit[i]) + 1
             /\ Range(audit'[i]) = Range(audit[i]) \cup {RefundType(r, i)}
        ELSE audit'[i] = audit[i]
    /\ \A o \in Requests \ {r} :
        /\ pc'[o] = pc[o] /\ todo'[o] = todo[o] /\ cur'[o] = cur[o]
        /\ mem'[o] = mem[o] /\ memB'[o] = memB[o]
        /\ dSeats'[o] = dSeats[o] /\ dItems'[o] = dItems[o]
        /\ dBookings'[o] = dBookings[o] /\ dFlights'[o] = dFlights[o]
    /\ pc[r] = "commit" /\ pc'[r] = "committed"
    /\ dSeats'[r] = Nothing /\ dItems'[r] = {} /\ dBookings'[r] = Nothing
    /\ dFlights'[r] = {} /\ todo'[r] = {} /\ mem'[r] = Nothing /\ memB'[r] = Nothing

LEMMA CommitWrites ==
    ASSUME IInv, NEW r \in Requests, Commit(r)
    PROVE  Committed(r) /\ Shapes'
<1>1. Shapes /\ Local(r)
  BY DEF IInv
<1>2. \A i \in Items : RefundType(r, i) \in Refunds
  BY DEF RefundType, Refunds
<1>3. /\ pc[r] = "commit" /\ pc' = [pc EXCEPT ![r] = "committed"]
      /\ seats' = Over(dSeats[r], seats) /\ booking' = Over(dBookings[r], booking)
      /\ commits' = [c \in Cabins |-> commits[c] + IF c \in DOMAIN dSeats[r] THEN 1 ELSE 0]
      /\ item' = [i \in Items |-> ItemSeen(r, i)]
      /\ audit' = [i \in Items |->
            IF i \in dItems[r] THEN Append(audit[i], RefundType(r, i)) ELSE audit[i]]
      /\ grounded' = grounded \cup dFlights[r]
  BY DEF Commit, Goto
<1>4. \A i \in Items : item'[i] = IF i \in dItems[r] THEN "cancelled" ELSE item[i]
  BY <1>3 DEF ItemSeen
<1>5. ASSUME NEW b \in Bookings
      PROVE  booking'[b] = IF b \in DOMAIN dBookings[r] THEN dBookings[r][b] ELSE booking[b]
  <2>1. /\ \A x \in DOMAIN dBookings[r] : Over(dBookings[r], booking)[x] = dBookings[r][x]
        /\ \A x \in DOMAIN booking \ DOMAIN dBookings[r] :
            Over(dBookings[r], booking)[x] = booking[x]
    BY OverIs
  <2>2. QED
    BY <1>1, <1>3, <2>1 DEF Shapes
<1>6. ASSUME NEW c \in Cabins
      PROVE  /\ seats'[c] = seats[c] + Cardinality(dItems[r] \cap ItemsIn(c))
             /\ c \notin DOMAIN dSeats[r] => seats'[c] = seats[c]
  <2>1. /\ \A x \in DOMAIN dSeats[r] : Over(dSeats[r], seats)[x] = dSeats[r][x]
        /\ \A x \in DOMAIN seats \ DOMAIN dSeats[r] : Over(dSeats[r], seats)[x] = seats[x]
    BY OverIs
  <2>2. seats'[c] = IF c \in DOMAIN dSeats[r] THEN dSeats[r][c] ELSE seats[c]
    BY <1>1, <1>3, <2>1 DEF Shapes
  <2>3. Cardinality(dItems[r] \cap ItemsIn(c)) \in Nat /\ seats[c] \in Nat
    BY <1>1, ReleasedIs, FS_CardinalityType DEF Shapes
  <2>4. Released(r, c) = Cardinality(dItems[r] \cap ItemsIn(c))
    BY <1>3, <2>3 DEF Released
  <2>5. IF c \in DOMAIN dSeats[r] THEN dSeats[r][c] = seats[c] + Released(r, c)
        ELSE Released(r, c) = 0
    BY <1>1 DEF Local, Counted
  <2>6. QED
    BY <2>2, <2>3, <2>4, <2>5
<1>7. ASSUME NEW i \in Items
      PROVE  /\ audit'[i] \in Seq(Refunds)
             /\ i \notin dItems[r] => audit'[i] = audit[i]
             /\ i \in dItems[r] =>
                /\ Len(audit'[i]) = Len(audit[i]) + 1
                /\ Range(audit'[i]) = Range(audit[i]) \cup {RefundType(r, i)}
  <2>1. audit[i] \in Seq(Refunds) /\ RefundType(r, i) \in Refunds
    BY <1>1, <1>2 DEF Shapes
  <2>2. /\ Append(audit[i], RefundType(r, i)) \in Seq(Refunds)
        /\ Len(Append(audit[i], RefundType(r, i))) = Len(audit[i]) + 1
        /\ Range(Append(audit[i], RefundType(r, i))) = Range(audit[i]) \cup {RefundType(r, i)}
    BY <2>1, AppendIs
  <2>3. QED
    BY <1>3, <2>1, <2>2
<1>8. /\ DOMAIN dSeats' = Requests /\ DOMAIN dBookings' = Requests
      /\ DOMAIN mem' = Requests /\ DOMAIN memB' = Requests
      /\ \A o \in Requests \ {r} :
        /\ pc'[o] = pc[o] /\ todo'[o] = todo[o] /\ cur'[o] = cur[o]
        /\ mem'[o] = mem[o] /\ memB'[o] = memB[o]
        /\ dSeats'[o] = dSeats[o] /\ dItems'[o] = dItems[o]
        /\ dBookings'[o] = dBookings[o] /\ dFlights'[o] = dFlights[o]
      /\ pc'[r] = "committed" /\ dSeats'[r] = Nothing /\ dItems'[r] = {}
      /\ dBookings'[r] = Nothing /\ dFlights'[r] = {} /\ todo'[r] = {}
      /\ mem'[r] = Nothing /\ memB'[r] = Nothing
  BY <1>1, <1>3 DEF Commit, CloseSession, ForgetCopies, Shapes
<1>9. Shapes'
  <2>1. seats' \in [Cabins -> Nat]
    <3>1. ASSUME NEW c \in Cabins PROVE seats'[c] \in Nat
      <4>1. Cardinality(dItems[r] \cap ItemsIn(c)) \in Nat /\ seats[c] \in Nat
        BY <1>1, ReleasedIs, FS_CardinalityType DEF Shapes
      <4>2. QED
        BY <1>6, <4>1
    <3>2. DOMAIN dSeats[r] \subseteq Cabins /\ DOMAIN seats = Cabins
      BY <1>1 DEF Shapes
    <3>3. seats' = [c \in Cabins |-> seats'[c]]
      BY <1>3, <3>2 DEF Over
    <3>4. QED
      BY <3>1, <3>3
  <2>2. booking' \in [Bookings -> Status]
    <3>1. \A b \in Bookings : booking'[b] \in Status
      BY <1>1, <1>5 DEF Shapes, Local, WrittenBookings, Status
    <3>2. DOMAIN dBookings[r] \subseteq Bookings /\ DOMAIN booking = Bookings
      BY <1>1 DEF Shapes
    <3>3. booking' = [b \in Bookings |-> booking'[b]]
      BY <1>3, <3>2 DEF Over
    <3>4. QED
      BY <3>1, <3>3
  <2>3. item' \in [Items -> {"confirmed", "cancelled"}] /\ commits' \in [Cabins -> Nat]
        /\ grounded' \subseteq Flights
    BY <1>1, <1>3 DEF Shapes, ItemSeen
  <2>4. audit' \in [Items -> Seq(Refunds)]
    BY <1>3, <1>7
  <2>5. pc' \in [Requests -> Running \cup Ended \cup {"idle"}]
    BY <1>1, <1>3 DEF Shapes, Ended
  <2>6. todo' \in [Requests -> SUBSET Items] /\ cur' \in [Requests -> Items \cup {NoItem}]
        /\ dItems' \in [Requests -> SUBSET Items] /\ dFlights' \in [Requests -> SUBSET Flights]
    BY <1>1 DEF Commit, CloseSession, ForgetCopies, Shapes
  <2>7. ASSUME NEW o \in Requests
        PROVE  /\ DOMAIN mem'[o] \subseteq Items /\ DOMAIN memB'[o] \subseteq Bookings
               /\ DOMAIN dSeats'[o] \subseteq Cabins /\ DOMAIN dBookings'[o] \subseteq Bookings
    <3>1. /\ DOMAIN mem[o] \subseteq Items /\ DOMAIN memB[o] \subseteq Bookings
          /\ DOMAIN dSeats[o] \subseteq Cabins /\ DOMAIN dBookings[o] \subseteq Bookings
      BY <1>1 DEF Shapes
    <3>2. QED
      BY <1>8, <3>1 DEF Nothing
  <2>8. QED
    BY <1>8, <2>1, <2>2, <2>3, <2>4, <2>5, <2>6, <2>7 DEF Shapes
<1>10. Committed(r)
  BY <1>3, <1>4, <1>5, <1>6, <1>7, <1>8 DEF Committed
<1>11. QED
  BY <1>9, <1>10

\* What other requests know stays true: cancelled items stay cancelled,
\* bookings do not become confirmed, and nobody else has their cabin rows.
LEMMA CommitOthers ==
    ASSUME IInv, NEW r \in Requests, Committed(r), NEW o \in Requests \ {r}
    PROVE  Local(o)'
<1>1. Shapes /\ Local(o) /\ Local(r)
  BY DEF IInv
<1>2. /\ pc'[o] = pc[o] /\ todo'[o] = todo[o] /\ cur'[o] = cur[o]
      /\ mem'[o] = mem[o] /\ memB'[o] = memB[o]
      /\ dSeats'[o] = dSeats[o] /\ dItems'[o] = dItems[o]
      /\ dBookings'[o] = dBookings[o] /\ dFlights'[o] = dFlights[o]
  BY DEF Committed
<1>3. /\ \A i \in Items : item[i] = "cancelled" => item'[i] = "cancelled"
      /\ \A b \in Bookings : booking[b] # "confirmed" => booking'[b] # "confirmed"
  <2>1. \A b \in DOMAIN dBookings[r] : dBookings[r][b] # "confirmed"
    BY <1>1 DEF Local, WrittenBookings
  <2>2. QED
    BY <2>1 DEF Committed
<1>4. \A c \in DOMAIN dSeats[o] : c \notin DOMAIN dSeats[r] /\ seats'[c] = seats[c]
  BY <1>1 DEF IInv, Locks, Shapes, Committed
<1>5. DOMAIN mem[o] \subseteq Items /\ DOMAIN memB[o] \subseteq Bookings
      /\ dItems[o] \subseteq Items /\ DOMAIN dBookings[o] \subseteq Bookings
      /\ \A i \in dItems[o] : BookingOf[i] \in Bookings
  BY <1>1 DEF Shapes, Bookings
<1>6. Clean(o)' /\ Current(o)' /\ Own(o)'
  BY <1>1, <1>2 DEF Local, Clean, Current, Own, Scope
<1>7. Copies(o)' /\ Recomputed(o)'
  BY <1>1, <1>2, <1>3, <1>5 DEF Local, Copies, Recomputed
<1>8. WrittenBookings(o)' /\ Flightwise(o)'
  BY <1>1, <1>2, <1>3, <1>5 DEF Local, WrittenBookings, Flightwise, ItemsOf, ItemsOn
<1>9. Counted(o)'
  <2>1. \A c \in Cabins : Released(o, c)' = Released(o, c)
    BY <1>2 DEF Released
  <2>2. QED
    BY <1>1, <1>2, <1>4, <2>1 DEF Local, Counted
<1>10. QED
  BY <1>6, <1>7, <1>8, <1>9 DEF Local

LEMMA CommitOwn ==
    ASSUME NEW r \in Requests, Committed(r)
    PROVE  Local(r)'
<1>1. /\ pc'[r] = "committed" /\ dSeats'[r] = Nothing /\ dItems'[r] = {}
      /\ dBookings'[r] = Nothing /\ dFlights'[r] = {} /\ todo'[r] = {}
      /\ mem'[r] = Nothing /\ memB'[r] = Nothing
  BY DEF Committed
<1>2. Clean(r)' /\ Copies(r)' /\ Current(r)' /\ WrittenBookings(r)' /\ Recomputed(r)'
  BY <1>1 DEF Clean, Copies, Current, WrittenBookings, Recomputed, Working, Nothing, Running
<1>3. Own(r)' /\ Flightwise(r)'
  BY <1>1 DEF Own, Flightwise, Working
<1>4. ASSUME NEW c \in Cabins PROVE Released(r, c)' = 0
  <2>1. Cardinality({}) = 0 /\ dItems'[r] \cap ItemsIn(c) = {} /\ pc'[r] # "flush" /\ 0 + 0 = 0
    BY <1>1, FS_EmptySet
  <2>2. QED
    BY <2>1 DEF Released
<1>5. Counted(r)'
  BY <1>1, <1>4 DEF Counted, Nothing
<1>6. QED
  BY <1>2, <1>3, <1>5 DEF Local

\* Status: a booking whose item is cancelled by the commit is rewritten by it
\* or was not confirmed any more.
LEMMA CommitStatus ==
    ASSUME IInv, NEW r \in Requests, Committed(r)
    PROVE  StatusNeverAhead'
<1>1. Shapes /\ Local(r) /\ StatusNeverAhead
  BY DEF IInv
<1>2. SUFFICES ASSUME NEW b \in Bookings
               PROVE  /\ booking'[b] = "confirmed" <=> \A i \in ItemsOf(b) : item'[i] = "confirmed"
                      /\ booking'[b] = "cancelled" => \A i \in ItemsOf(b) : item'[i] = "cancelled"
  BY DEF StatusNeverAhead
<1>3. /\ booking'[b] = IF b \in DOMAIN dBookings[r] THEN dBookings[r][b] ELSE booking[b]
      /\ \A i \in ItemsOf(b) : item'[i] = IF i \in dItems[r] THEN "cancelled" ELSE item[i]
  BY DEF Committed, ItemsOf
<1>4. /\ booking[b] = "confirmed" <=> \A i \in ItemsOf(b) : item[i] = "confirmed"
      /\ booking[b] = "cancelled" => \A i \in ItemsOf(b) : item[i] = "cancelled"
  BY <1>1 DEF StatusNeverAhead
<1>5. CASE b \in DOMAIN dBookings[r]
  <2>1. /\ dBookings[r][b] \in {"partially_cancelled", "cancelled"}
        /\ \E i \in ItemsOf(b) : i \in dItems[r]
        /\ dBookings[r][b] = "cancelled" =>
            \A i \in ItemsOf(b) : item[i] = "cancelled" \/ i \in dItems[r]
    BY <1>1, <1>5 DEF Local, WrittenBookings
  <2>2. QED
    BY <1>3, <1>5, <2>1
<1>6. CASE b \notin DOMAIN dBookings[r]
  <2>1. \A i \in ItemsOf(b) : i \in dItems[r] => booking[b] # "confirmed"
    <3>1. pc[r] # "recompute"
      BY DEF Committed
    <3>2. QED
      BY <1>1, <1>6, <3>1 DEF Local, Recomputed, ItemsOf
  <2>2. QED
    BY <1>3, <1>4, <1>6, <2>1
<1>7. QED
  BY <1>5, <1>6

\* Money: the audit row of an item that r cancels has a refund, unless it was
\* the customer who cancelled it.
LEMMA CommitPaid ==
    ASSUME IInv, NEW r \in Requests, Committed(r)
    PROVE  Paid'
<1>1. Shapes /\ Local(r) /\ Paid
  BY DEF IInv
<1>2. SUFFICES ASSUME NEW i \in Items, item'[i] = "cancelled"
               PROVE  CancelledByCustomer(i)' \/ Range(audit'[i]) \ {"none"} # {}
  BY DEF Paid
<1>3. CancelledByCustomer(i) => CancelledByCustomer(i)'
  BY DEF CancelledByCustomer, Committed
<1>4. CASE i \notin dItems[r]
  <2>1. item[i] = "cancelled" /\ audit'[i] = audit[i]
    BY <1>2, <1>4 DEF Committed
  <2>2. QED
    BY <1>1, <1>3, <2>1 DEF Paid
<1>5. CASE i \in dItems[r]
  <2>1. Range(audit'[i]) = Range(audit[i]) \cup {RefundType(r, i)}
    BY <1>5 DEF Committed
  <2>2. CASE Reason[r] # "customer"
    <3>1. RefundType(r, i) # "none"
      BY <2>2 DEF RefundType
    <3>2. QED
      BY <2>1, <3>1
  <2>3. CASE Reason[r] = "customer"
    <3>1. i \in Scope(r) /\ pc'[r] = "committed"
      BY <1>1, <1>5 DEF Local, Own, Committed
    <3>2. r \notin FlightCancels
      BY <2>3, RequestsAssumption
    <3>3. On[r] \in {i, BookingOf[i]}
      BY <3>1, <3>2 DEF Scope, ItemsOf, Requests
    <3>4. CancelledByCustomer(i)'
      BY <2>3, <3>1, <3>3 DEF CancelledByCustomer
    <3>5. QED
      BY <3>4
  <2>4. QED
    BY <2>2, <2>3
<1>6. QED
  BY <1>4, <1>5

LEMMA CommitSeats ==
    ASSUME IInv, NEW r \in Requests, Committed(r)
    PROVE  SeatsMatchAudit'
<1>1. Shapes /\ SeatsMatchAudit
  BY DEF IInv
<1>2. SUFFICES ASSUME NEW c \in Cabins
               PROVE  seats'[c] = SumFunctionOnSet([i \in Items |-> Len(audit'[i])], ItemsIn(c))
  BY DEF SeatsMatchAudit
<1> DEFINE S == ItemsIn(c)
<1> DEFINE T == dItems[r]
<1> DEFINE f == [i \in Items |-> Len(audit[i])]
<1> DEFINE g == [i \in Items |-> Len(audit'[i])]
<1> DEFINE h == [i \in Items |-> IF i \in T THEN 1 ELSE 0]
<1>3. IsFiniteSet(S) /\ S \subseteq Items
  <2>1. S \subseteq Items /\ IsFiniteSet(Items)
    BY ItemsAssumption DEF ItemsIn
  <2>2. QED
    BY <2>1, FS_Subset
<1>4. \A i \in S : f[i] \in Int /\ h[i] \in Int /\ g[i] = f[i] + h[i]
  <2> SUFFICES ASSUME NEW i \in S PROVE f[i] \in Int /\ h[i] \in Int /\ g[i] = f[i] + h[i]
    OBVIOUS
  <2>1. i \in Items /\ Len(audit[i]) \in Nat
    BY <1>1, <1>3 DEF Shapes
  <2>2. /\ i \in T => Len(audit'[i]) = Len(audit[i]) + 1
        /\ i \notin T => audit'[i] = audit[i]
    BY <2>1 DEF Committed
  <2>3. f[i] = Len(audit[i]) /\ g[i] = Len(audit'[i]) /\ h[i] = IF i \in T THEN 1 ELSE 0
    BY <2>1
  <2> HIDE DEF f, g, h, T
  <2>4. CASE i \in T
    BY <2>1, <2>2, <2>3, <2>4
  <2>5. CASE i \notin T
    BY <2>1, <2>2, <2>3, <2>5
  <2>6. QED
    BY <2>4, <2>5
<1>5. \A i \in S : h[i] = IF i \in T THEN 1 ELSE 0
  BY <1>3
<1>6. seats[c] = SumFunctionOnSet(f, S)
  BY <1>1 DEF SeatsMatchAudit
<1>7. seats'[c] = seats[c] + Cardinality(S \cap T)
  <2>1. dItems[r] \cap ItemsIn(c) = S \cap T
    OBVIOUS
  <2>2. Cardinality(dItems[r] \cap ItemsIn(c)) = Cardinality(S \cap T)
    BY <2>1
  <2>3. QED
    BY <2>2 DEF Committed
<1> HIDE DEF S, T, f, g, h
<1>8. SumFunctionOnSet(g, S) = SumFunctionOnSet(f, S) + SumFunctionOnSet(h, S)
  BY <1>3, <1>4, SumPlus
<1>9. SumFunctionOnSet(h, S) = Cardinality(S \cap T)
  BY <1>3, <1>5, SumIndicator
<1>10. seats'[c] = SumFunctionOnSet(g, S)
  BY <1>6, <1>7, <1>8, <1>9
<1>11. QED
  BY <1>10 DEF g, S

LEMMA CommitStep ==
    ASSUME IInv, NEW r \in Requests, Commit(r)
    PROVE  IInv'
<1>1. Committed(r) /\ Shapes'
  BY CommitWrites
<1>2. \A o \in Requests : Local(o)'
  BY <1>1, CommitOthers, CommitOwn
<1>3. Locks'
  BY <1>1 DEF IInv, Locks, Committed, Nothing
<1>4. Empty'
  <2> SUFFICES ASSUME NEW f \in grounded', NEW i \in ItemsOn(f)
               PROVE  item'[i] = "cancelled"
    BY DEF Empty
  <2>1. i \in Items /\ item'[i] = IF i \in dItems[r] THEN "cancelled" ELSE item[i]
    BY <1>1 DEF ItemsOn, Committed
  <2>2. CASE f \in grounded
    BY <2>1, <2>2 DEF IInv, Empty
  <2>3. CASE f \in dFlights[r]
    <3>1. r \in FlightCancels /\ f = On[r]
      BY <2>3 DEF IInv, Local, Own
    <3>2. pc[r] = "commit" /\ todo[r] = {}
      BY <1>1 DEF IInv, Local, Flightwise, Committed
    <3>3. item[i] = "cancelled" \/ i \in dItems[r]
      BY <3>1, <3>2 DEF IInv, Local, Flightwise
    <3>4. QED
      BY <2>1, <3>3
  <2>4. QED
    BY <2>2, <2>3 DEF Commit
<1>5. QED
  BY <1>1, <1>2, <1>3, <1>4, CommitStatus, CommitPaid, CommitSeats DEF IInv

-----------------------------------------------------------------------------
(* The theorems *)

LEMMA Initially == Init => IInv
<1> SUFFICES ASSUME Init PROVE IInv
  OBVIOUS
<1> USE DEF Init, Nothing
<1>1. Shapes
  BY DEF Shapes, Status, Refunds
<1>2. Locks /\ Paid /\ Empty /\ StatusNeverAhead
  <2>1. \A b \in Bookings : booking[b] = "confirmed" /\ ItemsOf(b) \subseteq Items
    BY DEF ItemsOf
  <2>2. \A i \in Items : item[i] = "confirmed"
    OBVIOUS
  <2>3. QED
    BY <2>1, <2>2 DEF Locks, Paid, Empty, StatusNeverAhead
<1>3. ASSUME NEW r \in Requests PROVE Local(r)
  <2>1. Clean(r) /\ Copies(r) /\ Current(r) /\ WrittenBookings(r) /\ Recomputed(r)
    BY DEF Clean, Copies, Current, WrittenBookings, Recomputed, Working, Running
  <2>2. Own(r) /\ Flightwise(r)
    BY DEF Own, Flightwise, Working
  <2>3. ASSUME NEW c \in Cabins PROVE Released(r, c) = 0
    <3>1. Cardinality({}) = 0 /\ dItems[r] \cap ItemsIn(c) = {} /\ pc[r] # "flush" /\ 0 + 0 = 0
      BY FS_EmptySet
    <3> HIDE DEF Init
    <3>2. QED
      BY <3>1 DEF Released
  <2>4. Counted(r)
    BY <2>3 DEF Counted
  <2>5. QED
    BY <2>1, <2>2, <2>4 DEF Local
<1>4. SeatsMatchAudit
  <2> SUFFICES ASSUME NEW c \in Cabins
               PROVE  seats[c] = SumFunctionOnSet([i \in Items |-> Len(audit[i])], ItemsIn(c))
    BY DEF SeatsMatchAudit
  <2> DEFINE f == [i \in Items |-> Len(audit[i])]
  <2>1. IsFiniteSet(ItemsIn(c)) /\ ItemsIn(c) \subseteq Items
    <3>1. ItemsIn(c) \subseteq Items /\ IsFiniteSet(Items)
      BY ItemsAssumption DEF ItemsIn
    <3>2. QED
      BY <3>1, FS_Subset
  <2>2. \A i \in ItemsIn(c) : f[i] = 0
    BY <2>1
  <2>3. seats[c] = 0
    OBVIOUS
  <2> HIDE DEF f
  <2>4. SumFunctionOnSet(f, ItemsIn(c)) = 0
    BY <2>1, <2>2, SumZeros
  <2>5. QED
    BY <2>3, <2>4 DEF f
<1>5. QED
  BY <1>1, <1>2, <1>3, <1>4 DEF IInv

\* Steps that change nothing the invariant is about.
LEMMA QuietStep ==
    ASSUME IInv, UNCHANGED <<db, writes, pc, session>>
    PROVE  IInv'
<1> USE DEF db, writes, session
<1>1. Shapes' /\ Locks' /\ Empty' /\ StatusNeverAhead' /\ SeatsMatchAudit'
  BY DEF IInv, Shapes, Locks, Empty, StatusNeverAhead, SeatsMatchAudit
<1>2. Paid'
  BY DEF IInv, Paid, CancelledByCustomer
<1>3. ASSUME NEW r \in Requests PROVE Local(r)'
  <2>1. Local(r)
    BY DEF IInv
  <2>2. Clean(r)' /\ Copies(r)' /\ Current(r)' /\ WrittenBookings(r)' /\ Recomputed(r)'
    BY <2>1 DEF Local, Clean, Copies, Current, WrittenBookings, Recomputed
  <2>3. Own(r)' /\ Flightwise(r)' /\ Counted(r)'
    BY <2>1 DEF Local, Own, Scope, Flightwise, Counted, Released
  <2>4. QED
    BY <2>2, <2>3 DEF Local
<1>4. QED
  BY <1>1, <1>2, <1>3 DEF IInv

LEMMA Preserved == IInv /\ [Next]_vars => IInv'
<1> SUFFICES ASSUME IInv, [Next]_vars PROVE IInv'
  OBVIOUS
<1>1. ASSUME NEW r \in Requests, Replay(r) \/ StartItem(r) \/ StartBooking(r) \/ StartFlight(r)
      PROVE  IInv'
  BY <1>1, AnsweredStep, StartStep
<1>2. ASSUME NEW r \in Requests, SelectItems(r) \/ CancelFlightRow(r) \/ SelectFlightItems(r)
      PROVE  IInv'
  BY <1>2, SelectItemsStep, CancelFlightRowStep, SelectFlightItemsStep
<1>3. ASSUME NEW r \in Requests,
             NoActiveItems(r) \/ FlightChanged(r) \/ AlreadyCancelled(r) \/ GiveUp(r) \/ Rollback(r)
      PROVE  IInv'
  <2>1. Abort(r) /\ pc[r] # "committed"
    BY <1>3 DEF NoActiveItems, FlightChanged, AlreadyCancelled, GiveUp, Rollback, Running
  <2>2. QED
    BY <2>1, AbortStep
<1>4. ASSUME NEW r \in Requests, DropBooking(r) \/ TakeItem(r) \/ ReleaseSeat(r)
      PROVE  IInv'
  BY <1>4, DropBookingStep, TakeItemStep, ReleaseSeatStep
<1>5. ASSUME NEW r \in Requests, FlushItem(r) \/ Recompute(r) \/ Commit(r)
      PROVE  IInv'
  BY <1>5, FlushItemStep, RecomputeStep, CommitStep
<1>6. CASE Forget \/ Terminating \/ UNCHANGED vars
  BY <1>6, QuietStep DEF Forget, Terminating, vars
<1>7. QED
  BY <1>1, <1>2, <1>3, <1>4, <1>5, <1>6 DEF Next

LEMMA Invariant == Spec => []IInv
BY Initially, Preserved, PTL DEF Spec

\* Type correctness, and that only running requests have written rows: every
\* way out of a handler ends its transaction (get_db).
THEOREM TypeCorrect == Spec => []TypeOK
<1>1. ASSUME Shapes, NEW i \in Items
      PROVE  Range(audit[i]) \subseteq {"none", "refund", "travel_credit"}
  <2>1. audit[i] \in Seq(Refunds)
    BY <1>1 DEF Shapes
  <2>2. QED
    BY <2>1 DEF Range, Refunds
<1>2. ASSUME IInv PROVE TypeOK
  <2>1. Shapes /\ \A r \in Requests : Clean(r)
    BY <1>2 DEF IInv, Local
  <2>2. QED
    BY <1>1, <2>1 DEF Shapes, Clean, TypeOK
<1>3. QED
  BY <1>2, Invariant, PTL

\* cancel_booking_item gives back a seat (adjust_available_seats), cancels the
\* item and writes its audit row in one transaction: in every interleaving a
\* cabin has gained one seat for each audit row of its items.
THEOREM SeatsComeBackOnce == Spec => []SeatsMatchAudit
<1>1. IInv => SeatsMatchAudit
  BY DEF IInv
<1>2. QED
  BY <1>1, Invariant, PTL

\* recompute_booking_status decides on the session's copies of the items:
\* stale as they are, a booking never says that more is cancelled than is, and
\* it is not confirmed once an item is cancelled.
THEOREM BookingsNeverAhead == Spec => []StatusNeverAhead
<1>1. IInv => StatusNeverAhead
  BY DEF IInv
<1>2. QED
  BY <1>1, Invariant, PTL

\* Once cancel_flight has committed nobody of the items it found is left on the
\* flight, and who did not cancel himself is compensated, whatever requests by
\* customers it raced with.
THEOREM AirlineAlwaysPays == Spec => []AirlinePays
<1>1. IInv => AirlinePays
  <2> SUFFICES ASSUME IInv, NEW f \in grounded, NEW i \in ItemsOn(f)
               PROVE  /\ item[i] = "cancelled"
                      /\ CancelledByCustomer(i) \/ Range(audit[i]) \ {"none"} # {}
    BY DEF AirlinePays
  <2>1. item[i] = "cancelled" /\ i \in Items
    BY DEF IInv, Empty, ItemsOn
  <2>2. QED
    BY <2>1 DEF IInv, Paid
<1>2. QED
  BY <1>1, Invariant, PTL

=============================================================================
