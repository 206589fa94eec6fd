# Flight Management System: specifications and proofs

TLA+ models of the Flight Management System (FastAPI, SQLAlchemy, PostgreSQL),
the TLC runs that check them and the TLAPS proofs about them. The models follow
the code in `src/src/fms`; every definition that stands for code is listed in
`PROJECT.json` with its source lines.

    tlc -workers 2 -config SeatLock.cfg MCSeatLock.tla      # one run
    tlapm SeatLockProofs.tla                                # the proofs

`PROJECT.json` names the module and the `.cfg` of each run.

## The system

A request is one `async` handler with one database transaction: `get_db`
(`core/database.py:35`) opens a session, commits after the handler and rolls
back on an exception. Handlers interleave at every `await`, and several server
processes may run; PostgreSQL at READ COMMITTED is what they share, plus one
dictionary per process (the idempotency cache).

| Part | State | Operations | Modelled in |
| --- | --- | --- | --- |
| Seat counter (`seat_service.adjust_available_seats`) | `seat_classes.available_seats`, `version` | read, test, `UPDATE ... WHERE version`, retry up to `MAX_OPTIMISTIC_LOCK_RETRIES` | `SeatLock`, `SeatCounter` |
| Holds and lazy expiry (`seat_service`, `booking_service.hold_booking`) | `seat_holds` | hold, release, expire a cabin's stale holds, convert | `SeatHolds`, `Bookings` |
| Confirmation (`booking_service.confirm_booking`) | `bookings`, `booking_items`, idempotency cache | replay, expire, check, charge, book, convert, cache | `SeatHolds`, `Bookings` |
| Cancellation and refunds (`cancellation_service`) | item and booking status, `refunds` | cancel an item, a booking; approve a refund | `Cancellations`, `Bookings` |
| Flight schedule (`flight_service`) | flight status, departure, original departure, `version`, override flags | cancel, delay, resolve, edit | `FlightAdmin`, `Bookings`, `Cancellations` (cancel) |
| Seat allocation, seat map (`flight_service`) | totals of cabins and flight, versions, seat map | resize, define | `FlightAdmin` |
| Waitlist (`waitlist_service`) | `waitlist_entries` | join, list, promote | `Waitlist` |
| Idempotency cache (`idempotency_service`) | key to response, TTL | get, set, forget | `SeatHolds`, `Cancellations` |
| Catalogue, fares, users, search, audit, notifications, payment | their tables | create, read, append, log | constants, or left out |

How they interact: holding, expiring, releasing and giving back seats all go
through `adjust_available_seats`. Hold and confirm both start by expiring the
stale holds of the cabins they look at: there is no background job. Confirm
converts the holds of a group and creates the items. Cancelling an item gives
its seat back, creates the refund and recomputes the booking; cancelling a
booking or a flight does that item by item. A delay or an edit may set the
override that makes a fare refundable. Everything an admin does to a flight
meets in two rows, each with a version: the flight and its cabins. Joining the
waitlist looks at a cabin as a hold request does; promoting an entry is a hold
request made for somebody else.

What makes each part correct, and what is hard about it:

* **Seat counter.** It behaves as an atomic test-and-change although it is a
  SELECT and an UPDATE with other requests in between; it does not take a seat
  that is not there, does not lose an update, does not retry for ever.
* **Holds.** Every seat is free, held or sold exactly once; a group of legs is
  held entirely or not at all; the seats of an abandoned hold come back. Hard:
  several requests expire the same hold, holds lapse while somebody confirms
  them, requests keep row locks on several cabins.
* **Confirmation.** A group is sold once and as a whole; a retry is not a second
  sale. Hard: the cache is written before the commit and lost on a restart.
* **Cancellation.** An item is settled once; the parent's status follows; money
  back stays within the price; the airline owes everybody on a cancelled
  flight. Hard: three kinds of requests reach one item, and each decides on its
  session's copies.
* **Schedule.** Small delays add up to the override, measured against the
  original departure; a cancelled flight stays cancelled. Hard: every admin
  decides on a flight read before the others committed, and the seat map does
  not test the version it replaces.
* **Seat allocation.** The cabins add up to the flight, and resizing takes no
  booked seat. Hard: two admins resize two cabins of one flight, each sums what
  it sees, and they lock the same rows in opposite order.
* **Waitlist.** An entry is promoted together with a hold of free seats. Hard:
  promotions race each other, hold requests and cancellations.

## Modules

    SeatCounter     what adjust_available_seats promises: an atomic counter
    SeatLock        how it does it: reads, versioned updates, retries, locks
    SeatLockProofs  theorems about SeatLock
    Rows            the rows a transaction has written, seen over the committed
    RowsAndSums     theorems about rows and about sums over finite sets
    SeatHolds       concurrent hold and confirm requests, statement by statement
    SeatHoldsProofs theorems about SeatHolds, the refinement of SeatInventory included
    Waitlist        joins and promotions beside them
    WaitlistProofs  theorems about Waitlist
    SeatInventory   what holds, sales and cancellations promise about seats
    Bookings        the booking rules, one request at a time, with money and time
    BookingsProofs  theorems about Bookings, the refinement of SeatInventory included
    Cancellations   concurrent cancellations, statement by statement
    CancellationsProofs theorems about Cancellations
    FlightAdmin     concurrent administration of one flight
    FlightAdminProofs theorems about FlightAdmin
    MC*             small instances for TLC

**SeatLock** has one row and any number of requests. `Call`, `Read`, `Hit` and
`Miss` are the call, the SELECT and the UPDATE with row count 1 or 0; `Commit`
and `Rollback` end the transaction. `row` is the row as last written, `owner`
the transaction whose uncommitted write it is: it has the row lock. An UPDATE
of a locked row waits and then tests the version again, so waiting for another
transaction's commit ends with row count 0. `SeatLock` implements `SeatCounter`
(`CounterSpec`), in which a call is one step that makes the change it was asked
for (`asked`) or none; a refusal there may also mean that all attempts were lost.
Two variables are history only: `commits` counts the commits that changed the
row, `since` is their number when a request's current call began. They say what a
call that gives up has met: `MissesNeedCommits`.

**SeatHolds** builds on that: `adjust_available_seats` is one step, which
`ImplementsCounter` justifies, with the extra outcome `OutOfAttempts` when at
least `MaxRetries` commits to the cabin fell into the call and the request has not
itself changed it; that no call gives up otherwise is `MissesNeedCommits`.
Everything else is statement by statement: `SelectStaleHolds`, `ReturnSeats`
and `FlushExpired` are `expire_stale_holds`; `TakeSeats`, `RefuseSeats` and
`ReleaseHolds` are the loop of `hold_booking`; `LoadHolds`, `CheckHolds` and
`ConvertHolds` are `confirm_booking`. Written and uncommitted rows are in
`dSeats` and `dStatus`; `mem` are the session's copies of the holds that
confirm loaded first and tests last. `Rollback` may strike at any point,
`Forget` empties the idempotency cache (TTL or restart), `Tick` is the clock.
`dropped` is history: the stale holds of which a request could not give the seats
back, an outcome `expire_stale_holds` does not look at.

**Waitlist** extends `SeatHolds`: joins and promotions are hold requests of one
leg that run its actions, with two more variables for the entries as committed
and as written. `Queue` and `SeatsAreThere` are the two answers of
`join_waitlist`; `BeginPromote`, `PromoteSeats`, `SeatsGone` and `MarkPromoted`
are `promote_entry`, which reads the entry once and writes it by primary key.
`CancelSale` gives the seats of a booking back, in all the cabins of its group,
which is what promotions wait for. `list_waitlist` only reads; the loyalty order it returns decides nothing
in the code, an operator names the entry to promote.

**Bookings** is the complete rule book with one request at a time: cutoffs,
fares, parties, itineraries, expiry, confirmation, item, booking and flight
cancellation, refund rows and approvals, delays, resolutions, edits and the
override. A hold request that fails still commits what it expired
(`RefuseHold`), as `hold_booking` does. It implements **SeatInventory**, in
which seats only move between free, held and sold, under the refinement mapping
`free <- seats`, `held` = seats of active holds, `sold` = confirmed items. The
statements of `SeatHolds` (`InventoryMoves`) and of `Waitlist` (`StocksMove`) move
the committed seats as it allows too, there with `sold` the converted holds of
the groups that are booked, less those whose booking was cancelled.

**Cancellations** interleaves item, booking and flight cancellations. `mem` and
`memB` are the session's copies of items and bookings: loading a booking loads
its items, later SELECTs do not refresh them, and a flush writes by primary key
what differs from the copy. `DropBooking` is the identity map losing a booking
nobody refers to between two items of `cancel_flight`. `audit` are the audit
rows of each item with the type of refund they record. That the booking in the
path of an item cancellation is the item's own is an assumption of the model: the
handler tests the owner of the booking in the path and passes the item's id on as
it is (`routers/cancellations.py:40-45`), nothing in the code compares the two.

**FlightAdmin** has one flight and its cabins, each row as committed and as last
written with the owner of its row lock. `Load` is `get_flight` and the tests on
the status, on a copy that later statements do not refresh (`seen`).
`UpdateFlight` and `FlightConflict` are `_optimistic_update_flight` for all
four schedule operations, `ReadCabin` to `OutOfBalance` are
`adjust_seat_allocation` in the order of its statements, two sums and the
re-check included, `ReadLayout` and `DefineSeatMap` are `define_seat_map`, whose
flush tests no version. `AdjustSeats` and `ReleaseSeats` are the bookings and
the cancellation that change a cabin meanwhile. Two variables are history only:
`overwrote` records that a seat map replaced a version it had not read,
`unbalanced` that some commit has left the flight out of balance.

Abstractions shared by the models: ids are model values, prices are small
numbers, times are ticks, random references, e-mails, payment and serialisation
are left out. Owner and role checks only refuse requests, so callers are the
owner or an admin. PostgreSQL and SQLAlchemy are modelled from how the code
uses them (`external` entries of the map).

## Runs that pass

Deadlock is checked except in `Bookings`, where the bounded clock and the
finite set of groups let the service run out of requests. Everywhere else the
only end is `Terminating` (or all requests ended), so a stuck request would be
reported.

| Run | Properties | What it shows, and why the bounds suffice |
| --- | --- | --- |
| `SeatLock` | `TypeOK`, `NeverNegative`, `VersionPinsCount`, `MissesNeedCommits`, `CounterSpec`, `EveryCallAnswered` | Three requests, two calls each, two seats, deltas up and down, two attempts. Two competitors are what it takes to lose every attempt; two calls let a request meet its own uncommitted row. |
| `SeatHolds_fresh` | `SeatsConserved`, `InventoryMoves`, `AllOrNothing`, `SoldOnce` | No hold lapses (`MaxTime` 0). Two new trips take two cabins in opposite order and can wait for one another; a confirmation and its retry, sent after the answer, share a key that may be forgotten. |
| `SeatHolds_lapse` | `TypeOK`, `OnlyRacesLoseSeats`, `SoldIsNotHeld`, `RequestsEnd` | An old group lapses while one request confirms it and two others expire it, one of them for a party of two. `MaxRetries` 1: one commit of another makes a call give up, as three do where three attempts are deployed, so that expiries do lose seats in this run. |
| `Bookings_seats` | `TypeOK`, `SoldAsAWhole`, `InventorySpec` | Two groups, two cabins on two flights, one- and two-leg itineraries, two cutoffs, of which the clock passes the earlier, a tick between the holds of a group so that one leg can lapse before the other, edits and all cancellations. |
| `Bookings_money` | `StatusFollowsItems`, `SettledOnce`, `RefundsWithinPrice`, `ShiftsAccumulate` | The same without the clock, with one refundable and one non-refundable fare, all reasons of cancellation, delays by one and by two ticks around a threshold of one, approvals. |
| `FlightAdmin_resize` | `TypeOK`, `BookedSeatsKept`, `WritersKeepBalance`, `RequestsEnd` | Two cabins, three resizes (one cabin grows while the other shrinks and grows back, so that sums can agree by chance), a passenger for the last seat and a cancellation that locks the rows in the other order. `WritersKeepBalance` says that the first commit that leaves the flight out of balance is not that of a request that wrote the flight. |
| `FlightAdmin_schedule` | `CancelledIsFinal`, `OriginalIsTrue`, `DelaysAccumulate` | An edit, two delays that are small each and large together, a resolution, a cancellation and two seat maps, one of which does not fit. Two delays and one edit are what it takes to read, lose a version and meet it again. |
| `Waitlist` | `WaitlistTypeOK`, `PromotedWithHold`, `PromotionsTakeFreeSeats`, `StocksMove` | One cabin of two seats, an old hold for both that is confirmed and whose booking is cancelled, a new hold for one, two joins and three promotions. Two promotions name one entry and find a seat each. The clock moves (`MaxTime` 1) but no hold lapses; `SeatHolds_lapse` is about that. |
| `Cancellations_races` | `TypeOK`, `SeatsMatchAudit`, `StatusNeverAhead`, `AirlinePays` | An item cancellation and its retry, a cancellation of the whole booking, and the flight cancelled twice, over a booking of two and a booking of one in one cabin. Two attempts, so that `GiveUp` happens. |

In `Bookings_*` the groups are interchangeable, which `MCSymmetry` uses; no
liveness is checked there. Every property has a mutant in `PROJECT.json`, a
plausible bug of one mapped definition that TLC finds with it; the mutated
operators stand before the definitions they replace, marked "Mutant".

**Fairness.** `SeatLock`, `SeatHolds` and `FlightAdmin` assume weak fairness of a request's
own next step: the event loop resumes a handler whose statement has completed,
and a statement that waits for a row lock completes when the lock is free.
`SeatHolds` and `FlightAdmin` also assume weak fairness of `DeadlockVictim`:
PostgreSQL aborts one transaction of a wait cycle. The other specifications
state no fairness, and their runs check none. Nothing is assumed of clients, of the clock or
of the cache. Retries need no more, because the number of attempts is bounded.

## Where the code departs from what it says

Each of these runs checks one statement of the repository and TLC finds a
behaviour of the code that contradicts it.

| Run | Property | Behaviour |
| --- | --- | --- |
| `SeatHolds_double_expiry` | `NeverOversold` | Two requests select the same stale hold and both give its seats back (`seat_service.py:128`): the cabin has one seat too many, and it is held twice. |
| `Bookings_late_confirm` | `CancelledFlightsAreEmpty` | A hold made before `cancel_flight` is confirmed after it (`booking_service.py:200` does not look at the flight). |
| `FlightAdmin_unbalanced` | `AlwaysBalanced` | A resize whose new sum equals the total it once read writes no total and locks no flight; a third resize commits between its second sum and its comparison (`flight_service.py:467`), and the flight ends out of balance. |

These statements are violated in the same way. Their properties are in the
modules, and adding one to the configuration shows a trace:

| Property | How to see it | Behaviour |
| --- | --- | --- |
| `SoldOnce` | `SeatHolds_fresh.cfg` with `After <- NotWaiting`, alone (`SeatsConserved` fails there too) | Two confirmations with one key run at the same time; the cache is filled only at the end (`booking_service.py:289`). |
| `NoSeatLost` | `SeatHolds_lapse.cfg`, as an invariant | As many commits of others as an expiry has attempts make it lose them all; its result is ignored (`seat_service.py:129`) and the hold is expired without its seat. Deployed with three attempts, it takes three. `OnlyRacesLoseSeats` is what holds. |
| `CancelledOnce` | `Cancellations_races.cfg` | A customer and a flight cancellation both read the item as confirmed (`cancellation_service.py:147`): two seats given back, two refunds. |
| `StatusFollowsItems` | `Cancellations_races.cfg` with two items of one booking cancelled | Each request sees the other's item confirmed, and the booking stays `partially_cancelled` (`cancellation_service.py:116`). |
| `CancelledStays` | `FlightAdmin_schedule.cfg`, as a property | A seat map writes the version it read plus one, an old version comes back, and a delay that read it revives the cancelled flight (`flight_service.py:536`). `CancelledIsFinal` is what holds without such a seat map. |
| `PromotedOnce` | `Waitlist.cfg` | Two promotions read one entry as waiting, both hold seats for it, both write it by primary key (`waitlist_service.py:147`). |

Seen while modelling, without a run of their own:

* A hold may lapse between `confirm_booking`'s check and its conversion. If
  another request expires it and takes the seat in between, the seat is sold
  twice (`booking_service.py:200`); this is why `SeatsConserved` is checked
  without lapsing holds. With them two things hold: the group that was sold is not
  held any more, whichever of the two writes is the last (`SoldIsNotHeld`), and no
  seat is lost by it (`OnlyRacesLoseSeats`).
* `expire_stale_holds` works cabin by cabin, so one leg of a group can be
  expired while another is still active, although plan.md:305 wants a group to
  "expire/release/convert atomically". Such a group is never sold
  (`SoldAsAWhole`), and its other legs expire when their cabin is looked at.
* README.md:112-113 says that there is "no long-lived row lock". The UPDATE of
  a cabin keeps its row lock until the request commits, so two trips with
  opposite leg order can wait for one another; `RequestsEnd` needs
  PostgreSQL's deadlock detection for that reason.
* README.md:129-130 and plan.md:432-434 measure schedule changes against the
  original time. `mark_flight_delayed` does, `edit_flight_schedule` measures
  from the departure before the edit (`flight_service.py:240`), as plan.md §7.3
  step 2 has it. `ShiftsAccumulate` and `DelaysAccumulate` are therefore about
  delays.
* A promotion's hold gets a new `group_key` that neither the answer nor the
  e-mail carries (`waitlist_service.py:174`), and confirming needs it.
* `overbooking_buffer` is stored, validated and never used by a seat check,
  although plan.md:549 adds it to the seats of the cabin.
* The response is cached before the commit (`booking_service.py:289`): after a
  commit that fails a retry is answered with a booking that does not exist.

## Proofs

| Module | Theorem | Statement |
| --- | --- | --- |
| `SeatLockProofs` | `TypeCorrect` | `Spec => []TypeOK` |
| | `SeatsNeverNegative` | `Spec => []NeverNegative` |
| | `VersionsPinCounts` | `Spec => []VersionPinsCount` |
| | `MissesNeedOthersCommits` | `Spec => []MissesNeedCommits` |
| | `ImplementsCounter` | `Spec => CounterSpec`: `SeatLock` refines `SeatCounter` |
| `BookingsProofs` | `SeatsAreNeverOversold` | `Spec => InventorySpec`: `Bookings` refines `SeatInventory` |
| | `GroupsAreSoldAsAWhole` | `Spec => []SoldAsAWhole` |
| | `StatusIsOfItems` | `Spec => []StatusFollowsItems` |
| | `ItemsAreSettledOnce` | `Spec => []SettledOnce` |
| | `RefundsStayWithinPrice` | `Spec => []RefundsWithinPrice` |
| | `DelaysAccumulate` | `Spec => ShiftsAccumulate`, for flights that are not edited (`EditTimes = {}`) |
| | `TypeCorrect` | `Spec => []TypeOK` |
| `CancellationsProofs` | `SeatsComeBackOnce` | `Spec => []SeatsMatchAudit` |
| | `BookingsNeverAhead` | `Spec => []StatusNeverAhead` |
| | `AirlineAlwaysPays` | `Spec => []AirlinePays` |
| | `TypeCorrect` | `Spec => []TypeOK` |
| `FlightAdminProofs` | `CancellationIsFinal` | `Spec => CancelledIsFinal` |
| | `OriginalIsRecordedOnce` | `Spec => OriginalIsTrue` |
| | `SmallDelaysAccumulate` | `Spec => DelaysAccumulate` |
| | `ResizesTakeNoBookedSeat` | `Spec => []BookedSeatsKept` |
| | `WritersLeaveBalance` | `Spec => WritersKeepBalance` |
| | `TypeCorrect` | `Spec => []TypeOK` |
| `SeatHoldsProofs` | `GroupsAreAllOrNothing` | `Spec => []AllOrNothing` |
| | `GroupsAreSoldOnce` | `Spec => []SoldOnce`, if `RetriesWait` |
| | `SoldGroupsAreNotHeld` | `Spec => []SoldIsNotHeld` |
| | `SeatsAreConserved` | `Spec => []SeatsConserved`, if `NothingLapses` and `RetriesWait` |
| | `CabinsAreNeverOversold` | `Spec => []NeverOversold`, if `NothingLapses`, `RetriesWait` and `StartsInStock` |
| | `OnlyRacesLose` | `Spec => []OnlyRacesLoseSeats` |
| | `RequestsMoveSeats` | `Spec => InventoryMoves`, if `NothingLapses`, `RetriesWait` and `StartsInStock` |
| | `ImplementsInventory` | `Spec => Inventory!Spec`: `SeatHolds` refines `SeatInventory`, if also nothing is held at the start (`Existing = {}`) |
| | `TypeCorrect` | `Spec => []TypeOK` |
| `WaitlistProofs` | `EntriesGoWithHolds` | `WaitlistSpec => []PromotedWithHold` |
| | `PromotionsTakeSeatsOnce` | `WaitlistSpec => []PromotionsTakeFreeSeats`, if `NothingLapses` and `RetriesWait` |
| | `WaitlistMovesSeats` | `WaitlistSpec => StocksMove`, if `NothingLapses`, `RetriesWait` and `StartsInStock` |
| | `WaitlistTypeCorrect` | `WaitlistSpec => []WaitlistTypeOK` |

They hold for every value of the constants that satisfies the named assumptions
of the modules: in `SeatLock` any set of requests, any number of seats,
integer deltas, any bound on attempts and calls; in `FlightAdmin` kinds of
requests that do not overlap, integer times, finitely many cabins and sizes that
are natural numbers (`NobodyAssumption`, `KindsAssumption`, `TimesAssumption`,
`SeatsAssumption`); in `Bookings` a catalogue of finite cabins, prices and
departures that are natural numbers, and itineraries that are nonempty sequences
of legs (`CatalogueAssumption`, `ItinerariesAssumption`; the request schema
refuses an empty list, `schemas/booking.py`), any cutoffs, any hold time, any
threshold; in `Cancellations` finitely many items and requests that name
existing rows (`ItemsAssumption`, `RequestsAssumption`); in `SeatHolds` finitely many requests,
itineraries that are sequences of cabins and quantities, cabins of any size and
any hold time, clock bound and number of attempts (`RequestsAssumption`,
`PolicyAssumption`); in `Waitlist` entries
of one leg and promotions that ask for what their entry asks for
(`WaitlistAssumption`). TLC evaluates all of them, and each inductive invariant
was checked by TLC before it was proved.

**SeatLock.** `NeverNegative` is not inductive: an UPDATE takes seats without
looking at the count, it relies on the version. The inductive invariant `IInv`
adds why that is enough: `LockDiscipline` (without an owner nothing is
uncommitted; an owner's row has a higher version than the committed one and the
owner is running), `SeenIsPast` (a version that was read is not ahead of the
visible one), `VersionPinsCount` (an equal version means an equal
count), `SeenEnough` (an UPDATE is sent only for seats that were seen) and
`PendingCalls`. Versions only grow and every write raises them, so a matching
version means the count has not changed since it was read: what was enough is
still enough. `MissesNeedCommits` needs `RacesLost` as well: a request whose read
is stale has one more commit, of those since its call began, to its account than
attempts lost, and a request that has the row's lock has read its own row, so that
the commits are others'. The refinement proof maps `Hit` to `Apply`, the
refusals to `Refuse` and reads and lost races to stuttering.

**RowsAndSums.** Seats, prices and capacities are sums over sets, which the
library folds with recursive functions; the prover can unfold such a function
once it is known to satisfy its equation. The module proves that by induction
over the subsets of a finite set (least counterexample by cardinality), and from
it what the other proofs cite: the sum over an empty set, with one element more
or fewer, over disjoint sets, of a function that changes at one key (`SumChange`)
or everywhere by at most as much (`SumAtMost`), under renaming (`SumReindex`).
`OverIs` says what a row of `Over` is; the modules write rows with `Over` because
the prover has no theorems about the `@@` of `TLC`.

**Bookings.** `IInv` is `Times`, `GroupRows`, `BookingRows` and `ItemRows` (what
the rows are, what a booking cost, that items exist exactly for bookings and have
a reason exactly when cancelled) with `SoldAsAWhole`, `StatusFollowsItems` and
`SettledOnce`, which are inductive only together: that an item is settled by its
own reason needs that a confirmed one has no refund, and that the status follows
needs that every item of a booking exists. `RefundsWithinPrice` follows by
`SumAtMost`. The refinement needs a second invariant, `Balance`: in each cabin
free, held and sold seats add up to its size. One lemma per way in which seats
move says what an action does to the three counts: `HeldStep` for expiry (the
seats of the stale holds of the looked-at cabins leave `Held` and join `seats`),
`WantedThere` for the legs of a new group, and the items of a confirmation or a
cancellation for `Sold`; every other action is a stutter of `SeatInventory`. The
type invariant's bound on the counters is a consequence. `DelaysAccumulate` needs
`Timetable` (the recorded original is the first departure), which an edit before
the first delay would break: its hypothesis is that of the property.

**Cancellations.** What a session has loaded may be stale in one direction only,
and `Copies` is that direction: an item that is cancelled in a copy is cancelled,
an item confirmed in a copy may not be. `WrittenBookings` and `Recomputed` carry
it to the bookings a request has written, `Own` and `Scope` bound what it may
cancel, `Flightwise` says that a flight cancellation forgets no item, `Counted`
that an uncommitted counter is the committed one plus the seats of the items
cancelled so far, and `Locks` that no two requests have written one counter. A
commit then moves as many seats as audit rows. `StatusNeverAhead` survives races
that `StatusFollowsItems` does not, for the reason `Copies` gives: whoever
computes on a stale copy sees too few cancellations, never too many. `AirlinePays`
also uses that a request that compensates nobody has been sent by a customer.

**FlightAdmin.** The three action properties about the schedule speak of the step
that commits, but the decisions are made when the flight is read. `IInv` ties the
two together: `Admitted` (the status test passed on the flight that was read),
`Pinned` (unless a seat map overwrote a version, an equal version means that
status, departure and original departure are those that were read) and
`Ownership` (what a request has written into the row it locks is its own update
of the committed row, and nobody else commits to it meanwhile); `FlightRows` and
`Places` are their types. A versioned UPDATE that passes therefore acts on the
flight its request decided about. Resizes write the flight without raising its
version; `Pinned` survives because they touch the capacity only.

The seats have an invariant of their own, `SeatInv`. A resize computes the seats
booked from the cabin it read; `CabinPinned` says that the version test makes
that the committed cabin, `CabinOwners` and `PendingCabin` what the owner of a
cabin's row has put there, `CabinsHeld` that it has the row until it ends.
`BookedSeatsKept` is part of the invariant. For `WritersKeepBalance`, `Summed`
follows the second sum: while a resize has the flight's row, the cabins as
committed keep adding up to the committed capacity (`~unbalanced`), whoever
commits beside it, so that its sum is the balance with its own cabin exchanged.
The hypothesis is needed: once a resize that did not write the flight has left it
out of balance (`FlightAdmin_unbalanced`), two such errors can cancel out in the
committed rows while a sum is under way, and the writer that follows commits a
difference of its own. It takes five resizes, more than the run has, and was
found by this proof.

**SeatHolds.** `AllOrNothing` is about what is committed; why a group is never
half committed is in the transactions. `IInv` follows the rows of a group: those
of the items before the current one are written by the request itself, and all
of them or none when it commits (`Progress`); its own rows are active or expired while it runs, and
released or expired once it gives up (`OwnRows`); other requests write rows
of the group only after its commit, and then only expire or convert them
(`OthersRows`), because what they are about to write they have seen committed
(`KnownHolds`). `Programs` and `Shapes` say where each kind of request can be,
`Together` that the rows of a request that has committed are all there or none
is. `IInv` admits a request that commits without a hold because joining the
waitlist is one; that a hold request writes all of its rows is `Full`, and
`AllOrNothing` follows from the two.

`SInv` adds what a confirmation relies on: it has loaded all holds of its group
or seen none active (`Loaded`, which needs `Together`), only a confirmation
that is about to commit has converted rows, those of its group (`Conversions`),
and the holds of a sold group are not active (`Sales`). With `Turns` (whoever
waited for an answer loads what was sold meanwhile as converted) a group is sold
once.

`Inv` is for the seats. `Account` says of every transaction that the count it
sees is the committed one plus what it has moved: the seats of the stale holds
it has given back (`Gave`, which are not those it has `dropped`) less those of its own holds (`Took`), a sum over the
holds of the cabin. Each action moves one hold (`AdjustAccount`), all siblings
(`ReleaseAccount`) or none; expiring a hold of its own undoes a `Took`, and
expiring another's turns one form of `Gave` into the other (`FlushAccount`). That
needs `CabinLocks` (nobody else has written the cabin), `Expiring` (what is
stale is in the cabin that is looked at, and was active in the session) and
`Unwritten` (a hold is inserted once, and converted only if it was not expired
before). A commit publishes counts and holds at once, so its effect on a cabin
can be read off hold by hold (`CommitHold`): what was held is held still, or was
moved, or was sold, or is lost from now on; when two requests expire one hold it is
moved twice, or moved by one and lost by the other, which is why the balance
together with the lost seats may grow and never shrinks (`OnlyRacesLose`). That a
hold is lost once is `LostIsGone` (what was lost is not active again), which needs
`Drops` (a request has dropped stale holds of others only, and expires them). The
balance stays as it is when nothing is expired and converted holds were active
(`Lasting`, `Current`).

The refinement of `SeatInventory` needs one fact more: no counter is negative
(`Stock`, where an UPDATE's own test is the guard). As long as
nothing lapses a confirmation changes no count of free seats, and the balance is
kept, so what it sells was held (`SoldWasHeld`); every other step moves seats
between free and held or moves none (`SeatsMove`).

The hypotheses say when the code keeps a promise, and none can be dropped:
without `RetriesWait` (no client sends a confirmation of a group while another
is unanswered) a group is sold twice, and without `NothingLapses` (`MaxTime <=
HoldMinutes`: no hold outlives its time while the requests run) two requests give
one hold's seats back; "Where the code departs" has the traces. `StartsInStock`
says that the cabins hold the groups held at the start. The instances of
`SeatHolds_fresh` and `Waitlist` satisfy the hypotheses of the theorems about
their properties. The theorems about what `SeatHolds_lapse` checks
(`OnlyRacesLose`, `SoldGroupsAreNotHeld`, `TypeCorrect`) have none: there holds
lapse, are expired twice and are confirmed while they expire, and any number of
attempts may fail.

**Waitlist.** `WInv` says that only a promotion inserts its hold and only after
it has begun on a queued entry (`Path`), that requests write existing rows of
others only (`WrittenRows`, `KnownRows`), that a join writes its own entry and a
promotion the one it names (`EntryRows`), and that entry and hold were committed
together (`Queued`). `CommitEntryStep` is where they meet: a promotion cannot
commit before it has flushed its entry, and no join overwrites a promoted entry
because it has committed before anybody can promote it.

For the seats the invariants of `SeatHolds` are used as they are. `Kinship` says
why they can be: every step is a step of `SeatHolds`, or a request that passes,
ending or going to its commit without having touched a row of its group (a join
that queues, a promotion that finds its entry no longer waiting), or a
cancellation. That a join has nothing of its own to commit is `JoinsHoldNothing`, that
only running joins and promotions have an entry locked is `EntryLocks`.
`PassFresh` and `CancelFresh` show that the two new kinds of step keep the
invariant of `SeatHolds`; a cancellation needs that nobody has written its cabins
and that what it gives back was sold (`FreedWasSold`) and is given back once.
This argument is about all cabins of a booking, so `CancelSale` gives back all of
them, in one step.

**Only model-checked.** Liveness (`EveryCallAnswered`, both `RequestsEnd`) is out
of the prover's reach; every other property of a passing run is stated by a
theorem. `SeatHolds` and `Waitlist` without its hypotheses, the findings and the statements
of the second table above are runs: they are violated.

## Not modelled

* Two approvals of one refund at the same time: the refund ends approved either
  way, and which admin's name it keeps is in no model. Approvals are modelled
  one at a time (`Bookings`).
* Confirmations that race with a flight cancellation statement by statement: a
  confirmation does not look at the flight at all, so the interleaving adds no
  outcome to those of `Bookings`.
* The answer of a retry: the models have the order (response cached, commit
  fails, retry replayed), but not what a response contains.
* Duplicate flights and registrations, which the unique indexes decide: for a
  flight the second request is refused at the flush with the answer of the
  duplicate check (`flight_service.py:135-140`). `create_flight` provides the
  initial states.
* The priority order of `list_waitlist`, which only a reader sees; several
  cabins in `FlightAdmin`'s cancellation are given back whole, as
  `Cancellations` has them item by item.
* Maintenance helpers that nothing calls (`expire_all_stale_holds`,
  `release_holds_for_group`, `release_group`).
* Authentication, roles, search, schemas, notifications, the mock payment,
  migrations and scripts: read-only, stateless, or only able to refuse.

## What could follow

* Seats on the waitlist when holds lapse: `OnlyRacesLoseSeats` for `Waitlist`, with
  the seats that cancellations have given back. `Kinship` does not depend on
  lapsing, and `PassFresh` and `CancelFresh` already keep what the proof needs of
  `dropped`; what is missing is the balance with `Sold` as `Waitlist` counts it.
* Confirming a promotion's hold, once the code tells the passenger its group.
