------------------------- MODULE FlightAdminProofs -------------------------
(***************************************************************************)
(* Proofs about FlightAdmin, for every set of requests of each kind, every *)
(* set of cabins, all times and layouts: what the version column and the   *)
(* row lock of the flight guarantee its schedule.                          *)
(***************************************************************************)
EXTENDS FlightAdmin, RowsAndSums, TLAPS

Scheduling == Edits \cup Delays \cup Resolves \cup Cancels

(* The inductive invariant *)

IsFlight(f) ==
    f \in [version : Nat, status : {"scheduled", "delayed", "cancelled"}, departure : Int,
           original : Int \cup {NoTime}, capacity : {f.capacity}, seatMap : {f.seatMap}]

FlightRows ==
    /\ IsFlight(flight) /\ IsFlight(flightRow)
    /\ seen = [r \in Requests |-> seen[r]] /\ \A r \in Requests : IsFlight(seen[r])
    /\ flightOwner \in Requests \cup {Nobody}
    /\ entitled \in BOOLEAN /\ overwrote \in BOOLEAN

\* Where requests of each kind can stand.
Places ==
    /\ pc \in [Requests -> Running \cup Ended \cup {"idle"}]
    /\ \A r \in Requests :
        /\ pc[r] = "update" => r \in Scheduling
        /\ pc[r] = "release" => r \in Cancels
        /\ pc[r] \in {"layout", "define"} => r \in Maps
        /\ pc[r] \in {"cabin", "resize", "sum", "capacity", "recheck", "compare"} => r \in Resizes

\* What the owner of the flights row has written into it.
Pending(r) ==
    /\ r \in Scheduling =>
        /\ pc[r] \in {"release", "commit"}
        /\ flightRow = Updated(r, flight) /\ FlightUnchanged(r)
    /\ r \in Resizes => flightRow = [flight EXCEPT !.capacity = flightRow.capacity]
    /\ r \in Maps =>
        flightRow = Mapped(r, flight)

\* A request that wrote the schedule owns the row until it ends.
Ownership ==
    \A r \in Requests :
        /\ flightOwner = r =>
            r \in Scheduling \cup Resizes \cup Maps /\ pc[r] \in Running /\ Pending(r)
        /\ r \in Scheduling /\ pc[r] \in {"release", "commit"} => flightOwner = r

\* The tests on the status passed on the flight that was read.
Admitted ==
    \A r \in Requests : pc[r] \in {"update", "release", "commit"} =>
        /\ r \in Edits \cup Delays \cup Cancels => seen[r].status # "cancelled"
        /\ r \in Resolves => seen[r].status = "delayed"

Agree(f, g) ==
    f.status = g.status /\ f.departure = g.departure /\ f.original = g.original

\* The version pins the schedule: it only moves forward, and a request that
\* still sees its version sees the flight it read.
Pinned ==
    ~overwrote => \A r \in Scheduling : pc[r] \in {"update", "release", "commit"} =>
        /\ seen[r].version <= flight.version
        /\ seen[r].version = flight.version => Agree(seen[r], flight)

IInv == FlightRows /\ Places /\ Ownership /\ Admitted /\ Pinned

-----------------------------------------------------------------------------

LEMMA NewFlightIsFlight == IsFlight(NewFlight)
BY TimesAssumption DEF IsFlight, NewFlight

LEMMA InitIInv == Init => IInv
<1> SUFFICES ASSUME Init PROVE IInv
    OBVIOUS
<1> USE NewFlightIsFlight, NobodyAssumption DEF Init
<1>1. FlightRows
    BY DEF FlightRows
<1>2. Places /\ Admitted /\ Pinned
    BY DEF Places, Admitted, Pinned, Scheduling, Requests
<1>3. Ownership
    BY DEF Ownership
<1> QED
    BY <1>1, <1>2, <1>3 DEF IInv

\* Every schedule operation adds one to the version and keeps a flight a flight.
LEMMA UpdatedIsFlight ==
    ASSUME NEW r \in Scheduling, IsFlight(flight), IsFlight(seen[r])
    PROVE  IsFlight(Updated(r, flight)) /\ Updated(r, flight).version = flight.version + 1
BY TimesAssumption DEF IsFlight, Updated, StatusAfter, OriginalOf, Scheduling

-----------------------------------------------------------------------------
(* Steps that leave the flights row alone *)

\* r goes on to l without touching the flight or its session's copy of it.
LEMMA QuietStep ==
    ASSUME IInv, NEW r \in Requests, NEW l \in Running,
           UNCHANGED <<flightVars, ghosts, seen>>, Goto(r, l),
           r \in Scheduling => pc[r] = "release" /\ l \in {"release", "commit"},
           l = "release" => r \in Cancels,
           l # "update",
           l \in {"layout", "define"} => r \in Maps,
           l \in {"cabin", "resize", "sum", "capacity", "recheck", "compare"} => r \in Resizes
    PROVE  IInv'
<1> USE DEF IInv, Goto, flightVars, ghosts
<1>1. FlightRows'
    BY DEF FlightRows, IsFlight
<1>2. Places'
    BY DEF Places, Running
<1>3. Ownership'
    BY DEF Ownership, Pending, FlightUnchanged, Updated, StatusAfter, OriginalOf, Mapped,
           Places, FlightRows
<1>4. Admitted'
    BY DEF Admitted, Scheduling, Places
<1>5. Pinned'
    BY DEF Pinned, Agree, Places
<1> QED
    BY <1>1, <1>2, <1>3, <1>4, <1>5

LEMMA AbortStep ==
    ASSUME IInv, NEW r \in Requests, Abort(r)
    PROVE  IInv'
<1> USE DEF IInv, Abort, Goto, CloseSession, ghosts
<1>1. FlightRows'
    BY NewFlightIsFlight DEF FlightRows, IsFlight
<1>2. Places'
    BY DEF Places, Ended
<1>3. Ownership'
    BY NobodyAssumption
        DEF Ownership, Pending, FlightUnchanged, Updated, StatusAfter, OriginalOf, Mapped,
            Places, FlightRows
<1>4. Admitted'
    BY DEF Admitted, Places, FlightRows
<1>5. Pinned'
    BY DEF Pinned, Agree, Places, FlightRows, Scheduling, Requests
<1> QED
    BY <1>1, <1>2, <1>3, <1>4, <1>5

LEMMA LoadStep ==
    ASSUME IInv, NEW r \in Requests, Load(r)
    PROVE  IInv'
<1> USE DEF IInv, Load, Goto, flightVars, ghosts
<1>1. FlightRows'
    BY DEF FlightRows, IsFlight
<1>2. Places'
    BY DEF Places, Running, Requests, Scheduling
<1>3. Ownership'
    BY DEF Ownership, Pending, FlightUnchanged, Updated, StatusAfter, OriginalOf, Mapped,
           Places, FlightRows, Running
<1>4. Admitted'
    BY DEF Admitted, Admits, Places, FlightRows
<1>5. Pinned'
  <2> SUFFICES ASSUME ~overwrote, NEW q \in Scheduling,
                      pc'[q] \in {"update", "release", "commit"}
               PROVE  /\ seen'[q].version <= flight.version
                      /\ seen'[q].version = flight.version => Agree(seen'[q], flight)
    BY DEF Pinned, Agree
  <2>1. q \in Requests
    BY DEF Scheduling, Requests
  <2>2. CASE q = r
    BY <2>1, <2>2 DEF FlightRows, Agree, IsFlight
  <2>3. CASE q # r
    BY <2>1, <2>3 DEF FlightRows, Places, Pinned
  <2> QED
    BY <2>2, <2>3
<1> QED
    BY <1>1, <1>2, <1>3, <1>4, <1>5

-----------------------------------------------------------------------------
(* Steps that write the flights row *)

LEMMA WriteCapacityStep ==
    ASSUME IInv, NEW r \in Requests, WriteCapacity(r)
    PROVE  IInv'
<1> USE DEF IInv, WriteCapacity, WriteFlight, FlightFree, Goto, ghosts, session
<1>0. r \in Resizes /\ r \notin Scheduling /\ r \notin Maps
    BY KindsAssumption DEF Places, Scheduling
<1>1. FlightRows'
    BY DEF FlightRows, IsFlight
<1>2. Places'
    BY <1>0 DEF Places, Running
<1>3. Ownership'
    BY <1>0, NobodyAssumption
        DEF Ownership, Pending, FlightUnchanged, Places, FlightRows, IsFlight, Running
<1>4. Admitted'
    BY DEF Admitted, Places
<1>5. Pinned'
    BY DEF Pinned, Agree, Places
<1> QED
    BY <1>1, <1>2, <1>3, <1>4, <1>5

LEMMA DefineSeatMapStep ==
    ASSUME IInv, NEW r \in Requests, DefineSeatMap(r)
    PROVE  IInv'
<1> USE DEF IInv, DefineSeatMap, WriteFlight, FlightFree, Goto, ghosts, session
<1>0. r \in Maps /\ r \notin Scheduling /\ r \notin Resizes
    BY KindsAssumption DEF Places, Scheduling
<1>1. FlightRows'
    BY DEF FlightRows, IsFlight, Mapped
<1>2. Places'
    BY <1>0 DEF Places, Running
<1>3. Ownership'
    BY <1>0, NobodyAssumption
        DEF Ownership, Pending, FlightUnchanged, Places, FlightRows, Mapped, Running
<1>4. Admitted'
    BY <1>0 DEF Admitted, Places, Scheduling
<1>5. Pinned'
    BY <1>0 DEF Pinned, Agree, Places
<1> QED
    BY <1>1, <1>2, <1>3, <1>4, <1>5

LEMMA UpdateFlightStep ==
    ASSUME IInv, NEW r \in Requests, UpdateFlight(r)
    PROVE  IInv'
<1> USE DEF IInv, UpdateFlight, WriteFlight, FlightFree, Goto, ghosts
<1>0. r \in Scheduling /\ r \notin Maps /\ r \notin Resizes
    BY KindsAssumption DEF Places, Scheduling
<1>1. FlightRows'
    BY <1>0, UpdatedIsFlight DEF FlightRows, IsFlight
<1>2. Places'
    BY <1>0 DEF Places, Running
<1>3. Ownership'
    BY <1>0, NobodyAssumption
        DEF Ownership, Pending, FlightUnchanged, Places, FlightRows, Running, Updated, StatusAfter,
            OriginalOf
<1>4. Admitted'
    BY <1>0 DEF Admitted, Places
<1>5. Pinned'
    BY <1>0 DEF Pinned, Agree, Places
<1> QED
    BY <1>1, <1>2, <1>3, <1>4, <1>5

-----------------------------------------------------------------------------
(* Commits *)

\* What a commit makes of the flight: nothing, a schedule operation on the very
\* version the request read, a new capacity, or a seat map.
LEMMA CommitWrites ==
    ASSUME IInv, NEW r \in Requests, Commit(r)
    PROVE  \/ flight' = flight /\ r \notin Scheduling
           \/ /\ r \in Scheduling /\ flightOwner = r
              /\ flight' = Updated(r, flight) /\ seen[r].version = flight.version
           \/ /\ r \in Resizes /\ flightOwner = r
              /\ flight' = [flight EXCEPT !.capacity = flightRow.capacity]
           \/ r \in Maps /\ flightOwner = r /\ flight' = Mapped(r, flight)
<1> USE DEF IInv, Commit, FlightSeen
<1>1. CASE flightOwner = r
    BY <1>1 DEF Ownership, Pending, FlightUnchanged
<1>2. CASE flightOwner # r
    BY <1>2 DEF Ownership
<1> QED
    BY <1>1, <1>2

\* A commit without a lost version moves the version forward or leaves the
\* schedule as it was.
LEMMA CommitMovesOn ==
    ASSUME IInv, NEW r \in Requests, Commit(r), ~overwrote'
    PROVE  /\ flight'.version \in Nat
           /\ \/ flight'.version = flight.version /\ Agree(flight', flight)
              \/ flight'.version > flight.version
<1>1. r \in Maps => seen[r].version = flight.version
    BY DEF Commit, FlightUnchanged
<1>2. IsFlight(flight) /\ IsFlight(seen[r])
    BY DEF IInv, FlightRows
<1>3. CASE flight' = flight
    BY <1>2, <1>3 DEF Agree, IsFlight
<1>4. CASE r \in Scheduling /\ flight' = Updated(r, flight)
    BY <1>2, <1>4, UpdatedIsFlight DEF IsFlight
<1>5. CASE r \in Resizes /\ flight' = [flight EXCEPT !.capacity = flightRow.capacity]
    BY <1>2, <1>5 DEF Agree, IsFlight
<1>6. CASE r \in Maps /\ flight' = Mapped(r, flight)
    BY <1>1, <1>2, <1>6 DEF Mapped, IsFlight
<1> QED
    BY <1>3, <1>4, <1>5, <1>6, CommitWrites

LEMMA CommitStep ==
    ASSUME IInv, NEW r \in Requests, Commit(r)
    PROVE  IInv'
<1> USE DEF IInv
<1>0. pc' = [pc EXCEPT ![r] = "committed"] /\ flightRow' = flightRow
    BY DEF Commit, Goto
<1>1. FlightRows'
    BY NewFlightIsFlight DEF FlightRows, IsFlight, Commit, CloseSession, FlightSeen
<1>2. Places'
    BY <1>0 DEF Places, Ended
<1>3. Ownership'
  <2>1. flightOwner' = IF flightOwner = r THEN Nobody ELSE flightOwner
    BY DEF Commit, CloseSession
  <2>2. CASE flightOwner = r
    BY <1>0, <2>1, <2>2, NobodyAssumption DEF Ownership, Places
  <2>3. CASE flightOwner # r
    <3>1. flight' = flight
        BY <2>3 DEF Commit, FlightSeen
    <3>2. \A q \in Requests : q # r => seen'[q] = seen[q] /\ pc'[q] = pc[q]
        BY <1>0 DEF Commit, CloseSession, FlightRows, Places
    <3> QED
        BY <1>0, <2>1, <2>3, <3>1, <3>2
            DEF Ownership, Pending, FlightUnchanged, Updated, StatusAfter, OriginalOf, Mapped,
                Places
  <2> QED
    BY <2>2, <2>3
<1>4. Admitted'
    BY <1>0 DEF Admitted, Commit, CloseSession, Places, FlightRows
<1>5. Pinned'
  <2> SUFFICES ASSUME ~overwrote', NEW q \in Scheduling,
                      pc'[q] \in {"update", "release", "commit"}
               PROVE  /\ seen'[q].version <= flight'.version
                      /\ seen'[q].version = flight'.version => Agree(seen'[q], flight')
    BY DEF Pinned, Agree
  <2>1. q \in Requests
    BY DEF Scheduling, Requests
  <2>2. q # r /\ pc'[q] = pc[q] /\ seen'[q] = seen[q]
    BY <1>0, <2>1 DEF Commit, CloseSession, Places, FlightRows
  <2>3. ~overwrote
    BY DEF Commit
  <2>4. /\ seen[q].version <= flight.version
        /\ seen[q].version = flight.version => Agree(seen[q], flight)
    BY <2>2, <2>3 DEF Pinned
  <2>5. seen[q].version \in Nat /\ flight.version \in Nat
    BY <2>1 DEF FlightRows, IsFlight
  <2> QED
    BY <2>2, <2>4, <2>5, CommitMovesOn DEF Agree
<1> QED
    BY <1>1, <1>2, <1>3, <1>4, <1>5

-----------------------------------------------------------------------------
(* The invariant, and what follows from it *)

LEMMA StepIInv == IInv /\ [Next]_vars => IInv'
<1> SUFFICES ASSUME IInv, [Next]_vars PROVE IInv'
    OBVIOUS
<1>1. ASSUME NEW r \in Requests, Load(r) PROVE IInv'
    BY <1>1, LoadStep
<1>2. ASSUME NEW r \in Requests, Abort(r) PROVE IInv'
    BY <1>2, AbortStep
<1>3. ASSUME NEW r \in Requests, ReadCabin(r) \/ ResizeCabin(r) \/ SumCabins(r) \/ SumAgain(r) \/ Compare(r)
      PROVE  IInv'
  <2>1. r \in Resizes /\ r \notin Scheduling
    BY <1>3, KindsAssumption
        DEF IInv, Places, ReadCabin, ResizeCabin, SumCabins, SumAgain, Compare, Scheduling
  <2>2. PICK l \in {"resize", "sum", "capacity", "recheck", "compare", "commit"} : Goto(r, l)
    BY <1>3 DEF ReadCabin, ResizeCabin, SumCabins, SumAgain, Compare
  <2>3. UNCHANGED <<flightVars, ghosts, seen>>
    BY <1>3 DEF ReadCabin, ResizeCabin, SumCabins, SumAgain, Compare, session
  <2> QED
    BY <2>1, <2>2, <2>3, QuietStep DEF Running
<1>4. ASSUME NEW r \in Requests, AdjustSeats(r) PROVE IInv'
  <2>1. r \notin Scheduling
    BY <1>4, KindsAssumption DEF AdjustSeats, Scheduling
  <2>2. Goto(r, "commit") /\ UNCHANGED <<flightVars, ghosts, seen>>
    BY <1>4 DEF AdjustSeats, session
  <2> QED
    BY <2>1, <2>2, QuietStep DEF Running
<1>5. ASSUME NEW r \in Requests, ReleaseSeats(r) PROVE IInv'
  <2>1. PICK l \in {"release", "commit"} : Goto(r, l)
    BY <1>5 DEF ReleaseSeats
  <2>2. pc[r] = "release" /\ r \in Cancels /\ UNCHANGED <<flightVars, ghosts, seen>>
    BY <1>5 DEF ReleaseSeats, IInv, Places
  <2> QED
    BY <2>1, <2>2, QuietStep DEF Running
<1>6. ASSUME NEW r \in Requests, ReadLayout(r) PROVE IInv'
  <2>1. r \in Maps /\ r \notin Scheduling
    BY <1>6, KindsAssumption DEF ReadLayout, IInv, Places, Scheduling
  <2>2. Goto(r, "define") /\ UNCHANGED <<flightVars, ghosts, seen>>
    BY <1>6 DEF ReadLayout, session
  <2> QED
    BY <2>1, <2>2, QuietStep DEF Running
<1>7. ASSUME NEW r \in Requests, WriteCapacity(r) \/ DefineSeatMap(r) \/ UpdateFlight(r) \/ Commit(r)
      PROVE  IInv'
    BY <1>7, WriteCapacityStep, DefineSeatMapStep, UpdateFlightStep, CommitStep
<1>8. CASE UNCHANGED vars
    BY <1>8 DEF IInv, vars, flightVars, ghosts, session, FlightRows, IsFlight, Places, Ownership, Pending,
        FlightUnchanged, Updated, StatusAfter, OriginalOf, Mapped, Admitted, Pinned, Agree
<1> QED
    BY <1>1, <1>2, <1>3, <1>4, <1>5, <1>6, <1>7, <1>8
        DEF Next, Step, Terminating, Refuse, BelowBooked, CabinConflict, OutOfBalance, TooFewSeats,
            FlightConflict, DoesNotFit, Rollback

LEMMA Invariance == Spec => []IInv
BY InitIInv, StepIInv, PTL DEF Spec

\* The flight only changes when a request commits.
LEMMA OnlyCommitsChange ==
    ASSUME [Next]_vars, flight' # flight
    PROVE  \E r \in Requests : Commit(r)
BY DEF Next, Step, vars, flightVars, Load, Refuse, Abort, ReadCabin, BelowBooked, ResizeCabin,
    WriteCabin, CabinConflict, SumCabins, WriteCapacity, WriteFlight, SumAgain, Compare,
    OutOfBalance, AdjustSeats, TooFewSeats, UpdateFlight, FlightConflict, ReleaseSeats, ReadLayout,
    DoesNotFit, DefineSeatMap, Rollback, Terminating

\* The owner of a schedule operation that commits passed the test on the status
\* of the flight that is committed.
LEMMA OwnVersion ==
    ASSUME IInv, NEW r \in Requests, Commit(r), r \in Scheduling, ~overwrote
    PROVE  /\ flight' = Updated(r, flight) /\ Agree(seen[r], flight)
           /\ r \in Edits \cup Delays \cup Cancels => flight.status # "cancelled"
           /\ r \in Resolves => flight.status = "delayed"
<1>1. r \notin Resizes /\ r \notin Maps
    BY KindsAssumption DEF Scheduling
<1>2. flight' = Updated(r, flight) /\ seen[r].version = flight.version
    BY <1>1, CommitWrites
<1>3. pc[r] = "commit"
    BY DEF Commit
<1>4. Agree(seen[r], flight)
    BY <1>2, <1>3 DEF IInv, Pinned
<1> QED
    BY <1>2, <1>3, <1>4 DEF IInv, Admitted, Agree

\* adjust_seat_allocation and define_seat_map leave the schedule alone.
LEMMA OthersKeepSchedule ==
    ASSUME IInv, NEW r \in Requests, Commit(r), r \notin Scheduling
    PROVE  Agree(flight', flight)
<1>1. IsFlight(flight)
    BY DEF IInv, FlightRows
<1>2. CASE flight' = flight
    BY <1>2 DEF Agree
<1>3. CASE flight' = [flight EXCEPT !.capacity = flightRow.capacity]
    BY <1>1, <1>3 DEF Agree, IsFlight
<1>4. CASE flight' = Mapped(r, flight)
    BY <1>4 DEF Agree, Mapped
<1> QED
    BY <1>2, <1>3, <1>4, CommitWrites

LEMMA OverwroteStays == ASSUME [Next]_vars, ~overwrote' PROVE ~overwrote
BY DEF Next, Step, vars, ghosts, Load, Refuse, Abort, ReadCabin, BelowBooked, ResizeCabin,
    CabinConflict, SumCabins, WriteCapacity, SumAgain, Compare, OutOfBalance, AdjustSeats,
    TooFewSeats, UpdateFlight, FlightConflict, ReleaseSeats, ReadLayout, DoesNotFit,
    DefineSeatMap, Commit, Rollback, Terminating

\* "A cancelled flight's schedule cannot be edited", "cannot be marked as
\* delayed": the version test of _optimistic_update_flight makes the cancelled
\* status final for every request that read the flight before, as long as no
\* seat map has overwritten a version.
THEOREM CancellationIsFinal == Spec => CancelledIsFinal
<1>1. ASSUME IInv, [Next]_vars
      PROVE  flight.status = "cancelled" /\ ~overwrote' => flight'.status = "cancelled"
  <2> SUFFICES ASSUME flight.status = "cancelled", ~overwrote', flight' # flight
               PROVE  flight'.status = "cancelled"
    OBVIOUS
  <2>1. PICK r \in Requests : Commit(r)
    BY <1>1, OnlyCommitsChange
  <2>2. ~overwrote
    BY <1>1, OverwroteStays
  <2>3. r \notin Scheduling
    BY <1>1, <2>1, <2>2, OwnVersion DEF Scheduling
  <2> QED
    BY <1>1, <2>1, <2>3, OthersKeepSchedule DEF Agree
<1>2. IInv /\ [Next]_vars
        => [flight.status = "cancelled" /\ ~overwrote' => flight'.status = "cancelled"]_vars
    BY <1>1
<1> QED
    BY <1>2, Invariance, PTL DEF Spec, CancelledIsFinal

\* "Snapshot the true original times exactly once": what mark_flight_delayed
\* records is the departure its delay replaces, and no later delay changes it.
THEOREM OriginalIsRecordedOnce == Spec => OriginalIsTrue
<1>1. ASSUME IInv, [Next]_vars, flight'.original # flight.original
      PROVE  /\ flight.original = NoTime
             /\ flight'.original = flight.departure \/ overwrote'
  <2>1. PICK r \in Requests : Commit(r)
    BY <1>1, OnlyCommitsChange
  <2>2. r \in Scheduling
    BY <1>1, <2>1, OthersKeepSchedule DEF Agree
  <2>3. flight' = Updated(r, flight)
    BY <1>1, <2>1, <2>2, CommitWrites, KindsAssumption DEF Scheduling
  <2>4. flight.original = NoTime /\ flight'.original = seen[r].departure
    BY <1>1, <2>3 DEF Updated, OriginalOf
  <2>5. ~overwrote' => seen[r].departure = flight.departure
    BY <1>1, <2>1, <2>2, OwnVersion, OverwroteStays DEF Agree
  <2> QED
    BY <2>4, <2>5
<1>2. IInv /\ [Next]_vars
        => [flight'.original # flight.original =>
              /\ flight.original = NoTime
              /\ flight'.original = flight.departure \/ overwrote']_vars
    BY <1>1
<1> QED
    BY <1>2, Invariance, PTL DEF Spec, OriginalIsTrue

\* README "repeated small delays accumulate": every delay that commits compares
\* its new departure with the original one that the row then has.
THEOREM SmallDelaysAccumulate == Spec => DelaysAccumulate
<1>1. ASSUME IInv, [Next]_vars, NEW r \in Delays, Commits(r),
             Distance(flight'.departure, flight'.original) > OverrideShift
      PROVE  entitled' \/ overwrote'
  <2> SUFFICES ASSUME ~overwrote' PROVE entitled'
    OBVIOUS
  <2>1. r \in Requests /\ r \in Scheduling
    BY DEF Requests, Scheduling
  <2>2. Commit(r)
    BY <1>1, <2>1 DEF Commits, IInv, Places, Next, Step, vars, Load, Refuse, Abort, ReadCabin,
        BelowBooked, ResizeCabin, CabinConflict, SumCabins, WriteCapacity, SumAgain, Compare,
        OutOfBalance, AdjustSeats, TooFewSeats, UpdateFlight, FlightConflict, ReleaseSeats,
        ReadLayout, DoesNotFit, DefineSeatMap, Commit, Rollback, Terminating, Goto
  <2>3. flight' = Updated(r, flight) /\ Agree(seen[r], flight)
    BY <1>1, <2>1, <2>2, OwnVersion, OverwroteStays
  <2>4. r \notin Edits
    BY KindsAssumption
  <2>5. flight'.departure = Leaves[r] /\ flight'.original = OriginalOf(r, flight)
    BY <2>3 DEF Updated
  <2>6. Shift(r) = Distance(flight'.departure, flight'.original)
    BY <2>3, <2>5 DEF Shift, OriginalOf, Agree
  <2> QED
    BY <1>1, <2>2, <2>6 DEF Commit
<1>2. IInv /\ [Next]_vars
        => [\A r \in Delays :
              Commits(r) /\ Distance(flight'.departure, flight'.original) > OverrideShift
                  => entitled' \/ overwrote']_vars
    BY <1>1
<1> QED
    BY <1>2, Invariance, PTL DEF Spec, DelaysAccumulate

-----------------------------------------------------------------------------
(* The seats: the inductive invariant *)

\* A request has locks only while it runs.
Types ==
    /\ flight \in Flight /\ flightRow \in Flight
    /\ cabin \in [Cabins -> Cabin] /\ cabinRow \in [Cabins -> Cabin]
    /\ cabinOwner \in [Cabins -> Requests \cup {Nobody}]
    /\ unbalanced \in BOOLEAN
    /\ seen \in [Requests -> Flight] /\ seenCabin \in [Requests -> Cabin]
    /\ sum \in [Requests -> Int] /\ todo \in [Requests -> SUBSET Cabins]

\* What the owner of a cabin row has written into it: a resize its size, with
\* the seats booked as they are committed, a passenger the seats taken, a
\* cancellation the seats sold.
PendingCabin(r, c) ==
    /\ r \in Resizes =>
        /\ c = CabinOf[r] /\ pc[r] \in {"sum", "capacity", "recheck", "compare", "commit"}
        /\ cabinRow[c].total = Seats[r]
        /\ cabinRow[c].total - cabinRow[c].available = cabin[c].total - cabin[c].available
    /\ r \in Passengers =>
        /\ c = CabinOf[r] /\ pc[r] = "commit"
        /\ cabinRow[c].total = cabin[c].total
        /\ cabinRow[c].available = cabin[c].available - Seats[r]
    /\ r \in Cancels =>
        /\ pc[r] \in {"release", "commit"} /\ c \notin todo[r] /\ SoldIn(c) > 0
        /\ cabinRow[c].total = cabin[c].total
        /\ cabinRow[c].available = cabin[c].available + Sold[c]

CabinOwners ==
    \A c \in Cabins : \A r \in Requests : cabinOwner[c] = r =>
        /\ r \in Resizes \cup Passengers \cup Cancels
        /\ cabinRow[c].version = cabin[c].version + 1 /\ cabinRow[c].available >= 0
        /\ PendingCabin(r, c)

\* A request that wrote a cabin has its row until it ends.
CabinsHeld ==
    \A r \in Requests :
        /\ r \in Resizes /\ pc[r] \in {"sum", "capacity", "recheck", "compare", "commit"} =>
            cabinOwner[CabinOf[r]] = r
        /\ r \in Passengers => pc[r] \notin {"update", "release", "layout", "define"}
        /\ r \in Passengers /\ pc[r] = "commit" => cabinOwner[CabinOf[r]] = r
        /\ r \in Cancels /\ pc[r] \in {"release", "commit"} =>
            \A c \in Cabins :
                /\ SoldIn(c) > 0 => cabinOwner[c] = r \/ c \in todo[r]
                /\ c \in todo[r] => SoldIn(c) > 0
        /\ r \in Cancels /\ pc[r] = "commit" => todo[r] = {}

\* The version pins the cabin that a resize read.
CabinPinned ==
    \A r \in Resizes : pc[r] = "resize" =>
        /\ seenCabin[r].version <= cabin[CabinOf[r]].version
        /\ seenCabin[r].version = cabin[CabinOf[r]].version =>
            seenCabin[r].total = cabin[CabinOf[r]].total
        /\ cabin[CabinOf[r]].version = seenCabin[r].version =>
            Seats[r] >= cabin[CabinOf[r]].total - cabin[CabinOf[r]].available

\* A resize that wrote the flight: its second sum is the balance with its own
\* cabin resized, as long as the flight was balanced.
Summed ==
    /\ ~unbalanced => Balanced
    /\ \A r \in Resizes : flightOwner = r =>
        /\ pc[r] \in {"recheck", "compare", "commit"}
        /\ pc[r] = "commit" => flightRow.capacity = sum[r]
        /\ ~unbalanced /\ pc[r] \in {"compare", "commit"} =>
            sum[r] + cabin[CabinOf[r]].total = flight.capacity + Seats[r]

SeatInv == Types /\ CabinOwners /\ CabinsHeld /\ CabinPinned /\ Summed /\ BookedSeatsKept

-----------------------------------------------------------------------------
(* Steps other than commits *)

LEMMA InitSeatInv == Init => SeatInv
<1> SUFFICES ASSUME Init PROVE SeatInv
    OBVIOUS
<1>0. NewFlight \in Flight /\ NewFlight.capacity = SumFunctionOnSet(Capacity, Cabins)
  <2>1. SumFunctionOnSet(Capacity, Cabins) \in Int
    BY SeatsAssumption, SumType
  <2> QED
    BY <2>1, TimesAssumption DEF NewFlight, Flight
<1>1. /\ cabin = [c \in Cabins |-> NewCabin(c)] /\ cabinRow = cabin
      /\ \A c \in Cabins : cabinOwner[c] = Nobody
      /\ \A r \in Requests : pc[r] = "idle"
      /\ flight = NewFlight /\ flightOwner = Nobody /\ unbalanced = FALSE
    BY DEF Init
<1>2. Types
  <2>1. \A c \in Cabins : NewCabin(c) \in Cabin
    BY SeatsAssumption DEF NewCabin, Cabin
  <2>2. cabin \in [Cabins -> Cabin]
    BY <1>1, <2>1
  <2>3. NoCabin \in Cabin
    BY DEF NoCabin, Cabin
  <2>4. /\ seen = [r \in Requests |-> NewFlight] /\ seenCabin = [r \in Requests |-> NoCabin]
        /\ sum = [r \in Requests |-> 0] /\ todo = [r \in Requests |-> {}]
        /\ flightRow = NewFlight /\ cabinOwner = [c \in Cabins |-> Nobody]
    BY DEF Init
  <2>5. seen \in [Requests -> Flight] /\ seenCabin \in [Requests -> Cabin]
    BY <1>0, <2>3, <2>4
  <2>6. sum \in [Requests -> Int] /\ todo \in [Requests -> SUBSET Cabins]
    BY <2>4
  <2>7. cabinOwner \in [Cabins -> Requests \cup {Nobody}]
    BY <2>4
  <2> QED
    BY <1>0, <1>1, <2>2, <2>4, <2>5, <2>6, <2>7 DEF Types
<1>3. CabinOwners
    BY <1>1, NobodyAssumption DEF CabinOwners
<1>4. CabinsHeld /\ CabinPinned
    BY <1>1 DEF CabinsHeld, CabinPinned, Requests
<1>5. Balanced
  <2> DEFINE total == [c \in Cabins |-> cabin[c].total]
  <2>1. \A c \in Cabins : total[c] = Capacity[c]
    BY <1>1 DEF NewCabin
  <2> HIDE DEF total
  <2>2. SumFunctionOnSet(total, Cabins) = SumFunctionOnSet(Capacity, Cabins)
    BY <2>1, SeatsAssumption, SumEqual
  <2> QED
    BY <1>0, <1>1, <2>2 DEF Balanced, total
<1>6. Summed
    BY <1>1, <1>5, NobodyAssumption DEF Summed, Requests
<1>7. ASSUME NEW c \in Cabins
      PROVE  /\ cabin[c].total - cabin[c].available = SoldIn(c) + TakenIn(c)
             /\ cabin[c].available >= 0
  <2>1. SoldIn(c) = Sold[c]
    BY <1>1 DEF SoldIn, Requests
  <2>2. {p \in Passengers : CabinOf[p] = c /\ pc[p] = "committed"} = {}
    BY <1>1 DEF Requests
  <2>3. TakenIn(c) = 0
    BY <2>2, SumEmpty DEF TakenIn
  <2> QED
    BY <1>1, <2>1, <2>3, SeatsAssumption DEF NewCabin
<1> QED
    BY <1>2, <1>3, <1>4, <1>6, <1>7 DEF SeatInv, BookedSeatsKept

\* Only commits sell and release seats.
LEMMA NothingCommitted ==
    ASSUME IInv, NEW r \in Requests, NEW l, l # "committed", Goto(r, l), pc[r] # "committed"
    PROVE  \A c \in Cabins : SoldIn(c)' = SoldIn(c) /\ TakenIn(c)' = TakenIn(c)
<1>1. \A q \in Requests : pc'[q] = "committed" <=> pc[q] = "committed"
    BY DEF IInv, Places, Goto
<1>2. TAKE c \in Cabins
<1>3. SoldIn(c)' = SoldIn(c)
    BY <1>1 DEF SoldIn, Requests
<1>4. {p \in Passengers : CabinOf[p] = c /\ pc'[p] = "committed"}
        = {p \in Passengers : CabinOf[p] = c /\ pc[p] = "committed"}
    BY <1>1 DEF Requests
<1> QED
    BY <1>3, <1>4 DEF TakenIn

LEMMA NothingCommittedKeeps ==
    ASSUME IInv, SeatInv, NEW r \in Requests, NEW l, l # "committed", Goto(r, l),
           pc[r] # "committed", UNCHANGED cabin
    PROVE  BookedSeatsKept'
BY NothingCommitted DEF SeatInv, BookedSeatsKept

LEMMA SoldInType == \A c \in Cabins : SoldIn(c) \in Nat
BY SeatsAssumption DEF SoldIn

\* What r writes into its session leaves the locks of the others alone.
LEMMA LocksStay ==
    ASSUME IInv, SeatInv, NEW r \in Requests, NEW l \in Running, Goto(r, l), pc[r] # "committed",
           UNCHANGED cabinVars,
           \A q \in Requests \ {r} : todo'[q] = todo[q],
           r \in Resizes => \/ l = "resize" /\ pc[r] \in {"idle", "cabin"}
                            \/ l = "cabin" /\ pc[r] = "idle"
                            \/ /\ l \in {"sum", "capacity", "recheck", "compare", "commit"}
                               /\ pc[r] \in {"sum", "capacity", "recheck", "compare"},
           r \notin Passengers,
           r \in Cancels => \/ pc[r] = "idle" /\ l = "update"
                            \/ pc[r] = "update" /\ l = "release" /\ todo'[r] = {c \in Cabins : SoldIn(c) > 0}
                            \/ /\ pc[r] = "update" /\ l = "commit" /\ todo'[r] = {}
                               /\ \A c \in Cabins : ~(SoldIn(c) > 0)
    PROVE  CabinOwners' /\ CabinsHeld'
<1> USE DEF IInv, SeatInv, Goto, cabinVars
<1>0. \A c \in Cabins : SoldIn(c)' = SoldIn(c)
    BY NothingCommitted DEF Running
<1>1. \A q \in Requests : pc'[q] = IF q = r THEN l ELSE pc[q]
    BY DEF Places
<1>2. CabinOwners'
  <2> SUFFICES ASSUME NEW c \in Cabins, NEW q \in Requests, cabinOwner[c] = q
               PROVE  /\ q \in Resizes \cup Passengers \cup Cancels
                      /\ cabinRow[c].version = cabin[c].version + 1
                      /\ cabinRow[c].available >= 0
                      /\ PendingCabin(q, c)'
    BY DEF CabinOwners
  <2>1. /\ q \in Resizes \cup Passengers \cup Cancels
        /\ cabinRow[c].version = cabin[c].version + 1 /\ cabinRow[c].available >= 0
        /\ PendingCabin(q, c)
    BY DEF CabinOwners
  <2>2. CASE q = r
    BY <1>0, <1>1, <2>1, <2>2 DEF PendingCabin
  <2>3. CASE q # r
    BY <1>0, <1>1, <2>1, <2>3 DEF PendingCabin
  <2> QED
    BY <2>1, <2>2, <2>3
<1>3. CabinsHeld'
    BY <1>0, <1>1 DEF CabinsHeld
<1> QED
    BY <1>2, <1>3

\* A step that neither writes cabins nor ends a request.
LEMMA QuietSeats ==
    ASSUME IInv, SeatInv, NEW r \in Requests, NEW l \in Running, Goto(r, l), pc[r] # "committed",
           UNCHANGED <<flight, cabinVars, ghosts>>, CabinOwners' /\ CabinsHeld',
           flightRow' \in Flight,
           seen' \in [Requests -> Flight], seenCabin' \in [Requests -> Cabin],
           sum' \in [Requests -> Int], todo' \in [Requests -> SUBSET Cabins],
           \A q \in Requests \ {r} : sum'[q] = sum[q] /\ seenCabin'[q] = seenCabin[q],
           \A q \in Requests \ {r} : flightOwner' = q => flightOwner = q /\ flightRow' = flightRow,
           l = "resize" =>
                \/ r \notin Resizes
                \/ /\ seenCabin'[r] = cabin[CabinOf[r]]
                   /\ Seats[r] >= cabin[CabinOf[r]].total - cabin[CabinOf[r]].available,
           r \in Resizes /\ flightOwner' = r =>
                /\ l \in {"recheck", "compare", "commit"}
                /\ l = "commit" => flightRow'.capacity = sum'[r]
                /\ ~unbalanced /\ l \in {"compare", "commit"} =>
                     sum'[r] + cabin[CabinOf[r]].total = flight.capacity + Seats[r]
    PROVE  SeatInv'
<1> USE DEF SeatInv, Goto, cabinVars, ghosts
<1>1. \A q \in Requests : pc'[q] = IF q = r THEN l ELSE pc[q]
    BY DEF IInv, Places
<1>2. Types'
    BY DEF Types
<1>3. CabinPinned'
  <2> SUFFICES ASSUME NEW q \in Resizes, pc'[q] = "resize"
               PROVE  /\ seenCabin'[q].version <= cabin[CabinOf[q]].version
                      /\ seenCabin'[q].version = cabin[CabinOf[q]].version =>
                            seenCabin'[q].total = cabin[CabinOf[q]].total
                      /\ cabin[CabinOf[q]].version = seenCabin'[q].version =>
                            Seats[q] >= cabin[CabinOf[q]].total - cabin[CabinOf[q]].available
    BY DEF CabinPinned
  <2>1. q \in Requests /\ cabin[CabinOf[q]].version \in Nat
    BY SeatsAssumption DEF Requests, Types, Cabin
  <2>2. CASE q = r
    BY <1>1, <2>1, <2>2
  <2>3. CASE q # r
    BY <1>1, <2>1, <2>3 DEF CabinPinned
  <2> QED
    BY <2>2, <2>3
<1>4. Balanced' = Balanced
    BY DEF Balanced
<1>5. Summed'
  <2> SUFFICES ASSUME NEW q \in Resizes, flightOwner' = q
               PROVE  /\ pc'[q] \in {"recheck", "compare", "commit"}
                      /\ pc'[q] = "commit" => flightRow'.capacity = sum'[q]
                      /\ ~unbalanced /\ pc'[q] \in {"compare", "commit"} =>
                            sum'[q] + cabin[CabinOf[q]].total = flight.capacity + Seats[q]
    BY <1>4 DEF Summed
  <2>1. q \in Requests
    BY DEF Requests
  <2>2. CASE q = r
    BY <1>1, <2>1, <2>2
  <2>3. CASE q # r
    BY <1>1, <2>1, <2>3 DEF Summed
  <2> QED
    BY <2>2, <2>3
<1>6. BookedSeatsKept'
    BY NothingCommittedKeeps DEF Running
<1> QED
    BY <1>2, <1>3, <1>5, <1>6

LEMMA LoadSeats ==
    ASSUME IInv, SeatInv, NEW r \in Requests, Load(r)
    PROVE  SeatInv'
<1> USE DEF Load, flightVars, cabinVars, ghosts
<1>1. PICK l \in {"cabin", "layout", "update"} :
        /\ Goto(r, l) /\ (r \in Resizes => l = "cabin")
        /\ r \in Cancels => l = "update"
  <2>1. r \in Cancels => r \notin Resizes \cup Maps
    BY KindsAssumption
  <2> QED
    BY <2>1
<1>2. l \in Running /\ l # "resize" /\ r \notin Passengers /\ todo' = todo
    BY DEF Running
<1>3. CabinOwners' /\ CabinsHeld'
    BY <1>1, <1>2, LocksStay
<1>4. r \in Resizes => flightOwner # r
    BY DEF SeatInv, Summed
<1>5. Types
    BY DEF SeatInv
<1> QED
    BY <1>1, <1>2, <1>3, <1>4, <1>5, QuietSeats DEF Types

LEMMA ReadCabinSeats ==
    ASSUME IInv, SeatInv, NEW r \in Requests, ReadCabin(r)
    PROVE  SeatInv'
<1> USE DEF ReadCabin, flightVars, cabinVars, ghosts
<1>1. r \in Resizes /\ r \notin Passengers /\ r \notin Cancels
    BY KindsAssumption DEF IInv, Places
<1>2. CabinOwners' /\ CabinsHeld'
    BY <1>1, LocksStay DEF Running
<1>3. flightOwner # r
    BY <1>1 DEF SeatInv, Summed
<1>4. Types /\ CabinOf[r] \in Cabins
    BY <1>1, SeatsAssumption DEF SeatInv
<1>5. seenCabin' \in [Requests -> Cabin] /\ seenCabin'[r] = cabin[CabinOf[r]]
      /\ \A q \in Requests \ {r} : seenCabin'[q] = seenCabin[q]
    BY <1>4 DEF Types
<1> QED
    BY <1>1, <1>2, <1>3, <1>4, <1>5, QuietSeats DEF Types, Running

\* What a resize sees is the sum of the committed cabins with its own resized.
LEMMA SumSeenIs ==
    ASSUME IInv, SeatInv, NEW r \in Resizes,
           pc[r] \in {"sum", "capacity", "recheck", "compare", "commit"}
    PROVE  /\ SumSeen(r) \in Int
           /\ ~unbalanced =>
                SumSeen(r) + cabin[CabinOf[r]].total = flight.capacity + Seats[r]
<1> DEFINE own == [c \in Cabins |-> CabinSeen(r, c).total]
           total == [c \in Cabins |-> cabin[c].total]
           k == CabinOf[r]
<1>0. r \in Requests /\ r \notin Passengers /\ r \notin Cancels /\ k \in Cabins /\ Seats[r] \in Nat
    BY KindsAssumption, SeatsAssumption DEF Requests
<1>1. cabinOwner[k] = r
    BY <1>0 DEF SeatInv, CabinsHeld
<1>2. own[k] = Seats[r]
    BY <1>0, <1>1 DEF SeatInv, CabinOwners, PendingCabin, CabinSeen
<1>3. \A c \in Cabins \ {k} : own[c] = total[c]
    BY <1>0 DEF SeatInv, CabinOwners, PendingCabin, CabinSeen
<1>4. (\A c \in Cabins : total[c] \in Int /\ total[c] = cabin[c].total) /\ flight.capacity \in Int
    BY DEF SeatInv, Types, Cabin, Flight
<1>5. SumSeen(r) = SumFunctionOnSet(own, Cabins)
    BY DEF SumSeen
<1>6. ~unbalanced => flight.capacity = SumFunctionOnSet(total, Cabins)
    BY DEF SeatInv, Summed, Balanced
<1> HIDE DEF own, total, k
<1>7. own[k] \in Int /\ \A c \in Cabins : own[c] \in Int
    BY <1>0, <1>2, <1>3, <1>4
<1>8. SumFunctionOnSet(own, Cabins) = SumFunctionOnSet(total, Cabins) + (own[k] - total[k])
  <2>1. IsFiniteSet(Cabins) /\ k \in Cabins /\ \A c \in Cabins : total[c] \in Int
    BY <1>0, <1>4, SeatsAssumption
  <2> QED
    BY <1>3, <1>7, <2>1, SumChange
<1>9. SumFunctionOnSet(own, Cabins) \in Int /\ SumFunctionOnSet(total, Cabins) \in Int
    BY <1>4, <1>7, SeatsAssumption, SumType
<1>10. total[k] = cabin[CabinOf[r]].total
    BY <1>0, <1>4 DEF k
<1> QED
    BY <1>0, <1>2, <1>4, <1>5, <1>6, <1>8, <1>9, <1>10

LEMMA SumSeats ==
    ASSUME IInv, SeatInv, NEW r \in Requests, SumCabins(r) \/ SumAgain(r)
    PROVE  SeatInv'
<1> USE DEF flightVars, cabinVars, ghosts
<1>1. r \in Resizes /\ r \notin Passengers /\ r \notin Cancels
    BY KindsAssumption DEF SumCabins, SumAgain, IInv, Places
<1>2. PICK l \in {"recheck", "capacity", "compare"} :
        /\ Goto(r, l) /\ sum' = [sum EXCEPT ![r] = SumSeen(r)]
        /\ \/ pc[r] = "sum" /\ l # "compare"
           \/ pc[r] = "recheck" /\ l = "compare"
    BY DEF SumCabins, SumAgain
<1>3. UNCHANGED <<flightVars, cabinVars, ghosts, seen, seenCabin, todo>>
    BY DEF SumCabins, SumAgain
<1>4. CabinOwners' /\ CabinsHeld'
    BY <1>1, <1>2, <1>3, LocksStay DEF Running
<1>5. Types /\ (flightOwner = r => pc[r] = "recheck")
    BY <1>1, <1>2 DEF SeatInv, Summed
<1>6. sum' \in [Requests -> Int] /\ sum'[r] = SumSeen(r)
      /\ \A q \in Requests \ {r} : sum'[q] = sum[q]
    BY <1>1, <1>2, <1>5, SumSeenIs DEF Types
<1>7. ~unbalanced => SumSeen(r) + cabin[CabinOf[r]].total = flight.capacity + Seats[r]
    BY <1>1, <1>2, SumSeenIs
<1> QED
    BY <1>1, <1>2, <1>3, <1>4, <1>5, <1>6, <1>7, QuietSeats DEF Types, Running

LEMMA WriteCapacitySeats ==
    ASSUME IInv, SeatInv, NEW r \in Requests, WriteCapacity(r)
    PROVE  SeatInv'
<1> USE DEF WriteCapacity, WriteFlight, cabinVars, ghosts, session
<1>1. r \in Resizes /\ r \notin Passengers /\ r \notin Cancels
    BY KindsAssumption DEF IInv, Places
<1>2. CabinOwners' /\ CabinsHeld'
    BY <1>1, LocksStay DEF Running
<1>3. Types /\ flightRow' \in Flight
    BY DEF SeatInv, Types, Flight
<1> QED
    BY <1>1, <1>2, <1>3, QuietSeats DEF Types, Running

LEMMA CompareSeats ==
    ASSUME IInv, SeatInv, NEW r \in Requests, Compare(r)
    PROVE  SeatInv'
<1> USE DEF Compare, flightVars, cabinVars, ghosts, session
<1>1. r \in Resizes /\ r \notin Passengers /\ r \notin Cancels
    BY KindsAssumption DEF IInv, Places
<1>2. CabinOwners' /\ CabinsHeld'
    BY <1>1, LocksStay DEF Running
<1>3. flightOwner = r =>
        /\ flightRow.capacity = sum[r]
        /\ ~unbalanced => sum[r] + cabin[CabinOf[r]].total = flight.capacity + Seats[r]
    BY <1>1 DEF SeatInv, Summed, Balances, FlightSeen
<1>4. Types
    BY DEF SeatInv
<1> QED
    BY <1>1, <1>2, <1>3, <1>4, QuietSeats DEF Types, Running

LEMMA FlightIs ==
    ASSUME NEW f, IsFlight(f), f.capacity \in Int, f.seatMap \in [Cabins -> Nat]
    PROVE  f \in Flight
BY DEF IsFlight, Flight

LEMMA UpdateFlightSeats ==
    ASSUME IInv, IInv', SeatInv, NEW r \in Requests, UpdateFlight(r)
    PROVE  SeatInv'
<1> USE DEF UpdateFlight, WriteFlight, cabinVars, ghosts
<1>1. r \in Scheduling /\ r \notin Resizes /\ r \notin Passengers
    BY KindsAssumption DEF IInv, Places, Scheduling
<1>2. Types
    BY DEF SeatInv
<1>3. r \in Cancels => {c \in Cabins : r \in Cancels /\ SoldIn(c) > 0} = {c \in Cabins : SoldIn(c) > 0}
    OBVIOUS
<1>4. PICK l \in {"commit", "release"} :
        /\ Goto(r, l) /\ todo' = [todo EXCEPT ![r] = {c \in Cabins : r \in Cancels /\ SoldIn(c) > 0}]
        /\ l = "commit" <=> {c \in Cabins : r \in Cancels /\ SoldIn(c) > 0} = {}
    OBVIOUS
<1>5. /\ todo' \in [Requests -> SUBSET Cabins]
      /\ todo'[r] = {c \in Cabins : r \in Cancels /\ SoldIn(c) > 0}
      /\ \A q \in Requests \ {r} : todo'[q] = todo[q]
    BY <1>2, <1>4 DEF Types
<1>6. CabinOwners' /\ CabinsHeld'
  <2>1. l \in Running
    BY <1>4 DEF Running
  <2> QED
    BY <1>1, <1>3, <1>4, <1>5, <2>1, LocksStay
<1>7. flightRow' \in Flight
  <2>1. flightRow'.capacity = flight.capacity /\ flightRow'.seatMap = flight.seatMap
    BY DEF Updated
  <2>2. flight.capacity \in Int /\ flight.seatMap \in [Cabins -> Nat]
    BY <1>2 DEF Types, Flight
  <2>3. IsFlight(flightRow')
    BY DEF IInv, FlightRows, IsFlight
  <2> QED
    BY <2>1, <2>2, <2>3, FlightIs
<1>8. flightOwner' = r
    OBVIOUS
<1> QED
    BY <1>1, <1>2, <1>4, <1>5, <1>6, <1>7, <1>8, QuietSeats DEF Types, Running

LEMMA ReadLayoutSeats ==
    ASSUME IInv, SeatInv, NEW r \in Requests, ReadLayout(r)
    PROVE  SeatInv'
<1> USE DEF ReadLayout, flightVars, cabinVars, ghosts, session
<1>1. r \notin Resizes /\ r \notin Passengers /\ r \notin Cancels
    BY KindsAssumption DEF IInv, Places
<1>2. CabinOwners' /\ CabinsHeld'
    BY <1>1, LocksStay DEF Running
<1>3. Types
    BY DEF SeatInv
<1> QED
    BY <1>1, <1>2, <1>3, QuietSeats DEF Types, Running

LEMMA DefineSeatMapSeats ==
    ASSUME IInv, SeatInv, NEW r \in Requests, DefineSeatMap(r)
    PROVE  SeatInv'
<1> USE DEF DefineSeatMap, WriteFlight, cabinVars, ghosts, session
<1>1. r \in Maps /\ r \notin Resizes /\ r \notin Passengers /\ r \notin Cancels
    BY KindsAssumption DEF IInv, Places
<1>2. CabinOwners' /\ CabinsHeld'
    BY <1>1, LocksStay DEF Running
<1>3. Types
    BY DEF SeatInv
<1>4. flightRow' \in Flight
    BY <1>1, <1>3, SeatsAssumption DEF Types, Flight, Mapped
<1> QED
    BY <1>1, <1>2, <1>3, <1>4, QuietSeats DEF Types, Running

-----------------------------------------------------------------------------
(* Steps that write a cabin *)

\* r writes cabin k and keeps its row: everything else is as it was.
LEMMA WriteCabinSeats ==
    ASSUME IInv, SeatInv, NEW r \in Requests, NEW k \in Cabins, NEW row \in Cabin,
           NEW l \in {"sum", "release", "commit"}, Goto(r, l), WriteCabin(r, k, row),
           pc[r] # "committed",
           UNCHANGED <<flightVars, ghosts, seen, seenCabin, sum>>,
           todo' \in [Requests -> SUBSET Cabins], \A q \in Requests \ {r} : todo'[q] = todo[q],
           r \in Resizes \cup Passengers \cup Cancels, flightOwner = r => r \notin Resizes,
           row.version = cabin[k].version + 1, row.available >= 0,
           \A c \in Cabins \ {k} : cabinOwner[c] = r => PendingCabin(r, c)',
           PendingCabin(r, k)',
           r \in Resizes => k = CabinOf[r] /\ l = "sum",
           r \in Passengers => k = CabinOf[r] /\ l = "commit",
           r \in Cancels => /\ l # "sum" /\ (l = "commit" => todo'[r] = {})
                            /\ pc[r] = "release" /\ todo'[r] = todo[r] \ {k}
    PROVE  SeatInv'
<1> USE DEF SeatInv, Goto, WriteCabin, flightVars, ghosts
<1>0. /\ \A c \in Cabins : SoldIn(c)' = SoldIn(c)
      /\ \A q \in Requests : pc'[q] = IF q = r THEN l ELSE pc[q]
    BY NothingCommitted DEF IInv, Places
<1>1. /\ cabinRow' \in [Cabins -> Cabin] /\ cabinRow'[k] = row
      /\ cabinOwner' \in [Cabins -> Requests \cup {Nobody}] /\ cabinOwner'[k] = r
      /\ \A c \in Cabins \ {k} : cabinRow'[c] = cabinRow[c] /\ cabinOwner'[c] = cabinOwner[c]
    BY DEF Types
<1>2. Types'
    BY <1>1 DEF Types
<1>3. CabinOwners'
  <2> SUFFICES ASSUME NEW c \in Cabins, NEW q \in Requests, cabinOwner'[c] = q
               PROVE  /\ q \in Resizes \cup Passengers \cup Cancels
                      /\ cabinRow'[c].version = cabin[c].version + 1
                      /\ cabinRow'[c].available >= 0
                      /\ PendingCabin(q, c)'
    BY DEF CabinOwners
  <2>1. CASE c = k
    BY <1>1, <2>1
  <2>2. CASE c # k
    <3>1. /\ q \in Resizes \cup Passengers \cup Cancels
          /\ cabinRow[c].version = cabin[c].version + 1 /\ cabinRow[c].available >= 0
          /\ PendingCabin(q, c) /\ cabinRow'[c] = cabinRow[c] /\ cabinOwner[c] = q
        BY <1>1, <2>2 DEF CabinOwners
    <3>2. CASE q # r
        BY <1>0, <3>1, <3>2 DEF PendingCabin
    <3> QED
        BY <2>2, <3>1, <3>2
  <2> QED
    BY <2>1, <2>2
<1>4. CabinsHeld'
  <2> SUFFICES ASSUME NEW q \in Requests
        PROVE
        /\ q \in Resizes /\ pc'[q] \in {"sum", "capacity", "recheck", "compare", "commit"} =>
            cabinOwner'[CabinOf[q]] = q
        /\ q \in Passengers => pc'[q] \notin {"update", "release", "layout", "define"}
        /\ q \in Passengers /\ pc'[q] = "commit" => cabinOwner'[CabinOf[q]] = q
        /\ q \in Cancels /\ pc'[q] \in {"release", "commit"} =>
            \A c \in Cabins :
                /\ SoldIn(c)' > 0 => cabinOwner'[c] = q \/ c \in todo'[q]
                /\ c \in todo'[q] => SoldIn(c)' > 0
        /\ q \in Cancels /\ pc'[q] = "commit" => todo'[q] = {}
    BY DEF CabinsHeld
  <2>0. q \in Resizes \cup Passengers => CabinOf[q] \in Cabins
    BY SeatsAssumption
  <2>1. CASE q = r
    BY <1>0, <1>1, <2>1, KindsAssumption DEF CabinsHeld
  <2>2. CASE q # r
    <3>1. \A c \in Cabins : cabinOwner[c] = q => cabinOwner'[c] = q
        BY <1>1, <2>2, NobodyAssumption DEF CabinFree
    <3> QED
        BY <1>0, <2>0, <2>2, <3>1 DEF CabinsHeld
  <2> QED
    BY <2>1, <2>2
<1>5. CabinPinned'
    BY <1>0 DEF CabinPinned, Requests
<1>6. Summed'
    BY <1>0 DEF Summed, Balanced, Requests
<1>7. BookedSeatsKept'
    BY NothingCommittedKeeps
<1> QED
    BY <1>2, <1>3, <1>4, <1>5, <1>6, <1>7

LEMMA AdjustedIs ==
    ASSUME NEW row \in Cabin, NEW delta \in Int
    PROVE  /\ Adjusted(row, delta) \in Cabin
           /\ Adjusted(row, delta).version = row.version + 1
           /\ Adjusted(row, delta).total = row.total
           /\ Adjusted(row, delta).available = row.available + delta
BY DEF Adjusted, Cabin

LEMMA AdjustSeatsSeats ==
    ASSUME IInv, SeatInv, NEW r \in Requests, AdjustSeats(r)
    PROVE  SeatInv'
<1> DEFINE k == CabinOf[r]
           row == Adjusted(cabin[k], -Seats[r])
<1> USE DEF AdjustSeats, session
<1>1. /\ r \in Passengers /\ r \notin Resizes /\ r \notin Cancels /\ k \in Cabins
      /\ Seats[r] \in Nat /\ pc[r] = "idle" /\ Types /\ cabin[k].available >= Seats[r]
    BY KindsAssumption, SeatsAssumption DEF SeatInv
<1>2. /\ row \in Cabin /\ row.version = cabin[k].version + 1 /\ row.total = cabin[k].total
      /\ row.available = cabin[k].available - Seats[r] /\ row.available >= 0
  <2>1. cabin[k] \in Cabin /\ -Seats[r] \in Int /\ cabin[k].available \in Int
    BY <1>1 DEF Types, Cabin
  <2>2. row \in Cabin /\ row.version = cabin[k].version + 1 /\ row.total = cabin[k].total
        /\ row.available = cabin[k].available + -Seats[r]
    BY <2>1, AdjustedIs
  <2> QED
    BY <1>1, <2>1, <2>2
<1>3. WriteCabin(r, k, row) /\ Goto(r, "commit")
    OBVIOUS
<1>4. cabinRow'[k] = row /\ pc'[r] = "commit" /\ UNCHANGED cabin
    BY <1>1, <1>3 DEF WriteCabin, Types, Goto, IInv, Places
<1> HIDE DEF row
<1>5. PendingCabin(r, k)'
    BY <1>1, <1>2, <1>4 DEF PendingCabin
<1>6. \A c \in Cabins : cabinOwner[c] # r
    BY <1>1 DEF SeatInv, CabinOwners, PendingCabin
<1>7. todo' \in [Requests -> SUBSET Cabins] /\ \A q \in Requests \ {r} : todo'[q] = todo[q]
    BY <1>1 DEF Types
<1>8. UNCHANGED <<flightVars, ghosts, seen, seenCabin, sum>>
    OBVIOUS
<1> QED
    BY <1>1, <1>2, <1>3, <1>5, <1>6, <1>7, <1>8, WriteCabinSeats

LEMMA ResizeCabinSeats ==
    ASSUME IInv, SeatInv, NEW r \in Requests, ResizeCabin(r)
    PROVE  SeatInv'
<1> DEFINE k == CabinOf[r]
           row == Resized(r, cabin[k])
<1> USE DEF ResizeCabin, session
<1>1. /\ r \in Resizes /\ r \notin Passengers /\ r \notin Cancels /\ k \in Cabins
      /\ Seats[r] \in Nat /\ pc[r] = "resize" /\ Types
    BY KindsAssumption, SeatsAssumption DEF SeatInv, IInv, Places
<1>2. seenCabin[r].total = cabin[k].total /\ Seats[r] >= cabin[k].total - cabin[k].available
    BY <1>1 DEF SeatInv, CabinPinned, CabinUnchanged
<1>3. /\ row \in Cabin /\ row.version = cabin[k].version + 1 /\ row.total = Seats[r]
      /\ row.total - row.available = cabin[k].total - cabin[k].available /\ row.available >= 0
    BY <1>1, <1>2 DEF Types, Cabin, Resized
<1>4. WriteCabin(r, k, row) /\ Goto(r, "sum")
    OBVIOUS
<1>5. cabinRow'[k] = row /\ pc'[r] = "sum" /\ UNCHANGED cabin
    BY <1>1, <1>4 DEF WriteCabin, Types, Goto, IInv, Places
<1> HIDE DEF row
<1>6. PendingCabin(r, k)'
    BY <1>1, <1>3, <1>5 DEF PendingCabin
<1>7. flightOwner # r /\ \A c \in Cabins : cabinOwner[c] # r
    BY <1>1 DEF SeatInv, CabinOwners, PendingCabin, Summed
<1>8. todo' \in [Requests -> SUBSET Cabins] /\ \A q \in Requests \ {r} : todo'[q] = todo[q]
    BY <1>1 DEF Types
<1>9. UNCHANGED <<flightVars, ghosts, seen, seenCabin, sum>>
    OBVIOUS
<1> QED
    BY <1>1, <1>3, <1>4, <1>6, <1>7, <1>8, <1>9, WriteCabinSeats

LEMMA ReleaseSeatsSeats ==
    ASSUME IInv, SeatInv, NEW r \in Requests, ReleaseSeats(r)
    PROVE  SeatInv'
<1>0. PICK k \in todo[r] :
        /\ WriteCabin(r, k, Adjusted(cabin[k], Sold[k]))
        /\ todo' = [todo EXCEPT ![r] = todo[r] \ {k}]
        /\ Goto(r, IF todo[r] = {k} THEN "commit" ELSE "release")
    BY DEF ReleaseSeats
<1> DEFINE row == Adjusted(cabin[k], Sold[k])
           l == IF todo[r] = {k} THEN "commit" ELSE "release"
<1>1. /\ r \in Cancels /\ r \notin Resizes /\ r \notin Passengers /\ k \in Cabins
      /\ Sold[k] \in Nat /\ pc[r] = "release" /\ Types /\ cabin[k].available >= 0
    BY KindsAssumption, SeatsAssumption
        DEF SeatInv, IInv, Places, ReleaseSeats, Types, BookedSeatsKept
<1>2. /\ row \in Cabin /\ row.version = cabin[k].version + 1 /\ row.total = cabin[k].total
      /\ row.available = cabin[k].available + Sold[k] /\ row.available >= 0
  <2>1. cabin[k] \in Cabin /\ Sold[k] \in Int /\ cabin[k].available \in Int
    BY <1>1 DEF Types, Cabin
  <2>2. row \in Cabin /\ row.version = cabin[k].version + 1 /\ row.total = cabin[k].total
        /\ row.available = cabin[k].available + Sold[k]
    BY <2>1, AdjustedIs
  <2> QED
    BY <1>1, <2>1, <2>2
<1>3. WriteCabin(r, k, row) /\ Goto(r, l) /\ l \in {"release", "commit"}
    BY <1>0
<1>4. /\ cabinRow'[k] = row /\ pc'[r] = l /\ UNCHANGED cabin
      /\ \A c \in Cabins \ {k} : cabinRow'[c] = cabinRow[c]
    BY <1>1, <1>3 DEF WriteCabin, Types, Goto, IInv, Places
<1>5. /\ todo' \in [Requests -> SUBSET Cabins] /\ todo'[r] = todo[r] \ {k}
      /\ \A q \in Requests \ {r} : todo'[q] = todo[q]
      /\ l = "commit" => todo'[r] = {}
    BY <1>0, <1>1 DEF Types
<1>6. \A c \in Cabins : SoldIn(c)' = SoldIn(c)
    BY <1>1, <1>3, NothingCommitted
<1>7. SoldIn(k) > 0
    BY <1>1 DEF SeatInv, CabinsHeld
<1> HIDE DEF row, l
<1>8. PendingCabin(r, k)'
    BY <1>1, <1>2, <1>3, <1>4, <1>5, <1>6, <1>7 DEF PendingCabin
<1>9. ASSUME NEW c \in Cabins \ {k}, cabinOwner[c] = r PROVE PendingCabin(r, c)'
  <2>1. PendingCabin(r, c)
    BY <1>9 DEF SeatInv, CabinOwners
  <2> QED
    BY <1>1, <1>3, <1>4, <1>5, <1>6, <2>1 DEF PendingCabin
<1>10. UNCHANGED <<flightVars, ghosts, seen, seenCabin, sum>>
    BY DEF ReleaseSeats
<1> QED
    BY <1>1, <1>2, <1>3, <1>5, <1>8, <1>9, <1>10, WriteCabinSeats

-----------------------------------------------------------------------------
(* The end of a transaction *)

\* What is left of r's locks, and what the others keep.
LEMMA LocksFreed ==
    ASSUME Types, NEW r \in Requests, CloseSession(r)
    PROVE  /\ \A q \in Requests : \A c \in Cabins : cabinOwner'[c] = q <=> cabinOwner[c] = q /\ q # r
           /\ \A q \in Requests : flightOwner' = q <=> flightOwner = q /\ q # r
           /\ cabinOwner' \in [Cabins -> Requests \cup {Nobody}]
           /\ seen' = [seen EXCEPT ![r] = NewFlight]
           /\ seenCabin' \in [Requests -> Cabin]
           /\ sum' \in [Requests -> Int] /\ todo' \in [Requests -> SUBSET Cabins]
           /\ \A q \in Requests \ {r} :
                seenCabin'[q] = seenCabin[q] /\ sum'[q] = sum[q] /\ todo'[q] = todo[q]
<1>1. NoCabin \in Cabin
    BY DEF NoCabin, Cabin
<1> QED
    BY <1>1, NobodyAssumption DEF CloseSession, Types

LEMMA NewFlightType == NewFlight \in Flight
<1>1. SumFunctionOnSet(Capacity, Cabins) \in Int
    BY SeatsAssumption, SumType
<1> QED
    BY <1>1, TimesAssumption DEF NewFlight, Flight

LEMMA AbortSeats ==
    ASSUME IInv, SeatInv, NEW r \in Requests, Abort(r), pc[r] # "committed"
    PROVE  SeatInv'
<1> USE DEF SeatInv
<1>0. /\ \A c \in Cabins : SoldIn(c)' = SoldIn(c)
      /\ \A q \in Requests : pc'[q] = IF q = r THEN "rolled_back" ELSE pc[q]
    BY NothingCommitted DEF Abort, IInv, Places, Goto
<1>1. UNCHANGED <<flight, cabin, ghosts>> /\ CloseSession(r)
    BY DEF Abort
<1>2. /\ \A q \in Requests : \A c \in Cabins : cabinOwner'[c] = q <=> cabinOwner[c] = q /\ q # r
      /\ \A q \in Requests : flightOwner' = q <=> flightOwner = q /\ q # r
      /\ cabinOwner' \in [Cabins -> Requests \cup {Nobody}]
      /\ seen' = [seen EXCEPT ![r] = NewFlight]
      /\ seenCabin' \in [Requests -> Cabin]
      /\ sum' \in [Requests -> Int] /\ todo' \in [Requests -> SUBSET Cabins]
      /\ \A q \in Requests \ {r} :
           seenCabin'[q] = seenCabin[q] /\ sum'[q] = sum[q] /\ todo'[q] = todo[q]
    BY <1>1, LocksFreed
<1>3. /\ cabinRow' \in [Cabins -> Cabin] /\ flightRow' \in Flight
      /\ \A c \in Cabins : cabinOwner[c] # r => cabinRow'[c] = cabinRow[c]
      /\ flightOwner # r => flightRow' = flightRow
    BY DEF Abort, Types
<1>4. Types'
    BY <1>1, <1>2, <1>3, NewFlightType DEF Types, ghosts
<1>5. CabinOwners'
  <2> SUFFICES ASSUME NEW c \in Cabins, NEW q \in Requests, cabinOwner'[c] = q
               PROVE  /\ q \in Resizes \cup Passengers \cup Cancels
                      /\ cabinRow'[c].version = cabin[c].version + 1
                      /\ cabinRow'[c].available >= 0
                      /\ PendingCabin(q, c)'
    BY <1>1 DEF CabinOwners
  <2>1. q # r /\ cabinOwner[c] = q
    BY <1>2
  <2> QED
    BY <1>0, <1>1, <1>2, <1>3, <2>1 DEF CabinOwners, PendingCabin
<1>6. CabinsHeld'
  <2>0. \A q \in Resizes \cup Passengers : CabinOf[q] \in Cabins
    BY SeatsAssumption
  <2> QED
    BY <1>0, <1>2, <2>0 DEF CabinsHeld
<1>7. CabinPinned'
    BY <1>0, <1>1, <1>2 DEF CabinPinned, Requests
<1>8. Balanced' = Balanced
    BY <1>1 DEF Balanced
<1>9. Summed'
    BY <1>0, <1>1, <1>2, <1>3, <1>8 DEF Summed, Requests, ghosts
<1>10. BookedSeatsKept'
    BY <1>1, NothingCommittedKeeps DEF Abort
<1> QED
    BY <1>4, <1>5, <1>6, <1>7, <1>9, <1>10

\* What the commit of r does to a cabin and to the seats sold and taken in it.
LEMMA CommittedCabin ==
    ASSUME IInv, SeatInv, NEW r \in Requests, Commit(r), NEW c \in Cabins
    PROVE  /\ cabin'[c] \in Cabin
           /\ cabinOwner[c] # r => cabin'[c] = cabin[c]
           /\ cabinOwner[c] = r => /\ cabin'[c] = cabinRow[c]
                                   /\ cabin'[c].version = cabin[c].version + 1
                                   /\ cabin'[c].available >= 0
                                   /\ r \in Resizes \cup Passengers \cup Cancels
                                   /\ PendingCabin(r, c)
           /\ r \notin Resizes => cabin'[c].total = cabin[c].total
           /\ r \notin Cancels => SoldIn(c)' = SoldIn(c)
           /\ r \in Cancels => /\ SoldIn(c)' = 0
                               /\ SoldIn(c) > 0 => cabinOwner[c] = r /\ SoldIn(c) = Sold[c]
           /\ r \notin Passengers \/ CabinOf[r] # c => TakenIn(c)' = TakenIn(c)
           /\ r \in Passengers /\ CabinOf[r] = c => TakenIn(c)' = TakenIn(c) + Seats[r]
<1> USE DEF SeatInv
<1>0. /\ pc[r] = "commit" /\ \A q \in Requests : pc'[q] = IF q = r THEN "committed" ELSE pc[q]
      /\ cabin'[c] = CabinSeen(r, c)
    BY DEF Commit, IInv, Places, Goto
<1>1. /\ cabin'[c] \in Cabin
      /\ cabinOwner[c] # r => cabin'[c] = cabin[c]
      /\ cabinOwner[c] = r => /\ cabin'[c] = cabinRow[c]
                              /\ cabin'[c].version = cabin[c].version + 1
                              /\ cabin'[c].available >= 0
                              /\ r \in Resizes \cup Passengers \cup Cancels
                              /\ PendingCabin(r, c)
    BY <1>0 DEF CabinSeen, Types, CabinOwners
<1>2. r \notin Resizes => cabin'[c].total = cabin[c].total
    BY <1>1 DEF PendingCabin
<1>3. r \notin Cancels => SoldIn(c)' = SoldIn(c)
    BY <1>0 DEF SoldIn, Requests
<1>4. r \in Cancels => /\ SoldIn(c)' = 0
                       /\ SoldIn(c) > 0 => cabinOwner[c] = r /\ SoldIn(c) = Sold[c]
    BY <1>0 DEF SoldIn, CabinsHeld
<1> DEFINE before == {p \in Passengers : CabinOf[p] = c /\ pc[p] = "committed"}
           after == {p \in Passengers : CabinOf[p] = c /\ pc'[p] = "committed"}
<1>5. TakenIn(c) = SumFunctionOnSet(Seats, before) /\ TakenIn(c)' = SumFunctionOnSet(Seats, after)
    BY DEF TakenIn
<1>6. r \notin Passengers \/ CabinOf[r] # c => after = before
    BY <1>0 DEF Requests
<1>7. r \in Passengers /\ CabinOf[r] = c => after = before \cup {r} /\ r \notin before
    BY <1>0 DEF Requests
<1>8. IsFiniteSet(before) /\ (\A p \in before : Seats[p] \in Int)
      /\ (r \in Passengers => Seats[r] \in Int)
    BY SeatsAssumption, FS_Subset
<1> HIDE DEF before, after
<1>9. r \in Passengers /\ CabinOf[r] = c =>
        SumFunctionOnSet(Seats, after) = SumFunctionOnSet(Seats, before) + Seats[r]
  <2> SUFFICES ASSUME r \in Passengers /\ CabinOf[r] = c
               PROVE  SumFunctionOnSet(Seats, after) = SumFunctionOnSet(Seats, before) + Seats[r]
    OBVIOUS
  <2>1. SumFunctionOnSet(Seats, before \cup {r}) = SumFunctionOnSet(Seats, before) + Seats[r]
    BY <1>7, <1>8, SumAdd
  <2>2. SumFunctionOnSet(Seats, after) = SumFunctionOnSet(Seats, before \cup {r})
    BY <1>7
  <2> QED
    BY <2>1, <2>2
<1> QED
    BY <1>1, <1>2, <1>3, <1>4, <1>5, <1>6, <1>9

\* A cancellation owns the flight from its UPDATE on: there is one at a time.
LEMMA OneCancellation ==
    ASSUME IInv, NEW r \in Cancels, NEW q \in Cancels, q # r, pc[r] = "commit"
    PROVE  pc[q] \notin {"release", "commit"}
BY DEF IInv, Ownership, Scheduling, Requests

LEMMA CommitBooked ==
    ASSUME IInv, SeatInv, NEW r \in Requests, Commit(r)
    PROVE  BookedSeatsKept'
<1> SUFFICES ASSUME NEW c \in Cabins
             PROVE  /\ cabin'[c].total - cabin'[c].available = SoldIn(c)' + TakenIn(c)'
                    /\ cabin'[c].available >= 0
    BY DEF BookedSeatsKept
<1>1. /\ cabin'[c] \in Cabin
      /\ cabinOwner[c] # r => cabin'[c] = cabin[c]
      /\ cabinOwner[c] = r => /\ cabin'[c] = cabinRow[c]
                              /\ cabin'[c].available >= 0
                              /\ r \in Resizes \cup Passengers \cup Cancels
                              /\ PendingCabin(r, c)
      /\ r \notin Cancels => SoldIn(c)' = SoldIn(c)
      /\ r \in Cancels => /\ SoldIn(c)' = 0
                          /\ SoldIn(c) > 0 => cabinOwner[c] = r /\ SoldIn(c) = Sold[c]
      /\ r \notin Passengers \/ CabinOf[r] # c => TakenIn(c)' = TakenIn(c)
      /\ r \in Passengers /\ CabinOf[r] = c => TakenIn(c)' = TakenIn(c) + Seats[r]
    BY CommittedCabin
<1>2. /\ cabin[c].total - cabin[c].available = SoldIn(c) + TakenIn(c)
      /\ cabin[c].available >= 0 /\ cabin[c] \in Cabin
    BY DEF SeatInv, BookedSeatsKept, Types
<1>3. /\ SoldIn(c) \in Nat /\ TakenIn(c) \in Nat
      /\ cabin[c].total \in Int /\ cabin[c].available \in Int
      /\ cabin'[c].total \in Int /\ cabin'[c].available \in Int
      /\ r \in Passengers => Seats[r] \in Nat
  <2>1. IsFiniteSet({p \in Passengers : CabinOf[p] = c /\ pc[p] = "committed"})
    BY SeatsAssumption, FS_Subset
  <2>2. TakenIn(c) \in Nat
    BY <2>1, SeatsAssumption, SumNat DEF TakenIn
  <2> QED
    BY <1>1, <1>2, <2>2, SoldInType, SeatsAssumption DEF Cabin
<1>4. CASE cabinOwner[c] # r
  <2>1. r \in Passengers => CabinOf[r] # c
    BY <1>4 DEF SeatInv, CabinsHeld, Commit
  <2>2. r \in Cancels => SoldIn(c) = 0
    BY <1>1, <1>3, <1>4
  <2> QED
    BY <1>1, <1>2, <1>4, <2>1, <2>2
<1>5. CASE cabinOwner[c] = r /\ r \in Resizes
    BY <1>1, <1>2, <1>3, <1>5, KindsAssumption DEF PendingCabin
<1>6. CASE cabinOwner[c] = r /\ r \in Passengers
    BY <1>1, <1>2, <1>3, <1>6, KindsAssumption DEF PendingCabin
<1>7. CASE cabinOwner[c] = r /\ r \in Cancels
    BY <1>1, <1>2, <1>3, <1>7, KindsAssumption DEF PendingCabin
<1> QED
    BY <1>1, <1>4, <1>5, <1>6, <1>7

LEMMA CommitSeats ==
    ASSUME IInv, SeatInv, NEW r \in Requests, Commit(r)
    PROVE  SeatInv'
<1> USE DEF SeatInv
<1>0. /\ pc[r] = "commit" /\ \A q \in Requests : pc'[q] = IF q = r THEN "committed" ELSE pc[q]
      /\ flight' = FlightSeen(r) /\ flightRow' = flightRow /\ cabinRow' = cabinRow
      /\ unbalanced' = (unbalanced \/ ~Balanced') /\ CloseSession(r)
    BY DEF Commit, IInv, Places, Goto
<1>1. /\ \A q \in Requests : \A c \in Cabins : cabinOwner'[c] = q <=> cabinOwner[c] = q /\ q # r
      /\ \A q \in Requests : flightOwner' = q <=> flightOwner = q /\ q # r
      /\ cabinOwner' \in [Cabins -> Requests \cup {Nobody}]
      /\ seen' = [seen EXCEPT ![r] = NewFlight]
      /\ seenCabin' \in [Requests -> Cabin]
      /\ sum' \in [Requests -> Int] /\ todo' \in [Requests -> SUBSET Cabins]
      /\ \A q \in Requests \ {r} :
           seenCabin'[q] = seenCabin[q] /\ sum'[q] = sum[q] /\ todo'[q] = todo[q]
    BY <1>0, LocksFreed
<1>2. \A c \in Cabins :
        /\ cabin'[c] \in Cabin
        /\ cabinOwner[c] # r => cabin'[c] = cabin[c]
        /\ cabinOwner[c] = r => cabin'[c].version = cabin[c].version + 1
        /\ r \notin Cancels => SoldIn(c)' = SoldIn(c)
        /\ r \in Cancels => SoldIn(c)' = 0
    BY CommittedCabin
<1>3. \A c \in Cabins : \A q \in Cancels : q # r /\ pc[q] \in {"release", "commit"} =>
        SoldIn(c)' = SoldIn(c)
    BY <1>0, <1>2, OneCancellation
<1>4. Types'
  <2>1. flight' \in Flight /\ seen' \in [Requests -> Flight]
    BY <1>0, <1>1, NewFlightType DEF Types, FlightSeen
  <2>2. cabin' \in [Cabins -> Cabin]
    BY <1>2 DEF Commit
  <2>3. unbalanced' \in BOOLEAN
    BY <1>0
  <2> QED
    BY <1>0, <1>1, <2>1, <2>2, <2>3 DEF Types
<1>5. CabinOwners'
  <2> SUFFICES ASSUME NEW c \in Cabins, NEW q \in Requests, cabinOwner'[c] = q
               PROVE  /\ q \in Resizes \cup Passengers \cup Cancels
                      /\ cabinRow'[c].version = cabin'[c].version + 1
                      /\ cabinRow'[c].available >= 0
                      /\ PendingCabin(q, c)'
    BY DEF CabinOwners
  <2>1. q # r /\ cabinOwner[c] = q /\ cabin'[c] = cabin[c]
    BY <1>1, <1>2
  <2>2. /\ q \in Resizes \cup Passengers \cup Cancels
        /\ cabinRow[c].version = cabin[c].version + 1 /\ cabinRow[c].available >= 0
        /\ PendingCabin(q, c)
    BY <2>1 DEF CabinOwners
  <2>3. PendingCabin(q, c)'
    BY <1>0, <1>1, <1>3, <2>1, <2>2 DEF PendingCabin
  <2> QED
    BY <1>0, <2>1, <2>2, <2>3
<1>6. CabinsHeld'
  <2>0. \A q \in Resizes \cup Passengers : CabinOf[q] \in Cabins
    BY SeatsAssumption
  <2> QED
    BY <1>0, <1>1, <1>3, <2>0 DEF CabinsHeld
<1>7. CabinPinned'
  <2> SUFFICES ASSUME NEW q \in Resizes, pc'[q] = "resize"
               PROVE  /\ seenCabin'[q].version <= cabin'[CabinOf[q]].version
                      /\ seenCabin'[q].version = cabin'[CabinOf[q]].version =>
                            seenCabin'[q].total = cabin'[CabinOf[q]].total
                      /\ cabin'[CabinOf[q]].version = seenCabin'[q].version =>
                            Seats[q] >= cabin'[CabinOf[q]].total - cabin'[CabinOf[q]].available
    BY DEF CabinPinned
  <2> DEFINE k == CabinOf[q]
  <2>1. q \in Requests /\ q # r /\ pc[q] = "resize" /\ seenCabin'[q] = seenCabin[q] /\ k \in Cabins
    BY <1>0, <1>1, SeatsAssumption DEF Requests
  <2>2. /\ seenCabin[q].version <= cabin[k].version
        /\ seenCabin[q].version \in Nat /\ cabin[k].version \in Nat
    BY <2>1 DEF CabinPinned, Types, Cabin
  <2>3. CASE cabinOwner[k] = r
    <3>1. seenCabin[q].version < cabin'[k].version
        BY <1>2, <2>1, <2>2, <2>3
    <3> QED
        BY <2>1, <2>2, <3>1, <1>2 DEF Cabin
  <2>4. CASE cabinOwner[k] # r
    BY <1>2, <2>1, <2>4 DEF CabinPinned
  <2> QED
    BY <2>3, <2>4
<1>8. Summed'
  <2> SUFFICES ASSUME NEW q \in Resizes, flightOwner' = q
               PROVE  /\ pc'[q] \in {"recheck", "compare", "commit"}
                      /\ pc'[q] = "commit" => flightRow'.capacity = sum'[q]
                      /\ ~unbalanced' /\ pc'[q] \in {"compare", "commit"} =>
                            sum'[q] + cabin'[CabinOf[q]].total = flight'.capacity + Seats[q]
    BY <1>0 DEF Summed
  <2>1. q \in Requests /\ CabinOf[q] \in Cabins
    BY SeatsAssumption DEF Requests
  <2>2. q # r /\ flightOwner = q /\ pc'[q] = pc[q] /\ sum'[q] = sum[q] /\ flight' = flight
    BY <1>0, <1>1, <2>1 DEF FlightSeen
  <2>3. pc[q] \in {"compare", "commit"} => cabinOwner[CabinOf[q]] = q
    BY DEF CabinsHeld, Requests
  <2> QED
    BY <1>0, <1>2, <2>1, <2>2, <2>3 DEF Summed
<1>9. BookedSeatsKept'
    BY CommitBooked
<1> QED
    BY <1>4, <1>5, <1>6, <1>7, <1>8, <1>9

LEMMA StepSeatInv == IInv /\ IInv' /\ SeatInv /\ [Next]_vars => SeatInv'
<1> SUFFICES ASSUME IInv, IInv', SeatInv, [Next]_vars PROVE SeatInv'
    OBVIOUS
<1>1. ASSUME NEW r \in Requests,
             Refuse(r) \/ TooFewSeats(r) \/ BelowBooked(r) \/ CabinConflict(r) \/ OutOfBalance(r)
                \/ FlightConflict(r) \/ DoesNotFit(r) \/ Rollback(r)
      PROVE  SeatInv'
    BY <1>1, AbortSeats DEF Refuse, TooFewSeats, BelowBooked, CabinConflict, OutOfBalance,
        FlightConflict, DoesNotFit, Rollback, Running
<1>2. ASSUME NEW r \in Requests,
             Load(r) \/ ReadCabin(r) \/ SumCabins(r) \/ SumAgain(r) \/ WriteCapacity(r) \/ Compare(r)
                \/ UpdateFlight(r) \/ ReadLayout(r) \/ DefineSeatMap(r)
      PROVE  SeatInv'
    BY <1>2, LoadSeats, ReadCabinSeats, SumSeats, WriteCapacitySeats, CompareSeats,
        UpdateFlightSeats, ReadLayoutSeats, DefineSeatMapSeats
<1>3. ASSUME NEW r \in Requests,
             AdjustSeats(r) \/ ResizeCabin(r) \/ ReleaseSeats(r) \/ Commit(r)
      PROVE  SeatInv'
    BY <1>3, AdjustSeatsSeats, ResizeCabinSeats, ReleaseSeatsSeats, CommitSeats
<1>4. CASE UNCHANGED vars
  <2> USE <1>4 DEF vars, flightVars, cabinVars, ghosts, session, SeatInv
  <2>1. \A c \in Cabins : SoldIn(c)' = SoldIn(c) /\ TakenIn(c)' = TakenIn(c)
    BY DEF SoldIn, TakenIn
  <2>2. Balanced' = Balanced
    BY DEF Balanced
  <2>3. Types' /\ CabinPinned' /\ Summed'
    BY <2>2 DEF Types, CabinPinned, Summed
  <2>4. CabinOwners' /\ CabinsHeld' /\ BookedSeatsKept'
    BY <2>1 DEF CabinOwners, PendingCabin, CabinsHeld, BookedSeatsKept
  <2> QED
    BY <2>3, <2>4
<1> QED
    BY <1>1, <1>2, <1>3, <1>4 DEF Next, Step, Terminating

-----------------------------------------------------------------------------
(* The theorems about seats *)

LEMMA SeatInvariance == Spec => [](IInv /\ SeatInv)
<1>1. IInv /\ SeatInv /\ [Next]_vars => (IInv /\ SeatInv)'
    BY StepIInv, StepSeatInv
<1> QED
    BY <1>1, InitIInv, InitSeatInv, PTL DEF Spec

\* Every variable stays in its type, and a request that has ended, rolled back
\* ones included, has left no row locked (get_db ends every transaction).
THEOREM TypeCorrect == Spec => []TypeOK
<1>1. IInv /\ SeatInv => TypeOK
  <2> SUFFICES ASSUME IInv, SeatInv PROVE TypeOK
    OBVIOUS
  <2>1. ASSUME NEW r \in Requests, pc[r] \notin Running
        PROVE  flightOwner # r /\ \A c \in Cabins : cabinOwner[c] # r
    BY <2>1 DEF IInv, Ownership, SeatInv, CabinOwners, PendingCabin, Running
  <2> QED
    BY <2>1 DEF TypeOK, SeatInv, Types, IInv, FlightRows, Places
<1> QED
    BY <1>1, SeatInvariance, PTL

\* However resizes, passengers and cancellations interleave, the seats that are
\* missing from a cabin are exactly the ones booked, and a cabin never has
\* fewer than are booked: adjust_seat_allocation moves available_seats by the
\* difference, under the version it read.
THEOREM ResizesTakeNoBookedSeat == Spec => []BookedSeatsKept
BY SeatInvariance, PTL DEF SeatInv

\* A resize that wrote the flight commits the sum of the cabins it leaves; the
\* other owners of its row change neither side of the balance.
LEMMA OwnerBalances ==
    ASSUME IInv, SeatInv, NEW r \in Requests, Commit(r), ~unbalanced, flightOwner = r
    PROVE  Balanced'
<1> USE DEF SeatInv
<1> DEFINE before == [c \in Cabins |-> cabin[c].total]
           after == [c \in Cabins |-> cabin'[c].total]
<1>0. flight' = flightRow /\ pc[r] = "commit"
    BY DEF Commit, FlightSeen
<1>1. \A c \in Cabins :
        /\ cabin[c] \in Cabin /\ cabin'[c] \in Cabin
        /\ cabinOwner[c] # r => cabin'[c] = cabin[c]
        /\ cabinOwner[c] = r => cabin'[c] = cabinRow[c] /\ PendingCabin(r, c)
        /\ r \notin Resizes => cabin'[c].total = cabin[c].total
    BY CommittedCabin DEF Types
<1>2. \A c \in Cabins : before[c] \in Int /\ after[c] \in Int
    BY <1>1 DEF Cabin
<1>3. flight.capacity = SumFunctionOnSet(before, Cabins) /\ flight.capacity \in Int
    BY DEF Summed, Balanced, Types, Flight
<1>4. (flight'.capacity = SumFunctionOnSet(after, Cabins)) => Balanced'
    BY DEF Balanced
<1>5. IsFiniteSet(Cabins)
    BY SeatsAssumption
<1>6. CASE r \in Resizes
  <2> DEFINE k == CabinOf[r]
  <2>1. k \in Cabins /\ cabinOwner[k] = r /\ Seats[r] \in Nat
    BY <1>0, <1>6, SeatsAssumption DEF CabinsHeld
  <2>2. after[k] = Seats[r]
    BY <1>1, <1>6, <2>1 DEF PendingCabin
  <2>3. \A c \in Cabins \ {k} : after[c] = before[c]
    BY <1>1, <1>6 DEF PendingCabin
  <2>4. flight'.capacity + before[k] = flight.capacity + Seats[r]
    BY <1>0, <1>6, <2>1 DEF Summed
  <2>5. flight'.capacity \in Int
    BY <1>0 DEF Types, Flight
  <2> HIDE DEF before, after, k
  <2>6. SumFunctionOnSet(after, Cabins) = SumFunctionOnSet(before, Cabins) + (after[k] - before[k])
    BY <1>2, <1>5, <2>1, <2>3, SumChange
  <2>7. before[k] \in Int /\ SumFunctionOnSet(before, Cabins) \in Int
    BY <1>2, <1>5, <2>1, SumType
  <2>8. flight'.capacity = SumFunctionOnSet(after, Cabins)
    BY <1>3, <2>1, <2>2, <2>4, <2>5, <2>6, <2>7
  <2> QED
    BY <1>4, <2>8 DEF before, after
<1>7. CASE r \notin Resizes
  <2>1. flight'.capacity = flight.capacity
    BY <1>0, <1>7 DEF IInv, Ownership, Pending, Updated, Mapped
  <2>2. \A c \in Cabins : after[c] = before[c]
    BY <1>1, <1>7
  <2> HIDE DEF before, after
  <2>3. SumFunctionOnSet(after, Cabins) = SumFunctionOnSet(before, Cabins)
    BY <1>5, <2>2, SumEqual
  <2> QED
    BY <1>3, <1>4, <2>1, <2>3 DEF before, after
<1> QED
    BY <1>6, <1>7

\* "Re-validate the flight-level invariant": the first commit that leaves the
\* cabins of a flight and its total_seats apart is never that of a request that
\* wrote the flight: it has that row from its UPDATE of total_seats on, and the
\* sum it compares after that is the one its commit leaves.
THEOREM WritersLeaveBalance == Spec => WritersKeepBalance
<1>1. ASSUME IInv, SeatInv, [Next]_vars, NEW r \in Requests,
             ~unbalanced, Commits(r), flightOwner = r
      PROVE  Balanced'
  <2>1. Commit(r)
    BY <1>1 DEF Commits, IInv, Places, Next, Step, vars, Load, Refuse, Abort, ReadCabin,
        BelowBooked, ResizeCabin, CabinConflict, SumCabins, WriteCapacity, SumAgain, Compare,
        OutOfBalance, AdjustSeats, TooFewSeats, UpdateFlight, FlightConflict, ReleaseSeats,
        ReadLayout, DoesNotFit, DefineSeatMap, Commit, Rollback, Terminating, Goto
  <2> QED
    BY <1>1, <2>1, OwnerBalances
<1>2. IInv /\ SeatInv /\ [Next]_vars
        => [\A r \in Requests : ~unbalanced /\ Commits(r) /\ flightOwner = r => Balanced']_vars
    BY <1>1
<1> QED
    BY <1>2, SeatInvariance, PTL DEF Spec, WritersKeepBalance

=============================================================================
