----------------------------- MODULE SeatHolds -----------------------------
(***************************************************************************)
(* Concurrent POST /bookings/hold and POST /bookings/confirm requests on   *)
(* shared cabins, statement by statement: lazy expiry, the seat count, the *)
(* holds of a group, the confirmation that converts them, the idempotency  *)
(* cache.  Every request is one transaction of PostgreSQL at READ          *)
(* COMMITTED with one SQLAlchemy session.                                  *)
(*                                                                         *)
(* An uncommitted row is in dSeats[r] or dStatus[r]; having it there is    *)
(* having its row lock.  adjust_available_seats is one step here, which    *)
(* SeatLock justifies (ImplementsCounter), except that it may give up      *)
(* once MaxRetries other transactions committed to the cabin meanwhile.    *)
(* A request is also the key of the group it creates: a hold is named      *)
(* <<request, leg>>.  Flights are open and every fare exists (Bookings     *)
(* has those checks); a cabin has one fare.                                *)
(***************************************************************************)
EXTENDS Integers, Sequences, FiniteSetsExt, TLC, Rows

CONSTANTS
    Cabins,      \* seat_classes rows
    Holders,     \* hold requests, and the groups they create
    Confirmers,  \* confirm requests
    Legs,        \* Legs[g]: the [cabin, quantity] items of a hold request
    Target,      \* Target[r]: the group a confirm request names
    Key,         \* Key[r]: its Idempotency-Key, or NoKey
    NoKey,
    After,       \* After[r]: requests whose answers r's client has waited for
    Existing,    \* groups already held at time 0
    Total,       \* Total[c]: seats of the cabin
    HoldMinutes, \* settings.seat_hold_minutes
    MaxRetries,  \* policy.MAX_OPTIMISTIC_LOCK_RETRIES
    MaxTime      \* bound: the clock stops here

ASSUME RequestsAssumption ==
    /\ IsFiniteSet(Holders) /\ IsFiniteSet(Confirmers)
    /\ Holders \cap Confirmers = {} /\ Existing \subseteq Holders
    /\ \A g \in Holders :
        Legs[g] \in Seq([cabin : Cabins, quantity : Nat]) /\ Legs[g] # <<>>
ASSUME PolicyAssumption ==
    Total \in [Cabins -> Int] /\ HoldMinutes \in Nat /\ MaxRetries \in Nat /\ MaxTime \in Nat

Requests == Holders \cup Confirmers
Holds == UNION {{<<g, i>> : i \in DOMAIN Legs[g]} : g \in Holders}
Group(g) == {h \in Holds : h[1] = g}
Cabin(h) == Legs[h[1]][h[2]].cabin
Quantity(h) == Legs[h[1]][h[2]].quantity
QuantityOf(S) == SumFunctionOnSet([h \in Holds |-> Quantity(h)], S)

VARIABLES
    now,      \* utcnow()
    seats,    \* seat_classes.available_seats, committed
    commits,  \* how many commits changed each cabin's row
    status,   \* seat_holds.status, committed; "none": no such row
    expires,  \* seat_holds.expires_at
    booked,   \* confirm requests whose booking is committed
    cache,    \* idempotency keys with a stored response
    dSeats,   \* per request: available_seats it wrote, not yet committed
    dStatus,  \* per request: hold rows it wrote, not yet committed
    pc,       \* where each request stands
    leg,      \* the item a hold request works on
    left,     \* cabins a confirm request has yet to expire
    cabin,    \* the cabin expire_stale_holds works on
    stale,    \* the holds its SELECT returned
    todo,     \* those whose seats it has not given back yet
    mem,      \* statuses of the group's holds in a confirm request's session
    since,    \* commits to the cabin when the current adjust call began
    dropped   \* history: stale holds whose seats it could not give back

db == <<seats, commits, status, booked>>
session == <<leg, left, cabin, stale, todo, mem, since, dropped>>
vars == <<now, db, expires, cache, dSeats, dStatus, pc, session>>

HoldStatus == {"active", "expired", "released", "converted"}
Ended == {"committed", "refused", "rolled_back", "replayed"}
Running == {"select", "return", "flush", "take", "release", "refuse",
            "check", "convert", "commit"}

Init ==
    /\ now = 0
    /\ commits = [c \in Cabins |-> 0]
    /\ seats = [c \in Cabins |->
                  Total[c] - QuantityOf({h \in Holds : h[1] \in Existing /\ Cabin(h) = c})]
    /\ status = [h \in Holds |-> IF h[1] \in Existing THEN "active" ELSE "none"]
    /\ expires = [h \in Holds |-> IF h[1] \in Existing THEN HoldMinutes ELSE 0]
    /\ booked = {} /\ cache = {}
    /\ dSeats = [r \in Requests |-> Nothing]
    /\ dStatus = [r \in Requests |-> Nothing]
    /\ pc = [r \in Requests |-> IF r \in Existing THEN "committed" ELSE "idle"]
    /\ leg = [r \in Holders |-> 1]
    /\ left = [r \in Confirmers |-> {}]
    /\ cabin = [r \in Requests |-> CHOOSE c \in Cabins : TRUE]
    /\ stale = [r \in Requests |-> {}]
    /\ todo = [r \in Requests |-> {}]
    /\ mem = [r \in Confirmers |-> Nothing]
    /\ since = [r \in Requests |-> 0]
    /\ dropped = [r \in Requests |-> {}]

-----------------------------------------------------------------------------
(* Rows as one request sees them, and the seat count *)

SeatsSeen(r, c) == Over(dSeats[r], seats)[c]
StatusSeen(r, h) == Over(dStatus[r], status)[h]

CabinFree(r, c) == \A o \in Requests \ {r} : c \notin DOMAIN dSeats[o]
HoldsFree(r, S) == \A o \in Requests \ {r} : S \cap DOMAIN dStatus[o] = {}

WriteStatus(r, S, value) ==
    dStatus' = [dStatus EXCEPT ![r] = Over([h \in S |-> value], @)]

\* Mutant: the seats are taken whether they are there or not.
AdjustedUnasked(r, c, delta) ==
    /\ CabinFree(r, c)
    /\ dSeats' = [dSeats EXCEPT ![r] = Over([x \in {c} |-> SeatsSeen(r, c) + delta], @)]

\* Mutant: True is returned although no row was updated.
AdjustedUnread(r, c, delta) ==
    /\ CabinFree(r, c)
    /\ dSeats' = IF SeatsSeen(r, c) + delta < 0 THEN dSeats
                 ELSE [dSeats EXCEPT ![r] = Over([x \in {c} |-> SeatsSeen(r, c) + delta], @)]

\* adjust_available_seats returned True.
Adjusted(r, c, delta) ==
    /\ CabinFree(r, c)
    /\ SeatsSeen(r, c) + delta >= 0
    /\ dSeats' = [dSeats EXCEPT ![r] = Over([x \in {c} |-> SeatsSeen(r, c) + delta], @)]

\* It returned False: too few seats, or every attempt lost a race.
OutOfAttempts(r, c) == c \notin DOMAIN dSeats[r] /\ commits[c] - since[r] >= MaxRetries
NotAdjusted(r, c, delta) == SeatsSeen(r, c) + delta < 0 \/ OutOfAttempts(r, c)

\* Mutant: a session is left open when its request ends.
LeaveSession(r) == UNCHANGED <<dSeats, dStatus>>

\* A session that ends gives up its locks.
CloseSession(r) ==
    /\ dSeats' = [dSeats EXCEPT ![r] = Nothing]
    /\ dStatus' = [dStatus EXCEPT ![r] = Nothing]

Goto(r, label) == pc' = [pc EXCEPT ![r] = label]

\* The adjust call about to start counts lost races from here.
BeginAdjust(r, c) == since' = [since EXCEPT ![r] = commits[c]]

-----------------------------------------------------------------------------
(* expire_stale_holds, called by both kinds of request *)

CabinsToExpire(r) == IF r \in Holders THEN {Legs[r][leg[r]].cabin} ELSE left[r]

IsStale(r, c, h) == StatusSeen(r, h) = "active" /\ Cabin(h) = c /\ expires[h] < now

AfterExpiry(r) ==
    IF r \in Holders THEN "take"
    ELSE IF left'[r] = {} THEN "check" ELSE "select"

SelectStaleHolds(r) ==
    /\ pc[r] = "select"
    /\ \E c \in CabinsToExpire(r) :
        LET found == {h \in Holds : IsStale(r, c, h)} IN
        /\ cabin' = [cabin EXCEPT ![r] = c]
        /\ stale' = [stale EXCEPT ![r] = found]
        /\ todo' = [todo EXCEPT ![r] = found]
        /\ left' = IF r \in Holders THEN left ELSE [left EXCEPT ![r] = @ \ {c}]
        /\ Goto(r, IF found = {} THEN AfterExpiry(r) ELSE "return")
        /\ BeginAdjust(r, c)
    /\ UNCHANGED <<now, db, expires, cache, dSeats, dStatus, leg, mem, dropped>>

\* Mutant: the loop ends after the first hold.
ReturnFirst(r) ==
    /\ pc[r] = "return"
    /\ \E h \in todo[r] : Adjusted(r, cabin[r], Quantity(h))
    /\ todo' = [todo EXCEPT ![r] = {}]
    /\ Goto(r, "flush")
    /\ BeginAdjust(r, cabin[r])
    /\ UNCHANGED <<now, db, expires, cache, dStatus, leg, left, cabin, stale, mem, dropped>>

\* The answer of adjust_available_seats is not looked at.
ReturnSeats(r) ==
    /\ pc[r] = "return"
    /\ \E h \in todo[r] :
        /\ \/ Adjusted(r, cabin[r], Quantity(h)) /\ UNCHANGED dropped
           \/ /\ OutOfAttempts(r, cabin[r]) /\ UNCHANGED dSeats
              /\ dropped' = [dropped EXCEPT ![r] = @ \cup {h}]
        /\ todo' = [todo EXCEPT ![r] = @ \ {h}]
        /\ Goto(r, IF todo[r] = {h} THEN "flush" ELSE "return")
    /\ BeginAdjust(r, cabin[r])
    /\ UNCHANGED <<now, db, expires, cache, dStatus, leg, left, cabin, stale, mem>>

\* UPDATE seat_holds by primary key: the row's current status is not tested.
FlushExpired(r) ==
    /\ pc[r] = "flush"
    /\ HoldsFree(r, stale[r])
    /\ WriteStatus(r, stale[r], "expired")
    /\ mem' = IF r \in Holders THEN mem
              ELSE [mem EXCEPT ![r] =
                      [h \in DOMAIN @ |-> IF h \in stale[r] THEN "expired" ELSE @[h]]]
    /\ stale' = [stale EXCEPT ![r] = {}]
    /\ left' = left
    /\ Goto(r, AfterExpiry(r))
    /\ BeginAdjust(r, cabin[r])
    /\ UNCHANGED <<now, db, expires, cache, dSeats, leg, cabin, todo, dropped>>

-----------------------------------------------------------------------------
(* hold_booking *)

BeginHold(r) ==
    /\ r \in Holders /\ pc[r] = "idle"
    /\ Goto(r, "select")
    /\ UNCHANGED <<now, db, expires, cache, dSeats, dStatus, session>>

\* hold_seats: take the seats and insert the hold, then go on to the next item.
TakeSeats(r) ==
    LET h == <<r, leg[r]>> IN
    /\ pc[r] = "take"
    /\ Adjusted(r, Cabin(h), -Quantity(h))
    /\ WriteStatus(r, {h}, "active")
    /\ expires' = [expires EXCEPT ![h] = now + HoldMinutes]
    /\ IF leg[r] < Len(Legs[r])
       THEN leg' = [leg EXCEPT ![r] = @ + 1] /\ Goto(r, "select")
       ELSE leg' = leg /\ Goto(r, "commit")
    /\ UNCHANGED <<now, db, cache, left, cabin, stale, todo, mem, since, dropped>>

RefuseSeats(r) ==
    LET h == <<r, leg[r]>> IN
    /\ pc[r] = "take"
    /\ NotAdjusted(r, Cabin(h), -Quantity(h))
    /\ Goto(r, "release")
    /\ UNCHANGED <<now, db, expires, cache, dSeats, dStatus, session>>

\* The item cannot be held at all: its flight is not open (status, cutoff) or
\* its cabin or fare is unknown.  Checked before the cabin is looked at.
RefuseItem(r) ==
    /\ r \in Holders /\ pc[r] = "select"
    /\ Goto(r, "release")
    /\ UNCHANGED <<now, db, expires, cache, dSeats, dStatus, session>>

\* release_holds of the siblings already held.  The request still has the row
\* locks it took for them, so none of these statements waits or loses a race.
\* Mutant: the siblings are not released.
NoneCreated(r) == {}

Created(r) == {h \in Group(r) : StatusSeen(r, h) = "active"}

ReleaseHolds(r) ==
    /\ pc[r] = "release"
    /\ dSeats' = [dSeats EXCEPT ![r] =
            [c \in DOMAIN @ |-> @[c] + QuantityOf({h \in Created(r) : Cabin(h) = c})]]
    /\ WriteStatus(r, Created(r), "released")
    /\ Goto(r, "refuse")
    /\ UNCHANGED <<now, db, expires, cache, session>>

-----------------------------------------------------------------------------
(* confirm_booking *)

\* A client that retries sends the retry once the first try was answered.
Sent(r) == \A q \in After[r] : pc[q] \in Ended

\* The stored response is returned and nothing else happens.
Replay(r) ==
    /\ r \in Confirmers /\ pc[r] = "idle" /\ Sent(r)
    /\ Key[r] \in cache
    /\ Goto(r, "replayed")
    /\ UNCHANGED <<now, db, expires, cache, dSeats, dStatus, session>>

\* SELECT the group's holds; an unknown group is a 404.
LoadHolds(r) ==
    LET group == {h \in Group(Target[r]) : status[h] # "none"} IN
    /\ r \in Confirmers /\ pc[r] = "idle" /\ Sent(r)
    /\ Key[r] \notin cache
    /\ mem' = [mem EXCEPT ![r] = [h \in group |-> status[h]]]
    /\ left' = [left EXCEPT ![r] = {Cabin(h) : h \in group}]
    /\ Goto(r, IF group = {} THEN "rolled_back" ELSE "select")
    /\ UNCHANGED <<now, db, expires, cache, dSeats, dStatus, leg, cabin, stale, todo, since, dropped>>

\* Mutant: only the time is checked, not the status.
LiveByTime(r) == \A h \in DOMAIN mem[r] : expires[h] >= now

\* Every hold active and unexpired, as far as this session knows; then the
\* mock payment and the INSERTs, which nobody sees before the commit.
Live(r) == \A h \in DOMAIN mem[r] : mem[r][h] = "active" /\ expires[h] >= now

CheckHolds(r) ==
    /\ pc[r] = "check"
    /\ IF Live(r)
       THEN Goto(r, "convert") /\ UNCHANGED <<dSeats, dStatus>>
       ELSE /\ Goto(r, "rolled_back")
            /\ CloseSession(r)
    /\ UNCHANGED <<now, db, expires, cache, session>>

\* Mutant: only the holds of the cabin looked at last are converted.
ConvertedOneCabin(r) == {h \in DOMAIN mem[r] : Cabin(h) = cabin[r]}

Converted(r) == {h \in DOMAIN mem[r] : mem[r][h] = "active"}

\* convert_hold_to_booking's flush (by primary key), and the response stored
\* in the idempotency cache before the transaction commits.
ConvertHolds(r) ==
    /\ pc[r] = "convert"
    /\ HoldsFree(r, Converted(r))
    /\ WriteStatus(r, Converted(r), "converted")
    /\ cache' = cache \cup ({Key[r]} \ {NoKey})
    /\ Goto(r, "commit")
    /\ UNCHANGED <<now, db, expires, dSeats, session>>

-----------------------------------------------------------------------------
(* The end of a request, and the rest of the world *)

\* get_db's commit, or hold_booking's own commit before it raises the 409.
Commit(r) ==
    /\ pc[r] \in {"commit", "refuse"}
    /\ Goto(r, IF pc[r] = "commit" THEN "committed" ELSE "refused")
    /\ seats' = Over(dSeats[r], seats)
    /\ commits' = [c \in Cabins |-> commits[c] + IF c \in DOMAIN dSeats[r] THEN 1 ELSE 0]
    /\ status' = Over(dStatus[r], status)
    /\ booked' = booked \cup ({r} \cap Confirmers)
    /\ CloseSession(r)
    /\ UNCHANGED <<now, expires, cache, session>>

\* An exception anywhere: get_db rolls back.
Rollback(r) ==
    /\ pc[r] \in Running
    /\ Goto(r, "rolled_back")
    /\ CloseSession(r)
    /\ UNCHANGED <<now, db, expires, cache, session>>

\* r's next statement needs a row that o has written.
WaitsFor(r, o) ==
    /\ r # o
    /\ \/ pc[r] = "return" /\ cabin[r] \in DOMAIN dSeats[o]
       \/ /\ pc[r] = "take" /\ Legs[r][leg[r]].cabin \in DOMAIN dSeats[o]
          /\ SeatsSeen(r, Legs[r][leg[r]].cabin) >= Legs[r][leg[r]].quantity
       \/ pc[r] = "flush" /\ stale[r] \cap DOMAIN dStatus[o] # {}
       \/ pc[r] = "convert" /\ Converted(r) \cap DOMAIN dStatus[o] # {}

Deadlocked(S) == S # {} /\ \A r \in S : \E o \in S : WaitsFor(r, o)

\* PostgreSQL aborts one transaction of a cycle.
DeadlockVictim(r) ==
    /\ \E S \in SUBSET Requests : r \in S /\ Deadlocked(S)
    /\ Rollback(r)

\* The cache is lost on a restart, or an entry reaches its TTL.
Forget ==
    /\ cache # {}
    /\ \E k \in cache : cache' = cache \ {k}
    /\ UNCHANGED <<now, db, expires, dSeats, dStatus, pc, session>>

Tick ==
    /\ now < MaxTime
    /\ now' = now + 1
    /\ UNCHANGED <<db, expires, cache, dSeats, dStatus, pc, session>>

Terminating == (\A r \in Requests : pc[r] \in Ended) /\ UNCHANGED vars

Step(r) ==
    \/ SelectStaleHolds(r) \/ ReturnSeats(r) \/ FlushExpired(r)
    \/ TakeSeats(r) \/ RefuseSeats(r) \/ ReleaseHolds(r)
    \/ CheckHolds(r) \/ ConvertHolds(r) \/ Commit(r)

Next ==
    \/ \E r \in Requests :
        \/ BeginHold(r) \/ Replay(r) \/ LoadHolds(r)
        \/ RefuseItem(r) \/ Step(r) \/ Rollback(r)
    \/ Forget \/ Tick \/ Terminating

Spec == Init /\ [][Next]_vars

\* A handler whose statement has completed goes on; PostgreSQL breaks cycles.
Fairness ==
    /\ \A r \in Requests : WF_vars(Step(r))
    /\ WF_vars(\E r \in Requests : DeadlockVictim(r))

FairSpec == Spec /\ Fairness

-----------------------------------------------------------------------------
(* Properties *)

\* Every variable stays in its type; locks are only held by running requests.
TypeOK ==
    /\ now \in 0 .. MaxTime
    /\ seats \in [Cabins -> Int] /\ commits \in [Cabins -> Nat]
    /\ status \in [Holds -> HoldStatus \cup {"none"}]
    /\ expires \in [Holds -> 0 .. MaxTime + HoldMinutes]
    /\ booked \subseteq Confirmers
    /\ pc \in [Requests -> Running \cup Ended \cup {"idle"}]
    /\ \A r \in Requests :
        /\ DOMAIN dSeats[r] \subseteq Cabins
        /\ DOMAIN dStatus[r] \subseteq Holds
        /\ \A h \in DOMAIN dStatus[r] : dStatus[r][h] \in HoldStatus
        /\ pc[r] \notin Running => dSeats[r] = Nothing /\ dStatus[r] = Nothing

Held(c) == QuantityOf({h \in Holds : status[h] = "active" /\ Cabin(h) = c})
SoldBy(r, c) == QuantityOf({h \in Group(Target[r]) : Cabin(h) = c})
Sold(c) == SumFunctionOnSet([r \in Confirmers |-> SoldBy(r, c)], booked)

\* README "Seats are never oversold": held and sold seats fit in the cabin.
NeverOversold == \A c \in Cabins : Held(c) + Sold(c) <= Total[c]

\* Every seat is free, held or sold, exactly once: what hold, expiry, release
\* and confirm together keep as long as no hold lapses under a request.
SeatsConserved == \A c \in Cabins : seats[c] + Held(c) + Sold(c) = Total[c]

\* The seats of a cabin as the booking services promise them.
Inventory == INSTANCE SeatInventory WITH
    SeatClasses <- Cabins, free <- seats,
    held <- [c \in Cabins |-> Held(c)], sold <- [c \in Cabins |-> Sold(c)]

\* The statements of concurrent requests move seats as SeatInventory says: no
\* seat is taken that was not free, and only seats that were held are sold.
InventoryMoves == [][Inventory!Move]_(Inventory!vars)

\* README "an abandoned hold frees its seats": no interleaving loses a seat.
NoSeatLost == \A c \in Cabins : seats[c] + Held(c) + Sold(c) >= Total[c]

\* The seats of the holds that are expired although they were not given back.
Dropped == UNION {dropped[r] : r \in {q \in Requests : pc[q] \in {"committed", "refused"}}}
Lost(c) == QuantityOf({h \in Dropped : Cabin(h) = c})

\* README "an abandoned hold frees its seats": a seat is lost only with a hold
\* whose expiry lost every attempt to give it back and was committed all the
\* same.  Nothing else loses one: holds that lapse, two expiries of one hold,
\* confirmations of a hold that expires, rollbacks.
OnlyRacesLoseSeats ==
    \A c \in Cabins : seats[c] + Held(c) + Sold(c) + Lost(c) >= Total[c]

\* README "Group and multi-leg bookings are all-or-nothing": a hold request
\* that succeeded left all its holds, one that failed leaves none behind.
AllOrNothing ==
    \A r \in Holders :
        IF pc[r] = "committed"
        THEN \A h \in Group(r) : status[h] \notin {"none", "released"}
        ELSE \A h \in Group(r) : status[h] \in {"none", "released", "expired"}

\* A held group is sold at most once ("the same Idempotency-Key twice is a
\* no-op", routers/bookings.py:41; test_hold_cannot_be_confirmed_twice).
SoldOnce == \A r, s \in booked : Target[r] = Target[s] => r = s

\* A sold group is not held as well: even when its holds lapse and others expire
\* them between the check of confirm_booking and its conversion, none of them is
\* active after the sale, for expire_stale_holds or confirm_booking to select.
SoldIsNotHeld == \A r \in booked : \A h \in Group(Target[r]) : status[h] # "active"

\* Every request that started is answered: row locks are always given up.
RequestsEnd == \A r \in Requests : pc[r] \in Running ~> pc[r] \in Ended

=============================================================================
