------------------------------ MODULE Waitlist ------------------------------
(***************************************************************************)
(* The waitlist on top of SeatHolds: POST /waitlist and POST               *)
(* /admin/waitlist/{id}/promote run beside the hold and confirm requests,  *)
(* on the same cabins.  A join looks at the cabin as a hold request does,  *)
(* lazy expiry included, and queues when the seats do not suffice; a       *)
(* promotion takes seats through hold_seats for a waiting entry.           *)
(*                                                                         *)
(* Joins and promotions are Holders of one leg; a join is also the name of *)
(* the entry it inserts.  An uncommitted entry is in dEntry[r], which is   *)
(* having its row lock.  Every join fits its flight; a flight that is not  *)
(* open refuses it (Rollback).                                             *)
(***************************************************************************)
EXTENDS SeatHolds

CONSTANTS
    Joins,    \* POST /waitlist requests, and the entries they insert
    Promotes, \* promotion requests
    On        \* On[r]: the entry that promotion r names

ASSUME WaitlistAssumption ==
    /\ Joins \cup Promotes \subseteq Holders \ Existing
    /\ Joins \cap Promotes = {} /\ On \in [Promotes -> Joins]
    /\ \A r \in Promotes : Legs[r] = Legs[On[r]]
    /\ \A r \in Joins \cup Promotes : Len(Legs[r]) = 1

VARIABLES
    entry,  \* waitlist_entries.status, committed; "none": no such row
    dEntry, \* per request: the entry it wrote, not yet committed
    given   \* bookings cancelled since, whose seats were given back

entries == <<entry, dEntry>>
waitlistVars == <<vars, entries, given>>

WaitlistInit ==
    /\ Init
    /\ entry = [j \in Joins |-> "none"]
    /\ dEntry = [r \in Requests |-> Nothing]
    /\ given = {}

Wanted(r) == Legs[r][1]

WriteEntry(r, j, value) == dEntry' = [dEntry EXCEPT ![r] = Over([x \in {j} |-> value], @)]

EntryFree(r, j) == \A o \in Requests \ {r} : j \notin DOMAIN dEntry[o]

\* Mutant: the entry stays locked when its request ends.
LeaveEntry(r) == UNCHANGED dEntry

ReleaseEntry(r) == dEntry' = [dEntry EXCEPT ![r] = Nothing]

\* get_db rolls back: expiries, seats, hold and entry.
Undo(r) ==
    /\ Goto(r, "rolled_back")
    /\ CloseSession(r) /\ ReleaseEntry(r)
    /\ UNCHANGED <<now, db, expires, cache, session, entry, given>>

-----------------------------------------------------------------------------
(* join_waitlist *)

BeginJoin(r) == r \in Joins /\ BeginHold(r) /\ UNCHANGED <<entries, given>>

\* get_available_seats read less than the quantity asked for.
Queue(r) ==
    /\ r \in Joins /\ pc[r] = "take"
    /\ SeatsSeen(r, Wanted(r).cabin) < Wanted(r).quantity
    /\ WriteEntry(r, r, "waiting")
    /\ Goto(r, "commit")
    /\ UNCHANGED <<now, db, expires, cache, dSeats, dStatus, session, entry, given>>

\* "please book normally instead of joining the waitlist".
SeatsAreThere(r) ==
    /\ r \in Joins /\ pc[r] = "take"
    /\ SeatsSeen(r, Wanted(r).cabin) >= Wanted(r).quantity
    /\ Undo(r)

-----------------------------------------------------------------------------
(* promote_entry *)

\* The entry is read once, here.
BeginPromote(r) ==
    /\ r \in Promotes /\ entry[On[r]] = "waiting"
    /\ BeginHold(r)
    /\ UNCHANGED <<entries, given>>

\* No such entry, or it is not waiting.
NotWaiting(r) ==
    /\ r \in Promotes /\ pc[r] = "idle" /\ entry[On[r]] # "waiting"
    /\ Undo(r)

\* Mutant: the hold is inserted although nobody counted its seats.
PromoteUncounted(r) ==
    /\ r \in Promotes /\ pc[r] = "take"
    /\ WriteStatus(r, {<<r, 1>>}, "active")
    /\ Goto(r, "commit")
    /\ UNCHANGED <<now, db, expires, cache, dSeats, session, entries, given>>

PromoteSeats(r) == r \in Promotes /\ TakeSeats(r) /\ UNCHANGED <<entries, given>>

\* Mutant: the ConflictError is swallowed and the entry promoted all the same.
PromoteWithoutSeats(r) ==
    /\ r \in Promotes /\ pc[r] = "take"
    /\ NotAdjusted(r, Wanted(r).cabin, -Wanted(r).quantity)
    /\ Goto(r, "commit")
    /\ UNCHANGED <<now, db, expires, cache, dSeats, dStatus, session, entries, given>>

\* "it stays queued".
SeatsGone(r) ==
    /\ r \in Promotes /\ pc[r] = "take"
    /\ NotAdjusted(r, Wanted(r).cabin, -Wanted(r).quantity)
    /\ Undo(r)

Unmarked(r) == r \in Promotes /\ dEntry[r] = Nothing

\* The flush goes by primary key: the entry's current status is not tested.
MarkPromoted(r) ==
    /\ pc[r] = "commit" /\ Unmarked(r) /\ EntryFree(r, On[r])
    /\ WriteEntry(r, On[r], "promoted")
    /\ UNCHANGED <<now, db, expires, cache, dSeats, dStatus, pc, session, entry, given>>

-----------------------------------------------------------------------------
(* What they share, and the other requests *)

Expire(r) ==
    /\ SelectStaleHolds(r) \/ ReturnSeats(r) \/ FlushExpired(r)
    /\ UNCHANGED <<entries, given>>

CommitEntry(r) ==
    /\ Commit(r) /\ ~Unmarked(r)
    /\ entry' = Over(dEntry[r], entry)
    /\ ReleaseEntry(r)
    /\ UNCHANGED given

UndoRunning(r) == pc[r] \in Running /\ Undo(r)

\* Hold and confirm requests, as in SeatHolds.
BookingStep(r) ==
    /\ r \notin Joins \cup Promotes
    /\ \/ TakeSeats(r) \/ RefuseSeats(r) \/ ReleaseHolds(r)
       \/ CheckHolds(r) \/ ConvertHolds(r)
    /\ UNCHANGED <<entries, given>>

\* A customer or the airline cancels a booking (Cancellations has the
\* statements): the seats are free again, which is what promotions wait for.
CancelSale(k) ==
    LET cabins == {Cabin(h) : h \in Group(Target[k])} IN
    /\ k \in booked \ given
    /\ \A c \in cabins : CabinFree(k, c)
    /\ seats' = [c \in Cabins |-> seats[c] + SoldBy(k, c)]
    /\ commits' = [c \in Cabins |-> commits[c] + IF c \in cabins THEN 1 ELSE 0]
    /\ given' = given \cup {k}
    /\ UNCHANGED <<now, status, booked, expires, cache, dSeats, dStatus, pc, session, entries>>

WaitlistStep(r) ==
    \/ Expire(r) \/ Queue(r) \/ SeatsAreThere(r)
    \/ PromoteSeats(r) \/ SeatsGone(r) \/ MarkPromoted(r)
    \/ BookingStep(r) \/ CommitEntry(r)

WaitlistNext ==
    \/ \E r \in Requests :
        \/ BeginJoin(r) \/ BeginPromote(r) \/ NotWaiting(r)
        \/ WaitlistStep(r) \/ UndoRunning(r)
    \/ \E r \in Requests \ (Joins \cup Promotes) :
        /\ BeginHold(r) \/ Replay(r) \/ LoadHolds(r) \/ RefuseItem(r)
        /\ UNCHANGED <<entries, given>>
    \/ \E k \in Confirmers : CancelSale(k)
    \/ (Forget \/ Tick \/ Terminating) /\ UNCHANGED <<entries, given>>

WaitlistSpec == WaitlistInit /\ [][WaitlistNext]_waitlistVars

-----------------------------------------------------------------------------
(* Properties *)

\* Every variable stays in its type; only running requests have entries locked.
WaitlistTypeOK ==
    /\ TypeOK
    /\ entry \in [Joins -> {"none", "waiting", "promoted"}]
    /\ \A r \in Requests :
        /\ DOMAIN dEntry[r] \subseteq Joins
        /\ \A j \in DOMAIN dEntry[r] : dEntry[r][j] \in {"waiting", "promoted"}
        /\ pc[r] \notin Running => dEntry[r] = Nothing

PromotionsOf(j) == {p \in Promotes : On[p] = j /\ status[<<p, 1>>] # "none"}

\* Entry and hold go together, whatever races for the seats: an entry is
\* promoted when a promotion of it has a hold, and a promotion that found no
\* seats leaves it waiting and holds nothing.
PromotedWithHold == \A j \in Joins : entry[j] = "promoted" <=> PromotionsOf(j) # {}

Freed(c) == SumFunctionOnSet([k \in Confirmers |-> SoldBy(k, c)], given)

\* README "Promotion calls the exact same hold_seats path as a normal booking":
\* however promotions of one entry or of several race each other, hold requests
\* and cancellations for the seats, each seat is free, held or sold once.
PromotionsTakeFreeSeats ==
    \A c \in Cabins : seats[c] + Held(c) + Sold(c) - Freed(c) = Total[c]

\* The seats of a cabin as the booking services promise them, a cancelled booking
\* no longer counting as sold.
Stocks == INSTANCE SeatInventory WITH
    SeatClasses <- Cabins, free <- seats,
    held <- [c \in Cabins |-> Held(c)], sold <- [c \in Cabins |-> Sold(c) - Freed(c)]

\* README "Promotion calls the exact same hold_seats path as a normal booking":
\* promotions included, no seat is taken that was not free, even one that was
\* sold before, and only seats that were held are sold.  (Only what changes
\* committed rows can change the counts.)
StocksMove == [][db' # db \/ given' # given => Stocks!Move]_(Stocks!vars)

\* README "n8n calling the same endpoint later cannot race the API" and "Waitlist
\* entry is not waiting": an entry is given seats once.
PromotedOnce == \A j \in Joins : Cardinality(PromotionsOf(j)) <= 1

=============================================================================
