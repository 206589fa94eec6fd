------------------------------ MODULE SeatLock ------------------------------
(***************************************************************************)
(* seat_service.adjust_available_seats, statement by statement: requests   *)
(* read a seat_classes row's (version, available_seats), then UPDATE it    *)
(* under "WHERE version = read", retry when rowcount is 0, and commit or   *)
(* roll back the whole transaction.                                        *)
(*                                                                         *)
(* The database is PostgreSQL at READ COMMITTED.  A SELECT returns the     *)
(* request's own uncommitted row, else the committed one.  An UPDATE whose *)
(* WHERE matches takes the row lock and keeps it until the transaction     *)
(* ends; a second writer waits, then re-evaluates its WHERE, so a commit   *)
(* it waited for gives rowcount 0.                                         *)
(***************************************************************************)
EXTENDS Integers

CONSTANTS
    Requests,    \* HTTP requests, each one database transaction
    NoRequest,   \* "nobody holds the row lock"
    Seats,       \* available_seats of the row at the start
    Deltas,      \* the changes callers ask for
    MaxRetries,  \* policy.MAX_OPTIMISTIC_LOCK_RETRIES
    MaxCalls     \* bound: calls one request makes

ASSUME SeatsAssumption == Seats \in Nat
ASSUME NoRequestAssumption == NoRequest \notin Requests
ASSUME DeltasAssumption == Deltas \subseteq Int
ASSUME RetriesAssumption == MaxRetries \in Nat /\ MaxCalls \in Nat

VARIABLES
    committed,  \* the row every other transaction sees
    row,        \* the row as last written, committed or not
    owner,      \* the request holding the row lock, or NoRequest
    pc,         \* where each request stands
    delta,      \* the argument of its current call
    seen,       \* the row its latest SELECT returned
    tries,      \* rowcount-0 UPDATEs of its current call
    answer,     \* what its latest call returned
    calls,      \* calls it has made
    commits,    \* history: how many commits have changed the row
    since       \* history: commits when its current call began

history == <<commits, since>>
vars == <<committed, row, owner, pc, delta, seen, tries, answer, calls, history>>

Row == [version : Nat, available : Int]
FreshRow == [version |-> 1, available |-> Seats]
Answers == {"none", "pending", "applied", "refused"}
Running == {"idle", "read", "update"}
Ended == {"committed", "rolled_back"}

Visible(r) == IF owner = r THEN row ELSE committed

Init ==
    /\ committed = FreshRow
    /\ row = FreshRow
    /\ owner = NoRequest
    /\ pc = [r \in Requests |-> "idle"]
    /\ delta = [r \in Requests |-> 0]
    /\ seen = [r \in Requests |-> FreshRow]
    /\ tries = [r \in Requests |-> 0]
    /\ answer = [r \in Requests |-> "none"]
    /\ calls = [r \in Requests |-> 0]
    /\ commits = 0
    /\ since = [r \in Requests |-> 0]

-----------------------------------------------------------------------------
(* The call, its SELECT and its UPDATE *)

\* The number of times the loop body runs: max(1, max_retries).
Attempts == IF MaxRetries > 1 THEN MaxRetries ELSE 1

\* delta == 0 returns True before any statement is sent.
Call(r, d) ==
    /\ pc[r] = "idle"
    /\ calls[r] < MaxCalls
    /\ calls' = [calls EXCEPT ![r] = @ + 1]
    /\ IF d = 0
       THEN /\ answer' = [answer EXCEPT ![r] = "applied"]
            /\ UNCHANGED <<pc, delta, tries, since>>
       ELSE /\ pc' = [pc EXCEPT ![r] = "read"]
            /\ delta' = [delta EXCEPT ![r] = d]
            /\ tries' = [tries EXCEPT ![r] = 0]
            /\ since' = [since EXCEPT ![r] = commits]
            /\ answer' = [answer EXCEPT ![r] = "pending"]
    /\ UNCHANGED <<committed, row, owner, seen, commits>>

Return(r, result) ==
    /\ pc' = [pc EXCEPT ![r] = "idle"]
    /\ answer' = [answer EXCEPT ![r] = result]

\* Taking more seats than the SELECT returned fails without an UPDATE.
TooFew(r) == delta[r] < 0 /\ Visible(r).available < -delta[r]

Read(r) ==
    /\ pc[r] = "read"
    /\ seen' = [seen EXCEPT ![r] = Visible(r)]
    /\ IF TooFew(r)
       THEN Return(r, "refused")
       ELSE pc' = [pc EXCEPT ![r] = "update"] /\ UNCHANGED answer
    /\ UNCHANGED <<committed, row, owner, delta, tries, calls, history>>

\* Mutant: WHERE id = :id alone.
WhereById(r) == TRUE

\* The WHERE clause of the UPDATE.
Where(r) ==
    /\ Visible(r).version = seen[r].version
    /\ delta[r] < 0 => Visible(r).available >= -delta[r]

\* Mutant: the version is not incremented.
UpdatedSameVersion(r) == [Visible(r) EXCEPT !.available = @ + delta[r]]

\* SET available_seats = available_seats + delta, version = version + 1.
Updated(r) ==
    [version |-> Visible(r).version + 1,
     available |-> Visible(r).available + delta[r]]

\* rowcount = 1.
Hit(r) ==
    /\ pc[r] = "update"
    /\ owner \in {r, NoRequest}
    /\ Where(r)
    /\ row' = Updated(r)
    /\ owner' = r
    /\ Return(r, "applied")
    /\ UNCHANGED <<committed, delta, seen, tries, calls, history>>

\* Mutant: falling out of the loop counts as success.
OutOfAttemptsTrue == "applied"

\* The answer once the loop has run out of attempts.
OutOfAttempts == "refused"

\* Mutant: one attempt too many.
LastAttemptLate(r) == tries[r] >= Attempts

LastAttempt(r) == tries[r] + 1 >= Attempts

\* Mutant: a retry sends the UPDATE again without reading the row again.
RetryFromUpdate == "update"

\* A retry starts over with the SELECT.
RetryFrom == "read"

\* Mutant: a retry with the stale version that is not counted as an attempt.
MissUncounted(r) == pc[r] = "update" /\ ~Where(r) /\ UNCHANGED vars

\* rowcount = 0: another transaction committed since the SELECT.
Miss(r) ==
    /\ pc[r] = "update"
    /\ ~Where(r)
    /\ tries' = [tries EXCEPT ![r] = @ + 1]
    /\ IF LastAttempt(r)
       THEN Return(r, OutOfAttempts)
       ELSE pc' = [pc EXCEPT ![r] = RetryFrom] /\ UNCHANGED answer
    /\ UNCHANGED <<committed, row, owner, delta, seen, calls, history>>

-----------------------------------------------------------------------------
(* The end of the request: get_db *)

\* The handler returned: session.commit() publishes the row, frees the lock.
Commit(r) ==
    /\ pc[r] = "idle"
    /\ pc' = [pc EXCEPT ![r] = "committed"]
    /\ IF owner = r
       THEN committed' = row /\ owner' = NoRequest /\ commits' = commits + 1
       ELSE UNCHANGED <<committed, owner, commits>>
    /\ UNCHANGED <<row, delta, seen, tries, answer, calls, since>>

\* Any exception, a lost connection included, between any two statements.
Rollback(r) ==
    /\ pc[r] \in Running
    /\ pc' = [pc EXCEPT ![r] = "rolled_back"]
    /\ IF owner = r
       THEN row' = committed /\ owner' = NoRequest
       ELSE UNCHANGED <<row, owner>>
    /\ UNCHANGED <<committed, delta, seen, tries, answer, calls, history>>

Terminating ==
    /\ \A r \in Requests : pc[r] \in Ended
    /\ UNCHANGED vars

Step(r) == Read(r) \/ Hit(r) \/ Miss(r)

Next ==
    \/ \E r \in Requests :
        \/ \E d \in Deltas : Call(r, d)
        \/ Step(r)
        \/ Commit(r)
        \/ Rollback(r)
    \/ Terminating

Spec == Init /\ [][Next]_vars

\* The event loop resumes a request whose statement has completed, and every
\* handler returns; nothing forces a request to fail.
Fairness == \A r \in Requests : WF_vars(Step(r)) /\ WF_vars(Commit(r))

FairSpec == Spec /\ Fairness

-----------------------------------------------------------------------------
(* Properties *)

\* A call that may still try has an attempt left.
AttemptsLeft == \A r \in Requests : pc[r] \in {"read", "update"} => tries[r] < Attempts

\* Every variable stays in its type; a call never tries more than Attempts times.
TypeOK ==
    /\ committed \in Row /\ row \in Row
    /\ owner \in Requests \cup {NoRequest}
    /\ pc \in [Requests -> Running \cup Ended]
    /\ delta \in [Requests -> Int]
    /\ seen \in [Requests -> Row]
    /\ tries \in [Requests -> 0 .. Attempts]
    /\ answer \in [Requests -> Answers]
    /\ calls \in [Requests -> 0 .. MaxCalls]
    /\ commits \in Nat /\ since \in [Requests -> Nat]
    /\ AttemptsLeft

\* README "Seats are never oversold": no interleaving of reads, updates,
\* commits and rollbacks takes a seat that is not there, committed or not.
NeverNegative == committed.available >= 0 /\ row.available >= 0

\* The version stands for the count: a request about to UPDATE whose version
\* still matches also holds the current available_seats (no ABA between the
\* SELECT and the UPDATE of adjust_available_seats).
VersionPinsCount ==
    \A r \in Requests :
        pc[r] = "update" /\ seen[r].version = Visible(r).version
            => seen[r] = Visible(r)

\* A lost race is always another transaction's commit, and one commit costs a
\* call at most one of its attempts: adjust_available_seats gives up with
\* seats left only when others changed the row and committed max_retries times
\* during this call, and a transaction that has the row's lock loses no race.
MissesNeedCommits ==
    \A r \in Requests :
        /\ tries[r] <= commits - since[r]
        /\ pc[r] \in {"read", "update"} /\ owner = r => tries[r] = 0

\* Every call returns or its request fails: adjust_available_seats neither
\* retries for ever nor waits for ever on the row lock of another request.
EveryCallAnswered ==
    \A r \in Requests : pc[r] \in {"read", "update"} ~> pc[r] \notin {"read", "update"}

\* The read-check-update-retry protocol implements one atomic test-and-change
\* per call (SeatCounter): answers are truthful, no update is lost, a rolled
\* back transaction leaves nothing.
Counter == INSTANCE SeatCounter WITH
    available <- committed.available,
    writer <- owner,
    net <- row.available - committed.available,
    asked <- delta

CounterSpec == Counter!Spec

=============================================================================
