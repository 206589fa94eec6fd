---------------------------- MODULE SeatCounter ----------------------------
(***************************************************************************)
(* What seat_service.adjust_available_seats promises its callers: one      *)
(* cabin's count of free seats behaves as an integer that is tested and    *)
(* changed in one step, inside a transaction.  A call is either applied in *)
(* full or refused and has no effect; seats taken never exceed the seats   *)
(* there are; only a commit makes a transaction's net change public.       *)
(* Versions, re-reads and retries (SeatLock) do not appear here.           *)
(***************************************************************************)
EXTENDS Integers

CONSTANTS
    Requests,   \* HTTP requests, each one database transaction
    NoRequest,  \* "nobody": the cabin has no uncommitted change
    Seats,      \* free seats at the start
    Deltas      \* the changes callers ask for

VARIABLES
    available,  \* the committed number of free seats
    writer,     \* the request with an uncommitted change, or NoRequest
    net,        \* that change
    asked,      \* the change each request's latest call asks for
    answer      \* what each request's latest call returned

vars == <<available, writer, net, asked, answer>>

Visible(r) == IF writer = r THEN available + net ELSE available

Init ==
    /\ available = Seats
    /\ writer = NoRequest
    /\ net = 0
    /\ asked = [r \in Requests |-> 0]
    /\ answer = [r \in Requests |-> "none"]

Call(r, delta) ==
    /\ answer[r] # "pending"
    /\ asked' = [asked EXCEPT ![r] = delta]
    /\ answer' = [answer EXCEPT ![r] = "pending"]
    /\ UNCHANGED <<available, writer, net>>

\* A change of zero seats is answered at once and takes no lock.
CallZero(r) ==
    /\ answer[r] # "pending"
    /\ answer' = [answer EXCEPT ![r] = "applied"]
    /\ UNCHANGED <<available, writer, net, asked>>

\* The change that was asked for, in full.
Apply(r) ==
    /\ answer[r] = "pending"
    /\ writer \in {r, NoRequest}
    /\ Visible(r) + asked[r] >= 0
    /\ writer' = r
    /\ net' = net + asked[r]
    /\ answer' = [answer EXCEPT ![r] = "applied"]
    /\ UNCHANGED <<available, asked>>

Refuse(r) ==
    /\ answer[r] = "pending"
    /\ answer' = [answer EXCEPT ![r] = "refused"]
    /\ UNCHANGED <<available, writer, net, asked>>

Commit(r) ==
    /\ writer = r
    /\ answer[r] # "pending"
    /\ available' = available + net
    /\ writer' = NoRequest
    /\ net' = 0
    /\ UNCHANGED <<asked, answer>>

Rollback(r) ==
    /\ writer = r
    /\ writer' = NoRequest
    /\ net' = 0
    /\ UNCHANGED <<available, asked, answer>>

Next ==
    \E r \in Requests :
        \/ \E delta \in Deltas : Call(r, delta)
        \/ CallZero(r)
        \/ Apply(r)
        \/ Refuse(r)
        \/ Commit(r)
        \/ Rollback(r)

Spec == Init /\ [][Next]_vars

=============================================================================
