--------------------------- MODULE SeatLockProofs ---------------------------
(***************************************************************************)
(* Proofs about SeatLock, for every set of requests, every number of       *)
(* seats, every set of deltas and every retry limit.                       *)
(***************************************************************************)
EXTENDS SeatLock, TLAPS

(* The inductive invariant, beyond the types. *)

\* Only a running request holds the lock, and every version it wrote is newer
\* than the committed one.
LockDiscipline ==
    /\ owner = NoRequest => row = committed
    /\ owner # NoRequest => row.version > committed.version /\ pc[owner] \in Running

\* A version once read is never ahead of the one now visible.
SeenIsPast ==
    \A r \in Requests : pc[r] = "update" => seen[r].version <= Visible(r).version

\* An UPDATE is only sent for seats the SELECT showed.
SeenEnough ==
    \A r \in Requests : pc[r] = "update" /\ delta[r] < 0 => seen[r].available >= -delta[r]

\* While a call runs, its answer is pending and its delta is one asked for.
PendingCalls ==
    \A r \in Requests :
        /\ pc[r] = "idle" => answer[r] # "pending"
        /\ pc[r] \in {"read", "update"} => answer[r] = "pending" /\ delta[r] \in Deltas

IInv ==
    /\ TypeOK
    /\ LockDiscipline
    /\ PendingCalls
    /\ SeenIsPast
    /\ SeenEnough
    /\ VersionPinsCount
    /\ NeverNegative

LEMMA AttemptsNat == Attempts \in Nat /\ Attempts > 0
BY RetriesAssumption DEF Attempts

-----------------------------------------------------------------------------
(* Types and the lock *)

LEMMA InitIInv == Init => IInv
<1> SUFFICES ASSUME Init PROVE IInv
    OBVIOUS
<1> USE DEF Init, FreshRow, history
<1>1. TypeOK
    BY SeatsAssumption, AttemptsNat, RetriesAssumption
        DEF TypeOK, AttemptsLeft, Row, Running, Ended, Answers
<1>2. LockDiscipline /\ PendingCalls /\ SeenIsPast /\ SeenEnough /\ VersionPinsCount
    BY DEF LockDiscipline, PendingCalls, SeenIsPast, SeenEnough, VersionPinsCount
<1>3. NeverNegative
    BY SeatsAssumption DEF NeverNegative
<1> QED
    BY <1>1, <1>2, <1>3 DEF IInv

LEMMA StepAttempts == TypeOK /\ [Next]_vars => AttemptsLeft'
<1> SUFFICES ASSUME TypeOK, [Next]_vars PROVE AttemptsLeft'
    OBVIOUS
<1> USE AttemptsNat DEF TypeOK, AttemptsLeft, Running, Ended
<1>1. ASSUME NEW r \in Requests, NEW d \in Deltas, Call(r, d) PROVE AttemptsLeft'
    BY <1>1 DEF Call
<1>2. ASSUME NEW r \in Requests, Read(r) PROVE AttemptsLeft'
    BY <1>2 DEF Read, Return
<1>3. ASSUME NEW r \in Requests, Hit(r) PROVE AttemptsLeft'
    BY <1>3 DEF Hit, Return
<1>4. ASSUME NEW r \in Requests, Miss(r) PROVE AttemptsLeft'
    BY <1>4 DEF Miss, Return, LastAttempt, RetryFrom
<1>5. ASSUME NEW r \in Requests, Commit(r) PROVE AttemptsLeft'
    BY <1>5 DEF Commit
<1>6. ASSUME NEW r \in Requests, Rollback(r) PROVE AttemptsLeft'
    BY <1>6 DEF Rollback
<1>7. CASE UNCHANGED vars
    BY <1>7 DEF vars, history
<1> QED
    BY <1>1, <1>2, <1>3, <1>4, <1>5, <1>6, <1>7 DEF Next, Step, Terminating

LEMMA StepTypeOK == TypeOK /\ [Next]_vars => TypeOK'
<1> SUFFICES ASSUME TypeOK, [Next]_vars PROVE TypeOK'
    OBVIOUS
<1>0. AttemptsLeft'
    BY StepAttempts
<1> USE <1>0, DeltasAssumption, RetriesAssumption, AttemptsNat
    DEF TypeOK, Row, Running, Ended, Answers, history
<1>1. ASSUME NEW r \in Requests, NEW d \in Deltas, Call(r, d) PROVE TypeOK'
    <2>1. d \in Int
        OBVIOUS
    <2>2. calls' \in [Requests -> 0 .. MaxCalls]
        BY <1>1 DEF Call
    <2>3. CASE d = 0
        BY <1>1, <2>2, <2>3 DEF Call
    <2>4. CASE d # 0
        <3>1. /\ pc' = [pc EXCEPT ![r] = "read"] /\ delta' = [delta EXCEPT ![r] = d]
              /\ tries' = [tries EXCEPT ![r] = 0] /\ since' = [since EXCEPT ![r] = commits]
              /\ answer' = [answer EXCEPT ![r] = "pending"]
              /\ UNCHANGED <<committed, row, owner, seen, commits>>
            BY <1>1, <2>4 DEF Call
        <3>2. tries' \in [Requests -> 0 .. Attempts] /\ since' \in [Requests -> Nat]
            BY <3>1
        <3> QED
            BY <2>1, <2>2, <3>1, <3>2
    <2> QED
        BY <2>3, <2>4
<1>2. ASSUME NEW r \in Requests, Read(r) PROVE TypeOK'
    BY <1>2 DEF Read, Return, Visible
<1>3. ASSUME NEW r \in Requests, Hit(r) PROVE TypeOK'
    BY <1>3 DEF Hit, Return, Updated, Visible
<1>4. ASSUME NEW r \in Requests, Miss(r) PROVE TypeOK'
    <2>1. tries[r] + 1 \in 0 .. Attempts
        BY <1>4 DEF Miss, AttemptsLeft
    <2>2. tries' \in [Requests -> 0 .. Attempts]
        BY <1>4, <2>1 DEF Miss
    <2>3. CASE LastAttempt(r)
        BY <1>4, <2>2, <2>3 DEF Miss, Return, OutOfAttempts
    <2>4. CASE ~LastAttempt(r)
        BY <1>4, <2>2, <2>4 DEF Miss, RetryFrom
    <2> QED
        BY <2>3, <2>4
<1>5. ASSUME NEW r \in Requests, Commit(r) PROVE TypeOK'
    BY <1>5 DEF Commit
<1>6. ASSUME NEW r \in Requests, Rollback(r) PROVE TypeOK'
    BY <1>6 DEF Rollback
<1>7. CASE UNCHANGED vars
    BY <1>7 DEF vars, history
<1> QED
    BY <1>1, <1>2, <1>3, <1>4, <1>5, <1>6, <1>7 DEF Next, Step, Terminating

LEMMA StepLock == IInv /\ [Next]_vars => LockDiscipline' /\ PendingCalls'
<1> DEFINE Inv == LockDiscipline /\ PendingCalls
<1> SUFFICES ASSUME IInv, [Next]_vars PROVE Inv'
    OBVIOUS
<1> USE NoRequestAssumption
    DEF IInv, TypeOK, Row, Running, Ended, LockDiscipline, PendingCalls
<1>1. ASSUME NEW r \in Requests, NEW d \in Deltas, Call(r, d) PROVE Inv'
    BY <1>1 DEF Call
<1>2. ASSUME NEW r \in Requests, Read(r) PROVE Inv'
    BY <1>2 DEF Read, Return
<1>3. ASSUME NEW r \in Requests, Hit(r) PROVE Inv'
    BY <1>3 DEF Hit, Return, Updated, Visible
<1>4. ASSUME NEW r \in Requests, Miss(r) PROVE Inv'
    BY <1>4 DEF Miss, Return, OutOfAttempts, LastAttempt, RetryFrom
<1>5. ASSUME NEW r \in Requests, Commit(r) PROVE Inv'
    BY <1>5 DEF Commit
<1>6. ASSUME NEW r \in Requests, Rollback(r) PROVE Inv'
    BY <1>6 DEF Rollback
<1>7. CASE UNCHANGED vars
    BY <1>7 DEF vars, history
<1> QED
    BY <1>1, <1>2, <1>3, <1>4, <1>5, <1>6, <1>7 DEF Next, Step, Terminating

-----------------------------------------------------------------------------
(* What a request has read *)

\* No step of one request moves the version that a waiting request reads back.
LEMMA StepSeen == IInv /\ [Next]_vars => SeenIsPast' /\ VersionPinsCount' /\ SeenEnough'
<1> DEFINE Seen == SeenIsPast /\ VersionPinsCount /\ SeenEnough
<1> SUFFICES ASSUME IInv, [Next]_vars PROVE Seen'
    OBVIOUS
<1> USE NoRequestAssumption
    DEF IInv, TypeOK, Row, Running, LockDiscipline, SeenIsPast, VersionPinsCount, SeenEnough, Visible
<1>1. ASSUME NEW r \in Requests, NEW d \in Deltas, Call(r, d) PROVE Seen'
    BY <1>1 DEF Call
<1>2. ASSUME NEW r \in Requests, Read(r) PROVE Seen'
    BY <1>2 DEF Read, Return, TooFew
<1>3. ASSUME NEW r \in Requests, Hit(r) PROVE Seen'
    BY <1>3 DEF Hit, Return, Updated
<1>4. ASSUME NEW r \in Requests, Miss(r) PROVE Seen'
    BY <1>4 DEF Miss, Return, LastAttempt, RetryFrom, OutOfAttempts
<1>5. ASSUME NEW r \in Requests, Commit(r) PROVE Seen'
    BY <1>5 DEF Commit
<1>6. ASSUME NEW r \in Requests, Rollback(r) PROVE Seen'
    BY <1>6 DEF Rollback
<1>7. CASE UNCHANGED vars
    BY <1>7 DEF vars, history
<1> QED
    BY <1>1, <1>2, <1>3, <1>4, <1>5, <1>6, <1>7 DEF Next, Step, Terminating

LEMMA StepNeverNegative == IInv /\ [Next]_vars => NeverNegative'
<1> SUFFICES ASSUME IInv, [Next]_vars PROVE NeverNegative'
    OBVIOUS
<1> USE DEF IInv, TypeOK, Row, NeverNegative
<1>1. ASSUME NEW r \in Requests, NEW d \in Deltas, Call(r, d) PROVE NeverNegative'
    BY <1>1 DEF Call
<1>2. ASSUME NEW r \in Requests, Read(r) PROVE NeverNegative'
    BY <1>2 DEF Read
<1>3. ASSUME NEW r \in Requests, Hit(r) PROVE NeverNegative'
    BY <1>3 DEF Hit, Where, Updated, Visible
<1>4. ASSUME NEW r \in Requests, Miss(r) PROVE NeverNegative'
    BY <1>4 DEF Miss
<1>5. ASSUME NEW r \in Requests, Commit(r) PROVE NeverNegative'
    BY <1>5 DEF Commit
<1>6. ASSUME NEW r \in Requests, Rollback(r) PROVE NeverNegative'
    BY <1>6 DEF Rollback
<1>7. CASE UNCHANGED vars
    BY <1>7 DEF vars, history
<1> QED
    BY <1>1, <1>2, <1>3, <1>4, <1>5, <1>6, <1>7 DEF Next, Step, Terminating

LEMMA Inductive == Spec => []IInv
<1>1. IInv /\ [Next]_vars => IInv'
    BY StepTypeOK, StepLock, StepSeen, StepNeverNegative DEF IInv
<1> QED
    BY <1>1, InitIInv, PTL DEF Spec

\* The types of SeatLock, in every reachable state.
THEOREM TypeCorrect == Spec => []TypeOK
<1>1. IInv => TypeOK
    BY DEF IInv
<1> QED
    BY <1>1, Inductive, PTL

\* No interleaving of adjust_available_seats calls takes a seat that is not
\* there, for any number of concurrent requests.
THEOREM SeatsNeverNegative == Spec => []NeverNegative
<1>1. IInv => NeverNegative
    BY DEF IInv
<1> QED
    BY <1>1, Inductive, PTL

\* A matching version proves the count has not changed since the SELECT.
THEOREM VersionsPinCounts == Spec => []VersionPinsCount
<1>1. IInv => VersionPinsCount
    BY DEF IInv
<1> QED
    BY <1>1, Inductive, PTL

-----------------------------------------------------------------------------
(* A miss needs a commit *)

\* A call that is about to miss already has one more commit to its account than
\* it has misses; whoever has the row's lock has read its own row.
RacesLost ==
    /\ MissesNeedCommits
    /\ \A r \in Requests : pc[r] = "update" =>
        /\ seen[r].version # Visible(r).version => tries[r] < commits - since[r]
        /\ owner = r => seen[r].version = row.version

LEMMA StepRacesLost == IInv /\ RacesLost /\ [Next]_vars => RacesLost'
<1> SUFFICES ASSUME IInv, RacesLost, [Next]_vars PROVE RacesLost'
    OBVIOUS
<1> USE NoRequestAssumption DEF IInv, TypeOK, Row, RacesLost, MissesNeedCommits, history
<1>1. ASSUME NEW c \in Requests, NEW d \in Deltas, Call(c, d) PROVE RacesLost'
    BY <1>1 DEF Call, Visible
<1>2. ASSUME NEW c \in Requests, Read(c) PROVE RacesLost'
    BY <1>2 DEF Read, Return, Visible
<1>3. ASSUME NEW c \in Requests, Hit(c) PROVE RacesLost'
    BY <1>3 DEF Hit, Return, Visible
<1>4. ASSUME NEW c \in Requests, Miss(c) PROVE RacesLost'
    <2>1. seen[c].version # Visible(c).version
        BY <1>4 DEF Miss, Where, SeenEnough, VersionPinsCount
    <2>2. tries[c] + 1 <= commits - since[c] /\ owner # c
        BY <1>4, <2>1 DEF Miss, Visible
    <2> QED
        BY <1>4, <2>2 DEF Miss, Return, LastAttempt, RetryFrom, Visible
<1>5. ASSUME NEW c \in Requests, Commit(c) PROVE RacesLost'
    <2>1. CASE owner = c
        BY <1>5, <2>1 DEF Commit
    <2>2. CASE owner # c
        BY <1>5, <2>2 DEF Commit, Visible
    <2> QED
        BY <2>1, <2>2
<1>6. ASSUME NEW c \in Requests, Rollback(c) PROVE RacesLost'
    BY <1>6 DEF Rollback, Visible, Running
<1>7. CASE UNCHANGED vars
    BY <1>7 DEF vars, history, Visible
<1> QED
    BY <1>1, <1>2, <1>3, <1>4, <1>5, <1>6, <1>7 DEF Next, Step, Terminating

\* adjust_available_seats gives up only after max_retries commits of others
\* during the call, and never when it has the row's lock.
THEOREM MissesNeedOthersCommits == Spec => []MissesNeedCommits
<1>1. Init => RacesLost
    BY DEF Init, FreshRow, RacesLost, MissesNeedCommits, Visible
<1>2. RacesLost => MissesNeedCommits
    BY DEF RacesLost
<1> QED
    BY <1>1, <1>2, StepRacesLost, Inductive, PTL DEF Spec

-----------------------------------------------------------------------------
(* Refinement *)

\* Every step of SeatLock is a step of the atomic counter, or leaves it alone.
LEMMA StepRefines == IInv /\ [Next]_vars => [Counter!Next]_(Counter!vars)
<1> SUFFICES ASSUME IInv, [Next]_vars PROVE [Counter!Next]_(Counter!vars)
    OBVIOUS
<1> USE NoRequestAssumption
    DEF IInv, TypeOK, Row, LockDiscipline, PendingCalls, NeverNegative
<1>1. ASSUME NEW r \in Requests, NEW d \in Deltas, Call(r, d)
      PROVE Counter!Call(r, d) \/ Counter!CallZero(r)
    BY <1>1 DEF Call, Counter!Call, Counter!CallZero
<1>2. ASSUME NEW r \in Requests, Read(r) PROVE Counter!Refuse(r) \/ UNCHANGED Counter!vars
    BY <1>2 DEF Read, Return, Counter!Refuse, Counter!vars
<1>3. ASSUME NEW r \in Requests, Hit(r) PROVE Counter!Apply(r)
    BY <1>3 DEF Hit, Return, Where, Updated, Visible, Counter!Apply, Counter!Visible
<1>4. ASSUME NEW r \in Requests, Miss(r) PROVE Counter!Refuse(r) \/ UNCHANGED Counter!vars
    BY <1>4 DEF Miss, Return, OutOfAttempts, LastAttempt, RetryFrom, Counter!Refuse, Counter!vars
<1>5. ASSUME NEW r \in Requests, Commit(r) PROVE Counter!Commit(r) \/ UNCHANGED Counter!vars
    BY <1>5 DEF Commit, Counter!Commit, Counter!vars
<1>6. ASSUME NEW r \in Requests, Rollback(r) PROVE Counter!Rollback(r) \/ UNCHANGED Counter!vars
    BY <1>6 DEF Rollback, Counter!Rollback, Counter!vars
<1>7. CASE UNCHANGED vars
    BY <1>7 DEF vars, history, Counter!vars
<1> QED
    BY <1>1, <1>2, <1>3, <1>4, <1>5, <1>6, <1>7 DEF Next, Step, Terminating, Counter!Next

\* adjust_available_seats, with its reads, retries and row lock, implements an
\* atomic seat counter.
THEOREM ImplementsCounter == Spec => CounterSpec
<1>1. Init => Counter!Init
    BY SeatsAssumption DEF Init, FreshRow, Counter!Init
<1> QED
    BY <1>1, StepRefines, Inductive, PTL DEF Spec, CounterSpec, Counter!Spec

=============================================================================
