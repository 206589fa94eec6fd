-------------------------- MODULE SeatHoldsProofs --------------------------
(****************************************************************************)
(* Hold and confirm requests, for every set of requests and every           *)
(* itinerary: groups are held entirely or not at all, are sold once, and no *)
(* seat is lost but with a hold whose expiry lost every attempt to give it  *)
(* back; as long as no hold lapses every seat is free, held or sold exactly *)
(* once and the requests implement SeatInventory.  IInv follows the rows of *)
(* a group, SInv what a confirmation has loaded, Inv the seats each         *)
(* transaction has moved and those it could not give back.                  *)
(****************************************************************************)
EXTENDS SeatHolds, RowsAndSums, TLAPS

Status == HoldStatus \cup {"none"}

\* The variables the argument is about are functions of their keys.
Shapes ==
    /\ pc \in [Requests -> Running \cup Ended \cup {"idle"}]
    /\ status \in [Holds -> Status]
    /\ leg \in [Holders -> Nat]
    /\ stale \in [Requests -> SUBSET Holds]
    /\ DOMAIN dStatus = Requests /\ DOMAIN mem = Confirmers
    /\ \A r \in Requests : DOMAIN dStatus[r] \subseteq Holds

\* Each kind of request has its own part of the program.
Programs ==
    /\ \A r \in Holders : pc[r] \notin {"check", "convert", "replayed"}
    /\ \A r \in Confirmers : pc[r] \notin {"take", "release", "refuse", "refused"}

\* A hold that its request has committed.
Standing(h) == pc[h[1]] = "committed" /\ status[h] \notin {"none", "released"}

\* A request writes rows of others' groups only after they were committed,
\* and then expires or converts them.
OthersRows ==
    \A r \in Requests : \A h \in DOMAIN dStatus[r] :
        h[1] # r => Standing(h) /\ dStatus[r][h] \in {"expired", "converted"}

\* What a request is about to expire or to convert is committed or its own.
KnownHolds ==
    /\ \A r \in Requests : \A h \in stale[r] : h[1] = r \/ Standing(h)
    /\ \A r \in Confirmers : \A h \in DOMAIN mem[r] :
        /\ h \in Holds
        /\ mem[r][h] = "active" => Standing(h)

\* The rows of a request's own group, while it runs.
OwnRows ==
    \A r \in Holders :
        /\ pc[r] \notin Running => DOMAIN dStatus[r] = {}
        /\ \A h \in DOMAIN dStatus[r] : h[1] = r =>
            dStatus[r][h] \in IF pc[r] = "refuse" THEN {"released", "expired"}
                              ELSE {"active", "expired"}

\* The items before the current one are held, at the end all of them.  (A
\* request that joins a waitlist commits without a hold: see WaitlistProofs.)
Progress ==
    \A r \in Holders :
        /\ leg[r] \in 1 .. Len(Legs[r])
        /\ pc[r] \in {"idle", "select", "return", "flush", "take"} =>
            \A i \in 1 .. leg[r] - 1 : <<r, i>> \in DOMAIN dStatus[r]
        /\ pc[r] = "commit" =>
            Group(r) \subseteq DOMAIN dStatus[r] \/ Group(r) \cap DOMAIN dStatus[r] = {}

\* A group appears entirely or not at all, and only when its request commits.
Together ==
    \A r \in Holders :
        /\ pc[r] = "committed" =>
            \/ \A h \in Group(r) : status[h] \notin {"none", "released"}
            \/ \A h \in Group(r) : status[h] = "none"
        /\ pc[r] = "refused" => \A h \in Group(r) : status[h] \in {"none", "released", "expired"}
        /\ pc[r] \notin {"committed", "refused"} => \A h \in Group(r) : status[h] = "none"

IInv ==
    /\ Shapes /\ Programs /\ OthersRows /\ KnownHolds /\ OwnRows /\ Progress
    /\ Together

-----------------------------------------------------------------------------
(* What the model's helpers do *)

LEMMA Members ==
    ASSUME NEW h \in Holds
    PROVE  h[1] \in Holders /\ h \in Group(h[1]) /\ h = <<h[1], h[2]>>
           /\ h[2] \in DOMAIN Legs[h[1]]
BY DEF Holds, Group

LEMMA GroupRows ==
    ASSUME NEW r \in Holders
    PROVE  /\ Group(r) \subseteq Holds
           /\ \A h \in Group(r) : h[1] = r
           /\ \A i \in 1 .. Len(Legs[r]) : <<r, i>> \in Group(r)
           /\ \A h \in Group(r) : \E i \in 1 .. Len(Legs[r]) : h = <<r, i>>
           /\ Len(Legs[r]) \in Nat /\ Len(Legs[r]) >= 1
<1>1. Legs[r] \in Seq([cabin : Cabins, quantity : Nat]) /\ Legs[r] # <<>>
  BY RequestsAssumption
<1>2. DOMAIN Legs[r] = 1 .. Len(Legs[r]) /\ Len(Legs[r]) \in Nat /\ Len(Legs[r]) >= 1
  BY <1>1
<1>3. QED
  BY <1>2 DEF Holds, Group

\* WriteStatus adds rows to r's transaction and leaves the others alone.
LEMMA Written ==
    ASSUME NEW r \in Requests, NEW S, NEW v, DOMAIN dStatus = Requests,
           WriteStatus(r, S, v)
    PROVE  /\ DOMAIN dStatus' = Requests
           /\ DOMAIN dStatus'[r] = S \cup DOMAIN dStatus[r]
           /\ \A h \in S : dStatus'[r][h] = v
           /\ \A h \in DOMAIN dStatus[r] \ S : dStatus'[r][h] = dStatus[r][h]
           /\ \A o \in Requests \ {r} : dStatus'[o] = dStatus[o]
<1> DEFINE new == [h \in S |-> v]
<1>1. /\ DOMAIN dStatus' = Requests
      /\ dStatus'[r] = Over(new, dStatus[r])
      /\ \A o \in Requests \ {r} : dStatus'[o] = dStatus[o]
  BY DEF WriteStatus
<1>2. DOMAIN new = S /\ \A h \in S : new[h] = v
  OBVIOUS
<1> HIDE DEF new
<1>3. /\ DOMAIN Over(new, dStatus[r]) = DOMAIN new \cup DOMAIN dStatus[r]
      /\ \A x \in DOMAIN new : Over(new, dStatus[r])[x] = new[x]
      /\ \A x \in DOMAIN dStatus[r] \ DOMAIN new : Over(new, dStatus[r])[x] = dStatus[r][x]
  BY OverIs
<1>4. QED
  BY <1>1, <1>2, <1>3

\* A session that ends takes its rows with it.
LEMMA Closed ==
    ASSUME NEW r \in Requests, DOMAIN dStatus = Requests, CloseSession(r)
    PROVE  /\ DOMAIN dStatus' = Requests /\ DOMAIN dStatus'[r] = {}
           /\ \A o \in Requests \ {r} : dStatus'[o] = dStatus[o]
BY DEF CloseSession, Nothing

LEMMA Moved ==
    ASSUME NEW r \in Requests, NEW l \in Running \cup Ended \cup {"idle"},
           pc \in [Requests -> Running \cup Ended \cup {"idle"}], Goto(r, l)
    PROVE  /\ pc' \in [Requests -> Running \cup Ended \cup {"idle"}]
           /\ pc'[r] = l /\ \A o \in Requests \ {r} : pc'[o] = pc[o]
BY DEF Goto

\* A hold stands as long as nobody publishes a hold row.
LEMMA StandsStill ==
    ASSUME NEW r \in Requests, pc[r] # "committed", UNCHANGED status,
           \A o \in Requests \ {r} : pc'[o] = pc[o]
    PROVE  \A h \in Holds : Standing(h) => Standing(h)'
BY Members DEF Standing, Requests

-----------------------------------------------------------------------------
(* The initial states, and steps that write no hold *)

LEMMA InitIInv == Init => IInv
<1> SUFFICES ASSUME Init PROVE IInv
  OBVIOUS
<1>1. Shapes
  BY DEF Init, Shapes, Nothing, Requests, Ended, HoldStatus, Status
<1>2. Programs /\ OthersRows /\ KnownHolds /\ OwnRows
  BY RequestsAssumption
     DEF Init, Programs, OthersRows, KnownHolds, OwnRows, Nothing, Requests, Running
<1>3. Progress
  BY GroupRows DEF Init, Progress, Requests
<1>4. Together
  <2>1. \A r \in Holders : pc[r] = IF r \in Existing THEN "committed" ELSE "idle"
    BY DEF Init, Requests
  <2>2. \A h \in Holds : status[h] = IF h[1] \in Existing THEN "active" ELSE "none"
    BY DEF Init
  <2>3. QED
    BY <2>1, <2>2, GroupRows DEF Together
<1>5. QED
  BY <1>1, <1>2, <1>3, <1>4 DEF IInv

Before == {"idle", "select", "return", "flush", "take"}

\* A request goes on without writing a hold.
LEMMA QuietStep ==
    ASSUME IInv, NEW r \in Requests, NEW l \in Running \cup {"replayed", "rolled_back"},
           Goto(r, l), UNCHANGED <<status, dStatus, leg>>,
           r \in Holders => pc[r] \in Before /\ l \in (Before \ {"idle"}) \cup {"release"},
           r \in Confirmers => pc[r] # "committed"
                              /\ l \notin {"take", "release", "refuse"},
           stale' \in [Requests -> SUBSET Holds], DOMAIN mem' = Confirmers,
           KnownHolds'
    PROVE  IInv'
<1> USE DEF IInv
<1>1. /\ pc' \in [Requests -> Running \cup Ended \cup {"idle"}]
      /\ pc'[r] = l /\ \A o \in Requests \ {r} : pc'[o] = pc[o]
  BY Moved DEF Shapes, Ended
<1>2. Shapes'
  BY <1>1 DEF Shapes
<1>3. Programs'
  BY <1>1, RequestsAssumption DEF Programs, Before, Running, Requests
<1>4. pc[r] # "committed"
  BY DEF Requests, Before
<1>5. OthersRows'
  BY <1>1, <1>4, StandsStill DEF OthersRows, Shapes
<1>6. OwnRows'
  BY <1>1 DEF OwnRows, Before, Running, Requests
<1>7. Progress'
  BY <1>1, GroupRows DEF Progress, Before, Requests
<1>8. Together'
  <2>1. l \notin {"committed", "refused"} /\ (r \in Holders => pc[r] # "refused")
    BY DEF Running, Before
  <2>2. \A g \in Holders : pc'[g] = pc[g] \/ {pc[g], pc'[g]} \cap {"committed", "refused"} = {}
    BY <1>1, <1>4, <2>1 DEF Requests
  <2>3. QED
    BY <2>2, GroupRows DEF Together
<1>9. QED
  BY <1>2, <1>3, <1>5, <1>6, <1>7, <1>8

\* The transaction of a request that has not committed is rolled back.
LEMMA AbortStep ==
    ASSUME IInv, NEW r \in Requests, pc[r] \in Running, Goto(r, "rolled_back"),
           CloseSession(r), UNCHANGED <<status, leg, stale, mem>>
    PROVE  IInv'
<1> USE DEF IInv
<1>1. /\ pc' \in [Requests -> Running \cup Ended \cup {"idle"}]
      /\ pc'[r] = "rolled_back" /\ \A o \in Requests \ {r} : pc'[o] = pc[o]
  BY Moved DEF Shapes, Ended
<1>2. /\ DOMAIN dStatus' = Requests /\ DOMAIN dStatus'[r] = {}
      /\ \A o \in Requests \ {r} : dStatus'[o] = dStatus[o]
  BY Closed DEF Shapes
<1>3. Shapes'
  BY <1>1, <1>2 DEF Shapes
<1>4. Programs'
  BY <1>1 DEF Programs, Requests
<1>5. pc[r] # "committed"
  BY DEF Running
<1>6. OthersRows'
  BY <1>1, <1>2, <1>5, StandsStill DEF OthersRows, Shapes
<1>7. KnownHolds'
  BY <1>1, <1>5, StandsStill DEF KnownHolds, Shapes
<1>8. OwnRows'
  BY <1>1, <1>2 DEF OwnRows, Requests
<1>9. Progress'
  BY <1>1, <1>2 DEF Progress, Requests
<1>10. Together'
  <2>1. \A g \in Holders : pc'[g] = pc[g] \/ {pc[g], pc'[g]} \cap {"committed", "refused"} = {}
    BY <1>1 DEF Requests, Running
  <2>2. QED
    BY <2>1, GroupRows DEF Together
<1>11. QED
  BY <1>3, <1>4, <1>6, <1>7, <1>8, <1>9, <1>10

-----------------------------------------------------------------------------
(* Steps that write holds *)

\* A request goes on after writing v to its rows of the holds in S.
LEMMA WriteStep ==
    ASSUME IInv, NEW r \in Requests, NEW l \in Running, Goto(r, l), pc[r] \in Running,
           NEW S \in SUBSET Holds, NEW v \in HoldStatus, WriteStatus(r, S, v),
           UNCHANGED status, leg' \in [Holders -> Nat],
           stale' \in [Requests -> SUBSET Holds], DOMAIN mem' = Confirmers,
           KnownHolds', Programs', Progress',
           \A h \in S : h[1] # r => Standing(h) /\ v \in {"expired", "converted"},
           r \in Holders =>
               /\ l = "refuse" => \A h \in DOMAIN dStatus[r] \ S :
                                    h[1] = r => dStatus[r][h] \in {"released", "expired"}
               /\ pc[r] # "refuse"
               /\ \A h \in S : h[1] = r =>
                    v \in IF l = "refuse" THEN {"released", "expired"} ELSE {"active", "expired"}
    PROVE  IInv'
<1> USE DEF IInv
<1>1. /\ pc' \in [Requests -> Running \cup Ended \cup {"idle"}]
      /\ pc'[r] = l /\ \A o \in Requests \ {r} : pc'[o] = pc[o]
  BY Moved DEF Shapes
<1>2. /\ DOMAIN dStatus' = Requests
      /\ DOMAIN dStatus'[r] = S \cup DOMAIN dStatus[r]
      /\ \A h \in S : dStatus'[r][h] = v
      /\ \A h \in DOMAIN dStatus[r] \ S : dStatus'[r][h] = dStatus[r][h]
      /\ \A o \in Requests \ {r} : dStatus'[o] = dStatus[o]
  BY Written DEF Shapes
<1>3. Shapes'
  BY <1>1, <1>2 DEF Shapes
<1>4. pc[r] # "committed" /\ l # "committed"
  BY DEF Running
<1>5. OthersRows'
  <2> SUFFICES ASSUME NEW o \in Requests, NEW h \in DOMAIN dStatus'[o], h[1] # o
               PROVE  Standing(h)' /\ dStatus'[o][h] \in {"expired", "converted"}
    BY DEF OthersRows
  <2>1. h \in Holds
    BY <1>3 DEF Shapes
  <2>2. Standing(h) /\ dStatus'[o][h] \in {"expired", "converted"}
    BY <1>2 DEF OthersRows
  <2>3. QED
    BY <1>1, <1>4, <2>1, <2>2, StandsStill
<1>6. OwnRows'
  BY <1>1, <1>2 DEF OwnRows, Requests
<1>7. Together'
  <2>1. \A g \in Holders : pc'[g] = pc[g] \/ {pc[g], pc'[g]} \cap {"committed", "refused"} = {}
    BY <1>1 DEF Requests, Running
  <2>2. QED
    BY <2>1, GroupRows DEF Together
<1>8. QED
  BY <1>3, <1>5, <1>6, <1>7

-----------------------------------------------------------------------------
(* The actions *)

\* A hold that a request sees active is its own or was committed.
LEMMA SeenActive ==
    ASSUME IInv, NEW r \in Requests, NEW h \in Holds, StatusSeen(r, h) = "active"
    PROVE  h[1] = r \/ Standing(h)
<1> USE DEF IInv
<1>1. StatusSeen(r, h) = IF h \in DOMAIN dStatus[r] THEN dStatus[r][h] ELSE status[h]
  <2>1. /\ \A x \in DOMAIN dStatus[r] : Over(dStatus[r], status)[x] = dStatus[r][x]
        /\ \A x \in DOMAIN status \ DOMAIN dStatus[r] : Over(dStatus[r], status)[x] = status[x]
    BY OverIs
  <2>2. DOMAIN status = Holds
    BY DEF Shapes
  <2>3. QED
    BY <2>1, <2>2 DEF StatusSeen
<1>2. CASE h \in DOMAIN dStatus[r]
  BY <1>2 DEF OthersRows
<1>3. CASE h \notin DOMAIN dStatus[r]
  BY <1>1, <1>3, Members DEF Together, Standing
<1>4. QED
  BY <1>2, <1>3

\* What was committed stays committed when r goes on.
LEMMA StillKnown ==
    ASSUME IInv, NEW r \in Requests, NEW l \in Running \cup Ended, pc[r] # "committed",
           Goto(r, l), UNCHANGED <<status, stale, mem>>
    PROVE  KnownHolds'
<1> USE DEF IInv
<1>1. /\ pc'[r] = l /\ \A o \in Requests \ {r} : pc'[o] = pc[o]
  BY Moved DEF Shapes
<1>2. \A h \in Holds : Standing(h) => Standing(h)'
  BY <1>1, StandsStill
<1>3. QED
  BY <1>2 DEF KnownHolds, Shapes

LEMMA SelectStaleHoldsStep ==
    ASSUME IInv, NEW r \in Requests, SelectStaleHolds(r) PROVE IInv'
<1> USE DEF IInv
<1>1. PICK c \in CabinsToExpire(r) :
        LET found == {h \in Holds : IsStale(r, c, h)} IN
        /\ stale' = [stale EXCEPT ![r] = found]
        /\ Goto(r, IF found = {} THEN AfterExpiry(r) ELSE "return")
  BY DEF SelectStaleHolds
<1> DEFINE found == {h \in Holds : IsStale(r, c, h)}
<1> DEFINE l == IF found = {} THEN AfterExpiry(r) ELSE "return"
<1>2. /\ l \in {"return", "take", "check", "select"}
      /\ r \in Holders => l \in {"return", "take"}
      /\ r \notin Holders => l # "take"
  BY DEF AfterExpiry
<1>3. \A h \in found : h[1] = r \/ Standing(h)
  BY SeenActive DEF IsStale
<1>4. /\ pc[r] = "select"
      /\ UNCHANGED <<status, dStatus, leg, mem>>
  BY DEF SelectStaleHolds, db
<1>5. /\ stale' \in [Requests -> SUBSET Holds] /\ stale'[r] = found
      /\ \A o \in Requests \ {r} : stale'[o] = stale[o]
  BY <1>1 DEF Shapes
<1>6. Goto(r, l)
  BY <1>1
<1> HIDE DEF found, l
<1>7. /\ pc'[r] = l /\ \A o \in Requests \ {r} : pc'[o] = pc[o]
  BY <1>2, <1>6, Moved DEF Shapes, Running
<1>8. KnownHolds'
  <2>1. \A h \in Holds : Standing(h) => Standing(h)'
    BY <1>4, <1>7, StandsStill
  <2>2. \A o \in Requests : stale'[o] \subseteq Holds
    BY <1>5
  <2>3. ASSUME NEW o \in Requests, NEW h \in stale'[o]
        PROVE  h[1] = o \/ Standing(h)'
    <3>1. CASE o = r
      BY <1>3, <1>5, <2>1, <2>2, <3>1
    <3>2. CASE o # r
      BY <1>5, <2>1, <2>2, <3>2 DEF KnownHolds
    <3>3. QED
      BY <3>1, <3>2
  <2>4. QED
    BY <1>4, <2>1, <2>3 DEF KnownHolds
<1>9. QED
  BY <1>2, <1>4, <1>5, <1>6, <1>8, RequestsAssumption, QuietStep
     DEF Before, Running, Shapes

LEMMA ReturnSeatsStep ==
    ASSUME IInv, NEW r \in Requests, ReturnSeats(r) PROVE IInv'
<1> USE DEF IInv
<1>1. PICK h \in todo[r] : Goto(r, IF todo[r] = {h} THEN "flush" ELSE "return")
  BY DEF ReturnSeats
<1>2. pc[r] = "return" /\ UNCHANGED <<status, dStatus, leg, stale, mem>>
  BY DEF ReturnSeats, db
<1> DEFINE l == IF todo[r] = {h} THEN "flush" ELSE "return"
<1>3. l \in {"flush", "return"} /\ Goto(r, l)
  BY <1>1
<1> HIDE DEF l
<1>4. KnownHolds'
  BY <1>2, <1>3, StillKnown DEF Running
<1>5. QED
  BY <1>2, <1>3, <1>4, QuietStep DEF Before, Running, Shapes

LEMMA FlushExpiredStep ==
    ASSUME IInv, NEW r \in Requests, FlushExpired(r) PROVE IInv'
<1> USE DEF IInv
<1> DEFINE l == AfterExpiry(r)
<1>1. /\ pc[r] = "flush" /\ WriteStatus(r, stale[r], "expired") /\ Goto(r, l)
      /\ UNCHANGED <<status, leg>> /\ stale' = [stale EXCEPT ![r] = {}]
      /\ mem' = IF r \in Holders THEN mem
                ELSE [mem EXCEPT ![r] =
                        [h \in DOMAIN mem[r] |-> IF h \in stale[r] THEN "expired" ELSE mem[r][h]]]
  BY DEF FlushExpired, db
<1>2. /\ l \in Running \ {"refuse"}
      /\ r \in Holders => l = "take"
      /\ r \notin Holders => l \in {"check", "select"}
  BY DEF AfterExpiry, Running
<1> HIDE DEF l
<1>3. pc' \in [Requests -> Running \cup Ended \cup {"idle"}]
      /\ pc'[r] = l /\ \A o \in Requests \ {r} : pc'[o] = pc[o]
  BY <1>1, <1>2, Moved DEF Shapes
<1>4. /\ stale' \in [Requests -> SUBSET Holds] /\ stale'[r] = {}
      /\ \A o \in Requests \ {r} : stale'[o] = stale[o]
  BY <1>1 DEF Shapes
<1>5. /\ DOMAIN mem' = Confirmers
      /\ \A o \in Confirmers : DOMAIN mem'[o] = DOMAIN mem[o]
      /\ \A o \in Confirmers : \A h \in DOMAIN mem[o] :
            mem'[o][h] = "active" => mem[o][h] = "active"
  BY <1>1 DEF Shapes
<1>6. KnownHolds'
  <2>1. \A h \in Holds : Standing(h) => Standing(h)'
    BY <1>1, <1>3, StandsStill
  <2>2. \A o \in Requests : \A h \in stale'[o] : h \in stale[o] /\ h \in Holds
    BY <1>4 DEF Shapes
  <2>3. QED
    BY <1>5, <2>1, <2>2 DEF KnownHolds
<1>7. Programs'
  BY <1>2, <1>3, RequestsAssumption DEF Programs, Requests
<1>8. /\ \A o \in Requests : DOMAIN dStatus[o] \subseteq DOMAIN dStatus'[o]
      /\ \A o \in Requests \ {r} : dStatus'[o] = dStatus[o]
  BY <1>1, Written DEF Shapes
<1>9. Progress'
  <2>1. r \in Holders => pc'[r] # "commit" /\ pc[r] \in Before
    BY <1>1, <1>2, <1>3 DEF Before
  <2>2. QED
    BY <1>1, <1>3, <1>8, <2>1 DEF Progress, Before, Requests
<1>10. stale[r] \in SUBSET Holds
  BY DEF Shapes
<1>11. \A h \in stale[r] : h[1] # r => Standing(h)
  BY DEF KnownHolds
<1>12. QED
  BY <1>1, <1>2, <1>4, <1>5, <1>6, <1>7, <1>9, <1>10, <1>11, WriteStep
     DEF Shapes, Running, HoldStatus

LEMMA BeginHoldStep ==
    ASSUME IInv, NEW r \in Requests, BeginHold(r) PROVE IInv'
<1> USE DEF IInv
<1>1. /\ r \in Holders /\ pc[r] = "idle" /\ Goto(r, "select")
      /\ UNCHANGED <<status, dStatus, leg, stale, mem>>
  BY DEF BeginHold, db, session
<1>2. KnownHolds'
  BY <1>1, StillKnown DEF Running
<1>3. QED
  BY <1>1, <1>2, QuietStep, RequestsAssumption DEF Before, Running, Shapes

LEMMA RefuseStep ==
    ASSUME IInv, NEW r \in Requests, RefuseSeats(r) \/ RefuseItem(r) PROVE IInv'
<1> USE DEF IInv
<1>1. /\ pc[r] \in {"take", "select"} /\ Goto(r, "release")
      /\ UNCHANGED <<status, dStatus, leg, stale, mem>>
  BY DEF RefuseSeats, RefuseItem, db, session
<1>2. r \in Holders
  BY DEF RefuseSeats, RefuseItem, Programs, Requests
<1>3. KnownHolds'
  BY <1>1, StillKnown DEF Running
<1>4. QED
  BY <1>1, <1>2, <1>3, QuietStep, RequestsAssumption DEF Before, Running, Shapes

LEMMA TakeSeatsStep ==
    ASSUME IInv, NEW r \in Requests, TakeSeats(r) PROVE IInv'
<1> USE DEF IInv
<1> DEFINE h == <<r, leg[r]>>
<1> DEFINE l == IF leg[r] < Len(Legs[r]) THEN "select" ELSE "commit"
<1>1. /\ pc[r] = "take" /\ WriteStatus(r, {h}, "active") /\ Goto(r, l)
      /\ leg' = IF leg[r] < Len(Legs[r]) THEN [leg EXCEPT ![r] = leg[r] + 1] ELSE leg
      /\ UNCHANGED <<status, stale, mem>>
  BY DEF TakeSeats, db
<1>2. r \in Holders
  BY <1>1 DEF Programs, Requests
<1>3. /\ Len(Legs[r]) \in Nat /\ leg[r] \in 1 .. Len(Legs[r]) /\ h \in Group(r) /\ h \in Holds
      /\ h[1] = r
  BY <1>2, GroupRows DEF Progress
<1>4. /\ leg' \in [Holders -> Nat] /\ \A o \in Holders \ {r} : leg'[o] = leg[o]
      /\ leg'[r] = IF leg[r] < Len(Legs[r]) THEN leg[r] + 1 ELSE leg[r]
  BY <1>1, <1>2, <1>3 DEF Shapes
<1>5. l \in {"select", "commit"} /\ (l = "commit" => leg[r] = Len(Legs[r]))
      /\ (l = "select" => leg[r] < Len(Legs[r]))
  BY <1>3
<1>6. /\ \A o \in Requests \ {r} : dStatus'[o] = dStatus[o]
      /\ DOMAIN dStatus'[r] = {h} \cup DOMAIN dStatus[r]
  BY <1>1, Written DEF Shapes
<1> HIDE DEF l
<1>7. pc'[r] = l /\ \A o \in Requests \ {r} : pc'[o] = pc[o]
  BY <1>1, <1>5, Moved DEF Shapes, Running
<1>8. KnownHolds'
  BY <1>1, <1>5, StillKnown DEF Running
<1>9. Programs'
  BY <1>2, <1>5, <1>7, RequestsAssumption DEF Programs, Requests
<1>10. Progress'
  <2>1. \A i \in 1 .. leg[r] - 1 : <<r, i>> \in DOMAIN dStatus[r]
    BY <1>1, <1>2 DEF Progress
  <2>2. \A i \in 1 .. leg[r] : <<r, i>> \in DOMAIN dStatus'[r]
    BY <1>3, <1>6, <2>1
  <2>3. \A o \in Holders \ {r} :
          /\ leg'[o] \in 1 .. Len(Legs[o])
          /\ pc'[o] \in {"idle", "select", "return", "flush", "take"} =>
              \A i \in 1 .. leg'[o] - 1 : <<o, i>> \in DOMAIN dStatus'[o]
          /\ pc'[o] = "commit" => Group(o) \subseteq DOMAIN dStatus'[o]
                                  \/ Group(o) \cap DOMAIN dStatus'[o] = {}
    BY <1>4, <1>6, <1>7 DEF Progress, Requests
  <2>4. CASE l = "select"
    <3>1. leg'[r] = leg[r] + 1 /\ leg'[r] \in 1 .. Len(Legs[r]) /\ leg'[r] - 1 = leg[r]
      BY <1>3, <1>4, <1>5, <2>4
    <3>2. QED
      BY <1>7, <2>2, <2>3, <2>4, <3>1 DEF Progress
  <2>5. CASE l = "commit"
    <3>1. leg'[r] = leg[r] /\ leg'[r] \in 1 .. Len(Legs[r])
      BY <1>3, <1>4, <1>5, <2>5
    <3>2. Group(r) \subseteq DOMAIN dStatus'[r]
      BY <1>2, <1>5, <2>2, <2>5, GroupRows
    <3>3. QED
      BY <1>7, <2>3, <2>5, <3>1, <3>2 DEF Progress
  <2>6. QED
    BY <1>5, <2>4, <2>5
<1>11. stale' \in [Requests -> SUBSET Holds] /\ DOMAIN mem' = Confirmers
  BY <1>1 DEF Shapes
<1>12. {h} \in SUBSET Holds /\ \A x \in {h} : x[1] = r
  BY <1>3
<1> HIDE DEF h
<1>13. QED
  BY <1>1, <1>4, <1>5, <1>8, <1>9, <1>10, <1>11, <1>12, WriteStep DEF Running, HoldStatus

LEMMA ReleaseHoldsStep ==
    ASSUME IInv, NEW r \in Requests, ReleaseHolds(r) PROVE IInv'
<1> USE DEF IInv
<1>1. /\ pc[r] = "release" /\ WriteStatus(r, Created(r), "released") /\ Goto(r, "refuse")
      /\ UNCHANGED <<status, leg, stale, mem>>
  BY DEF ReleaseHolds, db, session
<1>2. r \in Holders
  BY <1>1 DEF Programs, Requests
<1>3. pc'[r] = "refuse" /\ \A o \in Requests \ {r} : pc'[o] = pc[o]
  BY <1>1, Moved DEF Shapes, Running
<1>4. Created(r) \in SUBSET Holds /\ \A h \in Created(r) : h[1] = r
  BY <1>2, GroupRows DEF Created
<1>5. ASSUME NEW h \in DOMAIN dStatus[r] \ Created(r), h[1] = r
      PROVE  dStatus[r][h] \in {"released", "expired"}
  <2>1. h \in Holds /\ h \in Group(r)
    BY <1>5, Members DEF Shapes
  <2>2. StatusSeen(r, h) # "active"
    BY <1>5, <2>1 DEF Created
  <2>3. StatusSeen(r, h) = dStatus[r][h]
    <3>1. \A x \in DOMAIN dStatus[r] : Over(dStatus[r], status)[x] = dStatus[r][x]
      BY OverIs
    <3>2. QED
      BY <1>5, <3>1 DEF StatusSeen
  <2>4. QED
    BY <1>1, <1>2, <1>5, <2>2, <2>3 DEF OwnRows
<1>6. KnownHolds'
  BY <1>1, StillKnown DEF Running
<1>7. Programs'
  BY <1>2, <1>3, RequestsAssumption DEF Programs, Requests
<1>8. \A o \in Requests \ {r} : dStatus'[o] = dStatus[o]
  BY <1>1, Written DEF Shapes
<1>9. Progress'
  BY <1>1, <1>3, <1>8 DEF Progress, Requests
<1>10. QED
  BY <1>1, <1>4, <1>5, <1>6, <1>7, <1>9, WriteStep DEF Running, HoldStatus, Shapes

LEMMA ReplayStep ==
    ASSUME IInv, NEW r \in Requests, Replay(r) PROVE IInv'
<1> USE DEF IInv
<1>1. /\ r \in Confirmers /\ pc[r] = "idle" /\ Goto(r, "replayed")
      /\ UNCHANGED <<status, dStatus, leg, stale, mem>>
  BY DEF Replay, db, session
<1>2. KnownHolds'
  BY <1>1, StillKnown DEF Ended
<1>3. QED
  BY <1>1, <1>2, QuietStep, RequestsAssumption DEF Shapes

LEMMA LoadHoldsStep ==
    ASSUME IInv, NEW r \in Requests, LoadHolds(r) PROVE IInv'
<1> USE DEF IInv
<1> DEFINE group == {h \in Group(Target[r]) : status[h] # "none"}
<1> DEFINE l == IF group = {} THEN "rolled_back" ELSE "select"
<1>1. /\ r \in Confirmers /\ pc[r] = "idle" /\ Goto(r, l)
      /\ mem' = [mem EXCEPT ![r] = [h \in group |-> status[h]]]
      /\ UNCHANGED <<status, dStatus, leg, stale>>
  BY DEF LoadHolds, db
<1>2. l \in {"rolled_back", "select"}
  OBVIOUS
<1>3. group \subseteq Holds
  BY DEF Group
<1>4. \A h \in group : status[h] = "active" => Standing(h)
  BY <1>3, Members DEF Together, Standing
<1> HIDE DEF group, l
<1>5. /\ DOMAIN mem' = Confirmers /\ DOMAIN mem'[r] = group
      /\ \A h \in group : mem'[r][h] = status[h]
      /\ \A o \in Confirmers \ {r} : mem'[o] = mem[o]
  BY <1>1 DEF Shapes
<1>6. pc'[r] = l /\ \A o \in Requests \ {r} : pc'[o] = pc[o]
  BY <1>1, <1>2, Moved DEF Shapes, Running, Ended
<1>7. \A h \in Holds : Standing(h) => Standing(h)'
  BY <1>1, <1>6, StandsStill
<1>8. KnownHolds'
  <2>1. \A o \in Requests : \A h \in stale'[o] : h[1] = o \/ Standing(h)'
    BY <1>1, <1>7 DEF KnownHolds, Shapes
  <2>2. ASSUME NEW o \in Confirmers, NEW h \in DOMAIN mem'[o]
        PROVE  h \in Holds /\ (mem'[o][h] = "active" => Standing(h)')
    <3>1. CASE o = r
      BY <1>3, <1>4, <1>5, <1>7, <3>1
    <3>2. CASE o # r
      BY <1>5, <1>7, <3>2 DEF KnownHolds
    <3>3. QED
      BY <3>1, <3>2
  <2>3. QED
    BY <2>1, <2>2 DEF KnownHolds
<1>9. QED
  BY <1>1, <1>2, <1>5, <1>8, QuietStep, RequestsAssumption DEF Shapes, Running

LEMMA CheckHoldsStep ==
    ASSUME IInv, NEW r \in Requests, CheckHolds(r) PROVE IInv'
<1> USE DEF IInv
<1>1. pc[r] = "check" /\ UNCHANGED <<status, leg, stale, mem>>
  BY DEF CheckHolds, db, session
<1>2. r \in Confirmers /\ r \notin Holders
  BY <1>1, RequestsAssumption DEF Programs, Requests
<1>3. CASE Live(r)
  <2>1. Goto(r, "convert") /\ UNCHANGED dStatus
    BY <1>3 DEF CheckHolds
  <2>2. KnownHolds'
    BY <1>1, <2>1, StillKnown DEF Running
  <2>3. QED
    BY <1>1, <1>2, <2>1, <2>2, QuietStep DEF Shapes, Running
<1>4. CASE ~Live(r)
  BY <1>1, <1>4, AbortStep DEF CheckHolds, Running
<1>5. QED
  BY <1>3, <1>4

LEMMA ConvertHoldsStep ==
    ASSUME IInv, NEW r \in Requests, ConvertHolds(r) PROVE IInv'
<1> USE DEF IInv
<1>1. /\ pc[r] = "convert" /\ WriteStatus(r, Converted(r), "converted") /\ Goto(r, "commit")
      /\ UNCHANGED <<status, leg, stale, mem>>
  BY DEF ConvertHolds, db, session
<1>2. r \in Confirmers /\ r \notin Holders
  BY <1>1, RequestsAssumption DEF Programs, Requests
<1>3. pc'[r] = "commit" /\ \A o \in Requests \ {r} : pc'[o] = pc[o]
  BY <1>1, Moved DEF Shapes, Running
<1>4. /\ Converted(r) \in SUBSET Holds
      /\ \A h \in Converted(r) : Standing(h)
  BY <1>2 DEF Converted, KnownHolds
<1>5. KnownHolds'
  BY <1>1, StillKnown DEF Running
<1>6. Programs'
  BY <1>2, <1>3, RequestsAssumption DEF Programs, Requests
<1>7. \A o \in Requests \ {r} : dStatus'[o] = dStatus[o]
  BY <1>1, Written DEF Shapes
<1>8. Progress'
  BY <1>1, <1>2, <1>3, <1>7 DEF Progress, Requests
<1>9. QED
  BY <1>1, <1>2, <1>4, <1>5, <1>6, <1>8, WriteStep DEF Running, HoldStatus, Shapes

\* The rows of a group are published by its own request, all of them, or none
\* but released ones; what others publish was committed before.
LEMMA CommitStep ==
    ASSUME IInv, NEW r \in Requests, Commit(r) PROVE IInv'
<1> USE DEF IInv
<1> DEFINE l == IF pc[r] = "commit" THEN "committed" ELSE "refused"
<1>1. /\ pc[r] \in {"commit", "refuse"} /\ Goto(r, l) /\ CloseSession(r)
      /\ status' = Over(dStatus[r], status) /\ UNCHANGED <<leg, stale, mem>>
  BY DEF Commit, session
<1>2. l \in {"committed", "refused"} /\ (l = "committed" <=> pc[r] = "commit")
  OBVIOUS
<1> HIDE DEF l
<1>3. /\ pc' \in [Requests -> Running \cup Ended \cup {"idle"}]
      /\ pc'[r] = l /\ \A o \in Requests \ {r} : pc'[o] = pc[o]
  BY <1>1, <1>2, Moved DEF Shapes, Ended
<1>4. /\ DOMAIN dStatus' = Requests /\ DOMAIN dStatus'[r] = {}
      /\ \A o \in Requests \ {r} : dStatus'[o] = dStatus[o]
  BY <1>1, Closed DEF Shapes
<1>5. /\ \A h \in DOMAIN dStatus[r] : status'[h] = dStatus[r][h]
      /\ \A h \in Holds \ DOMAIN dStatus[r] : status'[h] = status[h]
  <2>1. /\ \A x \in DOMAIN dStatus[r] : Over(dStatus[r], status)[x] = dStatus[r][x]
        /\ \A x \in DOMAIN status \ DOMAIN dStatus[r] : Over(dStatus[r], status)[x] = status[x]
    BY OverIs
  <2>2. QED
    BY <1>1, <2>1 DEF Shapes
<1>7. ASSUME NEW h \in DOMAIN dStatus[r]
      PROVE  /\ h[1] # r => Standing(h) /\ status'[h] \in {"expired", "converted"}
             /\ h[1] = r /\ pc[r] = "commit" => status'[h] \in {"active", "expired"}
             /\ h[1] = r /\ pc[r] = "refuse" => status'[h] \in {"released", "expired"}
  <2>1. h \in Holds /\ h[1] \in Holders
    BY Members DEF Shapes
  <2>2. QED
    BY <1>1, <1>5, <2>1 DEF OthersRows, OwnRows
<1>6. ASSUME NEW h \in Holds, Standing(h) PROVE Standing(h)'
  <2>1. h[1] \in Requests \ {r} /\ pc'[h[1]] = "committed"
    BY <1>1, <1>3, <1>6, Members DEF Standing, Requests
  <2>2. status'[h] \notin {"none", "released"}
    BY <1>5, <1>6, <1>7, <2>1 DEF Standing
  <2>3. QED
    BY <2>1, <2>2 DEF Standing
<1>8. Shapes'
  <2>1. status' \in [Holds -> Status]
    <3>1. DOMAIN status' = Holds /\ status' = [h \in DOMAIN status' |-> status'[h]]
      <4>1. DOMAIN Over(dStatus[r], status) = DOMAIN dStatus[r] \cup DOMAIN status
        BY OverIs
      <4>2. DOMAIN status' = Holds
        BY <1>1, <4>1 DEF Shapes
      <4>3. QED
        BY <1>1, <4>2 DEF Over
    <3>2. \A h \in Holds : status'[h] \in Status
      BY <1>1, <1>5, <1>7 DEF Shapes, Status, HoldStatus
    <3>3. QED
      BY <3>1, <3>2
  <2>2. QED
    BY <1>1, <1>3, <1>4, <2>1 DEF Shapes
<1>9. Programs'
  BY <1>1, <1>2, <1>3, RequestsAssumption DEF Programs, Requests
<1>10. OthersRows'
  BY <1>3, <1>4, <1>6 DEF OthersRows, Shapes
<1>11. KnownHolds'
  BY <1>1, <1>6 DEF KnownHolds, Shapes
<1>12. OwnRows'
  BY <1>3, <1>4 DEF OwnRows, Requests
<1>13. Progress'
  BY <1>1, <1>2, <1>3, <1>4 DEF Progress, Requests
<1>14. Together'
  <2> SUFFICES ASSUME NEW g \in Holders
               PROVE  /\ pc'[g] = "committed" =>
                          \/ \A h \in Group(g) : status'[h] \notin {"none", "released"}
                          \/ \A h \in Group(g) : status'[h] = "none"
                      /\ pc'[g] = "refused" =>
                          \A h \in Group(g) : status'[h] \in {"none", "released", "expired"}
                      /\ pc'[g] \notin {"committed", "refused"} =>
                          \A h \in Group(g) : status'[h] = "none"
    BY DEF Together
  <2>1. \A h \in Group(g) : h \in Holds /\ h[1] = g
    BY GroupRows
  <2>2. CASE g # r
    <3>1. pc'[g] = pc[g]
      BY <1>3, <2>2 DEF Requests
    <3>2. \A h \in Group(g) : h \in DOMAIN dStatus[r] =>
            pc[g] = "committed" /\ status[h] # "none" /\ status'[h] \notin {"none", "released"}
      BY <1>7, <2>1, <2>2 DEF Standing
    <3>3. QED
      BY <1>5, <2>1, <3>1, <3>2 DEF Together
  <2>3. CASE g = r /\ pc[r] = "commit"
    <3>1. Group(g) \subseteq DOMAIN dStatus[r] \/ Group(g) \cap DOMAIN dStatus[r] = {}
      BY <2>3 DEF Progress
    <3>2. \A h \in Group(g) : status[h] = "none"
      BY <2>3 DEF Together
    <3>3. QED
      BY <1>2, <1>3, <1>5, <1>7, <2>1, <2>3, <3>1, <3>2
  <2>4. CASE g = r /\ pc[r] = "refuse"
    <3>1. \A h \in Group(g) : status[h] = "none"
      BY <2>4 DEF Together
    <3>2. QED
      BY <1>2, <1>3, <1>5, <1>7, <2>1, <2>4, <3>1
  <2>5. QED
    BY <1>1, <2>2, <2>3, <2>4
<1>15. QED
  BY <1>8, <1>9, <1>10, <1>11, <1>12, <1>13, <1>14

-----------------------------------------------------------------------------
(* Every step keeps the rows of the groups *)

LEMMA StepIInv == IInv /\ [Next]_vars => IInv'
<1> SUFFICES ASSUME IInv, [Next]_vars PROVE IInv'
  OBVIOUS
<1>1. CASE UNCHANGED <<pc, status, leg, stale, dStatus, mem>>
  BY <1>1 
     DEF IInv, Shapes, Programs, OthersRows, KnownHolds, OwnRows, Progress, Together, Standing
<1>2. ASSUME NEW r \in Requests, Rollback(r) PROVE IInv'
  BY <1>2, AbortStep DEF Rollback, db, session
<1>3. ASSUME NEW r \in Requests, BeginHold(r) \/ Replay(r) \/ LoadHolds(r) \/ RefuseItem(r)
      PROVE  IInv'
  BY <1>3, BeginHoldStep, ReplayStep, LoadHoldsStep, RefuseStep
<1>4. ASSUME NEW r \in Requests, Step(r) PROVE IInv'
  BY <1>4, SelectStaleHoldsStep, ReturnSeatsStep, FlushExpiredStep, TakeSeatsStep,
     RefuseStep, ReleaseHoldsStep, CheckHoldsStep, ConvertHoldsStep, CommitStep DEF Step
<1>5. CASE Forget \/ Tick \/ Terminating \/ UNCHANGED vars
  BY <1>1, <1>5 DEF Forget, Tick, Terminating, vars, db, session
<1>6. QED
  BY <1>2, <1>3, <1>4, <1>5 DEF Next

-----------------------------------------------------------------------------
(* Types and sessions: the inductive invariant *)

\* A session that has ended has written nothing that is not committed.
Types ==
    /\ now \in 0 .. MaxTime
    /\ seats \in [Cabins -> Int] /\ commits \in [Cabins -> Nat]
    /\ expires \in [Holds -> 0 .. MaxTime + HoldMinutes]
    /\ booked \subseteq Confirmers
    /\ DOMAIN dSeats = Requests /\ DOMAIN cabin = Requests
    /\ todo \in [Requests -> SUBSET Holds]
    /\ since \in [Requests -> Nat] /\ left \in [Confirmers -> SUBSET Cabins]
    /\ dropped \in [Requests -> SUBSET Holds]
    /\ \A r \in Requests :
        /\ DOMAIN dSeats[r] \subseteq Cabins
        /\ \A c \in DOMAIN dSeats[r] : dSeats[r][c] \in Int
        /\ \A h \in DOMAIN dStatus[r] : dStatus[r][h] \in HoldStatus
        /\ pc[r] \in {"return", "flush"} => cabin[r] \in Cabins
        /\ pc[r] \notin Running => dSeats[r] = Nothing /\ dStatus[r] = Nothing

TInv == IInv /\ Types

-----------------------------------------------------------------------------
(* Sales: the inductive invariant *)

\* What a confirmation works on: the holds of its group that it has loaded,
\* all of them if one was active; past the check all are, and the converted
\* rows are those.
Loaded(r) ==
    /\ DOMAIN mem[r] \subseteq Group(Target[r])
    /\ pc[r] \in Running =>
        /\ DOMAIN mem[r] # {}
        /\ \/ DOMAIN mem[r] = Group(Target[r])
           \/ \A h \in DOMAIN mem[r] : mem[r][h] # "active"
    /\ pc[r] \in {"convert", "commit"} => \A h \in DOMAIN mem[r] : mem[r][h] = "active"
    /\ pc[r] = "commit" => \A h \in Group(Target[r]) :
        h \in DOMAIN dStatus[r] /\ dStatus[r][h] = "converted"

Conversions(r) ==
    \A h \in DOMAIN dStatus[r] : dStatus[r][h] = "converted" =>
        r \in Confirmers /\ pc[r] = "commit" /\ h \in Group(Target[r])

\* A sold group is closed: its holds were committed and are not active.
Sales ==
    \A r \in booked :
        /\ r \in Confirmers /\ pc[r] = "committed" /\ Group(Target[r]) # {}
        /\ \A h \in Group(Target[r]) :
            pc[h[1]] = "committed" /\ status[h] \in {"converted", "expired"}

SInv ==
    TInv /\ (\A r \in Confirmers : Loaded(r)) /\ (\A r \in Requests : Conversions(r)) /\ Sales

\* A client sends no confirmation of a group while another is unanswered.
RetriesWait ==
    \A r, s \in Confirmers :
        r # s /\ Target[r] = Target[s] => s \in After[r] \/ r \in After[s]

\* A confirmation begins after those its client waited for, and sees what they sold.
Turns ==
    \A r \in Confirmers : \A s \in After[r] \cap Confirmers :
        pc[r] # "idle" =>
            /\ pc[s] \in Ended
            /\ s \in booked /\ Target[r] = Target[s] /\ pc[r] \in Running =>
                \E h \in DOMAIN mem[r] : mem[r][h] # "active"

-----------------------------------------------------------------------------
(* Seats: the inductive invariant *)

\* During the life of one hold none lapses.
NothingLapses == MaxTime <= HoldMinutes

CabinLocks ==
    \A r \in Requests : \A o \in Requests \ {r} : DOMAIN dSeats[r] \cap DOMAIN dSeats[o] = {}

\* expire_stale_holds works on holds of one cabin that its session sees active.
Expiring(r) ==
    /\ pc[r] \in (Running \ {"return", "flush"}) \cup {"idle"} => stale[r] = {}
    /\ pc[r] \in (Running \ {"return"}) \cup {"idle"} => todo[r] = {}
    /\ pc[r] \in {"return", "flush"} => todo[r] \subseteq stale[r] /\ \A h \in stale[r] :
        /\ Cabin(h) = cabin[r]
        /\ h \in DOMAIN dStatus[r] => dStatus[r][h] = "active"
        /\ h[1] = r => h \in DOMAIN dStatus[r]

\* The rows of the items still to be held, and of the holds a confirmation has
\* loaded active, are not written yet.
Unwritten ==
    /\ \A r \in Holders : pc[r] \in Before =>
        \A i \in leg[r] .. Len(Legs[r]) : <<r, i>> \notin DOMAIN dStatus[r]
    /\ \A r \in Confirmers : pc[r] # "commit" =>
        \A h \in DOMAIN mem[r] : mem[r][h] = "active" => h \notin DOMAIN dStatus[r]

\* The stale holds whose seats r could not give back are others' and committed;
\* r is about to expire them or has done so.
Drops(r) ==
    /\ pc[r] = "idle" => dropped[r] = {}
    /\ \A h \in dropped[r] : h[1] # r /\ pc[h[1]] = "committed"
    /\ pc[r] \in Running => \A h \in dropped[r] :
        \/ pc[r] \in {"return", "flush"} /\ h \in stale[r] \ todo[r]
        \/ h \in DOMAIN dStatus[r] /\ dStatus[r][h] # "active"

\* No lost seat is held: nobody gives it back, nobody loses it twice.
LostIsGone == \A h \in Dropped : status[h] # "active"

\* The seats of h that r has given back as stale, and those it has taken.
Gave(r, h) ==
    /\ h \notin dropped[r]
    /\ \/ pc[r] \in {"return", "flush"} /\ h \in stale[r] \ todo[r]
       \/ h \in DOMAIN dStatus[r] /\ h[1] # r /\ dStatus[r][h] = "expired"
Took(r, h) == h \in DOMAIN dStatus[r] /\ h[1] = r /\ dStatus[r][h] = "active"
Moves(r) ==
    [h \in Holds |-> (IF Gave(r, h) THEN Quantity(h) ELSE 0) - (IF Took(r, h) THEN Quantity(h) ELSE 0)]

HoldsIn(c) == {h \in Holds : Cabin(h) = c}

\* An uncommitted count is the committed one and what its request has moved,
\* and the cabin of a hold that it took is locked.
Account(r) ==
    /\ \A c \in Cabins : SeatsSeen(r, c) = seats[c] + SumFunctionOnSet(Moves(r), HoldsIn(c))
    /\ \A h \in Holds : Took(r, h) => Cabin(h) \in DOMAIN dSeats[r]

Inv ==
    /\ SInv /\ CabinLocks /\ (\A r \in Requests : Expiring(r)) /\ Unwritten
    /\ (\A r \in Requests : Drops(r)) /\ LostIsGone /\ (\A r \in Requests : Account(r))

\* As long as no hold lapses, nothing is stale and nothing expires, and what a
\* confirmation has seen active is active.
Lasting ==
    /\ \A r \in Requests :
        /\ stale[r] = {} /\ todo[r] = {}
        /\ \A h \in DOMAIN dStatus[r] :
            dStatus[r][h] # "expired" /\ (dStatus[r][h] = "active" => expires[h] >= HoldMinutes)
    /\ \A h \in Holds :
        status[h] # "expired" /\ (status[h] = "active" => expires[h] >= HoldMinutes)

Current ==
    \A r \in Confirmers : pc[r] \in Running =>
        \A h \in DOMAIN mem[r] : mem[r][h] = "active" => status[h] = "active"

FreshInv == Inv /\ Turns /\ Lasting /\ Current


-----------------------------------------------------------------------------
(* What a step of one request leaves alone *)

RequestStep(r) ==
    BeginHold(r) \/ Replay(r) \/ LoadHolds(r) \/ RefuseItem(r) \/ Step(r) \/ Rollback(r)

LEMMA Frame ==
    ASSUME TInv, NEW r \in Requests, RequestStep(r)
    PROVE  /\ pc[r] \in Running \cup {"idle"} /\ now' = now
           /\ \A o \in Requests \ {r} :
                /\ pc'[o] = pc[o] /\ dSeats'[o] = dSeats[o] /\ dStatus'[o] = dStatus[o]
                /\ stale'[o] = stale[o] /\ todo'[o] = todo[o] /\ dropped'[o] = dropped[o]
           /\ \A o \in Confirmers \ {r} : mem'[o] = mem[o] /\ left'[o] = left[o]
<1> DEFINE Goes == pc[r] \in Running \cup {"idle"} /\ now' = now /\ \E l : Goto(r, l)
           Seats == \A o \in Requests \ {r} : dSeats'[o] = dSeats[o]
           Writes == \A o \in Requests \ {r} : dStatus'[o] = dStatus[o]
           Stale == \A o \in Requests \ {r} :
                stale'[o] = stale[o] /\ todo'[o] = todo[o] /\ dropped'[o] = dropped[o]
           Copies == \A o \in Confirmers \ {r} : mem'[o] = mem[o] /\ left'[o] = left[o]
<1>1. Goes
  BY DEF RequestStep, Step, BeginHold, Replay, LoadHolds, RefuseItem, Rollback, Running,
     SelectStaleHolds, ReturnSeats, FlushExpired, TakeSeats, RefuseSeats, ReleaseHolds,
     CheckHolds, ConvertHolds, Commit
<1> USE DEF TInv, IInv, Shapes, Types
<1>2. \A o \in Requests \ {r} : pc'[o] = pc[o]
  BY <1>1 DEF Goto
<1>3. CASE SelectStaleHolds(r) \/ ReturnSeats(r) \/ FlushExpired(r)
  <2>1. Seats /\ Writes
    BY <1>3 DEF SelectStaleHolds, ReturnSeats, FlushExpired, Adjusted, WriteStatus
  <2>2. Stale /\ Copies
    <3>1. CASE SelectStaleHolds(r)
      BY <3>1 DEF SelectStaleHolds
    <3>2. CASE ReturnSeats(r)
      BY <3>2 DEF ReturnSeats
    <3>3. CASE FlushExpired(r)
      BY <3>3 DEF FlushExpired
    <3>4. QED
      BY <1>3, <3>1, <3>2, <3>3
  <2>3. QED
    BY <1>1, <1>2, <2>1, <2>2
<1>4. CASE TakeSeats(r) \/ RefuseSeats(r) \/ ReleaseHolds(r) \/ CheckHolds(r) \/ ConvertHolds(r)
  <2>1. Seats /\ Writes
    <3>1. CASE TakeSeats(r) \/ RefuseSeats(r)
      BY <3>1 DEF TakeSeats, RefuseSeats, Adjusted, WriteStatus
    <3>2. CASE ReleaseHolds(r) \/ CheckHolds(r) \/ ConvertHolds(r)
      BY <3>2 DEF ReleaseHolds, CheckHolds, ConvertHolds, CloseSession, WriteStatus
    <3>3. QED
      BY <1>4, <3>1, <3>2
  <2>2. UNCHANGED <<stale, todo, dropped, mem, left>>
    BY <1>4 DEF TakeSeats, RefuseSeats, ReleaseHolds, CheckHolds, ConvertHolds, session
  <2>3. QED
    BY <1>1, <1>2, <2>1, <2>2
<1>5. CASE BeginHold(r) \/ Replay(r) \/ LoadHolds(r) \/ RefuseItem(r) \/ Commit(r) \/ Rollback(r)
  <2>1. Seats /\ Writes
    BY <1>5 DEF BeginHold, Replay, LoadHolds, RefuseItem, Commit, Rollback, CloseSession
  <2>2. UNCHANGED <<stale, todo, dropped>> /\ Copies
    BY <1>5 DEF BeginHold, Replay, LoadHolds, RefuseItem, Commit, Rollback, session
  <2>3. QED
    BY <1>1, <1>2, <2>1, <2>2
<1>6. QED
  BY <1>3, <1>4, <1>5 DEF RequestStep, Step


-----------------------------------------------------------------------------
(* Holds, counts and rows *)

LEMMA HoldFacts ==
    /\ IsFiniteSet(Holds) /\ IsFiniteSet(Requests)
    /\ \A h \in Holds : Cabin(h) \in Cabins /\ Quantity(h) \in Nat
<1>1. IsFiniteSet(Requests)
  BY RequestsAssumption, FS_Union DEF Requests
<1>2. ASSUME NEW g \in Holders PROVE IsFiniteSet({<<g, i>> : i \in DOMAIN Legs[g]})
  <2> DEFINE S == {<<g, i>> : i \in DOMAIN Legs[g]}
             f == [i \in 1 .. Len(Legs[g]) |-> <<g, i>>]
  <2>1. Len(Legs[g]) \in Nat /\ DOMAIN Legs[g] = 1 .. Len(Legs[g])
    BY RequestsAssumption
  <2>2. IsFiniteSet(1 .. Len(Legs[g]))
    BY <2>1, FS_Interval
  <2>3. f \in Surjection(1 .. Len(Legs[g]), S)
    BY <2>1 DEF Surjection
  <2> HIDE DEF f, S
  <2>4. IsFiniteSet(S)
    BY <2>2, <2>3, FS_Surjection
  <2>5. QED
    BY <2>4 DEF S
<1> DEFINE Of(g) == {<<g, i>> : i \in DOMAIN Legs[g]}
           all == {Of(g) : g \in Holders}
<1>3. IsFiniteSet(all)
  <2> DEFINE f == [g \in Holders |-> Of(g)]
  <2>1. f \in Surjection(Holders, all)
    BY DEF Surjection
  <2> HIDE DEF f, all
  <2>2. QED
    BY <2>1, RequestsAssumption, FS_Surjection
<1>4. IsFiniteSet(UNION all)
  <2>1. \A T \in all : IsFiniteSet(T)
    BY <1>2
  <2> HIDE DEF all
  <2>2. QED
    BY <1>3, <2>1, FS_UNION
<1>5. IsFiniteSet(Holds)
  BY <1>4 DEF Holds
<1>6. \A h \in Holds : Cabin(h) \in Cabins /\ Quantity(h) \in Nat
  <2> TAKE h \in Holds
  <2>1. h[1] \in Holders /\ h[2] \in DOMAIN Legs[h[1]]
    BY Members
  <2>2. \A L : \A s \in Seq(L) : \A i \in DOMAIN s : s[i] \in L
    OBVIOUS
  <2>3. Legs[h[1]] \in Seq([cabin : Cabins, quantity : Nat])
    BY <2>1, RequestsAssumption
  <2>4. Legs[h[1]][h[2]] \in [cabin : Cabins, quantity : Nat]
    BY <2>1, <2>2, <2>3
  <2>5. QED
    BY <2>4 DEF Cabin, Quantity
<1>7. QED
  BY <1>1, <1>5, <1>6

LEMMA QuantityType ==
    ASSUME NEW S \in SUBSET Holds PROVE QuantityOf(S) \in Nat /\ IsFiniteSet(S)
<1> DEFINE f == [h \in Holds |-> Quantity(h)]
<1>1. IsFiniteSet(S)
  BY HoldFacts, FS_Subset
<1>2. \A h \in S : f[h] \in Nat
  BY HoldFacts
<1>3. SumFunctionOnSet(f, S) \in Nat
  <2> HIDE DEF f
  <2>1. QED
    BY <1>1, <1>2, SumNat
<1>4. QED
  BY <1>1, <1>3 DEF QuantityOf

\* What a request sees of the rows it may have written.
LEMMA Seen ==
    ASSUME TInv, NEW r \in Requests
    PROVE  /\ \A c \in Cabins : SeatsSeen(r, c) =
                IF c \in DOMAIN dSeats[r] THEN dSeats[r][c] ELSE seats[c]
           /\ \A c \in Cabins : SeatsSeen(r, c) \in Int
           /\ \A h \in Holds : StatusSeen(r, h) =
                IF h \in DOMAIN dStatus[r] THEN dStatus[r][h] ELSE status[h]
<1>1. /\ \A x \in DOMAIN dSeats[r] : Over(dSeats[r], seats)[x] = dSeats[r][x]
      /\ \A x \in DOMAIN seats \ DOMAIN dSeats[r] : Over(dSeats[r], seats)[x] = seats[x]
  BY OverIs
<1>2. /\ \A x \in DOMAIN dStatus[r] : Over(dStatus[r], status)[x] = dStatus[r][x]
      /\ \A x \in DOMAIN status \ DOMAIN dStatus[r] : Over(dStatus[r], status)[x] = status[x]
  BY OverIs
<1>3. DOMAIN seats = Cabins /\ DOMAIN status = Holds
  BY DEF TInv, IInv, Shapes, Types
<1>4. \A c \in Cabins : SeatsSeen(r, c) =
        IF c \in DOMAIN dSeats[r] THEN dSeats[r][c] ELSE seats[c]
  BY <1>1, <1>3 DEF SeatsSeen
<1>5. \A h \in Holds : StatusSeen(r, h) =
        IF h \in DOMAIN dStatus[r] THEN dStatus[r][h] ELSE status[h]
  BY <1>2, <1>3 DEF StatusSeen
<1>6. \A c \in Cabins : SeatsSeen(r, c) \in Int
  BY <1>4 DEF TInv, Types
<1>7. QED
  BY <1>4, <1>5, <1>6

LEMMA AdjustedIs ==
    ASSUME TInv, NEW r \in Requests, NEW c \in Cabins, NEW delta \in Int, Adjusted(r, c, delta)
    PROVE  /\ DOMAIN dSeats' = Requests
           /\ DOMAIN dSeats'[r] = {c} \cup DOMAIN dSeats[r]
           /\ dSeats'[r][c] = SeatsSeen(r, c) + delta
           /\ \A x \in DOMAIN dSeats[r] \ {c} : dSeats'[r][x] = dSeats[r][x]
           /\ \A o \in Requests \ {r} : c \notin DOMAIN dSeats[o]
<1> DEFINE new == [x \in {c} |-> SeatsSeen(r, c) + delta]
<1>1. DOMAIN dSeats' = Requests /\ dSeats'[r] = Over(new, dSeats[r])
  BY DEF TInv, Types, Adjusted
<1>2. DOMAIN new = {c} /\ new[c] = SeatsSeen(r, c) + delta
  OBVIOUS
<1> HIDE DEF new
<1>3. /\ DOMAIN Over(new, dSeats[r]) = DOMAIN new \cup DOMAIN dSeats[r]
      /\ \A x \in DOMAIN new : Over(new, dSeats[r])[x] = new[x]
      /\ \A x \in DOMAIN dSeats[r] \ DOMAIN new : Over(new, dSeats[r])[x] = dSeats[r][x]
  BY OverIs
<1>4. QED
  BY <1>1, <1>2, <1>3 DEF Adjusted, CabinFree

\* What a commit makes of the committed rows.
LEMMA Committed ==
    ASSUME TInv, NEW r \in Requests, Commit(r)
    PROVE  /\ seats' \in [Cabins -> Int] /\ commits' \in [Cabins -> Nat]
           /\ \A c \in Cabins :
                /\ seats'[c] = IF c \in DOMAIN dSeats[r] THEN dSeats[r][c] ELSE seats[c]
                /\ commits'[c] = commits[c] + IF c \in DOMAIN dSeats[r] THEN 1 ELSE 0
           /\ \A h \in Holds :
                status'[h] = IF h \in DOMAIN dStatus[r] THEN dStatus[r][h] ELSE status[h]
           /\ dSeats'[r] = Nothing /\ dStatus'[r] = Nothing
           /\ DOMAIN dSeats' = Requests
           /\ pc'[r] = IF pc[r] = "commit" THEN "committed" ELSE "refused"
           /\ booked' = booked \cup ({r} \cap Confirmers)
<1>1. seats' = Over(dSeats[r], seats) /\ status' = Over(dStatus[r], status)
  BY DEF Commit
<1>2. seats' \in [Cabins -> Int]
  BY <1>1, OverType DEF TInv, Types
<1>3. \A c \in Cabins : seats'[c] = SeatsSeen(r, c)
  BY <1>1 DEF SeatsSeen
<1>4. \A h \in Holds : status'[h] = StatusSeen(r, h)
  BY <1>1 DEF StatusSeen
<1>5. commits' \in [Cabins -> Nat]
      /\ \A c \in Cabins : commits'[c] = commits[c] + IF c \in DOMAIN dSeats[r] THEN 1 ELSE 0
  BY DEF TInv, Types, Commit
<1>6. /\ dSeats'[r] = Nothing /\ dStatus'[r] = Nothing /\ DOMAIN dSeats' = Requests
      /\ pc'[r] = IF pc[r] = "commit" THEN "committed" ELSE "refused"
      /\ booked' = booked \cup ({r} \cap Confirmers)
  BY DEF TInv, IInv, Shapes, Types, Commit, CloseSession, Goto
<1>7. QED
  BY <1>2, <1>3, <1>4, <1>5, <1>6, Seen


-----------------------------------------------------------------------------
(* Type correctness *)

LEMMA InitTypes == Init => Types
<1> SUFFICES ASSUME Init PROVE Types
  OBVIOUS
<1>1. seats \in [Cabins -> Int]
  <2>1. \A c \in Cabins : QuantityOf({h \in Holds : h[1] \in Existing /\ Cabin(h) = c}) \in Int
    BY QuantityType
  <2>2. QED
    BY <2>1, PolicyAssumption DEF Init
<1>2. expires \in [Holds -> 0 .. MaxTime + HoldMinutes]
  BY PolicyAssumption DEF Init
<1>3. now \in 0 .. MaxTime /\ commits \in [Cabins -> Nat] /\ booked = {}
  BY PolicyAssumption DEF Init
<1>4. /\ DOMAIN dSeats = Requests /\ DOMAIN cabin = Requests /\ todo \in [Requests -> SUBSET Holds]
      /\ since \in [Requests -> Nat] /\ left \in [Confirmers -> SUBSET Cabins]
      /\ dropped \in [Requests -> SUBSET Holds]
  BY DEF Init
<1>5. \A r \in Requests :
        /\ dSeats[r] = Nothing /\ dStatus[r] = Nothing
        /\ DOMAIN dSeats[r] = {} /\ DOMAIN dStatus[r] = {}
        /\ pc[r] \in {"committed", "idle"}
  BY DEF Init, Nothing
<1>6. QED
  BY <1>1, <1>2, <1>3, <1>4, <1>5 DEF Types

\* The part of Types that belongs to r.
TypesOf(r) ==
    /\ DOMAIN dSeats[r] \subseteq Cabins
    /\ \A c \in DOMAIN dSeats[r] : dSeats[r][c] \in Int
    /\ \A h \in DOMAIN dStatus[r] : dStatus[r][h] \in HoldStatus
    /\ pc[r] \in {"return", "flush"} => cabin[r] \in Cabins
    /\ pc[r] \notin Running => dSeats[r] = Nothing /\ dStatus[r] = Nothing

Shared ==
    /\ now \in 0 .. MaxTime
    /\ seats \in [Cabins -> Int] /\ commits \in [Cabins -> Nat]
    /\ expires \in [Holds -> 0 .. MaxTime + HoldMinutes]
    /\ booked \subseteq Confirmers
    /\ DOMAIN dSeats = Requests /\ DOMAIN cabin = Requests
    /\ todo \in [Requests -> SUBSET Holds] /\ dropped \in [Requests -> SUBSET Holds]
    /\ since \in [Requests -> Nat] /\ left \in [Confirmers -> SUBSET Cabins]

\* What r has written after it wrote some rows.
LEMMA WrittenTypes ==
    ASSUME TInv, NEW r \in Requests, NEW S, NEW v \in HoldStatus, WriteStatus(r, S, v)
    PROVE  \A h \in DOMAIN dStatus'[r] : dStatus'[r][h] \in HoldStatus
BY Written DEF TInv, IInv, Shapes, Types

LEMMA AdjustedTypes ==
    ASSUME TInv, NEW r \in Requests, NEW c \in Cabins, NEW delta \in Int, Adjusted(r, c, delta)
    PROVE  /\ DOMAIN dSeats' = Requests /\ DOMAIN dSeats'[r] \subseteq Cabins
           /\ \A x \in DOMAIN dSeats'[r] : dSeats'[r][x] \in Int
<1>1. SeatsSeen(r, c) + delta \in Int
  BY Seen
<1>2. DOMAIN dSeats[r] \subseteq Cabins /\ \A x \in DOMAIN dSeats[r] : dSeats[r][x] \in Int
  BY DEF TInv, Types
<1>3. QED
  BY <1>1, <1>2, AdjustedIs

LEMMA ClosedTypes ==
    ASSUME TInv, NEW r \in Requests, CloseSession(r)
    PROVE  /\ DOMAIN dSeats' = Requests
           /\ dSeats'[r] = Nothing /\ dStatus'[r] = Nothing
           /\ DOMAIN dSeats'[r] = {} /\ DOMAIN dStatus'[r] = {}
BY DEF TInv, IInv, Shapes, Types, CloseSession, Nothing

LEMMA ExpiryTypes ==
    ASSUME TInv, NEW r \in Requests, SelectStaleHolds(r) \/ ReturnSeats(r) \/ FlushExpired(r)
    PROVE  Shared' /\ TypesOf(r)'
<1> USE DEF TInv, Types
<1>0. pc \in [Requests -> Running \cup Ended \cup {"idle"}] /\ stale \in [Requests -> SUBSET Holds]
  BY DEF IInv, Shapes
<1>1. CASE SelectStaleHolds(r)
  <2>1. PICK c \in CabinsToExpire(r) :
          /\ cabin' = [cabin EXCEPT ![r] = c] /\ BeginAdjust(r, c)
          /\ todo' = [todo EXCEPT ![r] = {h \in Holds : IsStale(r, c, h)}]
          /\ left' = IF r \in Holders THEN left ELSE [left EXCEPT ![r] = left[r] \ {c}]
    BY <1>1 DEF SelectStaleHolds
  <2>2. c \in Cabins
    <3>1. CASE r \in Holders
      <4>1. leg[r] \in DOMAIN Legs[r] /\ <<r, leg[r]>> \in Holds
        BY <3>1, GroupRows, RequestsAssumption DEF IInv, Progress
      <4>2. QED
        BY <2>1, <3>1, <4>1, HoldFacts DEF CabinsToExpire, Cabin
    <3>2. CASE r \notin Holders
      BY <2>1, <3>2 DEF CabinsToExpire, Requests
    <3>3. QED
      BY <3>1, <3>2
  <2>3. left' \in [Confirmers -> SUBSET Cabins]
    <3>1. CASE r \in Holders
      BY <2>1, <3>1
    <3>2. CASE r \in Confirmers
      BY <2>1, <3>2
    <3>3. QED
      BY <3>1, <3>2 DEF Requests
  <2>4. cabin'[r] = c /\ DOMAIN cabin' = Requests /\ since' \in [Requests -> Nat]
    BY <2>1, <2>2 DEF BeginAdjust
  <2>5. /\ UNCHANGED <<now, db, expires, dSeats, dStatus, dropped>> /\ todo' \in [Requests -> SUBSET Holds]
        /\ pc[r] \in Running
    BY <1>1, <2>1 DEF SelectStaleHolds, Running
  <2>6. Shared'
    BY <2>3, <2>4, <2>5 DEF Shared, db
  <2>7. pc'[r] \in Running
    BY <1>0, <1>1 DEF SelectStaleHolds, Goto, AfterExpiry, Running
  <2>8. QED
    BY <2>2, <2>4, <2>5, <2>6, <2>7 DEF TypesOf
<1>2. CASE ReturnSeats(r)
  <2>1. PICK h \in todo[r] :
          /\ \/ Adjusted(r, cabin[r], Quantity(h)) /\ UNCHANGED dropped
             \/ UNCHANGED dSeats /\ dropped' = [dropped EXCEPT ![r] = dropped[r] \cup {h}]
          /\ todo' = [todo EXCEPT ![r] = todo[r] \ {h}]
          /\ Goto(r, IF todo[r] = {h} THEN "flush" ELSE "return")
    BY <1>2 DEF ReturnSeats
  <2>2. pc[r] = "return" /\ cabin[r] \in Cabins /\ UNCHANGED <<now, db, expires, dStatus, left, cabin>>
        /\ BeginAdjust(r, cabin[r])
    BY <1>2 DEF ReturnSeats
  <2>3. /\ DOMAIN dSeats' = Requests /\ DOMAIN dSeats'[r] \subseteq Cabins
        /\ \A x \in DOMAIN dSeats'[r] : dSeats'[r][x] \in Int
    <3>1. Quantity(h) \in Int
      BY HoldFacts
    <3>2. QED
      BY <2>1, <2>2, <3>1, AdjustedTypes
  <2>4. pc'[r] \in Running
    BY <1>0, <2>1 DEF Goto, Running
  <2>5. since' \in [Requests -> Nat]
    BY <2>2 DEF BeginAdjust
  <2>6. todo' \in [Requests -> SUBSET Holds] /\ dropped' \in [Requests -> SUBSET Holds]
    BY <2>1
  <2>7. QED
    BY <2>1, <2>2, <2>3, <2>4, <2>5, <2>6 DEF Shared, TypesOf, db
<1>3. CASE FlushExpired(r)
  <2>1. /\ pc[r] = "flush" /\ cabin[r] \in Cabins /\ WriteStatus(r, stale[r], "expired")
        /\ UNCHANGED <<now, db, expires, dSeats, cabin, todo, dropped>> /\ left' = left
        /\ BeginAdjust(r, cabin[r])
    BY <1>3 DEF FlushExpired
  <2>2. \A h \in DOMAIN dStatus'[r] : dStatus'[r][h] \in HoldStatus
    BY <2>1, WrittenTypes DEF HoldStatus
  <2>3. pc'[r] \in Running
    BY <1>0, <1>3 DEF FlushExpired, Goto, AfterExpiry, Running
  <2>4. since' \in [Requests -> Nat]
    BY <2>1 DEF BeginAdjust
  <2>5. QED
    BY <2>1, <2>2, <2>3, <2>4 DEF Shared, TypesOf, db
<1>4. QED
  BY <1>1, <1>2, <1>3


LEMMA BookingTypes ==
    ASSUME TInv, NEW r \in Requests, TakeSeats(r) \/ ReleaseHolds(r) \/ CheckHolds(r) \/ ConvertHolds(r)
    PROVE  Shared' /\ TypesOf(r)'
<1> USE DEF TInv, Types
<1>0. pc \in [Requests -> Running \cup Ended \cup {"idle"}]
  BY DEF IInv, Shapes
<1>1. CASE TakeSeats(r)
  <2> DEFINE h == <<r, leg[r]>>
  <2>1. /\ pc[r] = "take" /\ WriteStatus(r, {h}, "active")
        /\ Adjusted(r, Cabin(h), -Quantity(h))
        /\ expires' = [expires EXCEPT ![h] = now + HoldMinutes]
        /\ UNCHANGED <<now, db, left, cabin, todo, since, dropped>>
    BY <1>1 DEF TakeSeats
  <2>2. r \in Holders
    BY <2>1 DEF IInv, Programs, Requests
  <2>3. h \in Holds
    BY <2>2, GroupRows DEF IInv, Progress
  <2>4. Cabin(h) \in Cabins /\ -Quantity(h) \in Int
    BY <2>3, HoldFacts
  <2> HIDE DEF h
  <2>5. /\ DOMAIN dSeats' = Requests /\ DOMAIN dSeats'[r] \subseteq Cabins
        /\ \A x \in DOMAIN dSeats'[r] : dSeats'[r][x] \in Int
    BY <2>1, <2>4, AdjustedTypes
  <2>6. \A x \in DOMAIN dStatus'[r] : dStatus'[r][x] \in HoldStatus
    BY <2>1, WrittenTypes DEF HoldStatus
  <2>7. expires' \in [Holds -> 0 .. MaxTime + HoldMinutes]
    <3>1. now + HoldMinutes \in 0 .. MaxTime + HoldMinutes
      BY PolicyAssumption
    <3>2. QED
      BY <2>1, <2>3, <3>1
  <2>8. pc'[r] \in {"select", "commit"}
    BY <1>0, <1>1 DEF TakeSeats, Goto
  <2>9. QED
    BY <2>1, <2>5, <2>6, <2>7, <2>8 DEF Shared, TypesOf, Running, db
<1>2. CASE ReleaseHolds(r)
  <2>1. /\ dSeats' = [dSeats EXCEPT ![r] = [c \in DOMAIN dSeats[r] |->
                dSeats[r][c] + QuantityOf({h \in Created(r) : Cabin(h) = c})]]
        /\ WriteStatus(r, Created(r), "released") /\ Goto(r, "refuse")
        /\ UNCHANGED <<now, db, expires, cabin, todo, left, since, dropped>>
    BY <1>2 DEF ReleaseHolds, session
  <2>2. r \in Holders
    BY <1>2 DEF ReleaseHolds, IInv, Programs, Requests
  <2>3. \A c \in Cabins : QuantityOf({h \in Created(r) : Cabin(h) = c}) \in Int
    BY <2>2, GroupRows, QuantityType DEF Created
  <2>4. /\ DOMAIN dSeats' = Requests /\ DOMAIN dSeats'[r] \subseteq Cabins
        /\ \A x \in DOMAIN dSeats'[r] : dSeats'[r][x] \in Int
    BY <2>1, <2>3
  <2>5. \A x \in DOMAIN dStatus'[r] : dStatus'[r][x] \in HoldStatus
    BY <2>1, WrittenTypes DEF HoldStatus
  <2>6. pc'[r] = "refuse"
    BY <1>0, <2>1 DEF Goto
  <2>7. QED
    BY <2>1, <2>4, <2>5, <2>6 DEF Shared, TypesOf, Running, db
<1>3. CASE CheckHolds(r)
  <2>1. pc[r] = "check" /\ UNCHANGED <<now, db, expires, cabin, todo, left, since, dropped>>
    BY <1>3 DEF CheckHolds, session
  <2>2. CASE Live(r)
    <3>1. pc'[r] = "convert" /\ UNCHANGED <<dSeats, dStatus>>
      BY <1>0, <1>3, <2>2 DEF CheckHolds, Goto
    <3>2. QED
      BY <2>1, <3>1 DEF Shared, TypesOf, Running, db
  <2>3. CASE ~Live(r)
    <3>1. pc'[r] = "rolled_back" /\ CloseSession(r)
      BY <1>0, <1>3, <2>3 DEF CheckHolds, Goto
    <3>2. QED
      BY <2>1, <3>1, ClosedTypes DEF Shared, TypesOf, db
  <2>4. QED
    BY <2>2, <2>3
<1>4. CASE ConvertHolds(r)
  <2>1. /\ pc[r] = "convert" /\ WriteStatus(r, Converted(r), "converted")
        /\ UNCHANGED <<now, db, expires, dSeats, cabin, todo, left, since, dropped>>
    BY <1>4 DEF ConvertHolds, session
  <2>2. \A x \in DOMAIN dStatus'[r] : dStatus'[r][x] \in HoldStatus
    BY <2>1, WrittenTypes DEF HoldStatus
  <2>3. pc'[r] = "commit"
    BY <1>0, <1>4 DEF ConvertHolds, Goto
  <2>4. QED
    BY <2>1, <2>2, <2>3 DEF Shared, TypesOf, Running, db
<1>5. QED
  BY <1>1, <1>2, <1>3, <1>4

LEMMA EndTypes ==
    ASSUME TInv, NEW r \in Requests,
           \/ BeginHold(r) \/ Replay(r) \/ LoadHolds(r) \/ RefuseItem(r) \/ RefuseSeats(r)
           \/ Commit(r) \/ Rollback(r)
    PROVE  Shared' /\ TypesOf(r)'
<1> USE DEF TInv, Types
<1>0. pc \in [Requests -> Running \cup Ended \cup {"idle"}]
  BY DEF IInv, Shapes
<1>1. CASE BeginHold(r) \/ Replay(r) \/ RefuseItem(r) \/ RefuseSeats(r)
  <2>1. UNCHANGED <<now, db, expires, dSeats, dStatus, cabin, todo, left, since, dropped>>
    BY <1>1 DEF BeginHold, Replay, RefuseItem, RefuseSeats, session
  <2>2. \/ pc[r] \in {"idle", "select", "take"} /\ pc'[r] \in {"select", "release"}
        \/ pc[r] = "idle" /\ pc'[r] = "replayed"
    BY <1>0, <1>1 DEF BeginHold, Replay, RefuseItem, RefuseSeats, Goto
  <2>3. QED
    BY <2>1, <2>2 DEF Shared, TypesOf, Running, db
<1>2. CASE LoadHolds(r)
  <2> DEFINE group == {h \in Group(Target[r]) : status[h] # "none"}
  <2>1. /\ r \in Confirmers /\ pc[r] = "idle"
        /\ left' = [left EXCEPT ![r] = {Cabin(h) : h \in group}]
        /\ UNCHANGED <<now, db, expires, dSeats, dStatus, cabin, todo, since, dropped>>
    BY <1>2 DEF LoadHolds
  <2>2. {Cabin(h) : h \in group} \in SUBSET Cabins
    BY HoldFacts DEF Group
  <2>3. left' \in [Confirmers -> SUBSET Cabins]
    BY <2>1, <2>2
  <2>4. pc'[r] \in {"select", "rolled_back"}
    BY <1>0, <1>2 DEF LoadHolds, Goto
  <2>5. QED
    BY <2>1, <2>3, <2>4 DEF Shared, TypesOf, Running, db
<1>3. CASE Commit(r)
  <2>1. /\ CloseSession(r) /\ UNCHANGED <<now, expires, cabin, todo, left, since, dropped>>
        /\ pc'[r] \in Ended
    BY <1>0, <1>3 DEF Commit, session, Goto, Ended
  <2>2. QED
    BY <1>3, <2>1, ClosedTypes, Committed DEF Shared, TypesOf, Running, Ended
<1>4. CASE Rollback(r)
  <2>1. /\ CloseSession(r) /\ UNCHANGED <<now, db, expires, cabin, todo, left, since, dropped>>
        /\ pc'[r] = "rolled_back"
    BY <1>0, <1>4 DEF Rollback, session, Goto
  <2>2. QED
    BY <2>1, ClosedTypes DEF Shared, TypesOf, db
<1>5. QED
  BY <1>1, <1>2, <1>3, <1>4

LEMMA StepTypes == TInv /\ [Next]_vars => Types'
<1> SUFFICES ASSUME TInv, [Next]_vars PROVE Types'
  OBVIOUS
<1>1. ASSUME NEW r \in Requests, RequestStep(r) PROVE Types'
  <2>1. Shared' /\ TypesOf(r)'
    BY <1>1, ExpiryTypes, BookingTypes, EndTypes DEF RequestStep, Step
  <2>2. \A o \in Requests \ {r} : cabin'[o] = cabin[o]
    BY <1>1 DEF RequestStep, Step, BeginHold, Replay, LoadHolds, RefuseItem, Rollback, session,
       SelectStaleHolds, ReturnSeats, FlushExpired, TakeSeats, RefuseSeats, ReleaseHolds,
       CheckHolds, ConvertHolds, Commit, TInv, Types
  <2>3. \A o \in Requests \ {r} : TypesOf(o)'
    BY <1>1, <2>2, Frame DEF TInv, Types, TypesOf
  <2>4. QED
    BY <2>1, <2>3 DEF Types, Shared, TypesOf
<1>2. CASE UNCHANGED <<db, expires, dSeats, dStatus, pc, session>> /\ now' \in {now, now + 1}
           /\ now' <= MaxTime
  BY <1>2, PolicyAssumption DEF TInv, Types, db, session
<1>3. CASE Forget \/ Tick \/ Terminating \/ UNCHANGED vars
  BY <1>2, <1>3, PolicyAssumption DEF Forget, Tick, Terminating, vars, TInv, Types
<1>4. QED
  BY <1>1, <1>3 DEF Next, RequestStep

LEMMA TypesHold == Spec => []TInv
<1>1. TInv /\ [Next]_vars => TInv'
  BY StepIInv, StepTypes DEF TInv
<1>2. QED
  BY <1>1, InitIInv, InitTypes, PTL DEF Spec, TInv

LEMMA TypesAreOK == TInv => TypeOK
<1>1. TInv => \A r \in Requests : \A h \in DOMAIN dStatus[r] : dStatus[r][h] \in HoldStatus
  BY DEF TInv, Types
<1>2. QED
  BY <1>1 DEF TInv, IInv, Shapes, Types, TypeOK, Status

\* Every variable stays in its type, and get_db ends every session: a request
\* that was answered has no row locked, whatever failed.
THEOREM TypeCorrect == Spec => []TypeOK
BY TypesAreOK, TypesHold, PTL


-----------------------------------------------------------------------------
(* All or nothing *)

\* A hold request that commits has held its group.
Full ==
    \A r \in Holders :
        /\ pc[r] = "commit" => Group(r) \subseteq DOMAIN dStatus[r]
        /\ pc[r] = "committed" => \A h \in Group(r) : status[h] # "none"

LEMMA InitFull == Init => Full
<1> SUFFICES ASSUME Init, NEW r \in Holders, NEW h \in Group(r), pc[r] # "idle"
             PROVE  pc[r] = "committed" /\ status[h] # "none"
  BY DEF Full, Init, Requests
<1>1. h \in Holds /\ h[1] = r
  BY GroupRows
<1>2. pc[r] = IF r \in Existing THEN "committed" ELSE "idle"
  BY DEF Init, Requests
<1>3. status[h] = IF h[1] \in Existing THEN "active" ELSE "none"
  BY <1>1 DEF Init
<1>4. QED
  BY <1>1, <1>2, <1>3

\* Only Commit writes statuses, and none of them is "none".
LEMMA OnlyCommitWrites ==
    ASSUME NEW r \in Requests, RequestStep(r), ~Commit(r) PROVE status' = status
BY DEF RequestStep, Step, BeginHold, Replay, LoadHolds, RefuseItem, Rollback, SelectStaleHolds,
   ReturnSeats, FlushExpired, TakeSeats, RefuseSeats, ReleaseHolds, CheckHolds, ConvertHolds, db

\* A hold request is ready to commit when its last hold is written.
LEMMA FullWhenTaken ==
    ASSUME TInv, TInv', NEW r \in Holders, TakeSeats(r), pc'[r] = "commit"
    PROVE  Group(r) \subseteq DOMAIN dStatus'[r]
<1> USE DEF TInv, IInv
<1>1. <<r, leg[r]>> \in Group(r)
  BY GroupRows DEF Progress
<1>2. <<r, leg[r]>> \in DOMAIN dStatus'[r]
  <2>1. WriteStatus(r, {<<r, leg[r]>>}, "active") /\ r \in Requests
    BY DEF TakeSeats, Requests
  <2>2. QED
    BY <2>1, Written DEF Shapes
<1>3. Group(r) \subseteq DOMAIN dStatus'[r] \/ Group(r) \cap DOMAIN dStatus'[r] = {}
  BY DEF Progress
<1>4. QED
  BY <1>1, <1>2, <1>3

LEMMA FullStep ==
    ASSUME TInv, TInv', Full, NEW r \in Requests, RequestStep(r) PROVE Full'
<1>1. /\ pc[r] \in Running \cup {"idle"}
      /\ \A o \in Requests \ {r} : pc'[o] = pc[o] /\ dStatus'[o] = dStatus[o]
  BY Frame
<1>2. \A h \in Holds : status[h] # "none" => status'[h] # "none"
  <2>1. CASE Commit(r)
    <3>1. \A h \in DOMAIN dStatus[r] : dStatus[r][h] # "none"
      BY DEF TInv, Types, HoldStatus
    <3>2. QED
      BY <2>1, <3>1, Committed
  <2>2. CASE ~Commit(r)
    BY <2>2, OnlyCommitWrites
  <2>3. QED
    BY <2>1, <2>2
<1>3. ASSUME NEW g \in Holders, g # r
      PROVE  /\ pc'[g] = "commit" => Group(g) \subseteq DOMAIN dStatus'[g]
             /\ pc'[g] = "committed" => \A h \in Group(g) : status'[h] # "none"
  BY <1>1, <1>2, <1>3, GroupRows DEF Full, Requests
<1>4. ASSUME r \in Holders
      PROVE  /\ pc'[r] = "commit" => Group(r) \subseteq DOMAIN dStatus'[r]
             /\ pc'[r] = "committed" => \A h \in Group(r) : status'[h] # "none"
  <2>1. CASE TakeSeats(r)
    <3>1. pc'[r] # "committed"
      BY <2>1 DEF TakeSeats, Goto, TInv, IInv, Shapes
    <3>2. QED
      BY <1>4, <2>1, <3>1, FullWhenTaken
  <2>2. CASE Commit(r)
    <3>1. pc'[r] = IF pc[r] = "commit" THEN "committed" ELSE "refused"
      BY <2>2, Committed
    <3>2. ASSUME pc[r] = "commit", NEW h \in Group(r) PROVE status'[h] # "none"
      <4>1. h \in Holds /\ h \in DOMAIN dStatus[r]
        BY <1>4, <3>2, GroupRows DEF Full
      <4>2. status'[h] = dStatus[r][h] /\ dStatus[r][h] \in HoldStatus
        BY <2>2, <4>1, Committed DEF TInv, Types
      <4>3. QED
        BY <4>2 DEF HoldStatus
    <3>3. QED
      BY <3>1, <3>2
  <2>3. CASE ~TakeSeats(r) /\ ~Commit(r)
    <3>1. r \notin Confirmers
      BY <1>4, RequestsAssumption
    <3>2. ~CheckHolds(r) /\ ~ConvertHolds(r)
      BY <1>4 DEF CheckHolds, ConvertHolds, TInv, IInv, Programs
    <3>3. pc'[r] \notin {"commit", "committed"}
      BY <2>3, <3>1, <3>2, <1>4
         DEF RequestStep, Step, BeginHold, Replay, LoadHolds, RefuseItem, Rollback,
             SelectStaleHolds, ReturnSeats, FlushExpired, RefuseSeats, ReleaseHolds, Goto,
             AfterExpiry, TInv, IInv, Shapes
    <3>4. QED
      BY <3>3
  <2>4. QED
    BY <2>1, <2>2, <2>3
<1>5. QED
  BY <1>3, <1>4 DEF Full

LEMMA StepFull == TInv /\ TInv' /\ Full /\ [Next]_vars => Full'
<1> SUFFICES ASSUME TInv, TInv', Full, [Next]_vars PROVE Full'
  OBVIOUS
<1>1. ASSUME NEW r \in Requests, RequestStep(r) PROVE Full'
  BY <1>1, FullStep
<1>2. CASE UNCHANGED <<pc, status, dStatus>>
  BY <1>2 DEF Full
<1>3. CASE Forget \/ Tick \/ Terminating \/ UNCHANGED vars
  BY <1>2, <1>3 DEF Forget, Tick, Terminating, vars, db
<1>4. QED
  BY <1>1, <1>3 DEF Next, RequestStep

\* README "Group and multi-leg bookings are all-or-nothing": whatever expiries,
\* confirmations and failures interleave with it, a hold request that succeeds
\* has committed every hold of its group and one that fails leaves none.
THEOREM GroupsAreAllOrNothing == Spec => []AllOrNothing
<1>1. TInv /\ Full => AllOrNothing
  BY DEF TInv, IInv, Together, Full, AllOrNothing
<1>2. TInv /\ TInv' /\ Full /\ [Next]_vars => Full'
  BY StepFull
<1>3. QED
  BY <1>1, <1>2, InitFull, TypesHold, PTL DEF Spec

-----------------------------------------------------------------------------
(* Sales *)

LEMMA InitSales == Init => SInv
<1> SUFFICES ASSUME Init PROVE SInv
  OBVIOUS
<1>1. TInv
  BY InitIInv, InitTypes DEF TInv
<1>2. \A r \in Confirmers : pc[r] = "idle" /\ DOMAIN mem[r] = {}
  BY RequestsAssumption DEF Init, Requests, Nothing
<1>3. \A r \in Requests : DOMAIN dStatus[r] = {}
  BY DEF Init, Nothing
<1>4. booked = {}
  BY DEF Init
<1>5. QED
  BY <1>1, <1>2, <1>3, <1>4 DEF SInv, Loaded, Conversions, Sales, Running

\* A request goes on without writing rows or reading holds.
LEMMA QuietSales ==
    ASSUME SInv, NEW r \in Requests, NEW l \in (Running \ {"commit", "convert"}) \cup {"replayed"},
           pc'[r] = l, pc[r] \in Running \cup {"idle"}, pc[r] # "commit",
           dStatus'[r] = dStatus[r], r \in Confirmers => mem'[r] = mem[r],
           r \in Confirmers => pc[r] \in Running \/ l = "replayed"
    PROVE  (r \in Confirmers => Loaded(r)') /\ Conversions(r)'
BY DEF SInv, Loaded, Conversions, Running

LEMMA OneStepSales ==
    ASSUME SInv, NEW r \in Requests, RequestStep(r)
    PROVE  (r \in Confirmers => Loaded(r)') /\ Conversions(r)'
<1> USE DEF SInv, TInv, IInv, Shapes
<1>1. CASE SelectStaleHolds(r) \/ ReturnSeats(r) \/ BeginHold(r) \/ Replay(r)
           \/ RefuseItem(r) \/ RefuseSeats(r)
  <2>1. dStatus'[r] = dStatus[r] /\ (r \in Confirmers => mem'[r] = mem[r])
    BY <1>1 DEF SelectStaleHolds, ReturnSeats, BeginHold, Replay, RefuseItem, RefuseSeats, session
  <2>2. /\ pc'[r] \in {"take", "check", "select", "return", "flush", "release", "replayed"}
        /\ pc[r] \in {"idle", "select", "return", "take"}
        /\ r \in Confirmers => pc[r] # "idle" \/ pc'[r] = "replayed"
    BY <1>1, RequestsAssumption
       DEF SelectStaleHolds, ReturnSeats, BeginHold, Replay, RefuseItem, RefuseSeats, Goto, AfterExpiry
  <2>3. QED
    BY <2>1, <2>2, QuietSales DEF Running
<1>2. CASE FlushExpired(r)
  <2>1. /\ pc[r] = "flush" /\ WriteStatus(r, stale[r], "expired")
        /\ mem' = IF r \in Holders THEN mem
                  ELSE [mem EXCEPT ![r] =
                          [h \in DOMAIN mem[r] |-> IF h \in stale[r] THEN "expired" ELSE mem[r][h]]]
        /\ pc'[r] \in {"take", "check", "select"}
    BY <1>2 DEF FlushExpired, Goto, AfterExpiry
  <2>2. Conversions(r)'
    BY <2>1, Written DEF Conversions
  <2>3. ASSUME r \in Confirmers PROVE Loaded(r)'
    <3>1. /\ DOMAIN mem'[r] = DOMAIN mem[r]
          /\ \A h \in DOMAIN mem[r] : mem'[r][h] = "active" => mem[r][h] = "active"
      BY <2>1, <2>3, RequestsAssumption
    <3>2. Loaded(r) /\ pc[r] \in Running
      BY <2>1, <2>3 DEF Running
    <3>3. QED
      BY <2>1, <3>1, <3>2 DEF Loaded
  <2>4. QED
    BY <2>2, <2>3
<1>3. CASE TakeSeats(r) \/ ReleaseHolds(r)
  <2>1. r \in Holders /\ r \notin Confirmers
    BY <1>3, RequestsAssumption DEF TakeSeats, ReleaseHolds, Programs, Requests
  <2>2. PICK S, v : WriteStatus(r, S, v) /\ v # "converted"
    <3>1. CASE TakeSeats(r)
      BY <3>1 DEF TakeSeats
    <3>2. CASE ReleaseHolds(r)
      BY <3>2 DEF ReleaseHolds
    <3>3. QED
      BY <1>3, <3>1, <3>2
  <2>3. Conversions(r)'
    BY <2>1, <2>2, Written DEF Conversions
  <2>4. QED
    BY <2>1, <2>3
<1>4. CASE CheckHolds(r)
  <2>1. pc[r] = "check" /\ mem' = mem /\ r \in Confirmers
    BY <1>4 DEF CheckHolds, session, Programs, Requests
  <2>2. CASE Live(r)
    <3>1. pc'[r] = "convert" /\ dStatus' = dStatus
      BY <1>4, <2>2 DEF CheckHolds, Goto
    <3>2. QED
      BY <2>1, <2>2, <3>1 DEF Loaded, Conversions, Live, Running
  <2>3. CASE ~Live(r)
    <3>1. pc'[r] = "rolled_back" /\ DOMAIN dStatus'[r] = {}
      BY <1>4, <2>3, Closed DEF CheckHolds, Goto
    <3>2. QED
      BY <2>1, <3>1 DEF Loaded, Conversions, Running
  <2>4. QED
    BY <2>2, <2>3
<1>5. CASE ConvertHolds(r)
  <2>1. /\ pc[r] = "convert" /\ pc'[r] = "commit" /\ mem' = mem /\ r \in Confirmers
        /\ WriteStatus(r, Converted(r), "converted")
    BY <1>5 DEF ConvertHolds, session, Programs, Requests, Goto
  <2>2. Loaded(r) /\ Converted(r) = DOMAIN mem[r] /\ DOMAIN mem[r] = Group(Target[r])
    BY <2>1 DEF Converted, Loaded, Running
  <2>3. \A h \in DOMAIN dStatus[r] : dStatus[r][h] # "converted"
    BY <2>1 DEF Conversions
  <2>4. /\ DOMAIN dStatus'[r] = Converted(r) \cup DOMAIN dStatus[r]
        /\ \A h \in Converted(r) : dStatus'[r][h] = "converted"
        /\ \A h \in DOMAIN dStatus[r] \ Converted(r) : dStatus'[r][h] = dStatus[r][h]
    BY <2>1, Written
  <2>5. Loaded(r)'
    BY <2>1, <2>2, <2>4 DEF Loaded, Running
  <2>6. Conversions(r)'
    BY <2>1, <2>2, <2>3, <2>4 DEF Conversions
  <2>7. QED
    BY <2>5, <2>6
<1>6. CASE Commit(r) \/ Rollback(r)
  <2>1. /\ pc'[r] \in Ended /\ DOMAIN dStatus'[r] = {} /\ mem' = mem
    BY <1>6, Closed DEF Commit, Rollback, session, Goto, Ended
  <2>2. QED
    BY <2>1 DEF Loaded, Conversions, Running, Ended
<1>7. CASE LoadHolds(r)
  <2> DEFINE group == {h \in Group(Target[r]) : status[h] # "none"}
  <2>1. /\ r \in Confirmers /\ pc[r] = "idle" /\ dStatus' = dStatus
        /\ mem' = [mem EXCEPT ![r] = [h \in group |-> status[h]]]
        /\ pc'[r] = IF group = {} THEN "rolled_back" ELSE "select"
    BY <1>7 DEF LoadHolds, Goto
  <2>2. DOMAIN mem'[r] = group /\ \A h \in group : mem'[r][h] = status[h]
    BY <2>1
  <2>3. group = Group(Target[r]) \/ \A h \in group : status[h] # "active"
    <3>1. CASE Target[r] \in Holders
      BY <3>1, GroupRows DEF Together
    <3>2. CASE Target[r] \notin Holders
      BY <3>2, Members DEF Group
    <3>3. QED
      BY <3>1, <3>2
  <2>4. Loaded(r)'
    BY <2>1, <2>2, <2>3 DEF Loaded, Running
  <2>5. QED
    BY <2>1, <2>4 DEF Conversions
<1>8. QED
  BY <1>1, <1>2, <1>3, <1>4, <1>5, <1>6, <1>7 DEF RequestStep, Step

LEMMA SalesStep ==
    ASSUME SInv, NEW r \in Requests, RequestStep(r)
    PROVE  Sales'
<1> USE DEF SInv, TInv, IInv, Shapes
<1>1. /\ pc[r] \in Running \cup {"idle"}
      /\ \A o \in Requests \ {r} : pc'[o] = pc[o]
  BY Frame
<1>2. pc[r] # "committed"
  BY <1>1 DEF Running
<1>3. \A h \in Holds : h[1] \in Requests
  BY Members DEF Requests
<1>4. CASE Commit(r)
  <2>1. /\ pc'[r] = IF pc[r] = "commit" THEN "committed" ELSE "refused"
        /\ booked' = booked \cup ({r} \cap Confirmers)
        /\ \A h \in Holds :
            status'[h] = IF h \in DOMAIN dStatus[r] THEN dStatus[r][h] ELSE status[h]
    BY <1>4, Committed
  <2>2. ASSUME NEW s \in booked
        PROVE  /\ s \in Confirmers /\ pc'[s] = "committed" /\ Group(Target[s]) # {}
               /\ \A h \in Group(Target[s]) :
                    pc'[h[1]] = "committed" /\ status'[h] \in {"converted", "expired"}
    <3>1. s \in Confirmers /\ pc[s] = "committed" /\ Group(Target[s]) # {}
      BY DEF Sales
    <3>2. ASSUME NEW h \in Group(Target[s])
          PROVE  pc'[h[1]] = "committed" /\ status'[h] \in {"converted", "expired"}
      <4>1. h \in Holds /\ pc[h[1]] = "committed" /\ status[h] \in {"converted", "expired"}
        BY DEF Sales, Group
      <4>2. h[1] # r /\ pc'[h[1]] = "committed"
        BY <1>1, <1>2, <1>3, <4>1
      <4>3. h \in DOMAIN dStatus[r] => dStatus[r][h] \in {"converted", "expired"}
        BY <4>2 DEF OthersRows
      <4>4. QED
        BY <2>1, <4>1, <4>2, <4>3
    <3>3. QED
      BY <1>1, <1>2, <3>1, <3>2 DEF Requests
  <2>3. ASSUME r \in Confirmers
        PROVE  /\ pc'[r] = "committed" /\ Group(Target[r]) # {}
               /\ \A h \in Group(Target[r]) :
                    pc'[h[1]] = "committed" /\ status'[h] \in {"converted", "expired"}
    <3>1. pc[r] = "commit"
      BY <1>4, <2>3 DEF Commit, Programs
    <3>2. Loaded(r)
      BY <2>3
    <3>3. /\ DOMAIN mem[r] = Group(Target[r]) /\ Group(Target[r]) # {}
          /\ \A h \in DOMAIN mem[r] : mem[r][h] = "active"
      BY <3>1, <3>2 DEF Loaded, Running
    <3>4. ASSUME NEW h \in Group(Target[r])
          PROVE  pc'[h[1]] = "committed" /\ status'[h] = "converted"
      <4>1. h \in Holds /\ pc[h[1]] = "committed"
        BY <2>3, <3>3 DEF KnownHolds, Standing
      <4>2. pc'[h[1]] = "committed"
        BY <1>1, <1>2, <1>3, <4>1
      <4>3. QED
        BY <2>1, <3>1, <3>2, <4>1, <4>2 DEF Loaded
    <3>5. QED
      BY <2>1, <3>1, <3>3, <3>4
  <2>4. QED
    BY <2>1, <2>2, <2>3 DEF Sales
<1>5. CASE ~Commit(r)
  <2>1. status' = status /\ booked' = booked
    BY <1>5 DEF RequestStep, Step, BeginHold, Replay, LoadHolds, RefuseItem, Rollback, db,
       SelectStaleHolds, ReturnSeats, FlushExpired, TakeSeats, RefuseSeats, ReleaseHolds,
       CheckHolds, ConvertHolds
  <2>2. \A q \in Requests : pc[q] = "committed" => pc'[q] = "committed"
    BY <1>1, <1>2
  <2>3. QED
    BY <1>3, <2>1, <2>2 DEF Sales, Group, Requests
<1>6. QED
  BY <1>4, <1>5

LEMMA StepSInv == SInv /\ [Next]_vars => SInv'
<1> SUFFICES ASSUME SInv, [Next]_vars PROVE SInv'
  OBVIOUS
<1>1. TInv'
  BY StepIInv, StepTypes DEF SInv, TInv
<1>2. ASSUME NEW r \in Requests, RequestStep(r) PROVE SInv'
  <2>1. Sales' /\ (r \in Confirmers => Loaded(r)') /\ Conversions(r)'
    BY <1>2, OneStepSales, SalesStep
  <2>2. /\ \A o \in Confirmers \ {r} : Loaded(o)'
        /\ \A o \in Requests \ {r} : Conversions(o)'
    BY <1>2, Frame DEF SInv, Loaded, Conversions, Requests
  <2>3. QED
    BY <1>1, <2>1, <2>2 DEF SInv
<1>3. CASE UNCHANGED <<db, dStatus, pc, mem>>
  BY <1>1, <1>3 DEF SInv, Loaded, Conversions, Sales, db
<1>4. CASE Forget \/ Tick \/ Terminating \/ UNCHANGED vars
  BY <1>3, <1>4 DEF Forget, Tick, Terminating, vars, session
<1>5. QED
  BY <1>2, <1>4 DEF Next, RequestStep

\* convert_hold_to_booking: no hold of a sold group is ever active again, even
\* when it lapsed while it was sold and other requests expire it before and
\* after the sale.
THEOREM SoldGroupsAreNotHeld == Spec => []SoldIsNotHeld
<1>1. SInv => SoldIsNotHeld
  BY DEF SInv, Sales, SoldIsNotHeld
<1>2. QED
  BY <1>1, InitSales, StepSInv, PTL DEF Spec

\* Holds and bookings are published by commits only.
LEMMA OnlyCommits ==
    ASSUME NEW r \in Requests, RequestStep(r), ~Commit(r) PROVE UNCHANGED db
BY DEF RequestStep, Step, BeginHold, Replay, LoadHolds, RefuseItem, Rollback, db,
   SelectStaleHolds, ReturnSeats, FlushExpired, TakeSeats, RefuseSeats, ReleaseHolds,
   CheckHolds, ConvertHolds

\* A session never takes a hold it has not seen active for active.
LEMMA CopiesStay ==
    ASSUME TInv, NEW r \in Confirmers, RequestStep(r), pc[r] # "idle"
    PROVE  /\ DOMAIN mem'[r] = DOMAIN mem[r]
           /\ \A h \in DOMAIN mem[r] : mem'[r][h] = "active" => mem[r][h] = "active"
<1> USE DEF TInv, IInv, Shapes
<1>1. CASE FlushExpired(r)
  BY <1>1, RequestsAssumption DEF FlushExpired
<1>2. CASE ~FlushExpired(r)
  <2>1. mem' = mem
    BY <1>2 DEF RequestStep, Step, BeginHold, Replay, LoadHolds, RefuseItem, Rollback, session,
       SelectStaleHolds, ReturnSeats, TakeSeats, RefuseSeats, ReleaseHolds,
       CheckHolds, ConvertHolds, Commit
  <2>2. QED
    BY <2>1
<1>3. QED
  BY <1>1, <1>2

\* A confirmation begins when those its client waited for have ended.
LEMMA ConfirmationBegins ==
    ASSUME SInv, NEW r \in Confirmers, RequestStep(r), pc[r] = "idle"
    PROVE  /\ Sent(r) /\ UNCHANGED db
           /\ pc'[r] \in Running => \A h \in Group(Target[r]) : status[h] # "none" =>
                h \in DOMAIN mem'[r] /\ mem'[r][h] = status[h]
<1> USE DEF SInv, TInv, IInv, Shapes
<1>1. CASE Replay(r)
  BY <1>1 DEF Replay, Goto, Running, Requests
<1>2. CASE LoadHolds(r)
  BY <1>2 DEF LoadHolds
<1>3. Replay(r) \/ LoadHolds(r)
  BY RequestsAssumption DEF RequestStep, Step, BeginHold, RefuseItem, Rollback, Running,
     SelectStaleHolds, ReturnSeats, FlushExpired, TakeSeats, RefuseSeats, ReleaseHolds,
     CheckHolds, ConvertHolds, Commit
<1>4. QED
  BY <1>1, <1>2, <1>3

LEMMA TurnsStep ==
    ASSUME SInv, Turns, NEW p \in Requests, RequestStep(p)
    PROVE  Turns'
<1> USE DEF SInv
<1> SUFFICES ASSUME NEW r \in Confirmers, NEW s \in After[r] \cap Confirmers, pc'[r] # "idle"
             PROVE  /\ pc'[s] \in Ended
                    /\ s \in booked' /\ Target[r] = Target[s] /\ pc'[r] \in Running =>
                        \E h \in DOMAIN mem'[r] : mem'[r][h] # "active"
  BY DEF Turns
<1>1. /\ pc[p] \in Running \cup {"idle"}
      /\ \A o \in Requests \ {p} : pc'[o] = pc[o]
      /\ \A o \in Confirmers \ {p} : mem'[o] = mem[o]
  BY Frame
<1>2. pc[p] \notin Ended
  BY <1>1 DEF Running, Ended
<1>3. r \in Requests /\ s \in Requests
  BY DEF Requests
<1>4. booked' = booked \/ booked' = booked \cup ({p} \cap Confirmers)
  BY Committed, OnlyCommits DEF db
<1>5. CASE r # p
  <2>1. pc[r] # "idle" /\ pc[s] \in Ended
    BY <1>1, <1>3, <1>5 DEF Turns
  <2>2. s # p
    BY <1>2, <2>1
  <2>3. QED
    BY <1>1, <1>3, <1>4, <1>5, <2>1, <2>2 DEF Turns
<1>6. CASE r = p /\ pc[p] # "idle"
  <2>1. pc[s] \in Ended /\ s # p
    BY <1>2, <1>6 DEF Turns
  <2>2. pc[r] \in Running
    BY <1>1, <1>6
  <2>3. /\ DOMAIN mem'[r] = DOMAIN mem[r]
        /\ \A h \in DOMAIN mem[r] : mem'[r][h] = "active" => mem[r][h] = "active"
    BY <1>6, CopiesStay
  <2>4. QED
    BY <1>1, <1>3, <1>4, <1>6, <2>1, <2>2, <2>3 DEF Turns
<1>7. CASE r = p /\ pc[p] = "idle"
  <2>1. /\ Sent(r) /\ booked' = booked
        /\ pc'[r] \in Running => \A h \in Group(Target[r]) : status[h] # "none" =>
                h \in DOMAIN mem'[r] /\ mem'[r][h] = status[h]
    BY <1>7, ConfirmationBegins DEF db
  <2>2. pc[s] \in Ended /\ s # p
    BY <1>2, <2>1 DEF Sent
  <2>3. ASSUME s \in booked, Target[r] = Target[s], pc'[r] \in Running
        PROVE  \E h \in DOMAIN mem'[r] : mem'[r][h] # "active"
    <3>1. PICK h \in Group(Target[r]) : status[h] \in {"converted", "expired"}
      BY <2>3 DEF Sales
    <3>2. QED
      BY <2>1, <2>3, <3>1
  <2>4. QED
    BY <1>1, <1>3, <1>7, <2>1, <2>2, <2>3
<1>8. QED
  BY <1>5, <1>6, <1>7

LEMMA SoldOnceStep ==
    ASSUME SInv, Turns, RetriesWait, SoldOnce, NEW p \in Requests, RequestStep(p)
    PROVE  SoldOnce'
<1>1. CASE p \in Confirmers /\ Commit(p)
  <2>1. booked' = booked \cup {p}
    BY <1>1, Committed DEF SInv
  <2>2. pc[p] = "commit" /\ pc[p] \in Running /\ pc[p] \notin Ended
    BY <1>1 DEF Commit, SInv, TInv, IInv, Programs, Running, Ended
  <2>3. \A h \in DOMAIN mem[p] : mem[p][h] = "active"
    BY <1>1, <2>2 DEF SInv, Loaded
  <2>4. ASSUME NEW s \in booked, Target[s] = Target[p] PROVE s = p
    <3>1. s \in Confirmers /\ pc[s] = "committed"
      BY DEF SInv, Sales
    <3>2. SUFFICES ASSUME s # p PROVE FALSE
      OBVIOUS
    <3>3. CASE s \in After[p]
      BY <1>1, <2>2, <2>3, <2>4, <3>1, <3>3 DEF Turns
    <3>4. CASE p \in After[s]
      BY <1>1, <2>2, <3>1, <3>4 DEF Turns
    <3>5. QED
      BY <1>1, <2>4, <3>1, <3>2, <3>3, <3>4 DEF RetriesWait
  <2>5. QED
    BY <2>1, <2>4 DEF SoldOnce
<1>2. CASE ~(p \in Confirmers /\ Commit(p))
  <2>1. booked' = booked
    BY <1>2, Committed, OnlyCommits DEF SInv, db
  <2>2. QED
    BY <2>1 DEF SoldOnce
<1>3. QED
  BY <1>1, <1>2

\* test_hold_cannot_be_confirmed_twice: confirm_booking sells a group once for
\* clients that do not send a confirmation while another of the group is
\* unanswered, the cache lost or not: what the first has converted the second
\* loads as converted.
THEOREM GroupsAreSoldOnce == ASSUME RetriesWait PROVE Spec => []SoldOnce
<1>1. Init => SInv /\ Turns /\ SoldOnce
  <2>1. Init => Turns
    BY RequestsAssumption DEF Init, Turns, Requests
  <2>2. Init => SoldOnce
    BY DEF Init, SoldOnce
  <2>3. QED
    BY <2>1, <2>2, InitSales
<1>2. SInv /\ Turns /\ SoldOnce /\ [Next]_vars => (SInv /\ Turns /\ SoldOnce)'
  <2> SUFFICES ASSUME SInv, Turns, SoldOnce, [Next]_vars PROVE (SInv /\ Turns /\ SoldOnce)'
    OBVIOUS
  <2>1. SInv'
    BY StepSInv
  <2>2. ASSUME NEW p \in Requests, RequestStep(p) PROVE Turns' /\ SoldOnce'
    BY <2>2, TurnsStep, SoldOnceStep
  <2>3. CASE UNCHANGED <<db, pc, mem>>
    BY <2>1, <2>3 DEF Turns, SoldOnce, db
  <2>4. CASE Forget \/ Tick \/ Terminating \/ UNCHANGED vars
    BY <2>3, <2>4 DEF Forget, Tick, Terminating, vars, session
  <2>5. QED
    BY <2>1, <2>2, <2>4 DEF Next, RequestStep
<1>3. QED
  BY <1>1, <1>2, PTL DEF Spec


-----------------------------------------------------------------------------
(* While no hold lapses *)

LEMMA InitLasting == Init => Lasting
<1> SUFFICES ASSUME Init PROVE Lasting
  OBVIOUS
<1>1. \A r \in Requests : stale[r] = {} /\ todo[r] = {} /\ DOMAIN dStatus[r] = {}
  BY DEF Init, Nothing
<1>2. \A h \in Holds : status[h] # "expired" /\ (status[h] = "active" => expires[h] >= HoldMinutes)
  BY PolicyAssumption DEF Init
<1>3. QED
  BY <1>1, <1>2 DEF Lasting

LEMMA LastingStep ==
    ASSUME TInv, NothingLapses, Lasting, NEW p \in Requests, RequestStep(p)
    PROVE  Lasting'
<1> USE DEF TInv, IInv, Shapes, Types
<1> DEFINE Lasts(r) == \A h \in DOMAIN dStatus[r] :
                dStatus[r][h] # "expired" /\ (dStatus[r][h] = "active" => expires[h] >= HoldMinutes)
           Stored == \A h \in Holds :
                status[h] # "expired" /\ (status[h] = "active" => expires[h] >= HoldMinutes)
<1>1. \A o \in Requests \ {p} :
        dStatus'[o] = dStatus[o] /\ stale'[o] = stale[o] /\ todo'[o] = todo[o]
  BY Frame
<1>2. \A h \in Holds : expires'[h] = expires[h] \/ expires'[h] >= HoldMinutes
  <2>1. CASE TakeSeats(p)
    <3>1. now + HoldMinutes >= HoldMinutes
      BY PolicyAssumption
    <3>2. QED
      BY <2>1, <3>1 DEF TakeSeats
  <2>2. CASE ~TakeSeats(p)
    <3>1. expires' = expires
      BY <2>2 DEF RequestStep, Step, BeginHold, Replay, LoadHolds, RefuseItem, Rollback,
         SelectStaleHolds, ReturnSeats, FlushExpired, RefuseSeats, ReleaseHolds,
         CheckHolds, ConvertHolds, Commit
    <3>2. QED
      BY <3>1
  <2>3. QED
    BY <2>1, <2>2
<1>3. \A r \in Requests : DOMAIN dStatus[r] \subseteq Holds /\ Lasts(r)
  BY DEF Lasting
<1>4. stale'[p] = {} /\ todo'[p] = {}
  <2>1. CASE SelectStaleHolds(p)
    <3>1. PICK c \in CabinsToExpire(p) :
            /\ stale' = [stale EXCEPT ![p] = {h \in Holds : IsStale(p, c, h)}]
            /\ todo' = [todo EXCEPT ![p] = {h \in Holds : IsStale(p, c, h)}]
      BY <2>1 DEF SelectStaleHolds
    <3>2. \A h \in Holds : StatusSeen(p, h) = "active" => expires[h] >= HoldMinutes
      BY <1>3, Seen DEF Lasting
    <3>3. now <= HoldMinutes /\ \A h \in Holds : expires[h] \in Int
      BY PolicyAssumption DEF NothingLapses
    <3>4. \A h \in Holds : ~IsStale(p, c, h)
      BY <3>2, <3>3, PolicyAssumption DEF IsStale
    <3>5. QED
      BY <3>1, <3>4
  <2>2. CASE FlushExpired(p)
    BY <2>2 DEF FlushExpired, Lasting
  <2>3. CASE ReturnSeats(p)
    BY <2>3 DEF ReturnSeats, Lasting
  <2>4. CASE ~SelectStaleHolds(p) /\ ~FlushExpired(p) /\ ~ReturnSeats(p)
    <3>1. UNCHANGED <<stale, todo>>
      BY <2>4 DEF RequestStep, Step, BeginHold, Replay, LoadHolds, RefuseItem, Rollback, session,
         TakeSeats, RefuseSeats, ReleaseHolds, CheckHolds, ConvertHolds, Commit
    <3>2. QED
      BY <3>1 DEF Lasting
  <2>5. QED
    BY <2>1, <2>2, <2>3, <2>4
<1>5. \A h \in DOMAIN dStatus'[p] :
        dStatus'[p][h] # "expired" /\ (dStatus'[p][h] = "active" => expires'[h] >= HoldMinutes)
  <2>1. ASSUME NEW S \in SUBSET Holds, NEW v, WriteStatus(p, S, v), v # "expired" \/ S = {},
               v = "active" => \A h \in S : expires'[h] >= HoldMinutes
        PROVE  \A h \in DOMAIN dStatus'[p] :
                 dStatus'[p][h] # "expired" /\ (dStatus'[p][h] = "active" => expires'[h] >= HoldMinutes)
    <3> TAKE h \in DOMAIN dStatus'[p]
    <3>1. DOMAIN dStatus'[p] = S \cup DOMAIN dStatus[p]
      BY <2>1, Written
    <3>2. CASE h \in S
      BY <2>1, <3>2, Written
    <3>3. CASE h \in DOMAIN dStatus[p] \ S
      <4>1. dStatus'[p][h] = dStatus[p][h]
        BY <2>1, <3>3, Written
      <4>2. QED
        BY <1>2, <1>3, <3>3, <4>1
    <3>4. QED
      BY <3>1, <3>2, <3>3
  <2>2. CASE FlushExpired(p)
    BY <2>1, <2>2 DEF FlushExpired, Lasting
  <2>3. CASE TakeSeats(p)
    <3> DEFINE h == <<p, leg[p]>>
    <3>1. p \in Holders
      BY <2>3 DEF TakeSeats, Programs, Requests
    <3>2. h \in Holds
      BY <3>1, GroupRows DEF Progress
    <3>3. WriteStatus(p, {h}, "active") /\ expires' = [expires EXCEPT ![h] = now + HoldMinutes]
      BY <2>3 DEF TakeSeats
    <3>4. expires'[h] >= HoldMinutes
      BY <3>2, <3>3, PolicyAssumption
    <3> HIDE DEF h
    <3>5. QED
      BY <2>1, <3>2, <3>3, <3>4
  <2>4. CASE ReleaseHolds(p)
    <3>1. p \in Holders
      BY <2>4 DEF ReleaseHolds, Programs, Requests
    <3>2. Created(p) \in SUBSET Holds
      BY <3>1, GroupRows DEF Created
    <3>3. QED
      BY <2>1, <2>4, <3>2 DEF ReleaseHolds
  <2>5. CASE ConvertHolds(p)
    <3>1. p \in Confirmers
      BY <2>5 DEF ConvertHolds, Programs, Requests
    <3>2. Converted(p) \in SUBSET Holds
      BY <3>1 DEF Converted, KnownHolds
    <3>3. QED
      BY <2>1, <2>5, <3>2 DEF ConvertHolds
  <2>6. CASE ~(FlushExpired(p) \/ TakeSeats(p) \/ ReleaseHolds(p) \/ ConvertHolds(p))
    <3>1. dStatus'[p] = dStatus[p] \/ DOMAIN dStatus'[p] = {}
      BY <2>6, Closed DEF RequestStep, Step, BeginHold, Replay, LoadHolds, RefuseItem, Rollback,
         SelectStaleHolds, ReturnSeats, RefuseSeats, CheckHolds, Commit
    <3>2. QED
      BY <1>2, <1>3, <3>1
  <2>7. QED
    BY <2>2, <2>3, <2>4, <2>5, <2>6
<1>6. \A h \in Holds :
        status'[h] # "expired" /\ (status'[h] = "active" => expires'[h] >= HoldMinutes)
  <2>1. CASE Commit(p)
    <3>1. \A h \in Holds :
            status'[h] = IF h \in DOMAIN dStatus[p] THEN dStatus[p][h] ELSE status[h]
      BY <2>1, Committed
    <3>2. QED
      BY <1>2, <1>3, <3>1 DEF Lasting
  <2>2. CASE ~Commit(p)
    BY <1>2, <2>2, OnlyCommits DEF Lasting, db
  <2>3. QED
    BY <2>1, <2>2
<1>7. \A o \in Requests \ {p} : \A h \in DOMAIN dStatus'[o] :
        dStatus'[o][h] # "expired" /\ (dStatus'[o][h] = "active" => expires'[h] >= HoldMinutes)
  BY <1>1, <1>2, <1>3
<1>8. QED
  BY <1>1, <1>4, <1>5, <1>6, <1>7 DEF Lasting

LEMMA StepLasting == NothingLapses /\ TInv /\ Lasting /\ [Next]_vars => Lasting'
<1> SUFFICES ASSUME NothingLapses, TInv, Lasting, [Next]_vars PROVE Lasting'
  OBVIOUS
<1>1. CASE UNCHANGED <<db, expires, dStatus, session>>
  BY <1>1 DEF Lasting, db, session
<1>2. CASE Forget \/ Tick \/ Terminating \/ UNCHANGED vars
  BY <1>1, <1>2 DEF Forget, Tick, Terminating, vars
<1>3. QED
  BY <1>2, LastingStep DEF Next, RequestStep


-----------------------------------------------------------------------------
(* Locks, expiries and rows still to be written *)

LEMMA CabinLocksStep ==
    ASSUME Inv, NEW p \in Requests, RequestStep(p)
    PROVE  CabinLocks'
<1> USE DEF Inv, SInv, TInv, Types
<1>1. \A o \in Requests \ {p} : dSeats'[o] = dSeats[o]
  BY Frame
<1>2. \A c \in DOMAIN dSeats'[p] :
        c \in DOMAIN dSeats[p] \/ \A o \in Requests \ {p} : c \notin DOMAIN dSeats[o]
  <2>1. CASE TakeSeats(p)
    <3> DEFINE h == <<p, leg[p]>>
    <3>1. h \in Holds
      BY <2>1, GroupRows DEF TakeSeats, IInv, Programs, Progress, Requests
    <3>2. Adjusted(p, Cabin(h), -Quantity(h))
      BY <2>1 DEF TakeSeats
    <3>3. Cabin(h) \in Cabins /\ -Quantity(h) \in Int
      BY <3>1, HoldFacts
    <3> HIDE DEF h
    <3>4. QED
      BY <3>2, <3>3, AdjustedIs
  <2>2. CASE ReturnSeats(p)
    <3>1. PICK h \in todo[p] : Adjusted(p, cabin[p], Quantity(h)) \/ UNCHANGED dSeats
      BY <2>2 DEF ReturnSeats
    <3>2. cabin[p] \in Cabins /\ Quantity(h) \in Int
      BY <2>2, HoldFacts DEF ReturnSeats
    <3>3. QED
      BY <3>1, <3>2, AdjustedIs
  <2>3. CASE ReleaseHolds(p)
    BY <2>3 DEF ReleaseHolds
  <2>4. CASE ~(TakeSeats(p) \/ ReturnSeats(p) \/ ReleaseHolds(p))
    <3>1. dSeats' = dSeats \/ CloseSession(p)
      BY <2>4 DEF RequestStep, Step, BeginHold, Replay, LoadHolds, RefuseItem, Rollback,
         SelectStaleHolds, FlushExpired, RefuseSeats, CheckHolds, ConvertHolds, Commit
    <3>2. QED
      BY <3>1, ClosedTypes
  <2>5. QED
    BY <2>1, <2>2, <2>3, <2>4
<1>3. QED
  BY <1>1, <1>2 DEF CabinLocks

LEMMA ExpiringStep ==
    ASSUME Inv, NEW p \in Requests, RequestStep(p)
    PROVE  Expiring(p)'
<1> USE DEF Inv, SInv, TInv, Types, IInv, Shapes
<1>0. Expiring(p)
  OBVIOUS
<1>1. CASE SelectStaleHolds(p)
  <2>1. PICK c \in CabinsToExpire(p) :
          LET found == {h \in Holds : IsStale(p, c, h)} IN
          /\ cabin' = [cabin EXCEPT ![p] = c]
          /\ stale' = [stale EXCEPT ![p] = found]
          /\ todo' = [todo EXCEPT ![p] = found]
          /\ Goto(p, IF found = {} THEN AfterExpiry(p) ELSE "return")
    BY <1>1 DEF SelectStaleHolds
  <2> DEFINE found == {h \in Holds : IsStale(p, c, h)}
  <2>2. cabin'[p] = c /\ stale'[p] = found /\ todo'[p] = found /\ dStatus' = dStatus
    BY <1>1, <2>1 DEF SelectStaleHolds
  <2>3. /\ found = {} => pc'[p] \in {"take", "check", "select"}
        /\ found # {} => pc'[p] = "return"
    BY <2>1 DEF Goto, AfterExpiry
  <2>4. ASSUME NEW h \in found
        PROVE  /\ Cabin(h) = c
               /\ h \in DOMAIN dStatus[p] => dStatus[p][h] = "active"
               /\ h[1] = p => h \in DOMAIN dStatus[p]
    <3>1. h \in Holds /\ StatusSeen(p, h) = "active" /\ Cabin(h) = c
      BY DEF IsStale
    <3>2. StatusSeen(p, h) = IF h \in DOMAIN dStatus[p] THEN dStatus[p][h] ELSE status[h]
      BY <3>1, Seen
    <3>3. h[1] = p => status[h] # "active"
      BY <1>1, <3>1, Members DEF Together, SelectStaleHolds
    <3>4. QED
      BY <3>1, <3>2, <3>3
  <2> HIDE DEF found
  <2>5. QED
    BY <2>2, <2>3, <2>4 DEF Expiring, Running
<1>2. CASE ReturnSeats(p)
  <2>1. PICK h \in todo[p] :
          /\ todo' = [todo EXCEPT ![p] = todo[p] \ {h}]
          /\ Goto(p, IF todo[p] = {h} THEN "flush" ELSE "return")
    BY <1>2 DEF ReturnSeats
  <2>2. pc[p] = "return" /\ UNCHANGED <<stale, cabin, dStatus>>
    BY <1>2 DEF ReturnSeats
  <2>3. /\ todo'[p] = todo[p] \ {h}
        /\ pc'[p] = IF todo[p] = {h} THEN "flush" ELSE "return"
    BY <2>1 DEF Goto
  <2>4. QED
    BY <1>0, <2>2, <2>3 DEF Expiring, Running
<1>3. CASE FlushExpired(p)
  <2>1. /\ pc[p] = "flush" /\ stale' = [stale EXCEPT ![p] = {}] /\ UNCHANGED todo
        /\ pc'[p] \in {"take", "check", "select"}
    BY <1>3 DEF FlushExpired, Goto, AfterExpiry
  <2>2. QED
    BY <1>0, <2>1 DEF Expiring, Running
<1>4. CASE ~(SelectStaleHolds(p) \/ ReturnSeats(p) \/ FlushExpired(p))
  <2>1. UNCHANGED <<stale, todo>>
    BY <1>4 DEF RequestStep, Step, BeginHold, Replay, LoadHolds, RefuseItem, Rollback, session,
         TakeSeats, RefuseSeats, ReleaseHolds, CheckHolds, ConvertHolds, Commit
  <2>2. pc'[p] \in Ended \/ /\ pc[p] \in (Running \ {"return", "flush"}) \cup {"idle"}
                            /\ pc'[p] \in Running \ {"return", "flush"}
    BY <1>4 DEF RequestStep, Step, BeginHold, Replay, LoadHolds, RefuseItem, Rollback, Goto,
       TakeSeats, RefuseSeats, ReleaseHolds, CheckHolds, ConvertHolds, Commit, Running, Ended
  <2>3. pc[p] = "idle" => todo[p] = {}
    BY <1>0 DEF Expiring
  <2>4. QED
    BY <1>0, <2>1, <2>2, <2>3 DEF Expiring, Running, Ended
<1>5. QED
  BY <1>1, <1>2, <1>3, <1>4

LEMMA UnwrittenStep ==
    ASSUME Inv, NEW p \in Requests, RequestStep(p)
    PROVE  Unwritten'
<1> USE DEF Inv, SInv, TInv, Types, IInv, Shapes
<1>1. /\ \A o \in Requests \ {p} : pc'[o] = pc[o] /\ dStatus'[o] = dStatus[o]
      /\ \A o \in Confirmers \ {p} : mem'[o] = mem[o]
  BY Frame
<1>2. ASSUME p \in Holders
      PROVE  /\ \A o \in Holders \ {p} : leg'[o] = leg[o]
             /\ pc'[p] \in Before =>
                \A i \in leg'[p] .. Len(Legs[p]) : <<p, i>> \notin DOMAIN dStatus'[p]
  <2>0. p \notin Confirmers /\ leg[p] \in 1 .. Len(Legs[p]) /\ Len(Legs[p]) \in Nat
    BY <1>2, RequestsAssumption, GroupRows DEF Progress
  <2>1. CASE TakeSeats(p)
    <3>1. /\ pc[p] = "take" /\ WriteStatus(p, {<<p, leg[p]>>}, "active")
          /\ leg[p] < Len(Legs[p]) => leg' = [leg EXCEPT ![p] = leg[p] + 1]
          /\ leg[p] >= Len(Legs[p]) => leg' = leg /\ pc'[p] = "commit"
      BY <2>0, <2>1 DEF TakeSeats, Goto
    <3>2. DOMAIN dStatus'[p] = {<<p, leg[p]>>} \cup DOMAIN dStatus[p]
      BY <3>1, Written
    <3>3. \A i \in leg[p] .. Len(Legs[p]) : <<p, i>> \notin DOMAIN dStatus[p]
      BY <1>2, <3>1 DEF Unwritten, Before
    <3>4. CASE leg[p] < Len(Legs[p])
      <4>1. leg'[p] = leg[p] + 1 /\ \A o \in Holders \ {p} : leg'[o] = leg[o]
        BY <1>2, <3>1, <3>4
      <4>2. \A i \in leg[p] + 1 .. Len(Legs[p]) : i \in leg[p] .. Len(Legs[p]) /\ i # leg[p]
        BY <2>0
      <4>3. \A i \in leg[p] + 1 .. Len(Legs[p]) : <<p, i>> \notin DOMAIN dStatus'[p]
        BY <3>2, <3>3, <4>2
      <4>4. QED
        BY <4>1, <4>3
    <3>5. CASE leg[p] >= Len(Legs[p])
      BY <3>1, <3>5 DEF Before
    <3>6. QED
      BY <2>0, <3>4, <3>5
  <2>2. CASE FlushExpired(p)
    <3>1. /\ pc[p] = "flush" /\ WriteStatus(p, stale[p], "expired") /\ leg' = leg
      BY <2>2 DEF FlushExpired
    <3>2. DOMAIN dStatus'[p] = stale[p] \cup DOMAIN dStatus[p]
      BY <3>1, Written
    <3>3. \A h \in stale[p] : h[1] = p => h \in DOMAIN dStatus[p]
      BY <3>1 DEF Expiring
    <3>4. QED
      BY <1>2, <3>1, <3>2, <3>3 DEF Unwritten, Before
  <2>3. CASE BeginHold(p) \/ SelectStaleHolds(p) \/ ReturnSeats(p)
    <3>1. leg' = leg /\ dStatus' = dStatus /\ pc[p] \in Before
      BY <2>3 DEF BeginHold, SelectStaleHolds, ReturnSeats, session, Before
    <3>2. QED
      BY <1>2, <3>1 DEF Unwritten
  <2>4. CASE ~(TakeSeats(p) \/ FlushExpired(p) \/ BeginHold(p) \/ SelectStaleHolds(p) \/ ReturnSeats(p))
    <3>1. leg' = leg /\ pc'[p] \notin Before
      BY <2>0, <2>4 DEF RequestStep, Step, Replay, LoadHolds, RefuseItem, Rollback, session, Goto,
         RefuseSeats, ReleaseHolds, CheckHolds, ConvertHolds, Commit, Before
    <3>2. QED
      BY <3>1
  <2>5. QED
    BY <2>1, <2>2, <2>3, <2>4
<1>3. ASSUME p \in Confirmers
      PROVE  /\ \A o \in Holders : leg'[o] = leg[o]
             /\ pc'[p] # "commit" =>
                \A h \in DOMAIN mem'[p] : mem'[p][h] = "active" => h \notin DOMAIN dStatus'[p]
  <2>1. leg' = leg
    <3>1. ~TakeSeats(p)
      BY <1>3 DEF TakeSeats, Programs
    <3>2. QED
      BY <3>1 DEF RequestStep, Step, BeginHold, Replay, LoadHolds, RefuseItem, Rollback, session,
         SelectStaleHolds, ReturnSeats, FlushExpired, RefuseSeats, ReleaseHolds,
         CheckHolds, ConvertHolds, Commit
  <2>2. CASE FlushExpired(p)
    <3>1. /\ pc[p] = "flush" /\ WriteStatus(p, stale[p], "expired")
          /\ mem' = [mem EXCEPT ![p] =
                [h \in DOMAIN mem[p] |-> IF h \in stale[p] THEN "expired" ELSE mem[p][h]]]
      BY <1>3, <2>2, RequestsAssumption DEF FlushExpired
    <3>2. DOMAIN dStatus'[p] = stale[p] \cup DOMAIN dStatus[p]
      BY <3>1, Written
    <3>3. \A h \in DOMAIN mem'[p] : /\ h \in DOMAIN mem[p]
                                    /\ mem'[p][h] = "active" => h \notin stale[p] /\ mem[p][h] = "active"
      BY <1>3, <3>1
    <3>4. QED
      BY <1>3, <2>1, <3>1, <3>2, <3>3 DEF Unwritten
  <2>3. CASE LoadHolds(p)
    <3>1. pc[p] = "idle" /\ dStatus' = dStatus
      BY <2>3 DEF LoadHolds
    <3>2. DOMAIN dStatus[p] = {}
      BY <3>1 DEF Running, Nothing
    <3>3. QED
      BY <2>1, <3>1, <3>2
  <2>4. CASE Commit(p) \/ Rollback(p)
    <3>1. DOMAIN dStatus'[p] = {}
      BY <2>4, ClosedTypes DEF Commit, Rollback
    <3>2. QED
      BY <2>1, <3>1
  <2>5. CASE CheckHolds(p)
    <3>1. mem' = mem /\ (dStatus' = dStatus \/ DOMAIN dStatus'[p] = {}) /\ pc[p] # "commit"
      BY <2>5, ClosedTypes DEF CheckHolds, session
    <3>2. QED
      BY <1>3, <2>1, <3>1 DEF Unwritten
  <2>6. CASE ConvertHolds(p)
    <3>1. pc'[p] = "commit"
      BY <2>6 DEF ConvertHolds, Goto
    <3>2. QED
      BY <2>1, <3>1
  <2>7. CASE Replay(p) \/ SelectStaleHolds(p) \/ ReturnSeats(p)
    <3>1. mem' = mem /\ dStatus' = dStatus /\ pc[p] # "commit"
      BY <2>7 DEF Replay, SelectStaleHolds, ReturnSeats, session
    <3>2. QED
      BY <1>3, <2>1, <3>1 DEF Unwritten
  <2>8. ~(BeginHold(p) \/ RefuseItem(p) \/ TakeSeats(p) \/ RefuseSeats(p) \/ ReleaseHolds(p))
    BY <1>3, RequestsAssumption
       DEF BeginHold, RefuseItem, TakeSeats, RefuseSeats, ReleaseHolds, Programs
  <2>9. QED
    BY <2>2, <2>3, <2>4, <2>5, <2>6, <2>7, <2>8 DEF RequestStep, Step
<1>4. QED
  <2>1. CASE p \in Holders
    BY <1>1, <1>2, <2>1, RequestsAssumption DEF Unwritten, Requests
  <2>2. CASE p \in Confirmers
    BY <1>1, <1>3, <2>2, RequestsAssumption DEF Unwritten, Requests
  <2>3. QED
    BY <2>1, <2>2 DEF Requests


-----------------------------------------------------------------------------
(* Seats that are lost *)

\* A hold of one's own is not dropped: its cabin is locked, so that no attempt
\* to give its seats back loses a race.
LEMMA DropsStep ==
    ASSUME Inv, NEW p \in Requests, RequestStep(p)
    PROVE  Drops(p)'
<1> USE DEF Inv, SInv, TInv, Types, IInv, Shapes
<1>0. Drops(p) /\ Expiring(p) /\ dropped[p] \subseteq Holds
  OBVIOUS
<1>1. pc[p] \in Running \cup {"idle"} /\ \A o \in Requests \ {p} : pc'[o] = pc[o]
  BY Frame
<1>2. \A h \in Holds : pc[h[1]] = "committed" => pc'[h[1]] = "committed"
  BY <1>1, Members DEF Running, Requests
<1>3. CASE ReturnSeats(p)
  <2>1. PICK e \in todo[p] :
          /\ \/ dropped' = dropped
             \/ OutOfAttempts(p, cabin[p]) /\ dropped' = [dropped EXCEPT ![p] = dropped[p] \cup {e}]
          /\ todo' = [todo EXCEPT ![p] = todo[p] \ {e}]
          /\ Goto(p, IF todo[p] = {e} THEN "flush" ELSE "return")
    BY <1>3 DEF ReturnSeats
  <2>2. /\ pc[p] = "return" /\ pc'[p] \in {"return", "flush"} /\ todo'[p] = todo[p] \ {e}
        /\ UNCHANGED <<stale, dStatus>>
    BY <1>3, <2>1 DEF ReturnSeats, Goto
  <2>3. e \in stale[p] /\ e \in Holds /\ Cabin(e) = cabin[p]
    BY <1>0, <2>2 DEF Expiring
  <2>4. OutOfAttempts(p, cabin[p]) => e[1] # p
    <3>1. e[1] = p => Took(p, e)
      BY <1>0, <2>2, <2>3 DEF Expiring, Took
    <3>2. Took(p, e) => cabin[p] \in DOMAIN dSeats[p]
      BY <2>3 DEF Account
    <3>3. QED
      BY <3>1, <3>2 DEF OutOfAttempts
  <2>5. e[1] # p => pc[e[1]] = "committed"
    BY <2>3 DEF KnownHolds, Standing
  <2>6. \A h \in dropped'[p] : h \in dropped[p] \/ (h = e /\ OutOfAttempts(p, cabin[p]))
    BY <2>1
  <2>7. \A h \in dropped'[p] : h[1] # p /\ pc'[h[1]] = "committed"
    BY <1>0, <1>2, <2>3, <2>4, <2>5, <2>6 DEF Drops
  <2>8. \A h \in dropped'[p] :
          \/ h \in stale'[p] \ todo'[p]
          \/ h \in DOMAIN dStatus'[p] /\ dStatus'[p][h] # "active"
    BY <1>0, <2>2, <2>3, <2>6 DEF Drops, Running
  <2>9. QED
    BY <2>2, <2>7, <2>8 DEF Drops
<1>4. CASE ~ReturnSeats(p)
  <2>1. dropped' = dropped
    BY <1>4 DEF RequestStep, Step, BeginHold, Replay, LoadHolds, RefuseItem, Rollback, session,
       SelectStaleHolds, FlushExpired, TakeSeats, RefuseSeats, ReleaseHolds, CheckHolds,
       ConvertHolds, Commit
  <2>2. pc'[p] # "idle"
    BY <1>1, <1>4 DEF RequestStep, Step, BeginHold, Replay, LoadHolds, RefuseItem, Rollback, Goto,
       SelectStaleHolds, FlushExpired, TakeSeats, RefuseSeats, ReleaseHolds, CheckHolds,
       ConvertHolds, Commit, AfterExpiry
  <2>3. \A h \in dropped[p] : h[1] # p /\ pc'[h[1]] = "committed"
    BY <1>0, <1>2 DEF Drops
  <2>4. ASSUME pc'[p] \in Running, NEW h \in dropped[p]
        PROVE  h \in DOMAIN dStatus'[p] /\ dStatus'[p][h] # "active"
    <3>1. /\ pc[p] \in Running /\ h[1] # p
          /\ \/ pc[p] \in {"return", "flush"} /\ h \in stale[p] \ todo[p]
             \/ h \in DOMAIN dStatus[p] /\ dStatus[p][h] # "active"
      BY <1>0, <1>1 DEF Drops
    <3>2. CASE FlushExpired(p)
      <4>1. WriteStatus(p, stale[p], "expired")
        BY <3>2 DEF FlushExpired
      <4>2. QED
        BY <3>1, <4>1, Written
    <3>3. CASE TakeSeats(p)
      <4>1. pc[p] = "take" /\ WriteStatus(p, {<<p, leg[p]>>}, "active") /\ h # <<p, leg[p]>>
        BY <3>1, <3>3 DEF TakeSeats
      <4>2. QED
        BY <3>1, <4>1, Written
    <3>4. CASE ReleaseHolds(p) \/ ConvertHolds(p)
      <4>1. PICK S, v : WriteStatus(p, S, v) /\ v # "active"
        <5>1. CASE ReleaseHolds(p)
          BY <5>1 DEF ReleaseHolds
        <5>2. CASE ConvertHolds(p)
          BY <5>2 DEF ConvertHolds
        <5>3. QED
          BY <3>4, <5>1, <5>2
      <4>2. pc[p] \notin {"return", "flush"}
        BY <3>4 DEF ReleaseHolds, ConvertHolds
      <4>3. QED
        BY <3>1, <4>1, <4>2, Written
    <3>5. CASE SelectStaleHolds(p) \/ RefuseItem(p) \/ RefuseSeats(p) \/ (CheckHolds(p) /\ Live(p))
      <4>1. dStatus' = dStatus /\ pc[p] \notin {"return", "flush"}
        BY <3>5 DEF SelectStaleHolds, RefuseItem, RefuseSeats, CheckHolds
      <4>2. QED
        BY <3>1, <4>1
    <3>6. ~(BeginHold(p) \/ Replay(p) \/ LoadHolds(p))
      BY <3>1 DEF BeginHold, Replay, LoadHolds, Running
    <3>7. ~(Commit(p) \/ Rollback(p) \/ (CheckHolds(p) /\ ~Live(p)))
      BY <2>4 DEF Commit, Rollback, CheckHolds, Goto, Running
    <3>8. QED
      BY <1>4, <3>2, <3>3, <3>4, <3>5, <3>6, <3>7 DEF RequestStep, Step
  <2>5. QED
    <3>1. pc[p] = "idle" => dropped[p] = {}
      BY <1>0 DEF Drops
    <3>2. QED
      BY <2>1, <2>2, <2>3, <2>4 DEF Drops
<1>5. QED
  BY <1>3, <1>4

\* Only a commit loses seats: those of the holds its request dropped.
LEMMA DroppedStep ==
    ASSUME TInv, NEW p \in Requests, RequestStep(p)
    PROVE  /\ Commit(p) => Dropped' = Dropped \cup dropped[p]
           /\ ~Commit(p) => Dropped' = Dropped
<1> USE DEF TInv, Types, IInv, Shapes
<1>1. /\ pc[p] \notin {"committed", "refused"}
      /\ \A o \in Requests \ {p} : pc'[o] = pc[o] /\ dropped'[o] = dropped[o]
  BY Frame DEF Running
<1>2. CASE Commit(p)
  <2>1. pc'[p] \in {"committed", "refused"} /\ dropped' = dropped
    BY <1>2, Committed DEF Commit, session
  <2>2. QED
    BY <1>1, <1>2, <2>1 DEF Dropped
<1>3. CASE ~Commit(p)
  <2>1. pc'[p] \notin {"committed", "refused"}
    BY <1>3 DEF RequestStep, Step, BeginHold, Replay, LoadHolds, RefuseItem, Rollback, Goto,
       SelectStaleHolds, ReturnSeats, FlushExpired, TakeSeats, RefuseSeats, ReleaseHolds,
       CheckHolds, ConvertHolds, AfterExpiry
  <2>2. QED
    BY <1>1, <1>3, <2>1 DEF Dropped
<1>4. QED
  BY <1>2, <1>3

\* A committed hold becomes active with no commit.
LEMMA LostIsGoneStep ==
    ASSUME Inv, NEW p \in Requests, RequestStep(p)
    PROVE  LostIsGone'
<1> USE DEF Inv, SInv, TInv, Types, IInv, Shapes
<1>1. CASE Commit(p)
  <2>1. /\ pc[p] \in {"commit", "refuse"} /\ Dropped' = Dropped \cup dropped[p]
        /\ \A h \in Holds : status'[h] = IF h \in DOMAIN dStatus[p] THEN dStatus[p][h] ELSE status[h]
    BY <1>1, DroppedStep, Committed DEF Commit
  <2>2. ASSUME NEW h \in Dropped PROVE status'[h] # "active"
    <3>1. h \in Holds /\ pc[h[1]] = "committed" /\ status[h] # "active"
      BY DEF Dropped, Drops, LostIsGone
    <3>2. h \in DOMAIN dStatus[p] => dStatus[p][h] \in {"expired", "converted"}
      BY <2>1, <3>1 DEF OthersRows
    <3>3. QED
      BY <2>1, <3>1, <3>2
  <2>3. ASSUME NEW h \in dropped[p] PROVE status'[h] # "active"
    <3>1. h \in Holds /\ h \in DOMAIN dStatus[p] /\ dStatus[p][h] # "active"
      BY <2>1 DEF Drops, Running
    <3>2. QED
      BY <2>1, <3>1
  <2>4. QED
    BY <2>1, <2>2, <2>3 DEF LostIsGone
<1>2. CASE ~Commit(p)
  <2>1. Dropped' = Dropped /\ status' = status
    BY <1>2, DroppedStep, OnlyCommits DEF db
  <2>2. QED
    BY <2>1 DEF LostIsGone
<1>3. QED
  BY <1>1, <1>2

-----------------------------------------------------------------------------
(* Accounts *)

LEMMA MoveTypes ==
    /\ \A r \in Requests : \A h \in Holds : Moves(r)[h] \in Int
    /\ \A c \in Cabins : IsFiniteSet(HoldsIn(c)) /\ HoldsIn(c) \subseteq Holds
    /\ \A r \in Requests : \A c \in Cabins : SumFunctionOnSet(Moves(r), HoldsIn(c)) \in Int
<1>1. \A r \in Requests : \A h \in Holds : Moves(r)[h] \in Int
  <2> TAKE r \in Requests
  <2> TAKE h \in Holds
  <2>1. Quantity(h) \in Int
    BY HoldFacts
  <2>2. Moves(r)[h] = (IF Gave(r, h) THEN Quantity(h) ELSE 0) - (IF Took(r, h) THEN Quantity(h) ELSE 0)
    BY DEF Moves
  <2>3. QED
    BY <2>1, <2>2
<1>2. \A c \in Cabins : IsFiniteSet(HoldsIn(c)) /\ HoldsIn(c) \subseteq Holds
  BY HoldFacts, FS_Subset DEF HoldsIn
<1>3. ASSUME NEW r \in Requests, NEW c \in Cabins
      PROVE  SumFunctionOnSet(Moves(r), HoldsIn(c)) \in Int
  <2>1. \A h \in HoldsIn(c) : Moves(r)[h] \in Int
    BY <1>1, <1>2
  <2>2. QED
    BY <1>2, <2>1, SumType
<1>4. QED
  BY <1>1, <1>2, <1>3

\* Moves that do not change leave the account alone.
LEMMA SameMoves ==
    ASSUME TInv, NEW r \in Requests,
           \A h \in Holds : Moves(r)'[h] = Moves(r)[h]
    PROVE  \A c \in Cabins :
             SumFunctionOnSet(Moves(r)', HoldsIn(c)) = SumFunctionOnSet(Moves(r), HoldsIn(c))
<1> TAKE c \in Cabins
<1>1. IsFiniteSet(HoldsIn(c)) /\ \A h \in HoldsIn(c) : Moves(r)'[h] = Moves(r)[h]
  BY MoveTypes
<1>2. QED
  BY <1>1, SumEqual


SeenRows ==
    \A r \in Requests : \A c \in Cabins :
        /\ SeatsSeen(r, c) = IF c \in DOMAIN dSeats[r] THEN dSeats[r][c] ELSE seats[c]
        /\ seats[c] \in Int

LEMMA SeatsSeenAre == TInv => SeenRows
BY Seen DEF SeenRows, TInv, Types

\* It writes no count, and its moves stay what they are.
LEMMA StillAccount ==
    ASSUME TInv, TInv', NEW p \in Requests, Account(p), dSeats'[p] = dSeats[p], seats' = seats,
           \A h \in Holds : Moves(p)'[h] = Moves(p)[h] /\ (Took(p, h)' => Took(p, h))
    PROVE  Account(p)'
<1>1. \A c \in Cabins :
        SumFunctionOnSet(Moves(p)', HoldsIn(c)) = SumFunctionOnSet(Moves(p), HoldsIn(c))
  BY SameMoves
<1>2. \A c \in Cabins : SeatsSeen(p, c)' = SeatsSeen(p, c)
  BY DEF SeatsSeen
<1>3. QED
  BY <1>1, <1>2 DEF Account

\* It has given up its rows.
LEMMA NoAccount ==
    ASSUME TInv', NEW p \in Requests, dSeats'[p] = Nothing, dStatus'[p] = Nothing,
           pc'[p] \notin {"return", "flush"}
    PROVE  Account(p)'
<1>1. /\ DOMAIN dSeats'[p] = {} /\ \A h \in Holds : ~Took(p, h)' /\ Moves(p)'[h] = 0
  BY DEF Nothing, Moves, Gave, Took
<1>2. \A c \in Cabins : SeatsSeen(p, c)' = seats'[c] /\ seats'[c] \in Int
  <2>1. TInv' => SeenRows'
    BY SeatsSeenAre, PTL
  <2>2. QED
    BY <1>1, <2>1 DEF SeenRows
<1>3. ASSUME NEW c \in Cabins PROVE SumFunctionOnSet(Moves(p)', HoldsIn(c)) = 0
  <2>1. IsFiniteSet(HoldsIn(c)) /\ \A h \in HoldsIn(c) : Moves(p)'[h] = 0
    BY <1>1, MoveTypes
  <2>2. QED
    BY <2>1, SumZeros
<1>4. QED
  BY <1>1, <1>2, <1>3 DEF Account

\* It adjusts the count of one cabin by the seats of one hold.
LEMMA AdjustAccount ==
    ASSUME TInv, TInv', NEW p \in Requests, Account(p), NEW e \in Holds, NEW delta \in Int,
           Adjusted(p, Cabin(e), delta), seats' = seats,
           Moves(p)'[e] = Moves(p)[e] + delta,
           \A h \in Holds \ {e} : Moves(p)'[h] = Moves(p)[h] /\ (Took(p, h)' => Took(p, h))
    PROVE  Account(p)'
<1> DEFINE d == Cabin(e)
<1>1. d \in Cabins /\ e \in HoldsIn(d)
  BY HoldFacts DEF HoldsIn
<1>2. /\ DOMAIN dSeats'[p] = {d} \cup DOMAIN dSeats[p]
      /\ dSeats'[p][d] = SeatsSeen(p, d) + delta
      /\ \A x \in DOMAIN dSeats[p] \ {d} : dSeats'[p][x] = dSeats[p][x]
  <2> HIDE DEF d
  <2>1. Adjusted(p, d, delta)
    BY DEF d
  <2>2. QED
    BY <1>1, <2>1, AdjustedIs
<1>3. /\ SeatsSeen(p, d)' = SeatsSeen(p, d) + delta
      /\ \A c \in Cabins \ {d} : SeatsSeen(p, c)' = SeatsSeen(p, c)
  <2>1. SeenRows /\ (TInv' => SeenRows')
    BY SeatsSeenAre, PTL
  <2> HIDE DEF d
  <2>2. QED
    BY <1>1, <1>2, <2>1 DEF SeenRows
<1>4. ASSUME NEW c \in Cabins
      PROVE  SeatsSeen(p, c)' = seats'[c] + SumFunctionOnSet(Moves(p)', HoldsIn(c))
  <2>1. /\ SeatsSeen(p, c) = seats[c] + SumFunctionOnSet(Moves(p), HoldsIn(c))
        /\ seats[c] \in Int
        /\ SumFunctionOnSet(Moves(p), HoldsIn(c)) \in Int
    BY MoveTypes DEF Account, TInv, Types
  <2>2. /\ IsFiniteSet(HoldsIn(c)) /\ HoldsIn(c) \subseteq Holds
        /\ \A h \in HoldsIn(c) : Moves(p)[h] \in Int
    BY MoveTypes
  <2>3. CASE c = d
    <3>1. e \in HoldsIn(c) /\ Moves(p)'[e] \in Int /\ Moves(p)[e] \in Int
      BY <1>1, <2>2, <2>3
    <3>2. \A h \in HoldsIn(c) \ {e} : Moves(p)'[h] = Moves(p)[h]
      BY <2>2
    <3>3. SumFunctionOnSet(Moves(p)', HoldsIn(c))
            = SumFunctionOnSet(Moves(p), HoldsIn(c)) + (Moves(p)'[e] - Moves(p)[e])
      <4> DEFINE f == Moves(p)
                 g == Moves(p)'
                 S == HoldsIn(c)
      <4>1. /\ IsFiniteSet(S) /\ e \in S /\ g[e] \in Int
            /\ (\A h \in S : f[h] \in Int) /\ (\A h \in S \ {e} : g[h] = f[h])
        BY <2>2, <3>1, <3>2
      <4> HIDE DEF f, g, S
      <4>2. SumFunctionOnSet(g, S) = SumFunctionOnSet(f, S) + (g[e] - f[e])
        BY <4>1, SumChange
      <4>3. QED
        BY <4>2 DEF f, g, S
    <3>4. Moves(p)'[e] - Moves(p)[e] = delta
      BY <3>1
    <3>5. QED
      BY <1>3, <2>1, <2>3, <3>3, <3>4
  <2>4. CASE c # d
    <3>1. \A h \in HoldsIn(c) : Moves(p)'[h] = Moves(p)[h]
      BY <2>2, <2>4 DEF HoldsIn
    <3>2. SumFunctionOnSet(Moves(p)', HoldsIn(c)) = SumFunctionOnSet(Moves(p), HoldsIn(c))
      BY <2>2, <3>1, SumEqual
    <3>3. QED
      BY <1>3, <2>1, <2>4, <3>2
  <2>5. QED
    BY <2>3, <2>4
<1>5. \A h \in Holds : Took(p, h)' => Cabin(h) \in DOMAIN dSeats'[p]
  BY <1>2 DEF Account
<1>6. QED
  BY <1>4, <1>5 DEF Account


LEMMA SameAccount ==
    ASSUME TInv, TInv', NEW p \in Requests, Account(p), dSeats'[p] = dSeats[p], seats' = seats,
           \A h \in Holds : (Gave(p, h)' <=> Gave(p, h)) /\ (Took(p, h)' <=> Took(p, h))
    PROVE  Account(p)'
<1>1. \A h \in Holds : Moves(p)'[h] = Moves(p)[h]
  BY DEF Moves
<1>2. QED
  BY <1>1, StillAccount

\* Expiring a hold of its own undoes the taking of its seats; another's hold
\* stays given back.
LEMMA FlushAccount ==
    ASSUME Inv, TInv', NEW p \in Requests, FlushExpired(p), Account(p) PROVE Account(p)'
<1> USE DEF Inv, SInv, TInv, IInv, Shapes
<1>1. /\ pc[p] = "flush" /\ pc'[p] \in {"take", "check", "select"}
      /\ WriteStatus(p, stale[p], "expired") /\ UNCHANGED <<seats, dSeats, dropped>>
  BY DEF FlushExpired, Goto, AfterExpiry, db
<1>2. /\ DOMAIN dStatus'[p] = stale[p] \cup DOMAIN dStatus[p]
      /\ \A h \in stale[p] : dStatus'[p][h] = "expired"
      /\ \A h \in DOMAIN dStatus[p] \ stale[p] : dStatus'[p][h] = dStatus[p][h]
  BY <1>1, Written
<1>3. /\ todo[p] = {}
      /\ \A h \in stale[p] : /\ h \in DOMAIN dStatus[p] => dStatus[p][h] = "active"
                             /\ h[1] = p => h \in DOMAIN dStatus[p]
  BY <1>1 DEF Expiring, Running
<1>4. ASSUME NEW h \in Holds
      PROVE  Moves(p)'[h] = Moves(p)[h] /\ (Took(p, h)' => Took(p, h))
  <2>0. Quantity(h) \in Int
    BY HoldFacts
  <2>1. CASE h \in stale[p] /\ h[1] = p
    <3>1. Gave(p, h) /\ Took(p, h) /\ ~Gave(p, h)' /\ ~Took(p, h)'
      BY <1>1, <1>2, <1>3, <2>1 DEF Gave, Took, Drops
    <3>2. QED
      BY <2>0, <3>1 DEF Moves
  <2>2. CASE h \in stale[p] /\ h[1] # p
    <3>1. (Gave(p, h)' <=> Gave(p, h)) /\ ~Took(p, h) /\ ~Took(p, h)'
      BY <1>1, <1>2, <1>3, <2>2 DEF Gave, Took
    <3>2. QED
      BY <3>1 DEF Moves
  <2>3. CASE h \notin stale[p]
    <3>1. (Gave(p, h)' <=> Gave(p, h)) /\ (Took(p, h)' <=> Took(p, h))
      BY <1>1, <1>2, <2>3 DEF Gave, Took
    <3>2. QED
      BY <3>1 DEF Moves
  <2>4. QED
    BY <2>1, <2>2, <2>3
<1>5. QED
  BY <1>1, <1>4, StillAccount

\* hold_seats takes the seats of the hold that it inserts.
LEMMA TakeAccount ==
    ASSUME Inv, TInv', NEW p \in Requests, TakeSeats(p), Account(p) PROVE Account(p)'
<1> USE DEF Inv, SInv, TInv, IInv, Shapes
<1>1. /\ pc[p] = "take" /\ p \in Holders /\ leg[p] \in 1 .. Len(Legs[p]) /\ Len(Legs[p]) \in Nat
  BY GroupRows DEF TakeSeats, Programs, Requests, Progress
<1>2. PICK e \in Holds : e = <<p, leg[p]>>
  BY <1>1, GroupRows
<1>3. e[1] = p /\ e \notin DOMAIN dStatus[p]
  <2>1. leg[p] \in leg[p] .. Len(Legs[p])
    BY <1>1
  <2>2. QED
    BY <1>1, <1>2, <2>1 DEF Unwritten, Before
<1>4. /\ pc'[p] \in {"select", "commit"} /\ UNCHANGED <<seats, dropped>>
      /\ Adjusted(p, Cabin(e), -Quantity(e)) /\ WriteStatus(p, {e}, "active")
  BY <1>2 DEF TakeSeats, Goto, db
<1>5. Quantity(e) \in Int /\ -Quantity(e) \in Int /\ Cabin(e) \in Cabins
  BY HoldFacts
<1>6. /\ DOMAIN dStatus'[p] = {e} \cup DOMAIN dStatus[p]
      /\ dStatus'[p][e] = "active"
      /\ \A h \in DOMAIN dStatus[p] \ {e} : dStatus'[p][h] = dStatus[p][h]
  BY <1>4, Written
<1>7. ~Gave(p, e) /\ ~Took(p, e) /\ ~Gave(p, e)' /\ Took(p, e)'
  <2>1. e \in DOMAIN dStatus'[p]
    BY <1>6
  <2>2. ~Gave(p, e) /\ ~Took(p, e)
    BY <1>1, <1>3 DEF Gave, Took
  <2>3. ~Gave(p, e)'
    BY <1>3, <1>4 DEF Gave
  <2>4. Took(p, e)'
    BY <1>6, <1>3, <2>1 DEF Took
  <2>5. QED
    BY <2>2, <2>3, <2>4
<1>8. Moves(p)'[e] = Moves(p)[e] + (-Quantity(e))
  <2>1. Moves(p)[e] = 0 - 0 /\ Moves(p)'[e] = 0 - Quantity(e)
    BY <1>7 DEF Moves
  <2>2. QED
    BY <1>5, <2>1
<1>9. ASSUME NEW h \in Holds \ {e}
      PROVE  Moves(p)'[h] = Moves(p)[h] /\ (Took(p, h)' => Took(p, h))
  <2>1. (Gave(p, h)' <=> Gave(p, h)) /\ (Took(p, h)' <=> Took(p, h))
    BY <1>1, <1>6, <1>4 DEF Gave, Took
  <2>2. QED
    BY <2>1 DEF Moves
<1>10. QED
  BY <1>5, <1>8, <1>9, <1>4, AdjustAccount

\* expire_stale_holds gives the seats of one stale hold back, or drops them.
LEMMA ReturnAccount ==
    ASSUME Inv, TInv', NEW p \in Requests, ReturnSeats(p), Account(p) PROVE Account(p)'
<1> USE DEF Inv, SInv, TInv, Types, IInv, Shapes
<1>1. PICK e \in todo[p] :
        /\ \/ Adjusted(p, cabin[p], Quantity(e)) /\ dropped' = dropped
           \/ dSeats' = dSeats /\ dropped' = [dropped EXCEPT ![p] = dropped[p] \cup {e}]
        /\ todo' = [todo EXCEPT ![p] = todo[p] \ {e}]
        /\ Goto(p, IF todo[p] = {e} THEN "flush" ELSE "return")
  BY DEF ReturnSeats
<1>2. pc[p] = "return" /\ pc'[p] \in {"return", "flush"} /\ todo'[p] = todo[p] \ {e}
      /\ stale' = stale /\ dStatus' = dStatus /\ seats' = seats
  BY <1>1 DEF ReturnSeats, Goto, db
<1>3. /\ e \in stale[p] /\ e \in Holds /\ Cabin(e) = cabin[p]
      /\ e \in DOMAIN dStatus[p] => dStatus[p][e] = "active"
  BY <1>2 DEF Expiring
<1>4. Quantity(e) \in Int
  BY <1>3, HoldFacts
<1>5. e \notin dropped[p]
  BY <1>2, <1>3 DEF Drops, Running
<1>6. CASE Adjusted(p, cabin[p], Quantity(e)) /\ dropped' = dropped
  <2>1. ~Gave(p, e) /\ Gave(p, e)' /\ (Took(p, e)' <=> Took(p, e))
    BY <1>2, <1>3, <1>5, <1>6 DEF Gave, Took
  <2>2. Moves(p)'[e] = Moves(p)[e] + Quantity(e)
    BY <1>3, <1>4, <2>1 DEF Moves
  <2>3. ASSUME NEW h \in Holds \ {e}
        PROVE  Moves(p)'[h] = Moves(p)[h] /\ (Took(p, h)' => Took(p, h))
    <3>1. (Gave(p, h)' <=> Gave(p, h)) /\ (Took(p, h)' <=> Took(p, h))
      BY <1>2, <1>6 DEF Gave, Took
    <3>2. QED
      BY <3>1 DEF Moves
  <2>4. Adjusted(p, Cabin(e), Quantity(e))
    BY <1>3, <1>6
  <2>5. QED
    BY <1>2, <1>3, <1>4, <2>2, <2>3, <2>4, AdjustAccount
<1>7. CASE dSeats' = dSeats /\ dropped' = [dropped EXCEPT ![p] = dropped[p] \cup {e}]
  <2>1. dropped'[p] = dropped[p] \cup {e}
    BY <1>7
  <2>2. ~Gave(p, e) /\ ~Gave(p, e)'
    BY <1>2, <1>3, <2>1 DEF Gave
  <2>3. \A h \in Holds : (Gave(p, h)' <=> Gave(p, h)) /\ (Took(p, h)' <=> Took(p, h))
    BY <1>2, <2>1, <2>2 DEF Gave, Took
  <2>4. QED
    BY <1>2, <1>7, <2>3, SameAccount
<1>8. QED
  BY <1>1, <1>6, <1>7

\* release_holds gives the seats of every sibling back.
LEMMA ReleaseAccount ==
    ASSUME Inv, TInv', NEW p \in Requests, ReleaseHolds(p), Account(p) PROVE Account(p)'
<1> USE DEF Inv, SInv, TInv, IInv, Shapes
<1> DEFINE Given(c) == {h \in Created(p) : Cabin(h) = c}
           f == [h \in Holds |-> Quantity(h)]
           g == [h \in Holds |-> IF Took(p, h) THEN Quantity(h) ELSE 0]
<1>1. /\ pc[p] = "release" /\ pc'[p] = "refuse" /\ UNCHANGED <<seats, dropped>> /\ p \in Holders
      /\ dSeats'[p] = [c \in DOMAIN dSeats[p] |-> dSeats[p][c] + QuantityOf(Given(c))]
      /\ WriteStatus(p, Created(p), "released")
  BY DEF ReleaseHolds, Goto, db, session, Types, Programs, Requests
<1>2. \A h \in Holds : h \in Created(p) <=> Took(p, h)
  <2> TAKE h \in Holds
  <2>1. StatusSeen(p, h) = IF h \in DOMAIN dStatus[p] THEN dStatus[p][h] ELSE status[h]
    BY Seen
  <2>2. h[1] = p => status[h] # "active"
    BY <1>1, Members DEF Together
  <2>3. QED
    BY <2>1, <2>2, Members DEF Created, Group, Took
<1>3. Created(p) \subseteq Holds
  BY DEF Created, Group
<1>4. /\ DOMAIN dStatus'[p] = Created(p) \cup DOMAIN dStatus[p]
      /\ \A h \in Created(p) : dStatus'[p][h] = "released"
      /\ \A h \in DOMAIN dStatus[p] \ Created(p) : dStatus'[p][h] = dStatus[p][h]
  BY <1>1, Written
<1>5. ASSUME NEW h \in Holds
      PROVE  /\ ~Took(p, h)' /\ Moves(p)'[h] = Moves(p)[h] + g[h]
             /\ f[h] \in Int /\ g[h] \in Int /\ g[h] = IF h \in Created(p) THEN f[h] ELSE 0
  <2>1. Quantity(h) \in Int
    BY HoldFacts
  <2>2. ~Took(p, h)' /\ (Gave(p, h)' <=> Gave(p, h))
    BY <1>1, <1>2, <1>4 DEF Gave, Took
  <2>3. QED
    BY <1>2, <2>1, <2>2 DEF Moves
<1> HIDE DEF f, g
<1>6. ASSUME NEW c \in Cabins
      PROVE  /\ SumFunctionOnSet(Moves(p)', HoldsIn(c))
                  = SumFunctionOnSet(Moves(p), HoldsIn(c)) + QuantityOf(Given(c))
             /\ QuantityOf(Given(c)) \in Int
             /\ c \notin DOMAIN dSeats[p] => QuantityOf(Given(c)) = 0
  <2> DEFINE S == HoldsIn(c)
  <2> DEFINE T == Given(c)
  <2>1. IsFiniteSet(S) /\ S \subseteq Holds /\ T \subseteq S /\ T \subseteq Holds
    BY <1>3, MoveTypes DEF HoldsIn
  <2>2. \A h \in S : h \in T <=> h \in Created(p)
    BY DEF HoldsIn
  <2>3. c \notin DOMAIN dSeats[p] => T = {}
    BY <1>2, <1>3 DEF Account
  <2> HIDE DEF S, T
  <2>4. \A h \in S : f[h] \in Int /\ g[h] = IF h \in T THEN f[h] ELSE 0
    BY <1>5, <2>1, <2>2
  <2>5. SumFunctionOnSet(f, T) = SumFunctionOnSet(g, S)
    BY <2>1, <2>4, SumOnSubset
  <2>6. SumFunctionOnSet(Moves(p)', S) = SumFunctionOnSet(Moves(p), S) + SumFunctionOnSet(g, S)
    <3> DEFINE m == Moves(p)
               n == Moves(p)'
    <3>1. \A h \in S : m[h] \in Int /\ g[h] \in Int /\ n[h] = m[h] + g[h]
      BY <1>5, <2>1, MoveTypes
    <3> HIDE DEF m, n
    <3>2. SumFunctionOnSet(n, S) = SumFunctionOnSet(m, S) + SumFunctionOnSet(g, S)
      BY <2>1, <3>1, SumPlus
    <3>3. QED
      BY <3>2 DEF m, n
  <2>7. QuantityOf(T) = SumFunctionOnSet(f, T) /\ QuantityOf(T) \in Int
    BY <2>1, QuantityType DEF QuantityOf, f
  <2>8. T = {} => SumFunctionOnSet(f, T) = 0
    BY SumEmpty
  <2>9. QED
    BY <2>3, <2>5, <2>6, <2>7, <2>8 DEF S, T
<1> HIDE DEF Given
<1>7. ASSUME NEW c \in Cabins
      PROVE  SeatsSeen(p, c)' = seats'[c] + SumFunctionOnSet(Moves(p)', HoldsIn(c))
  <2>1. SeenRows /\ (TInv' => SeenRows')
    BY SeatsSeenAre, PTL
  <2>2. SeatsSeen(p, c)' = IF c \in DOMAIN dSeats'[p] THEN dSeats'[p][c] ELSE seats'[c]
    BY <2>1 DEF SeenRows
  <2>3. SeatsSeen(p, c) = IF c \in DOMAIN dSeats[p] THEN dSeats[p][c] ELSE seats[c]
    BY <2>1 DEF SeenRows
  <2>4. SeatsSeen(p, c)' = SeatsSeen(p, c) + QuantityOf(Given(c))
    <3>1. SeatsSeen(p, c) \in Int
      BY Seen
    <3>2. QED
      BY <1>1, <1>6, <2>2, <2>3, <3>1
  <2>5. /\ SeatsSeen(p, c) = seats[c] + SumFunctionOnSet(Moves(p), HoldsIn(c))
        /\ seats[c] \in Int /\ SumFunctionOnSet(Moves(p), HoldsIn(c)) \in Int
    BY MoveTypes DEF Account, Types
  <2>6. QED
    BY <1>1, <1>6, <2>4, <2>5
<1>8. QED
  BY <1>5, <1>7 DEF Account


LEMMA OwnAccount ==
    ASSUME Inv, TInv', NEW p \in Requests, RequestStep(p)
    PROVE  Account(p)'
<1> USE DEF Inv, SInv, TInv, IInv, Shapes
<1>1. Account(p)
  OBVIOUS
<1>2. CASE BeginHold(p) \/ Replay(p) \/ LoadHolds(p) \/ RefuseItem(p) \/ RefuseSeats(p)
  <2>1. /\ pc[p] \notin {"return", "flush"} /\ pc'[p] \notin {"return", "flush"}
        /\ UNCHANGED <<seats, dSeats, dStatus, dropped>>
    BY <1>2 DEF BeginHold, Replay, LoadHolds, RefuseItem, RefuseSeats, Goto, db, session
  <2>2. \A h \in Holds : (Gave(p, h)' <=> Gave(p, h)) /\ (Took(p, h)' <=> Took(p, h))
    BY <2>1 DEF Gave, Took
  <2>3. QED
    BY <1>1, <2>1, <2>2, SameAccount
<1>3. CASE SelectStaleHolds(p)
  <2>1. /\ pc[p] = "select" /\ UNCHANGED <<seats, dSeats, dStatus, dropped>> /\ stale'[p] = todo'[p]
    BY <1>3 DEF SelectStaleHolds, db, Types
  <2>2. \A h \in Holds : (Gave(p, h)' <=> Gave(p, h)) /\ (Took(p, h)' <=> Took(p, h))
    BY <2>1 DEF Gave, Took
  <2>3. QED
    BY <1>1, <2>1, <2>2, SameAccount
<1>4. CASE ConvertHolds(p)
  <2>1. /\ pc[p] = "convert" /\ pc'[p] = "commit" /\ UNCHANGED <<seats, dSeats, dropped>>
        /\ WriteStatus(p, Converted(p), "converted") /\ p \in Confirmers
    BY <1>4 DEF ConvertHolds, Goto, db, session, Programs, Requests
  <2>2. \A h \in Converted(p) : h \notin DOMAIN dStatus[p]
    BY <2>1 DEF Unwritten, Converted
  <2>3. /\ DOMAIN dStatus'[p] = Converted(p) \cup DOMAIN dStatus[p]
        /\ \A h \in Converted(p) : dStatus'[p][h] = "converted"
        /\ \A h \in DOMAIN dStatus[p] \ Converted(p) : dStatus'[p][h] = dStatus[p][h]
    BY <2>1, Written
  <2>4. \A h \in Holds : (Gave(p, h)' <=> Gave(p, h)) /\ (Took(p, h)' <=> Took(p, h))
    BY <2>1, <2>2, <2>3 DEF Gave, Took
  <2>5. QED
    BY <1>1, <2>1, <2>4, SameAccount
<1>5. CASE CheckHolds(p) /\ Live(p)
  <2>1. pc[p] = "check" /\ pc'[p] = "convert" /\ UNCHANGED <<seats, dSeats, dStatus, dropped>>
    BY <1>5 DEF CheckHolds, Goto, db, session
  <2>2. \A h \in Holds : (Gave(p, h)' <=> Gave(p, h)) /\ (Took(p, h)' <=> Took(p, h))
    BY <2>1 DEF Gave, Took
  <2>3. QED
    BY <1>1, <2>1, <2>2, SameAccount
<1>6. CASE (CheckHolds(p) /\ ~Live(p)) \/ Commit(p) \/ Rollback(p)
  <2>1. pc'[p] \in Ended /\ CloseSession(p)
    BY <1>6 DEF CheckHolds, Commit, Rollback, Goto, Ended
  <2>2. dSeats'[p] = Nothing /\ dStatus'[p] = Nothing
    BY <2>1 DEF CloseSession, Types
  <2>3. QED
    BY <2>1, <2>2, NoAccount DEF Ended
<1>7. QED
  BY <1>1, <1>2, <1>3, <1>4, <1>5, <1>6, FlushAccount, TakeAccount, ReturnAccount, ReleaseAccount
     DEF RequestStep, Step

LEMMA OthersAccount ==
    ASSUME Inv, TInv', NEW p \in Requests, RequestStep(p), NEW o \in Requests \ {p}
    PROVE  Account(o)'
<1> USE DEF Inv, SInv, TInv
<1>1. Account(o) /\ o \in Requests
  OBVIOUS
<1>2. /\ pc'[o] = pc[o] /\ dSeats'[o] = dSeats[o] /\ dStatus'[o] = dStatus[o]
      /\ stale'[o] = stale[o] /\ todo'[o] = todo[o] /\ dropped'[o] = dropped[o]
  BY Frame
<1>3. \A h \in Holds : (Gave(o, h)' <=> Gave(o, h)) /\ (Took(o, h)' <=> Took(o, h))
  BY <1>2 DEF Gave, Took
<1>4. CASE seats' = seats
  BY <1>1, <1>2, <1>3, <1>4, SameAccount
<1>5. CASE Commit(p)
  <2>1. \A c \in Cabins : seats'[c] = IF c \in DOMAIN dSeats[p] THEN dSeats[p][c] ELSE seats[c]
    BY <1>5, Committed
  <2>2. \A c \in Cabins : c \in DOMAIN dSeats[o] => c \notin DOMAIN dSeats[p]
    BY DEF CabinLocks
  <2>3. SeenRows /\ (TInv' => SeenRows')
    BY SeatsSeenAre, PTL
  <2>4. \A h \in Holds : Moves(o)'[h] = Moves(o)[h]
    BY <1>3 DEF Moves
  <2>5. \A c \in Cabins :
          SumFunctionOnSet(Moves(o)', HoldsIn(c)) = SumFunctionOnSet(Moves(o), HoldsIn(c))
    BY <2>4, SameMoves
  <2>6. ASSUME NEW c \in Cabins
        PROVE  SeatsSeen(o, c)' = seats'[c] + SumFunctionOnSet(Moves(o)', HoldsIn(c))
    <3>1. /\ SeatsSeen(o, c) = seats[c] + SumFunctionOnSet(Moves(o), HoldsIn(c))
          /\ SumFunctionOnSet(Moves(o), HoldsIn(c)) \in Int
      BY MoveTypes DEF Account
    <3>2. /\ SeatsSeen(o, c) = IF c \in DOMAIN dSeats[o] THEN dSeats[o][c] ELSE seats[c]
          /\ SeatsSeen(o, c)' = IF c \in DOMAIN dSeats'[o] THEN dSeats'[o][c] ELSE seats'[c]
          /\ seats[c] \in Int /\ seats'[c] \in Int
      BY <2>3 DEF SeenRows
    <3>3. CASE c \in DOMAIN dSeats[o]
      BY <1>2, <2>1, <2>2, <2>5, <3>1, <3>2, <3>3
    <3>4. CASE c \notin DOMAIN dSeats[o]
      <4>1. SumFunctionOnSet(Moves(o), HoldsIn(c)) = 0
        BY <3>1, <3>2, <3>4
      <4>2. SeatsSeen(o, c)' = seats'[c]
        BY <1>2, <3>2, <3>4
      <4>3. QED
        BY <2>5, <3>2, <4>1, <4>2
    <3>5. QED
      BY <3>3, <3>4
  <2>7. \A h \in Holds : Took(o, h)' => Cabin(h) \in DOMAIN dSeats'[o]
    BY <1>2, <1>3 DEF Account
  <2>8. QED
    BY <2>6, <2>7 DEF Account
<1>6. QED
  BY <1>4, <1>5, OnlyCommits DEF db

LEMMA StepInv == Inv /\ [Next]_vars => Inv'
<1> SUFFICES ASSUME Inv, [Next]_vars PROVE Inv'
  OBVIOUS
<1>1. SInv' /\ TInv'
  BY StepSInv DEF Inv, SInv
<1>2. ASSUME NEW p \in Requests, RequestStep(p) PROVE Inv'
  <2>1. /\ pc[p] \in Running \cup {"idle"}
        /\ \A o \in Requests \ {p} :
            /\ pc'[o] = pc[o] /\ dStatus'[o] = dStatus[o]
            /\ stale'[o] = stale[o] /\ todo'[o] = todo[o] /\ dropped'[o] = dropped[o]
    BY <1>2, Frame DEF Inv, SInv
  <2>2. Account(p)' /\ \A o \in Requests \ {p} : Account(o)'
    BY <1>1, <1>2, OwnAccount, OthersAccount
  <2>3. \A o \in Requests \ {p} : Expiring(o)'
    <3>1. \A o \in Requests \ {p} : cabin'[o] = cabin[o]
      <4>1. CASE SelectStaleHolds(p)
        BY <4>1 DEF SelectStaleHolds, Inv, SInv, TInv, Types
      <4>2. CASE ~SelectStaleHolds(p)
        BY <1>2, <4>2 DEF RequestStep, Step, BeginHold, Replay, LoadHolds, RefuseItem, Rollback,
           ReturnSeats, FlushExpired, TakeSeats, RefuseSeats, ReleaseHolds, CheckHolds,
           ConvertHolds, Commit, session
      <4>3. QED
        BY <4>1, <4>2
    <3>2. QED
      BY <2>1, <3>1 DEF Inv, Expiring
  <2>4. \A o \in Requests \ {p} : Drops(o)'
    <3>1. \A o \in Requests : \A h \in dropped[o] :
            pc[h[1]] = "committed" => pc'[h[1]] = "committed"
      BY <2>1, Members DEF Inv, SInv, TInv, Types, Running, Requests
    <3>2. QED
      BY <2>1, <3>1 DEF Inv, Drops
  <2>5. CabinLocks' /\ Expiring(p)' /\ Unwritten' /\ Drops(p)' /\ LostIsGone'
    BY <1>2, CabinLocksStep, ExpiringStep, UnwrittenStep, DropsStep, LostIsGoneStep
  <2>6. QED
    BY <1>1, <2>2, <2>3, <2>4, <2>5 DEF Inv
<1>3. CASE UNCHANGED <<db, dSeats, dStatus, pc, session>>
  <2>1. UNCHANGED <<seats, commits, status, dSeats, dStatus, pc, leg, left, cabin, stale, todo, mem, dropped>>
    BY <1>3 DEF db, session
  <2>2. /\ CabinLocks' /\ Unwritten' /\ LostIsGone'
        /\ \A r \in Requests : Expiring(r)' /\ Drops(r)'
    BY <2>1 DEF Inv, CabinLocks, Expiring, Unwritten, Drops, LostIsGone, Dropped
  <2>3. \A r \in Requests : \A h \in Holds :
          (Gave(r, h)' <=> Gave(r, h)) /\ (Took(r, h)' <=> Took(r, h))
    BY <2>1 DEF Gave, Took
  <2>4. \A r \in Requests : Account(r)'
    BY <1>1, <2>1, <2>3, SameAccount DEF Inv, SInv
  <2>5. QED
    BY <1>1, <2>2, <2>4 DEF Inv
<1>4. CASE Forget \/ Tick \/ Terminating \/ UNCHANGED vars
  BY <1>3, <1>4 DEF Forget, Tick, Terminating, vars
<1>5. QED
  BY <1>2, <1>4 DEF Next, RequestStep


-----------------------------------------------------------------------------
(* The seats of a cabin *)

Balance(c) == seats[c] + Held(c) + Sold(c)

HeldSeats == [h \in Holds |-> IF status[h] = "active" THEN Quantity(h) ELSE 0]
SoldSeats(r) == [h \in Holds |-> IF h \in Group(Target[r]) THEN Quantity(h) ELSE 0]

HeldIsSum ==
    \A c \in Cabins : Held(c) = SumFunctionOnSet(HeldSeats, HoldsIn(c)) /\ Held(c) \in Nat

LEMMA HeldAdds == HeldIsSum
<1> SUFFICES ASSUME NEW c \in Cabins
             PROVE  Held(c) = SumFunctionOnSet(HeldSeats, HoldsIn(c)) /\ Held(c) \in Nat
  BY DEF HeldIsSum
<1> DEFINE S == HoldsIn(c)
           T == {h \in Holds : status[h] = "active" /\ Cabin(h) = c}
           f == [h \in Holds |-> Quantity(h)]
<1>1. /\ IsFiniteSet(S) /\ T \in SUBSET S /\ T \in SUBSET Holds
      /\ \A h \in S : f[h] \in Int /\ HeldSeats[h] = IF h \in T THEN f[h] ELSE 0
  BY MoveTypes, HoldFacts DEF HoldsIn, HeldSeats
<1>2. Held(c) = SumFunctionOnSet(f, T) /\ Held(c) = QuantityOf(T)
  BY DEF Held, QuantityOf
<1> HIDE DEF S, T, f
<1>3. SumFunctionOnSet(f, T) = SumFunctionOnSet(HeldSeats, S)
  BY <1>1, SumOnSubset
<1>4. Held(c) \in Nat
  BY <1>1, <1>2, QuantityType
<1>5. QED
  BY <1>2, <1>3, <1>4 DEF S

LEMMA SoldAdds ==
    ASSUME NEW r \in Confirmers, NEW c \in Cabins
    PROVE  SoldBy(r, c) = SumFunctionOnSet(SoldSeats(r), HoldsIn(c)) /\ SoldBy(r, c) \in Nat
<1> DEFINE S == HoldsIn(c)
           T == {h \in Group(Target[r]) : Cabin(h) = c}
           f == [h \in Holds |-> Quantity(h)]
           g == SoldSeats(r)
<1>1. /\ IsFiniteSet(S) /\ T \in SUBSET S
      /\ \A h \in S : f[h] \in Int /\ g[h] = IF h \in T THEN f[h] ELSE 0
      /\ \A h \in S : g[h] \in Nat
  BY MoveTypes, HoldFacts DEF HoldsIn, SoldSeats, Group
<1>2. SoldBy(r, c) = SumFunctionOnSet(f, T)
  BY DEF SoldBy, QuantityOf
<1> HIDE DEF S, T, f, g
<1>3. SumFunctionOnSet(f, T) = SumFunctionOnSet(g, S) /\ SumFunctionOnSet(g, S) \in Nat
  BY <1>1, SumOnSubset, SumNat
<1>4. QED
  BY <1>2, <1>3 DEF S, g

LEMMA SoldTypes ==
    ASSUME TInv, NEW c \in Cabins
    PROVE  Sold(c) \in Nat /\ IsFiniteSet(booked)
<1> DEFINE f == [r \in Confirmers |-> SoldBy(r, c)]
<1>1. IsFiniteSet(booked) /\ \A r \in booked : f[r] \in Nat
  BY RequestsAssumption, FS_Subset, SoldAdds DEF TInv, Types
<1> HIDE DEF f
<1>2. SumFunctionOnSet(f, booked) \in Nat
  BY <1>1, SumNat
<1>3. QED
  BY <1>1, <1>2 DEF Sold, f

LostSeats == [h \in Holds |-> IF h \in Dropped THEN Quantity(h) ELSE 0]

LostIsSum ==
    \A c \in Cabins : Lost(c) = SumFunctionOnSet(LostSeats, HoldsIn(c)) /\ Lost(c) \in Nat

LEMMA LostAdds == TInv => LostIsSum
<1> SUFFICES ASSUME TInv, NEW c \in Cabins
             PROVE  Lost(c) = SumFunctionOnSet(LostSeats, HoldsIn(c)) /\ Lost(c) \in Nat
  BY DEF LostIsSum
<1> DEFINE S == HoldsIn(c)
           T == {h \in Dropped : Cabin(h) = c}
           f == [h \in Holds |-> Quantity(h)]
<1>0. Dropped \subseteq Holds
  BY DEF Dropped, TInv, Types
<1>1. /\ IsFiniteSet(S) /\ T \in SUBSET S /\ T \in SUBSET Holds
      /\ \A h \in S : f[h] \in Int /\ LostSeats[h] = IF h \in T THEN f[h] ELSE 0
  BY <1>0, MoveTypes, HoldFacts DEF HoldsIn, LostSeats
<1>2. Lost(c) = SumFunctionOnSet(f, T) /\ Lost(c) = QuantityOf(T)
  BY DEF Lost, QuantityOf
<1> HIDE DEF S, T, f
<1>3. SumFunctionOnSet(f, T) = SumFunctionOnSet(LostSeats, S)
  BY <1>1, SumOnSubset
<1>4. Lost(c) \in Nat
  BY <1>1, <1>2, QuantityType
<1>5. QED
  BY <1>2, <1>3, <1>4 DEF S

\* What a commit does to one hold: the seats the transaction moved, those it
\* sells, those it leaves held and those it loses make up for those that were
\* held; it loses none when nothing expires.
LEMMA CommitHold ==
    ASSUME Inv, NEW p \in Requests, Commit(p), NEW h \in Holds, NEW k,
           k = IF p \in Confirmers /\ h \in Group(Target[p]) THEN Quantity(h) ELSE 0
    PROVE  /\ HeldSeats[h] \in Int /\ HeldSeats'[h] \in Int /\ Moves(p)[h] \in Int /\ k \in Int
           /\ LostSeats[h] \in Int /\ LostSeats'[h] \in Int
           /\ HeldSeats[h] + LostSeats[h] <= HeldSeats'[h] + Moves(p)[h] + k + LostSeats'[h]
           /\ Lasting /\ Current => HeldSeats[h] = HeldSeats'[h] + Moves(p)[h] + k
<1> USE DEF Inv, SInv, TInv, IInv, Shapes
<1>0. /\ LostSeats[h] = IF h \in Dropped THEN Quantity(h) ELSE 0
      /\ LostSeats'[h] = IF h \in Dropped \/ h \in dropped[p] THEN Quantity(h) ELSE 0
      /\ h \in Dropped => status[h] # "active"
  <2>1. RequestStep(p)
    BY DEF RequestStep, Step
  <2>2. Dropped' = Dropped \cup dropped[p]
    BY <2>1, DroppedStep
  <2>3. QED
    BY <2>2 DEF LostSeats, LostIsGone
<1>1. /\ pc[p] \in {"commit", "refuse"}
      /\ status'[h] = IF h \in DOMAIN dStatus[p] THEN dStatus[p][h] ELSE status[h]
  BY Committed DEF Commit
<1>2. Quantity(h) \in Nat
  BY HoldFacts
<1>3. /\ HeldSeats[h] = IF status[h] = "active" THEN Quantity(h) ELSE 0
      /\ HeldSeats'[h] = IF status'[h] = "active" THEN Quantity(h) ELSE 0
      /\ Moves(p)[h] = (IF Gave(p, h) THEN Quantity(h) ELSE 0) - (IF Took(p, h) THEN Quantity(h) ELSE 0)
  BY DEF HeldSeats, Moves
<1>4. Gave(p, h) <=> /\ h \notin dropped[p] /\ h \in DOMAIN dStatus[p] /\ h[1] # p
                     /\ dStatus[p][h] = "expired"
  BY <1>1 DEF Gave
<1>5. ASSUME p \in Confirmers, h \in Group(Target[p])
      PROVE  /\ h \in DOMAIN dStatus[p] /\ dStatus[p][h] = "converted"
             /\ Lasting /\ Current => status[h] = "active"
  <2>1. pc[p] = "commit" /\ Loaded(p)
    BY <1>1, <1>5 DEF Programs
  <2>2. DOMAIN mem[p] = Group(Target[p]) /\ mem[p][h] = "active"
    BY <1>5, <2>1 DEF Loaded, Running
  <2>3. QED
    BY <1>5, <2>1, <2>2 DEF Loaded, Current, Running
<1>6. CASE h \notin DOMAIN dStatus[p]
  <2>1. k = 0 /\ ~Gave(p, h) /\ ~Took(p, h) /\ status'[h] = status[h]
    BY <1>1, <1>4, <1>5, <1>6 DEF Took
  <2>2. QED
    BY <1>0, <1>2, <1>3, <2>1
<1>7. CASE h \in DOMAIN dStatus[p] /\ h[1] = p
  <2>1. p \in Holders /\ p \notin Confirmers
    BY <1>7, Members, RequestsAssumption
  <2>2. status[h] # "active"
    BY <1>1, <1>7, <2>1, Members DEF Together
  <2>3. k = 0 /\ ~Gave(p, h) /\ (Took(p, h) <=> status'[h] = "active")
    BY <1>1, <1>4, <1>7, <2>1 DEF Took
  <2>4. QED
    BY <1>0, <1>2, <1>3, <2>2, <2>3
<1>8. CASE h \in DOMAIN dStatus[p] /\ h[1] # p
  <2>1. ~Took(p, h) /\ status'[h] = dStatus[p][h] /\ dStatus[p][h] \in {"expired", "converted"}
    BY <1>1, <1>8 DEF Took, OthersRows
  <2>2. CASE dStatus[p][h] = "expired"
    <3>1. /\ Gave(p, h) \/ h \in dropped[p]
          /\ k = 0 /\ status'[h] # "active" /\ ~Lasting
      BY <1>4, <1>5, <1>8, <2>1, <2>2 DEF Lasting
    <3>2. QED
      BY <1>0, <1>2, <1>3, <2>1, <3>1
  <2>3. CASE dStatus[p][h] = "converted"
    <3>1. ~Gave(p, h) /\ p \in Confirmers /\ h \in Group(Target[p])
      BY <1>4, <1>8, <2>3 DEF Conversions
    <3>2. k = Quantity(h) /\ status'[h] # "active"
      BY <2>1, <2>3, <3>1
    <3>3. QED
      BY <1>0, <1>2, <1>3, <1>5, <2>1, <3>1, <3>2
  <2>4. QED
    BY <2>1, <2>2, <2>3
<1>9. QED
  BY <1>6, <1>7, <1>8

LEMMA CommitBalance ==
    ASSUME Inv, TInv', NEW p \in Requests, Commit(p), NEW c \in Cabins
    PROVE  /\ Balance(c)' + Lost(c)' >= Balance(c) + Lost(c)
           /\ Lasting /\ Current => Balance(c)' = Balance(c)
<1> USE DEF Inv, SInv, TInv
<1> DEFINE S == HoldsIn(c)
           a == HeldSeats
           b == HeldSeats'
           m == Moves(p)
           k == [h \in Holds |-> IF p \in Confirmers /\ h \in Group(Target[p]) THEN Quantity(h) ELSE 0]
           mk == [h \in Holds |-> m[h] + k[h]]
           bmk == [h \in Holds |-> b[h] + mk[h]]
           l == LostSeats
           n == LostSeats'
           al == [h \in Holds |-> a[h] + l[h]]
           bn == [h \in Holds |-> bmk[h] + n[h]]
<1>1. IsFiniteSet(S) /\ S \subseteq Holds
  BY MoveTypes
<1>2. ASSUME NEW h \in S
      PROVE  /\ a[h] \in Int /\ b[h] \in Int /\ m[h] \in Int /\ k[h] \in Int
             /\ mk[h] = m[h] + k[h] /\ bmk[h] = b[h] + mk[h] /\ mk[h] \in Int /\ bmk[h] \in Int
             /\ l[h] \in Int /\ n[h] \in Int /\ al[h] = a[h] + l[h] /\ bn[h] = bmk[h] + n[h]
             /\ al[h] \in Int /\ bn[h] \in Int /\ al[h] <= bn[h]
             /\ Lasting /\ Current => a[h] = bmk[h]
  <2>0. h \in Holds
    BY <1>1
  <2>1. /\ mk[h] = m[h] + k[h] /\ bmk[h] = b[h] + mk[h]
        /\ al[h] = a[h] + l[h] /\ bn[h] = bmk[h] + n[h]
        /\ k[h] = IF p \in Confirmers /\ h \in Group(Target[p]) THEN Quantity(h) ELSE 0
    BY <2>0
  <2> HIDE DEF a, b, m, k, mk, bmk, l, n, al, bn
  <2>2. /\ a[h] \in Int /\ b[h] \in Int /\ m[h] \in Int /\ k[h] \in Int
        /\ l[h] \in Int /\ n[h] \in Int
        /\ a[h] + l[h] <= b[h] + m[h] + k[h] + n[h]
        /\ Lasting /\ Current => a[h] = b[h] + m[h] + k[h]
    BY <2>0, <2>1, CommitHold DEF a, b, m, l, n
  <2>3. QED
    BY <2>1, <2>2
<1>3. /\ seats'[c] = seats[c] + SumFunctionOnSet(m, S) /\ seats[c] \in Int
      /\ SumFunctionOnSet(m, S) \in Int
  <2>1. seats'[c] = SeatsSeen(p, c)
    BY DEF Commit, SeatsSeen
  <2>2. QED
    BY <2>1, MoveTypes DEF Account, Types
<1>4. /\ Held(c) = SumFunctionOnSet(a, S) /\ Held(c) \in Int
      /\ Held(c)' = SumFunctionOnSet(b, S) /\ Held(c)' \in Int
  <2>1. HeldIsSum /\ HeldIsSum'
    BY HeldAdds, PTL
  <2>2. QED
    BY <2>1 DEF HeldIsSum
<1>5. Sold(c) \in Int /\ Sold(c)' = Sold(c) + SumFunctionOnSet(k, S) /\ SumFunctionOnSet(k, S) \in Int
  <2> DEFINE f == [r \in Confirmers |-> SoldBy(r, c)]
  <2>1. /\ Sold(c) = SumFunctionOnSet(f, booked) /\ Sold(c)' = SumFunctionOnSet(f, booked')
        /\ Sold(c) \in Int /\ IsFiniteSet(booked) /\ booked' = booked \cup ({p} \cap Confirmers)
        /\ \A r \in booked : f[r] \in Int
    BY SoldTypes, SoldAdds DEF Sold, Commit, Types
  <2>2. CASE p \in Confirmers
    <3>1. p \notin booked
      BY DEF Sales, Commit
    <3>2. f[p] = SoldBy(p, c) /\ f[p] \in Int /\ k = SoldSeats(p)
      <4>1. f[p] = SoldBy(p, c) /\ f[p] \in Int
        BY <2>2, SoldAdds
      <4>2. \A h \in Holds : k[h] = SoldSeats(p)[h]
        BY <2>2 DEF SoldSeats
      <4>3. k = SoldSeats(p)
        BY <4>2 DEF SoldSeats
      <4>4. QED
        BY <4>1, <4>3
    <3>3. f[p] = SumFunctionOnSet(k, S)
      BY <2>2, <3>2, SoldAdds
    <3> HIDE DEF f, k, S
    <3>4. SumFunctionOnSet(f, booked \cup {p}) = SumFunctionOnSet(f, booked) + f[p]
      BY <2>1, <3>1, <3>2, SumAdd
    <3>5. booked' = booked \cup {p}
      BY <2>1, <2>2
    <3>6. QED
      BY <2>1, <3>2, <3>3, <3>4, <3>5
  <2>3. CASE p \notin Confirmers
    <3>1. booked' = booked /\ \A h \in S : k[h] = 0
      BY <1>1, <2>1, <2>3
    <3> HIDE DEF f, k, S
    <3>2. SumFunctionOnSet(k, S) = 0
      BY <1>1, <3>1, SumZeros
    <3>3. Sold(c)' = Sold(c) /\ Sold(c) \in Int
      BY <2>1, <3>1
    <3>4. QED
      BY <3>2, <3>3
  <2>4. QED
    BY <2>2, <2>3
<1>6. /\ Lost(c) = SumFunctionOnSet(l, S) /\ Lost(c) \in Int
      /\ Lost(c)' = SumFunctionOnSet(n, S) /\ Lost(c)' \in Int
  <2>1. LostIsSum /\ LostIsSum'
    BY LostAdds, PTL
  <2>2. QED
    BY <2>1 DEF LostIsSum
<1> HIDE DEF S, a, b, m, k, mk, bmk, l, n, al, bn
<1>7. SumFunctionOnSet(mk, S) = SumFunctionOnSet(m, S) + SumFunctionOnSet(k, S)
  BY <1>1, <1>2, SumPlus
<1>8. SumFunctionOnSet(bmk, S) = SumFunctionOnSet(b, S) + SumFunctionOnSet(mk, S)
  BY <1>1, <1>2, SumPlus
<1>9. /\ SumFunctionOnSet(al, S) = SumFunctionOnSet(a, S) + SumFunctionOnSet(l, S)
      /\ SumFunctionOnSet(bn, S) = SumFunctionOnSet(bmk, S) + SumFunctionOnSet(n, S)
  BY <1>1, <1>2, SumPlus
<1>10. SumFunctionOnSet(al, S) <= SumFunctionOnSet(bn, S)
  BY <1>1, <1>2, SumAtMost
<1>11. Lasting /\ Current => SumFunctionOnSet(a, S) = SumFunctionOnSet(bmk, S)
  BY <1>1, <1>2, SumEqual
<1>12. Balance(c)' = seats'[c] + Held(c)' + Sold(c)' /\ Balance(c) = seats[c] + Held(c) + Sold(c)
  BY DEF Balance
<1>13. Balance(c)' + Lost(c)' >= Balance(c) + Lost(c)
  BY <1>3, <1>4, <1>5, <1>6, <1>7, <1>8, <1>9, <1>10, <1>12
<1>14. QED
  BY <1>3, <1>4, <1>5, <1>7, <1>8, <1>11, <1>12, <1>13


\* What a confirmation has loaded active stays active: another confirmation of
\* the group is not under way, and nothing expires.
LEMMA CurrentStep ==
    ASSUME RetriesWait, Inv, Turns, Lasting, Current, NEW p \in Requests, RequestStep(p)
    PROVE  Current'
<1> USE DEF Inv, SInv
<1> SUFFICES ASSUME NEW r \in Confirmers, pc'[r] \in Running,
                    NEW h \in DOMAIN mem'[r], mem'[r][h] = "active"
             PROVE  status'[h] = "active"
  BY DEF Current
<1>1. /\ pc[p] \in Running \cup {"idle"}
      /\ \A o \in Requests \ {p} : pc'[o] = pc[o]
      /\ \A o \in Confirmers \ {p} : mem'[o] = mem[o]
  BY Frame
<1>2. r \in Requests
  BY DEF Requests
<1>3. CASE pc[r] = "idle"
  <2>1. r = p
    BY <1>1, <1>2, <1>3 DEF Running
  <2>2. LoadHolds(r)
    BY <1>2, <1>3, <2>1, RequestsAssumption
       DEF RequestStep, Step, Replay, BeginHold, RefuseItem, Rollback, Running, Goto, TInv, IInv, Shapes,
       SelectStaleHolds, ReturnSeats, FlushExpired, TakeSeats, RefuseSeats, ReleaseHolds,
       CheckHolds, ConvertHolds, Commit
  <2>3. status' = status /\ mem'[r][h] = status[h]
    BY <2>2 DEF LoadHolds, db, TInv, IInv, Shapes
  <2>4. QED
    BY <2>3
<1>4. CASE pc[r] # "idle"
  <2>1. pc[r] \in Running /\ pc[r] \notin Ended
    BY <1>1, <1>2, <1>4 DEF Running, Ended
  <2>2. h \in DOMAIN mem[r] /\ mem[r][h] = "active"
    <3>1. CASE r = p
      BY <1>4, <3>1, CopiesStay
    <3>2. CASE r # p
      BY <1>1, <3>2
    <3>3. QED
      BY <3>1, <3>2
  <2>3. /\ status[h] = "active" /\ h \in Group(Target[r])
        /\ h \in Holds /\ pc[h[1]] = "committed"
    BY <2>1, <2>2 DEF Current, Loaded, TInv, IInv, KnownHolds, Standing
  <2>4. CASE Commit(p)
    <3>1. status'[h] = IF h \in DOMAIN dStatus[p] THEN dStatus[p][h] ELSE status[h]
      BY <2>3, <2>4, Committed
    <3>2. r # p
      BY <1>2, <2>4 DEF Commit, Goto, Running, TInv, IInv, Shapes
    <3>3. h[1] # p
      BY <1>1, <2>3 DEF Running
    <3>4. ASSUME h \in DOMAIN dStatus[p] PROVE FALSE
      <4>1. dStatus[p][h] = "converted"
        BY <3>3, <3>4 DEF TInv, IInv, OthersRows, Lasting
      <4>2. p \in Confirmers /\ pc[p] = "commit" /\ h \in Group(Target[p])
        BY <3>4, <4>1 DEF Conversions
      <4>3. Target[p] = Target[r] /\ pc[p] # "idle" /\ pc[p] \notin Ended
        BY <2>3, <4>2 DEF Group, Ended
      <4>4. p \in After[r] \/ r \in After[p]
        BY <3>2, <4>2, <4>3 DEF RetriesWait
      <4>5. QED
        BY <1>4, <2>1, <4>2, <4>3, <4>4 DEF Turns
    <3>5. QED
      BY <2>3, <3>1, <3>4
  <2>5. CASE ~Commit(p)
    BY <2>3, <2>5, OnlyCommits DEF db
  <2>6. QED
    BY <2>4, <2>5
<1>5. QED
  BY <1>3, <1>4

LEMMA InitInv == Init => FreshInv
<1> SUFFICES ASSUME Init PROVE FreshInv
  OBVIOUS
<1>1. SInv /\ Lasting /\ TInv
  BY InitSales, InitLasting DEF SInv
<1>2. \A r \in Requests : /\ pc[r] \in {"idle", "committed"} /\ stale[r] = {} /\ todo[r] = {}
                          /\ DOMAIN dSeats[r] = {} /\ DOMAIN dStatus[r] = {}
                          /\ dSeats[r] = Nothing /\ dStatus[r] = Nothing
  BY DEF Init, Nothing
<1>3. \A r \in Confirmers : r \in Requests /\ pc[r] = "idle" /\ DOMAIN mem[r] = {}
  BY RequestsAssumption DEF Init, Requests, Nothing
<1>4. Turns /\ Current
  BY <1>3 DEF Turns, Current, Running
<1>5. CabinLocks /\ Unwritten /\ \A r \in Requests : Expiring(r)
  BY <1>2, <1>3 DEF CabinLocks, Unwritten, Expiring, Running, Requests
<1>6. LostIsGone /\ \A r \in Requests : Drops(r)
  <2>1. \A r \in Requests : dropped[r] = {}
    BY DEF Init
  <2>2. QED
    BY <2>1 DEF Drops, LostIsGone, Dropped
<1>7. ASSUME NEW r \in Requests PROVE Account(r)
  <2>1. \A h \in Holds : ~Took(r, h) /\ Moves(r)[h] = 0
    BY <1>2 DEF Moves, Gave, Took
  <2>2. ASSUME NEW c \in Cabins PROVE SumFunctionOnSet(Moves(r), HoldsIn(c)) = 0
    <3>1. IsFiniteSet(HoldsIn(c)) /\ \A h \in HoldsIn(c) : Moves(r)[h] = 0
      BY <2>1, MoveTypes
    <3>2. QED
      BY <3>1, SumZeros
  <2>3. \A c \in Cabins : SeatsSeen(r, c) = seats[c] /\ seats[c] \in Int
    BY <1>1, <1>2, SeatsSeenAre DEF SeenRows
  <2>4. QED
    BY <2>1, <2>2, <2>3 DEF Account
<1>8. QED
  BY <1>1, <1>4, <1>5, <1>6, <1>7 DEF FreshInv, Inv

LEMMA InitBalance == Init => \A c \in Cabins : Balance(c) = Total[c] /\ Balance(c) \in Int
<1> SUFFICES ASSUME Init, NEW c \in Cabins PROVE Balance(c) = Total[c] /\ Balance(c) \in Int
  OBVIOUS
<1> DEFINE T == {h \in Holds : status[h] = "active" /\ Cabin(h) = c}
           E == {h \in Holds : h[1] \in Existing /\ Cabin(h) = c}
<1>1. T = E
  BY DEF Init
<1>2. Held(c) = QuantityOf(T) /\ seats[c] = Total[c] - QuantityOf(E)
  BY DEF Held, Init
<1>3. Held(c) = QuantityOf(E) /\ QuantityOf(E) \in Int /\ Total[c] \in Int
  <2>1. E \in SUBSET Holds
    OBVIOUS
  <2>2. QuantityOf(E) \in Nat
    <3> HIDE DEF E
    <3>1. QED
      BY <2>1, QuantityType
  <2>3. Held(c) = QuantityOf(E)
    BY <1>1, <1>2
  <2>4. Total[c] \in Int
    BY PolicyAssumption
  <2>5. QED
    BY <2>2, <2>3, <2>4
<1>4. Sold(c) = 0
  BY SumEmpty DEF Sold, Init
<1> HIDE DEF T, E
<1>5. QED
  BY <1>2, <1>3, <1>4 DEF Balance

CountsAreNat == \A c \in Cabins : Held(c) \in Nat /\ Sold(c) \in Nat

LEMMA CountsTyped == TInv => CountsAreNat
BY HeldAdds, SoldTypes DEF HeldIsSum, CountsAreNat

LEMMA CountTypes ==
    ASSUME TInv, TInv', NEW c \in Cabins
    PROVE  Held(c) \in Nat /\ Held(c)' \in Nat /\ Sold(c) \in Nat /\ Sold(c)' \in Nat
<1>1. CountsAreNat /\ CountsAreNat'
  BY CountsTyped, PTL
<1>2. QED
  BY <1>1 DEF CountsAreNat

BalancesAreInt == \A c \in Cabins : Balance(c) \in Int

LEMMA BalanceType == TInv => BalancesAreInt
BY HeldAdds, SoldTypes DEF BalancesAreInt, HeldIsSum, Balance, TInv, Types

LostIsNat == \A c \in Cabins : Lost(c) \in Nat

LEMMA LostType == TInv => LostIsNat
BY LostAdds DEF LostIsSum, LostIsNat

\* A step keeps the balance of every cabin or, when holds may lapse, takes no
\* more from it than it loses.
LEMMA StepBalance ==
    ASSUME Inv, TInv', [Next]_vars, NEW c \in Cabins
    PROVE  /\ Balance(c)' + Lost(c)' >= Balance(c) + Lost(c)
           /\ Balance(c) \in Int /\ Balance(c)' \in Int
           /\ Lasting /\ Current => Balance(c)' = Balance(c)
<1>1. Balance(c) \in Int /\ Balance(c)' \in Int /\ Lost(c) \in Int /\ Lost(c)' \in Int
  <2>1. /\ (TInv => BalancesAreInt) /\ (TInv' => BalancesAreInt')
        /\ (TInv => LostIsNat) /\ (TInv' => LostIsNat')
    BY BalanceType, LostType, PTL
  <2>2. QED
    BY <2>1 DEF BalancesAreInt, LostIsNat, Inv, SInv
<1>2. CASE UNCHANGED <<seats, status, booked>> /\ Dropped' = Dropped
  <2>1. Balance(c)' = Balance(c) /\ Lost(c)' = Lost(c)
    BY <1>2 DEF Balance, Held, Sold, Lost
  <2>2. QED
    BY <1>1, <2>1
<1>3. ASSUME NEW p \in Requests, Commit(p)
      PROVE  /\ Balance(c)' + Lost(c)' >= Balance(c) + Lost(c)
             /\ Lasting /\ Current => Balance(c)' = Balance(c)
  BY <1>3, CommitBalance
<1>4. CASE Forget \/ Tick \/ Terminating \/ UNCHANGED vars
  <2>1. UNCHANGED <<seats, status, booked, pc, dropped>>
    BY <1>4 DEF Forget, Tick, Terminating, vars, db, session
  <2>2. QED
    BY <1>2, <2>1 DEF Dropped
<1>5. ASSUME NEW p \in Requests, RequestStep(p), ~Commit(p)
      PROVE  UNCHANGED <<seats, status, booked>> /\ Dropped' = Dropped
  BY <1>5, OnlyCommits, DroppedStep DEF db, Inv, SInv
<1>6. QED
  BY <1>1, <1>2, <1>3, <1>4, <1>5 DEF Next, RequestStep

\* No interleaving of holds, expiries, releases, confirmations and rollbacks
\* loses a seat, however many holds lapse and whoever expires them, but those of
\* a hold that expire_stale_holds marks expired although adjust_available_seats
\* gave up on its seats: for any number of requests and of attempts.
THEOREM OnlyRacesLose == Spec => []OnlyRacesLoseSeats
<1> DEFINE Kept == \A c \in Cabins : Balance(c) + Lost(c) >= Total[c]
<1>1. Kept => OnlyRacesLoseSeats
  BY DEF OnlyRacesLoseSeats, Balance
<1>2. Init => Inv /\ Kept
  <2> SUFFICES ASSUME Init, NEW c \in Cabins PROVE Inv /\ Balance(c) + Lost(c) >= Total[c]
    BY InitInv DEF FreshInv
  <2>1. Inv /\ Lost(c) \in Nat
    BY InitInv, LostType DEF FreshInv, Inv, SInv, LostIsNat
  <2>2. QED
    BY <2>1, InitBalance
<1>3. Inv /\ Kept /\ [Next]_vars => (Inv /\ Kept)'
  <2> SUFFICES ASSUME Inv, Kept, [Next]_vars PROVE (Inv /\ Kept)'
    OBVIOUS
  <2>1. Inv' /\ TInv'
    BY StepInv DEF Inv, SInv
  <2>2. ASSUME NEW c \in Cabins PROVE Balance(c)' + Lost(c)' >= Total[c]
    <3>1. Balance(c) + Lost(c) >= Total[c] /\ Total[c] \in Int
      BY PolicyAssumption
    <3>2. Lost(c) \in Int /\ Lost(c)' \in Int
      <4>1. (TInv => LostIsNat) /\ (TInv' => LostIsNat')
        BY LostType, PTL
      <4>2. QED
        BY <2>1, <4>1 DEF LostIsNat, Inv, SInv
    <3>3. QED
      BY <2>1, <3>1, <3>2, StepBalance
  <2>3. QED
    BY <2>1, <2>2
<1>4. QED
  BY <1>1, <1>2, <1>3, PTL DEF Spec

LEMMA StepFreshInv ==
    NothingLapses /\ RetriesWait /\ FreshInv /\ [Next]_vars => FreshInv' /\ TInv'
<1> SUFFICES ASSUME NothingLapses, RetriesWait, FreshInv, [Next]_vars PROVE FreshInv' /\ TInv'
  OBVIOUS
<1> USE DEF FreshInv
<1>1. Inv' /\ Lasting' /\ TInv'
  BY StepInv, StepLasting DEF Inv, SInv
<1>2. ASSUME NEW p \in Requests, RequestStep(p) PROVE Turns' /\ Current'
  BY <1>2, TurnsStep, CurrentStep DEF Inv
<1>3. ASSUME UNCHANGED <<db, pc, mem>> PROVE Turns' /\ Current'
  BY <1>3 DEF Turns, Current, db
<1>4. ASSUME Forget \/ Tick \/ Terminating \/ UNCHANGED vars PROVE Turns' /\ Current'
  BY <1>3, <1>4 DEF Forget, Tick, Terminating, vars, session
<1>5. QED
  BY <1>1, <1>2, <1>4 DEF Next, RequestStep

LEMMA StepConserved ==
    NothingLapses /\ RetriesWait /\ FreshInv /\ SeatsConserved /\ [Next]_vars
        => (FreshInv /\ SeatsConserved)'
<1> SUFFICES ASSUME NothingLapses, RetriesWait, FreshInv, SeatsConserved, [Next]_vars
             PROVE  (FreshInv /\ SeatsConserved)'
  OBVIOUS
<1>1. FreshInv' /\ TInv'
  BY StepFreshInv
<1>2. ASSUME NEW c \in Cabins PROVE Balance(c)' = Total[c]
  <2>1. Balance(c) = Total[c]
    BY DEF SeatsConserved, Balance
  <2>2. QED
    BY <1>1, <2>1, StepBalance DEF FreshInv
<1>3. SeatsConserved'
  BY <1>2 DEF SeatsConserved, Balance
<1>4. QED
  BY <1>1, <1>3

\* Every seat of a cabin is free, held or sold, exactly once, whatever hold_seats,
\* release_holds, convert_hold_to_booking and rollbacks interleave: for clients
\* that wait for the answer to a confirmation, and as long as no hold lapses.
THEOREM SeatsAreConserved == ASSUME NothingLapses, RetriesWait PROVE Spec => []SeatsConserved
<1>1. Init => FreshInv /\ SeatsConserved
  BY InitInv, InitBalance DEF SeatsConserved, Balance
<1>2. QED
  BY <1>1, StepConserved, PTL DEF Spec


-----------------------------------------------------------------------------
(* Never oversold *)

\* The cabins can hold what was held before the requests.
StartsInStock ==
    \A c \in Cabins : QuantityOf({h \in Holds : h[1] \in Existing /\ Cabin(h) = c}) <= Total[c]

\* adjust_available_seats never goes below zero.
Stock ==
    /\ \A c \in Cabins : seats[c] >= 0
    /\ \A r \in Requests : \A c \in DOMAIN dSeats[r] : dSeats[r][c] >= 0

LEMMA StockStep ==
    ASSUME TInv, Stock, NEW p \in Requests, RequestStep(p)
    PROVE  Stock'
<1> USE DEF TInv, Types
<1>1. \A o \in Requests \ {p} : dSeats'[o] = dSeats[o]
  BY Frame
<1>2. ASSUME NEW c \in Cabins, NEW delta \in Int, Adjusted(p, c, delta)
      PROVE  \A x \in DOMAIN dSeats'[p] : dSeats'[p][x] >= 0
  <2>1. SeatsSeen(p, c) + delta >= 0
    BY <1>2 DEF Adjusted
  <2>2. /\ DOMAIN dSeats'[p] = {c} \cup DOMAIN dSeats[p]
        /\ dSeats'[p][c] = SeatsSeen(p, c) + delta
        /\ \A x \in DOMAIN dSeats[p] \ {c} : dSeats'[p][x] = dSeats[p][x]
    BY <1>2, AdjustedIs
  <2>3. \A x \in DOMAIN dSeats[p] : dSeats[p][x] >= 0
    BY DEF Stock
  <2>4. QED
    BY <2>1, <2>2, <2>3
<1>3. \A x \in DOMAIN dSeats'[p] : dSeats'[p][x] >= 0
  <2>1. CASE TakeSeats(p)
    <3>1. PICK h \in Holds : h = <<p, leg[p]>>
      BY <2>1, GroupRows DEF TakeSeats, IInv, Programs, Progress, Requests
    <3>2. Adjusted(p, Cabin(h), -Quantity(h))
      BY <2>1, <3>1 DEF TakeSeats
    <3>3. Cabin(h) \in Cabins /\ -Quantity(h) \in Int
      BY <3>1, HoldFacts
    <3>4. QED
      BY <1>2, <3>2, <3>3
  <2>2. CASE ReturnSeats(p)
    <3>1. PICK h \in todo[p] : Adjusted(p, cabin[p], Quantity(h)) \/ UNCHANGED dSeats
      BY <2>2 DEF ReturnSeats
    <3>2. cabin[p] \in Cabins /\ Quantity(h) \in Int
      BY <2>2, HoldFacts DEF ReturnSeats
    <3>3. QED
      BY <1>2, <3>1, <3>2 DEF Stock
  <2>3. CASE ReleaseHolds(p)
    <3> DEFINE Given(c) == {h \in Created(p) : Cabin(h) = c}
    <3>1. /\ DOMAIN dSeats'[p] = DOMAIN dSeats[p]
          /\ \A c \in DOMAIN dSeats[p] : dSeats'[p][c] = dSeats[p][c] + QuantityOf(Given(c))
      BY <2>3 DEF ReleaseHolds
    <3>2. \A c \in Cabins : QuantityOf(Given(c)) \in Nat
      BY QuantityType DEF Created, Group
    <3> HIDE DEF Given
    <3>3. \A c \in DOMAIN dSeats[p] : c \in Cabins /\ dSeats[p][c] \in Int /\ dSeats[p][c] >= 0
      BY DEF Stock
    <3>4. QED
      BY <3>1, <3>2, <3>3
  <2>4. CASE ~(TakeSeats(p) \/ ReturnSeats(p) \/ ReleaseHolds(p))
    <3>1. dSeats' = dSeats \/ CloseSession(p)
      BY <2>4 DEF RequestStep, Step, BeginHold, Replay, LoadHolds, RefuseItem, Rollback,
         SelectStaleHolds, FlushExpired, RefuseSeats, CheckHolds, ConvertHolds, Commit
    <3>2. QED
      BY <3>1, ClosedTypes DEF Stock
  <2>5. QED
    BY <2>1, <2>2, <2>3, <2>4
<1>4. \A c \in Cabins : seats'[c] >= 0
  <2>1. CASE Commit(p)
    BY <2>1, Committed DEF Stock
  <2>2. CASE ~Commit(p)
    BY <2>2, OnlyCommits DEF Stock, db
  <2>3. QED
    BY <2>1, <2>2
<1>5. QED
  BY <1>1, <1>3, <1>4 DEF Stock

LEMMA InitStock == StartsInStock /\ Init => Stock
<1> SUFFICES ASSUME StartsInStock, Init PROVE Stock
  OBVIOUS
<1> DEFINE E(c) == QuantityOf({h \in Holds : h[1] \in Existing /\ Cabin(h) = c})
<1>1. \A c \in Cabins : Total[c] \in Int /\ E(c) \in Int /\ E(c) <= Total[c]
  BY PolicyAssumption, QuantityType DEF StartsInStock
<1>2. \A c \in Cabins : seats[c] >= 0
  <2>1. \A c \in Cabins : seats[c] = Total[c] - E(c)
    BY DEF Init
  <2> HIDE DEF E
  <2>2. QED
    BY <1>1, <2>1
<1>3. QED
  BY <1>2 DEF Init, Stock, Nothing

LEMMA StepStock == TInv /\ Stock /\ [Next]_vars => Stock'
<1> SUFFICES ASSUME TInv, Stock, [Next]_vars PROVE Stock'
  OBVIOUS
<1>1. CASE UNCHANGED <<seats, dSeats>>
  BY <1>1 DEF Stock
<1>2. CASE Forget \/ Tick \/ Terminating \/ UNCHANGED vars
  BY <1>1, <1>2 DEF Forget, Tick, Terminating, vars, db
<1>3. QED
  BY <1>2, StockStep DEF Next, RequestStep

\* README "Seats are never oversold": held and sold seats fit in the cabin, for
\* clients that wait for the answer to a confirmation, and as long as no hold
\* lapses.  (When holds lapse under two requests at once it is not so: the run
\* of double_expiry.)
THEOREM CabinsAreNeverOversold ==
    ASSUME NothingLapses, RetriesWait, StartsInStock PROVE Spec => []NeverOversold
<1>1. FreshInv => TInv
  BY DEF FreshInv, Inv, SInv
<1>2. FreshInv /\ SeatsConserved /\ Stock => NeverOversold
  <2> SUFFICES ASSUME FreshInv, SeatsConserved, Stock, NEW c \in Cabins
               PROVE  Held(c) + Sold(c) <= Total[c]
    BY DEF NeverOversold
  <2>1. seats[c] \in Int /\ seats[c] >= 0 /\ Held(c) \in Int /\ Sold(c) \in Int
    BY <1>1, HeldAdds, SoldTypes DEF TInv, Types, Stock, HeldIsSum
  <2>2. seats[c] + Held(c) + Sold(c) = Total[c]
    BY DEF SeatsConserved
  <2>3. QED
    BY <2>1, <2>2
<1>3. Init => FreshInv /\ SeatsConserved
  BY InitInv, InitBalance DEF SeatsConserved, Balance
<1>4. QED
  BY <1>1, <1>2, <1>3, InitStock, StepStock, StepConserved, PTL DEF Spec

-----------------------------------------------------------------------------
(* SeatHolds implements SeatInventory *)

\* A confirmation that commits moves no seat: what it sells was held.
LEMMA SoldWasHeld ==
    ASSUME Inv, TInv', Lasting, Current, NEW p \in Requests, Commit(p), NEW c \in Cabins,
           Sold(c)' # Sold(c)
    PROVE  Held(c) - Held(c)' = Sold(c)' - Sold(c)
<1> USE DEF Inv, SInv, TInv
<1>1. p \in Confirmers /\ pc[p] = "commit"
  <2>1. booked' # booked
    BY DEF Sold
  <2>2. p \in Confirmers
    BY <2>1 DEF Commit
  <2>3. QED
    BY <2>2 DEF Commit, IInv, Programs
<1>2. ASSUME NEW h \in Holds PROVE Moves(p)[h] = 0
  <2>1. ~Gave(p, h)
    BY <1>1 DEF Gave, Lasting
  <2>2. ~Took(p, h)
    BY <1>1, Members, RequestsAssumption DEF Took
  <2>3. QED
    BY <2>1, <2>2 DEF Moves
<1>3. SumFunctionOnSet(Moves(p), HoldsIn(c)) = 0
  <2>1. IsFiniteSet(HoldsIn(c)) /\ \A h \in HoldsIn(c) : Moves(p)[h] = 0
    BY <1>2, MoveTypes
  <2>2. QED
    BY <2>1, SumZeros
<1>4. seats'[c] = seats[c] /\ seats[c] \in Int
  <2>1. seats'[c] = SeatsSeen(p, c)
    BY DEF Commit, SeatsSeen
  <2>2. QED
    BY <1>3, <2>1 DEF Account, Types
<1>5. /\ Held(c) \in Int /\ Held(c)' \in Int /\ Sold(c) \in Int /\ Sold(c)' \in Int
  BY CountTypes
<1>6. Balance(c)' = Balance(c)
  BY CommitBalance
<1>7. QED
  BY <1>4, <1>5, <1>6 DEF Balance

\* A step moves the seats of a cabin, or none.
LEMMA SeatsMove ==
    ASSUME Inv, TInv', Lasting, Current, [Next]_vars, NEW c \in Cabins
    PROVE  /\ Balance(c)' = Balance(c)
           /\ Sold(c)' # Sold(c) => Held(c) - Held(c)' = Sold(c)' - Sold(c)
<1>1. Balance(c)' = Balance(c)
  BY StepBalance
<1>2. CASE UNCHANGED booked
  BY <1>1, <1>2 DEF Sold
<1>3. CASE \E p \in Requests : Commit(p)
  BY <1>1, <1>3, SoldWasHeld
<1>4. UNCHANGED booked \/ \E p \in Requests : Commit(p)
  BY OnlyCommits DEF Next, RequestStep, db, vars, Forget, Tick, Terminating
<1>5. QED
  BY <1>2, <1>3, <1>4

\* It is enough that seats move as SeatInventory says, cabin by cabin.
LEMMA MovesAre ==
    ASSUME TInv, TInv', Stock',
           \A c \in Cabins :
               /\ Balance(c)' = Balance(c)
               /\ Sold(c)' # Sold(c) => Held(c) - Held(c)' = Sold(c)' - Sold(c)
    PROVE  Inventory!Move
<1> DEFINE H == [c \in Cabins |-> Held(c)]
           S == [c \in Cabins |-> Sold(c)]
<1>1. \A c \in Cabins :
        /\ H[c] = Held(c) /\ H'[c] = Held(c)' /\ S[c] = Sold(c) /\ S'[c] = Sold(c)'
        /\ Held(c) \in Nat /\ Held(c)' \in Nat /\ Sold(c) \in Nat /\ Sold(c)' \in Nat
  BY CountTypes
<1>2. seats' \in [Cabins -> Nat] /\ H' \in [Cabins -> Nat] /\ S' \in [Cabins -> Nat]
  BY <1>1 DEF Stock, TInv, Types
<1>3. ASSUME NEW c \in Cabins
      PROVE  /\ seats'[c] + H'[c] + S'[c] = seats[c] + H[c] + S[c]
             /\ S'[c] > S[c] => H[c] - H'[c] >= S'[c] - S[c]
  <2>1. seats'[c] + Held(c)' + Sold(c)' = seats[c] + Held(c) + Sold(c)
    BY DEF Balance
  <2>2. Sold(c)' > Sold(c) => Held(c) - Held(c)' >= Sold(c)' - Sold(c)
    BY <1>1
  <2> HIDE DEF H, S
  <2>3. QED
    BY <1>1, <2>1, <2>2
<1>4. QED
  BY <1>2, <1>3 DEF Inventory!Move, Inventory!MayMove, Inventory!Counts

LEMMA InventoryStep ==
    FreshInv /\ FreshInv' /\ Stock' /\ [Next]_vars => [Inventory!Move]_(Inventory!vars)
<1> SUFFICES ASSUME FreshInv, FreshInv', Stock', [Next]_vars
             PROVE  Inventory!Move
  OBVIOUS
<1>1. TInv /\ TInv'
  BY DEF FreshInv, Inv, SInv
<1>2. \A c \in Cabins :
        /\ Balance(c)' = Balance(c)
        /\ Sold(c)' # Sold(c) => Held(c) - Held(c)' = Sold(c)' - Sold(c)
  BY <1>1, SeatsMove DEF FreshInv
<1>3. QED
  BY <1>1, <1>2, MovesAre

LEMMA InitInventory ==
    Existing = {} /\ Init => Inventory!Init
<1> SUFFICES ASSUME Existing = {}, Init
             PROVE  seats = Total /\ \A c \in Cabins : Held(c) = 0 /\ Sold(c) = 0
  BY DEF Inventory!Init
<1>1. ASSUME NEW c \in Cabins
      PROVE  Held(c) = 0 /\ Sold(c) = 0 /\ seats[c] = Total[c]
  <2>1. /\ {h \in Holds : status[h] = "active" /\ Cabin(h) = c} = {}
        /\ {h \in Holds : h[1] \in Existing /\ Cabin(h) = c} = {}
    BY DEF Init
  <2>2. QuantityOf({}) = 0
    BY SumEmpty DEF QuantityOf
  <2>3. Held(c) = 0 /\ Sold(c) = 0
    BY <2>1, <2>2, SumEmpty DEF Held, Sold, Init
  <2>4. seats[c] = Total[c] - 0 /\ Total[c] \in Int
    BY <2>1, <2>2, PolicyAssumption DEF Init
  <2>5. QED
    BY <2>3, <2>4
<1>2. QED
  BY <1>1, PolicyAssumption DEF Init

\* Statement by statement and in any interleaving, hold and confirm requests
\* move seats as SeatInventory says: no seat is taken that was not free and only
\* held seats are sold, for clients that wait for the answer to a confirmation,
\* and as long as no hold lapses.
THEOREM RequestsMoveSeats ==
    ASSUME NothingLapses, RetriesWait, StartsInStock PROVE Spec => InventoryMoves
<1>1. Init => FreshInv /\ Stock
  BY InitInv, InitStock
<1>2. FreshInv /\ Stock /\ [Next]_vars => FreshInv' /\ Stock'
  BY StepFreshInv, StepStock DEF FreshInv, Inv, SInv
<1>3. QED
  BY <1>1, <1>2, InventoryStep, PTL DEF Spec, InventoryMoves

\* On a flight of which nothing is held yet they implement SeatInventory, with
\* the same hypotheses: clients that wait for the answer to a confirmation, and
\* no hold that lapses.  Without them they do not: two requests that expire one
\* hold both give its seats back, and two confirmations both sell a group.
THEOREM ImplementsInventory ==
    ASSUME NothingLapses, RetriesWait, StartsInStock, Existing = {} PROVE Spec => Inventory!Spec
BY InitInventory, RequestsMoveSeats, PTL DEF Spec, InventoryMoves, Inventory!Spec

=============================================================================
