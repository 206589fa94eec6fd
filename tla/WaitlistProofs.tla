--------------------------- MODULE WaitlistProofs ---------------------------
(*****************************************************************************)
(* The waitlist, for every set of requests.  An entry is promoted together   *)
(* with its hold or not at all: only a promotion inserts its hold, what      *)
(* others write are holds already committed, and an entry is inserted before *)
(* anybody can promote it.  Its seats are free or held by others when it     *)
(* commits, and seats only move between free, held and sold: every step is a *)
(* step of SeatHolds, a request that ends without holding anything, or a     *)
(* cancellation, so the invariants of SeatHoldsProofs are kept as they are.  *)
(*****************************************************************************)
EXTENDS Waitlist, SeatHoldsProofs

\* The variables the argument is about are functions of their keys.
WShapes ==
    /\ Shapes
    /\ DOMAIN dEntry = Requests
    /\ entry \in [Joins -> {"none", "waiting", "promoted"}]

\* A row is never deleted, and others' rows are written after their insertion.
WrittenRows ==
    \A r \in Requests : \A h \in DOMAIN dStatus[r] :
        dStatus[r][h] \in HoldStatus /\ (h[1] # r => status[h] # "none")

\* What a request is about to expire or to convert is inserted or its own.
KnownRows ==
    /\ \A r \in Requests : \A h \in stale[r] : h[1] = r \/ status[h] # "none"
    /\ \A r \in Confirmers : \A h \in DOMAIN mem[r] : h \in Holds /\ status[h] # "none"

\* A join writes its own entry, a promotion the one it names, others none.
EntryRows ==
    /\ \A j \in Joins : \A x \in DOMAIN dEntry[j] : x = j /\ dEntry[j][x] = "waiting"
    /\ \A p \in Promotes :
        \/ dEntry[p] = Nothing
        \/ DOMAIN dEntry[p] = {On[p]} /\ dEntry[p][On[p]] = "promoted"
    /\ \A r \in Requests \ (Joins \cup Promotes) : DOMAIN dEntry[r] = {}

\* Each kind of request has its own part of the program.
Routes ==
    /\ \A r \in Requests :
        /\ pc[r] = "take" => r \in Holders
        /\ pc[r] \in {"check", "convert"} => r \in Confirmers
    /\ \A g \in Holders : leg[g] \in 1 .. Len(Legs[g])
    /\ \A j \in Joins : pc[j] # "refuse"

\* A promotion starts when its entry is in the queue, takes its seats, commits.
Path ==
    \A p \in Promotes :
        /\ pc[p] \in {"idle", "select", "return", "flush", "take", "commit",
                      "committed", "rolled_back"}
        /\ pc[p] \notin {"idle", "rolled_back"} => pc[On[p]] = "committed"
        /\ pc[p] = "commit" => <<p, 1>> \in DOMAIN dStatus[p]

\* An entry is there once its join has committed, and promoted with a hold.
Queued ==
    /\ \A j \in Joins :
        /\ pc[j] # "committed" => entry[j] = "none"
        /\ entry[j] = "promoted" => \E p \in Promotes : On[p] = j /\ pc[p] = "committed"
    /\ \A p \in Promotes :
        /\ status[<<p, 1>>] # "none" <=> pc[p] = "committed"
        /\ pc[p] = "committed" => entry[On[p]] = "promoted"

WInv == WShapes /\ WrittenRows /\ KnownRows /\ EntryRows /\ Routes /\ Path /\ Queued

-----------------------------------------------------------------------------
(* The constants, and the initial states *)

LEMMA Kinds ==
    /\ Joins \subseteq Requests /\ Promotes \subseteq Requests
    /\ Joins \subseteq Holders /\ Promotes \subseteq Holders
    /\ Joins \cap Promotes = {} /\ Confirmers \cap (Joins \cup Promotes) = {}
    /\ (Joins \cup Promotes) \cap Existing = {}
    /\ \A p \in Promotes : On[p] \in Joins /\ Len(Legs[p]) = 1 /\ <<p, 1>> \in Holds
<1>1. \A p \in Promotes : <<p, 1>> \in Holds
  BY WaitlistAssumption, GroupRows
<1>2. QED
  BY <1>1, WaitlistAssumption, RequestsAssumption DEF Requests

LEMMA WInit == WaitlistInit => WInv
<1> SUFFICES ASSUME WaitlistInit PROVE WInv
  OBVIOUS
<1>1. Init /\ entry = [j \in Joins |-> "none"] /\ dEntry = [r \in Requests |-> Nothing]
  BY DEF WaitlistInit
<1>2. WShapes
  BY <1>1, InitIInv DEF WShapes, IInv
<1>3. WrittenRows /\ KnownRows /\ EntryRows
  BY <1>1, Kinds DEF Init, WrittenRows, KnownRows, EntryRows, Nothing, Requests
<1>4. \A p \in Promotes : pc[p] = "idle" /\ status[<<p, 1>>] = "none"
  <2> SUFFICES ASSUME NEW p \in Promotes
               PROVE  pc[p] = "idle" /\ status[<<p, 1>>] = "none"
    OBVIOUS
  <2>1. p \in Requests /\ p \in Holders /\ p \notin Existing /\ <<p, 1>> \in Holds
        /\ <<p, 1>>[1] = p
    BY Kinds
  <2>2. QED
    BY <1>1, <2>1 DEF Init
<1>5. Path /\ Queued
  BY <1>1, <1>4, Kinds DEF Path, Queued
<1>6. Routes
  <2>1. \A r \in Requests : pc[r] \in {"idle", "committed"}
    BY <1>1 DEF Init
  <2>2. \A g \in Holders : leg[g] = 1
    BY <1>1 DEF Init
  <2>3. \A g \in Holders : Len(Legs[g]) \in Nat /\ Len(Legs[g]) >= 1
    BY GroupRows
  <2>4. \A j \in Joins : j \in Requests
    BY Kinds
  <2>5. QED
    BY <2>1, <2>2, <2>3, <2>4 DEF Routes
<1>7. QED
  BY <1>2, <1>3, <1>5, <1>6 DEF WInv

-----------------------------------------------------------------------------
(* Steps that commit nothing *)

\* Where a request may go on to: a promotion commits with its hold.
Allowed(r, l) ==
    /\ l = "take" => r \in Holders
    /\ l \in {"check", "convert"} => r \in Confirmers
    /\ l = "refuse" => r \notin Joins
    /\ r \in Promotes =>
          /\ l \in {"select", "return", "flush", "take", "commit", "rolled_back"}
          /\ pc[r] = "idle" /\ l # "rolled_back" => pc[On[r]] = "committed"
          /\ l = "commit" => <<r, 1>> \in DOMAIN dStatus'[r]

\* What a request has in memory keeps its shape.
MemoryKept ==
    /\ leg' \in [Holders -> Nat] /\ \A g \in Holders : leg'[g] \in 1 .. Len(Legs[g])
    /\ stale' \in [Requests -> SUBSET Holds] /\ DOMAIN mem' = Confirmers
    /\ KnownRows'

\* A request goes on or gives up: what is committed stays as it is.
LEMMA GoesOn ==
    ASSUME WInv, NEW r \in Requests, NEW l \in Running \cup {"replayed", "rolled_back"},
           pc[r] \notin Ended, Goto(r, l), UNCHANGED <<status, entry>>,
           \A o \in Requests \ {r} : dStatus'[o] = dStatus[o],
           \A g \in Holders : leg'[g] \in 1 .. Len(Legs[g]), Allowed(r, l)
    PROVE  Routes' /\ Path' /\ Queued'
<1> USE DEF WInv
<1>1. /\ pc' \in [Requests -> Running \cup Ended \cup {"idle"}]
      /\ pc'[r] = l /\ \A o \in Requests \ {r} : pc'[o] = pc[o]
  BY Moved DEF WShapes, Shapes, Ended
<1>2. l # "committed" /\ pc[r] # "committed"
  BY DEF Running, Ended
<1>3. \A o \in Requests : pc'[o] = "committed" <=> pc[o] = "committed"
  BY <1>1, <1>2
<1>4. Path'
  <2> SUFFICES ASSUME NEW p \in Promotes
               PROVE  /\ pc'[p] \in {"idle", "select", "return", "flush", "take", "commit",
                                     "committed", "rolled_back"}
                      /\ pc'[p] \notin {"idle", "rolled_back"} => pc'[On[p]] = "committed"
                      /\ pc'[p] = "commit" => <<p, 1>> \in DOMAIN dStatus'[p]
    BY DEF Path
  <2>1. p \in Requests /\ On[p] \in Requests
    BY Kinds
  <2>2. CASE p = r
    BY <1>1, <1>3, <2>1, <2>2 DEF Path, Ended, Allowed
  <2>3. CASE p # r
    BY <1>1, <1>3, <2>1, <2>3 DEF Path
  <2>4. QED
    BY <2>2, <2>3
<1>5. Queued'
  BY <1>3, Kinds DEF Queued
<1>6. Routes'
  BY <1>1, Kinds DEF Routes, Allowed
<1>7. QED
  BY <1>4, <1>5, <1>6

\* A request goes on and writes neither hold nor entry.
LEMMA WQuiet ==
    ASSUME WInv, NEW r \in Requests, NEW l \in Running \cup {"replayed", "rolled_back"},
           pc[r] \notin Ended, Goto(r, l), UNCHANGED <<status, dStatus, entry, dEntry>>,
           Allowed(r, l), MemoryKept
    PROVE  WInv'
<1> USE DEF WInv
<1>1. WShapes'
  <2>1. pc' \in [Requests -> Running \cup Ended \cup {"idle"}]
    BY Moved DEF WShapes, Shapes, Ended
  <2>2. QED
    BY <2>1 DEF WShapes, Shapes, MemoryKept
<1>2. WrittenRows' /\ EntryRows' /\ KnownRows'
  BY DEF WrittenRows, EntryRows, MemoryKept
<1>3. Routes' /\ Path' /\ Queued'
  BY GoesOn DEF MemoryKept
<1>4. QED
  BY <1>1, <1>2, <1>3

\* A request goes on after writing holds of its own or inserted before.
LEMMA WWrite ==
    ASSUME WInv, NEW r \in Requests, NEW l \in Running, pc[r] \notin Ended, Goto(r, l),
           NEW S \in SUBSET Holds, NEW v \in HoldStatus, WriteStatus(r, S, v),
           \A h \in S : h[1] = r \/ status[h] # "none",
           UNCHANGED <<status, entry, dEntry>>, Allowed(r, l), MemoryKept
    PROVE  WInv'
<1> USE DEF WInv
<1>1. /\ DOMAIN dStatus' = Requests
      /\ DOMAIN dStatus'[r] = S \cup DOMAIN dStatus[r]
      /\ \A h \in S : dStatus'[r][h] = v
      /\ \A h \in DOMAIN dStatus[r] \ S : dStatus'[r][h] = dStatus[r][h]
      /\ \A o \in Requests \ {r} : dStatus'[o] = dStatus[o]
  BY Written DEF WShapes, Shapes
<1>2. WShapes'
  <2>1. pc' \in [Requests -> Running \cup Ended \cup {"idle"}]
    BY Moved DEF WShapes, Shapes, Ended
  <2>2. QED
    BY <1>1, <2>1 DEF WShapes, Shapes, MemoryKept
<1>3. WrittenRows'
  <2> SUFFICES ASSUME NEW o \in Requests, NEW h \in DOMAIN dStatus'[o]
               PROVE  dStatus'[o][h] \in HoldStatus /\ (h[1] # o => status'[h] # "none")
    BY DEF WrittenRows
  <2>1. CASE o = r
    BY <1>1, <2>1 DEF WrittenRows, HoldStatus
  <2>2. CASE o # r
    BY <1>1, <2>2 DEF WrittenRows
  <2>3. QED
    BY <2>1, <2>2
<1>4. EntryRows' /\ KnownRows'
  BY DEF EntryRows, MemoryKept
<1>5. Routes' /\ Path' /\ Queued'
  BY <1>1, GoesOn DEF MemoryKept
<1>6. QED
  BY <1>2, <1>3, <1>4, <1>5

\* The transaction of a request is rolled back.
LEMMA WAbort ==
    ASSUME WInv, NEW r \in Requests, pc[r] \notin Ended, Goto(r, "rolled_back"),
           CloseSession(r), ReleaseEntry(r) \/ UNCHANGED dEntry,
           UNCHANGED <<status, leg, stale, mem, entry>>
    PROVE  WInv'
<1> USE DEF WInv
<1>1. /\ DOMAIN dStatus' = Requests /\ DOMAIN dStatus'[r] = {}
      /\ \A o \in Requests \ {r} : dStatus'[o] = dStatus[o]
  BY Closed DEF WShapes, Shapes
<1>2. /\ DOMAIN dEntry' = Requests
      /\ \A o \in Requests : dEntry'[o] = dEntry[o] \/ dEntry'[o] = Nothing
  BY DEF ReleaseEntry, WShapes
<1>3. WShapes'
  <2>1. pc' \in [Requests -> Running \cup Ended \cup {"idle"}]
    BY Moved DEF WShapes, Shapes, Ended
  <2>2. QED
    BY <1>1, <1>2, <2>1 DEF WShapes, Shapes
<1>4. WrittenRows'
  BY <1>1 DEF WrittenRows
<1>5. KnownRows'
  BY DEF KnownRows
<1>6. EntryRows'
  <2>1. DOMAIN Nothing = {}
    BY DEF Nothing
  <2>2. QED
    BY <1>2, <2>1, Kinds DEF EntryRows
<1>7. Routes' /\ Path' /\ Queued'
  <2>1. Allowed(r, "rolled_back") /\ \A g \in Holders : leg'[g] \in 1 .. Len(Legs[g])
    BY DEF Allowed, Routes
  <2>2. QED
    BY <1>1, <2>1, GoesOn
<1>8. QED
  BY <1>3, <1>4, <1>5, <1>6, <1>7

-----------------------------------------------------------------------------
(* The actions *)

LEMMA UndoStep ==
    ASSUME WInv, NEW r \in Requests, Undo(r), pc[r] \in Running \cup {"idle"} PROVE WInv'
BY WAbort DEF Undo, db, session, Running, Ended

LEMMA Begins ==
    ASSUME WInv, NEW r \in Requests, BeginJoin(r) \/ BeginPromote(r) \/ NotWaiting(r)
    PROVE  WInv'
<1> USE DEF WInv
<1>1. CASE NotWaiting(r)
  BY <1>1, UndoStep DEF NotWaiting
<1>2. CASE BeginJoin(r) \/ BeginPromote(r)
  <2>1. /\ pc[r] = "idle" /\ Goto(r, "select")
        /\ UNCHANGED <<status, dStatus, leg, stale, mem, entry, dEntry>>
    BY <1>2 DEF BeginJoin, BeginPromote, BeginHold, db, session, entries
  <2>2. Allowed(r, "select")
    BY <1>2, <2>1, Kinds DEF BeginJoin, BeginPromote, Queued, Allowed
  <2>3. MemoryKept
    BY <2>1 DEF MemoryKept, KnownRows, WShapes, Shapes, Routes
  <2>4. QED
    BY <2>1, <2>2, <2>3, WQuiet DEF Running, Ended
<1>3. QED
  BY <1>1, <1>2

LEMMA SeenThere ==
    ASSUME WInv, NEW r \in Requests, NEW h \in Holds, StatusSeen(r, h) # "none"
    PROVE  h[1] = r \/ status[h] # "none"
<1> USE DEF WInv
<1>1. CASE h \in DOMAIN dStatus[r]
  BY <1>1 DEF WrittenRows
<1>2. CASE h \notin DOMAIN dStatus[r]
  <2>1. \A x \in DOMAIN status \ DOMAIN dStatus[r] : Over(dStatus[r], status)[x] = status[x]
    BY OverIs
  <2>2. QED
    BY <1>2, <2>1 DEF StatusSeen, WShapes, Shapes
<1>3. QED
  BY <1>1, <1>2

LEMMA ExpireStep ==
    ASSUME WInv, NEW r \in Requests, Expire(r) PROVE WInv'
<1> USE DEF WInv
<1>1. UNCHANGED <<entry, dEntry, status, leg>>
  BY DEF Expire, entries, SelectStaleHolds, ReturnSeats, FlushExpired, db
<1>2. r \in Promotes => r \in Holders
  BY Kinds
<1>3. CASE SelectStaleHolds(r)
  <2>1. PICK c \in CabinsToExpire(r) :
          LET found == {h \in Holds : IsStale(r, c, h)} IN
          /\ stale' = [stale EXCEPT ![r] = found]
          /\ Goto(r, IF found = {} THEN AfterExpiry(r) ELSE "return")
    BY <1>3 DEF SelectStaleHolds
  <2> DEFINE found == {h \in Holds : IsStale(r, c, h)}
  <2> DEFINE l == IF found = {} THEN AfterExpiry(r) ELSE "return"
  <2>2. /\ l \in {"return", "take", "check", "select"}
        /\ r \in Holders => l \in {"return", "take"}
        /\ r \notin Holders => l # "take"
    BY DEF AfterExpiry
  <2>3. \A h \in found : h[1] = r \/ status[h] # "none"
    BY SeenThere DEF IsStale
  <2>4. pc[r] = "select" /\ UNCHANGED <<dStatus, mem>>
    BY <1>3 DEF SelectStaleHolds
  <2>5. /\ stale' \in [Requests -> SUBSET Holds] /\ stale'[r] = found
        /\ \A o \in Requests \ {r} : stale'[o] = stale[o]
    BY <2>1 DEF WShapes, Shapes
  <2>6. Goto(r, l)
    BY <2>1
  <2> HIDE DEF found, l
  <2>7. KnownRows'
    <3>1. \A o \in Requests : \A h \in stale'[o] : h[1] = o \/ status'[h] # "none"
      BY <1>1, <2>3, <2>5 DEF KnownRows
    <3>2. QED
      BY <1>1, <2>4, <3>1 DEF KnownRows
  <2>8. Allowed(r, l) /\ l \in Running /\ pc[r] \notin Ended
    BY <1>2, <2>2, <2>4 DEF Allowed, Running, Ended, Requests
  <2>9. MemoryKept
    BY <1>1, <2>4, <2>5, <2>7 DEF MemoryKept, WShapes, Shapes, Routes
  <2>10. QED
    BY <1>1, <2>4, <2>6, <2>8, <2>9, WQuiet
<1>4. CASE ReturnSeats(r)
  <2>1. PICK h \in todo[r] : Goto(r, IF todo[r] = {h} THEN "flush" ELSE "return")
    BY <1>4 DEF ReturnSeats
  <2>2. pc[r] = "return" /\ UNCHANGED <<dStatus, stale, mem>>
    BY <1>4 DEF ReturnSeats
  <2> DEFINE l == IF todo[r] = {h} THEN "flush" ELSE "return"
  <2>3. l \in {"flush", "return"} /\ Goto(r, l)
    BY <2>1
  <2> HIDE DEF l
  <2>4. KnownRows'
    BY <1>1, <2>2 DEF KnownRows
  <2>5. Allowed(r, l) /\ l \in Running /\ pc[r] \notin Ended
    BY <2>2, <2>3 DEF Allowed, Running, Ended
  <2>6. MemoryKept
    BY <1>1, <2>2, <2>4 DEF MemoryKept, WShapes, Shapes, Routes
  <2>7. QED
    BY <1>1, <2>2, <2>3, <2>5, <2>6, WQuiet
<1>5. CASE FlushExpired(r)
  <2> DEFINE l == AfterExpiry(r)
  <2>1. /\ pc[r] = "flush" /\ WriteStatus(r, stale[r], "expired") /\ Goto(r, l)
        /\ stale' = [stale EXCEPT ![r] = {}]
        /\ mem' = IF r \in Holders THEN mem
                  ELSE [mem EXCEPT ![r] =
                          [h \in DOMAIN mem[r] |-> IF h \in stale[r] THEN "expired" ELSE mem[r][h]]]
    BY <1>5 DEF FlushExpired
  <2>2. /\ l \in {"take", "check", "select"}
        /\ r \in Holders => l = "take"
        /\ r \notin Holders => l # "take"
    BY DEF AfterExpiry
  <2> HIDE DEF l
  <2>3. /\ stale' \in [Requests -> SUBSET Holds] /\ stale'[r] = {}
        /\ \A o \in Requests \ {r} : stale'[o] = stale[o]
    BY <2>1 DEF WShapes, Shapes
  <2>4. /\ DOMAIN mem' = Confirmers
        /\ \A o \in Confirmers : DOMAIN mem'[o] = DOMAIN mem[o]
    BY <2>1 DEF WShapes, Shapes
  <2>5. KnownRows'
    BY <1>1, <2>3, <2>4 DEF KnownRows
  <2> DEFINE S == stale[r]
  <2>6. /\ S \in SUBSET Holds /\ WriteStatus(r, S, "expired")
        /\ \A h \in S : h[1] = r \/ status[h] # "none"
    BY <2>1 DEF WShapes, Shapes, KnownRows
  <2> HIDE DEF S
  <2>7. Allowed(r, l) /\ l \in Running /\ pc[r] \notin Ended
    BY <1>2, <2>1, <2>2 DEF Allowed, Running, Ended, Requests
  <2>8. MemoryKept
    BY <1>1, <2>3, <2>4, <2>5 DEF MemoryKept, WShapes, Shapes, Routes
  <2>9. Goto(r, l) /\ "expired" \in HoldStatus
    BY <2>1 DEF HoldStatus
  <2> HIDE DEF WInv
  <2>10. QED
    BY <1>1, <2>6, <2>7, <2>8, <2>9, WWrite
<1>6. QED
  BY <1>3, <1>4, <1>5 DEF Expire

\* WriteEntry adds one row to r's transaction and leaves the others alone.
LEMMA Entered ==
    ASSUME NEW r \in Requests, NEW j, NEW v, DOMAIN dEntry = Requests, WriteEntry(r, j, v)
    PROVE  /\ DOMAIN dEntry' = Requests
           /\ DOMAIN dEntry'[r] = {j} \cup DOMAIN dEntry[r]
           /\ dEntry'[r][j] = v
           /\ \A o \in Requests \ {r} : dEntry'[o] = dEntry[o]
<1> DEFINE new == [x \in {j} |-> v]
<1>1. /\ DOMAIN dEntry' = Requests
      /\ dEntry'[r] = Over(new, dEntry[r])
      /\ \A o \in Requests \ {r} : dEntry'[o] = dEntry[o]
  BY DEF WriteEntry
<1>2. DOMAIN new = {j} /\ new[j] = v
  OBVIOUS
<1> HIDE DEF new
<1>3. /\ DOMAIN Over(new, dEntry[r]) = DOMAIN new \cup DOMAIN dEntry[r]
      /\ \A x \in DOMAIN new : Over(new, dEntry[r])[x] = new[x]
  BY OverIs
<1>4. QED
  BY <1>1, <1>2, <1>3

LEMMA QueueStep ==
    ASSUME WInv, NEW r \in Requests, Queue(r) PROVE WInv'
<1> USE DEF WInv
<1>1. /\ r \in Joins /\ pc[r] = "take" /\ Goto(r, "commit") /\ WriteEntry(r, r, "waiting")
      /\ UNCHANGED <<status, dStatus, leg, stale, mem, entry>>
  BY DEF Queue, db, session
<1>2. /\ DOMAIN dEntry' = Requests
      /\ DOMAIN dEntry'[r] = {r} \cup DOMAIN dEntry[r]
      /\ dEntry'[r][r] = "waiting"
      /\ \A o \in Requests \ {r} : dEntry'[o] = dEntry[o]
  BY <1>1, Entered DEF WShapes
<1>3. WShapes'
  <2>1. pc' \in [Requests -> Running \cup Ended \cup {"idle"}]
    BY <1>1, Moved DEF WShapes, Shapes, Running
  <2>2. QED
    BY <1>1, <1>2, <2>1 DEF WShapes, Shapes
<1>4. WrittenRows' /\ KnownRows'
  BY <1>1 DEF WrittenRows, KnownRows
<1>5. EntryRows'
  <2>1. \A x \in DOMAIN dEntry[r] : x = r
    BY <1>1 DEF EntryRows
  <2>2. QED
    BY <1>1, <1>2, <2>1, Kinds DEF EntryRows
<1>6. Routes' /\ Path' /\ Queued'
  <2>1. /\ Allowed(r, "commit") /\ pc[r] \notin Ended /\ "commit" \in Running
        /\ \A g \in Holders : leg'[g] \in 1 .. Len(Legs[g])
        /\ \A o \in Requests \ {r} : dStatus'[o] = dStatus[o]
    BY <1>1, Kinds DEF Allowed, Ended, Running, Routes
  <2>2. QED
    BY <1>1, <2>1, GoesOn
<1>7. QED
  BY <1>3, <1>4, <1>5, <1>6

LEMMA MarkPromotedStep ==
    ASSUME WInv, NEW r \in Requests, MarkPromoted(r) PROVE WInv'
<1> USE DEF WInv
<1>1. /\ r \in Promotes /\ dEntry[r] = Nothing /\ WriteEntry(r, On[r], "promoted")
      /\ UNCHANGED <<pc, status, dStatus, leg, stale, mem, entry>>
  BY DEF MarkPromoted, Unmarked, db, session
<1>2. /\ DOMAIN dEntry' = Requests
      /\ DOMAIN dEntry'[r] = {On[r]} \cup DOMAIN dEntry[r]
      /\ dEntry'[r][On[r]] = "promoted"
      /\ \A o \in Requests \ {r} : dEntry'[o] = dEntry[o]
  BY <1>1, Entered DEF WShapes
<1>3. DOMAIN dEntry'[r] = {On[r]}
  BY <1>1, <1>2 DEF Nothing
<1>4. WShapes' /\ WrittenRows' /\ KnownRows' /\ Routes' /\ Path' /\ Queued'
  BY <1>1, <1>2 DEF WShapes, Shapes, WrittenRows, KnownRows, Routes, Path, Queued
<1>5. EntryRows'
  BY <1>1, <1>2, <1>3, Kinds DEF EntryRows
<1>6. QED
  BY <1>4, <1>5

\* hold_seats, for a promotion or for the items of a booking.
LEMMA SeatsStep ==
    ASSUME WInv, NEW r \in Requests, TakeSeats(r), UNCHANGED entries, r \notin Joins
    PROVE  WInv'
<1> USE DEF WInv
<1> DEFINE h == <<r, leg[r]>>
<1> DEFINE l == IF leg[r] < Len(Legs[r]) THEN "select" ELSE "commit"
<1>1. /\ pc[r] = "take" /\ WriteStatus(r, {h}, "active") /\ Goto(r, l)
      /\ leg' = IF leg[r] < Len(Legs[r]) THEN [leg EXCEPT ![r] = leg[r] + 1] ELSE leg
      /\ UNCHANGED <<status, stale, mem, entry, dEntry>>
  BY DEF TakeSeats, db, entries
<1>2. r \in Holders
  BY <1>1 DEF Routes
<1>3. /\ Len(Legs[r]) \in Nat /\ leg[r] \in 1 .. Len(Legs[r])
      /\ h \in Holds /\ h[1] = r
  BY <1>2, GroupRows DEF Routes
<1>4. /\ leg' \in [Holders -> Nat]
      /\ \A g \in Holders : leg'[g] \in 1 .. Len(Legs[g])
  <2>1. leg'[r] \in 1 .. Len(Legs[r])
    BY <1>1, <1>2, <1>3 DEF WShapes, Shapes
  <2>2. leg' \in [Holders -> Nat] /\ \A g \in Holders \ {r} : leg'[g] = leg[g]
    BY <1>1, <1>2, <1>3 DEF WShapes, Shapes
  <2>3. QED
    BY <2>1, <2>2 DEF Routes
<1>5. l \in {"select", "commit"} /\ (r \in Promotes => l = "commit" /\ h = <<r, 1>>)
  <2>1. ASSUME NEW n \in Nat, n = 1, NEW i \in 1 .. n PROVE i = 1 /\ ~(i < n)
    BY <2>1
  <2>2. r \in Promotes => leg[r] = 1 /\ ~(leg[r] < Len(Legs[r]))
    BY <1>3, <2>1, Kinds
  <2>3. QED
    BY <2>2
<1> DEFINE S == {h}
<1>6. /\ S \in SUBSET Holds /\ WriteStatus(r, S, "active")
      /\ \A x \in S : x[1] = r \/ status[x] # "none"
  BY <1>1, <1>3
<1>7. Allowed(r, l)
  <2>1. h \in DOMAIN dStatus'[r]
    BY <1>1, Written DEF WShapes, Shapes
  <2> HIDE DEF h, l
  <2>2. QED
    BY <1>1, <1>5, <2>1 DEF Allowed
<1> HIDE DEF h, l, S
<1>8. MemoryKept
  BY <1>1, <1>4 DEF MemoryKept, KnownRows, WShapes, Shapes
<1>9. l \in Running /\ pc[r] \notin Ended /\ "active" \in HoldStatus /\ Goto(r, l)
  BY <1>1, <1>5 DEF Running, Ended, HoldStatus
<1> HIDE DEF WInv
<1>10. QED
  BY <1>1, <1>6, <1>7, <1>8, <1>9, WWrite

\* A request that is neither join nor promotion gives its holds back, or
\* converts those it has loaded.
LEMMA OthersWrite ==
    ASSUME WInv, NEW r \in Requests \ (Joins \cup Promotes), UNCHANGED entries,
           ReleaseHolds(r) \/ ConvertHolds(r)
    PROVE  WInv'
<1> USE DEF WInv
<1>1. UNCHANGED <<status, leg, stale, mem, entry, dEntry>>
  BY DEF ReleaseHolds, ConvertHolds, db, session, entries
<1>2. MemoryKept
  BY <1>1 DEF MemoryKept, KnownRows, WShapes, Shapes, Routes
<1>3. CASE ReleaseHolds(r)
  <2> DEFINE S == Created(r)
  <2>1. /\ WriteStatus(r, S, "released") /\ Goto(r, "refuse") /\ pc[r] \notin Ended
        /\ "refuse" \in Running /\ "released" \in HoldStatus /\ Allowed(r, "refuse")
    BY <1>3 DEF ReleaseHolds, Ended, Running, HoldStatus, Allowed
  <2>2. S \in SUBSET Holds /\ \A h \in S : h[1] = r \/ status[h] # "none"
    BY DEF Created, Group
  <2> HIDE DEF S, WInv
  <2>3. QED
    BY <1>1, <1>2, <2>1, <2>2, WWrite
<1>4. CASE ConvertHolds(r)
  <2> DEFINE S == Converted(r)
  <2>1. /\ WriteStatus(r, S, "converted") /\ Goto(r, "commit") /\ pc[r] \notin Ended
        /\ "commit" \in Running /\ "converted" \in HoldStatus /\ Allowed(r, "commit")
    BY <1>4 DEF ConvertHolds, Ended, Running, HoldStatus, Allowed
  <2>2. S \in SUBSET Holds /\ \A h \in S : h[1] = r \/ status[h] # "none"
    <3>1. r \in Confirmers
      BY <1>4 DEF ConvertHolds, Routes
    <3>2. QED
      BY <3>1 DEF Converted, KnownRows
  <2> HIDE DEF S, WInv
  <2>3. QED
    BY <1>1, <1>2, <2>1, <2>2, WWrite
<1>5. QED
  BY <1>3, <1>4

\* The other steps of requests that are neither join nor promotion.
LEMMA OthersStep ==
    ASSUME WInv, NEW r \in Requests \ (Joins \cup Promotes), UNCHANGED entries,
           \/ BeginHold(r) \/ Replay(r) \/ LoadHolds(r) \/ RefuseItem(r)
           \/ RefuseSeats(r) \/ CheckHolds(r)
    PROVE  WInv'
<1> USE DEF WInv
<1>1. UNCHANGED <<status, leg, stale, entry, dEntry>>
  BY DEF BeginHold, Replay, LoadHolds, RefuseItem, RefuseSeats, CheckHolds, db, session, entries
<1>2. DOMAIN mem' = Confirmers /\ KnownRows' => MemoryKept
  BY <1>1 DEF MemoryKept, WShapes, Shapes, Routes
<1>3. CASE CheckHolds(r) /\ ~Live(r)
  BY <1>1, <1>3, WAbort DEF CheckHolds, db, session, Ended
<1>4. ASSUME NEW l \in {"select", "replayed", "release", "convert", "rolled_back"}, Goto(r, l),
             pc[r] \notin Ended, UNCHANGED dStatus, DOMAIN mem' = Confirmers, KnownRows',
             l = "convert" => r \in Confirmers
      PROVE  WInv'
  <2>1. l \in Running \cup {"replayed", "rolled_back"} /\ Allowed(r, l)
    BY <1>4 DEF Running, Allowed
  <2> HIDE DEF WInv
  <2>2. QED
    BY <1>1, <1>2, <1>4, <2>1, WQuiet
<1>5. CASE LoadHolds(r)
  <2> DEFINE group == {h \in Group(Target[r]) : status[h] # "none"}
  <2> DEFINE l == IF group = {} THEN "rolled_back" ELSE "select"
  <2>1. /\ r \in Confirmers /\ pc[r] = "idle" /\ Goto(r, l) /\ UNCHANGED dStatus
        /\ mem' = [mem EXCEPT ![r] = [h \in group |-> status[h]]]
    BY <1>5 DEF LoadHolds
  <2>2. l \in {"rolled_back", "select"}
    OBVIOUS
  <2>3. \A h \in group : h \in Holds /\ status[h] # "none"
    BY DEF Group
  <2> HIDE DEF group, l
  <2>4. /\ DOMAIN mem' = Confirmers /\ DOMAIN mem'[r] = group
        /\ \A o \in Confirmers \ {r} : mem'[o] = mem[o]
    BY <2>1 DEF WShapes, Shapes
  <2>5. KnownRows'
    BY <1>1, <2>3, <2>4 DEF KnownRows
  <2>6. pc[r] \notin Ended /\ l # "convert"
    BY <2>1, <2>2 DEF Ended
  <2>7. QED
    BY <1>4, <2>1, <2>2, <2>4, <2>5, <2>6
<1>6. CASE \/ BeginHold(r) \/ Replay(r) \/ RefuseItem(r) \/ RefuseSeats(r)
           \/ CheckHolds(r) /\ Live(r)
  <2>1. PICK l \in {"select", "replayed", "release", "convert"} :
          /\ Goto(r, l) /\ pc[r] \in {"idle", "select", "take", "check"}
          /\ UNCHANGED <<dStatus, mem>>
          /\ l = "convert" => pc[r] = "check"
    BY <1>6 DEF BeginHold, Replay, RefuseItem, RefuseSeats, CheckHolds, session
  <2>2. KnownRows' /\ DOMAIN mem' = Confirmers
    BY <1>1, <2>1 DEF KnownRows, WShapes, Shapes
  <2>3. pc[r] \notin Ended /\ (l = "convert" => r \in Confirmers)
    BY <2>1 DEF Ended, Routes
  <2>4. QED
    BY <1>4, <2>1, <2>2, <2>3
<1>7. QED
  BY <1>3, <1>5, <1>6

\* A promotion publishes its hold and its entry together.
LEMMA CommitEntryStep ==
    ASSUME WInv, NEW r \in Requests, CommitEntry(r) PROVE WInv'
<1> USE DEF WInv
<1> DEFINE l == IF pc[r] = "commit" THEN "committed" ELSE "refused"
<1>1. /\ pc[r] \in {"commit", "refuse"} /\ Goto(r, l) /\ CloseSession(r) /\ ReleaseEntry(r)
      /\ ~Unmarked(r)
      /\ status' = Over(dStatus[r], status) /\ entry' = Over(dEntry[r], entry)
      /\ UNCHANGED <<leg, stale, mem>>
  BY DEF CommitEntry, Commit, session
<1>2. l \in {"committed", "refused"} /\ (l = "committed" <=> pc[r] = "commit")
  OBVIOUS
<1> HIDE DEF l
<1>3. /\ pc' \in [Requests -> Running \cup Ended \cup {"idle"}]
      /\ pc'[r] = l /\ \A o \in Requests \ {r} : pc'[o] = pc[o]
  BY <1>1, <1>2, Moved DEF WShapes, Shapes, Ended
<1>4. /\ DOMAIN dStatus' = Requests /\ DOMAIN dStatus'[r] = {}
      /\ \A o \in Requests \ {r} : dStatus'[o] = dStatus[o]
  BY <1>1, Closed DEF WShapes, Shapes
<1>5. /\ DOMAIN dEntry' = Requests /\ dEntry'[r] = Nothing
      /\ \A o \in Requests \ {r} : dEntry'[o] = dEntry[o]
  BY <1>1 DEF ReleaseEntry, WShapes
<1>6. /\ DOMAIN status' = Holds
      /\ \A h \in DOMAIN dStatus[r] : status'[h] = dStatus[r][h]
      /\ \A h \in Holds \ DOMAIN dStatus[r] : status'[h] = status[h]
  <2>1. /\ DOMAIN Over(dStatus[r], status) = DOMAIN dStatus[r] \cup DOMAIN status
        /\ \A x \in DOMAIN dStatus[r] : Over(dStatus[r], status)[x] = dStatus[r][x]
        /\ \A x \in DOMAIN status \ DOMAIN dStatus[r] : Over(dStatus[r], status)[x] = status[x]
    BY OverIs
  <2>2. QED
    BY <1>1, <2>1 DEF WShapes, Shapes
<1>7. /\ DOMAIN entry' = DOMAIN dEntry[r] \cup Joins
      /\ \A j \in DOMAIN dEntry[r] : entry'[j] = dEntry[r][j]
      /\ \A j \in Joins \ DOMAIN dEntry[r] : entry'[j] = entry[j]
  <2>1. /\ DOMAIN Over(dEntry[r], entry) = DOMAIN dEntry[r] \cup DOMAIN entry
        /\ \A x \in DOMAIN dEntry[r] : Over(dEntry[r], entry)[x] = dEntry[r][x]
        /\ \A x \in DOMAIN entry \ DOMAIN dEntry[r] : Over(dEntry[r], entry)[x] = entry[x]
    BY OverIs
  <2>2. QED
    BY <1>1, <2>1 DEF WShapes
<1>8. \A h \in Holds : status[h] # "none" => status'[h] # "none"
  BY <1>6 DEF WrittenRows, HoldStatus
<1>9. r \in Promotes =>
        /\ pc[r] = "commit" /\ l = "committed"
        /\ DOMAIN dEntry[r] = {On[r]} /\ dEntry[r][On[r]] = "promoted"
        /\ <<r, 1>> \in DOMAIN dStatus[r] /\ pc[On[r]] = "committed"
  BY <1>1, <1>2 DEF EntryRows, Path, Unmarked
\* A join enters its entry, a promotion promotes one already entered.
<1>10. ASSUME NEW j \in DOMAIN dEntry[r]
       PROVE  /\ j \in Joins /\ l = "committed"
              /\ \/ j = r /\ r \notin Promotes /\ entry'[j] = "waiting"
                 \/ r \in Promotes /\ On[r] = j /\ pc[j] = "committed" /\ entry'[j] = "promoted"
  <2>1. CASE r \in Joins
    <3>1. r \notin Promotes /\ pc[r] = "commit" /\ j = r /\ dEntry[r][j] = "waiting"
      BY <1>1, <2>1, Kinds DEF EntryRows, Routes
    <3>2. QED
      BY <1>2, <1>7, <2>1, <3>1
  <2>2. CASE r \in Promotes
    BY <1>7, <1>9, <2>2, Kinds
  <2>3. CASE r \notin Joins \cup Promotes
    BY <2>3 DEF EntryRows
  <2>4. QED
    BY <2>1, <2>2, <2>3
<1>11. WShapes'
  <2>1. status' \in [Holds -> Status]
    <3>1. \A h \in Holds : status'[h] \in Status
      BY <1>6 DEF WrittenRows, WShapes, Shapes, Status
    <3>2. status' = [h \in DOMAIN status' |-> status'[h]]
      BY <1>1 DEF Over
    <3>3. QED
      BY <1>6, <3>1, <3>2
  <2>2. entry' \in [Joins -> {"none", "waiting", "promoted"}]
    <3>1. DOMAIN entry' = Joins
      BY <1>7, <1>10
    <3>2. \A j \in Joins : entry'[j] \in {"none", "waiting", "promoted"}
      BY <1>7, <1>10 DEF WShapes
    <3>3. entry' = [j \in DOMAIN entry' |-> entry'[j]]
      BY <1>1 DEF Over
    <3>4. QED
      BY <3>1, <3>2, <3>3
  <2>3. QED
    BY <1>1, <1>3, <1>4, <1>5, <2>1, <2>2 DEF WShapes, Shapes
<1>12. WrittenRows'
  <2> SUFFICES ASSUME NEW o \in Requests, NEW h \in DOMAIN dStatus'[o]
               PROVE  dStatus'[o][h] \in HoldStatus /\ (h[1] # o => status'[h] # "none")
    BY DEF WrittenRows
  <2>1. o # r /\ dStatus'[o] = dStatus[o] /\ h \in Holds
    BY <1>4 DEF WShapes, Shapes
  <2>2. QED
    BY <1>8, <2>1 DEF WrittenRows
<1>13. KnownRows'
  BY <1>1, <1>8 DEF KnownRows, WShapes, Shapes
<1>14. EntryRows'
  <2>1. DOMAIN Nothing = {}
    BY DEF Nothing
  <2>2. QED
    BY <1>5, <2>1, Kinds DEF EntryRows
<1>15. \A o \in Requests : pc[o] = "committed" => pc'[o] = "committed"
  BY <1>1, <1>3
<1>16. Routes' /\ Path'
  BY <1>1, <1>2, <1>3, <1>4, <1>9, <1>15, Kinds DEF Routes, Path
<1>17. Queued'
  <2>1. ASSUME NEW j \in Joins
        PROVE  /\ pc'[j] # "committed" => entry'[j] = "none"
               /\ entry'[j] = "promoted" => \E p \in Promotes : On[p] = j /\ pc'[p] = "committed"
    <3>1. CASE j \in DOMAIN dEntry[r]
      BY <1>3, <1>10, <1>15, <3>1, Kinds
    <3>2. CASE j \notin DOMAIN dEntry[r]
      <4>1. entry'[j] = entry[j]
        BY <1>7, <3>2
      <4>2. pc[j] = "committed" => pc'[j] = "committed"
        BY <1>15, Kinds
      <4>3. QED
        BY <1>15, <4>1, <4>2, Kinds DEF Queued
    <3>3. QED
      BY <3>1, <3>2
  <2>2. ASSUME NEW p \in Promotes
        PROVE  /\ status'[<<p, 1>>] # "none" <=> pc'[p] = "committed"
               /\ pc'[p] = "committed" => entry'[On[p]] = "promoted"
    <3>1. p \in Requests /\ On[p] \in Joins /\ <<p, 1>> \in Holds /\ <<p, 1>>[1] = p
      BY Kinds
    <3>2. CASE p = r
      BY <1>3, <1>6, <1>7, <1>9, <3>1, <3>2 DEF WrittenRows, HoldStatus
    <3>3. CASE p # r
      <4>1. pc'[p] = pc[p]
        BY <1>3, <3>1, <3>3
      <4>2. status'[<<p, 1>>] # "none" <=> status[<<p, 1>>] # "none"
        BY <1>6, <1>8, <3>1, <3>3 DEF WrittenRows
      <4>3. pc[p] = "committed" => entry[On[p]] = "promoted"
        BY DEF Queued
      <4>4. entry[On[p]] = "promoted" => entry'[On[p]] = "promoted"
        <5>1. CASE On[p] \in DOMAIN dEntry[r]
          BY <1>1, <1>2, <1>10, <3>1, <5>1 DEF Queued
        <5>2. CASE On[p] \notin DOMAIN dEntry[r]
          BY <1>7, <3>1, <5>2
        <5>3. QED
          BY <5>1, <5>2
      <4>5. QED
        BY <4>1, <4>2, <4>3, <4>4 DEF Queued
    <3>4. QED
      BY <3>2, <3>3
  <2>3. QED
    BY <2>1, <2>2 DEF Queued
<1>18. QED
  BY <1>11, <1>12, <1>13, <1>14, <1>16, <1>17

-----------------------------------------------------------------------------
(* The invariant and the theorem *)

LEMMA StepWInv == WInv /\ [WaitlistNext]_waitlistVars => WInv'
<1> SUFFICES ASSUME WInv, [WaitlistNext]_waitlistVars PROVE WInv'
  OBVIOUS
<1>1. CASE UNCHANGED <<pc, status, leg, stale, dStatus, mem, entry, dEntry>>
  BY <1>1 DEF WInv, WShapes, Shapes, WrittenRows, KnownRows, EntryRows, Routes, Path, Queued
<1>2. ASSUME NEW r \in Requests, BeginJoin(r) \/ BeginPromote(r) \/ NotWaiting(r)
      PROVE  WInv'
  BY <1>2, Begins
<1>3. ASSUME NEW r \in Requests, WaitlistStep(r) PROVE WInv'
  <2>1. CASE Expire(r) \/ Queue(r) \/ MarkPromoted(r) \/ CommitEntry(r)
    BY <2>1, ExpireStep, QueueStep, MarkPromotedStep, CommitEntryStep
  <2>2. CASE SeatsAreThere(r) \/ SeatsGone(r)
    BY <2>2, UndoStep DEF SeatsAreThere, SeatsGone, Running
  <2>3. CASE PromoteSeats(r)
    BY <2>3, SeatsStep, Kinds DEF PromoteSeats
  <2>4. CASE BookingStep(r)
    BY <2>4, SeatsStep, OthersWrite, OthersStep DEF BookingStep
  <2>5. QED
    BY <1>3, <2>1, <2>2, <2>3, <2>4 DEF WaitlistStep
<1>4. ASSUME NEW r \in Requests, UndoRunning(r) PROVE WInv'
  BY <1>4, UndoStep DEF UndoRunning
<1>5. ASSUME NEW r \in Requests \ (Joins \cup Promotes), UNCHANGED <<entries, given>>,
             BeginHold(r) \/ Replay(r) \/ LoadHolds(r) \/ RefuseItem(r)
      PROVE  WInv'
  <2>1. UNCHANGED entries
    BY <1>5
  <2>2. QED
    BY <1>5, <2>1, OthersStep
<1>6. CASE \E k \in Confirmers : CancelSale(k)
  BY <1>1, <1>6 DEF CancelSale, session, entries
<1>7. CASE (Forget \/ Tick \/ Terminating) /\ UNCHANGED <<entries, given>>
  BY <1>1, <1>7 DEF Forget, Tick, Terminating, vars, db, session, entries
<1>8. CASE UNCHANGED waitlistVars
  BY <1>1, <1>8 DEF waitlistVars, vars, db, session, entries
<1>9. CASE WaitlistNext
  <2>1. CASE \E r \in Requests :
               \/ BeginJoin(r) \/ BeginPromote(r) \/ NotWaiting(r)
               \/ WaitlistStep(r) \/ UndoRunning(r)
    BY <1>2, <1>3, <1>4, <2>1
  <2>2. CASE \E r \in Requests \ (Joins \cup Promotes) :
               /\ BeginHold(r) \/ Replay(r) \/ LoadHolds(r) \/ RefuseItem(r)
               /\ UNCHANGED <<entries, given>>
    BY <1>5, <2>2
  <2>3. QED
    BY <1>6, <1>7, <1>9, <2>1, <2>2 DEF WaitlistNext
<1>10. QED
  BY <1>8, <1>9

\* README "Promotion calls the exact same hold_seats path as a normal booking":
\* however promotions, bookings, expiries and failures interleave, an entry is
\* promoted exactly when a promotion of it has put a hold into the database.
THEOREM EntriesGoWithHolds == WaitlistSpec => []PromotedWithHold
<1>1. WInv => PromotedWithHold
  <2> SUFFICES ASSUME WInv, NEW j \in Joins
               PROVE  entry[j] = "promoted" <=> PromotionsOf(j) # {}
    BY DEF PromotedWithHold
  <2>1. \A p \in Promotes : p \in PromotionsOf(j) <=> On[p] = j /\ pc[p] = "committed"
    BY DEF WInv, Queued, PromotionsOf
  <2>2. PromotionsOf(j) \subseteq Promotes
    BY DEF PromotionsOf
  <2>3. ASSUME entry[j] = "promoted" PROVE PromotionsOf(j) # {}
    BY <2>1, <2>3 DEF WInv, Queued
  <2>4. ASSUME NEW p \in PromotionsOf(j) PROVE entry[j] = "promoted"
    <3>1. p \in Promotes /\ On[p] = j /\ pc[p] = "committed"
      BY <2>1, <2>2, <2>4
    <3>2. pc[p] = "committed" => entry[On[p]] = "promoted"
      BY <3>1 DEF WInv, Queued
    <3>3. QED
      BY <3>1, <3>2
  <2>5. QED
    BY <2>3, <2>4
<1>2. QED
  BY <1>1, WInit, StepWInv, PTL DEF WaitlistSpec

-----------------------------------------------------------------------------
(* What joins and promotions add to the steps of SeatHolds *)

\* A hold request that goes on, or ends, without having written anything else
\* than expiries: a join queues, a promotion finds its entry not waiting.
Passes(r, l) ==
    /\ r \in Joins \cup Promotes /\ Goto(r, l)
    /\ DOMAIN dSeats' = Requests /\ DOMAIN dStatus' = Requests
    /\ \A o \in Requests : dSeats'[o] = dSeats[o] /\ dStatus'[o] = dStatus[o]
    /\ UNCHANGED <<now, db, expires, cache, session>>
    /\ \/ pc[r] = "take" /\ l = "commit" /\ Group(r) \cap DOMAIN dStatus[r] = {}
       \/ pc[r] = "idle" /\ l = "rolled_back"

\* A join holds nothing, and expires nothing of its own.
JoinsHoldNothing ==
    \A j \in Joins : Group(j) \cap DOMAIN dStatus[j] = {} /\ Group(j) \cap stale[j] = {}

\* Only a join or a promotion that is running has an entry locked.
EntryLocks ==
    \A r \in Requests : (pc[r] \in Running /\ r \in Joins \cup Promotes) \/ dEntry[r] = Nothing

WTypes == WInv /\ TInv /\ JoinsHoldNothing /\ EntryLocks

\* What a request does is a step of SeatHolds, but for what joins and promotions add.
LEMMA Acts ==
    ASSUME NEW r \in Requests,
           BeginJoin(r) \/ BeginPromote(r) \/ NotWaiting(r) \/ WaitlistStep(r) \/ UndoRunning(r)
    PROVE  /\ given' = given
           /\ RequestStep(r) \/ Queue(r) \/ NotWaiting(r) \/ MarkPromoted(r)
<1>1. ASSUME Undo(r), pc[r] \in Running PROVE RequestStep(r) /\ given' = given
  BY <1>1 DEF Undo, RequestStep, Rollback
<1>2. CASE BeginJoin(r) \/ BeginPromote(r) \/ NotWaiting(r) \/ UndoRunning(r)
  BY <1>1, <1>2 DEF BeginJoin, BeginPromote, NotWaiting, Undo, UndoRunning, RequestStep
<1>3. CASE SeatsAreThere(r) \/ SeatsGone(r)
  BY <1>1, <1>3 DEF SeatsAreThere, SeatsGone, Running
<1>4. CASE Expire(r) \/ PromoteSeats(r) \/ BookingStep(r) \/ CommitEntry(r)
  BY <1>4 DEF Expire, PromoteSeats, BookingStep, CommitEntry, RequestStep, Step
<1>5. CASE Queue(r) \/ MarkPromoted(r)
  BY <1>5 DEF Queue, MarkPromoted
<1>6. QED
  BY <1>2, <1>3, <1>4, <1>5 DEF WaitlistStep

\* Every step is one of SeatHolds, passes, or cancels a sale.
LEMMA Kinship ==
    ASSUME WTypes, [WaitlistNext]_waitlistVars
    PROVE  \/ [Next]_vars /\ given' = given
           \/ given' = given /\ \E r \in Requests, l \in {"commit", "rolled_back"} : Passes(r, l)
           \/ \E k \in Confirmers : CancelSale(k)
<1> USE DEF WTypes
<1>1. ASSUME NEW r \in Requests, RequestStep(r) PROVE [Next]_vars
  BY <1>1 DEF Next, RequestStep
<1>2. ASSUME NEW r \in Requests, Queue(r) PROVE Passes(r, "commit")
  <2>1. Group(r) \cap DOMAIN dStatus[r] = {} /\ r \in Joins
    BY <1>2 DEF Queue, JoinsHoldNothing
  <2>2. QED
    BY <1>2, <2>1 DEF Queue, Passes, TInv, IInv, Shapes, Types
<1>3. ASSUME NEW r \in Requests, NotWaiting(r) PROVE Passes(r, "rolled_back")
  <2>1. r \in Promotes /\ pc[r] = "idle" /\ Undo(r)
    BY <1>3 DEF NotWaiting
  <2>2. dSeats[r] = Nothing /\ dStatus[r] = Nothing
    BY <2>1 DEF TInv, Types, Running
  <2>3. QED
    BY <2>1, <2>2 DEF Undo, Passes, CloseSession, TInv, IInv, Shapes, Types
<1>4. ASSUME NEW r \in Requests, MarkPromoted(r) PROVE [Next]_vars
  BY <1>4 DEF MarkPromoted, vars
<1>5. CASE \E r \in Requests :
             \/ BeginJoin(r) \/ BeginPromote(r) \/ NotWaiting(r)
             \/ WaitlistStep(r) \/ UndoRunning(r)
  BY <1>1, <1>2, <1>3, <1>4, <1>5, Acts
<1>6. CASE \E r \in Requests \ (Joins \cup Promotes) :
             /\ BeginHold(r) \/ Replay(r) \/ LoadHolds(r) \/ RefuseItem(r)
             /\ UNCHANGED <<entries, given>>
  BY <1>1, <1>6 DEF RequestStep
<1>7. CASE (Forget \/ Tick \/ Terminating) /\ UNCHANGED <<entries, given>>
  BY <1>7 DEF Next
<1>8. CASE UNCHANGED waitlistVars
  BY <1>8 DEF waitlistVars
<1>9. QED
  BY <1>5, <1>6, <1>7, <1>8 DEF WaitlistNext

-----------------------------------------------------------------------------
(* Types *)

\* Passing on leaves the rows of every group as they are.
LEMMA PassRows ==
    ASSUME TInv, NEW r \in Requests, NEW l \in {"commit", "rolled_back"}, Passes(r, l)
    PROVE  IInv'
<1> USE DEF TInv, IInv
<1>1. /\ pc' \in [Requests -> Running \cup Ended \cup {"idle"}]
      /\ pc'[r] = l /\ \A o \in Requests \ {r} : pc'[o] = pc[o]
  BY Moved DEF Passes, Shapes, Running, Ended
<1>2. /\ DOMAIN dStatus' = Requests /\ \A o \in Requests : dStatus'[o] = dStatus[o]
      /\ UNCHANGED <<status, leg, stale, mem>>
      /\ pc[r] \in {"take", "idle"} /\ r \in Holders /\ r \notin Confirmers
      /\ l = "commit" => Group(r) \cap DOMAIN dStatus[r] = {}
      /\ l = "rolled_back" => pc[r] = "idle"
  BY Kinds DEF Passes, db, session
<1>3. Shapes'
  BY <1>1, <1>2 DEF Shapes
<1>4. Programs'
  BY <1>1, <1>2 DEF Programs, Requests
<1>5. \A h \in Holds : Standing(h) => Standing(h)'
  BY <1>1, <1>2, StandsStill
<1>6. OthersRows' /\ KnownHolds'
  BY <1>2, <1>5 DEF OthersRows, KnownHolds, Shapes
<1>7. OwnRows'
  <2>1. pc[r] = "idle" => DOMAIN dStatus[r] = {}
    BY <1>2 DEF OwnRows, Running
  <2>2. QED
    BY <1>1, <1>2, <2>1 DEF OwnRows, Requests, Running
<1>8. Progress'
  BY <1>1, <1>2 DEF Progress, Requests
<1>9. Together'
  <2>1. \A g \in Holders : pc'[g] = pc[g] \/ {pc[g], pc'[g]} \cap {"committed", "refused"} = {}
    BY <1>1, <1>2 DEF Requests
  <2>2. QED
    BY <1>2, <2>1, GroupRows DEF Together
<1>10. QED
  BY <1>3, <1>4, <1>6, <1>7, <1>8, <1>9

LEMMA PassTypes ==
    ASSUME TInv, NEW r \in Requests, NEW l \in {"commit", "rolled_back"}, Passes(r, l)
    PROVE  TInv'
<1>1. IInv'
  BY PassRows
<1>2. /\ UNCHANGED <<now, seats, commits, expires, booked, cabin, todo, since, left, dropped>>
      /\ DOMAIN dSeats' = Requests
      /\ \A o \in Requests : dSeats'[o] = dSeats[o] /\ dStatus'[o] = dStatus[o]
  BY DEF Passes, db, session
<1>3. \A o \in Requests :
        pc'[o] = pc[o] \/ (pc'[o] = "commit" /\ o = r) \/ (pc[o] = "idle" /\ pc'[o] = "rolled_back")
  BY DEF Passes, Goto, TInv, IInv, Shapes
<1>4. Types'
  BY <1>2, <1>3 DEF TInv, Types, Running
<1>5. QED
  BY <1>1, <1>4 DEF TInv

\* A cancellation touches the seat counts only.
LEMMA CancelTypes ==
    ASSUME TInv, NEW k \in Confirmers, CancelSale(k) PROVE TInv'
<1>1. UNCHANGED <<now, status, booked, expires, dSeats, dStatus, pc, leg, left, cabin, stale,
                  todo, mem, since, dropped>>
  BY DEF CancelSale, session
<1>2. IInv'
  BY <1>1
     DEF TInv, IInv, Shapes, Programs, OthersRows, KnownHolds, OwnRows, Progress, Together, Standing
<1>3. seats' \in [Cabins -> Int] /\ commits' \in [Cabins -> Nat]
  <2>1. \A c \in Cabins : SoldBy(k, c) \in Int
    BY SoldAdds
  <2>2. QED
    BY <2>1 DEF CancelSale, TInv, Types
<1>4. QED
  BY <1>1, <1>2, <1>3 DEF TInv, Types

LEMMA StepWTInv ==
    ASSUME WTypes, [WaitlistNext]_waitlistVars PROVE TInv'
<1>1. CASE [Next]_vars
  BY <1>1, StepIInv, StepTypes DEF WTypes, TInv
<1>2. QED
  BY <1>1, Kinship, PassTypes, CancelTypes DEF WTypes


\* A join expires holds of others only: its own group is not inserted.
LEMMA JoinRows ==
    ASSUME WTypes, NEW j \in Joins,
           BeginJoin(j) \/ Expire(j) \/ Queue(j) \/ CommitEntry(j) \/ Undo(j)
    PROVE  Group(j) \cap DOMAIN dStatus'[j] = {} /\ Group(j) \cap stale'[j] = {}
<1> USE DEF WTypes, TInv, IInv, Shapes
<1>1. /\ j \in Requests /\ j \in Holders
      /\ Group(j) \cap DOMAIN dStatus[j] = {} /\ Group(j) \cap stale[j] = {}
  BY Kinds DEF JoinsHoldNothing
<1>2. CASE BeginJoin(j) \/ Queue(j) \/ ReturnSeats(j)
  <2>1. UNCHANGED <<dStatus, stale>>
    BY <1>2 DEF BeginJoin, BeginHold, Queue, ReturnSeats, session
  <2>2. QED
    BY <1>1, <2>1
<1>3. CASE SelectStaleHolds(j)
  <2>1. PICK c : stale' = [stale EXCEPT ![j] = {h \in Holds : IsStale(j, c, h)}]
    BY <1>3 DEF SelectStaleHolds
  <2>2. pc[j] = "select" /\ dStatus' = dStatus
    BY <1>3 DEF SelectStaleHolds
  <2>3. stale'[j] = {h \in Holds : IsStale(j, c, h)}
    BY <1>1, <2>1
  <2>4. ASSUME NEW h \in Group(j) \cap stale'[j] PROVE FALSE
    <3>1. h \in Holds /\ StatusSeen(j, h) = "active" /\ h \notin DOMAIN dStatus[j]
      BY <1>1, <2>3, <2>4 DEF IsStale
    <3>2. status[h] = "active"
      BY <1>1, <3>1, Seen
    <3>3. status[h] = "none"
      BY <1>1, <2>2 DEF Together
    <3>4. QED
      BY <3>2, <3>3
  <2>5. QED
    BY <1>1, <2>2, <2>4
<1>4. CASE FlushExpired(j)
  <2>1. stale'[j] = {} /\ WriteStatus(j, stale[j], "expired")
    BY <1>1, <1>4 DEF FlushExpired
  <2>2. DOMAIN dStatus'[j] = stale[j] \cup DOMAIN dStatus[j]
    BY <1>1, <2>1, Written
  <2>3. QED
    BY <1>1, <2>1, <2>2
<1>5. CASE CommitEntry(j) \/ Undo(j)
  <2>1. CloseSession(j) /\ stale' = stale
    BY <1>5 DEF CommitEntry, Commit, Undo, session
  <2>2. QED
    BY <1>1, <2>1, Closed
<1>6. QED
  BY <1>2, <1>3, <1>4, <1>5 DEF Expire

LEMMA StepJoins ==
    ASSUME WTypes, [WaitlistNext]_waitlistVars PROVE JoinsHoldNothing'
<1> USE DEF WTypes
<1> SUFFICES ASSUME NEW j \in Joins
             PROVE  Group(j) \cap DOMAIN dStatus'[j] = {} /\ Group(j) \cap stale'[j] = {}
  BY DEF JoinsHoldNothing
<1>1. j \in Requests /\ j \notin Promotes
  BY Kinds
<1>2. ASSUME dStatus'[j] = dStatus[j], stale'[j] = stale[j]
      PROVE  Group(j) \cap DOMAIN dStatus'[j] = {} /\ Group(j) \cap stale'[j] = {}
  BY <1>2 DEF JoinsHoldNothing
<1>3. ASSUME NEW r \in Requests \ {j}, RequestStep(r)
      PROVE  dStatus'[j] = dStatus[j] /\ stale'[j] = stale[j]
  BY <1>1, <1>3, Frame
<1>4. ASSUME NEW r \in Requests \ {j},
             BeginJoin(r) \/ BeginPromote(r) \/ NotWaiting(r) \/ WaitlistStep(r) \/ UndoRunning(r)
      PROVE  dStatus'[j] = dStatus[j] /\ stale'[j] = stale[j]
  <2>1. CASE Queue(r) \/ MarkPromoted(r) \/ NotWaiting(r)
    BY <1>1, <2>1 DEF Queue, MarkPromoted, NotWaiting, Undo, CloseSession, session, TInv, IInv, Shapes
  <2>2. QED
    BY <1>3, <1>4, <2>1, Acts
<1>5. CASE BeginJoin(j) \/ BeginPromote(j) \/ NotWaiting(j) \/ WaitlistStep(j) \/ UndoRunning(j)
  <2>1. BeginJoin(j) \/ Expire(j) \/ Queue(j) \/ CommitEntry(j) \/ Undo(j)
    BY <1>1, <1>5 DEF BeginPromote, NotWaiting, WaitlistStep, UndoRunning, SeatsAreThere,
       PromoteSeats, SeatsGone, MarkPromoted, Unmarked, BookingStep
  <2>2. QED
    BY <2>1, JoinRows
<1>6. CASE \E r \in Requests \ (Joins \cup Promotes) :
             /\ BeginHold(r) \/ Replay(r) \/ LoadHolds(r) \/ RefuseItem(r)
             /\ UNCHANGED <<entries, given>>
  BY <1>2, <1>3, <1>6 DEF RequestStep
<1>7. CASE \/ \E k \in Confirmers : CancelSale(k)
           \/ (Forget \/ Tick \/ Terminating) /\ UNCHANGED <<entries, given>>
           \/ UNCHANGED waitlistVars
  BY <1>2, <1>7 DEF CancelSale, Forget, Tick, Terminating, vars, waitlistVars, session
<1>8. QED
  BY <1>2, <1>4, <1>5, <1>6, <1>7 DEF WaitlistNext


\* An entry is locked by a request that goes on to its commit, and given up there.
LEMMA OneEntry ==
    ASSUME WTypes, NEW r \in Requests, UNCHANGED pc \/ \E l : Goto(r, l),
           \A o \in Requests \ {r} : dEntry'[o] = dEntry[o],
           (pc'[r] \in Running /\ r \in Joins \cup Promotes) \/ dEntry'[r] = Nothing
    PROVE  EntryLocks'
<1>1. \A o \in Requests \ {r} : pc'[o] = pc[o]
  BY DEF Goto, WTypes, TInv, IInv, Shapes
<1>2. QED
  BY <1>1 DEF WTypes, EntryLocks

LEMMA StepLocks ==
    ASSUME WTypes, [WaitlistNext]_waitlistVars PROVE EntryLocks'
<1> USE DEF WTypes, WInv, WShapes, TInv, IInv, Shapes
<1>1. ASSUME NEW r \in Requests, Undo(r) PROVE EntryLocks'
  BY <1>1, OneEntry DEF Undo, ReleaseEntry
<1>2. ASSUME NEW r \in Requests, UNCHANGED dEntry, \E l : Goto(r, l),
             r \notin Joins \cup Promotes \/ pc'[r] \in Running
      PROVE  EntryLocks'
  <2>1. dEntry[r] = Nothing \/ (pc'[r] \in Running /\ r \in Joins \cup Promotes)
    BY <1>2 DEF EntryLocks
  <2>2. QED
    BY <1>2, <2>1, OneEntry
<1>3. ASSUME NEW r \in Requests,
             BeginJoin(r) \/ BeginPromote(r) \/ NotWaiting(r) \/ WaitlistStep(r) \/ UndoRunning(r)
      PROVE  EntryLocks'
  <2>1. CASE BeginJoin(r) \/ BeginPromote(r)
    BY <1>2, <2>1 DEF BeginJoin, BeginPromote, BeginHold, Goto, Running, entries
  <2>2. CASE NotWaiting(r) \/ UndoRunning(r) \/ SeatsAreThere(r) \/ SeatsGone(r)
    BY <1>1, <2>2 DEF NotWaiting, UndoRunning, SeatsAreThere, SeatsGone
  <2>3. CASE Expire(r)
    BY <1>2, <2>3 DEF Expire, SelectStaleHolds, ReturnSeats, FlushExpired, AfterExpiry, Goto,
       Running, entries
  <2>4. CASE Queue(r)
    <3>1. /\ r \in Joins /\ pc'[r] \in Running /\ Goto(r, "commit")
          /\ \A o \in Requests \ {r} : dEntry'[o] = dEntry[o]
      BY <2>4 DEF Queue, WriteEntry, Goto, Running
    <3>2. QED
      BY <3>1, OneEntry
  <2>5. CASE MarkPromoted(r)
    <3>1. /\ r \in Promotes /\ pc' = pc /\ pc[r] \in Running
          /\ \A o \in Requests \ {r} : dEntry'[o] = dEntry[o]
      BY <2>5 DEF MarkPromoted, Unmarked, WriteEntry, Running
    <3>2. QED
      BY <3>1, OneEntry
  <2>6. CASE PromoteSeats(r)
    BY <1>2, <2>6 DEF PromoteSeats, TakeSeats, Goto, Running, entries
  <2>7. CASE BookingStep(r)
    BY <1>2, <2>7 DEF BookingStep, TakeSeats, RefuseSeats, ReleaseHolds, CheckHolds, ConvertHolds,
       Goto, entries
  <2>8. CASE CommitEntry(r)
    <3>1. (\E l : Goto(r, l)) /\ ReleaseEntry(r)
      BY <2>8 DEF CommitEntry, Commit
    <3>2. QED
      BY <3>1, OneEntry DEF ReleaseEntry
  <2>9. QED
    BY <1>3, <2>1, <2>2, <2>3, <2>4, <2>5, <2>6, <2>7, <2>8 DEF WaitlistStep
<1>4. CASE \E r \in Requests \ (Joins \cup Promotes) :
             /\ BeginHold(r) \/ Replay(r) \/ LoadHolds(r) \/ RefuseItem(r)
             /\ UNCHANGED <<entries, given>>
  BY <1>2, <1>4 DEF BeginHold, Replay, LoadHolds, RefuseItem, entries
<1>5. CASE \/ \E k \in Confirmers : CancelSale(k)
           \/ (Forget \/ Tick \/ Terminating) /\ UNCHANGED <<entries, given>>
           \/ UNCHANGED waitlistVars
  BY <1>5 DEF CancelSale, Forget, Tick, Terminating, vars, waitlistVars, entries, EntryLocks
<1>6. QED
  BY <1>3, <1>4, <1>5 DEF WaitlistNext

LEMMA InitWTypes == WaitlistInit => WTypes
<1> SUFFICES ASSUME WaitlistInit PROVE WTypes
  OBVIOUS
<1>1. WInv /\ TInv
  BY WInit, InitIInv, InitTypes DEF WaitlistInit, TInv
<1>2. \A r \in Requests : stale[r] = {} /\ DOMAIN dStatus[r] = {} /\ dEntry[r] = Nothing
  BY DEF WaitlistInit, Init, Nothing
<1>3. QED
  BY <1>1, <1>2, Kinds DEF WTypes, JoinsHoldNothing, EntryLocks

LEMMA StepWTypes == WTypes /\ [WaitlistNext]_waitlistVars => WTypes'
BY StepWInv, StepWTInv, StepJoins, StepLocks DEF WTypes

\* Every variable stays in its type, and a join or a promotion that was answered
\* has neither its entry nor a seat count nor a hold row locked, whatever failed.
THEOREM WaitlistTypeCorrect == WaitlistSpec => []WaitlistTypeOK
<1>1. WTypes => WaitlistTypeOK
  <2> SUFFICES ASSUME WTypes PROVE WaitlistTypeOK
    OBVIOUS
  <2>1. TypeOK
    BY TypesAreOK DEF WTypes
  <2>2. ASSUME NEW r \in Requests
        PROVE  /\ DOMAIN dEntry[r] \subseteq Joins
               /\ \A j \in DOMAIN dEntry[r] : dEntry[r][j] \in {"waiting", "promoted"}
               /\ pc[r] \notin Running => dEntry[r] = Nothing
    <3>1. DOMAIN Nothing = {}
      BY DEF Nothing
    <3>2. ASSUME NEW j \in DOMAIN dEntry[r]
          PROVE  j \in Joins /\ dEntry[r][j] \in {"waiting", "promoted"}
      <4>1. CASE r \in Joins
        BY <3>2, <4>1 DEF WTypes, WInv, EntryRows
      <4>2. CASE r \in Promotes
        <5>1. On[r] \in Joins
          BY <4>2, Kinds
        <5>2. dEntry[r] = Nothing \/ (DOMAIN dEntry[r] = {On[r]} /\ dEntry[r][On[r]] = "promoted")
          BY <4>2 DEF WTypes, WInv, EntryRows
        <5>3. QED
          BY <3>1, <3>2, <5>1, <5>2
      <4>3. CASE r \notin Joins \cup Promotes
        BY <3>1, <3>2, <4>3 DEF WTypes, EntryLocks
      <4>4. QED
        BY <4>1, <4>2, <4>3
    <3>3. pc[r] \notin Running => dEntry[r] = Nothing
      BY DEF WTypes, EntryLocks
    <3>4. QED
      BY <3>2, <3>3
  <2>3. QED
    BY <2>1, <2>2 DEF WaitlistTypeOK, WTypes, WInv, WShapes
<1>2. QED
  BY <1>1, InitWTypes, StepWTypes, PTL DEF WaitlistSpec


-----------------------------------------------------------------------------
(* The seats of a cabin, cancelled sales included *)

\* Passing on moves no seat and takes no hold.
LEMMA PassFresh ==
    ASSUME FreshInv, TInv', NEW r \in Requests, NEW l \in {"commit", "rolled_back"}, Passes(r, l)
    PROVE  FreshInv'
<1> USE DEF FreshInv, Inv, SInv
<1>1. /\ pc'[r] = l /\ \A o \in Requests \ {r} : pc'[o] = pc[o]
  BY DEF Passes, Goto, TInv, IInv, Shapes
<1>2. /\ \A o \in Requests : dSeats'[o] = dSeats[o] /\ dStatus'[o] = dStatus[o]
      /\ UNCHANGED <<seats, status, booked, expires, leg, left, cabin, stale, todo, mem, dropped>>
      /\ r \notin Confirmers /\ pc[r] \in {"take", "idle"}
      /\ l = "rolled_back" => pc[r] = "idle"
  BY Kinds DEF Passes, db, session
<1>3. \A k \in Confirmers : k \in Requests /\ pc'[k] = pc[k]
  BY <1>1, <1>2 DEF Requests
<1>4. SInv'
  <2>1. \A k \in Confirmers : Loaded(k)'
    BY <1>2, <1>3 DEF Loaded
  <2>2. \A o \in Requests : Conversions(o)'
    BY <1>2, <1>3 DEF Conversions
  <2>3. Sales'
    <3>1. \A h \in Holds : pc[h[1]] = "committed" => pc'[h[1]] = "committed"
      BY <1>1, <1>2, Members DEF Requests
    <3>2. \A k \in Confirmers : Group(Target[k]) \subseteq Holds
      BY DEF Group
    <3>3. QED
      BY <1>2, <1>3, <3>1, <3>2 DEF Sales
  <2>4. QED
    BY <2>1, <2>2, <2>3
<1>5. CabinLocks' /\ Unwritten'
  BY <1>1, <1>2, <1>3 DEF CabinLocks, Unwritten, Before, Requests
<1>6. (\A o \in Requests : Expiring(o)' /\ Drops(o)') /\ LostIsGone'
  <2>1. \A o \in Requests : Expiring(o)'
    BY <1>1, <1>2 DEF Expiring, Running
  <2>2. \A h \in Holds : pc[h[1]] = "committed" => pc'[h[1]] = "committed"
    BY <1>1, <1>2, Members DEF Requests
  <2>3. \A o \in Requests : Drops(o)'
    BY <1>1, <1>2, <2>2 DEF Drops, TInv, Types, Running
  <2>4. Dropped' = Dropped
    BY <1>1, <1>2 DEF Dropped
  <2>5. QED
    BY <1>2, <2>1, <2>3, <2>4 DEF LostIsGone
<1>7. ASSUME NEW o \in Requests PROVE Account(o)'
  <2>1. \A h \in Holds : (Gave(o, h)' <=> Gave(o, h)) /\ (Took(o, h)' <=> Took(o, h))
    BY <1>1, <1>2 DEF Gave, Took
  <2>2. QED
    BY <1>2, <2>1, SameAccount
<1>8. Turns' /\ Current'
  BY <1>2, <1>3 DEF Turns, Current
<1>9. Lasting'
  BY <1>2 DEF Lasting
<1>10. QED
  BY <1>4, <1>5, <1>6, <1>7, <1>8, <1>9

\* A cancellation gives seats back to cabins that nobody has locked.
LEMMA CancelFresh ==
    ASSUME FreshInv, TInv', NEW k \in Confirmers, CancelSale(k)
    PROVE  FreshInv'
<1> USE DEF FreshInv, Inv, SInv
<1>1. /\ UNCHANGED <<status, booked, expires, dSeats, dStatus, pc, leg, left, cabin, stale, todo, mem,
                     dropped>>
      /\ k \in booked /\ k \in Requests
  BY DEF CancelSale, session, Requests
<1>2. SInv'
  BY <1>1 DEF Loaded, Conversions, Sales
<1>3. CabinLocks' /\ Unwritten' /\ LostIsGone' /\ \A o \in Requests : Expiring(o)' /\ Drops(o)'
  BY <1>1 DEF CabinLocks, Unwritten, Expiring, Drops, LostIsGone, Dropped
<1>4. Turns' /\ Current' /\ Lasting'
  BY <1>1 DEF Turns, Current, Lasting
<1>5. ASSUME NEW o \in Requests, NEW c \in DOMAIN dSeats[o] PROVE seats'[c] = seats[c]
  <2>1. dSeats[k] = Nothing /\ DOMAIN Nothing = {}
    BY <1>1 DEF Sales, TInv, Types, Running, Nothing
  <2>2. c \in Cabins /\ seats[c] \in Int /\ o # k
    BY <2>1 DEF TInv, Types
  <2>3. {h \in Group(Target[k]) : Cabin(h) = c} = {}
    BY <1>1, <2>2 DEF CancelSale, CabinFree
  <2>4. SoldBy(k, c) = 0
    BY <2>3, SumEmpty DEF SoldBy, QuantityOf
  <2>5. QED
    BY <2>2, <2>4 DEF CancelSale
<1>6. ASSUME NEW o \in Requests PROVE Account(o)'
  <2>1. SeenRows /\ (TInv' => SeenRows')
    BY SeatsSeenAre, PTL
  <2>2. \A h \in Holds : Moves(o)'[h] = Moves(o)[h]
    BY <1>1 DEF Moves, Gave, Took
  <2>3. \A c \in Cabins :
          SumFunctionOnSet(Moves(o)', HoldsIn(c)) = SumFunctionOnSet(Moves(o), HoldsIn(c))
    BY <2>2, SameMoves
  <2>4. ASSUME NEW c \in Cabins
        PROVE  SeatsSeen(o, c)' = seats'[c] + SumFunctionOnSet(Moves(o)', HoldsIn(c))
    <3>1. /\ SeatsSeen(o, c) = seats[c] + SumFunctionOnSet(Moves(o), HoldsIn(c))
          /\ SumFunctionOnSet(Moves(o), HoldsIn(c)) \in Int
      BY MoveTypes DEF Account
    <3>2. /\ SeatsSeen(o, c) = IF c \in DOMAIN dSeats[o] THEN dSeats[o][c] ELSE seats[c]
          /\ SeatsSeen(o, c)' = IF c \in DOMAIN dSeats[o] THEN dSeats[o][c] ELSE seats'[c]
          /\ seats[c] \in Int /\ seats'[c] \in Int
      BY <1>1, <2>1 DEF SeenRows
    <3>3. CASE c \in DOMAIN dSeats[o]
      BY <1>5, <2>3, <3>1, <3>2, <3>3
    <3>4. CASE c \notin DOMAIN dSeats[o]
      <4>1. SumFunctionOnSet(Moves(o), HoldsIn(c)) = 0
        BY <3>1, <3>2, <3>4
      <4>2. QED
        BY <2>3, <3>2, <3>4, <4>1
    <3>5. QED
      BY <3>3, <3>4
  <2>5. \A h \in Holds : Took(o, h)' => Cabin(h) \in DOMAIN dSeats'[o]
    BY <1>1 DEF Account, Took
  <2>6. QED
    BY <2>4, <2>5 DEF Account
<1>7. QED
  BY <1>2, <1>3, <1>4, <1>6


LEMMA FreedAdds ==
    ASSUME given \subseteq Confirmers, NEW c \in Cabins
    PROVE  /\ Freed(c) \in Int
           /\ \A k \in Confirmers \ given : given' = given \cup {k} =>
                Freed(c)' = Freed(c) + SoldBy(k, c)
<1> DEFINE f == [k \in Confirmers |-> SoldBy(k, c)]
<1>1. /\ IsFiniteSet(given) /\ \A k \in Confirmers : f[k] \in Int /\ f[k] = SoldBy(k, c)
      /\ \A k \in given : f[k] \in Int
  BY RequestsAssumption, FS_Subset, SoldAdds
<1>2. Freed(c) = SumFunctionOnSet(f, given) /\ Freed(c)' = SumFunctionOnSet(f, given')
  BY DEF Freed
<1> HIDE DEF f
<1>3. Freed(c) \in Int
  BY <1>1, <1>2, SumType
<1>4. ASSUME NEW k \in Confirmers \ given, given' = given \cup {k}
      PROVE  Freed(c)' = Freed(c) + SoldBy(k, c)
  <2>1. SumFunctionOnSet(f, given \cup {k}) = SumFunctionOnSet(f, given) + f[k]
    BY <1>1, SumAdd
  <2>2. QED
    BY <1>1, <1>2, <1>4, <2>1
<1>5. QED
  BY <1>3, <1>4

WFresh == WTypes /\ FreshInv /\ given \subseteq booked

LEMMA CancelledWereSold == WFresh => given \subseteq Confirmers
BY DEF WFresh, FreshInv, Inv, SInv, Sales

\* A booking is not undone by a step of a request.
LEMMA BookedStays ==
    ASSUME [Next]_vars PROVE booked \subseteq booked'
<1>1. ASSUME NEW r \in Requests, RequestStep(r) PROVE booked \subseteq booked'
  BY <1>1, OnlyCommits DEF Commit, db
<1>2. CASE Forget \/ Tick \/ Terminating \/ UNCHANGED vars
  BY <1>2 DEF Forget, Tick, Terminating, vars, db
<1>3. QED
  BY <1>1, <1>2 DEF Next, RequestStep

LEMMA StepWFresh ==
    NothingLapses /\ RetriesWait /\ WFresh /\ [WaitlistNext]_waitlistVars => WFresh'
<1> SUFFICES ASSUME NothingLapses, RetriesWait, WFresh, [WaitlistNext]_waitlistVars
             PROVE  WFresh'
  OBVIOUS
<1> USE DEF WFresh
<1>1. WTypes' /\ TInv'
  BY StepWTypes DEF WTypes
<1>2. FreshInv'
  BY <1>1, Kinship, StepFreshInv, PassFresh, CancelFresh
<1>3. given' \subseteq booked'
  BY Kinship, BookedStays DEF CancelSale, Passes, db
<1>4. QED
  BY <1>1, <1>2, <1>3

\* A step keeps what is free, held or sold and not cancelled, cabin by cabin.
LEMMA StepTakesFree ==
    ASSUME NothingLapses, RetriesWait, WFresh, [WaitlistNext]_waitlistVars, NEW c \in Cabins
    PROVE  /\ Balance(c)' - Freed(c)' = Balance(c) - Freed(c)
           /\ Balance(c) \in Int /\ Freed(c) \in Int
<1> USE DEF WFresh
<1>1. TInv' /\ Inv /\ Lasting /\ Current /\ TInv
  BY StepWTypes DEF WTypes, FreshInv
<1>2. Freed(c) \in Int /\ (given' = given => Freed(c)' = Freed(c))
  BY FreedAdds, CancelledWereSold DEF Freed
<1>3. Balance(c) \in Int
  BY <1>1, BalanceType DEF BalancesAreInt
<1>4. CASE [Next]_vars /\ given' = given
  BY <1>1, <1>2, <1>4, StepBalance
<1>5. CASE given' = given /\ \E r \in Requests, l \in {"commit", "rolled_back"} : Passes(r, l)
  <2>1. UNCHANGED <<seats, status, booked>>
    BY <1>5 DEF Passes, db
  <2>2. Balance(c)' = Balance(c)
    BY <2>1 DEF Balance, Held, Sold
  <2>3. QED
    BY <1>2, <1>3, <1>5, <2>2
<1>6. ASSUME NEW k \in Confirmers, CancelSale(k)
      PROVE  Balance(c)' - Freed(c)' = Balance(c) - Freed(c)
  <2>1. /\ UNCHANGED <<status, booked>> /\ k \notin given /\ given' = given \cup {k}
        /\ seats'[c] = seats[c] + SoldBy(k, c)
    BY <1>6 DEF CancelSale
  <2>2. Held(c)' = Held(c) /\ Sold(c)' = Sold(c)
    BY <2>1 DEF Held, Sold
  <2>3. seats[c] \in Int /\ Held(c) \in Int /\ Sold(c) \in Int /\ SoldBy(k, c) \in Int
    BY <1>1, HeldAdds, SoldTypes, SoldAdds DEF HeldIsSum, TInv, Types
  <2>4. Freed(c)' = Freed(c) + SoldBy(k, c)
    BY <2>1, FreedAdds, CancelledWereSold
  <2>5. Balance(c)' = Balance(c) + SoldBy(k, c)
    BY <2>1, <2>2, <2>3 DEF Balance
  <2>6. QED
    BY <1>2, <1>3, <2>3, <2>4, <2>5
<1>7. QED
  BY <1>2, <1>3, <1>4, <1>5, <1>6, Kinship

EachOnce == \A c \in Cabins : Balance(c) - Freed(c) = Total[c]

LEMMA TakesFree == WFresh => (PromotionsTakeFreeSeats <=> EachOnce)
<1> SUFFICES ASSUME WFresh, NEW c \in Cabins
             PROVE  seats[c] + Held(c) + Sold(c) - Freed(c) = Balance(c) - Freed(c)
  BY DEF PromotionsTakeFreeSeats, EachOnce
<1>1. seats[c] \in Int /\ Held(c) \in Int /\ Sold(c) \in Int /\ Freed(c) \in Int
  BY HeldAdds, SoldTypes, FreedAdds, CancelledWereSold DEF HeldIsSum, WFresh, WTypes, TInv, Types
<1>2. QED
  BY <1>1 DEF Balance

LEMMA InitTakesFree == WaitlistInit => WFresh /\ EachOnce
<1> SUFFICES ASSUME WaitlistInit PROVE WFresh /\ EachOnce
  OBVIOUS
<1>1. Init /\ given = {}
  BY DEF WaitlistInit
<1>2. WFresh
  BY <1>1, InitWTypes, InitInv DEF WFresh
<1>3. ASSUME NEW c \in Cabins PROVE Balance(c) - Freed(c) = Total[c]
  <2>1. Freed(c) = 0
    BY <1>1, SumEmpty DEF Freed
  <2>2. Balance(c) = Total[c] /\ Balance(c) \in Int
    BY <1>1, InitBalance
  <2>3. QED
    BY <2>1, <2>2
<1>4. QED
  BY <1>2, <1>3 DEF EachOnce

\* README "Promotion calls the exact same hold_seats path as a normal booking":
\* whatever joins, promotions, bookings and cancellations race for the seats of
\* a cabin, each seat is free, held or sold, exactly once, for clients that wait
\* for the answer to a confirmation, and as long as no hold lapses.
THEOREM PromotionsTakeSeatsOnce ==
    ASSUME NothingLapses, RetriesWait PROVE WaitlistSpec => []PromotionsTakeFreeSeats
<1>1. WFresh /\ EachOnce /\ [WaitlistNext]_waitlistVars => EachOnce'
  BY StepTakesFree DEF EachOnce
<1>2. QED
  BY <1>1, InitTakesFree, StepWFresh, TakesFree, PTL DEF WaitlistSpec


-----------------------------------------------------------------------------
(* The waitlist implements SeatInventory *)

FreedFromSold == \A c \in Cabins : Freed(c) \in Nat /\ Freed(c) <= Sold(c)

LEMMA FreedWasSold == WFresh => FreedFromSold
<1> SUFFICES ASSUME WFresh, NEW c \in Cabins PROVE Freed(c) \in Nat /\ Freed(c) <= Sold(c)
  BY DEF FreedFromSold
<1> DEFINE f == [k \in Confirmers |-> SoldBy(k, c)]
           g == [k \in booked |-> IF k \in given THEN f[k] ELSE 0]
<1>1. /\ IsFiniteSet(booked) /\ given \in SUBSET booked
      /\ \A k \in booked : f[k] \in Nat /\ g[k] = IF k \in given THEN f[k] ELSE 0
  BY RequestsAssumption, FS_Subset, SoldAdds DEF WFresh, WTypes, TInv, Types
<1>2. Freed(c) = SumFunctionOnSet(f, given) /\ Sold(c) = SumFunctionOnSet(f, booked)
  BY DEF Freed, Sold
<1> HIDE DEF f, g
<1>3. \A k \in booked : f[k] \in Int /\ g[k] \in Nat /\ g[k] \in Int /\ g[k] <= f[k]
  BY <1>1
<1>4. SumFunctionOnSet(f, given) = SumFunctionOnSet(g, booked)
  BY <1>1, <1>3, SumOnSubset
<1>5. SumFunctionOnSet(g, booked) \in Nat
  BY <1>1, <1>3, SumNat
<1>6. SumFunctionOnSet(g, booked) <= SumFunctionOnSet(f, booked)
  BY <1>1, <1>3, SumAtMost
<1>7. QED
  BY <1>2, <1>4, <1>5, <1>6

LEMMA StepWStock ==
    ASSUME WFresh, Stock, [WaitlistNext]_waitlistVars PROVE Stock'
<1>1. TInv
  BY DEF WFresh, WTypes
<1>2. CASE [Next]_vars
  BY <1>1, <1>2, StepStock
<1>3. ASSUME NEW r \in Requests, NEW l, Passes(r, l) PROVE Stock'
  BY <1>3 DEF Passes, db, Stock
<1>4. ASSUME NEW k \in Confirmers, CancelSale(k) PROVE Stock'
  <2>1. dSeats' = dSeats /\ \A c \in Cabins : seats'[c] = seats[c] + SoldBy(k, c)
    BY <1>4 DEF CancelSale
  <2>2. \A c \in Cabins : seats[c] \in Int /\ SoldBy(k, c) \in Nat
    BY <1>1, SoldAdds DEF TInv, Types
  <2>3. QED
    BY <2>1, <2>2 DEF Stock
<1>5. QED
  BY <1>2, <1>3, <1>4, Kinship DEF WFresh

\* What a step sells, cancelled sales taken off, was held.
LEMMA StepSellsHeld ==
    ASSUME WFresh, WFresh', [WaitlistNext]_waitlistVars, NEW c \in Cabins
    PROVE  Sold(c)' - Freed(c)' > Sold(c) - Freed(c) =>
             Held(c) - Held(c)' >= (Sold(c)' - Freed(c)') - (Sold(c) - Freed(c))
<1>1. TInv /\ TInv' /\ WTypes /\ Inv /\ Lasting /\ Current
  BY DEF WFresh, WTypes, FreshInv
<1>2. /\ Held(c) \in Nat /\ Held(c)' \in Nat /\ Sold(c) \in Nat /\ Sold(c)' \in Nat
      /\ Freed(c) \in Nat /\ Freed(c)' \in Nat
  <2>1. FreedFromSold /\ FreedFromSold'
    BY FreedWasSold, PTL
  <2>2. QED
    BY <1>1, <2>1, CountTypes DEF FreedFromSold
<1>3. given' = given => Freed(c)' = Freed(c)
  BY DEF Freed
<1>4. CASE [Next]_vars /\ given' = given
  <2>1. Sold(c)' # Sold(c) => Held(c) - Held(c)' = Sold(c)' - Sold(c)
    BY <1>1, <1>4, SeatsMove
  <2>2. QED
    BY <1>2, <1>3, <1>4, <2>1
<1>5. ASSUME given' = given, NEW r \in Requests, NEW l, Passes(r, l)
      PROVE  Sold(c)' - Freed(c)' = Sold(c) - Freed(c)
  BY <1>3, <1>5 DEF Passes, db, Sold
<1>6. ASSUME NEW k \in Confirmers, CancelSale(k)
      PROVE  Sold(c)' = Sold(c) /\ Freed(c)' >= Freed(c)
  <2>1. UNCHANGED booked /\ k \notin given /\ given' = given \cup {k}
    BY <1>6 DEF CancelSale
  <2>2. Freed(c)' = Freed(c) + SoldBy(k, c) /\ SoldBy(k, c) \in Nat
    BY <2>1, FreedAdds, CancelledWereSold, SoldAdds
  <2>3. QED
    BY <1>2, <2>1, <2>2 DEF Sold
<1>7. QED
  BY <1>1, <1>2, <1>4, <1>5, <1>6, Kinship

LEMMA StocksStep ==
    NothingLapses /\ RetriesWait /\ WFresh /\ WFresh' /\ Stock' /\ [WaitlistNext]_waitlistVars
        => Stocks!Move
<1> SUFFICES ASSUME NothingLapses, RetriesWait, WFresh, WFresh', Stock',
                    [WaitlistNext]_waitlistVars
             PROVE  Stocks!Move
  OBVIOUS
<1> DEFINE H == [c \in Cabins |-> Held(c)]
           N == [c \in Cabins |-> Sold(c) - Freed(c)]
<1>1. TInv /\ TInv' /\ FreedFromSold /\ FreedFromSold'
  BY FreedWasSold, PTL DEF WFresh, WTypes
<1>2. \A c \in Cabins :
        /\ H[c] = Held(c) /\ H'[c] = Held(c)'
        /\ N[c] = Sold(c) - Freed(c) /\ N'[c] = Sold(c)' - Freed(c)'
  OBVIOUS
<1>3. \A c \in Cabins :
        /\ Held(c) \in Nat /\ Held(c)' \in Nat /\ Sold(c) \in Nat /\ Sold(c)' \in Nat
        /\ Freed(c) \in Nat /\ Freed(c)' \in Nat /\ Freed(c) <= Sold(c) /\ Freed(c)' <= Sold(c)'
        /\ seats[c] \in Int /\ seats'[c] \in Int
  BY <1>1, CountTypes DEF FreedFromSold, TInv, Types
<1>4. seats' \in [Cabins -> Nat] /\ H' \in [Cabins -> Nat] /\ N' \in [Cabins -> Nat]
  BY <1>1, <1>3 DEF Stock, TInv, Types
<1>5. ASSUME NEW c \in Cabins
      PROVE  /\ seats'[c] + H'[c] + N'[c] = seats[c] + H[c] + N[c]
             /\ N'[c] > N[c] => H[c] - H'[c] >= N'[c] - N[c]
  <2>1. Balance(c)' - Freed(c)' = Balance(c) - Freed(c)
    BY StepTakesFree
  <2>2. /\ Balance(c)' = seats'[c] + Held(c)' + Sold(c)'
        /\ Balance(c) = seats[c] + Held(c) + Sold(c)
    BY DEF Balance
  <2>3. Sold(c)' - Freed(c)' > Sold(c) - Freed(c) =>
             Held(c) - Held(c)' >= (Sold(c)' - Freed(c)') - (Sold(c) - Freed(c))
    BY StepSellsHeld
  <2> HIDE DEF H, N
  <2>4. QED
    BY <1>2, <1>3, <2>1, <2>2, <2>3
<1>6. QED
  BY <1>4, <1>5 DEF Stocks!Move, Stocks!MayMove, Stocks!Counts

\* README "Promotion calls the exact same hold_seats path as a normal booking":
\* with joins, promotions and cancellations among the requests, seats move as
\* SeatInventory says: no seat is taken that was not free, not even a seat that
\* was sold before, and only seats that were held are sold.  That is for clients
\* that wait for the answer to a confirmation, for cabins that can hold what was
\* held before, and as long as no hold lapses: without these it is not so, as
\* for RequestsMoveSeats.
THEOREM WaitlistMovesSeats ==
    ASSUME NothingLapses, RetriesWait, StartsInStock PROVE WaitlistSpec => StocksMove
<1>1. WaitlistInit => WFresh /\ Stock
  BY InitTakesFree, InitStock DEF WaitlistInit
<1>2. WFresh /\ Stock /\ [WaitlistNext]_waitlistVars => WFresh' /\ Stock'
  BY StepWFresh, StepWStock
<1>3. QED
  BY <1>1, <1>2, StocksStep, PTL DEF WaitlistSpec, StocksMove

=============================================================================
