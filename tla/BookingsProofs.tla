--------------------------- MODULE BookingsProofs ---------------------------
(***************************************************************************)
(* Proofs about Bookings, for every catalogue, every set of groups and     *)
(* itineraries, all times and thresholds: what the rules guarantee about   *)
(* bookings, refunds and seats, and that they implement SeatInventory.     *)
(***************************************************************************)
EXTENDS Bookings, RowsAndSums, TLAPS

Leg == [fare : Fares, quantity : Nat \ {0}]
Holds == {"active", "expired", "released", "none", "converted"}
Flight ==
    [status : {"scheduled", "delayed", "cancelled"}, departure : Nat, original : Nat \cup {NoTime}]
Item == [status : {"confirmed", "cancelled"}, override : BOOLEAN, reason : Reasons \cup {"none"}]
Refund == [type : {"refund", "travel_credit"}, status : {"processed", "pending_approval"}]

(* The inductive invariant *)

IsGroup(row) == row.legs \in Itineraries /\ row.hold \in [DOMAIN row.legs -> Holds]

Times == now \in 0 .. MaxTime /\ flight \in [Flights -> Flight]

GroupRows ==
    /\ IsFiniteSet(DOMAIN group) /\ DOMAIN group \subseteq Groups
    /\ \A g \in DOMAIN group : IsGroup(group[g])

\* A booking costs what its items cost.
BookingRows ==
    /\ DOMAIN booking \subseteq DOMAIN group
    /\ \A g \in DOMAIN booking : booking[g].total = TotalPrice(g)

\* An item has a reason exactly when it is cancelled.
ItemRows ==
    /\ DOMAIN item = UNION {Items(g) : g \in DOMAIN booking} /\ DOMAIN refund = DOMAIN item
    /\ \A x \in DOMAIN item :
        /\ item[x] \in Item /\ refund[x] \in Seq(Refund)
        /\ item[x].status = "confirmed" <=> item[x].reason = "none"

IInv == Times /\ GroupRows /\ BookingRows /\ ItemRows
            /\ SoldAsAWhole /\ StatusFollowsItems /\ SettledOnce

-----------------------------------------------------------------------------
(* Itineraries, groups and items *)

LEMMA LegsType ==
    ASSUME NEW legs \in Itineraries
    PROVE  /\ legs \in Seq(Leg) /\ Len(legs) \in Nat /\ 1 <= Len(legs)
           /\ DOMAIN legs = 1 .. Len(legs) /\ 1 \in DOMAIN legs
           /\ \A i \in DOMAIN legs :
                /\ legs[i].fare \in Fares /\ legs[i].quantity \in Nat \ {0}
                /\ LegClass(legs, i) \in SeatClasses
           /\ IsFiniteSet(DOMAIN legs)
<1>1. legs \in Seq(Leg) /\ legs # <<>>
    BY ItinerariesAssumption DEF Leg
<1>2. Len(legs) \in Nat /\ 1 <= Len(legs) /\ DOMAIN legs = 1 .. Len(legs)
    BY <1>1
<1>3. \A i \in DOMAIN legs : legs[i] \in Leg
    BY <1>1, <1>2
<1>4. IsFiniteSet(1 .. Len(legs))
    BY <1>2, FS_Interval
<1> QED
    BY <1>1, <1>2, <1>3, <1>4, CatalogueAssumption DEF Leg, LegClass

LEMMA ItemIs ==
    ASSUME NEW g, NEW x \in Items(g)
    PROVE  x[1] = g /\ x[2] \in DOMAIN Legs(g)
BY DEF Items

LEMMA ItemFare ==
    ASSUME NEW g, IsGroup(group[g]), NEW x \in Items(g)
    PROVE  /\ FareOf(x) \in Fares /\ Price[FareOf(x)] \in Nat /\ FareOf(x) = Legs(g)[x[2]].fare
           /\ ItemClass(x) \in SeatClasses /\ ItemFlight(x) \in Flights
BY ItemIs, LegsType, CatalogueAssumption DEF IsGroup, FareOf, Legs, ItemClass, ItemFlight

LEMMA ItemsExist ==
    ASSUME NEW g, IsGroup(group[g])
    PROVE  Items(g) # {} /\ IsFiniteSet(Items(g))
<1> DEFINE legs == Legs(g)
           Of(i) == {<<g, i, k>> : k \in 1 .. legs[i].quantity}
<1>1. /\ 1 \in DOMAIN legs /\ IsFiniteSet(DOMAIN legs)
      /\ \A i \in DOMAIN legs : legs[i].quantity \in Nat \ {0}
    BY LegsType DEF IsGroup, Legs
<1>2. <<g, 1, 1>> \in Of(1)
    BY <1>1
<1>3. ASSUME NEW i \in DOMAIN legs PROVE IsFiniteSet(Of(i))
  <2>1. IsFiniteSet(1 .. legs[i].quantity)
    BY <1>1, FS_Interval
  <2> DEFINE f == [k \in 1 .. legs[i].quantity |-> <<g, i, k>>]
  <2>2. f \in Surjection(1 .. legs[i].quantity, Of(i))
    BY DEF Surjection
  <2> HIDE DEF f, Of
  <2> QED
    BY <2>1, <2>2, FS_Surjection
<1> DEFINE all == {Of(i) : i \in DOMAIN legs}
<1>4. IsFiniteSet(all)
  <2> DEFINE f == [i \in DOMAIN legs |-> Of(i)]
  <2>1. f \in Surjection(DOMAIN legs, all)
    BY DEF Surjection
  <2> HIDE DEF f, all
  <2> QED
    BY <1>1, <2>1, FS_Surjection
<1>5. IsFiniteSet(UNION all)
  <2>1. \A T \in all : IsFiniteSet(T)
    BY <1>3
  <2> HIDE DEF all
  <2> QED
    BY <1>4, <2>1, FS_UNION
<1>6. IsFiniteSet(Items(g))
    BY <1>5 DEF Items
<1>7. <<g, 1, 1>> \in Items(g)
    BY <1>1, <1>2 DEF Items
<1> QED
    BY <1>6, <1>7

\* Expiring stale holds changes some active holds to expired, nothing else.
LEMMA GroupsAfterIs ==
    ASSUME GroupRows, NEW cs, NEW g \in DOMAIN group
    PROVE  /\ g \in DOMAIN GroupsAfter(cs) /\ IsGroup(GroupsAfter(cs)[g])
           /\ GroupsAfter(cs)[g].legs = Legs(g)
           /\ \A i \in DOMAIN Legs(g) :
                GroupsAfter(cs)[g].hold[i] =
                    IF IsStale(g, i) /\ LegClass(Legs(g), i) \in cs THEN "expired" ELSE group[g].hold[i]
<1>1. GroupsAfter(cs)[g] = WithHold(group[g], HoldsAfter(g, cs)) /\ g \in DOMAIN GroupsAfter(cs)
    BY DEF GroupsAfter
<1>2. /\ GroupsAfter(cs)[g].legs = Legs(g) /\ GroupsAfter(cs)[g].hold = HoldsAfter(g, cs)
    BY <1>1 DEF WithHold, Legs
<1>3. HoldsAfter(g, cs) \in [DOMAIN Legs(g) -> Holds]
    BY DEF HoldsAfter, Holds, GroupRows, IsGroup, Legs
<1>4. \A i \in DOMAIN Legs(g) : HoldsAfter(g, cs)[i] =
        IF IsStale(g, i) /\ LegClass(Legs(g), i) \in cs THEN "expired" ELSE group[g].hold[i]
    BY DEF HoldsAfter
<1>5. Legs(g) \in Itineraries
    BY DEF GroupRows, IsGroup, Legs
<1> QED
    BY <1>1, <1>2, <1>3, <1>4, <1>5 DEF IsGroup

\* What depends on the legs of groups stays while their legs stay.
LEMMA LegsStay ==
    ASSUME NEW g, g \in DOMAIN group, group'[g].legs = group[g].legs
    PROVE  /\ Legs(g)' = Legs(g) /\ Items(g)' = Items(g) /\ TotalPrice(g)' = TotalPrice(g)
           /\ \A x \in Items(g) :
                FareOf(x)' = FareOf(x) /\ ItemClass(x)' = ItemClass(x) /\ ItemFlight(x)' = ItemFlight(x)
<1>1. Legs(g)' = Legs(g)
    BY DEF Legs
<1>2. Items(g)' = Items(g)
    BY <1>1 DEF Items
<1>3. \A x \in Items(g) : FareOf(x)' = FareOf(x)
    BY <1>1, ItemIs DEF FareOf
<1>4. [x \in Items(g)' |-> Price[FareOf(x)']] = [x \in Items(g) |-> Price[FareOf(x)]]
    BY <1>2, <1>3
<1> QED
    BY <1>1, <1>2, <1>3, <1>4 DEF TotalPrice, ItemClass, ItemFlight

-----------------------------------------------------------------------------
(* The invariant at the start *)

LEMMA InitIInv == Init => IInv
<1> SUFFICES ASSUME Init PROVE IInv
    OBVIOUS
<1> USE DEF Init, Nothing
<1>1. Times
    BY PolicyAssumption, CatalogueAssumption DEF Times, Flight, NoTime
<1>2. GroupRows
    BY FS_EmptySet DEF GroupRows
<1>3. BookingRows /\ ItemRows
    BY DEF BookingRows, ItemRows
<1>4. SoldAsAWhole /\ StatusFollowsItems /\ SettledOnce
    BY DEF SoldAsAWhole, StatusFollowsItems, SettledOnce
<1> QED
    BY <1>1, <1>2, <1>3, <1>4 DEF IInv

-----------------------------------------------------------------------------
(* Steps that leave bookings and items alone *)

\* Groups appear and change, the legs of those that are there stay, and none
\* becomes or ceases to be sold.
LEMMA GroupsStep ==
    ASSUME IInv, Times', GroupRows', UNCHANGED <<booking, item, refund>>,
           \A g \in DOMAIN group :
                /\ g \in DOMAIN group' /\ group'[g].legs = group[g].legs
                /\ \A i \in DOMAIN Legs(g) :
                        group'[g].hold[i] = "converted" <=> group[g].hold[i] = "converted",
           \A g \in DOMAIN group' \ DOMAIN group :
                \A i \in DOMAIN group'[g].legs : group'[g].hold[i] # "converted"
    PROVE  IInv'
<1> USE DEF IInv
<1>1. \A g \in DOMAIN booking : g \in DOMAIN group
    BY DEF BookingRows
<1>2. \A g \in DOMAIN group : /\ Legs(g)' = Legs(g) /\ Items(g)' = Items(g) /\ TotalPrice(g)' = TotalPrice(g)
                              /\ \A x \in Items(g) : FareOf(x)' = FareOf(x)
    BY LegsStay
<1>3. BookingRows'
    BY <1>1, <1>2 DEF BookingRows
<1>4. {Items(g)' : g \in DOMAIN booking} = {Items(g) : g \in DOMAIN booking}
    BY <1>1, <1>2
<1>5. ItemRows'
    BY <1>4 DEF ItemRows
<1>6. SoldAsAWhole'
    BY <1>1, <1>2 DEF SoldAsAWhole, Legs
<1>7. StatusFollowsItems'
    BY <1>1, <1>2 DEF StatusFollowsItems, StatusFrom
<1>8. SettledOnce'
  <2>1. \A x \in DOMAIN item : FareOf(x)' = FareOf(x)
    BY <1>1, <1>2 DEF ItemRows
  <2> QED
    BY <2>1 DEF SettledOnce
<1> QED
    BY <1>3, <1>5, <1>6, <1>7, <1>8

\* What a hold request leaves: stale holds expired and one group more.
LEMMA NewGroupsStep ==
    ASSUME IInv, NEW cs, NEW new, group' = Over(new, GroupsAfter(cs)),
           IsFiniteSet(DOMAIN new), DOMAIN new \subseteq Groups, DOMAIN new \cap DOMAIN group = {},
           \A g \in DOMAIN new : IsGroup(new[g])
                /\ \A i \in DOMAIN new[g].legs : new[g].hold[i] # "converted",
           UNCHANGED <<now, flight, booking, item, refund>>
    PROVE  IInv'
<1> DEFINE old == GroupsAfter(cs)
<1>1. /\ DOMAIN Over(new, old) = DOMAIN new \cup DOMAIN old
      /\ \A g \in DOMAIN new : Over(new, old)[g] = new[g]
      /\ \A g \in DOMAIN old \ DOMAIN new : Over(new, old)[g] = old[g]
  <2> HIDE DEF old
  <2> QED
    BY DEF Over
<1>2. DOMAIN old = DOMAIN group
    BY DEF GroupsAfter
<1>3. /\ DOMAIN group' = DOMAIN new \cup DOMAIN group
      /\ \A g \in DOMAIN new : group'[g] = new[g]
      /\ \A g \in DOMAIN group : group'[g] = old[g]
    BY <1>1, <1>2
<1>4. \A g \in DOMAIN group :
        /\ IsGroup(old[g]) /\ old[g].legs = Legs(g)
        /\ \A i \in DOMAIN Legs(g) : old[g].hold[i] =
            IF IsStale(g, i) /\ LegClass(Legs(g), i) \in cs THEN "expired" ELSE group[g].hold[i]
    BY GroupsAfterIs DEF IInv
<1> HIDE DEF old
<1>5. IsFiniteSet(DOMAIN group')
  <2>1. IsFiniteSet(DOMAIN new \cup DOMAIN group)
    BY FS_Union DEF IInv, GroupRows
  <2> QED
    BY <1>3, <2>1
<1>6. GroupRows'
  <2>1. \A g \in DOMAIN group' : IsGroup(group'[g])
    BY <1>3, <1>4
  <2>2. \A g \in DOMAIN group' : IsGroup(group[g])'
    BY <2>1 DEF IsGroup
  <2> QED
    BY <1>3, <1>5, <2>2 DEF IInv, GroupRows
<1>7. Times'
    BY DEF IInv, Times
<1>8. \A g \in DOMAIN group :
        /\ g \in DOMAIN group' /\ group'[g].legs = group[g].legs
        /\ \A i \in DOMAIN Legs(g) :
                group'[g].hold[i] = "converted" <=> group[g].hold[i] = "converted"
  <2> TAKE g \in DOMAIN group
  <2>1. \A i \in DOMAIN Legs(g) : IsStale(g, i) => group[g].hold[i] = "active"
    BY DEF IsStale
  <2> QED
    BY <1>3, <1>4, <2>1 DEF Legs
<1>9. \A g \in DOMAIN group' \ DOMAIN group :
        \A i \in DOMAIN group'[g].legs : group'[g].hold[i] # "converted"
    BY <1>3
<1> QED
    BY <1>6, <1>7, <1>8, <1>9, GroupsStep

LEMMA HoldStep ==
    ASSUME IInv, NEW g \in Groups, NEW legs \in Itineraries, Hold(g, legs)
    PROVE  IInv'
<1> DEFINE cs == {LegClass(legs, i) : i \in DOMAIN legs}
<1>1. PICK late \in 0 .. Min({Len(legs) - 1, MaxTime - now}) :
        group' = Over([h \in {g} |-> NewGroup(legs, [i \in DOMAIN legs |-> "active"], late)],
                      GroupsAfter(cs))
    BY DEF Hold
<1> DEFINE row == NewGroup(legs, [i \in DOMAIN legs |-> "active"], late)
           new == [h \in {g} |-> row]
<1>2. IsGroup(row) /\ \A i \in DOMAIN row.legs : row.hold[i] # "converted"
    BY DEF IsGroup, NewGroup, Holds
<1> HIDE DEF row
<1>3. IsFiniteSet(DOMAIN new) /\ DOMAIN new \subseteq Groups /\ DOMAIN new \cap DOMAIN group = {}
    BY FS_Singleton DEF Hold
<1>4. \A h \in DOMAIN new : IsGroup(new[h])
        /\ \A i \in DOMAIN new[h].legs : new[h].hold[i] # "converted"
    BY <1>2
<1>5. UNCHANGED <<now, flight, booking, item, refund>>
    BY DEF Hold
<1>6. group' = Over(new, GroupsAfter(cs))
    BY <1>1 DEF row
<1> HIDE DEF new, cs
<1> QED
    BY <1>3, <1>4, <1>5, <1>6, NewGroupsStep

LEMMA RefuseHoldStep ==
    ASSUME IInv, NEW g \in Groups, NEW legs \in Itineraries, RefuseHold(g, legs)
    PROVE  IInv'
<1> DEFINE first == Min({i \in DOMAIN legs : ~Holdable(legs, i)})
           cs == {LegClass(legs, i) : i \in 1 .. first - 1}
                    \cup ({LegClass(legs, first)} \cap {c \in SeatClasses : IsOpen(c)})
           released == [i \in DOMAIN legs |-> IF i < first THEN "released" ELSE "none"]
           row == NewGroup(legs, released, 0)
           new == IF first = 1 THEN Nothing ELSE [h \in {g} |-> row]
<1>1. group' = Over(new, GroupsAfter(cs)) /\ g \notin DOMAIN group
    BY DEF RefuseHold
<1> HIDE DEF first, cs
<1>2. IsGroup(row) /\ \A i \in DOMAIN row.legs : row.hold[i] # "converted"
    BY DEF IsGroup, NewGroup, Holds
<1> HIDE DEF row
<1>3. DOMAIN new \subseteq {g}
    BY DEF Nothing
<1>4. IsFiniteSet(DOMAIN new)
    BY <1>3, FS_Singleton, FS_Subset
<1>5. \A h \in DOMAIN new : IsGroup(new[h])
        /\ \A i \in DOMAIN new[h].legs : new[h].hold[i] # "converted"
    BY <1>2 DEF Nothing
<1>6. UNCHANGED <<now, flight, booking, item, refund>>
    BY DEF RefuseHold
<1> HIDE DEF new
<1> QED
    BY <1>1, <1>3, <1>4, <1>5, <1>6, NewGroupsStep

\* Steps that leave groups, bookings and items alone.
LEMMA QuietStep ==
    ASSUME IInv, Times', UNCHANGED <<group, booking, item, refund>>
    PROVE  IInv'
<1>1. GroupRows'
    BY DEF IInv, GroupRows, IsGroup
<1> QED
    BY <1>1, GroupsStep DEF IInv

LEMMA TickStep == ASSUME IInv, Tick PROVE IInv'
<1>1. Times'
    BY PolicyAssumption DEF IInv, Times, Tick
<1> QED
    BY <1>1, QuietStep DEF Tick

LEMMA ResolveDelayStep == ASSUME IInv, NEW f \in Flights, ResolveDelay(f) PROVE IInv'
<1>1. Times'
    BY DEF IInv, Times, ResolveDelay, Flight
<1> QED
    BY <1>1, QuietStep DEF ResolveDelay

-----------------------------------------------------------------------------
(* Steps that change bookings and items *)

\* A group that can be confirmed has no booking yet.
LEMMA LiveIsUnsold ==
    ASSUME IInv, NEW g \in DOMAIN group, AllLive(g)
    PROVE  g \notin DOMAIN booking
<1>1. 1 \in DOMAIN Legs(g)
    BY LegsType DEF IInv, GroupRows, IsGroup, Legs
<1> QED
    BY <1>1 DEF AllLive, IInv, SoldAsAWhole

\* What confirm_booking writes.
LEMMA ConfirmWrites ==
    ASSUME IInv, NEW g \in Groups, Confirm(g)
    PROVE  /\ g \in DOMAIN group /\ g \notin DOMAIN booking /\ DOMAIN group' = DOMAIN group
           /\ \A h \in DOMAIN group : IsGroup(group[h])' /\ group'[h].legs = group[h].legs
           /\ \A h \in DOMAIN group \ {g} : \A i \in DOMAIN Legs(h) :
                group'[h].hold[i] = "converted" <=> group[h].hold[i] = "converted"
           /\ \A i \in DOMAIN Legs(g) : group'[g].hold[i] = "converted"
           /\ DOMAIN booking' = DOMAIN booking \cup {g}
           /\ booking'[g] = [status |-> "confirmed", total |-> TotalPrice(g)]
           /\ \A h \in DOMAIN booking : booking'[h] = booking[h]
           /\ DOMAIN item' = DOMAIN item \cup Items(g) /\ DOMAIN refund' = DOMAIN refund \cup Items(g)
           /\ Items(g) \cap DOMAIN item = {}
           /\ \A x \in Items(g) :
                /\ item'[x] = [status |-> "confirmed", override |-> FALSE, reason |-> "none"]
                /\ refund'[x] = <<>>
           /\ \A x \in DOMAIN item : item'[x] = item[x] /\ refund'[x] = refund[x]
<1> DEFINE cs == {LegClass(Legs(g), i) : i \in DOMAIN Legs(g)}
           old == GroupsAfter(cs)
<1>1. /\ g \in DOMAIN group /\ AllLive(g)
      /\ group' = [old EXCEPT ![g] = WithHold(@, ConvertHolds(@.hold))]
    BY DEF Confirm
<1>2. g \notin DOMAIN booking
    BY <1>1, LiveIsUnsold
<1>3. DOMAIN old = DOMAIN group
    BY DEF GroupsAfter
<1>4. \A h \in DOMAIN group :
        /\ IsGroup(old[h]) /\ old[h].legs = Legs(h)
        /\ \A i \in DOMAIN Legs(h) : old[h].hold[i] =
            IF IsStale(h, i) /\ LegClass(Legs(h), i) \in cs THEN "expired" ELSE group[h].hold[i]
    BY GroupsAfterIs DEF IInv
<1> HIDE DEF old, cs
<1>5. /\ DOMAIN group' = DOMAIN group
      /\ \A h \in DOMAIN group \ {g} : group'[h] = old[h]
      /\ group'[g] = WithHold(old[g], ConvertHolds(old[g].hold))
    BY <1>1, <1>3
<1>6. /\ group'[g].legs = Legs(g) /\ group'[g].hold = ConvertHolds(old[g].hold)
    BY <1>1, <1>4, <1>5 DEF WithHold
<1>7. DOMAIN old[g].hold = DOMAIN Legs(g) /\ Legs(g) \in Itineraries
    BY <1>1, <1>4 DEF IsGroup
<1>8. \A i \in DOMAIN Legs(g) : old[g].hold[i] = "active"
    BY <1>1, <1>4 DEF AllLive
<1>9. group'[g].hold = [i \in DOMAIN Legs(g) |-> "converted"]
    BY <1>6, <1>7, <1>8 DEF ConvertHolds
<1>10. IsGroup(group'[g])
    BY <1>6, <1>7, <1>9 DEF IsGroup, Holds
<1>11. \A h \in DOMAIN group : IsGroup(group[h])' /\ group'[h].legs = group[h].legs
  <2> TAKE h \in DOMAIN group
  <2>1. IsGroup(group'[h]) /\ group'[h].legs = group[h].legs
    BY <1>4, <1>5, <1>6, <1>10 DEF Legs
  <2> QED
    BY <2>1 DEF IsGroup
<1>12. \A h \in DOMAIN group \ {g} : \A i \in DOMAIN Legs(h) :
        group'[h].hold[i] = "converted" <=> group[h].hold[i] = "converted"
    BY <1>4, <1>5 DEF IsStale
<1>13. /\ DOMAIN booking' = DOMAIN booking \cup {g}
       /\ booking'[g] = [status |-> "confirmed", total |-> TotalPrice(g)]
       /\ \A h \in DOMAIN booking : booking'[h] = booking[h]
    BY <1>2 DEF Confirm, Over
<1>14. Items(g) \cap DOMAIN item = {}
    BY <1>2, ItemIs DEF IInv, ItemRows
<1>15. /\ DOMAIN item' = DOMAIN item \cup Items(g) /\ DOMAIN refund' = DOMAIN refund \cup Items(g)
       /\ \A x \in Items(g) :
            /\ item'[x] = [status |-> "confirmed", override |-> FALSE, reason |-> "none"]
            /\ refund'[x] = <<>>
       /\ \A x \in DOMAIN item : item'[x] = item[x] /\ refund'[x] = refund[x]
    BY <1>14 DEF Confirm, Over, IInv, ItemRows
<1> QED
    BY <1>1, <1>2, <1>5, <1>9, <1>11, <1>12, <1>13, <1>14, <1>15

LEMMA ConfirmStep ==
    ASSUME IInv, NEW g \in Groups, Confirm(g)
    PROVE  IInv'
<1>1. /\ g \in DOMAIN group /\ g \notin DOMAIN booking /\ DOMAIN group' = DOMAIN group
      /\ \A h \in DOMAIN group : IsGroup(group[h])' /\ group'[h].legs = group[h].legs
      /\ \A h \in DOMAIN group \ {g} : \A i \in DOMAIN Legs(h) :
            group'[h].hold[i] = "converted" <=> group[h].hold[i] = "converted"
      /\ \A i \in DOMAIN Legs(g) : group'[g].hold[i] = "converted"
    BY ConfirmWrites
<1>2. /\ DOMAIN booking' = DOMAIN booking \cup {g}
      /\ booking'[g] = [status |-> "confirmed", total |-> TotalPrice(g)]
      /\ \A h \in DOMAIN booking : booking'[h] = booking[h]
    BY ConfirmWrites
<1>3. /\ DOMAIN item' = DOMAIN item \cup Items(g) /\ DOMAIN refund' = DOMAIN refund \cup Items(g)
      /\ \A x \in Items(g) :
            /\ item'[x] = [status |-> "confirmed", override |-> FALSE, reason |-> "none"]
            /\ refund'[x] = <<>>
      /\ \A x \in DOMAIN item : item'[x] = item[x] /\ refund'[x] = refund[x]
    BY ConfirmWrites
<1>4. \A h \in DOMAIN group :
        /\ Legs(h)' = Legs(h) /\ Items(h)' = Items(h) /\ TotalPrice(h)' = TotalPrice(h)
        /\ \A x \in Items(h) : FareOf(x)' = FareOf(x)
    BY <1>1, LegsStay
<1>5. DOMAIN booking \subseteq DOMAIN group
    BY DEF IInv, BookingRows
<1>6. Times' /\ GroupRows'
    BY <1>1 DEF Confirm, IInv, Times, GroupRows
<1>7. BookingRows'
    BY <1>1, <1>2, <1>4, <1>5 DEF IInv, BookingRows
<1>8. ItemRows'
  <2>1. UNION {Items(h)' : h \in DOMAIN booking'} = (UNION {Items(h) : h \in DOMAIN booking}) \cup Items(g)
    BY <1>1, <1>2, <1>4, <1>5
  <2>2. ASSUME NEW x \in DOMAIN item'
        PROVE  /\ item'[x] \in Item /\ refund'[x] \in Seq(Refund)
               /\ item'[x].status = "confirmed" <=> item'[x].reason = "none"
    <3>1. CASE x \in DOMAIN item
        BY <1>3, <3>1 DEF IInv, ItemRows
    <3>2. CASE x \in Items(g)
      <4>1. item'[x] = [status |-> "confirmed", override |-> FALSE, reason |-> "none"] /\ refund'[x] = <<>>
        BY <1>3, <3>2
      <4>2. item'[x] \in Item
        BY <4>1 DEF Item
      <4> QED
        BY <4>1, <4>2
    <3> QED
        BY <1>3, <3>1, <3>2
  <2> QED
    BY <1>3, <2>1, <2>2 DEF IInv, ItemRows
<1>9. SoldAsAWhole'
    BY <1>1, <1>2, <1>4 DEF IInv, SoldAsAWhole
<1>10. StatusFollowsItems'
  <2> SUFFICES ASSUME NEW h \in DOMAIN booking'
               PROVE  booking'[h].status = StatusFrom(h, item)'
    BY DEF StatusFollowsItems
  <2>1. CASE h = g
    <3>1. Items(g) # {}
        BY <1>1, ItemsExist DEF IInv, GroupRows
    <3> QED
        BY <1>1, <1>2, <1>3, <1>4, <2>1, <3>1 DEF StatusFrom
  <2>2. CASE h \in DOMAIN booking
    <3>1. \A x \in Items(h) : item'[x] = item[x]
        BY <1>3, <2>2 DEF IInv, ItemRows
    <3>2. Items(h)' = Items(h)
        BY <1>4, <1>5, <2>2
    <3> QED
        BY <1>2, <2>2, <3>1, <3>2 DEF StatusFrom, IInv, StatusFollowsItems
  <2> QED
    BY <1>2, <2>1, <2>2
<1>11. SettledOnce'
  <2> SUFFICES ASSUME NEW x \in DOMAIN item'
               PROVE  /\ Len(refund'[x]) <= 1
                      /\ item'[x].status = "confirmed" => refund'[x] = <<>>
                      /\ item'[x].reason \in Reasons \ {"customer"} => Len(refund'[x]) = 1
                      /\ item'[x].reason = "customer" =>
                            (refund'[x] # <<>> <=> FareOf(x)' \in Refundable \/ item'[x].override)
    BY DEF SettledOnce
  <2>1. CASE x \in Items(g)
    BY <1>3, <2>1 DEF Reasons
  <2>2. CASE x \in DOMAIN item
    <3>1. FareOf(x)' = FareOf(x)
        BY <1>4, <1>5, <2>2 DEF IInv, ItemRows
    <3> QED
        BY <1>3, <2>2, <3>1 DEF IInv, SettledOnce
  <2> QED
    BY <1>3, <2>1, <2>2
<1> QED
    BY <1>6, <1>7, <1>8, <1>9, <1>10, <1>11 DEF IInv

\* create_refund_for_item: at most one row, and when it is one.
LEMMA RefundRowsAre ==
    ASSUME NEW x, NEW reason \in Reasons
    PROVE  /\ RefundRows(x, reason) \in Seq(Refund) /\ Len(RefundRows(x, reason)) <= 1
           /\ reason # "customer" => Len(RefundRows(x, reason)) = 1
           /\ reason = "customer" =>
                (RefundRows(x, reason) # <<>> <=> FareOf(x) \in Refundable \/ item[x].override)
<1> DEFINE refunded == [type |-> "refund", status |-> "processed"]
           owed == [type |-> IF FareOf(x) \in Refundable THEN "refund" ELSE "travel_credit",
                    status |-> "pending_approval"]
<1>1. refunded \in Refund /\ owed \in Refund
    BY DEF Refund
<1>2. /\ reason # "customer" => RefundRows(x, reason) = <<owed>>
      /\ reason = "customer" /\ (FareOf(x) \in Refundable \/ item[x].override)
            => RefundRows(x, reason) = <<refunded>>
      /\ reason = "customer" /\ ~(FareOf(x) \in Refundable \/ item[x].override)
            => RefundRows(x, reason) = <<>>
    BY DEF RefundRows
<1> HIDE DEF refunded, owed
<1>3. /\ <<owed>> \in Seq(Refund) /\ Len(<<owed>>) = 1
      /\ <<refunded>> \in Seq(Refund) /\ Len(<<refunded>>) = 1 /\ <<refunded>> # <<>>
      /\ <<>> \in Seq(Refund) /\ Len(<<>>) = 0
    BY <1>1
<1>4. \/ RefundRows(x, reason) = <<>> \/ RefundRows(x, reason) = <<refunded>>
      \/ RefundRows(x, reason) = <<owed>>
    BY <1>2
<1>5. RefundRows(x, reason) \in Seq(Refund) /\ Len(RefundRows(x, reason)) <= 1
  <2>1. 0 <= 1 /\ 1 <= 1
    OBVIOUS
  <2> QED
    BY <1>3, <1>4, <2>1, Zenon
<1>6. reason # "customer" => Len(RefundRows(x, reason)) = 1
    BY <1>2, <1>3
<1>7. <<refunded>> # <<>>
    BY <1>3
<1>8. reason = "customer" =>
        (RefundRows(x, reason) # <<>> <=> FareOf(x) \in Refundable \/ item[x].override)
    BY <1>2, <1>7, Zenon
<1> QED
    BY <1>5, <1>6, <1>8

\* cancel_booking_item on confirmed items, whoever asked for it.
LEMMA CancelItemsStep ==
    ASSUME IInv, Times', NEW xs \in SUBSET Confirmed, NEW reason \in Reasons,
           CancelItems(xs, reason), UNCHANGED group
    PROVE  IInv'
<1> USE DEF IInv
<1>1. /\ DOMAIN item' = DOMAIN item /\ DOMAIN refund' = DOMAIN refund /\ DOMAIN booking' = DOMAIN booking
      /\ DOMAIN refund = DOMAIN item
    BY DEF CancelItems, ItemRows
<1>2. \A x \in DOMAIN item : item'[x] = IF x \in xs
        THEN [status |-> "cancelled", override |-> item[x].override, reason |-> reason] ELSE item[x]
    BY DEF CancelItems
<1>3. \A x \in DOMAIN item \ xs : refund'[x] = refund[x]
    BY <1>1 DEF CancelItems
<1>4. \A x \in xs : x \in DOMAIN item /\ item[x].status = "confirmed" /\ refund[x] = <<>>
    BY DEF Confirmed, SettledOnce
<1>5. \A x \in xs : refund'[x] = RefundRows(x, reason)
  <2> TAKE x \in xs
  <2>1. refund'[x] = refund[x] \o RefundRows(x, reason)
    BY <1>1, <1>4 DEF CancelItems
  <2>2. RefundRows(x, reason) \in Seq(Refund)
    BY RefundRowsAre
  <2>3. <<>> \o RefundRows(x, reason) = RefundRows(x, reason)
    BY <2>2
  <2> QED
    BY <1>4, <2>1, <2>3
<1>6. /\ \A g \in DOMAIN group : Items(g)' = Items(g) /\ TotalPrice(g)' = TotalPrice(g)
                                 /\ \A x \in Items(g) : FareOf(x)' = FareOf(x)
      /\ DOMAIN booking \subseteq DOMAIN group
    BY LegsStay DEF BookingRows
<1>7. \A x \in DOMAIN item : FareOf(x)' = FareOf(x)
    BY <1>6 DEF ItemRows
<1>8. GroupRows' /\ SoldAsAWhole'
    BY <1>1 DEF GroupRows, IsGroup, SoldAsAWhole, Legs
<1>9. BookingRows'
    BY <1>1, <1>6 DEF BookingRows, CancelItems
<1>10. ItemRows'
  <2>1. {Items(g)' : g \in DOMAIN booking} = {Items(g) : g \in DOMAIN booking}
    BY <1>6
  <2>2. ASSUME NEW x \in DOMAIN item
        PROVE  /\ item'[x] \in Item /\ refund'[x] \in Seq(Refund)
               /\ item'[x].status = "confirmed" <=> item'[x].reason = "none"
    <3>1. CASE x \in xs
      <4>1. item'[x] = [status |-> "cancelled", override |-> item[x].override, reason |-> reason]
        BY <1>2, <3>1
      <4>2. item[x].override \in BOOLEAN
        BY DEF ItemRows, Item
      <4>3. item'[x] \in Item /\ item'[x].status = "cancelled" /\ item'[x].reason # "none"
        BY <4>1, <4>2 DEF Item, Reasons
      <4>4. refund'[x] \in Seq(Refund)
        BY <1>5, <3>1, RefundRowsAre
      <4> QED
        BY <4>3, <4>4
    <3>2. CASE x \notin xs
        BY <1>2, <1>3, <3>2 DEF ItemRows
    <3> QED
        BY <3>1, <3>2
  <2> QED
    BY <1>1, <2>1, <2>2 DEF ItemRows
<1>11. StatusFollowsItems'
  <2> SUFFICES ASSUME NEW g \in DOMAIN booking
               PROVE  booking'[g].status = StatusFrom(g, item)'
    BY <1>1 DEF StatusFollowsItems
  <2>1. Items(g)' = Items(g)
    BY <1>6
  <2>2. StatusFrom(g, item)' = StatusFrom(g, item')
    BY <2>1 DEF StatusFrom
  <2>3. CASE g \in Parents(xs)
    BY <2>2, <2>3 DEF CancelItems
  <2>4. CASE g \notin Parents(xs)
    <3>1. \A x \in Items(g) : x \notin xs
        BY <2>4 DEF Parents
    <3>2. \A x \in Items(g) : item'[x] = item[x]
        BY <1>2, <3>1 DEF ItemRows
    <3>3. booking'[g] = booking[g]
        BY <2>4 DEF CancelItems
    <3> QED
        BY <2>1, <2>2, <3>2, <3>3 DEF StatusFrom, StatusFollowsItems
  <2> QED
    BY <2>3, <2>4
<1>12. SettledOnce'
  <2> SUFFICES ASSUME NEW x \in DOMAIN item
               PROVE  /\ Len(refund'[x]) <= 1
                      /\ item'[x].status = "confirmed" => refund'[x] = <<>>
                      /\ item'[x].reason \in Reasons \ {"customer"} => Len(refund'[x]) = 1
                      /\ item'[x].reason = "customer" =>
                            (refund'[x] # <<>> <=> FareOf(x)' \in Refundable \/ item'[x].override)
    BY <1>1 DEF SettledOnce
  <2>1. CASE x \in xs
    <3>1. item'[x] = [status |-> "cancelled", override |-> item[x].override, reason |-> reason]
        BY <1>2, <2>1
    <3>2. /\ item'[x].status = "cancelled" /\ item'[x].override = item[x].override
          /\ item'[x].reason = reason
        BY <3>1
    <3>3. refund'[x] = RefundRows(x, reason) /\ FareOf(x)' = FareOf(x)
        BY <1>5, <1>7, <2>1
    <3>4. Len(refund'[x]) <= 1 /\ (reason # "customer" => Len(refund'[x]) = 1)
        BY <3>3, RefundRowsAre
    <3>5. reason = "customer" =>
            (refund'[x] # <<>> <=> FareOf(x)' \in Refundable \/ item'[x].override)
        BY <3>2, <3>3, RefundRowsAre, Zenon
    <3> QED
        BY <3>2, <3>4, <3>5
  <2>2. CASE x \notin xs
    <3>1. item'[x] = item[x] /\ refund'[x] = refund[x] /\ FareOf(x)' = FareOf(x)
        BY <1>2, <1>3, <1>7, <2>2
    <3> QED
        BY <3>1 DEF SettledOnce
  <2> QED
    BY <2>1, <2>2
<1> QED
    BY <1>8, <1>9, <1>10, <1>11, <1>12

LEMMA CancelItemStep ==
    ASSUME IInv, NEW x \in DOMAIN item, NEW reason \in Reasons, CancelItem(x, reason)
    PROVE  IInv'
<1>1. {x} \in SUBSET Confirmed
    BY DEF CancelItem, Confirmed, IInv, ItemRows, Item
<1>2. Times'
    BY DEF CancelItem, IInv, Times
<1> QED
    BY <1>1, <1>2, CancelItemsStep DEF CancelItem

LEMMA CancelBookingStep ==
    ASSUME IInv, NEW g \in DOMAIN booking, NEW reason \in Reasons, CancelBooking(g, reason)
    PROVE  IInv'
<1>1. Times'
    BY DEF CancelBooking, IInv, Times
<1>2. Items(g) \cap Confirmed \in SUBSET Confirmed
    OBVIOUS
<1> QED
    BY <1>1, <1>2, CancelItemsStep DEF CancelBooking

LEMMA CancelFlightStep ==
    ASSUME IInv, NEW f \in Flights, CancelFlight(f)
    PROVE  IInv'
<1>1. Times'
    BY DEF CancelFlight, IInv, Times, Flight
<1>2. OnFlight(f) \in SUBSET Confirmed /\ "airline_cancellation" \in Reasons
    BY DEF OnFlight, Reasons
<1> QED
    BY <1>1, <1>2, CancelItemsStep DEF CancelFlight

\* Steps that change neither groups nor bookings: overrides of confirmed items
\* and approvals.
LEMMA RowsStep ==
    ASSUME IInv, Times', UNCHANGED <<group, booking>>,
           DOMAIN item' = DOMAIN item, DOMAIN refund' = DOMAIN refund,
           \A x \in DOMAIN item :
                /\ item'[x] \in Item /\ item'[x].status = item[x].status
                /\ item'[x].reason = item[x].reason
                /\ item[x].status = "cancelled" => item'[x] = item[x]
                /\ refund'[x] \in Seq(Refund) /\ Len(refund'[x]) = Len(refund[x])
    PROVE  IInv'
<1> USE DEF IInv
<1>1. \A g \in DOMAIN group : Legs(g)' = Legs(g) /\ Items(g)' = Items(g) /\ TotalPrice(g)' = TotalPrice(g)
    BY LegsStay
<1>2. \A x : FareOf(x)' = FareOf(x)
    BY DEF FareOf, Legs
<1>3. \A g \in DOMAIN booking : g \in DOMAIN group
    BY DEF BookingRows
<1>4. GroupRows' /\ BookingRows' /\ SoldAsAWhole'
    BY <1>1, <1>3 DEF GroupRows, IsGroup, BookingRows, SoldAsAWhole
<1>5. ItemRows'
  <2>1. {Items(g)' : g \in DOMAIN booking} = {Items(g) : g \in DOMAIN booking}
    BY <1>1, <1>3
  <2>2. \A x \in DOMAIN item : item'[x].status = "confirmed" <=> item'[x].reason = "none"
    BY DEF ItemRows
  <2> QED
    BY <2>1, <2>2 DEF ItemRows
<1>6. StatusFollowsItems'
  <2> SUFFICES ASSUME NEW g \in DOMAIN booking
               PROVE  booking'[g].status = StatusFrom(g, item)'
    BY DEF StatusFollowsItems
  <2>1. Items(g)' = Items(g) /\ booking'[g] = booking[g]
    BY <1>1, <1>3
  <2>2. \A x \in Items(g) : item'[x].status = item[x].status
    BY DEF ItemRows
  <2> QED
    BY <2>1, <2>2 DEF StatusFrom, StatusFollowsItems
<1>7. SettledOnce'
  <2> SUFFICES ASSUME NEW x \in DOMAIN item
               PROVE  /\ Len(refund'[x]) <= 1
                      /\ item'[x].status = "confirmed" => refund'[x] = <<>>
                      /\ item'[x].reason \in Reasons \ {"customer"} => Len(refund'[x]) = 1
                      /\ item'[x].reason = "customer" =>
                            (refund'[x] # <<>> <=> FareOf(x)' \in Refundable \/ item'[x].override)
    BY DEF SettledOnce
  <2>1. /\ Len(refund[x]) <= 1
        /\ item[x].status = "confirmed" => refund[x] = <<>>
        /\ item[x].reason \in Reasons \ {"customer"} => Len(refund[x]) = 1
        /\ refund[x] \in Seq(Refund) /\ refund'[x] \in Seq(Refund)
        /\ Len(refund'[x]) = Len(refund[x])
    BY DEF SettledOnce, ItemRows
  <2>2. refund'[x] = <<>> <=> refund[x] = <<>>
    BY <2>1
  <2>3. item[x].reason = "customer" =>
            (refund[x] # <<>> <=> FareOf(x) \in Refundable \/ item[x].override)
    BY DEF SettledOnce
  <2>4. item[x].reason = "customer" => item'[x] = item[x]
    BY DEF ItemRows, Item
  <2>5. item'[x].reason = item[x].reason /\ item'[x].status = item[x].status
    OBVIOUS
  <2>6. item[x].reason = "customer" =>
            (refund'[x] # <<>> <=> FareOf(x)' \in Refundable \/ item'[x].override)
    BY <1>2, <2>2, <2>3, <2>4, Zenon
  <2> QED
    BY <2>1, <2>2, <2>5, <2>6
<1> QED
    BY <1>4, <1>5, <1>6, <1>7

LEMMA ApproveRefundStep ==
    ASSUME IInv, NEW x \in DOMAIN refund, NEW k \in DOMAIN refund[x], ApproveRefund(x, k)
    PROVE  IInv'
<1>1. Times' /\ UNCHANGED <<group, booking, item>>
    BY DEF IInv, Times, ApproveRefund
<1>2. DOMAIN refund = DOMAIN item /\ \A y \in DOMAIN item : item[y] \in Item /\ refund[y] \in Seq(Refund)
    BY DEF IInv, ItemRows
<1>3. /\ DOMAIN refund' = DOMAIN refund
      /\ \A y \in DOMAIN refund \ {x} : refund'[y] = refund[y]
      /\ refund'[x] = [refund[x] EXCEPT ![k].status = "processed"]
    BY DEF ApproveRefund
<1>4. refund'[x] \in Seq(Refund) /\ Len(refund'[x]) = Len(refund[x])
  <2> DEFINE s == refund[x]
             n == Len(s)
  <2>1. s \in Seq(Refund) /\ n \in Nat /\ DOMAIN s = 1 .. n /\ s \in [1 .. n -> Refund] /\ k \in 1 .. n
    BY <1>2
  <2> DEFINE e == [s[k] EXCEPT !.status = "processed"]
  <2>2. e \in Refund
    BY <2>1 DEF Refund
  <2>3. refund'[x] = [s EXCEPT ![k] = e]
    BY <1>3
  <2> HIDE DEF s, e
  <2>4. [s EXCEPT ![k] = e] \in [1 .. n -> Refund]
    BY <2>1, <2>2
  <2> HIDE DEF n
  <2>5. \A t \in [1 .. n -> Refund] : t \in Seq(Refund) /\ Len(t) = n
    BY <2>1
  <2> QED
    BY <2>3, <2>4, <2>5 DEF s, n
<1> QED
    BY <1>1, <1>2, <1>3, <1>4, RowsStep

LEMMA OverrideStep ==
    ASSUME IInv, Times', NEW f, NEW shift, Override(f, shift), UNCHANGED <<group, booking, refund>>
    PROVE  IInv'
<1>1. DOMAIN item' = DOMAIN item
    BY DEF Override
<1>2. ASSUME NEW x \in DOMAIN item
      PROVE  /\ item'[x] \in Item /\ item'[x].status = item[x].status
             /\ item'[x].reason = item[x].reason
             /\ item[x].status = "cancelled" => item'[x] = item[x]
             /\ refund[x] \in Seq(Refund)
  <2>1. item[x] \in Item /\ refund[x] \in Seq(Refund)
    BY DEF IInv, ItemRows
  <2>2. \/ item'[x] = item[x]
        \/ item[x].status = "confirmed" /\ item'[x] = [item[x] EXCEPT !.override = TRUE]
    BY DEF Override, OnFlight, Confirmed
  <2>3. [item[x] EXCEPT !.override = TRUE] \in Item
        /\ [item[x] EXCEPT !.override = TRUE].status = item[x].status
        /\ [item[x] EXCEPT !.override = TRUE].reason = item[x].reason
    BY <2>1 DEF Item
  <2> QED
    BY <2>1, <2>2, <2>3
<1> QED
    BY <1>1, <1>2, RowsStep

LEMMA MarkDelayedStep ==
    ASSUME IInv, NEW f \in Flights, NEW t \in DelayTimes, MarkDelayed(f, t)
    PROVE  IInv'
<1>1. Times'
    BY CatalogueAssumption DEF IInv, Times, MarkDelayed, Flight, OriginalOf
<1> QED
    BY <1>1, OverrideStep DEF MarkDelayed

LEMMA EditScheduleStep ==
    ASSUME IInv, NEW f \in Flights, NEW t \in EditTimes, EditSchedule(f, t)
    PROVE  IInv'
<1>1. Times'
    BY CatalogueAssumption DEF IInv, Times, EditSchedule, Flight
<1> QED
    BY <1>1, OverrideStep DEF EditSchedule

-----------------------------------------------------------------------------
(* The invariant, and what follows from it *)

LEMMA StepIInv == IInv /\ [Next]_vars => IInv'
<1> SUFFICES ASSUME IInv, [Next]_vars PROVE IInv'
    OBVIOUS
<1>1. CASE UNCHANGED vars
  <2>1. Times'
    BY <1>1 DEF vars, IInv, Times
  <2> QED
    BY <1>1, <2>1, QuietStep DEF vars
<1>2. CASE Next
    BY <1>2, HoldStep, RefuseHoldStep, ConfirmStep, CancelBookingStep, CancelItemStep,
        ApproveRefundStep, CancelFlightStep, ResolveDelayStep, MarkDelayedStep, EditScheduleStep,
        TickStep DEF Next
<1> QED
    BY <1>1, <1>2

LEMMA Invariance == Spec => []IInv
BY InitIInv, StepIInv, PTL DEF Spec

\* Decision #1/#2: after any history of holds, expiries and confirmations the
\* legs of a group are all sold or none is, and a booking exists exactly for
\* the groups that are sold (confirm_booking, convert_hold_to_booking).
THEOREM GroupsAreSoldAsAWhole == Spec => []SoldAsAWhole
BY Invariance, PTL DEF IInv

\* recompute_booking_status runs wherever an item changes: the status of a
\* booking is always what its items say, whoever cancelled them.
THEOREM StatusIsOfItems == Spec => []StatusFollowsItems
BY Invariance, PTL DEF IInv

\* create_refund_for_item: a cancelled item is settled once and by its own
\* reason, a confirmed one not at all, whatever cancels it and whatever delays
\* and approvals come before or after.
THEOREM ItemsAreSettledOnce == Spec => []SettledOnce
BY Invariance, PTL DEF IInv

\* No sequence of cancellations, delays and approvals gives back more for a
\* booking than confirm_booking charged for it.
THEOREM RefundsStayWithinPrice == Spec => []RefundsWithinPrice
<1>1. IInv => RefundsWithinPrice
  <2> SUFFICES ASSUME IInv, NEW g \in DOMAIN booking
               PROVE  SumFunctionOnSet([x \in Items(g) |-> Len(refund[x]) * Price[FareOf(x)]], Items(g))
                        <= booking[g].total
    BY DEF RefundsWithinPrice
  <2> DEFINE back == [x \in Items(g) |-> Len(refund[x]) * Price[FareOf(x)]]
             paid == [x \in Items(g) |-> Price[FareOf(x)]]
  <2>1. IsGroup(group[g]) /\ IsFiniteSet(Items(g)) /\ Items(g) \subseteq DOMAIN item
    BY ItemsExist DEF IInv, GroupRows, BookingRows, ItemRows
  <2>2. \A x \in Items(g) : back[x] \in Int /\ paid[x] \in Int /\ back[x] <= paid[x]
    <3> TAKE x \in Items(g)
    <3>1. Price[FareOf(x)] \in Nat /\ back[x] = Len(refund[x]) * Price[FareOf(x)] /\ paid[x] = Price[FareOf(x)]
        BY <2>1, ItemFare
    <3>2. Len(refund[x]) = 0 \/ Len(refund[x]) = 1
      <4>1. refund[x] \in Seq(Refund)
        BY <2>1 DEF IInv, ItemRows
      <4>2. Len(refund[x]) <= 1
        BY <2>1 DEF IInv, SettledOnce
      <4>3. Len(refund[x]) \in Nat
        BY <4>1
      <4>4. \A n \in Nat : n <= 1 => n = 0 \/ n = 1
        OBVIOUS
      <4> QED
        BY <4>2, <4>3, <4>4, Zenon
    <3> HIDE DEF back, paid
    <3> DEFINE price == Price[FareOf(x)]
    <3>3. CASE Len(refund[x]) = 0
      <4>1. back[x] = 0 * price /\ paid[x] = price /\ price \in Nat
        BY <3>1, <3>3
      <4> HIDE DEF price
      <4> QED
        BY <4>1
    <3>4. CASE Len(refund[x]) = 1
      <4>1. back[x] = 1 * price /\ paid[x] = price /\ price \in Nat
        BY <3>1, <3>4
      <4> HIDE DEF price
      <4> QED
        BY <4>1
    <3> QED
        BY <3>2, <3>3, <3>4
  <2>3. booking[g].total = SumFunctionOnSet(paid, Items(g))
    BY DEF IInv, BookingRows, TotalPrice
  <2> HIDE DEF back, paid
  <2>4. SumFunctionOnSet(back, Items(g)) <= SumFunctionOnSet(paid, Items(g))
    BY <2>1, <2>2, SumAtMost
  <2> QED
    BY <2>3, <2>4 DEF back
<1> QED
    BY <1>1, Invariance, PTL

-----------------------------------------------------------------------------
(* Delays *)

\* The first timetable is what later delays are measured from.
Timetable ==
    \A f \in Flights :
        /\ flight[f].original \in {NoTime, Departure[f]}
        /\ flight[f].original = NoTime => flight[f].departure = Departure[f]

\* README: the shift is "measured against the original time, so repeated small
\* delays accumulate" (update_flight_status, apply_schedule_change_override):
\* for flights whose schedule is not edited, a delay that leaves a flight more
\* than the threshold off its first timetable gives every passenger on it the
\* override, however small the delay itself is.
THEOREM DelaysAccumulate == ASSUME EditTimes = {} PROVE Spec => ShiftsAccumulate
<1> DEFINE Shifts ==
        \A f \in Flights :
            (/\ flight'[f].departure # flight[f].departure
             /\ Distance(flight'[f].departure, Departure[f]) > OverrideShift)
                => \A x \in OnFlight(f) : item'[x].override
<1>1. Init => Timetable
    BY DEF Init, Timetable
<1>2. Times /\ Timetable /\ [Next]_vars => Timetable' /\ [Shifts]_vars
  <2> SUFFICES ASSUME Times, Timetable, [Next]_vars PROVE Timetable' /\ [Shifts]_vars
    OBVIOUS
  <2>1. CASE flight' = flight
    BY <2>1 DEF Timetable
  <2>2. ASSUME NEW f \in Flights, flight' = [flight EXCEPT ![f].status = "cancelled"]
                                    \/ flight' = [flight EXCEPT ![f].status = "scheduled"]
        PROVE  Timetable' /\ [Shifts]_vars
    <3>1. \A h \in Flights : flight'[h].departure = flight[h].departure
                             /\ flight'[h].original = flight[h].original
        BY <2>2 DEF Times, Flight
    <3> QED
        BY <3>1 DEF Timetable
  <2>3. ASSUME NEW f \in Flights, NEW t \in DelayTimes, MarkDelayed(f, t)
        PROVE  Timetable' /\ [Shifts]_vars
    <3>1. OriginalOf(f) = Departure[f]
        BY DEF Timetable, OriginalOf
    <3>2. flight'[f].departure = t /\ flight'[f].original = Departure[f]
        BY <2>3, <3>1 DEF MarkDelayed, Times
    <3>3. \A h \in Flights \ {f} : flight'[h] = flight[h]
        BY <2>3 DEF MarkDelayed, Times
    <3>4. Timetable'
        BY <3>2, <3>3, CatalogueAssumption DEF Timetable, NoTime
    <3>5. ASSUME Distance(t, Departure[f]) > OverrideShift, NEW x \in OnFlight(f)
          PROVE  item'[x].override
      <4>1. item' = [y \in DOMAIN item |->
                IF Distance(t, Departure[f]) > OverrideShift /\ y \in OnFlight(f)
                THEN [item[y] EXCEPT !.override = TRUE] ELSE item[y]]
        BY <2>3, <3>1 DEF MarkDelayed, Override
      <4>2. x \in DOMAIN item
        BY DEF OnFlight, Confirmed
      <4>3. item'[x] = [item[x] EXCEPT !.override = TRUE]
        BY <3>5, <4>1, <4>2
      <4> QED
        BY <4>3
    <3>6. Shifts
      <4> SUFFICES ASSUME NEW h \in Flights, flight'[h].departure # flight[h].departure,
                          Distance(flight'[h].departure, Departure[h]) > OverrideShift,
                          NEW x \in OnFlight(h)
                   PROVE  item'[x].override
        OBVIOUS
      <4>1. h = f
        BY <3>3
      <4> QED
        BY <3>2, <3>5, <4>1
    <3> QED
        BY <3>4, <3>6
  <2>4. ASSUME UNCHANGED vars PROVE flight' = flight
    BY <2>4 DEF vars
  <2> QED
    BY <2>1, <2>2, <2>3, <2>4 DEF Next, Hold, RefuseHold, Confirm, CancelItem, CancelBooking,
        ApproveRefund, CancelFlight, ResolveDelay, Tick
<1>3. IInv => Times
    BY DEF IInv
<1>4. ShiftsAccumulate <=> [][Shifts]_vars
    BY DEF ShiftsAccumulate
<1> QED
    BY <1>1, <1>2, <1>3, <1>4, Invariance, PTL DEF Spec

-----------------------------------------------------------------------------
(* The seats that holds have *)

ActiveIn(c) == {h \in HoldsIn(c) : group[h[1]].hold[h[2]] = "active"}
StaleIn(c) == {h \in HoldsIn(c) : IsStale(h[1], h[2])}
HoldsOf(g, legs, c) == {<<g, i>> : i \in LegsIn(legs, c)}

\* HoldsIn(c) has the holds of cabin c.
HoldsHave(c) ==
    /\ IsFiniteSet(HoldsIn(c))
    /\ \A h \in HoldsIn(c) :
        /\ h[1] \in DOMAIN group /\ h[2] \in LegsIn(Legs(h[1]), c) /\ h = <<h[1], h[2]>>
        /\ Legs(h[1])[h[2]].quantity \in Nat
    /\ \A g \in DOMAIN group : \A i \in LegsIn(Legs(g), c) : <<g, i>> \in HoldsIn(c)

LEMMA HoldsAre == GroupRows => \A c : HoldsHave(c)
<1> SUFFICES ASSUME GroupRows, NEW c PROVE HoldsHave(c)
    OBVIOUS
<1> DEFINE Of(g) == HoldsOf(g, Legs(g), c)
           all == {Of(g) : g \in DOMAIN group}
<1>1. HoldsIn(c) = UNION all
    BY DEF HoldsIn, HoldsOf
<1>2. \A g \in DOMAIN group :
        /\ IsFiniteSet(DOMAIN Legs(g)) /\ LegsIn(Legs(g), c) \subseteq DOMAIN Legs(g)
        /\ \A i \in DOMAIN Legs(g) : Legs(g)[i].quantity \in Nat
    BY LegsType DEF GroupRows, IsGroup, Legs, LegsIn
<1>3. ASSUME NEW g \in DOMAIN group PROVE IsFiniteSet(Of(g))
  <2> DEFINE f == [i \in LegsIn(Legs(g), c) |-> <<g, i>>]
  <2>1. IsFiniteSet(LegsIn(Legs(g), c))
    BY <1>2, FS_Subset
  <2>2. f \in Surjection(LegsIn(Legs(g), c), Of(g))
    BY DEF Surjection, HoldsOf
  <2> HIDE DEF f, Of
  <2> QED
    BY <2>1, <2>2, FS_Surjection
<1>4. IsFiniteSet(all)
  <2> DEFINE f == [g \in DOMAIN group |-> Of(g)]
  <2>1. f \in Surjection(DOMAIN group, all)
    BY DEF Surjection
  <2> HIDE DEF f, all
  <2> QED
    BY <2>1, FS_Surjection DEF GroupRows
<1>5. IsFiniteSet(UNION all)
  <2>1. \A T \in all : IsFiniteSet(T)
    BY <1>3
  <2> HIDE DEF all
  <2> QED
    BY <1>4, <2>1, FS_UNION
<1>6. IsFiniteSet(HoldsIn(c))
    BY <1>1, <1>5
<1>7. \A h \in HoldsIn(c) :
        h[1] \in DOMAIN group /\ h[2] \in LegsIn(Legs(h[1]), c) /\ h = <<h[1], h[2]>>
    BY <1>1 DEF HoldsOf
<1>8. \A g \in DOMAIN group : \A i \in LegsIn(Legs(g), c) : <<g, i>> \in HoldsIn(c)
    BY <1>1 DEF HoldsOf
<1> QED
    BY <1>2, <1>6, <1>7, <1>8 DEF HoldsHave

LEMMA HoldsAreNext == GroupRows' => \A c : HoldsHave(c)'
<1>1. GroupRows' => (\A c : HoldsHave(c))'
    BY HoldsAre, PTL
<1> QED
    BY <1>1

\* QuantityOf is a sum: it splits over disjoint sets of holds.
LEMMA QuantitySplit ==
    ASSUME NEW S, NEW T, IsFiniteSet(S), IsFiniteSet(T), S \cap T = {},
           \A h \in S \cup T : Legs(h[1])[h[2]].quantity \in Nat
    PROVE  /\ QuantityOf(S) \in Nat /\ QuantityOf(T) \in Nat
           /\ QuantityOf(S \cup T) = QuantityOf(S) + QuantityOf(T)
<1> DEFINE U == S \cup T
           f == [h \in U |-> Legs(h[1])[h[2]].quantity]
           fS == [h \in S |-> Legs(h[1])[h[2]].quantity]
           fT == [h \in T |-> Legs(h[1])[h[2]].quantity]
<1>1. /\ \A h \in S : fS[h] = f[h] /\ fS[h] \in Nat
      /\ \A h \in T : fT[h] = f[h] /\ fT[h] \in Nat
      /\ \A h \in S \cup T : f[h] \in Int
    OBVIOUS
<1>2. /\ QuantityOf(S) = SumFunctionOnSet(fS, S) /\ QuantityOf(T) = SumFunctionOnSet(fT, T)
      /\ QuantityOf(U) = SumFunctionOnSet(f, U)
    BY DEF QuantityOf
<1> HIDE DEF f, fS, fT
<1>3. SumFunctionOnSet(fS, S) = SumFunctionOnSet(f, S) /\ SumFunctionOnSet(fT, T) = SumFunctionOnSet(f, T)
    BY <1>1, SumEqual
<1>4. SumFunctionOnSet(f, S \cup T) = SumFunctionOnSet(f, S) + SumFunctionOnSet(f, T)
    BY <1>1, SumUnion
<1>5. SumFunctionOnSet(fS, S) \in Nat /\ SumFunctionOnSet(fT, T) \in Nat
    BY <1>1, SumNat
<1> QED
    BY <1>2, <1>3, <1>4, <1>5

LEMMA QuantitySplitNext ==
    (\A S, T :
        (/\ IsFiniteSet(S) /\ IsFiniteSet(T) /\ S \cap T = {}
         /\ \A h \in S \cup T : Legs(h[1])[h[2]].quantity \in Nat)
            => /\ QuantityOf(S) \in Nat /\ QuantityOf(T) \in Nat
               /\ QuantityOf(S \cup T) = QuantityOf(S) + QuantityOf(T))'
<1>1. \A S, T :
        (/\ IsFiniteSet(S) /\ IsFiniteSet(T) /\ S \cap T = {}
         /\ \A h \in S \cup T : Legs(h[1])[h[2]].quantity \in Nat)
            => /\ QuantityOf(S) \in Nat /\ QuantityOf(T) \in Nat
               /\ QuantityOf(S \cup T) = QuantityOf(S) + QuantityOf(T)
    BY QuantitySplit
<1> QED
    BY <1>1, PTL

\* The holds of one group in one cabin have the seats of its legs there.
LEMMA QuantityOfGroup ==
    ASSUME NEW g, NEW c, Legs(g) \in Itineraries
    PROVE  /\ IsFiniteSet(HoldsOf(g, Legs(g), c))
           /\ QuantityOf(HoldsOf(g, Legs(g), c))
                = SumFunctionOnSet(Quantities(Legs(g)), LegsIn(Legs(g), c))
<1> DEFINE legs == Legs(g)
           L == LegsIn(legs, c)
           q == Quantities(legs)
           name == [i \in L |-> <<g, i>>]
           S == HoldsOf(g, legs, c)
           f == [h \in S |-> Legs(h[1])[h[2]].quantity]
<1>1. IsFiniteSet(L) /\ \A i \in L : i \in DOMAIN legs /\ q[i] \in Int /\ q[i] = legs[i].quantity
  <2>1. L \subseteq DOMAIN legs /\ IsFiniteSet(DOMAIN legs)
    BY LegsType DEF LegsIn
  <2>2. \A i \in DOMAIN legs : q[i] = legs[i].quantity /\ legs[i].quantity \in Nat
    BY LegsType DEF Quantities
  <2> QED
    BY <2>1, <2>2, FS_Subset
<1>2. \A i, j \in L : name[i] = name[j] => i = j
    OBVIOUS
<1>3. S = {name[i] : i \in L}
    BY DEF HoldsOf
<1>4. \A i \in L : f[name[i]] = q[i]
  <2> TAKE i \in L
  <2>1. name[i] = <<g, i>> /\ <<g, i>> \in S
    BY DEF HoldsOf
  <2>2. f[<<g, i>>] = Legs(g)[i].quantity
    BY <2>1
  <2> QED
    BY <1>1, <2>1, <2>2
<1>5. QuantityOf(S) = SumFunctionOnSet(f, S)
    BY DEF QuantityOf
<1> HIDE DEF name, f, q, L
<1>6. (\A i \in L : name[i] \in S) /\ \A h \in S : \E i \in L : h = name[i]
    BY <1>3
<1> HIDE DEF S
<1>7. IsFiniteSet(S) /\ SumFunctionOnSet(f, S) = SumFunctionOnSet(q, L)
    BY <1>1, <1>2, <1>4, <1>6, SumReindex
<1> QED
    BY <1>5, <1>7 DEF q, L, S

LEMMA QuantityOfGroupNext ==
    (\A g, c : Legs(g) \in Itineraries
        => QuantityOf(HoldsOf(g, Legs(g), c)) = SumFunctionOnSet(Quantities(Legs(g)), LegsIn(Legs(g), c)))'
<1>1. \A g, c : Legs(g) \in Itineraries
        => QuantityOf(HoldsOf(g, Legs(g), c)) = SumFunctionOnSet(Quantities(Legs(g)), LegsIn(Legs(g), c))
    BY QuantityOfGroup
<1> QED
    BY <1>1, PTL

\* What the holds of a cabin have after a step in which some active holds end
\* and some new ones begin.
LEMMA HeldStep ==
    ASSUME GroupRows, GroupRows', NEW c, NEW gone, gone \subseteq ActiveIn(c), NEW new,
           \A g \in DOMAIN group : g \in DOMAIN group' /\ Legs(g)' = Legs(g),
           \A h \in HoldsIn(c) :
                group'[h[1]].hold[h[2]] = "active" <=> group[h[1]].hold[h[2]] = "active" /\ h \notin gone,
           \A h : h \in new <=> /\ h \in HoldsIn(c)' /\ h[1] \notin DOMAIN group
                                /\ group'[h[1]].hold[h[2]] = "active"
    PROVE  /\ QuantityOf(ActiveIn(c)) \in Nat /\ QuantityOf(gone) \in Nat /\ QuantityOf(new)' \in Nat
           /\ QuantityOf(ActiveIn(c))' = QuantityOf(ActiveIn(c)) - QuantityOf(gone) + QuantityOf(new)'
<1>1. PICK keep : keep = ActiveIn(c) \ gone
    OBVIOUS
<1>2. PICK after : after = ActiveIn(c)'
    OBVIOUS
<1>3. HoldsHave(c) /\ HoldsHave(c)'
    BY HoldsAre, HoldsAreNext
<1>4. \A h \in HoldsIn(c) : h \in HoldsIn(c)' /\ Legs(h[1])' = Legs(h[1])
    BY <1>3 DEF HoldsHave
<1>5. \A h \in HoldsIn(c)' : h[1] \in DOMAIN group => h \in HoldsIn(c)
    BY <1>3 DEF HoldsHave
<1>6. after = keep \cup new /\ keep \cap new = {}
    BY <1>1, <1>2, <1>3, <1>4, <1>5 DEF ActiveIn, HoldsHave
<1>7. ActiveIn(c) = keep \cup gone /\ keep \cap gone = {} /\ ActiveIn(c) \subseteq HoldsIn(c)
    BY <1>1 DEF ActiveIn
<1>8. IsFiniteSet(keep) /\ IsFiniteSet(gone) /\ IsFiniteSet(new)
  <2>1. IsFiniteSet(HoldsIn(c)) /\ IsFiniteSet(HoldsIn(c)')
    BY <1>3 DEF HoldsHave
  <2>2. new \subseteq HoldsIn(c)'
    OBVIOUS
  <2> QED
    BY <1>7, <2>1, <2>2, FS_Subset
<1>9. /\ QuantityOf(keep) \in Nat /\ QuantityOf(gone) \in Nat
      /\ QuantityOf(keep \cup gone) = QuantityOf(keep) + QuantityOf(gone)
  <2>1. \A h \in keep \cup gone : Legs(h[1])[h[2]].quantity \in Nat
    BY <1>3, <1>7 DEF HoldsHave
  <2> QED
    BY <1>7, <1>8, <2>1, QuantitySplit
<1>10. QuantityOf(keep)' = QuantityOf(keep)
  <2>1. \A h \in keep : Legs(h[1])' = Legs(h[1])
    BY <1>4, <1>7
  <2>2. [h \in keep |-> Legs(h[1])'[h[2]].quantity] = [h \in keep |-> Legs(h[1])[h[2]].quantity]
    BY <2>1
  <2> QED
    BY <2>2 DEF QuantityOf
<1>11. /\ QuantityOf(keep)' \in Nat /\ QuantityOf(new)' \in Nat
       /\ QuantityOf(keep \cup new)' = QuantityOf(keep)' + QuantityOf(new)'
  <2>1. \A h \in keep \cup new : Legs(h[1])'[h[2]].quantity \in Nat
    BY <1>3, <1>4, <1>7 DEF HoldsHave
  <2> QED
    BY <1>6, <1>8, <2>1, QuantitySplitNext
<1>12. QuantityOf(ActiveIn(c))' = QuantityOf(keep \cup new)'
    BY <1>2, <1>6 DEF QuantityOf
<1>13. QuantityOf(ActiveIn(c)) = QuantityOf(keep \cup gone)
    BY <1>7
<1> QED
    BY <1>9, <1>10, <1>11, <1>12, <1>13

-----------------------------------------------------------------------------
(* The seats of one cabin in one request *)

\* The holds of cabin c that expire when the stale ones of cabins cs do.
Ended(c, cs) == {h \in StaleIn(c) : c \in cs}

LEMMA EndedIs ==
    ASSUME GroupRows, NEW c \in SeatClasses, NEW cs
    PROVE  /\ Ended(c, cs) \subseteq ActiveIn(c)
           /\ c \in cs => QuantityOf(Ended(c, cs)) = Freed(c)
           /\ SeatsAfter(cs)[c] = seats[c] + QuantityOf(Ended(c, cs))
           /\ \A h \in HoldsIn(c) :
                GroupsAfter(cs)[h[1]].hold[h[2]] = "active"
                    <=> group[h[1]].hold[h[2]] = "active" /\ h \notin Ended(c, cs)
<1>1. Ended(c, cs) \subseteq ActiveIn(c)
    BY DEF Ended, StaleIn, ActiveIn, IsStale
<1>2. ASSUME c \in cs
      PROVE  QuantityOf(Ended(c, cs)) = Freed(c) /\ SeatsAfter(cs)[c] = seats[c] + QuantityOf(Ended(c, cs))
  <2>1. Ended(c, cs) = StaleIn(c)
    BY <1>2 DEF Ended
  <2> QED
    BY <1>2, <2>1 DEF Freed, StaleIn, SeatsAfter
<1>3. ASSUME c \notin cs PROVE SeatsAfter(cs)[c] = seats[c] + QuantityOf(Ended(c, cs))
  <2>1. Ended(c, cs) = {}
    BY <1>3 DEF Ended
  <2>2. QuantityOf(Ended(c, cs)) = 0
    BY <2>1, SumEmpty DEF QuantityOf
  <2> QED
    BY <1>3, <2>2 DEF SeatsAfter
<1>4. ASSUME NEW h \in HoldsIn(c)
      PROVE  GroupsAfter(cs)[h[1]].hold[h[2]] = "active"
                <=> group[h[1]].hold[h[2]] = "active" /\ h \notin Ended(c, cs)
  <2>1. h[1] \in DOMAIN group /\ h[2] \in DOMAIN Legs(h[1]) /\ LegClass(Legs(h[1]), h[2]) = c
    BY HoldsAre DEF HoldsHave, LegsIn
  <2>2. GroupsAfter(cs)[h[1]].hold[h[2]] =
            IF IsStale(h[1], h[2]) /\ c \in cs THEN "expired" ELSE group[h[1]].hold[h[2]]
    BY <2>1, GroupsAfterIs
  <2>3. h \in Ended(c, cs) <=> IsStale(h[1], h[2]) /\ c \in cs
    BY DEF Ended, StaleIn
  <2> QED
    BY <2>2, <2>3
<1>5. (c \in cs => QuantityOf(Ended(c, cs)) = Freed(c))
      /\ SeatsAfter(cs)[c] = seats[c] + QuantityOf(Ended(c, cs))
    BY <1>2, <1>3
<1> QED
    BY <1>1, <1>4, <1>5

\* A hold request: the stale holds of cabins cs end, those of new begin.
LEMMA NewGroupsHeld ==
    ASSUME GroupRows, GroupRows', NEW c \in SeatClasses, NEW cs, NEW new,
           group' = Over(new, GroupsAfter(cs)), DOMAIN new \cap DOMAIN group = {}, NEW begun,
           \A h : h \in begun <=> /\ h \in HoldsIn(c)' /\ h[1] \in DOMAIN new
                                  /\ new[h[1]].hold[h[2]] = "active"
    PROVE  /\ QuantityOf(ActiveIn(c)) \in Nat /\ QuantityOf(Ended(c, cs)) \in Nat
           /\ QuantityOf(begun)' \in Nat
           /\ QuantityOf(ActiveIn(c))'
                = QuantityOf(ActiveIn(c)) - QuantityOf(Ended(c, cs)) + QuantityOf(begun)'
<1> DEFINE old == GroupsAfter(cs)
           gone == Ended(c, cs)
<1>1. /\ DOMAIN Over(new, old) = DOMAIN new \cup DOMAIN old
      /\ \A g \in DOMAIN new : Over(new, old)[g] = new[g]
      /\ \A g \in DOMAIN old \ DOMAIN new : Over(new, old)[g] = old[g]
  <2> HIDE DEF old
  <2> QED
    BY DEF Over
<1>2. DOMAIN old = DOMAIN group
    BY DEF GroupsAfter
<1>3. /\ DOMAIN group' = DOMAIN new \cup DOMAIN group
      /\ \A g \in DOMAIN new : group'[g] = new[g]
      /\ \A g \in DOMAIN group : group'[g] = old[g]
    BY <1>1, <1>2
<1>4. \A g \in DOMAIN group : g \in DOMAIN group' /\ Legs(g)' = Legs(g)
    BY <1>3, GroupsAfterIs DEF Legs
<1>5. \A h \in HoldsIn(c) : h[1] \in DOMAIN group
    BY HoldsAre DEF HoldsHave
<1>6. \A h \in HoldsIn(c)' : h[1] \in DOMAIN group'
    BY HoldsAreNext DEF HoldsHave
<1>7. \A h \in HoldsIn(c) :
        group'[h[1]].hold[h[2]] = "active" <=> group[h[1]].hold[h[2]] = "active" /\ h \notin gone
    BY <1>3, <1>5, EndedIs
<1>8. \A h : h \in begun <=> /\ h \in HoldsIn(c)' /\ h[1] \notin DOMAIN group
                             /\ group'[h[1]].hold[h[2]] = "active"
    BY <1>3, <1>6
<1>9. gone \subseteq ActiveIn(c)
    BY EndedIs
<1> HIDE DEF gone, old
<1>10. /\ QuantityOf(ActiveIn(c)) \in Nat /\ QuantityOf(gone) \in Nat /\ QuantityOf(begun)' \in Nat
       /\ QuantityOf(ActiveIn(c))' = QuantityOf(ActiveIn(c)) - QuantityOf(gone) + QuantityOf(begun)'
    BY <1>4, <1>7, <1>8, <1>9, HeldStep
<1> QED
    BY <1>10 DEF gone

\* hold_booking takes no seat that is not there: the seats its legs want in a
\* cabin are looked for together, at the last of them.
LEMMA WantedThere ==
    ASSUME NEW c \in SeatClasses, NEW legs \in Itineraries,
           \A i \in DOMAIN legs : Holdable(legs, i), seats \in [SeatClasses -> Nat]
    PROVE  /\ SumFunctionOnSet(Quantities(legs), LegsIn(legs, c)) \in Nat
           /\ LegsIn(legs, c) = {} => SumFunctionOnSet(Quantities(legs), LegsIn(legs, c)) = 0
           /\ LegsIn(legs, c) # {}
                => SumFunctionOnSet(Quantities(legs), LegsIn(legs, c)) <= seats[c] + Freed(c)
<1> DEFINE L == LegsIn(legs, c)
           q == Quantities(legs)
<1>1. IsFiniteSet(L) /\ \A i \in L : i \in DOMAIN legs /\ q[i] \in Nat /\ i \in Int /\ LegClass(legs, i) = c
  <2>1. L \subseteq DOMAIN legs /\ IsFiniteSet(DOMAIN legs) /\ DOMAIN legs \subseteq Int
    BY LegsType DEF LegsIn
  <2>2. \A i \in DOMAIN legs : q[i] = legs[i].quantity /\ legs[i].quantity \in Nat
    BY LegsType DEF Quantities
  <2>3. \A i \in L : LegClass(legs, i) = c
    BY DEF LegsIn
  <2> QED
    BY <2>1, <2>2, <2>3, FS_Subset
<1>2. SumFunctionOnSet(q, L) \in Nat
  <2> HIDE DEF q, L
  <2> QED
    BY <1>1, SumNat
<1>3. L = {} => SumFunctionOnSet(q, L) = 0
    BY SumEmpty
<1>4. ASSUME L # {} PROVE SumFunctionOnSet(q, L) <= seats[c] + Freed(c)
  <2>1. PICK m \in L : \A i \in L : i <= m
    <3>1. IsFiniteSet(L) /\ L # {} /\ \A i \in L : i \in Int
        BY <1>1, <1>4
    <3> HIDE DEF L
    <3> QED
        BY <3>1, FiniteMaximum
  <2>2. {j \in LegsIn(legs, LegClass(legs, m)) : j <= m} = L
    BY <1>1, <2>1
  <2>3. Wanted(legs, m) = SumFunctionOnSet(q, L)
    BY <2>2 DEF Wanted
  <2>4. seats[c] + Freed(c) >= Wanted(legs, m)
    BY <1>1, <2>1 DEF Holdable
  <2>5. seats[c] \in Nat /\ Freed(c) \in Int => Wanted(legs, m) <= seats[c] + Freed(c)
    BY <1>2, <2>3, <2>4
  <2> QED
    BY <2>3, <2>4
<1> QED
    BY <1>2, <1>3, <1>4

\* A hold request leaves the legs of the groups that are there.
LEMMA OldGroupsStay ==
    ASSUME GroupRows, NEW cs, NEW new, group' = Over(new, GroupsAfter(cs)),
           DOMAIN new \cap DOMAIN group = {}
    PROVE  \A h \in DOMAIN group : Legs(h)' = Legs(h)
<1> DEFINE old == GroupsAfter(cs)
<1>1. \A h \in DOMAIN group : h \in DOMAIN old /\ old[h].legs = Legs(h)
    BY GroupsAfterIs
<1>2. group' = Over(new, old)
    OBVIOUS
<1> HIDE DEF old
<1>3. \A h \in DOMAIN group : group'[h] = old[h]
    BY <1>1, <1>2 DEF Over
<1> QED
    BY <1>1, <1>3 DEF Legs

LEMMA HoldSeats ==
    ASSUME IInv, IInv', NEW g \in Groups, NEW legs \in Itineraries, Hold(g, legs),
           seats \in [SeatClasses -> Nat]
    PROVE  /\ seats' \in [SeatClasses -> Nat]
           /\ \A c \in SeatClasses :
                seats'[c] + QuantityOf(ActiveIn(c))' = seats[c] + QuantityOf(ActiveIn(c))
           /\ \A h \in DOMAIN group : Legs(h)' = Legs(h)
<1> DEFINE cs == {LegClass(legs, i) : i \in DOMAIN legs}
           wanted(c) == SumFunctionOnSet(Quantities(legs), LegsIn(legs, c))
<1>1. PICK late \in 0 .. Min({Len(legs) - 1, MaxTime - now}) :
        group' = Over([h \in {g} |-> NewGroup(legs, [i \in DOMAIN legs |-> "active"], late)],
                      GroupsAfter(cs))
    BY DEF Hold
<1> DEFINE row == NewGroup(legs, [i \in DOMAIN legs |-> "active"], late)
           new == [h \in {g} |-> row]
<1>2. row.legs = legs /\ \A i \in DOMAIN legs : row.hold[i] = "active"
    BY DEF NewGroup
<1>3. /\ g \notin DOMAIN group /\ \A i \in DOMAIN legs : Holdable(legs, i)
      /\ seats' = [c \in SeatClasses |-> SeatsAfter(cs)[c] - wanted(c)]
    BY DEF Hold
<1> HIDE DEF row
<1>4. DOMAIN new = {g} /\ new[g] = row /\ DOMAIN new \cap DOMAIN group = {}
    BY <1>3
<1>5. group' = Over(new, GroupsAfter(cs))
    BY <1>1 DEF row
<1> HIDE DEF new
<1>6. \A c : (LegsIn(legs, c) # {} => c \in cs)
    BY DEF LegsIn
<1> HIDE DEF cs
<1>7. \A h \in DOMAIN group : Legs(h)' = Legs(h)
    BY <1>4, <1>5, OldGroupsStay DEF IInv
<1>8. Legs(g)' = legs /\ g \in DOMAIN group'
  <2> DEFINE old == GroupsAfter(cs)
  <2>1. group' = Over(new, old)
    BY <1>5
  <2> HIDE DEF old
  <2>2. g \in DOMAIN group' /\ group'[g] = row
    BY <1>4, <2>1 DEF Over
  <2> QED
    BY <1>2, <2>2 DEF Legs
<1>9. ASSUME NEW c \in SeatClasses
      PROVE  /\ SeatsAfter(cs)[c] - wanted(c) \in Nat
             /\ SeatsAfter(cs)[c] - wanted(c) + QuantityOf(ActiveIn(c))'
                    = seats[c] + QuantityOf(ActiveIn(c))
  <2> DEFINE begun == HoldsOf(g, legs, c)
             gone == Ended(c, cs)
  <2>1. \A h : h \in begun <=> /\ h \in HoldsIn(c)' /\ h[1] \in DOMAIN new
                               /\ new[h[1]].hold[h[2]] = "active"
    <3>1. \A h \in HoldsIn(c)' : h[1] = g => h = <<g, h[2]>> /\ h[2] \in LegsIn(legs, c)
        BY <1>8, HoldsAreNext DEF HoldsHave, IInv
    <3>2. \A i \in LegsIn(legs, c) : <<g, i>> \in HoldsIn(c)' /\ i \in DOMAIN legs
        BY <1>8, HoldsAreNext DEF HoldsHave, IInv, LegsIn
    <3> QED
        BY <1>2, <1>4, <3>1, <3>2 DEF HoldsOf
  <2>2. QuantityOf(begun)' = wanted(c)
    <3>1. (Legs(g) \in Itineraries => QuantityOf(HoldsOf(g, Legs(g), c))
                = SumFunctionOnSet(Quantities(Legs(g)), LegsIn(Legs(g), c)))'
        BY QuantityOfGroupNext
    <3>2. QuantityOf(HoldsOf(g, Legs(g), c))' = QuantityOf(begun)'
        BY <1>8 DEF QuantityOf
    <3> QED
        BY <1>8, <3>1, <3>2
  <2> HIDE DEF begun, gone
  <2>3. /\ QuantityOf(ActiveIn(c)) \in Nat /\ QuantityOf(gone) \in Nat /\ QuantityOf(begun)' \in Nat
        /\ QuantityOf(ActiveIn(c))' = QuantityOf(ActiveIn(c)) - QuantityOf(gone) + QuantityOf(begun)'
    <3>1. GroupRows /\ GroupRows'
        BY DEF IInv
    <3>2. /\ QuantityOf(ActiveIn(c)) \in Nat /\ QuantityOf(Ended(c, cs)) \in Nat
          /\ QuantityOf(begun)' \in Nat
          /\ QuantityOf(ActiveIn(c))'
                = QuantityOf(ActiveIn(c)) - QuantityOf(Ended(c, cs)) + QuantityOf(begun)'
        BY <1>4, <1>5, <2>1, <3>1, NewGroupsHeld
    <3> QED
        BY <3>2 DEF gone
  <2>4. SeatsAfter(cs)[c] = seats[c] + QuantityOf(gone) /\ (c \in cs => QuantityOf(gone) = Freed(c))
    BY EndedIs DEF IInv, gone
  <2>5. /\ wanted(c) \in Nat
        /\ LegsIn(legs, c) = {} => wanted(c) = 0
        /\ LegsIn(legs, c) # {} => wanted(c) <= seats[c] + Freed(c)
    BY <1>3, WantedThere
  <2>6. wanted(c) <= seats[c] + QuantityOf(gone) /\ seats[c] \in Nat
    <3> HIDE DEF wanted
    <3>1. CASE LegsIn(legs, c) = {}
        BY <2>3, <2>5, <3>1
    <3>2. CASE LegsIn(legs, c) # {}
        BY <1>6, <2>4, <2>5, <3>2
    <3> QED
        BY <3>1, <3>2
  <2> HIDE DEF wanted
  <2> QED
    BY <2>2, <2>3, <2>4, <2>5, <2>6
<1> HIDE DEF wanted
<1> QED
    BY <1>3, <1>9, <1>7

LEMMA NoQuantity == QuantityOf({}) = 0 /\ QuantityOf({})' = 0
<1>1. QuantityOf({}) = 0
    BY SumEmpty DEF QuantityOf
<1>2. (QuantityOf({}) = 0)'
    BY <1>1, PTL
<1> QED
    BY <1>1, <1>2

LEMMA RefuseHoldSeats ==
    ASSUME IInv, IInv', NEW g \in Groups, NEW legs \in Itineraries, RefuseHold(g, legs),
           seats \in [SeatClasses -> Nat]
    PROVE  /\ seats' \in [SeatClasses -> Nat]
           /\ \A c \in SeatClasses :
                seats'[c] + QuantityOf(ActiveIn(c))' = seats[c] + QuantityOf(ActiveIn(c))
           /\ \A h \in DOMAIN group : Legs(h)' = Legs(h)
<1> DEFINE first == Min({i \in DOMAIN legs : ~Holdable(legs, i)})
           cs == {LegClass(legs, i) : i \in 1 .. first - 1}
                    \cup ({LegClass(legs, first)} \cap {c \in SeatClasses : IsOpen(c)})
           released == [i \in DOMAIN legs |-> IF i < first THEN "released" ELSE "none"]
           row == NewGroup(legs, released, 0)
           new == IF first = 1 THEN Nothing ELSE [h \in {g} |-> row]
<1>1. group' = Over(new, GroupsAfter(cs)) /\ g \notin DOMAIN group /\ seats' = SeatsAfter(cs)
    BY DEF RefuseHold
<1> HIDE DEF first, cs
<1>2. row.legs = legs /\ \A i \in DOMAIN legs : row.hold[i] # "active"
    BY DEF NewGroup
<1> HIDE DEF row
<1>3. DOMAIN new \subseteq {g} /\ (g \in DOMAIN new => new[g] = row)
    BY DEF Nothing
<1> HIDE DEF new
<1>4. g \in DOMAIN new => Legs(g)' = legs
  <2> DEFINE old == GroupsAfter(cs)
  <2>1. group' = Over(new, old)
    BY <1>1
  <2> HIDE DEF old
  <2>2. g \in DOMAIN new => group'[g] = row
    BY <1>3, <2>1 DEF Over
  <2> QED
    BY <1>2, <2>2 DEF Legs
<1>5. GroupRows /\ GroupRows'
    BY DEF IInv
<1>6. ASSUME NEW c \in SeatClasses
      PROVE  /\ SeatsAfter(cs)[c] \in Nat
             /\ SeatsAfter(cs)[c] + QuantityOf(ActiveIn(c))' = seats[c] + QuantityOf(ActiveIn(c))
  <2>1. \A h : h \in {} <=> /\ h \in HoldsIn(c)' /\ h[1] \in DOMAIN new
                            /\ new[h[1]].hold[h[2]] = "active"
    <3>1. \A h \in HoldsIn(c)' : h[2] \in DOMAIN Legs(h[1])'
        BY <1>5, HoldsAreNext DEF HoldsHave, LegsIn
    <3> QED
        BY <1>2, <1>3, <1>4, <3>1
  <2>2. /\ QuantityOf(ActiveIn(c)) \in Nat /\ QuantityOf(Ended(c, cs)) \in Nat
        /\ QuantityOf(ActiveIn(c))'
                = QuantityOf(ActiveIn(c)) - QuantityOf(Ended(c, cs)) + QuantityOf({})'
    <3>1. DOMAIN new \cap DOMAIN group = {}
        BY <1>1, <1>3
    <3> QED
        BY <1>1, <1>5, <2>1, <3>1, NewGroupsHeld
  <2>3. SeatsAfter(cs)[c] = seats[c] + QuantityOf(Ended(c, cs)) /\ seats[c] \in Nat
    BY <1>5, EndedIs
  <2> QED
    BY <2>2, <2>3, NoQuantity
<1>7. SeatsAfter(cs) \in [SeatClasses -> Nat]
    BY <1>6 DEF SeatsAfter
<1>8. \A h \in DOMAIN group : Legs(h)' = Legs(h)
    BY <1>1, <1>3, <1>5, OldGroupsStay
<1> QED
    BY <1>1, <1>6, <1>7, <1>8

-----------------------------------------------------------------------------
(* Sold seats *)

SoldIn(c) == {x \in Confirmed : ItemClass(x) = c}
ItemsOf(g, c) == {x \in Items(g) : ItemClass(x) = c}

\* A group's items in a cabin are as many as its legs there want seats.
LEMMA ItemsOfClass ==
    ASSUME NEW g, NEW c, Legs(g) \in Itineraries
    PROVE  Cardinality(ItemsOf(g, c)) = SumFunctionOnSet(Quantities(Legs(g)), LegsIn(Legs(g), c))
<1> DEFINE legs == Legs(g)
           L == LegsIn(legs, c)
           q == Quantities(legs)
           Of(i) == {<<g, i, k>> : k \in 1 .. legs[i].quantity}
           All(T) == UNION {Of(i) : i \in T}
           Good == {T \in SUBSET L :
                        IsFiniteSet(All(T)) /\ Cardinality(All(T)) = SumFunctionOnSet(q, T)}
<1>1. IsFiniteSet(L) /\ L \subseteq DOMAIN legs
  <2>1. L \subseteq DOMAIN legs /\ IsFiniteSet(DOMAIN legs)
    BY LegsType DEF LegsIn
  <2> QED
    BY <2>1, FS_Subset
<1>2. \A i \in L : q[i] = legs[i].quantity /\ legs[i].quantity \in Nat
    BY <1>1, LegsType DEF Quantities
<1>3. ASSUME NEW i \in L PROVE IsFiniteSet(Of(i)) /\ Cardinality(Of(i)) = q[i]
  <2> DEFINE n == legs[i].quantity
             f == [k \in 1 .. n |-> <<g, i, k>>]
  <2>1. n \in Nat /\ q[i] = n
    BY <1>2
  <2>2. f \in Bijection(1 .. n, Of(i))
    <3>1. \A k, l \in 1 .. n : f[k] = f[l] => k = l
      <4> TAKE k, l \in 1 .. n
      <4>1. f[k] = <<g, i, k>> /\ f[l] = <<g, i, l>>
        OBVIOUS
      <4>2. <<g, i, k>> = <<g, i, l>> => k = l
        OBVIOUS
      <4> QED
        BY <4>1, <4>2
    <3>2. f \in [1 .. n -> Of(i)] /\ \A x \in Of(i) : \E k \in 1 .. n : f[k] = x
        OBVIOUS
    <3> HIDE DEF f, n, Of
    <3> QED
        BY <3>1, <3>2 DEF Bijection, Injection, Surjection, IsInjective
  <2> HIDE DEF f, n, Of
  <2>3. IsFiniteSet(1 .. n) /\ Cardinality(1 .. n) = n
    BY <2>1, FS_Interval
  <2>4. ExistsBijection(1 .. n, Of(i))
    BY <2>2 DEF ExistsBijection
  <2> QED
    BY <2>1, <2>3, <2>4, FS_Bijection
<1>4. ASSUME NEW T \in SUBSET L, \A U \in SUBSET T : U # T => U \in Good
      PROVE  T \in Good
  <2>1. CASE T = {}
    <3>1. All(T) = {}
        BY <2>1
    <3> QED
        BY <2>1, <3>1, SumEmpty, FS_EmptySet
  <2>2. CASE T # {}
    <3>1. PICK i \in T : TRUE
        BY <2>2
    <3> DEFINE U == T \ {i}
               A == All(U)
               B == Of(i)
    <3>2. IsFiniteSet(A) /\ Cardinality(A) = SumFunctionOnSet(q, U)
        BY <1>4, <3>1
    <3>3. IsFiniteSet(B) /\ Cardinality(B) = q[i]
        BY <1>3, <3>1
    <3>4. All(T) = A \cup B
        BY <3>1
    <3>5. A \cap B = {}
      <4>1. ASSUME NEW x \in A, x \in B PROVE FALSE
        <5>1. x[2] = i
            BY <4>1
        <5>2. x[2] # i
            BY <4>1
        <5> QED
            BY <5>1, <5>2
      <4> QED
        BY <4>1
    <3>6. IsFiniteSet(T) /\ \A j \in T : q[j] \in Int
        BY <1>1, <1>2, FS_Subset
    <3>7. SumFunctionOnSet(q, T) = q[i] + SumFunctionOnSet(q, U)
      <4> HIDE DEF q
      <4> QED
        BY <3>1, <3>6, SumRemove
    <3> HIDE DEF A, B
    <3>8. /\ IsFiniteSet(A \cup B)
          /\ Cardinality(A \cup B) = Cardinality(A) + Cardinality(B) - Cardinality(A \cap B)
        BY <3>2, <3>3, FS_Union
    <3>9. Cardinality(A) \in Nat /\ Cardinality(B) \in Nat /\ Cardinality(A \cap B) = 0
        BY <3>2, <3>3, <3>5, FS_CardinalityType, FS_EmptySet
    <3>10. Cardinality(A \cup B) = SumFunctionOnSet(q, T)
      <4> DEFINE s == SumFunctionOnSet(q, T)
                 u == SumFunctionOnSet(q, U)
                 e == q[i]
      <4>1. s = e + u /\ Cardinality(A) = u /\ Cardinality(B) = e
        BY <3>2, <3>3, <3>7
      <4> HIDE DEF s, u, e
      <4>2. Cardinality(A \cup B) = s
        BY <3>8, <3>9, <4>1
      <4> QED
        BY <4>2 DEF s
    <3> QED
        BY <3>4, <3>8, <3>10
  <2> QED
    BY <2>1, <2>2
<1> HIDE DEF Good
<1>5. L \in Good
  <2> HIDE DEF L
  <2> QED
    BY <1>1, <1>4, SubsetInduction
<1>6. All(L) = ItemsOf(g, c)
  <2>1. ASSUME NEW i \in DOMAIN legs, NEW k \in 1 .. legs[i].quantity
        PROVE  ItemClass(<<g, i, k>>) = LegClass(legs, i)
    BY DEF ItemClass, FareOf, LegClass
  <2> QED
    BY <2>1 DEF ItemsOf, Items, LegsIn
<1> QED
    BY <1>5, <1>6 DEF Good

LEMMA SoldIsFinite ==
    ASSUME IInv, NEW c
    PROVE  IsFiniteSet(SoldIn(c)) /\ Cardinality(SoldIn(c)) \in Nat
<1> DEFINE all == {Items(g) : g \in DOMAIN booking}
<1>1. IsFiniteSet(DOMAIN booking) /\ \A T \in all : IsFiniteSet(T)
  <2>1. DOMAIN booking \subseteq DOMAIN group /\ \A g \in DOMAIN booking : IsGroup(group[g])
    BY DEF IInv, GroupRows, BookingRows
  <2> QED
    BY <2>1, ItemsExist, FS_Subset DEF IInv, GroupRows
<1>2. IsFiniteSet(all)
  <2> DEFINE f == [g \in DOMAIN booking |-> Items(g)]
  <2>1. f \in Surjection(DOMAIN booking, all)
    BY DEF Surjection
  <2> HIDE DEF f, all
  <2> QED
    BY <1>1, <2>1, FS_Surjection
<1>3. IsFiniteSet(UNION all)
  <2> HIDE DEF all
  <2> QED
    BY <1>1, <1>2, FS_UNION
<1>4. SoldIn(c) \subseteq UNION all
    BY DEF IInv, ItemRows, SoldIn, Confirmed
<1> HIDE DEF all
<1> QED
    BY <1>3, <1>4, FS_Subset, FS_CardinalityType

\* No seat is sold or given back while items keep their status.
LEMMA SoldStays ==
    ASSUME IInv, DOMAIN item' = DOMAIN item,
           \A x \in DOMAIN item : item'[x].status = item[x].status,
           \A g \in DOMAIN group : Legs(g)' = Legs(g), NEW c
    PROVE  SoldIn(c)' = SoldIn(c)
<1>1. Confirmed' = Confirmed
    BY DEF Confirmed
<1>2. \A x \in Confirmed : ItemClass(x)' = ItemClass(x)
  <2>1. \A x \in Confirmed : x[1] \in DOMAIN group
    BY ItemIs DEF Confirmed, IInv, ItemRows, BookingRows
  <2> QED
    BY <2>1 DEF ItemClass, FareOf
<1> QED
    BY <1>1, <1>2 DEF SoldIn

LEMMA HeldStays ==
    ASSUME UNCHANGED group, NEW c
    PROVE  QuantityOf(ActiveIn(c))' = QuantityOf(ActiveIn(c))
<1>1. \A g : Legs(g)' = Legs(g)
    BY DEF Legs
<1>2. HoldsIn(c)' = HoldsIn(c)
    BY <1>1 DEF HoldsIn
<1>3. ActiveIn(c)' = ActiveIn(c)
    BY <1>2 DEF ActiveIn
<1> QED
    BY <1>1, <1>3 DEF QuantityOf

\* cancel_booking_item gives one seat back for each item it cancels.
LEMMA CancelItemsSeats ==
    ASSUME IInv, NEW xs \in SUBSET Confirmed, NEW reason, CancelItems(xs, reason), UNCHANGED group,
           seats \in [SeatClasses -> Nat]
    PROVE  /\ seats' \in [SeatClasses -> Nat]
           /\ \A c \in SeatClasses :
                /\ seats'[c] + Cardinality(SoldIn(c)') = seats[c] + Cardinality(SoldIn(c))
                /\ Cardinality(SoldIn(c)') <= Cardinality(SoldIn(c))
<1> DEFINE xsIn(c) == {x \in xs : ItemClass(x) = c}
<1>1. seats' = [c \in SeatClasses |-> seats[c] + Cardinality(xsIn(c))]
    BY DEF CancelItems
<1>2. ASSUME NEW c \in SeatClasses
      PROVE  /\ SoldIn(c)' = SoldIn(c) \ xsIn(c) /\ xsIn(c) \subseteq SoldIn(c)
  <2>1. xsIn(c) \subseteq SoldIn(c)
    BY DEF SoldIn
  <2>2. Confirmed' = Confirmed \ xs
    BY DEF CancelItems, Confirmed
  <2>3. \A x : ItemClass(x)' = ItemClass(x)
    BY DEF ItemClass, FareOf, Legs
  <2> QED
    BY <2>1, <2>2, <2>3 DEF SoldIn
<1> HIDE DEF xsIn
<1>3. ASSUME NEW c \in SeatClasses
      PROVE  /\ Cardinality(xsIn(c)) \in Nat /\ Cardinality(SoldIn(c)) \in Nat
             /\ Cardinality(SoldIn(c)') \in Nat
             /\ Cardinality(SoldIn(c)') = Cardinality(SoldIn(c)) - Cardinality(xsIn(c))
  <2> DEFINE S == SoldIn(c)
             X == xsIn(c)
  <2>1. IsFiniteSet(S) /\ X \subseteq S /\ SoldIn(c)' = S \ X
    BY <1>2, SoldIsFinite
  <2> HIDE DEF S, X
  <2>2. IsFiniteSet(X) /\ IsFiniteSet(S \ X)
    BY <2>1, FS_Subset
  <2>3. Cardinality(S \ X) = Cardinality(S) - Cardinality(S \cap X) /\ S \cap X = X
    BY <2>1, FS_Difference
  <2>4. Cardinality(S) \in Nat /\ Cardinality(X) \in Nat /\ Cardinality(S \ X) \in Nat
    BY <2>1, <2>2, FS_CardinalityType
  <2> QED
    BY <2>1, <2>3, <2>4 DEF S, X
<1> QED
    BY <1>1, <1>3

\* confirm_booking sells exactly the seats that the group's holds had.
LEMMA ConfirmSeats ==
    ASSUME IInv, IInv', NEW g \in Groups, Confirm(g), seats \in [SeatClasses -> Nat]
    PROVE  /\ seats' \in [SeatClasses -> Nat]
           /\ \A c \in SeatClasses : \E n, e \in Nat :
                /\ Cardinality(SoldIn(c)') = Cardinality(SoldIn(c)) + n
                /\ QuantityOf(ActiveIn(c))' = QuantityOf(ActiveIn(c)) - n - e
                /\ seats'[c] = seats[c] + e
<1> DEFINE cs == {LegClass(Legs(g), i) : i \in DOMAIN Legs(g)}
           old == GroupsAfter(cs)
<1>1. /\ g \in DOMAIN group /\ AllLive(g) /\ seats' = SeatsAfter(cs)
      /\ group' = [old EXCEPT ![g] = WithHold(@, ConvertHolds(@.hold))]
    BY DEF Confirm
<1>2. DOMAIN old = DOMAIN group
    BY DEF GroupsAfter
<1>3. \A h \in DOMAIN group \ {g} : group'[h] = old[h]
  <2> HIDE DEF old
  <2> QED
    BY <1>1, <1>2
<1>4. /\ DOMAIN group' = DOMAIN group /\ \A h \in DOMAIN group : Legs(h)' = Legs(h)
      /\ \A i \in DOMAIN Legs(g) : group'[g].hold[i] = "converted"
      /\ DOMAIN item' = DOMAIN item \cup Items(g) /\ Items(g) \cap DOMAIN item = {}
      /\ \A x \in Items(g) : item'[x].status = "confirmed"
      /\ \A x \in DOMAIN item : item'[x] = item[x]
  <2>1. /\ DOMAIN group' = DOMAIN group /\ \A h \in DOMAIN group : group'[h].legs = group[h].legs
        /\ \A i \in DOMAIN Legs(g) : group'[g].hold[i] = "converted"
    BY ConfirmWrites
  <2>2. /\ DOMAIN item' = DOMAIN item \cup Items(g) /\ Items(g) \cap DOMAIN item = {}
        /\ \A x \in Items(g) :
                item'[x] = [status |-> "confirmed", override |-> FALSE, reason |-> "none"]
        /\ \A x \in DOMAIN item : item'[x] = item[x]
    BY ConfirmWrites
  <2>3. \A h \in DOMAIN group : Legs(h)' = Legs(h)
    BY <2>1 DEF Legs
  <2> QED
    BY <2>1, <2>2, <2>3
<1>5. GroupRows /\ GroupRows' /\ IsGroup(group[g]) /\ Legs(g) \in Itineraries
    BY <1>1 DEF IInv, GroupRows, IsGroup, Legs
<1>6. \A i \in DOMAIN Legs(g) : group[g].hold[i] = "active" /\ ~IsStale(g, i)
    BY <1>1 DEF AllLive
<1> HIDE DEF cs
<1>7. ASSUME NEW c \in SeatClasses
      PROVE  \E n, e \in Nat :
                /\ Cardinality(SoldIn(c)') = Cardinality(SoldIn(c)) + n
                /\ QuantityOf(ActiveIn(c))' = QuantityOf(ActiveIn(c)) - n - e
                /\ SeatsAfter(cs)[c] = seats[c] + e
  <2> DEFINE stale == Ended(c, cs)
             own == HoldsOf(g, Legs(g), c)
             sold == SoldIn(c)
             new == ItemsOf(g, c)
  <2>1. \A h \in HoldsIn(c) :
            /\ h[1] \in DOMAIN group /\ h[2] \in LegsIn(Legs(h[1]), c) /\ h = <<h[1], h[2]>>
            /\ Legs(h[1])[h[2]].quantity \in Nat
    BY <1>5, HoldsAre DEF HoldsHave
  <2>2. own \subseteq ActiveIn(c) /\ \A h \in own : h[1] = g /\ ~IsStale(g, h[2])
    <3>1. \A i \in LegsIn(Legs(g), c) : <<g, i>> \in HoldsIn(c) /\ i \in DOMAIN Legs(g)
        BY <1>1, <1>5, HoldsAre DEF HoldsHave, LegsIn
    <3> QED
        BY <1>6, <3>1 DEF HoldsOf, ActiveIn
  <2>3. stale \subseteq ActiveIn(c) /\ SeatsAfter(cs)[c] = seats[c] + QuantityOf(stale)
    BY <1>5, EndedIs
  <2>4. stale \cap own = {}
    BY <2>2 DEF Ended, StaleIn
  <2>5. \A h \in HoldsIn(c) :
            group'[h[1]].hold[h[2]] = "active"
                <=> group[h[1]].hold[h[2]] = "active" /\ h \notin stale \cup own
    <3> TAKE h \in HoldsIn(c)
    <3>1. CASE h[1] = g
      <4>1. h \in own /\ h[2] \in DOMAIN Legs(g)
        BY <2>1, <3>1 DEF HoldsOf, LegsIn
      <4>2. group'[h[1]].hold[h[2]] = "converted"
        BY <1>4, <3>1, <4>1
      <4> QED
        BY <4>1, <4>2
    <3>2. CASE h[1] # g
      <4>1. h \notin own
        BY <2>2, <3>2
      <4>2. group'[h[1]] = old[h[1]]
        BY <1>3, <2>1, <3>2
      <4>3. old[h[1]].hold[h[2]] = "active" <=> group[h[1]].hold[h[2]] = "active" /\ h \notin stale
        BY <1>5, EndedIs
      <4> QED
        BY <4>1, <4>2, <4>3
    <3> QED
        BY <3>1, <3>2
  <2>6. \A h : h \in {} <=> /\ h \in HoldsIn(c)' /\ h[1] \notin DOMAIN group
                            /\ group'[h[1]].hold[h[2]] = "active"
    BY <1>4, <1>5, HoldsAreNext DEF HoldsHave
  <2>7. IsFiniteSet(stale) /\ IsFiniteSet(own) /\ \A h \in stale \cup own : Legs(h[1])[h[2]].quantity \in Nat
    <3>1. IsFiniteSet(HoldsIn(c)) /\ ActiveIn(c) \subseteq HoldsIn(c)
        BY <1>5, HoldsAre DEF HoldsHave, ActiveIn
    <3>2. stale \subseteq HoldsIn(c) /\ own \subseteq HoldsIn(c)
        BY <2>2, <2>3, <3>1
    <3> HIDE DEF stale, own
    <3> QED
        BY <2>1, <3>1, <3>2, FS_Subset
  <2>8. /\ QuantityOf(own) = SumFunctionOnSet(Quantities(Legs(g)), LegsIn(Legs(g), c))
        /\ Cardinality(new) = SumFunctionOnSet(Quantities(Legs(g)), LegsIn(Legs(g), c))
    BY <1>5, QuantityOfGroup, ItemsOfClass
  <2>9. SoldIn(c)' = sold \cup new /\ sold \cap new = {} /\ IsFiniteSet(new)
    <3>1. Confirmed' = Confirmed \cup Items(g)
        BY <1>4 DEF Confirmed
    <3>2. \A x \in Confirmed \cup Items(g) : ItemClass(x)' = ItemClass(x)
      <4>1. \A x \in Confirmed \cup Items(g) : x[1] \in DOMAIN group
        BY <1>1, ItemIs DEF Confirmed, IInv, ItemRows, BookingRows
      <4> QED
        BY <1>4, <4>1 DEF ItemClass, FareOf
    <3>3. SoldIn(c)' = sold \cup new
        BY <3>1, <3>2 DEF SoldIn, ItemsOf
    <3>4. sold \cap new = {}
        BY <1>4 DEF SoldIn, ItemsOf, Confirmed
    <3>5. IsFiniteSet(new)
        BY <1>5, ItemsExist, FS_Subset DEF ItemsOf
    <3> QED
        BY <3>3, <3>4, <3>5
  <2>10. \A h \in DOMAIN group : h \in DOMAIN group' /\ Legs(h)' = Legs(h)
    BY <1>4
  <2>11. IsFiniteSet(sold)
    BY SoldIsFinite
  <2> HIDE DEF stale, own, sold, new
  <2> DEFINE gone == stale \cup own
  <2>12. gone \subseteq ActiveIn(c) /\ \A h \in HoldsIn(c) :
            group'[h[1]].hold[h[2]] = "active" <=> group[h[1]].hold[h[2]] = "active" /\ h \notin gone
    BY <2>2, <2>3, <2>5
  <2>13. /\ QuantityOf(ActiveIn(c)) \in Nat
         /\ QuantityOf(ActiveIn(c))' = QuantityOf(ActiveIn(c)) - QuantityOf(stale \cup own) + QuantityOf({})'
    <3> HIDE DEF gone
    <3>1. PICK none : none = {}
        OBVIOUS
    <3>2. \A h : h \in none <=> /\ h \in HoldsIn(c)' /\ h[1] \notin DOMAIN group
                                /\ group'[h[1]].hold[h[2]] = "active"
        BY <2>6, <3>1
    <3>3. /\ QuantityOf(ActiveIn(c)) \in Nat
          /\ QuantityOf(ActiveIn(c))' = QuantityOf(ActiveIn(c)) - QuantityOf(gone) + QuantityOf(none)'
        BY <1>5, <2>10, <2>12, <3>2, HeldStep
    <3>4. QuantityOf(none)' = QuantityOf({})'
        BY <3>1
    <3> QED
        BY <3>3, <3>4 DEF gone
  <2>14. /\ QuantityOf(stale) \in Nat /\ QuantityOf(own) \in Nat
         /\ QuantityOf(stale \cup own) = QuantityOf(stale) + QuantityOf(own)
    BY <2>4, <2>7, QuantitySplit
  <2>15. Cardinality(sold \cup new) = Cardinality(sold) + Cardinality(new)
    <3>1. /\ Cardinality(sold \cup new) = Cardinality(sold) + Cardinality(new) - Cardinality(sold \cap new)
          /\ Cardinality(sold \cap new) = 0
        BY <2>9, <2>11, FS_Union, FS_EmptySet
    <3> QED
        BY <2>9, <2>11, <3>1, FS_CardinalityType
  <2>16. Cardinality(SoldIn(c)') = Cardinality(sold) + QuantityOf(own)
    BY <2>8, <2>9, <2>15
  <2>17. QuantityOf(ActiveIn(c))' = QuantityOf(ActiveIn(c)) - QuantityOf(own) - QuantityOf(stale)
    BY <2>13, <2>14, NoQuantity
  <2> USE <2>14
  <2> WITNESS QuantityOf(own) \in Nat, QuantityOf(stale) \in Nat
  <2> QED
    BY <2>3, <2>14, <2>16, <2>17 DEF sold
<1>8. SeatsAfter(cs) \in [SeatClasses -> Nat]
  <2>1. \A c \in SeatClasses : SeatsAfter(cs)[c] \in Nat
    BY <1>7
  <2> QED
    BY <2>1 DEF SeatsAfter
<1> QED
    BY <1>1, <1>7, <1>8

-----------------------------------------------------------------------------
(* The seat inventory is implemented *)

\* Every seat of a cabin is free, held or sold, exactly once.
Balance ==
    /\ seats \in [SeatClasses -> Nat]
    /\ \A c \in SeatClasses : seats[c] + Held[c] + Sold[c] = Total[c]

LEMMA HeldIs == \A c \in SeatClasses : Held[c] = QuantityOf(ActiveIn(c))
BY DEF Held, ActiveIn

LEMMA SoldIs == \A c \in SeatClasses : Sold[c] = Cardinality(SoldIn(c))
BY DEF Sold, SoldIn

\* IInv makes every count a number.
Counted == Held \in [SeatClasses -> Nat] /\ Sold \in [SeatClasses -> Nat]

LEMMA CountsAre == IInv => Counted
<1> SUFFICES ASSUME IInv PROVE Counted
    OBVIOUS
<1>1. ASSUME NEW c \in SeatClasses PROVE QuantityOf(ActiveIn(c)) \in Nat
  <2> DEFINE S == ActiveIn(c)
  <2>1. IsFiniteSet(HoldsIn(c)) /\ S \subseteq HoldsIn(c)
        /\ \A h \in HoldsIn(c) : Legs(h[1])[h[2]].quantity \in Nat
    BY HoldsAre DEF IInv, HoldsHave, ActiveIn
  <2>2. IsFiniteSet(S) /\ \A h \in S : Legs(h[1])[h[2]].quantity \in Nat
    BY <2>1, FS_Subset
  <2> HIDE DEF S
  <2>3. IsFiniteSet({}) /\ S \cap {} = {} /\ \A h \in S \cup {} : Legs(h[1])[h[2]].quantity \in Nat
    BY <2>2, FS_EmptySet
  <2>4. QuantityOf(S) \in Nat
    BY <2>2, <2>3, QuantitySplit
  <2> QED
    BY <2>4 DEF S
<1>2. \A c \in SeatClasses : Held[c] \in Nat /\ Sold[c] \in Nat
    BY <1>1, HeldIs, SoldIs, SoldIsFinite
<1> QED
    BY <1>2 DEF Counted, Held, Sold

\* It is enough that seats move as SeatInventory says.
LEMMA Moves ==
    ASSUME Balance, Counted, Counted', seats' \in [SeatClasses -> Nat],
           \A c \in SeatClasses :
                /\ seats'[c] + Held'[c] + Sold'[c] = seats[c] + Held[c] + Sold[c]
                /\ Sold'[c] > Sold[c] => Held[c] - Held'[c] >= Sold'[c] - Sold[c]
    PROVE  Balance' /\ Inventory!Move
<1>1. Balance'
    BY DEF Balance
<1>2. /\ seats' \in [SeatClasses -> Nat] /\ Held' \in [SeatClasses -> Nat]
      /\ Sold' \in [SeatClasses -> Nat]
    BY DEF Counted
<1> QED
    BY <1>1, <1>2 DEF Inventory!Move, Inventory!MayMove, Inventory!Counts

LEMMA HeldNext == \A c \in SeatClasses : Held'[c] = QuantityOf(ActiveIn(c))'
<1>1. (\A c \in SeatClasses : Held[c] = QuantityOf(ActiveIn(c)))'
    BY HeldIs, PTL
<1> QED
    BY <1>1

LEMMA SoldNext == \A c \in SeatClasses : Sold'[c] = Cardinality(SoldIn(c)')
<1>1. (\A c \in SeatClasses : Sold[c] = Cardinality(SoldIn(c)))'
    BY SoldIs, PTL
<1> QED
    BY <1>1

LEMMA InitBalance == Init => Balance /\ Inventory!Init
<1> SUFFICES ASSUME Init PROVE Balance /\ Inventory!Init
    OBVIOUS
<1>1. \A c \in SeatClasses : Held[c] = 0
  <2> TAKE c \in SeatClasses
  <2>1. DOMAIN group = {}
    BY DEF Init, Nothing
  <2>2. ActiveIn(c) = {}
    BY <2>1 DEF ActiveIn, HoldsIn
  <2> QED
    BY <2>2, HeldIs, NoQuantity
<1>2. \A c \in SeatClasses : Sold[c] = 0
  <2> TAKE c \in SeatClasses
  <2>1. DOMAIN item = {}
    BY DEF Init, Nothing
  <2>2. SoldIn(c) = {}
    BY <2>1 DEF SoldIn, Confirmed
  <2> QED
    BY <2>2, SoldIs, FS_EmptySet
<1>3. Balance
    BY <1>1, <1>2, CatalogueAssumption DEF Init, Balance
<1>4. Held = [c \in SeatClasses |-> 0] /\ Sold = [c \in SeatClasses |-> 0]
    BY <1>1, <1>2 DEF Held, Sold
<1> QED
    BY <1>3, <1>4 DEF Inventory!Init, Init

LEMMA InventoryStep ==
    ASSUME IInv, IInv', Balance, Next
    PROVE  Balance' /\ (Inventory!Move \/ UNCHANGED <<seats, Held, Sold>>)
<1>1. Counted /\ Counted'
  <2>1. IInv' => Counted'
    BY CountsAre, PTL
  <2> QED
    BY <2>1, CountsAre
<1>2. \A c \in SeatClasses :
        /\ Held[c] = QuantityOf(ActiveIn(c)) /\ Held'[c] = QuantityOf(ActiveIn(c))'
        /\ Sold[c] = Cardinality(SoldIn(c)) /\ Sold'[c] = Cardinality(SoldIn(c)')
        /\ Held[c] \in Nat /\ Held'[c] \in Nat /\ Sold[c] \in Nat /\ Sold'[c] \in Nat
    BY <1>1, HeldIs, HeldNext, SoldIs, SoldNext DEF Counted
<1>3. seats \in [SeatClasses -> Nat]
    BY DEF Balance
<1>4. ASSUME NEW g \in Groups, NEW legs \in Itineraries, Hold(g, legs) \/ RefuseHold(g, legs)
      PROVE  Balance' /\ Inventory!Move
  <2>1. /\ seats' \in [SeatClasses -> Nat]
        /\ \A c \in SeatClasses :
                seats'[c] + QuantityOf(ActiveIn(c))' = seats[c] + QuantityOf(ActiveIn(c))
    BY <1>3, <1>4, HoldSeats, RefuseHoldSeats
  <2>2. \A h \in DOMAIN group : Legs(h)' = Legs(h)
    BY <1>3, <1>4, HoldSeats, RefuseHoldSeats
  <2>3. item' = item
    BY <1>4 DEF Hold, RefuseHold
  <2>4. \A c \in SeatClasses : SoldIn(c)' = SoldIn(c)
    BY <2>2, <2>3, SoldStays
  <2>5. \A c \in SeatClasses :
            /\ seats'[c] + Held'[c] + Sold'[c] = seats[c] + Held[c] + Sold[c] /\ Sold'[c] = Sold[c]
    <3> TAKE c \in SeatClasses
    <3>1. seats'[c] + Held'[c] = seats[c] + Held[c] /\ Sold'[c] = Sold[c]
        BY <1>2, <2>1, <2>4
    <3> QED
        BY <1>2, <1>3, <2>1, <3>1
  <2> QED
    BY <1>1, <1>2, <2>1, <2>5, Moves
<1>5. ASSUME NEW g \in Groups, Confirm(g) PROVE Balance' /\ Inventory!Move
  <2>1. /\ seats' \in [SeatClasses -> Nat]
        /\ \A c \in SeatClasses : \E n, e \in Nat :
                /\ Cardinality(SoldIn(c)') = Cardinality(SoldIn(c)) + n
                /\ QuantityOf(ActiveIn(c))' = QuantityOf(ActiveIn(c)) - n - e
                /\ seats'[c] = seats[c] + e
    BY <1>3, <1>5, ConfirmSeats
  <2>2. \A c \in SeatClasses :
            /\ seats'[c] + Held'[c] + Sold'[c] = seats[c] + Held[c] + Sold[c]
            /\ Sold'[c] > Sold[c] => Held[c] - Held'[c] >= Sold'[c] - Sold[c]
    <3> TAKE c \in SeatClasses
    <3>1. PICK n, e \in Nat :
            Sold'[c] = Sold[c] + n /\ Held'[c] = Held[c] - n - e /\ seats'[c] = seats[c] + e
        BY <1>2, <2>1
    <3> QED
        BY <1>2, <1>3, <3>1
  <2> QED
    BY <1>1, <2>1, <2>2, Moves
<1>6. ASSUME NEW xs \in SUBSET Confirmed, NEW reason \in Reasons, CancelItems(xs, reason),
             UNCHANGED group
      PROVE  Balance' /\ Inventory!Move
  <2>1. /\ seats' \in [SeatClasses -> Nat]
        /\ \A c \in SeatClasses :
            /\ seats'[c] + Cardinality(SoldIn(c)') = seats[c] + Cardinality(SoldIn(c))
            /\ Cardinality(SoldIn(c)') <= Cardinality(SoldIn(c))
    BY <1>3, <1>6, CancelItemsSeats
  <2>2. \A c \in SeatClasses : QuantityOf(ActiveIn(c))' = QuantityOf(ActiveIn(c))
    BY <1>6, HeldStays
  <2>3. \A c \in SeatClasses :
            /\ seats'[c] + Held'[c] + Sold'[c] = seats[c] + Held[c] + Sold[c]
            /\ ~(Sold'[c] > Sold[c])
    <3> TAKE c \in SeatClasses
    <3>1. seats'[c] + Sold'[c] = seats[c] + Sold[c] /\ Sold'[c] <= Sold[c] /\ Held'[c] = Held[c]
        BY <1>2, <2>1, <2>2
    <3> QED
        BY <1>2, <1>3, <2>1, <3>1
  <2> QED
    BY <1>1, <2>1, <2>3, Moves
<1>7. ASSUME UNCHANGED <<seats, group>>, DOMAIN item' = DOMAIN item,
             \A x \in DOMAIN item : item'[x].status = item[x].status
      PROVE  Balance' /\ UNCHANGED <<seats, Held, Sold>>
  <2>1. \A h \in DOMAIN group : Legs(h)' = Legs(h)
    BY <1>7 DEF Legs
  <2>2. \A c \in SeatClasses : Held'[c] = Held[c] /\ Sold'[c] = Sold[c]
    BY <1>2, <1>7, <2>1, SoldStays, HeldStays
  <2>3. Held' = Held /\ Sold' = Sold
    BY <1>1, <2>2 DEF Counted
  <2> QED
    BY <1>7, <2>3 DEF Balance
<1>8. ASSUME NEW f, NEW shift, Override(f, shift), UNCHANGED <<seats, group>>
      PROVE  Balance' /\ UNCHANGED <<seats, Held, Sold>>
  <2>1. DOMAIN item' = DOMAIN item /\ \A x \in DOMAIN item : item'[x].status = item[x].status
    <3>1. \A x \in DOMAIN item :
            item'[x] = item[x] \/ item'[x] = [item[x] EXCEPT !.override = TRUE]
        BY <1>8 DEF Override
    <3>2. \A x \in DOMAIN item : item[x] \in Item
        BY DEF IInv, ItemRows
    <3> QED
        BY <1>8, <3>1, <3>2 DEF Override, Item
  <2> QED
    BY <1>7, <1>8, <2>1
<1>9. CASE \E g \in Groups, legs \in Itineraries : Hold(g, legs) \/ RefuseHold(g, legs)
    BY <1>4, <1>9
<1>10. CASE \E g \in Groups : Confirm(g)
    BY <1>5, <1>10
<1>11. CASE \E g \in DOMAIN booking, reason \in Reasons : CancelBooking(g, reason)
  <2>1. \A g : Items(g) \cap Confirmed \in SUBSET Confirmed
    OBVIOUS
  <2> QED
    BY <1>6, <1>11, <2>1 DEF CancelBooking
<1>12. CASE \E x \in DOMAIN item, reason \in Reasons : CancelItem(x, reason)
  <2>1. PICK x \in DOMAIN item, reason \in Reasons : CancelItem(x, reason)
    BY <1>12
  <2>2. {x} \in SUBSET Confirmed
    BY <2>1 DEF CancelItem, Confirmed, IInv, ItemRows, Item
  <2> QED
    BY <1>6, <2>1, <2>2 DEF CancelItem
<1>13. CASE \E f \in Flights : CancelFlight(f)
  <2>1. \A f : OnFlight(f) \in SUBSET Confirmed
    BY DEF OnFlight
  <2> QED
    BY <1>6, <1>13, <2>1 DEF CancelFlight, Reasons
<1>14. CASE \/ \E x \in DOMAIN refund : \E k \in DOMAIN refund[x] : ApproveRefund(x, k)
            \/ \E f \in Flights : ResolveDelay(f)
            \/ Tick
    BY <1>7, <1>14 DEF ApproveRefund, ResolveDelay, Tick
<1>15. CASE \/ \E f \in Flights, t \in DelayTimes : MarkDelayed(f, t)
            \/ \E f \in Flights, t \in EditTimes : EditSchedule(f, t)
    BY <1>8, <1>15 DEF MarkDelayed, EditSchedule
<1> QED
    BY <1>9, <1>10, <1>11, <1>12, <1>13, <1>14, <1>15 DEF Next

LEMMA CountsStay ==
    ASSUME UNCHANGED vars PROVE UNCHANGED <<seats, Held, Sold>>
<1>1. \A g : Legs(g)' = Legs(g)
    BY DEF vars, Legs
<1>2. \A c : HoldsIn(c)' = HoldsIn(c)
    BY <1>1 DEF vars, HoldsIn
<1>3. \A c : ActiveIn(c)' = ActiveIn(c)
    BY <1>2 DEF vars, ActiveIn
<1>4. \A c : QuantityOf(ActiveIn(c))' = QuantityOf(ActiveIn(c))
    BY <1>1, <1>3 DEF QuantityOf
<1>5. \A c : SoldIn(c)' = SoldIn(c)
    BY <1>1 DEF vars, SoldIn, Confirmed, ItemClass, FareOf
<1>6. Held = [c \in SeatClasses |-> QuantityOf(ActiveIn(c))]
      /\ Held' = [c \in SeatClasses |-> QuantityOf(ActiveIn(c))']
    BY DEF Held, ActiveIn
<1>7. Sold = [c \in SeatClasses |-> Cardinality(SoldIn(c))]
      /\ Sold' = [c \in SeatClasses |-> Cardinality(SoldIn(c)')]
    BY DEF Sold, SoldIn
<1> QED
    BY <1>4, <1>5, <1>6, <1>7 DEF vars

LEMMA BalanceAlways == Spec => []Balance
<1>1. IInv /\ IInv' /\ Balance /\ [Next]_vars => Balance'
  <2> SUFFICES ASSUME IInv, IInv', Balance, [Next]_vars PROVE Balance'
    OBVIOUS
  <2>1. CASE Next
    BY <2>1, InventoryStep
  <2>2. CASE UNCHANGED vars
    BY <2>2, CountsStay DEF Balance
  <2> QED
    BY <2>1, <2>2
<1>2. Init => Balance
    BY InitBalance
<1> QED
    BY <1>1, <1>2, Invariance, PTL DEF Spec

\* The booking rules implement SeatInventory: whatever the order of holds,
\* expiries, confirmations and cancellations of items, bookings and flights,
\* a seat is free, held or sold, exactly once, and none is sold that was not
\* held before (hold_booking, expire_stale_holds, convert_hold_to_booking,
\* cancel_booking_item, cancel_flight).
THEOREM SeatsAreNeverOversold == Spec => InventorySpec
<1>1. IInv /\ IInv' /\ Balance /\ [Next]_vars => [Inventory!Move]_(Inventory!vars)
  <2> SUFFICES ASSUME IInv, IInv', Balance, [Next]_vars
               PROVE  Inventory!Move \/ UNCHANGED <<seats, Held, Sold>>
    BY DEF Inventory!vars
  <2>1. CASE Next
    BY <2>1, InventoryStep
  <2>2. CASE UNCHANGED vars
    BY <2>2, CountsStay
  <2> QED
    BY <2>1, <2>2
<1>2. Init => Inventory!Init
    BY InitBalance
<1> QED
    BY <1>1, <1>2, Invariance, BalanceAlways, PTL DEF Spec, InventorySpec, Inventory!Spec

\* Every reachable state is well-formed; a cabin's counter is never negative
\* and never above the cabin's size (no oversell, no seat from nowhere).
THEOREM TypeCorrect == Spec => []TypeOK
<1>1. IInv /\ Balance => TypeOK
  <2> SUFFICES ASSUME IInv, Balance PROVE TypeOK
    OBVIOUS
  <2>1. \A c \in SeatClasses : seats[c] \in 0 .. Total[c]
    <3> TAKE c \in SeatClasses
    <3>1. Held[c] \in Nat /\ Sold[c] \in Nat /\ seats[c] \in Nat /\ Total[c] \in Nat
        BY CountsAre, CatalogueAssumption DEF Counted, Balance
    <3>2. seats[c] + Held[c] + Sold[c] = Total[c]
        BY DEF Balance
    <3> QED
        BY <3>1, <3>2
  <2>2. \A f \in Flights : flight[f].status \in {"scheduled", "delayed", "cancelled"}
    BY DEF IInv, Times, Flight
  <2>3. now \in 0 .. MaxTime /\ DOMAIN group \subseteq Groups /\ DOMAIN booking \subseteq DOMAIN group
    BY DEF IInv, Times, GroupRows, BookingRows
  <2>4. DOMAIN item = UNION {Items(g) : g \in DOMAIN booking} /\ DOMAIN refund = DOMAIN item
    BY DEF IInv, ItemRows
  <2> QED
    BY <2>1, <2>2, <2>3, <2>4 DEF TypeOK
<1> QED
    BY <1>1, Invariance, BalanceAlways, PTL

=============================================================================
