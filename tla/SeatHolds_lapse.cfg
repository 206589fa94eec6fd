SPECIFICATION FairSpec
CONSTANTS
    c1 = c1  c2 = c2  g0 = g0  h1 = h1  h2 = h2  k1 = k1  k2 = k2  key = key  NoKey = NoKey
    Cabins <- TwoCabins
    Holders = {g0, h1, h2}
    Confirmers = {k1}
    Legs <- Trips
    Target <- OldGroup
    Key <- NoKeys
    After <- NotWaiting
    Existing = {g0}
    Total <- TwoEach
    HoldMinutes = 0
    MaxRetries = 1
    MaxTime = 1
INVARIANTS
    TypeOK
    OnlyRacesLoseSeats
    SoldIsNotHeld
PROPERTIES
    RequestsEnd
