SPECIFICATION Spec
CONSTANTS
    c1 = c1  c2 = c2  g0 = g0  h1 = h1  h2 = h2  k1 = k1  k2 = k2  key = key  NoKey = NoKey
    Cabins <- TwoCabins
    Holders = {g0, h1, h2}
    Confirmers = {k1, k2}
    Legs <- OppositeLegs
    Target <- OldGroup
    Key <- SameKey
    After <- SecondWaits
    Existing = {g0}
    Total <- TwoEach
    HoldMinutes = 1
    MaxRetries = 3
    MaxTime = 0
INVARIANTS
    SeatsConserved
    AllOrNothing
    SoldOnce
PROPERTIES
    InventoryMoves
