SPECIFICATION Spec
CONSTANTS
    c1 = c1  c2 = c2  g0 = g0  h1 = h1  h2 = h2  k1 = k1  k2 = k2  key = key  NoKey = NoKey
    Cabins <- OneCabin
    Holders = {g0, h1, h2}
    Confirmers = {}
    Legs <- OneSeatEach
    Target <- OldGroup
    Key <- NoKeys
    After <- NotWaiting
    Existing = {g0}
    Total <- OneEach
    HoldMinutes = 1
    MaxRetries = 3
    MaxTime = 2
INVARIANTS
    NeverOversold
