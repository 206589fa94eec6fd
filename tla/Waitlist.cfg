SPECIFICATION WaitlistSpec
CONSTANTS
    economy = economy  old = old  hold = hold  join = join  party = party
    promote = promote  again = again  next = next  key = key  sale = sale  NoKey = NoKey
    Cabins = {economy}
    Holders = {old, hold, join, party, promote, again, next}
    Confirmers = {sale}
    Joins = {join, party}
    Promotes = {promote, again, next}
    On <- Named
    Legs <- Wishes
    Target <- OldGroup
    Key <- SameKey
    After <- NotWaitingFor
    Existing = {old}
    Total <- TwoSeats
    HoldMinutes = 1
    MaxRetries = 3
    MaxTime = 1
INVARIANTS
    WaitlistTypeOK
    PromotedWithHold
    PromotionsTakeFreeSeats
PROPERTIES
    StocksMove
