SPECIFICATION Spec
CONSTANTS
    i1 = i1
    i2 = i2
    i3 = i3
    b1 = b1
    b2 = b2
    f1 = f1
    cancel = cancel
    again = again
    whole = whole
    ground = ground
    regret = regret
    key = key
    Items = {i1, i2, i3}
    BookingOf <- CoupleAndSolo
    FlightOf <- OneFlight
    CabinOf <- OneCabin
    Refundable = {i1}
    ItemCancels = {cancel, again}
    BookingCancels = {whole}
    FlightCancels = {ground, regret}
    On <- Targets
    Reason <- Reasons
    Key <- SameKey
    NoKey = NoKey
    NoItem = NoItem
    After <- AgainWaits
    MaxRetries = 2
INVARIANTS
    TypeOK
    SeatsMatchAudit
    StatusNeverAhead
    AirlinePays
