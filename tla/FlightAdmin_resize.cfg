SPECIFICATION FairSpec
CONSTANTS
    x = x  y = y  grow = grow  shrink = shrink  regrow = regrow  take = take
    edit = edit  late = late  later = later  resolve = resolve  cancel = cancel  map = map  big = big
    Nobody = Nobody  NoTime = NoTime
    Cabins = {x, y}
    Resizes = {grow, shrink, regrow}
    Passengers = {take}
    Edits = {}
    Delays = {}
    Resolves = {}
    Cancels = {cancel}
    Maps = {}
    CabinOf <- InCabin
    Seats <- Asked
    Leaves <- Times
    Layout <- FullMap
    Capacity <- TwoEach
    Sold <- OneSold
    Departure = 5
    OverrideShift = 1
INVARIANTS
    TypeOK
    BookedSeatsKept
PROPERTIES
    WritersKeepBalance
    RequestsEnd
