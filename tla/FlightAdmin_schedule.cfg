SPECIFICATION Spec
CONSTANTS
    x = x  y = y  grow = grow  shrink = shrink  regrow = regrow  take = take
    edit = edit  late = late  later = later  resolve = resolve  cancel = cancel  map = map  big = big
    Nobody = Nobody  NoTime = NoTime
    Cabins = {x, y}
    Resizes = {}
    Passengers = {}
    Edits = {edit}
    Delays = {late, later}
    Resolves = {resolve}
    Cancels = {cancel}
    Maps = {map, big}
    CabinOf <- InCabin
    Seats <- Asked
    Leaves <- Times
    Layout <- FullMap
    Capacity <- TwoEach
    Sold <- OneSold
    Departure = 5
    OverrideShift = 1
PROPERTIES
    CancelledIsFinal
    OriginalIsTrue
    DelaysAccumulate
