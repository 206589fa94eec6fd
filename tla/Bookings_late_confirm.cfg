SPECIFICATION Spec
CONSTANTS
    f1 = f1
    f2 = f2
    economy = economy
    connection = connection
    basic = basic
    flexible = flexible
    onward = onward
    Flights = {f1}
    SeatClasses = {economy}
    FlightOf <- OneFlight
    Total <- OneCabin
    Cutoff <- OneCutoff
    Fares = {basic, flexible}
    ClassOf <- OneClass
    Price <- OnePrice
    Refundable = {flexible}
    Groups = {g1}
    Itineraries <- Pairs
    Departure <- LeavesAt2
    DelayTimes = {}
    EditTimes = {}
    HoldMinutes = 1
    OverrideShift = 1
    MaxTime = 0
INVARIANTS
    CancelledFlightsAreEmpty
CHECK_DEADLOCK FALSE
