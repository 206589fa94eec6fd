SPECIFICATION Spec
CONSTANTS
    f1 = f1
    f2 = f2
    economy = economy
    connection = connection
    basic = basic
    flexible = flexible
    onward = onward
    Flights = {f1, f2}
    SeatClasses = {economy, connection}
    FlightOf <- TwoFlights
    Total <- TwoCabins
    Cutoff <- TwoCutoffs
    Fares = {basic, onward}
    ClassOf <- TwoClasses
    Price <- TwoPrices
    Refundable = {onward}
    Groups = {g1, g2}
    Itineraries <- Journeys
    Departure <- LeavesAt2
    DelayTimes = {3, 4}
    EditTimes = {}
    HoldMinutes = 1
    OverrideShift = 1
    MaxTime = 0
INVARIANTS
    StatusFollowsItems
    SettledOnce
    RefundsWithinPrice
PROPERTIES
    ShiftsAccumulate
SYMMETRY MCSymmetry
CHECK_DEADLOCK FALSE
