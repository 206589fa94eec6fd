SPECIFICATION Spec
CONSTANTS
    f1 = f1
    f2 = f2
    economy = economy
    connection = connection
    basic = basic
    flexible = flexible
    onward = onward
    Flights = {f1, f2}
    SeatClasses = {economy, connection}
    FlightOf <- TwoFlights
    Total <- TwoCabins
    Cutoff <- TwoCutoffs
    Fares = {basic, onward}
    ClassOf <- TwoClasses
    Price <- TwoPrices
    Refundable = {onward}
    Groups = {g1, g2}
    Itineraries <- Journeys
    Departure <- LeavesAt2
    DelayTimes = {}
    EditTimes = {3}
    HoldMinutes = 0
    OverrideShift = 1
    MaxTime = 1
INVARIANTS
    TypeOK
    SoldAsAWhole
PROPERTIES
    InventorySpec
SYMMETRY MCSymmetry
CHECK_DEADLOCK FALSE
