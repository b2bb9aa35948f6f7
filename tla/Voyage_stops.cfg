SPECIFICATION FairSpec
CONSTANTS
    Travellers = {p, q}
    Null = Null
    Lines <- SoldLines
    Jobs <- JobNames
    Rooms <- RouteRooms
    Tickets <- RouteTickets
CHECK_DEADLOCK FALSE
PROPERTY
    TakesOffAgain
