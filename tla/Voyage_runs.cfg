SPECIFICATION FairSpec
CONSTANTS
    Travellers = {p, q}
    Null = Null
    Lines <- RouteLines
    Jobs <- JobNames
    Rooms <- RouteRooms
    Tickets <- RouteTickets
INVARIANTS
    TypeOK
    LoopEmpties
    NobodyLeftAboard
    NobodyLeftWaiting
    NeverForgotten
PROPERTIES
    Departs
    Lands
