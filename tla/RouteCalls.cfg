SPECIFICATION Spec
CONSTANTS
    west = west
    north = north
    east = east
    south = south
    Nodes <- Points
    Crow <- Straight
    Roads <- AllRoads
    NoRoad = NoRoad
    RoadGraphs <- SomeGraphs
    Queries <- SomeQueries
    NoNode = NoNode
    Unreached = Unreached
INVARIANTS
    TypeOK
    ClosedRelaxed
    ParentsTight
    MeetingIsLeast
    AStarOptimal
    BidirectionalOptimal
    TargetsExact
