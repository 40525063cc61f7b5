SPECIFICATION FairSpec
CONSTANTS
    Requests <- SentRequests
    Ids = {"a", " a", "b", "c", "d", ""}
    NoId = ""
    Strip <- StripPadding
    Points <- PointsOnLine
    Round7 <- RoundOnLine
    Haversine <- Line
    RoadDistances <- TwoRoads
    None = None
    UNREACHABLE_DISPATCH_COST_M = 1000
    Absent = Absent
    Unreadable = Unreadable
    Misshapen = Misshapen
    Untyped = Untyped
    NoMatrix = NoMatrix
    NoRequest = NoRequest
    Infinity = Infinity
INVARIANTS TypeOK DistancesFitRequest AnswersConsistent SlotsFilledInOrder SolverNotWorse
PROPERTIES CallsEnd
