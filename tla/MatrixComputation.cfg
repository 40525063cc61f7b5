SPECIFICATION FairSpec
CONSTANTS
    Problems <- SomeProblems
    Points = {"p", "q", "r", "s", "t"}
    InArea = {"p", "q", "r", "t"}
    Nodes = {1, 2, 3}
    Nearest <- NearestNode
    RoadTables <- SomeRoads
    NoPath = NoPath
    Raising = {3}
INVARIANTS PairsOnce
PROPERTIES ComputesMatrix
