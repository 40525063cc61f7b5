SPECIFICATION Spec
CONSTANTS
    c1 = c1  c2 = c2  w1 = w1  w2 = w2  g1 = g1  g2 = g2
    p1 = p1  p1x = p1x  p2 = p2  out2 = out2  a = a  b = b
    Calls = {c1}
    Workers = {w1}
    Requests <- PlainRequests
    Ids <- MCIds
    Points <- MCPoints
    Round6 <- SharpRound6
    InArea <- MCInArea
    Graphs = {g1, g2}
    NoGraph = NoGraph
    FileName <- SameName
    NegativeEdge = {}
    MaxLocations = 2
    Absent = Absent
    Truncated = Truncated
    Foreign = Foreign
    NoDoc = NoDoc
    MaxInFlight = 1
    MaxReplacements = 1
    MaxCorruptions = 0
INVARIANTS AnswerFromOwnGraph
CHECK_DEADLOCK TRUE
