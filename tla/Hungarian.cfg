SPECIFICATION MCSpec
CONSTANTS
    MaxRows = 4
    MaxCols = 3
    MaxCost = 2
    Infinity = Infinity
INVARIANTS HungarianTypeOK DualFeasible MatchedTight FreeColumnsUnpriced RowsMatchedOnce OptimalAssignment
PROPERTIES Terminates
