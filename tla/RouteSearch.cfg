SPECIFICATION Spec
CONSTANTS
    None = None
    Matrices <- SomeMatrices
    Requests <- SomeRequests
INVARIANTS
    TypeOK
    EveryStopOnce
    DistancesOfOrders
    NeverWorse
    ConvergedIsLocalOptimum
    NoGapAfterScan
    StuckAtDeadEnd
