SPECIFICATION Spec
CONSTANTS
    w1 = w1  w2 = w2  w3 = w3
    Workers = {w1, w2}
    Nobody = Nobody
    MaxInterruptions = 0
    MaxOutages = 0
INVARIANTS HealthyMeansReady
