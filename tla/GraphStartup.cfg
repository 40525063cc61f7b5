SPECIFICATION FairSpec
CONSTANTS
    w1 = w1  w2 = w2  w3 = w3
    Workers = {w1, w2, w3}
    Nobody = Nobody
    MaxInterruptions = 1
    MaxOutages = 1
INVARIANTS TypeOK PartialOnlyWhenInterrupted
PROPERTIES SettledFileKept QuietStartsLoad EventuallyQuiet
