SPECIFICATION FairSpec
CONSTANTS
    W = 32
    NPAR = 8
    GoodSets <- TwoInBatch
INVARIANTS
    SolutionFound RangeScanned
PROPERTIES
    RestartStops ScanEndsInRange
