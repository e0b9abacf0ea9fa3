SPECIFICATION FairSpec
CONSTANTS
    W = 32
    NPAR = 8
    GoodSets <- NoneGood
PROPERTIES
    ScanEnds
