SPECIFICATION TimeFairSpec
CONSTANTS
    Width = 256
    FirstNonce = 15
    ScanTimes = {1}
    LpScanTime = 2
    Rates = {1, 27}
    Scanners <- Scalar
    MaxWraps = 0
PROPERTIES
    MeetsScanTime
