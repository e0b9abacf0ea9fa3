SPECIFICATION TimeFairSpec
CONSTANTS
    Width = 256
    FirstNonce = 40
    ScanTimes = {1, 3}
    LpScanTime = 2
    Rates = {1, 10, 60, 200}
    Scanners <- AllScanners
    MaxWraps = 2
INVARIANTS
    ScanTimeMet
PROPERTIES
    ReachesScanTime
