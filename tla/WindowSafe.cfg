SPECIFICATION Spec
CONSTANTS
    p1 = p1  p2 = p2  ad1 = ad1  ad2 = ad2  us = us  date = date
    Partitions <- OnePartition
    PartitionOf <- ToOne
    Ads <- AllAds
    Messages <- OneAdTwoWindows
    WindowLength = 2
    DateTimeOf <- TwoDateTimes
    MaxLog = 2
    MaxRebalances = 1
    MaxCrashes = 1
    Flushers = {f1, f2}
    MaxInsertFailures = 1
SYMMETRY FlusherSymmetry
INVARIANTS TypeOK NeverOvercounts ClearLosesOnlyOverlapped CommittedIsAccountedFor
CHECK_DEADLOCK FALSE
