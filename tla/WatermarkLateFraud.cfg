SPECIFICATION Spec
CONSTANTS
    p1 = p1  p2 = p2  ad1 = ad1  ad2 = ad2  ip1 = ip1  ip2 = ip2  bad = bad
    Partitions <- OnePartition
    PartitionOf <- ToOne
    Ads <- OneAd
    Messages <- TwoTimes
    Unreadable <- None
    MinuteLength = 4
    Tolerance = 2
    FraudThreshold = 1
    MaxLog = 3
    MaxRebalances = 0
    MaxCrashes = 0
INVARIANT ExcessIsFlagged
CHECK_DEADLOCK FALSE
