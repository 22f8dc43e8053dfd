SPECIFICATION Spec
CONSTANTS
    p1 = p1  p2 = p2  ad1 = ad1  ad2 = ad2  ip1 = ip1  ip2 = ip2  bad = bad
    Partitions <- TwoPartitions
    PartitionOf <- ToBoth
    Ads <- TwoAds
    Messages <- EarlyTimes
    Unreadable <- Garbled
    MinuteLength = 4
    Tolerance = 2
    FraudThreshold = 1
    MaxLog = 2
    MaxRebalances = 1
    MaxCrashes = 1
INVARIANTS TypeOK LateMatchesHistory NoFalseFraud HandledIsLogged UnreadableIsNeverSkipped
PROPERTIES JudgesByHistory
CHECK_DEADLOCK FALSE
