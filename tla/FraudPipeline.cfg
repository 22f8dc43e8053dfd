SPECIFICATION FairSystemSpec
CONSTANTS
    p1 = p1  ad1 = ad1  r1 = r1  r2 = r2  bad = bad
    Missing = Missing  Empty = Empty  Space = Space
    Partitions <- OnePartition
    PartitionOf <- ToOne
    Ads <- OneAd
    Clicks <- None
    Requests <- TwoRequests
    Ips <- TwoIps
    ChosenTimes <- PostDated
    Unreadable <- Garbled
    Stamps <- TwoStamps
    Tracks <- TypeScript
    Messages <- ReadRecords
    MinuteLength = 8
    Tolerance = 2
    FraudThreshold = 1
    MaxLog = 3
    MaxRebalances = 1
    MaxCrashes = 1
    MaxFailures = 1
INVARIANTS StampedIsLateForACause FraudIsRequested
PROPERTIES ImplementsProcessor AcceptedIsClassified
CHECK_DEADLOCK FALSE
