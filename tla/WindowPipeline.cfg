SPECIFICATION FairSystemSpec
CONSTANTS
    p1 = p1  ad1 = ad1  us = us  date = date  r1 = r1  r2 = r2
    Missing = Missing  Empty = Empty  Space = Space
    Partitions <- OnePartition
    PartitionOf <- ToOne
    Ads <- AllAds
    Clicks <- None
    Requests <- TwoRequests
    Ips <- OneIp
    ChosenTimes <- None
    Stamps <- OneStamp
    Tracks <- TypeScript
    Messages <- ReadRecords
    WindowLength = 2
    DateTimeOf <- OneDateTime
    Flushers = {f1}
    MaxLog = 2
    MaxRebalances = 0
    MaxCrashes = 1
    MaxFailures = 1
    MaxInsertFailures = 1
INVARIANTS AcceptedIsAccountedFor StoredIsReceived
PROPERTIES ImplementsAggregator AcceptedIsStored
CHECK_DEADLOCK FALSE
