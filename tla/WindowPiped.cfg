SPECIFICATION FairSpec
CONSTANTS
    p1 = p1  p2 = p2  ad1 = ad1  ad2 = ad2  us = us  date = date
    Partitions <- OnePartition
    PartitionOf <- ToOne
    Ads <- PipedAd
    Messages <- OneWindow
    WindowLength = 2
    DateTimeOf <- TwoDateTimes
    MaxLog = 2
    MaxRebalances = 0
    MaxCrashes = 0
    Flushers = {f1}
    MaxInsertFailures = 0
PROPERTY BucketedClicksLand
CHECK_DEADLOCK FALSE
