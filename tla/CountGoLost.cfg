SPECIFICATION Spec
CONSTANTS
    p1 = p1  p2 = p2  ad1 = ad1  ad2 = ad2  c1 = c1  c2 = c2
    Partitions <- TwoPartitions
    Ads <- TwoAds
    Clicks <- TwoClicks
    PartitionOf <- OneEach
    Tracks = {"go"}
    MaxLog = 1
    MaxRebalances = 0
    MaxCrashes = 1
INVARIANT AtLeastOnce
CHECK_DEADLOCK FALSE
