SPECIFICATION FairSpec
CONSTANTS
    p1 = p1  p2 = p2  ad1 = ad1  ad2 = ad2  c1 = c1  c2 = c2
    Partitions <- TwoPartitions
    Ads <- TwoAds
    Clicks <- TwoClicks
    PartitionOf <- OneEach
    Tracks <- ThreeTracks
    MaxLog = 2
    MaxRebalances = 1
    MaxCrashes = 1
INVARIANTS TypeOK NeverOvercounts CountsSplitSeen TotalIsDistinctClicks CommittedIsRecorded NoGapSinceResume RecordedInOrder
PROPERTIES CommitsMoveForward NeverReplays CountsUniqueClicks EveryClickReachesRecord CommitsCatchUp
CHECK_DEADLOCK FALSE
