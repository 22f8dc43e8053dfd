SPECIFICATION FairSystemSpec
CONSTANTS
    p1 = p1  ad1 = ad1  c1 = c1  r1 = r1  r2 = r2
    Missing = Missing  Empty = Empty  Space = Space
    Partitions <- OnePartition
    PartitionOf <- ToOne
    Ads <- OneAd
    Clicks <- OneClick
    Requests <- TwoRequests
    Ips <- OneIp
    ChosenTimes <- None
    Stamps <- OneStamp
    Tracks <- AllTracks
    MaxLog = 3
    MaxRebalances = 1
    MaxCrashes = 1
    MaxFailures = 1
INVARIANTS CountsAreAskedFor CountedInAcceptedOrder
PROPERTIES LessonCountsUniqueClicks AcceptedIsCounted
CHECK_DEADLOCK FALSE
