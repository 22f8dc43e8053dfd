SPECIFICATION FairApiSpec
CONSTANTS
    p1 = p1  p2 = p2  ad1 = ad1  c1 = c1  r1 = r1  r2 = r2
    Missing = Missing  Empty = Empty  Space = Space
    Partitions <- TwoPartitions
    PartitionOf <- ToBoth
    Ads <- BlankAds
    Clicks <- BlankClicks
    Requests <- TwoRequests
    Ips <- OneIp
    ChosenTimes <- None
    Stamps <- OneStamp
    Tracks <- AllTracks
    MaxLog = 4
    MaxFailures = 2
INVARIANTS ApiTypeOK ConfirmedIsAppended AcceptedInOrder SharedIdsAreChosen RecordsNameAnAd
PROPERTIES EveryRequestIsAnswered
CHECK_DEADLOCK FALSE
