SPECIFICATION FairSpec
CONSTANTS
    Clients = {1, 2}
    Cron = Cron
    Files = {"d/a", "d/b"}
    Folders = {"K", "d"}
    Key = "K"
    Over <- MCOver
    Order <- MCOrder
    Contents = {"c1", "c2"}
    Size <- MCSize
    Nothing = "none"
    Marker = "folder"
    Quota <- MCQuota
    Jobs <- MCJobs
    Seed <- MCSeed
    MaxRequests = 2
    MaxBusy = 2
    MaxMishaps = 1
INVARIANTS TypeOK UsageIsExact OrphanIsExplained
PROPERTIES OnlyOverlapExceedsQuota DropsOnlyCopied CanEmpties
CHECK_DEADLOCK FALSE
