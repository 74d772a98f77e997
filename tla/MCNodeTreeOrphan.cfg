SPECIFICATION Spec
CONSTANTS
    Clients = {1}
    Cron = Cron
    Files = {"d/a", "d/b"}
    Folders = {"K", "d"}
    Key = "K"
    Over <- MCOver
    Order <- MCOrder
    Contents = {"c1", "c2"}
    Size <- MCSize
    Nothing = "none"
    Marker = "folder"
    Quota <- MCQuota
    Jobs <- MCFolderDelete
    Seed <- MCSeed
    MaxRequests = 1
    MaxBusy = 2
    MaxMishaps = 1
INVARIANT FoldersExist
CHECK_DEADLOCK FALSE
