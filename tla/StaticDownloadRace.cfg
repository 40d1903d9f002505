\* One load, and the one download of its day.
SPECIFICATION Spec
CONSTANTS
    l1 = l1
    l2 = l2
    Loaders = {l1}
    NoLoader = NoLoader
    Tables = {"stops", "calendar", "calendar_dates"}
    Optional = {"calendar", "calendar_dates"}
    TablesIn <- ThreeFeeds
    Invalid = {3}
    Torn = Torn
    None = None
    MaxDays = 1
    MaxDownloads = 1
    MaxLoads = 1
    MaxFaults = 0
\* The loads run out.
CHECK_DEADLOCK FALSE
INVARIANT
    RowsNameTheirFeed
