\* Two loaders, two loads, three downloads on two days; the rows of feed 3 are
\* invalid; one fault.
SPECIFICATION FairSpec
CONSTANTS
    l1 = l1
    l2 = l2
    Loaders = {l1, l2}
    NoLoader = NoLoader
    Tables = {"stops", "calendar", "calendar_dates"}
    Optional = {"calendar", "calendar_dates"}
    TablesIn <- ThreeFeeds
    Invalid = {3}
    Torn = Torn
    None = None
    MaxDays = 2
    MaxDownloads = 3
    MaxLoads = 2
    MaxFaults = 1
\* The feeds and the loads run out.
CHECK_DEADLOCK FALSE
INVARIANTS
    LiveIsOneFeed
    HistoryIsArchived
PROPERTIES
    ArchiveIsKept
    LoadsEnd
