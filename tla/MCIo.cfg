CONSTANTS
    bytes_per_sector = 2
    sectors_per_cluster = 2
    total_clusters = 2
    num_fats = 1
    fat_cache_loaded = FALSE
    RootSlots = 2
    ClusterSlots = 2
    Byte = {"x", "y"}
    Name = {"f"}
    fold <- MCfold
    fat16_str_to_name <- MCfold
    BootVolume <- MCBootVolume
    Task = {t1}
    TASK_MAX_FDS = 1
    MaxDent = 1
    PathIn = {}
    FlagIn = {}
    CwdMax = 1
    Written <- MCWritten
    MaxOffset = 6
    FaultIn <- MCFaultIn
    MaxKills = 0
    Mode <- MCMode
    MaxCalls = 6
    BCACHE_LINES = 2
    BCACHE_SECTOR_SIZE = 1
    Identify <- MCIdentify
    Mbr <- MCMbr
    Datum = {"p", "q"}
    LBA_LIMIT = 8
    MaxCount = 2
    HEAP_SIZE = 22
    HDR = 4
    ALIGN = 2
    SIZE_LIMIT = 64
    Request = {0, 3, 6, 63}
    Arrays <- MCArrays
    ElementSize = {1, 2, 3}
    TMP_SIZE = 2
    SEC_PER_MIN = 6
    MIN_PER_HOUR = 6
    HOUR_PER_DAY = 4
    NSEC_PER_SEC = 4
    NSEC_PER_MSEC = 2
    BootDate <- MCBootDate
    MaxTicks = 5
    Sleeper = {s1, s2}
    Ms = {0, 1, 3, 7}
    U32 = 8
    MaxUptime = 19
SPECIFICATION MCSpec
INVARIANTS ReadsWhatWasWritten TellIsPosition CacheCoherent ArenaSound QsortSorts CalendarIsChips
PROPERTIES StampsNeverGoBack SleepsAsAsked
CHECK_DEADLOCK FALSE
