CONSTANTS
    bytes_per_sector = 1
    sectors_per_cluster = 1
    total_clusters = 4
    num_fats = 2
    fat_cache_loaded = TRUE
    RootSlots = 2
    ClusterSlots = 2
    Byte = {"x"}
    Name = {"a", "b", "A", "a.", "toolongname"}
    fold <- MCfold
    fat16_str_to_name <- MCstored
    BootVolume <- MCBootVolume
    Task = {t1}
    TASK_MAX_FDS = 2
    MaxDent = 3
    PathIn <- MCPathIn
    FlagIn <- MCFlagIn
    CwdMax = 1
    Written <- MCWritten
    MaxOffset = 1
    FaultIn <- MCFaultIn
    MaxFuse = 24
    MaxOom = 6
    MaxKills = 1
    MaxCalls = 4
    MaxWornCalls = 3
SPECIFICATION MCSpec
INVARIANTS RefsExact VolumeSound CachedIsCopy
PROPERTY NeighboursKept
CHECK_DEADLOCK FALSE
