CONSTANTS
    page_count = 4
    MAX_ORDER = 2
    Size <- MCSize
    BootMaps <- MCPreemptMaps
    InitPages = {}
SPECIFICATION PreemptSpec
INVARIANTS LoadFramesPrivate
CHECK_DEADLOCK FALSE
