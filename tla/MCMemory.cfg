CONSTANTS
    page_count = 9
    MAX_ORDER = 2
    Size <- MCSize
    BootMaps <- MCBootMaps
    InitPages = {8}
    NPhys = 14
    FirmwareMaps <- MCFirmwareMaps
    LOW = 2
    KernelSpan = 1
    KALIGN = 2
    ATTEMPTS = 2
    BI_MMAP_MAX = 6
    PAGE_BYTES = 4
    PAGE_STRUCT = 1
    MaxEvents = 1
    Cache <- MCCache
    object_size <- MCobject_size
    objects_per_slab <- MCobjects_per_slab
    FrameBlock <- MCBlock
    span <- MCspan
    slab_blocks <- MCslab_blocks
    Request = {5, 8, 9}
    MAX_FREE_SLABS = 2
    NULL = NULL
    FANOUT = 2
    LEVELS = 4
    NFrames = 32
    Slots = {1, 2}
    STACK_PAGES = 2
    Images <- MCImages
    ArgWords = {3}
    MaxReads = 4
    MaxSteps = 6
SPECIFICATION MCSpec
INVARIANTS NoOverlap NoPageLost Aligned
INVARIANTS MapIsCurrent FreeIsUnused
INVARIANTS ObjectsSplit SlabsListed ObjectsPrivate FreeSlabsCounted
INVARIANTS FramesAccounted KernelMapped ImageExact
PROPERTIES ImplementsPool
CHECK_DEADLOCK FALSE
