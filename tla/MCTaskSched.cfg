CONSTANTS
    idle = idle
    init = init
    NULL = NULL
    ANY = ANY
    Heap = {u1, u2, u3}
    Task <- MCTask
    TIMESLICE = 2
    MAX_SLEEP = 1
SPECIFICATION Spec
SYMMETRY Symmetry
INVARIANTS TypeOK OnlyCurrentRuns TreeIntact ZombieHasCollector NoLostWakeup
