CONSTANTS
    idle = idle
    init = init
    NULL = NULL
    ANY = ANY
    Heap = {u1, u2}
    Task <- MCTask
    TIMESLICE = 1
    MAX_SLEEP = 0
SPECIFICATION FairSpec
PROPERTIES ShellKeptAlive
