CONSTANTS
    idle = idle
    init = init
    NULL = NULL
    ANY = ANY
    Heap = {u1, u2}
    Task <- MCTask
    TIMESLICE = 2
    MAX_SLEEP = 1
SPECIFICATION FairSpec
PROPERTIES ReadyRuns SleeperRuns TerminatedReaped ImplementsTree
