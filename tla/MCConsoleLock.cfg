CONSTANTS
    Task = {t1, t2}
    Char = {"a"}
    TTY_LINE_MAX = 3
    STDIN_RING_SIZE = 3
    KBD_RING_SIZE = 2
    IndexMod = 6
SPECIFICATION Spec
INVARIANTS NeverSpins
CHECK_DEADLOCK FALSE
