CONSTANTS
    Task = {t1, t2}
    Char = {"a"}
    TTY_LINE_MAX = 3
    STDIN_RING_SIZE = 3
    KBD_RING_SIZE = 2
    IndexMod = 6
    FONT_WIDTH = 1
    FONT_HEIGHT = 2
    TAB_SIZE = 2
    font <- MCfont
    Gop <- MCGop
    VirtualGrid <- MCGrid
    Image <- MCImage
    BLIT_MAX = 8
    U32_LIMIT = 64
    MaxDraws = 8
    INT_LIMIT = 256
    LONG_LIMIT = 65536
    FBUF = 4
    Job <- MCJob
    KJob <- MCKJob
    Cap = {0, 1, 4, 20}
    LINE_MAX = 9
    MAX_ARGS = 4
    SPAWN_MAX_ARGS = 4
    ARGBUF = 8
    STDIN_SIZE = 12
    PATH_CHAR = "/"
    Line <- MCLine
    Command <- MCCommand
    ExitCode = {0, 7}
    MaxTyped = 3
SPECIFICATION MCSpec
SYMMETRY Symmetry
INVARIANTS TypeOK RingsAreQueues  NumbersSurvive BufferHoldsPrefix CommandIsLine
CHECK_DEADLOCK FALSE
