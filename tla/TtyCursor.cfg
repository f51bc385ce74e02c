CONSTANTS
    terminal_text_width = 4
    terminal_text_height = 3
    TTY_LINE_MAX = 8
    TAB_SIZE = 4
    SizeMod = 16
SPECIFICATION Spec
INVARIANTS CursorInGrid
