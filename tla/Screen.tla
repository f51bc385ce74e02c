------------------------------- MODULE Screen -------------------------------
(***************************************************************************)
(* The framebuffer (lizard/framebuffer.c), the text the console draws on   *)
(* it (lizard/tty.c) and the images programs show (SYS_fb_blit).  mem is   *)
(* the framebuffer as memory, one element per pixel word: the code reaches *)
(* it with index arithmetic on width, height and pitch.  picture is what   *)
(* a viewer should see, by column and row.                                 *)
(*                                                                         *)
(* The cursor moves of the line editor are in TtyCursor.                   *)
(***************************************************************************)
EXTENDS Integers, Sequences

CONSTANTS
    FONT_WIDTH, FONT_HEIGHT,
    font,           \* [character -> its lit pixels <<x, y>>]
    TAB_SIZE,
    Gop,            \* what the firmware may offer: [w, h, stride]; w = 0: no framebuffer
    VirtualGrid,    \* <<columns, rows>> of the console without a framebuffer: 80 x 25
    Image,          \* what programs show: [w, h, px : [0 .. w * h - 1 -> colour]]
    BLIT_MAX,       \* 8192: sys_fb_blit refuses wider or taller images
    U32_LIMIT,      \* 2^32
    MaxDraws        \* bound on the operations of a behaviour

ASSUME ScreenAssumption ==
    /\ {FONT_WIDTH, FONT_HEIGHT, TAB_SIZE} \subseteq Nat \ {0}
    /\ \A m \in Gop : {m.w, m.h, m.stride} \subseteq Nat /\ m.stride >= m.w
    \* Room for a character, and more than one row: firmware modes start at 640 x 480.
    /\ \A m \in Gop : m.w = 0 \/ (m.w >= FONT_WIDTH /\ m.h > FONT_HEIGHT)
    /\ \A g \in Image : {g.w, g.h} \subseteq Nat \ {0}
    /\ {BLIT_MAX, U32_LIMIT} \subseteq Nat
    \* The framebuffer is far smaller than 2^32 words.
    /\ \A m \in Gop : m.h * m.stride + BLIT_MAX <= U32_LIMIT

VARIABLES
    fb,         \* the mode handed over by the loader
    mem,        \* the framebuffer
    tty,        \* terminal_column and terminal_row
    picture,    \* history: what should be on the screen
    skewed,     \* history: lines longer than the screen is wide were scrolled
    stray,      \* history: part of an image was written outside the framebuffer
    draws       \* operations so far

screenVars == <<fb, mem, tty, picture, skewed, stray, draws>>

BG == "bg"
FG == "fg"

\* tty_init.
terminal_text_width == IF fb.w = 0 THEN VirtualGrid[1] ELSE fb.w \div FONT_WIDTH
terminal_text_height == IF fb.w = 0 THEN VirtualGrid[2] ELSE fb.h \div FONT_HEIGHT

Box(w, h) == (0 .. w - 1) \X (0 .. h - 1)

-----------------------------------------------------------------------------
(* framebuffer.c: each of these returns the memory it leaves. *)

\* draw_pixel of colour[p] at <<x + p[1], y + p[2]>>, for every p.
draw_pixels(m, x, y, colour) ==
    LET at(p) == (y + p[2]) * fb.stride + x + p[1]
    IN  [i \in DOMAIN m |-> IF \E p \in DOMAIN colour : at(p) = i
                            THEN colour[CHOOSE p \in DOMAIN colour : at(p) = i] ELSE m[i]]

clear_framebuffer(m) == draw_pixels(m, 0, 0, [p \in Box(fb.w, fb.h) |-> BG])

Glyph(c) == [p \in Box(FONT_WIDTH, FONT_HEIGHT) |-> IF p \in font[c] THEN FG ELSE BG]
draw_char(m, x, y, c) == draw_pixels(m, x, y, Glyph(c))

\* memmove of everything below the first lines, then the last ones cleared.
scroll_framebuffer_dirty(m, pixels) ==
    LET offset == pixels * fb.w
    IN  IF pixels = 0 \/ pixels >= fb.h THEN m
        ELSE [i \in DOMAIN m |-> IF i < (fb.h - pixels) * fb.w THEN m[i + offset] ELSE m[i]]
scroll_framebuffer(m, pixels) ==
    LET offset == pixels * fb.w
        move == (fb.h - pixels) * fb.w
    IN  IF pixels = 0 \/ pixels >= fb.h THEN m
        ELSE [i \in DOMAIN m |-> IF i < move THEN m[i + offset] ELSE IF i < move + offset THEN BG ELSE m[i]]

\* The first factor whose successor does not fit.
ScaleOf(g) ==
    LET fits(s) == g.w * s <= fb.w /\ g.h * s <= fb.h
    IN  CHOOSE s \in 1 .. fb.w + 1 : ~fits(s + 1) /\ \A k \in 2 .. s : fits(k)
\* Where copy k of row sy begins.  The offsets are halved as 64-bit numbers and cut
\* to 32 bits, as is the line: they wrap for an image larger than the screen.
RowAt(g, sy, k) ==
    LET scale == ScaleOf(g)
        ox == ((fb.w - g.w * scale) \div 2) % U32_LIMIT
        oy == ((fb.h - g.h * scale) \div 2) % U32_LIMIT
        line == (oy + sy * scale) % U32_LIMIT
    IN  (line + k) * fb.stride + ox
\* Each row of the image is widened once and copied down.
fb_present_xrgb(m, g) ==
    LET scale == ScaleOf(g)
        widened(sy) == [d \in 0 .. g.w * scale - 1 |-> g.px[sy * g.w + d \div scale]]
    IN  [i \in DOMAIN m |->
            IF \E sy \in 0 .. g.h - 1, k \in 0 .. scale - 1 : i - RowAt(g, sy, k) \in DOMAIN widened(sy)
            THEN LET hit == CHOOSE r \in (0 .. g.h - 1) \X (0 .. scale - 1) :
                                i - RowAt(g, r[1], r[2]) \in DOMAIN widened(r[1])
                 IN  widened(hit[1])[i - RowAt(g, hit[1], hit[2])]
            ELSE m[i]]
\* A part of it lies past the last line.
Strays(g) ==
    \E sy \in 0 .. g.h - 1, k \in 0 .. ScaleOf(g) - 1 :
        RowAt(g, sy, k) + g.w * ScaleOf(g) > fb.h * fb.stride

-----------------------------------------------------------------------------
(* The picture: the same operations as a viewer would describe them. *)

Blank(p) == [q \in DOMAIN p |-> BG]
WithChar(p, col, row, c) ==
    [q \in DOMAIN p |->
        IF q[1] \div FONT_WIDTH = col /\ q[2] \div FONT_HEIGHT = row
        THEN (IF <<q[1] % FONT_WIDTH, q[2] % FONT_HEIGHT>> \in font[c] THEN FG ELSE BG) ELSE p[q]]
MovedUp(p) ==
    [q \in DOMAIN p |-> IF q[2] + FONT_HEIGHT < fb.h THEN p[<<q[1], q[2] + FONT_HEIGHT>>] ELSE BG]
\* "centered and scaled up by the largest integer factor that fits".  A taller
\* image loses as much at the top as at the bottom; a wider one is not shown.
WithImage(p, g) ==
    LET factor == CHOOSE s \in 1 .. fb.w : /\ s = 1 \/ (s * g.w <= fb.w /\ s * g.h <= fb.h)
                                           /\ (s + 1) * g.w > fb.w \/ (s + 1) * g.h > fb.h
        x(q) == q[1] - (fb.w - factor * g.w) \div 2
        y(q) == q[2] - (fb.h - factor * g.h) \div 2
    IN  IF g.w > fb.w THEN p
        ELSE [q \in DOMAIN p |->
                 IF x(q) \in 0 .. factor * g.w - 1 /\ y(q) \in 0 .. factor * g.h - 1
                 THEN g.px[(y(q) \div factor) * g.w + x(q) \div factor] ELSE p[q]]

-----------------------------------------------------------------------------
(* tty.c on a screen [mem, tty, picture, skewed] *)

Now == [mem |-> mem, col |-> tty.col, row |-> tty.row, picture |-> picture, skewed |-> skewed]

tty_scroll(s) ==
    [s EXCEPT !.mem = scroll_framebuffer(@, FONT_HEIGHT), !.row = @ - 1,
              !.picture = MovedUp(@), !.skewed = @ \/ fb.stride # fb.w]
tty_breakline(s) ==
    LET down == [s EXCEPT !.row = @ + 1, !.col = 0]
    IN  IF down.row = terminal_text_height THEN tty_scroll(down) ELSE down
tty_putentryat(s, c) ==
    [s EXCEPT !.mem = draw_char(@, s.col * FONT_WIDTH, s.row * FONT_HEIGHT, c),
              !.picture = WithChar(@, s.col, s.row, c)]
PutPrintable(s, c) ==
    LET put == [tty_putentryat(s, c) EXCEPT !.col = @ + 1]
    IN  IF put.col = terminal_text_width THEN tty_breakline(put) ELSE put
tty_tab(s) ==
    LET put[n \in 0 .. TAB_SIZE] == IF n = 0 THEN s ELSE PutPrintable(put[n - 1], " ")
    IN  put[TAB_SIZE - (s.col % TAB_SIZE)]
tty_clean(s) ==
    [s EXCEPT !.mem = clear_framebuffer(@), !.col = 0, !.row = 0, !.picture = Blank(@)]

tty_putchar(s, c) ==
    CASE c = "NL" -> tty_breakline(s)
      [] c = "TAB" -> tty_tab(s)
      [] c = "FF" -> tty_clean(s)
      [] OTHER -> PutPrintable(s, c)

-----------------------------------------------------------------------------
Becomes(s) ==
    /\ mem' = s.mem /\ picture' = s.picture /\ skewed' = s.skewed
    /\ tty' = [col |-> s.col, row |-> s.row]
Step == draws < MaxDraws /\ draws' = draws + 1 /\ UNCHANGED fb

PutChar(c) == Step /\ Becomes(tty_putchar(Now, c)) /\ UNCHANGED stray

\* What lies outside the framebuffer is not modelled: stray records that an image
\* was written there.
sys_fb_blit(g) ==
    /\ Step
    /\ UNCHANGED <<tty, skewed>>
    /\ IF fb.w = 0 \/ g.w > BLIT_MAX \/ g.h > BLIT_MAX THEN UNCHANGED <<mem, picture, stray>>
       ELSE /\ mem' = fb_present_xrgb(mem, g)
            /\ picture' = WithImage(picture, g)
            /\ stray' = (stray \/ Strays(g))

\* init_framebuffer, tty_init and the clear at the end of vmm_init; the words
\* past the end of a line keep what the firmware left.
ScreenInit ==
    /\ fb \in Gop
    /\ mem = clear_framebuffer([i \in 0 .. fb.h * fb.stride - 1 |-> "firmware"])
    /\ picture = [p \in Box(fb.w, fb.h) |-> BG]
    /\ tty = [col |-> 0, row |-> 0] /\ skewed = FALSE /\ stray = FALSE /\ draws = 0

ScreenNext ==
    \/ \E c \in DOMAIN font \cup {"NL", "TAB", "FF"} : PutChar(c)
    \/ \E g \in Image : sys_fb_blit(g)

ScreenSpec == ScreenInit /\ [][ScreenNext]_screenVars

-----------------------------------------------------------------------------
\* The framebuffer shows the picture: text in its cells, scrolled when the last
\* row is full, with the lines below the last whole row clear, images centred
\* at the largest factor, and nothing left of what was overwritten; as long as
\* no scroll moved lines that are longer than the screen is wide, for
\* scroll_framebuffer counts in widths what the others count in pitches
\* (framebuffer.c, tty_putchar, sys_fb_blit).  An image taller than the screen is
\* cropped evenly; one that is wider leaves the screen as it was, although
\* SYS_fb_blit returns 0.
ScreenIsPicture == ~skewed => \A p \in DOMAIN picture : mem[p[2] * fb.stride + p[1]] = picture[p]

\* "the destination rectangle is guaranteed to fit" (framebuffer.c:368): every
\* word an image is copied to is one of the framebuffer.
DestinationFits == ~stray
=============================================================================
