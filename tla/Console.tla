------------------------------- MODULE Console -------------------------------
(***************************************************************************)
(* The input side of the console: the keyboard interrupt with its raw and  *)
(* canonical modes (lizard/keyboard.c), the line editor and the input ring *)
(* (lizard/tty.c), and the system calls that read them or change the mode. *)
(* System calls and interrupts run with IF clear, one step each; the init  *)
(* task prints with IF set and may be interrupted while it has tty_lock.   *)
(*                                                                         *)
(* A scancode is its character, "BKSP" or "ENTER"; the other ones (a key   *)
(* release, a key without a character) do nothing in canonical mode and    *)
(* are one more value in raw mode.  Ring indices are u32 that run freely   *)
(* and are reduced modulo the ring size at each access; IndexMod stands    *)
(* for 2^32.  A cell of a ring that was read is shown as "NONE".           *)
(***************************************************************************)
EXTENDS Integers, Sequences, FiniteSets

CONSTANTS
    Task,               \* user tasks
    Char,               \* printable characters
    TTY_LINE_MAX,       \* the line buffer holds one character less
    STDIN_RING_SIZE,
    KBD_RING_SIZE,
    IndexMod            \* the range of a ring index: 2^32 in the code

ASSUME ConsoleAssumption ==
    /\ TTY_LINE_MAX \in Nat \ {0}
    /\ STDIN_RING_SIZE \in Nat \ {0} /\ KBD_RING_SIZE \in Nat \ {0}
    /\ IndexMod \in Nat
    /\ IndexMod % STDIN_RING_SIZE = 0 /\ IndexMod > STDIN_RING_SIZE
    /\ IndexMod % KBD_RING_SIZE = 0 /\ IndexMod > KBD_RING_SIZE
    /\ Char \cap {"BKSP", "ENTER", "NL", "NONE"} = {}

VARIABLES
    kbd_raw,
    kbd,                \* kbd_ring, kbd_head, kbd_tail
    stdin,              \* stdin_ring, stdin_head, stdin_tail
    tty_line,           \* the line being edited
    task,               \* "running", "reading" (parked in sys_read), "woken", "gone"
    grabbed,            \* history: the tasks that called SYS_key_get
    typed,              \* history: the bytes the input ring should hold
    pressed,            \* history: the scancodes the raw ring should hold
    tty_locked,         \* init holds tty_lock
    spinning            \* somebody waits for tty_lock with IF clear: for ever

vars == <<kbd_raw, kbd, stdin, tty_line, task, grabbed, typed, pressed,
          tty_locked, spinning>>

Scancode == Char \cup {"BKSP", "ENTER"}
Byte == Char \cup {"NL"}
Alive(t) == task[t] # "gone"

-----------------------------------------------------------------------------
(* Rings *)

\* u32 subtraction.
Distance(r) == (r.head - r.tail) % IndexMod
Empty(r) == r.head = r.tail

\* Mutation: the ring is taken for full one element too late.
RingPush_late(r, c, size) ==
    [buf  |-> [r.buf EXCEPT ![r.head % size] = c],
     head |-> (r.head + 1) % IndexMod,
     tail |-> IF Distance(r) > size THEN (r.tail + 1) % IndexMod ELSE r.tail]

\* stdin_push and kbd_ring_push: a full ring loses its oldest element.
RingPush(r, c, size) ==
    [buf  |-> [r.buf EXCEPT ![r.head % size] = c],
     head |-> (r.head + 1) % IndexMod,
     tail |-> IF Distance(r) >= size THEN (r.tail + 1) % IndexMod ELSE r.tail]

\* stdin_push of each byte of s.
PushAll(r, s, size) ==
    LET pushed[i \in 0..Len(s)] ==
          IF i = 0 THEN r ELSE RingPush(pushed[i - 1], s[i], size)
    IN  pushed[Len(s)]

\* tty_stdin_read of at most n bytes, keyboard_pop_scancode for n = 1.
RingDrop(r, n, size) ==
    LET got == IF n < Distance(r) THEN n ELSE Distance(r)
        read == {((r.tail + i - 1) % IndexMod) % size : i \in 1..got}
    IN  [buf  |-> [i \in DOMAIN r.buf |-> IF i \in read THEN "NONE" ELSE r.buf[i]],
         head |-> r.head,
         tail |-> (r.tail + got) % IndexMod]

\* Reading a ring from tail to head.
Contents(r, size) ==
    [i \in 1..Distance(r) |-> r.buf[((r.tail + i - 1) % IndexMod) % size]]

\* What a queue of `size' elements that drops the oldest one would hold.
LastOf(q, size) ==
    IF Len(q) <= size THEN q ELSE SubSeq(q, Len(q) - size + 1, Len(q))
Without(q, n) == SubSeq(q, n + 1, Len(q))

-----------------------------------------------------------------------------
(* tty_lock *)

\* spinlock_lock with IF clear while init, who cannot run, has the lock.
Spin ==
    /\ tty_locked
    /\ spinning' = TRUE
    /\ UNCHANGED <<kbd_raw, kbd, stdin, tty_line, task, grabbed, typed, pressed,
                   tty_locked>>

\* init's kprintf: tty_putchar takes and leaves the lock with IF set.
InitLocks ==
    /\ ~spinning /\ ~tty_locked
    /\ tty_locked' = TRUE
    /\ UNCHANGED <<kbd_raw, kbd, stdin, tty_line, task, grabbed, typed, pressed,
                   spinning>>
InitUnlocks ==
    /\ ~spinning /\ tty_locked
    /\ tty_locked' = FALSE
    /\ UNCHANGED <<kbd_raw, kbd, stdin, tty_line, task, grabbed, typed, pressed,
                   spinning>>

-----------------------------------------------------------------------------
(* The keyboard interrupt *)

\* In raw mode the scancode is kept for SYS_key_get.
RawKey(sc) ==
    /\ kbd_raw
    /\ kbd' = RingPush(kbd, sc, KBD_RING_SIZE)
    /\ pressed' = LastOf(Append(pressed, sc), KBD_RING_SIZE)
    /\ UNCHANGED <<kbd_raw, stdin, tty_line, task, grabbed, typed, tty_locked,
                   spinning>>

Backspace ==
    /\ tty_line' = IF tty_line = <<>> THEN <<>>
                   ELSE SubSeq(tty_line, 1, Len(tty_line) - 1)
    /\ UNCHANGED <<kbd_raw, kbd, stdin, task, grabbed, typed, pressed,
                   tty_locked, spinning>>

\* Enter commits the line and wakes every reader.
Enter ==
    /\ stdin' = PushAll(stdin, Append(tty_line, "NL"), STDIN_RING_SIZE)
    /\ typed' = LastOf(typed \o Append(tty_line, "NL"), STDIN_RING_SIZE)
    /\ task' = [t \in Task |-> IF task[t] = "reading" THEN "woken" ELSE task[t]]
    /\ tty_line' = <<>>
    /\ UNCHANGED <<kbd_raw, kbd, grabbed, pressed, tty_locked, spinning>>

\* Mutation: the line buffer is filled to its last byte.
TypeChar_full(c) ==
    /\ Len(tty_line) < TTY_LINE_MAX
    /\ ~tty_locked
    /\ tty_line' = Append(tty_line, c)
    /\ UNCHANGED <<kbd_raw, kbd, stdin, task, grabbed, typed, pressed,
                   tty_locked, spinning>>

\* A character joins the line, while there is room, and is echoed.
TypeChar(c) ==
    /\ Len(tty_line) < TTY_LINE_MAX - 1
    /\ ~tty_locked
    /\ tty_line' = Append(tty_line, c)
    /\ UNCHANGED <<kbd_raw, kbd, stdin, task, grabbed, typed, pressed,
                   tty_locked, spinning>>
EchoSpins(c) ==
    /\ Len(tty_line) < TTY_LINE_MAX - 1
    /\ tty_locked
    /\ tty_line' = Append(tty_line, c)
    /\ spinning' = TRUE
    /\ UNCHANGED <<kbd_raw, kbd, stdin, task, grabbed, typed, pressed, tty_locked>>

tty_handler_input(sc) ==
    \/ sc = "BKSP" /\ Backspace
    \/ sc = "ENTER" /\ Enter
    \/ sc \in Char /\ (TypeChar(sc) \/ EchoSpins(sc))

isr_keyboard(sc) ==
    /\ ~spinning
    /\ RawKey(sc) \/ (~kbd_raw /\ tty_handler_input(sc))

-----------------------------------------------------------------------------
(* System calls *)

CanRun(t, where) == ~spinning /\ task[t] = where

\* sys_read(fd 0, n bytes): parks while the ring is empty, else takes what
\* fits.  `where' tells a first call from a reader that was woken.
sys_read(t, where, n) ==
    /\ CanRun(t, where)
    /\ \/ /\ Empty(stdin)
          /\ task' = [task EXCEPT ![t] = "reading"]
          /\ UNCHANGED <<stdin, typed>>
       \/ /\ ~Empty(stdin)
          /\ stdin' = RingDrop(stdin, n, STDIN_RING_SIZE)
          /\ typed' = Without(typed, n)
          /\ task' = [task EXCEPT ![t] = "running"]
    /\ UNCHANGED <<kbd_raw, kbd, tty_line, grabbed, pressed, tty_locked, spinning>>

\* sys_write to the console: it matters here only for the lock.
sys_write(t) == CanRun(t, "running") /\ Spin

\* sys_key_get: the caller takes the keyboard, and at most one scancode.
sys_key_get(t) ==
    /\ CanRun(t, "running")
    /\ kbd_raw' = TRUE
    /\ kbd' = RingDrop(kbd, 1, KBD_RING_SIZE)
    /\ pressed' = Without(pressed, 1)
    /\ grabbed' = grabbed \cup {t}
    /\ UNCHANGED <<stdin, tty_line, task, typed, tty_locked, spinning>>

\* Mutation: the unread scancodes are kept for the next raw reader.
keyboard_set_raw_off_keeps(r) == r

\* keyboard_set_raw(0): the tail catches up with the head.
keyboard_set_raw_off(r) == RingDrop(r, KBD_RING_SIZE, KBD_RING_SIZE)

\* sys_exit: canonical mode again, unread scancodes dropped.
sys_exit(t) ==
    /\ CanRun(t, "running")
    /\ kbd_raw' = FALSE
    /\ kbd' = keyboard_set_raw_off(kbd)
    /\ pressed' = <<>>
    /\ task' = [task EXCEPT ![t] = "gone"]
    /\ grabbed' = grabbed \ {t}
    /\ UNCHANGED <<stdin, tty_line, typed, tty_locked, spinning>>

\* exception_handle prints (so it needs tty_lock) and leads into task_exit.
exception_handle(t) ==
    /\ CanRun(t, "running")
    /\ \/ Spin
       \/ /\ ~tty_locked
          /\ task' = [task EXCEPT ![t] = "gone"]
          /\ grabbed' = grabbed \ {t}
          /\ UNCHANGED <<kbd_raw, kbd, stdin, tty_line, typed, pressed,
                         tty_locked, spinning>>

\* A task is spawned (external to the console).
Start(t) ==
    /\ ~spinning /\ task[t] = "gone"
    /\ task' = [task EXCEPT ![t] = "running"]
    /\ UNCHANGED <<kbd_raw, kbd, stdin, tty_line, grabbed, typed, pressed,
                   tty_locked, spinning>>

-----------------------------------------------------------------------------
EmptyRing(size) == [buf |-> [i \in 0..(size - 1) |-> "NONE"], head |-> 0, tail |-> 0]

Init ==
    /\ kbd_raw = FALSE
    /\ kbd = EmptyRing(KBD_RING_SIZE)
    /\ stdin = EmptyRing(STDIN_RING_SIZE)
    /\ tty_line = <<>>
    /\ task = [t \in Task |-> "gone"]
    /\ grabbed = {}
    /\ typed = <<>>
    /\ pressed = <<>>
    /\ tty_locked = FALSE
    /\ spinning = FALSE

Next ==
    \/ \E sc \in Scancode : isr_keyboard(sc)
    \/ InitLocks \/ InitUnlocks
    \/ \E t \in Task :
         \/ \E n \in 1..STDIN_RING_SIZE :
               sys_read(t, "running", n) \/ sys_read(t, "woken", n)
         \/ sys_write(t) \/ sys_key_get(t)
         \/ sys_exit(t) \/ exception_handle(t) \/ Start(t)

Spec == Init /\ [][Next]_vars

-----------------------------------------------------------------------------
(* Properties *)

Index == 0..(IndexMod - 1)

TypeOK ==
    /\ kbd_raw \in BOOLEAN /\ tty_locked \in BOOLEAN /\ spinning \in BOOLEAN
    /\ kbd \in [buf : [0..(KBD_RING_SIZE - 1) -> Scancode \cup {"NONE"}],
                head : Index, tail : Index]
    /\ stdin \in [buf : [0..(STDIN_RING_SIZE - 1) -> Byte \cup {"NONE"}],
                  head : Index, tail : Index]
    /\ tty_line \in Seq(Char) /\ Len(tty_line) < TTY_LINE_MAX
    /\ task \in [Task -> {"running", "reading", "woken", "gone"}]
    /\ grabbed \in SUBSET Task

\* The input ring is a queue of the bytes typed, the oldest dropped when it is
\* full, also when its u32 indices wrap around, and so is the raw scancode ring,
\* mode changes by other tasks included (stdin_push, tty_stdin_read,
\* kbd_ring_push, keyboard_pop_scancode, keyboard_set_raw).
RingsAreQueues ==
    /\ Contents(stdin, STDIN_RING_SIZE) = typed
    /\ Contents(kbd, KBD_RING_SIZE) = pressed

\* README.lizard.md:30 says of SYS_key_get: "First call flips the keyboard to
\* "raw" mode (the shell's line editor stops seeing keys); task exit flips it
\* back."  So in raw mode some task that asked for it is still alive.
KeyboardHandedBack == kbd_raw => grabbed # {}

\* main.c:29-30 promises that "the machine never drops to a dead prompt".  So
\* nobody waits, with interrupts off, for a lock whose holder cannot run.
NeverSpins == ~spinning
=============================================================================
