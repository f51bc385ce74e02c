------------------------------- MODULE Shell --------------------------------
(***************************************************************************)
(* The shell (userspace/src/sh.c) between the console's input ring and the *)
(* programs it starts.  The ring is the queue that Console shows it to be; *)
(* a read takes what is waiting, up to its size, and does not stop at a    *)
(* line end.  read never returns 0 or an error here, so the shell's end of *)
(* file is left out.  What the file system and the loader answer is any    *)
(* answer they can give: Files models them.                                *)
(***************************************************************************)
EXTENDS Integers, Sequences, FiniteSets

CONSTANTS
    LINE_MAX, MAX_ARGS,         \* sh.c
    SPAWN_MAX_ARGS, ARGBUF,     \* sys_spawn: arguments, bytes of argbuf
    STDIN_SIZE,                 \* bytes the input ring holds
    Line,                       \* the lines that may be typed, without their end
    Command,                    \* [word -> the builtin it names]
    PATH_CHAR,                  \* "/"
    ExitCode,                   \* how programs end
    MaxTyped                    \* bound on the lines typed

ASSUME ShellAssumption ==
    /\ {LINE_MAX, MAX_ARGS, SPAWN_MAX_ARGS, ARGBUF, STDIN_SIZE} \subseteq Nat \ {0}
    /\ LINE_MAX > 1 /\ MAX_ARGS > 1
    /\ \A line \in Line : line \in Seq(STRING)

VARIABLES
    input,      \* the ring: bytes typed and not yet read
    sh,         \* the shell: where it is, its line buffer, `last', argv of its child
    owed,       \* history: the bytes typed and not yet run as a command
    lost,       \* history: the ring overflowed
    ran,        \* history: the last command: [argv, line, whole]
    lines       \* history: how many lines were typed

shVars == <<input, sh, owed, lost, ran, lines>>

blank(c) == c \in {" ", "TAB"}
Prefix(s, n) == SubSeq(s, 1, IF n < Len(s) THEN n ELSE Len(s))
Suffix(s, n) == SubSeq(s, n + 1, Len(s))

\* The pointer p walks the line, one word a round, until the words run out or
\* argv is full.
tokenize_all(line) ==
    LET skip[p \in 1 .. Len(line) + 1] == IF p <= Len(line) /\ blank(line[p]) THEN skip[p + 1] ELSE p
        stop[p \in 1 .. Len(line) + 1] == IF p <= Len(line) /\ ~blank(line[p]) THEN stop[p + 1] ELSE p
        from[p \in 1 .. Len(line) + 1] ==
            [argc \in 0 .. MAX_ARGS |->
                IF p > Len(line) \/ argc >= MAX_ARGS \/ skip[p] > Len(line) THEN <<>>
                ELSE <<SubSeq(line, skip[p], stop[skip[p]] - 1)>>
                     \o (IF stop[skip[p]] > Len(line) THEN <<>> ELSE from[stop[skip[p]] + 1][argc + 1])]
    IN  from[1][0]
tokenize(line) ==
    LET skip[p \in 1 .. Len(line) + 1] == IF p <= Len(line) /\ blank(line[p]) THEN skip[p + 1] ELSE p
        stop[p \in 1 .. Len(line) + 1] == IF p <= Len(line) /\ ~blank(line[p]) THEN stop[p + 1] ELSE p
        from[p \in 1 .. Len(line) + 1] ==
            [argc \in 0 .. MAX_ARGS |->
                IF p > Len(line) \/ argc >= MAX_ARGS - 1 \/ skip[p] > Len(line) THEN <<>>
                ELSE <<SubSeq(line, skip[p], stop[skip[p]] - 1)>>
                     \o (IF stop[skip[p]] > Len(line) THEN <<>> ELSE from[stop[skip[p]] + 1][argc + 1])]
    IN  from[1][0]

is_path(word) == \E i \in DOMAIN word : word[i] = PATH_CHAR

\* The end of read_line: line ends at the end of the buffer are dropped.
Stripped(buf) ==
    LET keep == {n \in 0 .. Len(buf) : n = 0 \/ buf[n] # "NL"}
    IN  SubSeq(buf, 1, CHOOSE n \in keep : \A k \in keep : k <= n)
LineComplete(buf) == buf # <<>> /\ (Len(buf) = LINE_MAX - 1 \/ buf[Len(buf)] = "NL")

\* sys_spawn copies the arguments into argbuf, each with its NUL: too many, or
\* more bytes than fit, and it fails.
Copied(argv) ==
    LET used[i \in 0 .. Len(argv)] == IF i = 0 THEN 0 ELSE used[i - 1] + Len(argv[i]) + 1
    IN  [ok |-> Len(argv) <= SPAWN_MAX_ARGS /\ used[Len(argv)] <= ARGBUF, argv |-> argv]

-----------------------------------------------------------------------------
(* The keyboard *)

\* A line is committed to the ring; a full ring loses its oldest bytes.
TypeLine(line) ==
    LET all == input \o Append(line, "NL")
    IN  /\ lines < MaxTyped /\ lines' = lines + 1
        /\ input' = Suffix(all, IF Len(all) > STDIN_SIZE THEN Len(all) - STDIN_SIZE ELSE 0)
        /\ lost' = (lost \/ Len(all) > STDIN_SIZE)
        /\ owed' = owed \o Append(line, "NL")
        /\ UNCHANGED <<sh, ran>>

(* The shell *)

Prompt(last) == [at |-> "read", buf |-> <<>>, last |-> last, child |-> <<>>]

\* One read of read_line: the rest of the buffer, or less.
read_line ==
    LET room == LINE_MAX - 1 - Len(sh.buf)
        buf == sh.buf \o Prefix(input, room)
    IN  /\ sh.at = "read" /\ input # <<>>
        /\ input' = Suffix(input, IF room < Len(input) THEN room ELSE Len(input))
        /\ sh' = [sh EXCEPT !.buf = buf, !.at = IF LineComplete(buf) THEN "run" ELSE "read"]
        /\ UNCHANGED <<owed, lost, ran, lines>>

\* The builtins that name files: every operand is tried, and one that fails is
\* enough for status 1.  cd and ls have a default operand.
Status(operands) == IF \E i \in DOMAIN operands : operands[i] < 0 THEN 1 ELSE 0
FileStatus(cmd, argv) ==
    IF cmd \in {"cd", "ls"} THEN {0, 1}
    ELSE IF Len(argv) < 2 THEN {1}
    ELSE {Status(rc) : rc \in [2 .. Len(argv) -> {-1, 0}]}

\* The words of the first line owed, and whether it is all that was read.
FirstLine == Prefix(owed, (CHOOSE n \in DOMAIN owed : owed[n] = "NL" /\ \A k \in 1 .. n - 1 : owed[k] # "NL") - 1)

Runs(argv, next) ==
    /\ sh.at = "run"
    /\ sh' = next
    /\ ran' = [argv |-> argv, line |-> FirstLine, whole |-> Append(FirstLine, "NL") = sh.buf]
    /\ owed' = Suffix(owed, Len(sh.buf))
    /\ UNCHANGED <<input, lost, lines>>

Builtin(argv) == IF argv # <<>> /\ argv[1] \in DOMAIN Command THEN Command[argv[1]] ELSE "none"
CommandIs(cmds) == LET argv == tokenize(Stripped(sh.buf)) IN argv # <<>> /\ Builtin(argv) \in cmds

RunEmpty == tokenize(Stripped(sh.buf)) = <<>> /\ Runs(<<>>, Prompt(sh.last))
\* `exit' ends the shell, with the status given or the last one.
RunExit ==
    /\ CommandIs({"exit"})
    /\ Runs(tokenize(Stripped(sh.buf)), [sh EXCEPT !.at = "gone", !.buf = <<>>])
RunFiles ==
    LET argv == tokenize(Stripped(sh.buf))
    IN  /\ CommandIs({"cd", "mkdir", "rm", "rmdir", "ls"})
        /\ \E last \in FileStatus(Builtin(argv), argv) : Runs(argv, Prompt(last))
\* help, echo, clear and status leave the status alone, pwd clears it.
RunOther ==
    LET argv == tokenize(Stripped(sh.buf))
    IN  /\ CommandIs({"help", "echo", "clear", "status", "pwd"})
        /\ Runs(argv, Prompt(IF Builtin(argv) = "pwd" THEN 0 ELSE sh.last))
\* A word without a slash, a program that cannot be started.
RunUnknown ==
    LET argv == tokenize(Stripped(sh.buf))
    IN  CommandIs({"none"}) /\ Runs(argv, Prompt(127))
sys_spawn ==
    LET argv == tokenize(Stripped(sh.buf))
    IN  /\ CommandIs({"none"}) /\ is_path(argv[1]) /\ Copied(argv).ok
        /\ Runs(argv, [sh EXCEPT !.at = "wait", !.buf = <<>>, !.child = Copied(argv).argv])

\* The child reads from the same ring, and ends; the shell collects its status.
ChildReads ==
    /\ sh.at = "wait" /\ input # <<>>
    /\ \E n \in 1 .. Len(input) : input' = Suffix(input, n) /\ owed' = Suffix(owed, n)
    /\ UNCHANGED <<sh, lost, ran, lines>>
sys_waitpid ==
    /\ sh.at = "wait"
    /\ \E status \in ExitCode : sh' = Prompt(status)
    /\ UNCHANGED <<input, owed, lost, ran, lines>>

\* init starts another shell.
Respawn ==
    /\ sh.at = "gone" /\ sh' = Prompt(0)
    /\ UNCHANGED <<input, owed, lost, ran, lines>>

ShInit ==
    /\ input = <<>> /\ sh = Prompt(0) /\ owed = <<>> /\ lost = FALSE /\ lines = 0
    /\ ran = [argv |-> <<>>, line |-> <<>>, whole |-> TRUE]

ShNext ==
    \/ \E line \in Line : TypeLine(line)
    \/ read_line \/ RunEmpty \/ RunExit \/ RunFiles \/ RunOther \/ RunUnknown \/ sys_spawn
    \/ ChildReads \/ sys_waitpid \/ Respawn

ShSpec == ShInit /\ [][ShNext]_shVars

-----------------------------------------------------------------------------
(* Properties *)

\* The words of a line: its longest runs without a blank.
Words(line) ==
    LET starts == {i \in DOMAIN line : ~blank(line[i]) /\ (i = 1 \/ blank(line[i - 1]))}
        nth(k) == CHOOSE i \in starts : Cardinality({j \in starts : j < i}) = k - 1
        end(i) == CHOOSE j \in i .. Len(line) :
                      (\A k \in i .. j : ~blank(line[k])) /\ (j = Len(line) \/ blank(line[j + 1]))
    IN  [k \in 1 .. Cardinality(starts) |-> SubSeq(line, nth(k), end(nth(k)))]

\* What is typed is what is run.  As long as the ring does not overflow, the
\* bytes in the shell's buffer and in the ring are the ones owed, in order, none
\* lost or run twice, however the reads cut them; and a command that was read as
\* one line has the words of that line, at most MAX_ARGS - 1 of them, and so does
\* the program started for it.  Lines typed ahead are read together and run as one
\* command, and a line longer than the buffer as several: `whole' is FALSE for
\* them (sh.c read_line, tokenize, main; syscall.c sys_spawn).
CommandIsLine ==
    ~lost =>
        /\ sh.buf \o input = owed
        /\ ran.whole => ran.argv = Prefix(Words(ran.line), MAX_ARGS - 1)
        /\ sh.at = "wait" => sh.child = ran.argv
=============================================================================
