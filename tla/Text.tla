-------------------------------- MODULE Text --------------------------------
(***************************************************************************)
(* Text made and read by programs and by the kernel: the formatted output  *)
(* of userspace/lib/printf.c and nolibc, and the number readers strtol     *)
(* (userspace/lib/stdlib.c) and sscanf (userspace/lib/scanf.c).            *)
(*                                                                         *)
(* A character is a one-letter string; "NUL" ends a C string, "FF" is the  *)
(* byte 255, "EOF" is what a reader gets at the end.  A format is a        *)
(* sequence of items: a conversion with its flags, width and precision,    *)
(* already parsed, or a literal (conv = "lit").  Item i takes args[i].     *)
(* An int has the range of INT_LIMIT, a u64 that of LONG_LIMIT.            *)
(***************************************************************************)
EXTENDS Integers, Sequences, FiniteSets

CONSTANTS
    INT_LIMIT,      \* 2^32
    LONG_LIMIT,     \* 2^64
    FBUF,           \* bytes a printf gathers before it writes: 128
    Job,            \* what programs print and how they read it: [fmt, args, scan]
    KJob,           \* what the kernel prints: [fmt, args]
    Cap             \* the buffer sizes given to snprintf

\* An argument has the type of its conversion, and text holds no NUL.
Char0 == STRING \ {"NUL"}
Takes(it, arg) ==
    /\ it.conv \in Char0 /\ it.width \in Int /\ it.prec \in Int
    /\ it.conv = "d" => arg \in Int
    /\ it.conv \in {"u", "o", "x", "X", "p"} => arg \in Nat
    /\ it.conv = "c" => arg \in Char0
    /\ it.conv \in {"s", "lit"} => arg \in Seq(Char0)

ASSUME TextAssumption ==
    /\ {INT_LIMIT, LONG_LIMIT, FBUF} \subseteq Nat \ {0}
    /\ INT_LIMIT % 2 = 0 /\ LONG_LIMIT >= INT_LIMIT
    /\ Cap \subseteq Nat
    /\ \A j \in Job : Len(j.fmt) \in Nat /\ \A i \in 1 .. Len(j.fmt) : Takes(j.fmt[i], j.args[i])
    /\ \A j \in KJob : "scan" \notin DOMAIN j

VARIABLES
    job,        \* the job at hand
    line,       \* the text it produced
    ret,        \* what the call returned
    back        \* what was read back: "how" it was read, the values and the count

textVars == <<job, line, ret, back>>

INT_MAX == INT_LIMIT \div 2 - 1
INT_MIN == -(INT_LIMIT \div 2)
\* A conversion to int, as the compiler makes it.
ToInt(v) == ((v + INT_LIMIT \div 2) % INT_LIMIT) - INT_LIMIT \div 2

Lower == <<"0", "1", "2", "3", "4", "5", "6", "7", "8", "9", "a", "b", "c", "d", "e", "f">>
Upper == <<"0", "1", "2", "3", "4", "5", "6", "7", "8", "9", "A", "B", "C", "D", "E", "F">>
isspace(c) == c \in {" ", "TAB", "NL"}
DigitsOf(base) == {i \in 1 .. 16 : i <= base}
\* digitval, and the same test in __vscan_core.
IsDigit(c, base) == \E i \in DigitsOf(base) : c \in {Lower[i], Upper[i]}
digitval(c, base) == (CHOOSE i \in DigitsOf(base) : c \in {Lower[i], Upper[i]}) - 1

Times(c, n) == IF n > 0 THEN [i \in 1 .. n |-> c] ELSE <<>>
First(s, n) == SubSeq(s, 1, IF n < Len(s) THEN n ELSE Len(s))
Beyond(s, n) == SubSeq(s, n + 1, Len(s))
\* The length of the longest prefix of s, of at most n elements, that is in P.
Span(s, n, P(_)) ==
    CHOOSE k \in 0 .. Len(s) :
        /\ k <= n \/ k = 0
        /\ \A i \in 1 .. k : P(s[i])
        /\ k = Len(s) \/ k >= n \/ ~P(s[k + 1])

-----------------------------------------------------------------------------
(* printf.c *)

u_to_str(v, base, digs) ==
    LET str[x \in 0 .. v] ==
            IF x < base THEN <<digs[x + 1]>> ELSE Append(str[x \div base], digs[(x % base) + 1])
    IN  str[v]

\* Padding to the width and to the precision, around sign or prefix and digits.
\* A zero flag with a precision pads nothing.
Number(it, prefix, digits) ==
    LET zpad == IF it.prec > Len(digits) THEN it.prec - Len(digits) ELSE 0
        wpad == it.width - (Len(digits) + zpad + Len(prefix))
    IN  Times(" ", IF ~it.left /\ ~it.zero THEN wpad ELSE 0)
        \o prefix
        \o Times("0", IF ~it.left /\ it.zero /\ it.prec < 0 THEN wpad ELSE 0)
        \o Times("0", zpad) \o digits
        \o Times(" ", IF it.left THEN wpad ELSE 0)
Padded(it, s) ==
    Times(" ", IF it.left THEN 0 ELSE it.width - Len(s)) \o s \o Times(" ", IF it.left THEN it.width - Len(s) ELSE 0)

\* The magnitude of a negative number without leaving the range of the type.
Magnitude_int(v) == IF v < 0 THEN ToInt(-v) % LONG_LIMIT ELSE v
Magnitude(v) == IF v < 0 THEN (-(v + 1)) + 1 ELSE v

\* One conversion of vfmt.
Converted(it, arg) ==
    CASE it.conv = "d" ->
            Number(it, IF arg < 0 THEN <<"-">> ELSE IF it.plus THEN <<"+">> ELSE IF it.space THEN <<" ">> ELSE <<>>,
                   u_to_str(Magnitude(arg), 10, Lower))
      [] it.conv = "u" -> Number(it, <<>>, u_to_str(arg, 10, Lower))
      [] it.conv = "o" -> Number(it, <<>>, u_to_str(arg, 8, Lower))
      [] it.conv = "x" -> Number(it, IF it.alt /\ arg # 0 THEN <<"0", "x">> ELSE <<>>, u_to_str(arg, 16, Lower))
      [] it.conv = "X" -> Number(it, IF it.alt /\ arg # 0 THEN <<"0", "X">> ELSE <<>>, u_to_str(arg, 16, Upper))
      [] it.conv = "c" -> Padded(it, <<arg>>)
      [] it.conv = "s" -> Padded(it, IF it.prec >= 0 THEN First(arg, it.prec) ELSE arg)
      [] it.conv = "p" -> Padded(it, <<"0", "x">> \o u_to_str(arg, 16, Lower))
      [] it.conv \in {"n", "end"} -> <<>>
      [] it.conv = "%" -> <<"%">>
      [] it.conv = "lit" -> arg
      [] OTHER -> <<"%", it.conv>>

\* The characters vfmt hands to its sink, and the last count stored by %n.
vfmt(fmt, args) ==
    LET upto[i \in 0 .. Len(fmt)] ==
            IF i = 0 THEN [out |-> <<>>, n |-> -1]
            ELSE LET p == upto[i - 1]
                 IN  [out |-> p.out \o Converted(fmt[i], args[i]),
                      n   |-> IF fmt[i].conv = "n" THEN Len(p.out) ELSE p.n]
    IN  upto[Len(fmt)]

\* struct sink: a caller's buffer of cap bytes (fd < 0), or a descriptor with
\* fbuf bytes gathered; wrote is what sys_write was given.
sink_flush_keeps(s) == IF s.fd >= 0 /\ s.fbuf # <<>> THEN [s EXCEPT !.wrote = Append(@, s.fbuf)] ELSE s
sink_flush(s) == IF s.fd >= 0 /\ s.fbuf # <<>> THEN [s EXCEPT !.wrote = Append(@, s.fbuf), !.fbuf = <<>>] ELSE s
sink_putc(s, c) ==
    [IF s.fd >= 0
     THEN LET room == IF Len(s.fbuf) = FBUF THEN sink_flush(s) ELSE s IN [room EXCEPT !.fbuf = Append(@, c)]
     ELSE IF s.len + 1 < s.cap THEN [s EXCEPT !.buf[s.len] = c] ELSE s
     EXCEPT !.len = @ + 1]
Sink(cap, fd) ==
    [buf |-> [i \in 0 .. cap - 1 |-> "junk"], cap |-> cap, len |-> 0, fd |-> fd, fbuf |-> <<>>, wrote |-> <<>>]
sink_write(s, text) ==
    LET put[i \in 0 .. Len(text)] == IF i = 0 THEN s ELSE sink_putc(put[i - 1], text[i])
    IN  sink_flush(put[Len(text)])

\* A buffer read as a C string.
CString(buf) ==
    LET nuls == {i \in DOMAIN buf : buf[i] = "NUL"}
        end == IF nuls = {} THEN Cardinality(DOMAIN buf) ELSE CHOOSE i \in nuls : \A j \in nuls : i <= j
    IN  [i \in 1 .. end |-> buf[i - 1]]

\* __vfmt_buf, behind snprintf and its relatives.
vfmt_buf(cap, fmt, args) ==
    LET s == sink_write(Sink(cap, -1), vfmt(fmt, args).out)
    IN  [ret |-> s.len,
         buf |-> IF cap = 0 THEN s.buf ELSE [s.buf EXCEPT ![IF s.len < cap THEN s.len ELSE cap - 1] = "NUL"]]
\* vfd, behind printf: the writes it makes.
vfd(fmt, args) ==
    LET s == sink_write(Sink(0, 1), vfmt(fmt, args).out) IN [ret |-> s.len, wrote |-> s.wrote]

-----------------------------------------------------------------------------
(* The kernel's printing *)

unsigned_to_string(v) ==
    LET str[x \in Nat] == IF x = 0 THEN <<>> ELSE Append(str[x \div 10], Lower[(x % 10) + 1])
    IN  IF v = 0 THEN <<"0">> ELSE str[v]
get_unsigned2string_final_size(v) ==
    LET size[x \in Nat] == IF x = 0 THEN 0 ELSE 1 + size[x \div 10]
    IN  IF v = 0 THEN 1 ELSE size[v]
unsigned_to_hexstring(v) ==
    LET str[x \in Nat] == IF x = 0 THEN <<>> ELSE Append(str[x \div 16], Lower[(x % 16) + 1])
    IN  IF v = 0 THEN <<"0">> ELSE str[v]
get_unsigned2hex_final_size(v) ==
    LET size[x \in Nat] == IF x = 0 THEN 0 ELSE 1 + size[x \div 16]
    IN  IF v = 0 THEN 1 ELSE size[v]

\* (u64)-val: the negation is made in int, so INT_MIN stays what it is.
KMagnitude(v) == IF v < 0 THEN ToInt(-v) % LONG_LIMIT ELSE v

\* tty_putchar returns its character: byte 255 looks like EOF, and kprint stops.
kprint(s) ==
    LET k == Span(s, Len(s), LAMBDA c : c # "FF")
    IN  [ok |-> k = Len(s), out |-> First(s, k + 1)]

\* What kvprintf gives to kprint for an item, the digits cut to the size counted
\* beforehand; "%" and an unknown conversion are literals.
KText(it, arg) ==
    CASE it.conv \in {"u", "llu"} -> First(unsigned_to_string(arg), get_unsigned2string_final_size(arg))
      [] it.conv = "d" ->
            (IF arg < 0 THEN <<"-">> ELSE <<>>)
            \o First(unsigned_to_string(KMagnitude(arg)), get_unsigned2string_final_size(KMagnitude(arg)))
      [] it.conv = "x" -> First(unsigned_to_hexstring(arg), get_unsigned2hex_final_size(arg))
      [] it.conv = "p" -> <<"0", "x">> \o First(unsigned_to_hexstring(arg), get_unsigned2hex_final_size(arg))
      [] it.conv = "c" -> <<arg>>
      [] OTHER -> arg
\* A count that would pass INT_MAX, or a character that looks like EOF, ends the
\* call with -1; a conversion it does not know ends it with the rest of the
\* format printed as it stands (conv = "unknown", its text the argument).
kvprintf(fmt, args) ==
    LET upto[i \in 0 .. Len(fmt)] ==
            IF i = 0 THEN [out |-> <<>>, ret |-> 0, stop |-> FALSE]
            ELSE LET p == upto[i - 1]
                     text == KText(fmt[i], args[i])
                     room == INT_MAX - p.ret
                     full == IF fmt[i].conv \in {"s", "lit", "unknown"} THEN room < Len(text) ELSE room = 0
                 IN  IF p.stop THEN p
                     ELSE IF full THEN [p EXCEPT !.ret = -1, !.stop = TRUE]
                     ELSE IF ~kprint(text).ok
                          THEN [out |-> p.out \o kprint(text).out, ret |-> -1, stop |-> TRUE]
                     ELSE [out |-> p.out \o text, ret |-> p.ret + Len(text), stop |-> fmt[i].conv = "unknown"]
    IN  upto[Len(fmt)]
\* The kernel's sprintf: no limit, and an unknown conversion is kept.
ksprintf(fmt, args) ==
    LET upto[i \in 0 .. Len(fmt)] ==
            IF i = 0 THEN <<>>
            ELSE upto[i - 1] \o (IF fmt[i].conv = "d"
                                 THEN (IF args[i] < 0 THEN <<"-">> ELSE <<>>) \o unsigned_to_string(KMagnitude(args[i]))
                                 ELSE IF fmt[i].conv = "u" THEN unsigned_to_string(args[i])
                                 ELSE IF fmt[i].conv = "x" THEN unsigned_to_hexstring(args[i])
                                 ELSE IF fmt[i].conv = "c" THEN <<args[i]>> ELSE args[i])
    IN  [out |-> upto[Len(fmt)], ret |-> Len(upto[Len(fmt)])]

-----------------------------------------------------------------------------
(* Reading *)

ValueOf(s, base) ==
    LET acc[i \in 0 .. Len(s)] == IF i = 0 THEN 0 ELSE acc[i - 1] * base + digitval(s[i], base) IN acc[Len(s)]

\* The value, and how much of the string it took: nothing when there is no digit.
strtol(s, base) ==
    LET blank == Span(s, Len(s), isspace)
        sign == IF Len(s) > blank /\ s[blank + 1] \in {"+", "-"} THEN 1 ELSE 0
        p == Beyond(s, blank + sign)
        hex == base \in {0, 16} /\ Len(p) >= 2 /\ p[1] = "0" /\ p[2] \in {"x", "X"}
        b == IF hex THEN 16 ELSE IF base # 0 THEN base ELSE IF p # <<>> /\ p[1] = "0" THEN 8 ELSE 10
        q == IF hex THEN Beyond(p, 2) ELSE p
        n == Span(q, Len(q), LAMBDA c : IsDigit(c, b))
        v == ValueOf(First(q, n), b)
    IN  [value |-> IF sign = 1 /\ s[blank + 1] = "-" THEN -v ELSE v, end |-> IF n = 0 THEN 0 ELSE Len(s) - Len(q) + n]

\* struct strctx: what is left of the string and one character pushed back.
Upcoming(x) == (IF x.pushed = "NONE" THEN <<>> ELSE <<x.pushed>>) \o x.p
Peek(x, k) == IF Len(Upcoming(x)) < k THEN "EOF" ELSE Upcoming(x)[k]
\* k calls of str_get.
str_get(x, k) == IF k = 0 THEN x ELSE [p |-> Beyond(Upcoming(x), k), pushed |-> "NONE"]
str_unget(x, c) == IF c = "EOF" THEN x ELSE [x EXCEPT !.pushed = c]

\* Blanks skipped and the character behind them taken: [c, x].
SkipBlanks(x) ==
    LET k == Span(Upcoming(x), Len(Upcoming(x)), isspace) IN [c |-> Peek(x, k + 1), x |-> str_get(x, k + 1)]

\* A value was read and the character c after it is pushed back; ok = FALSE: no value.
Read(x, c, ok, value) == [x |-> str_unget(x, c), ok |-> ok, value |-> value]

\* The digits that start with c, the rest of them in x.
ScanDigits(c, x, width, base, neg) ==
    LET s == (IF c = "EOF" THEN <<>> ELSE <<c>>) \o Upcoming(x)
        n == Span(s, width, LAMBDA d : IsDigit(d, base))
        v == ValueOf(First(s, n), base)
    IN  Read(str_get(x, n), IF n < Len(s) THEN s[n + 1] ELSE "EOF", n > 0, ToInt(IF neg THEN -v ELSE v))
\* An optional 0x in front of them.
ScanPrefix(c, x, width, it, neg) ==
    LET base == IF it.conv = "x" THEN 16 ELSE IF it.conv = "o" THEN 8 ELSE 10
        zero == it.conv \in {"i", "x"} /\ c = "0"
        c2 == Peek(x, 1)
    IN  IF zero /\ c2 \in {"x", "X"} THEN ScanDigits(Peek(x, 2), str_get(x, 2), width - 2, 16, neg)
        ELSE IF zero THEN ScanDigits(c, str_unget(str_get(x, 1), c2), width, IF it.conv = "i" THEN 8 ELSE base, neg)
        ELSE ScanDigits(c, x, width, base, neg)
ScanNumber(x, it) ==
    LET s == SkipBlanks(x)
    IN  IF s.c \in {"+", "-"}
        THEN ScanPrefix(Peek(s.x, 1), str_get(s.x, 1), it.width - 1, it, s.c = "-")
        ELSE ScanPrefix(s.c, s.x, it.width, it, FALSE)

\* Characters while P holds of them, the first of them c.
ScanWhile(c, x, width, P(_)) ==
    LET s == (IF c = "EOF" THEN <<>> ELSE <<c>>) \o Upcoming(x)
        n == Span(s, width, P)
    IN  Read(str_get(x, n), IF n < Len(s) THEN s[n + 1] ELSE "EOF", n > 0, First(s, n))
\* %c pushes nothing back.
ScanChars(x, width) ==
    LET s == First(Upcoming(x), width) IN [x |-> str_get(x, width), ok |-> s # <<>>, value |-> s]

\* What an item of the format reads: a blank, a literal and "%" yield no value,
\* a conversion it does not know ends the call.
ScanItem(x, it) ==
    CASE it.conv \in {"d", "i", "u", "x", "o"} -> ScanNumber(x, it)
      [] it.conv = "s" -> ScanWhile(SkipBlanks(x).c, SkipBlanks(x).x, it.width, LAMBDA c : ~isspace(c))
      [] it.conv = "c" -> ScanChars(x, it.width)
      [] it.conv = "[" -> ScanWhile(Peek(x, 1), str_get(x, 1), it.width, LAMBDA c : (c \in it.set) # it.negate)
      [] it.conv = "blank" -> Read(SkipBlanks(x).x, SkipBlanks(x).c, TRUE, <<>>)
      [] it.conv = "lit" -> IF Peek(x, 1) = it.char THEN [x |-> str_get(x, 1), ok |-> TRUE, value |-> <<>>]
                            ELSE Read(str_get(x, 1), Peek(x, 1), FALSE, <<>>)
      [] it.conv = "%" -> IF SkipBlanks(x).c = "%" THEN [x |-> SkipBlanks(x).x, ok |-> TRUE, value |-> <<>>]
                          ELSE Read(SkipBlanks(x).x, SkipBlanks(x).c, FALSE, <<>>)
      [] OTHER -> [x |-> x, ok |-> FALSE, value |-> <<>>]

\* __vscan_core: the values stored and the result, -1 for EOF.
vscan_core(s, fmt) ==
    LET upto[i \in 0 .. Len(fmt)] ==
            IF i = 0 THEN [x |-> [p |-> s, pushed |-> "NONE"], got |-> <<>>, ret |-> 0, stop |-> FALSE]
            ELSE LET p == upto[i - 1]
                     it == fmt[i]
                     r == ScanItem(p.x, it)
                     stores == it.conv \notin {"blank", "lit", "%"} /\ ~it.suppress
                 IN  IF p.stop THEN p
                     ELSE IF ~r.ok
                          THEN [p EXCEPT !.stop = TRUE, !.x = r.x,
                                         !.ret = IF p.ret > 0 \/ it.conv \in {"%", "unknown"} THEN @
                                                 ELSE IF it.conv = "lit" /\ Peek(p.x, 1) # "EOF" THEN 0 ELSE -1]
                     ELSE [x |-> r.x, got |-> IF stores THEN Append(p.got, r.value) ELSE p.got,
                           ret |-> IF stores THEN p.ret + 1 ELSE p.ret, stop |-> FALSE]
    IN  upto[Len(fmt)]

-----------------------------------------------------------------------------
(* A program prints and reads back; the kernel prints. *)

None == [how |-> "none"]

TextInit == job \in Job \cup KJob /\ line = <<>> /\ ret = -2 /\ back = None

Fresh == ret = -2
ByProgram == "scan" \in DOMAIN job

CallSnprintf(cap) ==
    /\ Fresh /\ ByProgram
    /\ LET r == vfmt_buf(cap, job.fmt, job.args)
       IN  ret' = r.ret /\ line' = [how |-> "buffer", cap |-> cap, text |-> CString(r.buf)]
    /\ UNCHANGED <<job, back>>
CallPrintf ==
    /\ Fresh /\ ByProgram
    /\ LET r == vfd(job.fmt, job.args)
       IN  ret' = r.ret /\ line' = [how |-> "writes", wrote |-> r.wrote]
    /\ UNCHANGED <<job, back>>
CallKprintf ==
    /\ Fresh /\ ~ByProgram
    /\ LET r == kvprintf(job.fmt, job.args) IN ret' = r.ret /\ line' = [how |-> "kernel", text |-> r.out]
    /\ UNCHANGED <<job, back>>
\* Device and cache names are made from the conversions that sprintf knows.
CallKsprintf ==
    /\ Fresh /\ ~ByProgram
    /\ \A i \in DOMAIN job.fmt : job.fmt[i].conv \in {"d", "u", "x", "c", "s", "lit"}
    /\ LET r == ksprintf(job.fmt, job.args) IN ret' = r.ret /\ line' = [how |-> "kernel", text |-> r.out]
    /\ UNCHANGED <<job, back>>

Printed == ~Fresh /\ back = None
CallSscanf ==
    /\ Printed /\ line.how = "buffer" /\ job.scan # <<>>
    /\ LET r == vscan_core(line.text, job.scan) IN back' = [how |-> "sscanf", got |-> r.got, ret |-> r.ret]
    /\ UNCHANGED <<job, line, ret>>
\* The base the text was written in.
BaseOf(conv) == CASE conv \in {"d", "u", "llu"} -> 10 [] conv = "o" -> 8 [] conv \in {"x", "X", "p"} -> 16 [] OTHER -> 1
CallStrtol ==
    /\ Printed /\ line.how \in {"buffer", "kernel"} /\ BaseOf(job.fmt[1].conv) > 1
    /\ LET r == strtol(line.text, BaseOf(job.fmt[1].conv)) IN back' = [how |-> "strtol", value |-> r.value, end |-> r.end]
    /\ UNCHANGED <<job, line, ret>>

TextNext ==
    \/ \E cap \in Cap : CallSnprintf(cap)
    \/ CallPrintf \/ CallKprintf \/ CallKsprintf \/ CallSscanf \/ CallStrtol

TextSpec == TextInit /\ [][TextNext]_textVars

-----------------------------------------------------------------------------
(* Properties *)

\* The values an argument stands for: a string is cut at the precision.
Meant(it, arg) ==
    IF it.conv = "s" THEN (IF it.prec >= 0 THEN First(arg, it.prec) ELSE arg)
    ELSE IF it.conv = "c" THEN <<arg>> ELSE ToInt(arg)
Values(j) ==
    LET takes == {i \in DOMAIN j.fmt : j.fmt[i].conv \notin {"lit", "n", "%", "end"}}
        nth(k) == CHOOSE i \in takes : Cardinality({x \in takes : x < i}) = k - 1
    IN  [k \in 1 .. Cardinality(takes) |-> Meant(j.fmt[nth(k)], j.args[nth(k)])]

\* What is printed is read back: whatever the flags, the width, the precision
\* and the base, sscanf with the matching format stores the arguments of
\* snprintf and strtol returns the first one, up to INT_MIN and the largest
\* unsigned, unless the buffer was too small; so does strtol of what the kernel
\* printed, except for INT_MIN (printf.c vfmt, nolibc/stdio.c kvprintf,
\* scanf.c __vscan_core, stdlib.c strtol).
NumbersSurvive ==
    /\ back.how = "sscanf" /\ ret < line.cap => back.got = Values(job) /\ back.ret = Len(back.got)
    /\ back.how = "strtol" /\ (line.how = "buffer" => ret < line.cap) =>
          \/ back.value = job.args[1] /\ back.end > 0
          \/ line.how = "kernel" /\ job.args[1] = INT_MIN

\* Output goes where it may and all of it: a buffer of any size holds the text or
\* the longest prefix of it that leaves room for the NUL, the writes of a printf
\* join to the text in pieces of at most FBUF bytes, and both return the length
\* of the whole text (printf.c sink_putc, __vfmt_buf).
BufferHoldsPrefix ==
    ~Fresh /\ line.how # "kernel" =>
        LET whole == vfmt(job.fmt, job.args).out
            joined[i \in 0 .. Len(line.wrote)] == IF i = 0 THEN <<>> ELSE joined[i - 1] \o line.wrote[i]
        IN  /\ ret = Len(whole)
            /\ line.how = "buffer" /\ line.cap > 0 => line.text = First(whole, line.cap - 1)
            /\ line.how = "writes" =>
                  /\ joined[Len(line.wrote)] = whole
                  /\ \A i \in DOMAIN line.wrote : Len(line.wrote[i]) \in 1 .. FBUF
=============================================================================
