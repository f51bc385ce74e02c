----------------------------- MODULE MCTerminal -----------------------------
(* Four parts that share no state: the console's input, the screen, text     *)
(* printed and read back, and the shell.  A behaviour exercises one of them. *)
EXTENDS Console, Screen, Text, Shell, TLC

VARIABLE part

Symmetry == Permutations(Task)

\* A screen with a line of pixels below the last row of text, one with lines
\* longer than it is wide, and none.
MCfont == "a" :> {<<0, 0>>} @@ " " :> {}
MCGop == {[w |-> 3, h |-> 5, stride |-> 3], [w |-> 2, h |-> 4, stride |-> 3], [w |-> 0, h |-> 0, stride |-> 0]}
MCGrid == <<2, 2>>
\* Images that fit, one that is taller than the screens, one that is wider, and
\* one that is refused.
MCImage == {[w |-> 1, h |-> 1, px |-> 0 :> "r"], [w |-> 2, h |-> 1, px |-> 0 :> "r" @@ 1 :> "g"],
            [w |-> 1, h |-> 7, px |-> [i \in 0 .. 6 |-> IF i = 1 THEN "g" ELSE "r"]],
            [w |-> 4, h |-> 1, px |-> [i \in 0 .. 3 |-> "g"]],
            [w |-> 1, h |-> 9, px |-> [i \in 0 .. 8 |-> "g"]]}

\* Conversions with every useful set of flags, alone and in pairs.
Item(conv, flags, w, p) ==
    [conv |-> conv, left |-> "-" \in flags, zero |-> "0" \in flags, plus |-> "+" \in flags,
     space |-> " " \in flags, alt |-> "#" \in flags, width |-> w, prec |-> p]
Plain(conv) == Item(conv, {}, 0, -1)
Scan(conv) == [conv |-> conv, width |-> IF conv = "c" THEN 1 ELSE 99, suppress |-> FALSE]
Skipped(conv) == [Scan(conv) EXCEPT !.suppress = TRUE]
ScanOf(conv) == Scan(IF conv \in {"X", "p"} THEN "x" ELSE conv)
ScanLit(c) == [conv |-> "lit", char |-> c]
ScanIn(set, neg, w) == [conv |-> "[", set |-> set, negate |-> neg, width |-> w, suppress |-> FALSE]
Signed == {INT_MIN, INT_MIN + 1, -10, -1, 0, 1, 9, 10, INT_MAX}
Unsigned == {0, 1, 9, 10, 15, 16, INT_MAX + 1, INT_LIMIT - 1}
ArgsOf(conv) == IF conv = "d" THEN Signed ELSE IF conv = "s" THEN {<<"a", "b">>, <<"z">>} ELSE Unsigned
FlagsOf(conv) ==
    SUBSET (CASE conv = "d" -> {"-", "0", "+", " "} [] conv = "u" -> {"-", "0"}
              [] conv \in {"x", "X"} -> {"-", "0", "#"} [] OTHER -> {"-"})
One(conv) ==
    {[fmt |-> <<Item(conv, f, w, p)>>, args |-> <<v>>, scan |-> <<ScanOf(conv)>>] :
        f \in FlagsOf(conv), w \in {0, 6}, p \in {-1, 4}, v \in ArgsOf(conv)}
\* Two values with text between them, the second one read as `scan' says.
Two(a, x, b, y, scan) ==
    [fmt |-> <<a, Plain("lit"), b>>, args |-> <<x, <<",", " ">>, y>>,
     scan |-> <<ScanOf(a.conv), ScanLit(","), [conv |-> "blank"]>> \o scan]
MCJob ==
    UNION {One(conv) : conv \in {"d", "u", "o", "x", "X", "p", "s"}}
    \cup {Two(Item("d", {"+"}, 4, -1), v, Plain("x"), w, <<Scan("x")>>) : v \in Signed, w \in Unsigned}
    \cup {Two(Item("o", {"0"}, 5, -1), v, Plain("s"), <<"a", "b">>, t) : v \in Unsigned,
             t \in {<<Scan("s")>>, <<ScanIn({" "}, TRUE, 9)>>, <<ScanIn({"a", "b"}, FALSE, 2), Skipped("d")>>}}
    \cup {Two(Plain("d"), 5, Item("c", {"-"}, 3, -1), "q", t) :
             t \in {<<Scan("c")>>, <<Scan("c"), Scan("%"), ScanLit("!")>>}}
    \cup {[fmt |-> <<Plain("%"), Plain("d"), Plain("n"), Plain("end")>>, args |-> <<0, v, 0, 0>>,
           scan |-> <<Scan("%"), Scan("d"), Scan("unknown")>>] : v \in Signed}
MCKJob ==
    {[fmt |-> <<[conv |-> c]>>, args |-> <<v>>] : c \in {"u", "llu", "x", "p"}, v \in Unsigned}
    \cup {[fmt |-> <<[conv |-> "d"]>>, args |-> <<v>>] : v \in Signed}
    \cup {[fmt |-> <<[conv |-> "s"], [conv |-> "c"], [conv |-> "d"], [conv |-> "lit"], [conv |-> last], [conv |-> "u"]>>,
           args |-> <<<<"h">>, c, -1, <<"m", "s">>, <<"%", "5", "u">>, 7>>] :
             last \in {"unknown", "lit"}, c \in {"p", "FF"}}

\* A line of each kind, one with too many words, one longer than the buffer.
MCLine == {<<>>, <<"x">>, <<" ", "/", " ">>, <<"c", " ", "a", "TAB", "b">>, <<"m", " ", " ", "a", " ">>, <<"m">>,
           <<"p">>, <<"e">>, <<"a", " ", "b", " ", "/", " ", "d">>, <<"/", "a", "b", " ", "c", "d", " ", "m", "x">>}
MCCommand == <<"x">> :> "exit" @@ <<"c">> :> "cd" @@ <<"m">> :> "mkdir" @@ <<"p">> :> "pwd" @@ <<"e">> :> "echo"

MCInit ==
    /\ Init /\ ScreenInit /\ ShInit
    /\ part \in {"console", "screen", "text", "shell"}
    /\ part = "screen" \/ fb = CHOOSE m \in Gop : TRUE
    /\ IF part = "text" THEN TextInit ELSE job = None /\ line = <<>> /\ ret = -2 /\ back = None
MCNext ==
    /\ UNCHANGED part
    /\ \/ part = "console" /\ Next       /\ UNCHANGED <<screenVars, textVars, shVars>>
       \/ part = "screen"  /\ ScreenNext /\ UNCHANGED <<vars, textVars, shVars>>
       \/ part = "text"    /\ TextNext   /\ UNCHANGED <<vars, screenVars, shVars>>
       \/ part = "shell"   /\ ShNext     /\ UNCHANGED <<vars, screenVars, textVars>>
MCSpec == MCInit /\ [][MCNext]_<<vars, screenVars, textVars, shVars, part>>
=============================================================================
