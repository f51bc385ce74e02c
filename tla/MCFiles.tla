------------------------------- MODULE MCFiles -------------------------------
(* Files on small volumes.  On a disk that never fails: MaxCalls calls, any of *)
(* the allocations of which fail.  On one that does: MaxWornCalls calls, up to *)
(* the first that something unguarded happens to.                             *)
EXTENDS Files, TLC

CONSTANTS
    MaxCalls, MaxWornCalls,
    MaxFuse,        \* how far into a call a transfer may fail
    MaxOom          \* how far into a call a kernel allocation may fail
VARIABLE calls

\* "A" is another spelling of "a"; "a." is stored as "A" and compares unequal to it.
MCfold == "a" :> "A" @@ "A" :> "A" @@ "a." :> "A." @@ "b" :> "B" @@ "toolongname" :> "TOOLONGNAME"
MCstored == "a" :> "A" @@ "A" :> "A" @@ "a." :> "A" @@ "b" :> "B" @@ "toolongname" :> NoName

P(abs, comps) == [abs |-> abs, comps |-> comps]
MCPathIn == {P(TRUE, <<"a">>), P(FALSE, <<"b">>), P(FALSE, <<"..", "A">>), P(TRUE, <<"a", "b">>),
             P(FALSE, <<"a.">>), P(TRUE, <<"b", ".", "toolongname">>)}
MCFlagIn == {{}, {"creat"}, {"trunc", "append"}}
MCWritten == {<<"x">>, <<"x", "x">>}

\* /A is a directory of two clusters that holds the file B of one.
Populated ==
    LET entry(n, d, f, s) == [name |-> n, dir |-> d, first |-> f, size |-> s]
    IN  [fat |-> [EmptyVolume.fat EXCEPT ![2] = 3, ![3] = EOC, ![4] = EOC],
         sec |-> [EmptyVolume.sec EXCEPT
                     ![0].v[0] = entry("A", TRUE, 2, 0),
                     ![2] = DirOf((0 :> entry(".", TRUE, 2, 0)) @@ (1 :> entry("..", TRUE, 0, 0))),
                     ![3] = DirOf((0 :> entry("B", FALSE, 4, 1)) @@ (1 :> END)),
                     ![4].v[0] = "x"],
         worn |-> TRUE]
MCBootVolume == {[b EXCEPT !.worn = w] : b \in {EmptyVolume, Populated}, w \in BOOLEAN}

MCFaultIn ==
    {[NoFault EXCEPT !.oom = k] : k \in 1 .. MaxOom}
    \cup [fuse : 1 .. MaxFuse, landed : BOOLEAN, dead : BOOLEAN, oom : {0}]
    \cup [fuse : 1 .. MaxFuse, landed : {FALSE}, dead : {FALSE}, oom : {1}]

MCInit == FilesInit /\ calls = 0
MCNext ==
    /\ IF vol.worn THEN calls < MaxWornCalls /\ ~hurt ELSE calls < MaxCalls
    /\ calls' = calls + 1 /\ FilesNext
MCSpec == MCInit /\ [][MCNext]_<<vars, calls>>
==============================================================================
