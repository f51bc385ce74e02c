------------------------------ MODULE Streams ------------------------------
(***************************************************************************)
(* The FILE layer of the user library (userspace/lib/stdio_file.c): one    *)
(* stream of a program on one file, through the calls of module Files down *)
(* to the bytes on the volume.  The layer is unbuffered; a library call    *)
(* issues several system calls and the program runs nothing in between.    *)
(*                                                                         *)
(* ref and rpos are the reference: what the file holds and where the       *)
(* stream should be, by the C library's rules.  HOLE is a byte that was    *)
(* skipped by a seek past the end: what is read there is not specified.    *)
(* slip is how far the stream has run ahead of rpos: fseek drops a         *)
(* pushed-back byte before it looks at the request (stdio_file.c:111-113), *)
(* so a relative seek starts one byte too far and a refused one moves.     *)
(***************************************************************************)
EXTENDS Files

CONSTANTS
    Mode,           \* fopen modes used, each a set of letters
    MaxCalls        \* library calls of the program

VARIABLES
    stream,         \* the FILE, NoStream when there is none
    ref,            \* reference: the bytes of the file
    rpos,           \* reference: the position of the stream
    slip,           \* pushed-back bytes that seeks dropped, since the last absolute one
    out,            \* the bytes the last call returned, and what they must be
    calls

streamVars == <<vars, stream, ref, rpos, slip, out, calls>>

NoStream == [fd |-> -1]
EMPTY == "none"                 \* ungot = -1
HOLE == "hole"
NEWLINE == CHOOSE b \in Byte : TRUE
T == CHOOSE t \in Task : TRUE   \* the program
Path == <<CHOOSE n \in Name : TRUE>>
Streaming == stream # NoStream
NoBytes == [got |-> <<>>, due |-> <<>>]
Where == rpos + slip            \* where the stream reads and writes

FileOf == FileAt(T, stream.fd)

\* A call returns: what the kernel did, the file position, the stream.
Done(s, offset, f) ==
    /\ Return(s)
    /\ fd_table' = [fd_table EXCEPT ![T][stream.fd].offset = offset]
    /\ stream' = f
    /\ UNCHANGED <<cwd, lost>>

\* The modes: w creates and truncates, a creates and appends, r needs the file.
FlagsOf(mode) == (IF mode \cap {"w", "a"} # {} THEN {"creat"} ELSE {})
                 \cup (IF "w" \in mode THEN {"trunc"} ELSE {})
                 \cup (IF "a" \in mode THEN {"append"} ELSE {})

\* The file was there and is empty now, also when the open failed after that.
Emptied(r, mode) == "w" \in mode /\ \E d \in Dentry \ {0} : InCache(r.dent, d) /\ r.dent[d].ent.size = 0

fopen(mode) ==
    LET Opened(r, mem) ==
            /\ ref' = IF Emptied(r, mode) THEN <<>> ELSE ref
            /\ IF r.ok /\ mem
               THEN /\ Return(r)
                    /\ fd_table' = [fd_table EXCEPT ![T][1] = [d |-> r.d, offset |-> 0, append |-> "a" \in mode]]
                    /\ stream' = [fd |-> 1, eof |-> FALSE, err |-> FALSE, ungot |-> EMPTY]
               ELSE \* no memory for the FILE: the descriptor is closed again
                    /\ Return(Then(r, LAMBDA q : dentry_put(q, q.d)))
                    /\ UNCHANGED <<fd_table, stream>>
    IN  /\ ~Streaming
        /\ \E f \in Fault, mem \in BOOLEAN : Opened(vfs_open(Enter(f), Path, FlagsOf(mode)), mem)
        /\ rpos' = 0
        /\ slip' = 0
        /\ out' = NoBytes
        /\ UNCHANGED <<cwd, lost>>

fclose ==
    /\ Streaming
    /\ Return(vfs_close(Enter(NoFault), FileOf))
    /\ fd_table' = [fd_table EXCEPT ![T][stream.fd] = NoFile]
    /\ stream' = NoStream
    /\ rpos' = 0
    /\ slip' = 0
    /\ out' = NoBytes
    /\ UNCHANGED <<cwd, lost, ref>>

\* What a reader is due where the stream is.
Due(n) == SubSeq(ref, Where + 1, LowOf(Where + n, Len(ref)))

\* One system call of a reader p that still wants n bytes: nothing read is the
\* end of the file.
More(p, n) ==
    LET Add(r) == IF ~r.ok THEN [p EXCEPT !.s = r, !.stop = "err"]
                  ELSE IF r.buf = <<>> THEN [p EXCEPT !.s = r, !.stop = "eof"]
                  ELSE [p EXCEPT !.s = r, !.got = @ \o r.buf, !.at = @ + Len(r.buf)]
    IN  Add(fat16_read(p.s, FileOf.d, n, p.at))

\* The pushed-back byte first.
Reader_forgets(f) == [s |-> Enter(f), at |-> FileOf.offset, stop |-> "", got |-> <<>>]
Reader(f) ==
    [s |-> Enter(f), at |-> FileOf.offset, stop |-> "",
     got |-> IF stream.ungot = EMPTY THEN <<>> ELSE <<stream.ungot>>]

ReadEnds(p) ==
    /\ Done(p.s, p.at, [stream EXCEPT !.ungot = EMPTY, !.eof = @ \/ p.stop = "eof",
                                      !.err = @ \/ p.stop = "err"])
    /\ out' = [got |-> p.got, due |-> Due(Len(p.got))]
    /\ rpos' = rpos + Len(p.got)
    /\ UNCHANGED <<ref, slip>>

\* Reads until all is there, the file ends or a read fails.
fread(n) ==
    LET Step(p) == IF p.stop # "" \/ Len(p.got) >= n THEN p ELSE More(p, n - Len(p.got))
        Loop(p) == LET loop[k \in 0 .. n + 1] == IF k = 0 THEN p ELSE Step(loop[k - 1]) IN loop[n + 1]
    IN  /\ Streaming
        /\ \E f \in Fault : ReadEnds(Loop(Reader(f)))

\* fgetc until there are size - 1 bytes, the last one is a newline, or none came;
\* room for the terminator alone reads nothing, not even the pushed-back byte.
fgets(size) ==
    LET Over(p) == p.stop # "" \/ Len(p.got) = size - 1 \/ (p.got # <<>> /\ p.got[Len(p.got)] = NEWLINE)
        Step(p) == IF Over(p) THEN p ELSE More(p, 1)
        Loop(p) == LET loop[k \in 0 .. size - 1] == IF k = 0 THEN p ELSE Step(loop[k - 1]) IN loop[size - 1]
    IN  /\ Streaming
        /\ \/ /\ size > 1
              /\ \E f \in Fault : ReadEnds(Loop(Reader(f)))
           \/ /\ size = 1
              /\ out' = NoBytes
              /\ UNCHANGED <<vars, stream, ref, rpos, slip>>

\* The programs modelled push back the byte before the position, once: the C
\* library promises no more (a second one replaces the first, stdio_file.c:161).
ungetc(c) ==
    /\ Streaming
    /\ stream.ungot = EMPTY
    /\ Where > 0 /\ Where <= Len(ref)
    /\ c = ref[Where]
    /\ stream' = [stream EXCEPT !.ungot = c, !.eof = FALSE]
    /\ rpos' = rpos - 1
    /\ out' = NoBytes
    /\ UNCHANGED <<vars, ref, slip>>

\* What the file holds once n bytes of buf were written at position at.
Put(at, buf, n) ==
    [i \in 1 .. HighOf(Len(ref), at + n) |->
        IF i \in at + 1 .. at + n THEN buf[i - at]
        ELSE IF i <= Len(ref) THEN ref[i] ELSE HOLE]

\* Writes until all is there or a write makes no progress.  The programs modelled
\* position the stream between a pushed-back byte and a write, as C asks of them.
fwrite(buf) ==
    LET at == IF FileOf.append THEN dent[FileOf.d].ent.size ELSE FileOf.offset
        Wrote(p, r) == IF r.ok THEN [s |-> r, at |-> p.at + r.done, put |-> p.put + r.done, err |-> FALSE]
                       ELSE [p EXCEPT !.s = r, !.err = TRUE]
        Step(p) == IF p.err \/ p.put = Len(buf) THEN p
                   ELSE Wrote(p, vfs_write(p.s, [FileOf EXCEPT !.offset = p.at], SubSeq(buf, p.put + 1, Len(buf))))
        Loop(p) == LET loop[k \in 0 .. Len(buf)] == IF k = 0 THEN p ELSE Step(loop[k - 1]) IN loop[Len(buf)]
        End(e) == /\ Done(e.s, e.at, [stream EXCEPT !.err = @ \/ e.err])
                  /\ ref' = IF e.put = 0 /\ at <= Len(ref) THEN ref ELSE Put(at, buf, e.put)
                  /\ slip' = IF FileOf.append THEN 0 ELSE slip
                  /\ rpos' = IF FileOf.append THEN at + e.put ELSE rpos + e.put
    IN  /\ Streaming
        /\ stream.ungot = EMPTY
        /\ at <= MaxOffset
        /\ \E f \in Fault : End(Loop([s |-> Enter(f), at |-> at, put |-> 0, err |-> FALSE]))
        /\ out' = NoBytes

\* SEEK_SET, CUR and END; a pushed-back byte is forgotten and the end mark
\* cleared, whether or not the kernel then takes the offset.
fseek_keeps(off, whence) ==
    /\ Streaming
    /\ whence = "set" /\ off >= 0
    /\ stream' = [stream EXCEPT !.eof = FALSE]
    /\ fd_table' = [fd_table EXCEPT ![T][stream.fd].offset = off]
    /\ rpos' = off
    /\ slip' = 0
    /\ out' = NoBytes
    /\ UNCHANGED <<vol, dent, cwd, lost, hurt, ref>>
fseek(off, whence) ==
    LET base == CASE whence = "set" -> 0
                  [] whence = "cur" -> FileOf.offset
                  [] whence = "end" -> dent[FileOf.d].ent.size
        taken == base + off >= 0
        dropped == IF stream.ungot = EMPTY THEN 0 ELSE 1
    IN  /\ Streaming
        /\ base + off <= MaxOffset
        /\ stream' = [stream EXCEPT !.ungot = EMPTY, !.eof = FALSE]
        /\ fd_table' = [fd_table EXCEPT ![T][stream.fd].offset = IF taken THEN base + off ELSE @]
        /\ rpos' = IF ~taken THEN rpos
                   ELSE IF whence = "cur" THEN rpos + off ELSE base + off
        /\ slip' = IF taken /\ whence # "cur" THEN 0 ELSE slip + dropped
        /\ out' = NoBytes
        /\ UNCHANGED <<vol, dent, cwd, lost, hurt, ref>>

ftell == FileOf.offset - IF stream.ungot = EMPTY THEN 0 ELSE 1

StreamInit ==
    /\ FilesInit
    /\ stream = NoStream
    /\ ref = <<>>
    /\ rpos = 0
    /\ slip = 0
    /\ out = NoBytes
    /\ calls = 0

StreamNext ==
    /\ calls < MaxCalls
    /\ calls' = calls + 1
    /\ \/ \E mode \in Mode : fopen(mode)
       \/ fclose
       \/ \E n \in 1 .. MaxOffset : fread(n)
       \/ \E size \in 1 .. MaxOffset : fgets(size)
       \/ \E c \in Byte : ungetc(c)
       \/ \E buf \in Written : fwrite(buf)
       \/ \E off \in -1 .. MaxOffset, whence \in {"set", "cur", "end"} : fseek(off, whence)

-----------------------------------------------------------------------------

Agrees(got, due) == Len(got) = Len(due) /\ \A i \in DOMAIN due : due[i] \in {HOLE, got[i]}

\* What a program reads back is what was written there, and what lies on the
\* volume is the file: over every split into sectors and clusters, writes that
\* run out of space, appends, truncation and pushed-back bytes.  "There" is
\* where the stream is, slip bytes ahead of where C has it.
ReadsWhatWasWritten == ~hurt =>
    /\ Agrees(out.got, out.due)
    /\ Streaming => Agrees(fat16_read(Enter(NoFault), FileOf.d, Len(ref) + 1, 0).buf, ref)

\* ftell is the position of the C library's rules, but for one thing the code
\* does differently: each relative or refused fseek that finds a pushed-back
\* byte leaves the stream one byte too far, until an absolute one sets it right.
\* Reads, short reads, appends, writes cut short and ungetc never add to that.
TellIsPosition == ~hurt /\ Streaming => ftell = rpos + slip

=============================================================================
