-------------------------------- MODULE MCIo --------------------------------
(* Five parts that share no state: streams on a small volume whose FAT is    *)
(* not cached, the block cache, the user library's allocator and sort, the   *)
(* clocks, and sleeps.  A behaviour exercises one of them, the others rest.  *)
EXTENDS Streams, BlkCache, UserLib, Clock, Sleep, TLC

VARIABLE part

MCfold == "f" :> "F"
MCMode == {{"r"}, {"w"}, {"a", "+"}}
MCWritten == {<<"x">>, <<"y", "x", "y">>}
MCBootVolume == {EmptyVolume}
\* Every allocation of a call may fail.  No transfer does: what is said of
\* streams ends there (hurt).
MCFaultIn == {[NoFault EXCEPT !.oom = k] : k \in 1 .. 4}

\* Drives that answer (by LBA48, by geometry, of other sectors, of none) and
\* those that are left aside; a table with a partition that fits, one that does
\* not and one behind a GPT marker.
Drive(status, atapi, lba48, heads) ==
    [status |-> status, busy |-> FALSE, err |-> FALSE, atapi |-> atapi, lba48 |-> lba48, lba28 |-> 0,
     cylinders |-> 1, heads |-> heads, sectors |-> 3, sector_size |-> 0]
MCIdentify == {Drive(1, FALSE, 3, 0), Drive(1, FALSE, 0, 1), Drive(1, FALSE, 0, 0), Drive(0, FALSE, 3, 1),
               Drive(1, TRUE, 0, 1), [Drive(1, FALSE, 0, 0) EXCEPT !.lba28 = 3, !.sector_size = 2]}
MbrEntry(type, start, count) == [type |-> type, start |-> start, count |-> count]
MCMbr == {[valid |-> TRUE, parts |-> <<MbrEntry("fat16", 1, 2), MbrEntry("empty", 0, 0), MbrEntry("fat16", 2, 2),
                                       MbrEntry("gpt", 0, 3), MbrEntry("fat16", 0, 1)>>],
          [valid |-> FALSE, parts |-> <<>>]}

MCArrays == UNION {{[i \in 1 .. n |-> [key |-> k[i], id |-> i]] : k \in [1 .. n -> 1 .. 3]} : n \in 0 .. 4}

\* The last seconds of the last days of months, in every year of the century for
\* February and December.
LastDay(y, m) == IF m = 2 THEN (IF y % 4 = 0 THEN 29 ELSE 28) ELSE IF m \in {4, 6, 9, 11} THEN 30 ELSE 31
At(y, m, d, s) == [year |-> y, month |-> m, day |-> d, hours |-> HOUR_PER_DAY - 1,
                   minutes |-> MIN_PER_HOUR - 1, seconds |-> s]
MCBootDate == {At(y, m, d, SEC_PER_MIN - 1) : y \in {0, 1, 24, 99}, m \in 1 .. 12, d \in {1, 28}}
              \cup {At(y, m, LastDay(y, m), SEC_PER_MIN - 2) : y \in 0 .. 99, m \in {2, 12}}
              \cup {At(y, m, LastDay(y, m), SEC_PER_MIN - 2) : y \in {0, 23, 24}, m \in 1 .. 12}

MCInit ==
    /\ StreamInit /\ BlkInit /\ LibInit /\ ClockInit /\ SleepInit
    /\ part \in {"stream", "block", "library", "clock", "sleep"}
MCNext ==
    /\ UNCHANGED part
    /\ \/ part = "stream"  /\ StreamNext /\ UNCHANGED <<blkVars, libVars, clockVars, sleepVars>>
       \/ part = "block"   /\ BlkNext    /\ UNCHANGED <<streamVars, libVars, clockVars, sleepVars>>
       \/ part = "library" /\ LibNext    /\ UNCHANGED <<streamVars, blkVars, clockVars, sleepVars>>
       \/ part = "clock"   /\ ClockNext  /\ UNCHANGED <<streamVars, blkVars, libVars, sleepVars>>
       \/ part = "sleep"   /\ SleepNext  /\ UNCHANGED <<streamVars, blkVars, libVars, clockVars>>
MCSpec == MCInit /\ [][MCNext]_<<streamVars, blkVars, libVars, clockVars, sleepVars, part>>
=============================================================================
