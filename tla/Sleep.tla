------------------------------- MODULE Sleep --------------------------------
(***************************************************************************)
(* The width of a sleep: sleep_until is a u32 (lizard/task.h) while        *)
(* pit_ticks, the clock it is compared with, is a u64.  TaskSched keeps    *)
(* the time that is left and so cannot see this; here it is the absolute   *)
(* time, and which of the sleepers runs next is left out.                  *)
(***************************************************************************)
EXTENDS Integers

CONSTANTS
    Sleeper,        \* tasks
    Ms,             \* what they may ask for: below U32
    U32,            \* 2^32
    MaxUptime       \* bound on the ticks

ASSUME SleepAssumption == U32 \in Nat \ {0} /\ MaxUptime \in Nat /\ Ms \subseteq 0 .. U32 - 1

VARIABLES
    uptime,         \* pit_ticks: far from the end of its 64 bits
    sleep_until,    \* [task -> u32]
    waiting,        \* the tasks in WAIT_SLEEP
    asked           \* history: the tick at which the last sleep began and its length

sleepVars == <<uptime, sleep_until, waiting, asked>>

SleepInit ==
    /\ uptime = 0 /\ waiting = {}
    /\ sleep_until = [t \in Sleeper |-> 0]
    /\ asked = [t \in Sleeper |-> [at |-> 0, ms |-> 0]]

task_sleep(t, ms) ==
    /\ t \notin waiting
    /\ sleep_until' = [sleep_until EXCEPT ![t] = (uptime + ms) % U32]
    /\ waiting' = waiting \cup {t}
    /\ asked' = [asked EXCEPT ![t] = [at |-> uptime, ms |-> ms]]
    /\ UNCHANGED uptime

\* isr_pit counts first, then task_tick compares.
Over_exact(t, now) == now = sleep_until[t]
Over(t, now) == now >= sleep_until[t]
task_tick ==
    /\ uptime < MaxUptime /\ uptime' = uptime + 1
    /\ waiting' = {t \in waiting : ~Over(t, uptime')}
    /\ UNCHANGED <<sleep_until, asked>>

SleepNext == task_tick \/ \E t \in Sleeper, ms \in Ms : task_sleep(t, ms)

SleepSpec == SleepInit /\ [][SleepNext]_sleepVars

-----------------------------------------------------------------------------
\* A sleep lasts what was asked, at any uptime: nobody is still asleep when its
\* time is over (the next tick, for a sleep of 0), even when the sum in task_sleep
\* wrapped; and nobody wakes before that, unless the sum passed 2^32, after which,
\* 49 days and 17 hours from boot, every sleep is over at the next tick
\* (task.c task_sleep, task_tick).
EndsAt(t) == asked[t].at + asked[t].ms
SleepsAsAsked ==
    [][/\ \A t \in waiting' : uptime' < EndsAt(t)' \/ uptime' = asked'[t].at
       /\ \A t \in waiting \ waiting' :
             IF EndsAt(t) < U32 THEN uptime' >= EndsAt(t) ELSE uptime' = asked[t].at + 1]_sleepVars
=============================================================================
