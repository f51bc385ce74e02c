----------------------------- MODULE TaskSched -----------------------------
(***************************************************************************)
(* Tasks and their scheduler: lizard/task.c, lizard/sched.c, the tick of   *)
(* lizard/pit.c, spawn() of lizard/loader.c, the blocking system calls of  *)
(* lizard/syscall.c and the init task of lizard/main.c, on one CPU.        *)
(*                                                                         *)
(* What makes the model concurrent is the interrupt flag.  A system call   *)
(* enters through an interrupt gate and runs with IF clear until it        *)
(* returns or executes "int 48" (the scheduler), so each stretch of it is  *)
(* ONE step here.  User mode, the idle loop and the kernel task init run   *)
(* with IF set: a timer or keyboard interrupt, and so a task switch, may   *)
(* come between any two of init's steps.                                   *)
(*                                                                         *)
(* task_list is kept as its set of members and the order behind[t], the    *)
(* tasks that follow t on the list: list_add puts a task before all the    *)
(* others, list_del drops it.  A children list is kept as a set: the order *)
(* of siblings only decides which of two zombies is collected first.       *)
(***************************************************************************)
EXTENDS Integers, FiniteSets

CONSTANTS
    Task,       \* the task structures: idle, init and the heap-allocated ones
    idle,       \* the boot context (static struct task idle)
    init,       \* the kernel task that keeps /sh alive (static init_task)
    NULL,       \* the null pointer
    ANY,        \* waitpid's pid <= 0: any child
    TIMESLICE,  \* TASK_TIMESLICE: the quantum, in ticks
    MAX_SLEEP   \* bound: the longest sleep(ms) a task asks for

ASSUME TaskAssumption ==
    /\ idle \in Task /\ init \in Task /\ idle # init
    /\ NULL \notin Task /\ ANY \notin Task
    /\ TIMESLICE \in Nat \ {0}
    /\ MAX_SLEEP \in Nat

User == Task \ {idle, init}     \* tasks that spawn() creates

VARIABLES
    task_list,       \* the tasks on task_list
    behind,          \* behind[t]: the tasks after t on task_list
    state,           \* task->state; "FREE": there is no such task
    wait_kind,       \* task->wait_kind
    sleep_left,      \* task->sleep_until - pit_ticks, not below 0
    ticks_remaining, \* task->ticks_remaining
    parent,          \* task->parent
    children,        \* task->children
    current_task,
    pc,              \* where a task is in its code
    want,            \* the pid a task in waitpid() asked for
    new_task,        \* the local t of init's spawn()
    stdin            \* tty_stdin_available()

treeVars == <<parent, children>>
vars == <<task_list, behind, state, wait_kind, sleep_left, ticks_remaining,
          parent, children, current_task, pc, want, new_task, stdin>>

TaskState == {"FREE", "NEW", "READY", "RUNNING", "WAITING", "ZOMBIE",
              "TERMINATED"}
WaitKind == {"NONE", "SLEEP", "CHILD", "INPUT"}

\* Places inside a system call: the task executed "int 48" there with IF clear.
Parked == {"sleep", "waitpid", "read", "exit"}
\* Places in init_loop, spawn, task_waitpid, task_block and task_exit as the
\* init task runs them, with IF set.
InitPlace == {"spawn", "created", "load", "parent", "link", "ready", "scan",
              "found", "collected", "block", "waiting", "int48", "halt",
              "halted"}
Place == {"none", "idle", "user"} \cup Parked \cup InitPlace

-----------------------------------------------------------------------------
(* The run list *)

\* list_add(&task->list, &task_list): t becomes the first of the list.
ListAdd(t) ==
    /\ task_list' = task_list \cup {t}
    /\ behind' = [behind EXCEPT ![t] = task_list]

\* The first task of S on the list.
First(S) == {t \in S : S \ {t} \subseteq behind[t]}

\* Mutation: the search starts at the head of the list instead of the current task.
next_ready_task_head(ready) == First(ready)

\* next_ready_task: the first READY task after the current one, and if there
\* is none the first of the whole list.  idle does not count.
next_ready_task(ready) ==
    LET right == ready \cap behind[current_task]
    IN  IF right # {} THEN First(right) ELSE First(ready)

\* Mutation: the reaper walks only from the current task to the end of the list.
reap_terminated_tail(st) ==
    {t \in behind[current_task] \ {idle} : st[t] = "TERMINATED"}

\* reap_terminated frees every TERMINATED task but idle and the current one.
reap_terminated(st) ==
    {t \in task_list \ {idle, current_task} : st[t] = "TERMINATED"}

-----------------------------------------------------------------------------
(***************************************************************************)
(* scheduler(): reap, spend a tick of the quantum, and pick the next task. *)
(* The arguments are the task fields as the caller left them.              *)
(***************************************************************************)
scheduler(st, par, ch, places) ==
    LET dead     == reap_terminated(st)
        ready    == {t \in task_list \ {idle} : st[t] = "READY"}
        freed    == [t \in Task |-> IF t \in dead THEN "FREE" ELSE st[t]]
        runnable == st[current_task] = "RUNNING"
        spends   == runnable /\ current_task # idle
        left     == IF spends /\ ticks_remaining[current_task] > 0
                    THEN ticks_remaining[current_task] - 1
                    ELSE ticks_remaining[current_task]
        dispatch(next) ==
            /\ state' = [t \in Task |->
                           IF t = next THEN "RUNNING"
                           ELSE IF t = current_task /\ spends THEN "READY"
                           ELSE freed[t]]
            /\ ticks_remaining' = [ticks_remaining EXCEPT ![current_task] = left,
                                                          ![next] = TIMESLICE]
            /\ current_task' = next
    IN  /\ task_list' = task_list \ dead
        /\ behind' = [t \in Task |-> IF t \in dead THEN {} ELSE behind[t] \ dead]
        /\ children' = [t \in Task |-> ch[t] \ dead]
        /\ parent' = [t \in Task |-> IF t \in dead THEN NULL ELSE par[t]]
        /\ pc' = [t \in Task |-> IF t \in dead THEN "none" ELSE places[t]]
        /\ \/ /\ spends /\ left > 0              \* quantum not up
              /\ state' = freed
              /\ ticks_remaining' = [ticks_remaining EXCEPT ![current_task] = left]
              /\ UNCHANGED current_task
           \/ /\ ~(spends /\ left > 0)
              /\ ready = {} /\ runnable          \* sole runnable task
              /\ state' = freed
              /\ ticks_remaining' =
                    [ticks_remaining EXCEPT ![current_task] = TIMESLICE]
              /\ UNCHANGED current_task
           \/ /\ ready = {} /\ ~runnable         \* blocked or dead
              /\ dispatch(idle)
           \/ /\ ~(spends /\ left > 0)
              /\ \E next \in next_ready_task(ready) : dispatch(next)

\* "int 48" with nothing changed since.
scheduler_trigger(places) == scheduler(state, parent, children, places)

-----------------------------------------------------------------------------
(* Interrupts *)

InterruptsOn == pc[current_task] \notin Parked

\* Mutation: task_tick tests pit_ticks == sleep_until, which sleep(0) never meets.
isr_pit_exact ==
    LET left == [t \in Task |-> IF sleep_left[t] > 0 THEN sleep_left[t] - 1 ELSE 0]
        due  == {t \in task_list : /\ state[t] = "WAITING"
                                   /\ wait_kind[t] = "SLEEP"
                                   /\ sleep_left[t] = 1}
    IN  /\ InterruptsOn
        /\ sleep_left' = left
        /\ wait_kind' = [t \in Task |-> IF t \in due THEN "NONE" ELSE wait_kind[t]]
        /\ scheduler([t \in Task |-> IF t \in due THEN "READY" ELSE state[t]],
                     parent, children, pc)
        /\ UNCHANGED <<want, new_task, stdin>>

\* isr_pit: pit_ticks++, task_tick wakes the sleepers that are due, scheduler.
isr_pit ==
    LET left == [t \in Task |-> IF sleep_left[t] > 0 THEN sleep_left[t] - 1 ELSE 0]
        due  == {t \in task_list : /\ state[t] = "WAITING"
                                   /\ wait_kind[t] = "SLEEP"
                                   /\ left[t] = 0}
    IN  /\ InterruptsOn
        /\ sleep_left' = left
        /\ wait_kind' = [t \in Task |-> IF t \in due THEN "NONE" ELSE wait_kind[t]]
        /\ scheduler([t \in Task |-> IF t \in due THEN "READY" ELSE state[t]],
                     parent, children, pc)
        /\ UNCHANGED <<want, new_task, stdin>>

\* isr_keyboard on Enter in the canonical mode: the line is queued and
\* task_wake_all(WAIT_INPUT) readies every reader.
isr_keyboard ==
    LET readers == {t \in task_list : state[t] = "WAITING" /\ wait_kind[t] = "INPUT"}
    IN  /\ InterruptsOn
        /\ stdin' = TRUE
        /\ state' = [t \in Task |-> IF t \in readers THEN "READY" ELSE state[t]]
        /\ wait_kind' = [t \in Task |-> IF t \in readers THEN "NONE" ELSE wait_kind[t]]
        /\ UNCHANGED <<task_list, behind, sleep_left, ticks_remaining, treeVars,
                       current_task, pc, want, new_task>>

-----------------------------------------------------------------------------
(* System calls of a user task u: IF is clear from the gate to "int 48". *)

Running(u, place) == /\ u \in User /\ current_task = u /\ pc[u] = place

\* sys_yield
sys_yield(u) ==
    /\ Running(u, "user")
    /\ scheduler_trigger(pc)
    /\ UNCHANGED <<wait_kind, sleep_left, want, new_task, stdin>>

\* Mutation: one tick too many is stored in sleep_until.
sys_sleep_late(u, ms) ==
    /\ Running(u, "user")
    /\ sleep_left' = [sleep_left EXCEPT ![u] = ms + 1]
    /\ wait_kind' = [wait_kind EXCEPT ![u] = "SLEEP"]
    /\ scheduler([state EXCEPT ![u] = "WAITING"], parent, children,
                 [pc EXCEPT ![u] = "sleep"])
    /\ UNCHANGED <<want, new_task, stdin>>

\* sys_sleep -> task_sleep(ms)
sys_sleep(u, ms) ==
    /\ Running(u, "user")
    /\ sleep_left' = [sleep_left EXCEPT ![u] = ms]
    /\ wait_kind' = [wait_kind EXCEPT ![u] = "SLEEP"]
    /\ scheduler([state EXCEPT ![u] = "WAITING"], parent, children,
                 [pc EXCEPT ![u] = "sleep"])
    /\ UNCHANGED <<want, new_task, stdin>>

\* A place is left and the system call returns to user mode.
ReturnToUser(u) == pc' = [pc EXCEPT ![u] = "user"]

\* task_sleep returns once the scheduler dispatched u again.
SleepReturn(u) ==
    /\ Running(u, "sleep")
    /\ ReturnToUser(u)
    /\ UNCHANGED <<task_list, behind, state, wait_kind, sleep_left,
                   ticks_remaining, treeVars, current_task, want, new_task, stdin>>

\* task_block(kind) as a system call runs it: parked and switched away at once.
task_block(u, kind, place) ==
    /\ wait_kind' = [wait_kind EXCEPT ![u] = kind]
    /\ scheduler([state EXCEPT ![u] = "WAITING"], parent, children,
                 [pc EXCEPT ![u] = place])

\* The loop of sys_read(fd 0): a read may leave bytes of the line behind.
ReadLoop(u) ==
    \/ /\ stdin
       /\ stdin' \in BOOLEAN
       /\ ReturnToUser(u)
       /\ UNCHANGED <<task_list, behind, state, wait_kind, sleep_left,
                      ticks_remaining, treeVars, current_task, want, new_task>>
    \/ /\ ~stdin
       /\ task_block(u, "INPUT", "read")
       /\ UNCHANGED <<sleep_left, want, new_task, stdin>>

sys_read(u) == Running(u, "user") /\ ReadLoop(u)
ReadResume(u) == Running(u, "read") /\ ReadLoop(u)

\* The children task_waitpid(pid) looks at.
Matches(p, pid) == {c \in children[p] : pid = ANY \/ c = pid}
Zombies(S) == {c \in S : state[c] = "ZOMBIE"}

\* One turn of task_waitpid's loop with IF clear: no such child, collect a
\* zombie, or park until a child terminates.
WaitpidLoop(u, pid) ==
    \/ /\ Matches(u, pid) = {}
       /\ ReturnToUser(u)
       /\ want' = [want EXCEPT ![u] = NULL]
       /\ UNCHANGED <<task_list, behind, state, wait_kind, sleep_left,
                      ticks_remaining, treeVars, current_task, new_task, stdin>>
    \/ /\ \E z \in Zombies(Matches(u, pid)) :
            /\ children' = [children EXCEPT ![u] = @ \ {z}]
            /\ parent' = [parent EXCEPT ![z] = NULL]
            /\ state' = [state EXCEPT ![z] = "TERMINATED"]
       /\ ReturnToUser(u)
       /\ want' = [want EXCEPT ![u] = NULL]
       /\ UNCHANGED <<task_list, behind, wait_kind, sleep_left,
                      ticks_remaining, current_task, new_task, stdin>>
    \/ /\ Matches(u, pid) # {} /\ Zombies(Matches(u, pid)) = {}
       /\ want' = [want EXCEPT ![u] = pid]
       /\ task_block(u, "CHILD", "waitpid")
       /\ UNCHANGED <<sleep_left, new_task, stdin>>

sys_waitpid(u, pid) == Running(u, "user") /\ WaitpidLoop(u, pid)
WaitpidResume(u) == Running(u, "waitpid") /\ WaitpidLoop(u, want[u])

\* A struct task that kmalloc can hand out: the bound on live tasks.
Fresh(t) == t \in User /\ state[t] = "FREE"

\* task_create(t): listed, no parent, no children, a full quantum.
task_create(t) ==
    /\ Fresh(t)
    /\ ListAdd(t)
    /\ ticks_remaining' = [ticks_remaining EXCEPT ![t] = TIMESLICE]
    /\ wait_kind' = [wait_kind EXCEPT ![t] = "NONE"]
    /\ sleep_left' = [sleep_left EXCEPT ![t] = 0]

\* sys_spawn -> spawn(): the child joins the tree and is READY, or load_elf
\* failed and the unparented task is left TERMINATED for the reaper.
sys_spawn(u, t) ==
    /\ Running(u, "user")
    /\ task_create(t)
    /\ \/ /\ parent' = [parent EXCEPT ![t] = u]
          /\ children' = [children EXCEPT ![u] = @ \cup {t}]
          /\ state' = [state EXCEPT ![t] = "READY"]
          /\ pc' = [pc EXCEPT ![t] = "user"]
       \/ /\ state' = [state EXCEPT ![t] = "TERMINATED"]
          /\ UNCHANGED <<treeVars, pc>>
    /\ UNCHANGED <<current_task, want, new_task, stdin>>

\* What task_exit leaves in the states: children that are zombies lose their
\* collector, the exiting task stays a zombie for a real parent, and a parent
\* parked in waitpid is woken.
RealParent_any(t) == parent[t] # NULL     \* mutation: idle counts as a collector
RealParent(t) == parent[t] # NULL /\ parent[t] # idle

WakesParent_never(t) == FALSE             \* mutation: the wake-up is forgotten
WakesParent(t) == /\ RealParent(t)
                  /\ state[parent[t]] = "WAITING"
                  /\ wait_kind[parent[t]] = "CHILD"
\* Mutation: an orphan that is already a zombie is not handed to the reaper.
ExitState_orphan(u) ==
    [t \in Task |->
        IF t = u THEN IF RealParent(u) THEN "ZOMBIE" ELSE "TERMINATED"
        ELSE IF WakesParent(u) /\ t = parent[u] THEN "READY"
        ELSE state[t]]

ExitState(u) ==
    [t \in Task |->
        IF t = u THEN IF RealParent(u) THEN "ZOMBIE" ELSE "TERMINATED"
        ELSE IF t \in Zombies(children[u]) THEN "TERMINATED"
        ELSE IF WakesParent(u) /\ t = parent[u] THEN "READY"
        ELSE state[t]]
ExitWait(u) ==
    [t \in Task |-> IF WakesParent(u) /\ t = parent[u] THEN "NONE"
                    ELSE wait_kind[t]]
ExitParent_kept(u) == parent              \* mutation: orphans keep the dead parent
ExitParent(u) == [t \in Task |-> IF t \in children[u] THEN idle ELSE parent[t]]
ExitChildren(u) == [t \in Task |-> IF t = u THEN {}
                                   ELSE IF t = idle THEN children[idle] \cup children[u]
                                   ELSE children[t]]

\* sys_exit, and exception_handle for a fault in user mode, end in task_exit.
task_exit(u) ==
    /\ Running(u, "user")
    /\ wait_kind' = ExitWait(u)
    /\ scheduler(ExitState(u), ExitParent(u), ExitChildren(u),
                 [pc EXCEPT ![u] = "exit"])
    /\ UNCHANGED <<sleep_left, want, new_task, stdin>>

-----------------------------------------------------------------------------
(* The init task: init_loop with IF set, one step per store that another   *)
(* task or an interrupt can see.                                           *)

InitAt(place) == current_task = init /\ pc[init] = place
InitGoto(place) == pc' = [pc EXCEPT ![init] = place]

\* spawn("/sh"): open and allocate.  zalloc and memset leave state = 0, which
\* is RUNNING, and task_create lists the task before it stores NEW.
InitCreate(t) ==
    /\ InitAt("spawn")
    /\ task_create(t)
    /\ state' = [state EXCEPT ![t] = "RUNNING"]
    /\ new_task' = t
    /\ InitGoto("created")
    /\ UNCHANGED <<treeVars, current_task, want, stdin>>

\* vfs_open or zalloc failed: init prints its message and halts.
InitCannotSpawn ==
    /\ InitAt("spawn")
    /\ InitGoto("halt")
    /\ UNCHANGED <<task_list, behind, state, wait_kind, sleep_left,
                   ticks_remaining, treeVars, current_task, want, new_task, stdin>>

\* Mutation: task_create forgets to store NEW.
InitStoreNew_missing ==
    /\ InitAt("created")
    /\ InitGoto("load")
    /\ UNCHANGED <<task_list, behind, state, wait_kind, sleep_left,
                   ticks_remaining, treeVars, current_task, want, new_task, stdin>>

\* task_create's last store.
InitStoreNew ==
    /\ InitAt("created")
    /\ state' = [state EXCEPT ![new_task] = "NEW"]
    /\ InitGoto("load")
    /\ UNCHANGED <<task_list, behind, wait_kind, sleep_left, ticks_remaining,
                   treeVars, current_task, want, new_task, stdin>>

\* load_elf: the image is in place, or the task is left to the reaper.
InitLoad ==
    /\ InitAt("load")
    /\ \/ InitGoto("parent") /\ UNCHANGED <<state, new_task>>
       \/ /\ state' = [state EXCEPT ![new_task] = "TERMINATED"]
          /\ new_task' = NULL
          /\ InitGoto("halt")
    /\ UNCHANGED <<task_list, behind, wait_kind, sleep_left, ticks_remaining,
                   treeVars, current_task, want, stdin>>

\* t->parent = current_task
InitSetParent ==
    /\ InitAt("parent")
    /\ parent' = [parent EXCEPT ![new_task] = init]
    /\ InitGoto("link")
    /\ UNCHANGED <<task_list, behind, state, wait_kind, sleep_left,
                   ticks_remaining, children, current_task, want, new_task, stdin>>

\* list_add_tail(&t->sibling, &current_task->children)
InitLink ==
    /\ InitAt("link")
    /\ children' = [children EXCEPT ![init] = @ \cup {new_task}]
    /\ InitGoto("ready")
    /\ UNCHANGED <<task_list, behind, state, wait_kind, sleep_left,
                   ticks_remaining, parent, current_task, want, new_task, stdin>>

\* task_set_ready(t), and spawn returns the pid that waitpid is called with.
InitSetReady ==
    /\ InitAt("ready")
    /\ state' = [state EXCEPT ![new_task] = IF @ = "NEW" THEN "READY" ELSE @]
    /\ want' = [want EXCEPT ![init] = new_task]
    /\ new_task' = NULL
    /\ pc' = [pc EXCEPT ![init] = "scan", ![new_task] = "user"]
    /\ UNCHANGED <<task_list, behind, wait_kind, sleep_left, ticks_remaining,
                   treeVars, current_task, stdin>>

\* task_waitpid looks through the children ...
InitScan ==
    /\ InitAt("scan")
    /\ LET m == Matches(init, want[init])
       IN  InitGoto(IF m = {} THEN "spawn"
                    ELSE IF Zombies(m) # {} THEN "found" ELSE "block")
    /\ UNCHANGED <<task_list, behind, state, wait_kind, sleep_left,
                   ticks_remaining, treeVars, current_task, want, new_task, stdin>>

\* ... takes the zombie out of the tree ...
InitUnlink ==
    /\ InitAt("found")
    /\ children' = [children EXCEPT ![init] = @ \ {want[init]}]
    /\ parent' = [parent EXCEPT ![want[init]] = NULL]
    /\ InitGoto("collected")
    /\ UNCHANGED <<task_list, behind, state, wait_kind, sleep_left,
                   ticks_remaining, current_task, want, new_task, stdin>>

\* ... hands it to the reaper, and init_loop starts another shell.
InitCollect ==
    /\ InitAt("collected")
    /\ state' = [state EXCEPT ![want[init]] = "TERMINATED"]
    /\ want' = [want EXCEPT ![init] = NULL]
    /\ InitGoto("spawn")
    /\ UNCHANGED <<task_list, behind, wait_kind, sleep_left, ticks_remaining,
                   treeVars, current_task, new_task, stdin>>

\* task_block(WAIT_CHILD) with IF set: two stores, then "int 48".
InitSetWaitKind ==
    /\ InitAt("block")
    /\ wait_kind' = [wait_kind EXCEPT ![init] = "CHILD"]
    /\ InitGoto("waiting")
    /\ UNCHANGED <<task_list, behind, state, sleep_left, ticks_remaining,
                   treeVars, current_task, want, new_task, stdin>>

InitSetWaiting ==
    /\ InitAt("waiting")
    /\ state' = [state EXCEPT ![init] = "WAITING"]
    /\ InitGoto("int48")
    /\ UNCHANGED <<task_list, behind, wait_kind, sleep_left, ticks_remaining,
                   treeVars, current_task, want, new_task, stdin>>

InitTrigger ==
    /\ InitAt("int48")
    /\ scheduler_trigger([pc EXCEPT ![init] = "scan"])
    /\ UNCHANGED <<wait_kind, sleep_left, want, new_task, stdin>>

\* task_exit of init: nobody is its parent, and it loops on "int 48".
InitExit ==
    /\ InitAt("halt")
    /\ wait_kind' = ExitWait(init)
    /\ state' = ExitState(init)
    /\ parent' = ExitParent(init)
    /\ children' = ExitChildren(init)
    /\ InitGoto("halted")
    /\ UNCHANGED <<task_list, behind, sleep_left, ticks_remaining,
                   current_task, want, new_task, stdin>>

InitExitLoop ==
    /\ InitAt("halted")
    /\ scheduler_trigger(pc)
    /\ UNCHANGED <<wait_kind, sleep_left, want, new_task, stdin>>

-----------------------------------------------------------------------------
\* kmain has created init, made it READY and enabled the scheduler; idle is
\* the boot context.
Init ==
    /\ task_list = {idle, init}
    /\ behind = [t \in Task |-> IF t = init THEN {idle} ELSE {}]
    /\ state = [t \in Task |-> IF t = idle THEN "RUNNING"
                               ELSE IF t = init THEN "READY" ELSE "FREE"]
    /\ wait_kind = [t \in Task |-> "NONE"]
    /\ sleep_left = [t \in Task |-> 0]
    /\ ticks_remaining = [t \in Task |-> TIMESLICE]
    /\ parent = [t \in Task |-> NULL]
    /\ children = [t \in Task |-> {}]
    /\ current_task = idle
    /\ pc = [t \in Task |-> IF t = idle THEN "idle"
                            ELSE IF t = init THEN "spawn" ELSE "none"]
    /\ want = [t \in Task |-> NULL]
    /\ new_task = NULL
    /\ stdin = FALSE

\* The rest of a system call that was parked: IF is clear, nothing else runs.
Resume(u) == SleepReturn(u) \/ ReadResume(u) \/ WaitpidResume(u)

Syscall(u) ==
    \/ sys_yield(u)
    \/ \E ms \in 0..MAX_SLEEP : sys_sleep(u, ms)
    \/ sys_read(u)
    \/ \E pid \in {ANY} \cup Task : sys_waitpid(u, pid)
    \/ \E t \in User : sys_spawn(u, t)
    \/ task_exit(u)

InitStep ==
    \/ \E t \in User : InitCreate(t)
    \/ InitCannotSpawn
    \/ InitStoreNew \/ InitLoad \/ InitSetParent \/ InitLink \/ InitSetReady
    \/ InitScan \/ InitUnlink \/ InitCollect
    \/ InitSetWaitKind \/ InitSetWaiting \/ InitTrigger
    \/ InitExit \/ InitExitLoop

Next ==
    \/ isr_pit
    \/ isr_keyboard
    \/ \E u \in User : Syscall(u) \/ Resume(u)
    \/ InitStep

Spec == Init /\ [][Next]_vars

(***************************************************************************)
(* The CPU executes instructions and the PIC keeps an interrupt request    *)
(* until IF is set again, so: the timer fires again and again (strong: it  *)
(* is masked while a system call runs), a resumed system call goes on, and *)
(* init, each time it is dispatched, gets on with its code.  Nothing is    *)
(* assumed of what user tasks do or of the keyboard.                       *)
(***************************************************************************)
Fairness ==
    /\ SF_vars(isr_pit)
    /\ \A u \in User : WF_vars(Resume(u))
    /\ SF_vars(InitStep)

FairSpec == Spec /\ Fairness

-----------------------------------------------------------------------------
(* Properties *)

TypeOK ==
    /\ task_list \in SUBSET Task
    /\ behind \in [Task -> SUBSET Task]
    /\ state \in [Task -> TaskState]
    /\ wait_kind \in [Task -> WaitKind]
    /\ sleep_left \in [Task -> 0..MAX_SLEEP]
    /\ ticks_remaining \in [Task -> 0..TIMESLICE]
    /\ parent \in [Task -> Task \cup {NULL}]
    /\ children \in [Task -> SUBSET Task]
    /\ current_task \in Task
    /\ pc \in [Task -> Place]
    /\ want \in [Task -> Task \cup {NULL, ANY}]
    /\ new_task \in Task \cup {NULL}
    /\ stdin \in BOOLEAN

\* The CPU only ever executes a task that is allocated, loaded and dispatched,
\* and no other task believes it is running: state RUNNING names the current
\* task, the idle context, or the structure task_create has listed but not yet
\* marked NEW (sched.c:67-107, task.c:77-81).
OnlyCurrentRuns ==
    /\ current_task \in task_list
    /\ state[current_task] \notin {"FREE", "NEW", "READY"}
    /\ \A t \in Task : state[t] = "RUNNING" =>
          \/ t \in {current_task, idle}
          \/ pc[init] = "created" /\ t = new_task

\* No pointer of the process tree dangles after a task was reaped: a parent
\* pointer names a task that is still listed and not dead, and the children
\* lists agree with the parent pointers, save the child init is linking
\* (task_exit's re-parenting, task_waitpid, reap_terminated).
TreeIntact ==
    /\ \A t \in Task : parent[t] # NULL =>
          /\ parent[t] \in task_list /\ parent[t] \notin {t, new_task}
          /\ state[parent[t]] \notin {"ZOMBIE", "TERMINATED", "NEW"}
          /\ \/ t \in children[parent[t]]
             \/ t = new_task /\ pc[init] = "link"
    /\ \A p \in Task : \A c \in children[p] : parent[c] = p /\ c \in task_list

\* Every zombie can still be collected: its parent is a real one and has it
\* among its children, or init is just collecting it (task_exit:283-294).
ZombieHasCollector ==
    \A t \in Task : state[t] = "ZOMBIE" =>
        \/ RealParent(t) /\ t \in children[parent[t]]
        \/ pc[init] = "collected" /\ want[init] = t

\* A system call never parks on an event that already happened: a user task in
\* waitpid has a child it waits for and that child is not a zombie yet, and a
\* reader is parked only while the input ring is empty (the comment at
\* syscall.c:112-114: "the check and the block cannot race the ISR").
NoLostWakeup ==
    \A u \in User : state[u] = "WAITING" =>
        /\ wait_kind[u] = "CHILD" => /\ Matches(u, want[u]) # {}
                                     /\ Zombies(Matches(u, want[u])) = {}
        /\ wait_kind[u] = "INPUT" => ~stdin

-----------------------------------------------------------------------------
(* The inductive invariant behind the safety properties. *)

Creating == {"created", "load", "parent", "link", "ready"}
HasShell == {"scan", "found", "block", "waiting", "int48"}

Listed ==
    /\ \A t \in Task : t \in task_list <=> state[t] # "FREE"
    /\ idle \in task_list /\ state[idle] = "RUNNING" /\ parent[idle] = NULL
    /\ current_task \in User => state[current_task] = "RUNNING"
    /\ state[current_task] = "WAITING" => pc[init] = "int48"

\* A task with a real parent is never handed to the reaper behind its back.
ChildrenKept == \A t \in Task : RealParent(t) => state[t] # "TERMINATED"

\* What init's local variables refer to, by its place in the code.
InitLocals ==
    /\ parent[init] = NULL
    /\ pc[init] \in InitPlace \cup {"none"}
    /\ state[init] \in {"READY", "RUNNING", "WAITING", "TERMINATED", "FREE"}
    /\ pc[init] = "none" <=> state[init] = "FREE"
    /\ pc[init] = "halted" <=> state[init] = "TERMINATED"
    /\ state[init] = "WAITING" \/ pc[init] = "waiting" => wait_kind[init] = "CHILD"
    /\ state[init] = "WAITING" => pc[init] \in {"int48", "scan"}
    /\ pc[init] \notin Creating => new_task = NULL
    /\ pc[init] \in Creating =>
          /\ new_task \in User /\ new_task # current_task
          /\ state[new_task] = IF pc[init] = "created" THEN "RUNNING" ELSE "NEW"
          /\ parent[new_task] = IF pc[init] \in {"link", "ready"} THEN init ELSE NULL
    /\ pc[init] \in HasShell => want[init] \in User /\ parent[want[init]] = init
    /\ pc[init] = "found" => state[want[init]] = "ZOMBIE"
    /\ pc[init] = "collected" =>
          /\ want[init] \in User
          /\ state[want[init]] = "ZOMBIE" /\ parent[want[init]] = NULL

IInv ==
    /\ TypeOK /\ Listed /\ OnlyCurrentRuns /\ TreeIntact /\ ZombieHasCollector
    /\ ChildrenKept /\ InitLocals /\ NoLostWakeup

-----------------------------------------------------------------------------
(***************************************************************************)
(* The process tree that user programs see.  A task exists for it from     *)
(* task_set_ready to task_exit; a zombie is gone once its collector has    *)
(* unlinked it.  Creation, reaping and scheduling are stuttering steps.    *)
(***************************************************************************)
Life == [t \in Task |->
            IF state[t] = "ZOMBIE" /\ parent[t] # NULL THEN "zombie"
            ELSE IF state[t] \in {"READY", "RUNNING", "WAITING"}
                    /\ pc[t] # "none" THEN "alive"
            ELSE "gone"]
Up == [t \in Task |-> IF Life[t] = "gone" THEN NULL ELSE parent[t]]

Tree == INSTANCE ProcTree WITH Proc <- Task, boot <- {idle, init},
                               life <- Life, up <- Up

\* spawn, waitpid, exit and init's loop implement the promise of ProcTree,
\* interrupts, switches and reaping included: no status is dropped while its
\* parent lives and no task is collected twice.
ImplementsTree == Tree!Spec

\* Round robin starves nobody: a READY task is dispatched, whatever the other
\* tasks do (next_ready_task rotates from the current task).
ReadyRuns ==
    \A t \in Task \ {idle} : state[t] = "READY" ~> current_task = t

\* A sleeping task runs again (task_tick wakes it, then the rotation).
SleeperRuns ==
    \A t \in User : state[t] = "WAITING" /\ wait_kind[t] = "SLEEP"
                        ~> current_task = t

\* A dead task is reaped: its stack, page table and structure are given back.
TerminatedReaped ==
    \A t \in Task : state[t] = "TERMINATED" ~> state[t] = "FREE"

\* main.c:29-30 says of init: "keep a login shell alive. If /sh exits (or
\* crashes) we just start another one, so the machine never drops to a dead
\* prompt."  So as long as init has not given up (its spawn failed), a shell
\* that is gone is replaced.
LoginShell == \E c \in children[init] : state[c] \in {"READY", "RUNNING", "WAITING"}
InitGaveUp == pc[init] \in {"halt", "halted", "none"}
ShellKeptAlive == ~LoginShell ~> (LoginShell \/ InitGaveUp)
=============================================================================
