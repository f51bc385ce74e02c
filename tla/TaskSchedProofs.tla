-------------------------- MODULE TaskSchedProofs --------------------------
(* Proofs about TaskSched, for every set of tasks, quantum and sleep bound. *)
EXTENDS TaskSched, TLAPS

\* scheduler() leaves the variables it assigns well typed.
LEMMA SchedulerType ==
    ASSUME TypeOK,
           NEW st \in [Task -> TaskState],
           NEW par \in [Task -> Task \cup {NULL}],
           NEW ch \in [Task -> SUBSET Task],
           NEW places \in [Task -> Place],
           scheduler(st, par, ch, places)
    PROVE  /\ task_list' \in SUBSET Task
           /\ behind' \in [Task -> SUBSET Task]
           /\ state' \in [Task -> TaskState]
           /\ ticks_remaining' \in [Task -> 0..TIMESLICE]
           /\ parent' \in [Task -> Task \cup {NULL}]
           /\ children' \in [Task -> SUBSET Task]
           /\ current_task' \in Task
           /\ pc' \in [Task -> Place]
<1> USE TaskAssumption DEF TypeOK
<1>1. /\ task_list' \in SUBSET Task
      /\ behind' \in [Task -> SUBSET Task]
      /\ parent' \in [Task -> Task \cup {NULL}]
      /\ children' \in [Task -> SUBSET Task]
  BY DEF scheduler, reap_terminated
<1>2. pc' \in [Task -> Place]
  BY DEF scheduler, Place
<1>3. state' \in [Task -> TaskState]
  BY DEF scheduler, TaskState, First, next_ready_task
<1>4. ticks_remaining' \in [Task -> 0..TIMESLICE]
  BY DEF scheduler, First, next_ready_task
<1>5. current_task' \in Task
  BY DEF scheduler, First, next_ready_task
<1> QED BY <1>1, <1>2, <1>3, <1>4, <1>5

\* One turn of sys_read's loop.
LEMMA ReadType ==
    ASSUME TypeOK, NEW u \in Task, ReadLoop(u) PROVE TypeOK'
<1> USE TaskAssumption DEF TypeOK
<1>1. CASE ~stdin
  <2>1. [state EXCEPT ![u] = "WAITING"] \in [Task -> TaskState]
    BY DEF TaskState
  <2>2. [pc EXCEPT ![u] = "read"] \in [Task -> Place]
    BY DEF Place, Parked
  <2>3. /\ wait_kind' \in [Task -> WaitKind]
        /\ scheduler([state EXCEPT ![u] = "WAITING"], parent, children,
                     [pc EXCEPT ![u] = "read"])
        /\ UNCHANGED <<sleep_left, want, new_task, stdin>>
    BY <1>1 DEF ReadLoop, task_block, WaitKind
  <2> QED BY <2>1, <2>2, <2>3, SchedulerType
<1>2. CASE stdin
  BY <1>2 DEF ReadLoop, ReturnToUser, Place, treeVars
<1> QED BY <1>1, <1>2

\* One turn of task_waitpid's loop, run by a system call.
LEMMA WaitpidType ==
    ASSUME TypeOK, NEW u \in Task, NEW pid \in Task \cup {NULL, ANY},
           WaitpidLoop(u, pid)
    PROVE  TypeOK'
<1> USE TaskAssumption DEF TypeOK
<1>1. CASE Matches(u, pid) # {} /\ Zombies(Matches(u, pid)) = {}
  <2>1. [state EXCEPT ![u] = "WAITING"] \in [Task -> TaskState]
    BY DEF TaskState
  <2>2. [pc EXCEPT ![u] = "waitpid"] \in [Task -> Place]
    BY DEF Place, Parked
  <2>3. /\ wait_kind' \in [Task -> WaitKind]
        /\ want' \in [Task -> Task \cup {NULL, ANY}]
        /\ scheduler([state EXCEPT ![u] = "WAITING"], parent, children,
                     [pc EXCEPT ![u] = "waitpid"])
        /\ UNCHANGED <<sleep_left, new_task, stdin>>
    BY <1>1 DEF WaitpidLoop, task_block, WaitKind
  <2> QED BY <2>1, <2>2, <2>3, SchedulerType
<1>2. CASE Matches(u, pid) = {}
  BY <1>2 DEF WaitpidLoop, ReturnToUser, Place, treeVars, Zombies
<1>3. ASSUME NEW z \in Zombies(Matches(u, pid)),
             children' = [children EXCEPT ![u] = @ \ {z}],
             parent' = [parent EXCEPT ![z] = NULL],
             state' = [state EXCEPT ![z] = "TERMINATED"],
             ReturnToUser(u),
             want' = [want EXCEPT ![u] = NULL],
             UNCHANGED <<task_list, behind, wait_kind, sleep_left,
                         ticks_remaining, current_task, new_task, stdin>>
      PROVE  TypeOK'
  <2>1. z \in Task
    BY DEF Zombies, Matches
  <2> QED BY <1>3, <2>1 DEF ReturnToUser, Place, TaskState
<1> QED BY <1>1, <1>2, <1>3 DEF WaitpidLoop

\* The steps of the init task.
LEMMA InitType == TypeOK /\ InitLocals /\ InitStep => TypeOK'
<1> SUFFICES ASSUME TypeOK, InitLocals, InitStep PROVE TypeOK'
  OBVIOUS
<1> USE TaskAssumption DEF TypeOK, InitGoto, treeVars, TaskState, WaitKind,
                           Place, InitPlace, User
<1>1. ASSUME NEW t \in User, InitCreate(t) PROVE TypeOK'
  BY <1>1 DEF InitCreate, task_create, Fresh, ListAdd
<1>2. CASE InitCannotSpawn BY <1>2 DEF InitCannotSpawn
<1>3. CASE InitStoreNew BY <1>3 DEF InitStoreNew
<1>4. CASE InitLoad BY <1>4 DEF InitLoad
<1>5. CASE InitSetParent BY <1>5 DEF InitSetParent
<1>6. CASE InitLink
  <2>1. new_task \in Task
    BY <1>6 DEF InitLink, InitAt, InitLocals, Creating
  <2> QED BY <1>6, <2>1 DEF InitLink
<1>7. CASE InitSetReady BY <1>7 DEF InitSetReady
<1>8. CASE InitScan BY <1>8 DEF InitScan
<1>9. CASE InitUnlink BY <1>9 DEF InitUnlink
<1>10. CASE InitCollect BY <1>10 DEF InitCollect
<1>11. CASE InitSetWaitKind BY <1>11 DEF InitSetWaitKind
<1>12. CASE InitSetWaiting BY <1>12 DEF InitSetWaiting
<1>13. CASE InitTrigger
  BY <1>13, SchedulerType DEF InitTrigger, scheduler_trigger
<1>14. CASE InitExit BY <1>14 DEF InitExit, ExitState, ExitWait, ExitParent, ExitChildren
<1>15. CASE InitExitLoop
  BY <1>15, SchedulerType DEF InitExitLoop, scheduler_trigger
<1> QED BY <1>1, <1>2, <1>3, <1>4, <1>5, <1>6, <1>7, <1>8, <1>9, <1>10, <1>11,
           <1>12, <1>13, <1>14, <1>15 DEF InitStep

\* Every step keeps the type invariant.
LEMMA StepType == TypeOK /\ InitLocals /\ [Next]_vars => TypeOK'
<1> SUFFICES ASSUME TypeOK, InitLocals, [Next]_vars PROVE TypeOK'
  OBVIOUS
<1> USE TaskAssumption DEF TypeOK
<1>1. CASE isr_pit
  <2> DEFINE left == [t \in Task |-> IF sleep_left[t] > 0 THEN sleep_left[t] - 1 ELSE 0]
             due  == {t \in task_list : /\ state[t] = "WAITING"
                                        /\ wait_kind[t] = "SLEEP"
                                        /\ left[t] = 0}
             st   == [t \in Task |-> IF t \in due THEN "READY" ELSE state[t]]
  <2>1. left \in [Task -> 0..MAX_SLEEP]
    OBVIOUS
  <2>2. st \in [Task -> TaskState]
    BY DEF TaskState
  <2>3. scheduler(st, parent, children, pc)
    BY <1>1 DEF isr_pit
  <2>4. wait_kind' \in [Task -> WaitKind]
    BY <1>1 DEF isr_pit, WaitKind
  <2>5. /\ sleep_left' = left
        /\ UNCHANGED <<want, new_task, stdin>>
    BY <1>1 DEF isr_pit
  <2> HIDE DEF left, due, st
  <2> QED BY <2>1, <2>2, <2>3, <2>4, <2>5, SchedulerType
<1>2. CASE isr_keyboard
  BY <1>2 DEF isr_keyboard, treeVars, TaskState, WaitKind
<1>3. ASSUME NEW u \in User, Syscall(u) PROVE TypeOK'
  <2>0. u \in Task
    BY DEF User
  <2>1. CASE sys_yield(u)
    BY <2>1, SchedulerType DEF sys_yield, scheduler_trigger
  <2>2. ASSUME NEW ms \in 0..MAX_SLEEP, sys_sleep(u, ms) PROVE TypeOK'
    <3>1. [state EXCEPT ![u] = "WAITING"] \in [Task -> TaskState]
      BY DEF TaskState
    <3>2. [pc EXCEPT ![u] = "sleep"] \in [Task -> Place]
      BY DEF Place, Parked
    <3>3. wait_kind' \in [Task -> WaitKind] /\ sleep_left' \in [Task -> 0..MAX_SLEEP]
      BY <2>2, <2>0 DEF sys_sleep, WaitKind
    <3> QED BY <2>2, <3>1, <3>2, <3>3, SchedulerType DEF sys_sleep
  <2>3. CASE sys_read(u)
    BY <2>3, <2>0, ReadType DEF sys_read
  <2>4. ASSUME NEW pid \in {ANY} \cup Task, sys_waitpid(u, pid) PROVE TypeOK'
    BY <2>4, <2>0, WaitpidType DEF sys_waitpid
  <2>5. ASSUME NEW t \in User, sys_spawn(u, t) PROVE TypeOK'
    BY <2>5, <2>0 DEF sys_spawn, task_create, Fresh, ListAdd, User, TaskState,
                      WaitKind, Place, treeVars
  <2>6. CASE task_exit(u)
    <3>1. ExitState(u) \in [Task -> TaskState]
      BY DEF ExitState, TaskState
    <3>2. ExitParent(u) \in [Task -> Task \cup {NULL}]
      BY DEF ExitParent
    <3>3. ExitChildren(u) \in [Task -> SUBSET Task]
      BY <2>0 DEF ExitChildren
    <3>4. [pc EXCEPT ![u] = "exit"] \in [Task -> Place]
      BY DEF Place, Parked
    <3>5. ExitWait(u) \in [Task -> WaitKind]
      BY DEF ExitWait, WaitKind
    <3> QED BY <2>6, <3>1, <3>2, <3>3, <3>4, <3>5, SchedulerType DEF task_exit
  <2> QED BY <1>3, <2>1, <2>2, <2>3, <2>4, <2>5, <2>6 DEF Syscall
<1>4. ASSUME NEW u \in User, Resume(u) PROVE TypeOK'
  <2>0. u \in Task
    BY DEF User
  <2>1. CASE SleepReturn(u)
    BY <2>1 DEF SleepReturn, ReturnToUser, Place, treeVars
  <2>2. CASE ReadResume(u)
    BY <2>2, <2>0, ReadType DEF ReadResume
  <2>3. CASE WaitpidResume(u)
    BY <2>3, <2>0, WaitpidType DEF WaitpidResume
  <2> QED BY <1>4, <2>1, <2>2, <2>3 DEF Resume
<1>5. CASE InitStep
  BY <1>5, InitType
<1>6. CASE UNCHANGED vars
  BY <1>6 DEF vars
<1> QED BY <1>1, <1>2, <1>3, <1>4, <1>5, <1>6 DEF Next

-----------------------------------------------------------------------------
(* The inductive invariant.  SafeAt is the invariant of the task fields as *)
(* arguments: it is what a caller of scheduler() has established when it   *)
(* executes "int 48".                                                      *)

ListedAt(st, par) ==
    /\ \A t \in Task : t \in task_list <=> st[t] # "FREE"
    /\ idle \in task_list /\ st[idle] = "RUNNING" /\ par[idle] = NULL

RunsAt(st, pl, nt) ==
    /\ current_task \in task_list
    /\ \A t \in Task : st[t] = "RUNNING" =>
          t \in {current_task, idle} \/ (pl[init] = "created" /\ t = nt)

TreeAt(st, par, ch, pl, nt) ==
    /\ \A t \in Task : par[t] # NULL =>
          /\ par[t] \in task_list /\ par[t] \notin {t, nt}
          /\ st[par[t]] \notin {"ZOMBIE", "TERMINATED", "NEW"}
          /\ t \in ch[par[t]] \/ (t = nt /\ pl[init] = "link")
    /\ \A p \in Task : \A c \in ch[p] : par[c] = p /\ c \in task_list

ZombieAt(st, par, ch, pl, wt) ==
    \A t \in Task : st[t] = "ZOMBIE" =>
        \/ par[t] # NULL /\ par[t] # idle /\ t \in ch[par[t]]
        \/ pl[init] = "collected" /\ wt[init] = t

KeptAt(st, par) ==
    \A t \in Task : par[t] # NULL /\ par[t] # idle => st[t] # "TERMINATED"

WaitAt(st, ch, wk, wt, in) ==
    \A u \in User : st[u] = "WAITING" =>
        /\ wk[u] = "CHILD" => \E c \in ch[u] : wt[u] = ANY \/ c = wt[u]
        /\ wk[u] = "CHILD" =>
              \A c \in ch[u] : wt[u] = ANY \/ c = wt[u] => st[c] # "ZOMBIE"
        /\ wk[u] = "INPUT" => ~in

LocalsAt(st, par, pl, wk, wt, nt) ==
    /\ par[init] = NULL
    /\ pl[init] \in InitPlace \cup {"none"}
    /\ st[init] \in {"READY", "RUNNING", "WAITING", "TERMINATED", "FREE"}
    /\ pl[init] = "none" <=> st[init] = "FREE"
    /\ pl[init] = "halted" <=> st[init] = "TERMINATED"
    /\ st[init] = "WAITING" \/ pl[init] = "waiting" => wk[init] = "CHILD"
    /\ st[init] = "WAITING" => pl[init] \in {"int48", "scan"}
    /\ pl[init] \notin Creating => nt = NULL
    /\ pl[init] \in Creating =>
          /\ nt \in User /\ nt # current_task
          /\ st[nt] = IF pl[init] = "created" THEN "RUNNING" ELSE "NEW"
          /\ par[nt] = IF pl[init] \in {"link", "ready"} THEN init ELSE NULL
    /\ pl[init] \in HasShell => wt[init] \in User /\ par[wt[init]] = init
    /\ pl[init] = "found" => st[wt[init]] = "ZOMBIE"
    /\ pl[init] = "collected" =>
          wt[init] \in User /\ st[wt[init]] = "ZOMBIE" /\ par[wt[init]] = NULL

SafeAt(st, par, ch, pl, wk, wt, nt, in) ==
    /\ ListedAt(st, par) /\ RunsAt(st, pl, nt) /\ TreeAt(st, par, ch, pl, nt)
    /\ ZombieAt(st, par, ch, pl, wt) /\ KeptAt(st, par)
    /\ WaitAt(st, ch, wk, wt, in) /\ LocalsAt(st, par, pl, wk, wt, nt)

Safe == /\ SafeAt(state, parent, children, pc, wait_kind, want, new_task, stdin)
        /\ current_task \in User => state[current_task] = "RUNNING"
        /\ state[current_task] \notin {"FREE", "NEW", "READY"}
        /\ state[current_task] = "WAITING" => pc[init] = "int48"

\* The parked tasks' condition, without the sets Matches and Zombies.
LEMMA WaitNow ==
    ASSUME TypeOK
    PROVE  NoLostWakeup <=> WaitAt(state, children, wait_kind, want, stdin)
BY DEF NoLostWakeup, WaitAt, Matches, Zombies

\* SafeAt of the present fields is the inductive invariant.
LEMMA SafeNow == ASSUME TypeOK PROVE IInv <=> Safe
<1>1. Listed <=> /\ ListedAt(state, parent)
                 /\ current_task \in User => state[current_task] = "RUNNING"
                 /\ state[current_task] = "WAITING" => pc[init] = "int48"
  BY DEF Listed, ListedAt
<1>2. OnlyCurrentRuns <=> /\ RunsAt(state, pc, new_task)
                          /\ state[current_task] \notin {"FREE", "NEW", "READY"}
  BY DEF OnlyCurrentRuns, RunsAt
<1>3. TreeIntact <=> TreeAt(state, parent, children, pc, new_task)
  BY DEF TreeIntact, TreeAt
<1>4. ZombieHasCollector <=> ZombieAt(state, parent, children, pc, want)
  BY DEF ZombieHasCollector, ZombieAt, RealParent
<1>5. ChildrenKept <=> KeptAt(state, parent)
  BY DEF ChildrenKept, KeptAt, RealParent
<1>6. InitLocals <=> LocalsAt(state, parent, pc, wait_kind, want, new_task)
  BY DEF InitLocals, LocalsAt
<1> QED BY <1>1, <1>2, <1>3, <1>4, <1>5, <1>6, WaitNow DEF IInv, Safe, SafeAt

-----------------------------------------------------------------------------
(* What scheduler() does to the task fields. *)

\* Only the reaper frees, and otherwise tasks only move between READY and
\* RUNNING.
LEMMA SchedulerMoves ==
    ASSUME TypeOK,
           NEW st \in [Task -> TaskState],
           NEW par \in [Task -> Task \cup {NULL}],
           NEW ch \in [Task -> SUBSET Task],
           NEW places \in [Task -> Place],
           st[idle] = "RUNNING",
           scheduler(st, par, ch, places),
           NEW t \in Task
    PROVE  IF t \in reap_terminated(st)
           THEN /\ st[t] = "TERMINATED" /\ state'[t] = "FREE"
                /\ parent'[t] = NULL /\ pc'[t] = "none" /\ t \notin task_list'
                /\ t # idle /\ t # current_task
           ELSE /\ \/ state'[t] = st[t]
                   \/ /\ st[t] \in {"READY", "RUNNING"}
                      /\ state'[t] \in {"READY", "RUNNING"}
                /\ parent'[t] = par[t] /\ pc'[t] = places[t]
                /\ t \in task_list' <=> t \in task_list
<1> USE TaskAssumption DEF TypeOK, reap_terminated
<1>1. CASE t \in reap_terminated(st)
  <2>1. /\ st[t] = "TERMINATED" /\ parent'[t] = NULL /\ pc'[t] = "none"
        /\ t \notin task_list' /\ t # idle /\ t # current_task
    BY <1>1 DEF scheduler
  <2>2. state'[t] = "FREE"
    BY <1>1, <2>1 DEF scheduler, First, next_ready_task
  <2> QED BY <1>1, <2>1, <2>2
<1>2. CASE t \notin reap_terminated(st)
  <2>1. /\ parent'[t] = par[t] /\ pc'[t] = places[t]
        /\ t \in task_list' <=> t \in task_list
    BY <1>2 DEF scheduler
  <2>2. \/ state'[t] = st[t]
        \/ /\ st[t] \in {"READY", "RUNNING"}
           /\ state'[t] \in {"READY", "RUNNING"}
    BY <1>2 DEF scheduler, First, next_ready_task
  <2> QED BY <1>2, <2>1, <2>2
<1> QED BY <1>1, <1>2

\* Whom scheduler() leaves running.
LEMMA SchedulerRuns ==
    ASSUME TypeOK,
           NEW st \in [Task -> TaskState],
           NEW par \in [Task -> Task \cup {NULL}],
           NEW ch \in [Task -> SUBSET Task],
           NEW places \in [Task -> Place],
           ListedAt(st, par),
           RunsAt(st, places, new_task'),
           LocalsAt(st, par, places, wait_kind', want', new_task'),
           scheduler(st, par, ch, places)
    PROVE  /\ RunsAt(state, pc, new_task)'
           /\ state'[current_task'] = "RUNNING"
<1> USE TaskAssumption DEF TypeOK
<1>0. st[idle] = "RUNNING" /\ idle \in task_list
  BY DEF ListedAt
<1>1. /\ current_task' \in Task
      /\ state'[current_task'] = "RUNNING"
      /\ \/ current_task' = current_task
         \/ current_task' = idle
         \/ current_task' \in task_list /\ st[current_task'] = "READY"
  <2>1. CASE st[current_task] = "RUNNING"
    BY <1>0, <2>1 DEF scheduler, First, next_ready_task, reap_terminated
  <2>2. CASE st[current_task] # "RUNNING"
    BY <1>0, <2>2 DEF scheduler, First, next_ready_task, reap_terminated
  <2> QED BY <2>1, <2>2
<1>2. current_task' \notin reap_terminated(st)
  BY <1>1 DEF reap_terminated
<1>3. current_task' \in task_list'
  BY <1>0, <1>1, <1>2, SchedulerMoves DEF RunsAt
<1>4. ASSUME NEW t \in Task, state'[t] = "RUNNING"
      PROVE  \/ t \in {current_task', idle}
             \/ st[t] = "RUNNING" /\ t # current_task
  BY <1>4, <1>0 DEF scheduler, First, next_ready_task, reap_terminated
<1>5. ASSUME places[init] = "created" PROVE pc'[init] = "created"
  <2>1. st[init] # "TERMINATED"
    BY <1>5 DEF LocalsAt
  <2> QED BY <1>5, <1>0, <2>1, SchedulerMoves
<1> QED BY <1>1, <1>3, <1>4, <1>5 DEF RunsAt

\* scheduler() re-establishes the invariant from what its caller left.
LEMMA SchedulerSafe ==
    ASSUME TypeOK,
           NEW st \in [Task -> TaskState],
           NEW par \in [Task -> Task \cup {NULL}],
           NEW ch \in [Task -> SUBSET Task],
           NEW places \in [Task -> Place],
           SafeAt(st, par, ch, places, wait_kind', want', new_task', stdin'),
           scheduler(st, par, ch, places)
    PROVE  Safe'
<1> USE TaskAssumption DEF TypeOK
<1> DEFINE dead == reap_terminated(st)
<1>0. st[idle] = "RUNNING" /\ idle \in task_list
  BY DEF SafeAt, ListedAt
<1>1. \A t \in Task : t \in dead =>
          /\ st[t] = "TERMINATED" /\ state'[t] = "FREE"
          /\ parent'[t] = NULL /\ pc'[t] = "none" /\ t \notin task_list'
          /\ t # idle /\ t # current_task
  BY <1>0, SchedulerMoves
<1>2. \A t \in Task : t \notin dead =>
          /\ \/ state'[t] = st[t]
             \/ /\ st[t] \in {"READY", "RUNNING"}
                /\ state'[t] \in {"READY", "RUNNING"}
          /\ parent'[t] = par[t] /\ pc'[t] = places[t]
          /\ t \in task_list' <=> t \in task_list
  BY <1>0, SchedulerMoves
<1>3. \A t \in Task : children'[t] = ch[t] \ dead
  BY DEF scheduler
<1>4. RunsAt(state, pc, new_task)' /\ state'[current_task'] = "RUNNING"
  BY SchedulerRuns DEF SafeAt
<1>4a. \/ current_task' \in {current_task, idle}
       \/ st[current_task'] = "READY"
  BY <1>0 DEF scheduler, First, next_ready_task
<1> HIDE DEF dead
<1>5. state'[idle] = "RUNNING" /\ parent'[idle] = NULL /\ idle \in task_list'
  <2>1. /\ idle \notin dead /\ par[idle] = NULL
    BY <1>1 DEF SafeAt, ListedAt
  <2>2. idle \in task_list' /\ parent'[idle] = NULL
    BY <1>0, <1>2, <2>1
  <2>3. state'[idle] = "RUNNING"
    BY <1>0, <2>1 DEF scheduler, First, next_ready_task, dead, SafeAt, RunsAt
  <2> QED BY <2>2, <2>3
<1>6. ListedAt(state, parent)'
  BY <1>1, <1>2, <1>5 DEF SafeAt, ListedAt
<1>7. LocalsAt(state, parent, pc, wait_kind, want, new_task)'
  <2>1. CASE init \in dead
    <3>1. pc'[init] = "none" /\ state'[init] = "FREE" /\ parent'[init] = NULL
      BY <1>1, <2>1
    <3>2. new_task' = NULL
      <4>1. places[init] = "halted"
        BY <1>1, <2>1 DEF SafeAt, LocalsAt
      <4> QED BY <4>1 DEF SafeAt, LocalsAt, Creating
    <3> QED BY <3>1, <3>2 DEF LocalsAt, Creating, HasShell
  <2>2. CASE init \notin dead
    <3>1. LocalsAt(st, par, places, wait_kind', want', new_task')
      BY DEF SafeAt
    <3>2. places[init] \in Creating => new_task' \notin dead
      BY <3>1, <1>1 DEF LocalsAt, User
    <3>3. places[init] \in HasShell => want'[init] \notin dead
      <4>1. places[init] \in HasShell => st[want'[init]] # "TERMINATED"
        BY <3>1 DEF SafeAt, KeptAt, LocalsAt, User
      <4> QED BY <4>1, <3>1, <1>1 DEF LocalsAt, User
    <3>4. places[init] = "collected" => want'[init] \notin dead
      BY <3>1, <1>1 DEF LocalsAt, User
    <3>5. /\ pc'[init] = places[init] /\ parent'[init] = par[init]
          /\ \/ state'[init] = st[init]
             \/ /\ st[init] \in {"READY", "RUNNING"}
                /\ state'[init] \in {"READY", "RUNNING"}
      BY <1>2, <2>2
    <3>6. places[init] \in Creating =>
             /\ new_task' \in User /\ new_task' # current_task'
             /\ parent'[new_task'] = par[new_task']
             /\ state'[new_task'] = st[new_task']
      <4>1. ASSUME places[init] \in Creating, places[init] # "created"
            PROVE  /\ new_task' \in Task /\ parent'[new_task'] = par[new_task']
                   /\ state'[new_task'] = st[new_task']
        BY <4>1, <3>1, <3>2, <1>2 DEF LocalsAt, User
      <4>2. ASSUME places[init] = "created"
            PROVE  /\ new_task' \in Task /\ parent'[new_task'] = par[new_task']
                   /\ state'[new_task'] = st[new_task']
        <5>1. /\ new_task' \in User /\ new_task' \notin dead
              /\ st[new_task'] = "RUNNING" /\ par[new_task'] = NULL
          BY <4>2, <3>1, <3>2 DEF LocalsAt, Creating
        <5>2. new_task' # current_task
          BY <4>2, <3>1 DEF LocalsAt, Creating
        <5>3. state'[new_task'] = "RUNNING"
          BY <5>1, <5>2, <1>0 DEF scheduler, First, next_ready_task, dead, User
        <5> QED BY <5>1, <5>3, <1>2 DEF User
      <4>3. places[init] \in Creating =>
               new_task' \in User /\ new_task' # current_task'
        BY <3>1, <1>0, <1>4a DEF LocalsAt, Creating, User
      <4> QED BY <4>1, <4>2, <4>3
    <3>7. places[init] \in HasShell \cup {"collected"} =>
             /\ want'[init] \in User
             /\ parent'[want'[init]] = par[want'[init]]
             /\ st[want'[init]] = "ZOMBIE" => state'[want'[init]] = "ZOMBIE"
      BY <3>1, <3>3, <3>4, <1>2 DEF LocalsAt, User
    <3> QED BY <3>1, <3>5, <3>6, <3>7 DEF LocalsAt, Creating, HasShell
  <2> QED BY <2>1, <2>2
<1>8. TreeAt(state, parent, children, pc, new_task)'
  <2>0. TreeAt(st, par, ch, places, new_task') /\ KeptAt(st, par)
    BY DEF SafeAt
  <2>1. ASSUME NEW t \in Task, parent'[t] # NULL
        PROVE  /\ parent'[t] \in task_list' /\ parent'[t] \notin {t, new_task'}
               /\ state'[parent'[t]] \notin {"ZOMBIE", "TERMINATED", "NEW"}
               /\ \/ t \in children'[parent'[t]]
                  \/ t = new_task' /\ pc'[init] = "link"
    <3>1. t \notin dead /\ parent'[t] = par[t] /\ par[t] \in Task
      BY <2>1, <1>1, <1>2
    <3>2. /\ par[t] \in task_list /\ par[t] \notin {t, new_task'}
          /\ st[par[t]] \notin {"ZOMBIE", "TERMINATED", "NEW"}
          /\ t \in ch[par[t]] \/ (t = new_task' /\ places[init] = "link")
      BY <2>0, <2>1, <3>1 DEF TreeAt
    <3>3. par[t] \notin dead
      BY <3>1, <3>2, <1>1
    <3>4. /\ par[t] \in task_list'
          /\ state'[par[t]] \notin {"ZOMBIE", "TERMINATED", "NEW"}
      BY <3>1, <3>2, <3>3, <1>2
    <3>5. places[init] = "link" => pc'[init] = "link"
      <4>1. places[init] = "link" => st[init] # "TERMINATED"
        BY DEF SafeAt, LocalsAt
      <4> QED BY <4>1, <1>1, <1>2
    <3> QED BY <3>1, <3>2, <3>4, <3>5, <1>3
  <2>2. ASSUME NEW p \in Task, NEW c \in children'[p]
        PROVE  parent'[c] = p /\ c \in task_list'
    <3>1. c \in ch[p] /\ c \notin dead /\ c \in Task
      BY <1>3
    <3> QED BY <3>1, <2>0, <1>2 DEF TreeAt
  <2> QED BY <2>1, <2>2 DEF TreeAt
<1>9. ZombieAt(state, parent, children, pc, want)'
  <2> SUFFICES ASSUME NEW t \in Task, state'[t] = "ZOMBIE"
               PROVE  \/ /\ parent'[t] # NULL /\ parent'[t] # idle
                         /\ t \in children'[parent'[t]]
                      \/ pc'[init] = "collected" /\ want'[init] = t
    BY DEF ZombieAt
  <2>1. t \notin dead /\ st[t] = "ZOMBIE" /\ parent'[t] = par[t]
    BY <1>1, <1>2
  <2>2. places[init] = "collected" => pc'[init] = "collected"
    <3>1. places[init] = "collected" => st[init] # "TERMINATED"
      BY DEF SafeAt, LocalsAt
    <3> QED BY <3>1, <1>1, <1>2
  <2> QED BY <2>1, <2>2, <1>3 DEF SafeAt, ZombieAt
<1>10. KeptAt(state, parent)'
  BY <1>1, <1>2 DEF SafeAt, KeptAt
<1>11. WaitAt(state, children, wait_kind, want, stdin)'
  <2> SUFFICES ASSUME NEW u \in User, state'[u] = "WAITING"
               PROVE  /\ wait_kind'[u] = "CHILD" =>
                           \E c \in children'[u] : want'[u] = ANY \/ c = want'[u]
                      /\ wait_kind'[u] = "CHILD" =>
                           \A c \in children'[u] :
                              want'[u] = ANY \/ c = want'[u] => state'[c] # "ZOMBIE"
                      /\ wait_kind'[u] = "INPUT" => ~stdin'
    BY DEF WaitAt
  <2>1. u \in Task /\ u # idle /\ st[u] = "WAITING"
    BY <1>1, <1>2 DEF User
  <2>2. \A c \in ch[u] : c \in Task /\ c \notin dead
    <3> SUFFICES ASSUME NEW c \in ch[u] PROVE c \in Task /\ c \notin dead
      OBVIOUS
    <3>1. c \in Task /\ par[c] = u
      BY <2>1 DEF SafeAt, TreeAt
    <3>2. st[c] # "TERMINATED"
      BY <3>1, <2>1 DEF SafeAt, KeptAt
    <3> QED BY <3>1, <3>2, <1>1
  <2>3. children'[u] = ch[u]
    BY <2>1, <2>2, <1>3
  <2>4. \A c \in ch[u] : state'[c] = "ZOMBIE" => st[c] = "ZOMBIE"
    BY <2>2, <1>2
  <2> QED BY <2>1, <2>3, <2>4 DEF SafeAt, WaitAt
<1> QED BY <1>4, <1>6, <1>7, <1>8, <1>9, <1>10, <1>11 DEF Safe, SafeAt

-----------------------------------------------------------------------------
(* Each step keeps the invariant. *)

\* init's locals still fit when the fields they are about did not change.
LEMMA LocalsFrame ==
    ASSUME NEW st, NEW par, NEW pl, NEW wk, NEW wt, NEW nt,
           NEW st2, NEW par2, NEW pl2, NEW wk2, NEW wt2,
           LocalsAt(st, par, pl, wk, wt, nt),
           st2[init] = st[init], wk2[init] = wk[init], wt2[init] = wt[init],
           pl2[init] = pl[init], par2[init] = par[init],
           \A t \in User : st[t] \in {"NEW", "ZOMBIE"} => st2[t] = st[t],
           pl[init] = "created" => st2[nt] = st[nt],
           \A t \in User : par[t] \in {NULL, init} => par2[t] = par[t]
    PROVE  LocalsAt(st2, par2, pl2, wk2, wt2, nt)
<1>1. pl[init] \in Creating =>
          nt \in User /\ st2[nt] = st[nt] /\ par2[nt] = par[nt]
  BY DEF LocalsAt, Creating
<1>2. pl[init] \in HasShell => wt[init] \in User /\ par2[wt[init]] = init
  BY DEF LocalsAt
<1>3. pl[init] = "found" => st2[wt[init]] = "ZOMBIE"
  BY DEF LocalsAt, HasShell
<1>4. pl[init] = "collected" =>
          /\ wt[init] \in User
          /\ st2[wt[init]] = "ZOMBIE" /\ par2[wt[init]] = NULL
  BY DEF LocalsAt
<1> QED BY <1>1, <1>2, <1>3, <1>4 DEF LocalsAt

\* A timer tick: due sleepers become READY, then scheduler() runs.
LEMMA PitSafe == TypeOK /\ Safe /\ isr_pit => Safe'
<1> SUFFICES ASSUME TypeOK, Safe, isr_pit PROVE Safe'
  OBVIOUS
<1> USE TaskAssumption DEF TypeOK
<1> DEFINE left == [t \in Task |-> IF sleep_left[t] > 0 THEN sleep_left[t] - 1 ELSE 0]
           due  == {t \in task_list : /\ state[t] = "WAITING"
                                      /\ wait_kind[t] = "SLEEP"
                                      /\ left[t] = 0}
           st   == [t \in Task |-> IF t \in due THEN "READY" ELSE state[t]]
<1>1. /\ wait_kind' = [t \in Task |-> IF t \in due THEN "NONE" ELSE wait_kind[t]]
      /\ scheduler(st, parent, children, pc)
      /\ UNCHANGED <<want, new_task, stdin>>
  BY DEF isr_pit
<1>2. \A t \in Task : t \in due => state[t] = "WAITING" /\ wait_kind[t] = "SLEEP"
  OBVIOUS
<1> HIDE DEF left, due
<1>3. st \in [Task -> TaskState]
  BY DEF TaskState
<1>4. SafeAt(st, parent, children, pc, wait_kind', want', new_task', stdin')
  <2>1. ListedAt(st, parent)
    BY <1>2 DEF Safe, SafeAt, ListedAt
  <2>2. RunsAt(st, pc, new_task')
    BY <1>1, <1>2 DEF Safe, SafeAt, RunsAt
  <2>3. TreeAt(st, parent, children, pc, new_task')
    BY <1>1, <1>2 DEF Safe, SafeAt, TreeAt
  <2>4. ZombieAt(st, parent, children, pc, want')
    BY <1>1, <1>2 DEF Safe, SafeAt, ZombieAt
  <2>5. KeptAt(st, parent)
    BY <1>2 DEF Safe, SafeAt, KeptAt
  <2>6. WaitAt(st, children, wait_kind', want', stdin')
    BY <1>1, <1>2 DEF Safe, SafeAt, WaitAt, User
  <2>7. LocalsAt(st, parent, pc, wait_kind', want', new_task')
    <3>1. init \notin due
      BY <1>2 DEF Safe, SafeAt, LocalsAt
    <3>2. LocalsAt(state, parent, pc, wait_kind, want, new_task)
      BY DEF Safe, SafeAt
    <3>3. \A t \in User : state[t] \in {"NEW", "ZOMBIE"} => st[t] = state[t]
      BY <1>2 DEF User
    <3>4. pc[init] = "created" => st[new_task] = state[new_task]
      BY <1>2, <3>2 DEF LocalsAt, Creating, User
    <3> QED BY <3>1, <3>2, <3>3, <3>4, <1>1, LocalsFrame
  <2> QED BY <2>1, <2>2, <2>3, <2>4, <2>5, <2>6, <2>7 DEF SafeAt
<1> HIDE DEF st
<1> QED BY <1>1, <1>3, <1>4, SchedulerSafe

\* A line of input: the parked readers become READY and leave the wait.
LEMMA KeyboardSafe == TypeOK /\ Safe /\ isr_keyboard => Safe'
<1> SUFFICES ASSUME TypeOK, Safe, isr_keyboard PROVE Safe'
  OBVIOUS
<1> USE TaskAssumption DEF TypeOK, treeVars
<1> DEFINE readers == {t \in task_list : state[t] = "WAITING" /\ wait_kind[t] = "INPUT"}
<1>1. /\ state' = [t \in Task |-> IF t \in readers THEN "READY" ELSE state[t]]
      /\ wait_kind' = [t \in Task |-> IF t \in readers THEN "NONE" ELSE wait_kind[t]]
      /\ UNCHANGED <<task_list, parent, children, current_task, pc, want, new_task>>
  BY DEF isr_keyboard
<1>2. \A t \in Task : t \in readers <=>
         t \in task_list /\ state[t] = "WAITING" /\ wait_kind[t] = "INPUT"
  OBVIOUS
<1> HIDE DEF readers
<1>3. ListedAt(state, parent)'
  BY <1>1, <1>2 DEF Safe, SafeAt, ListedAt
<1>4. RunsAt(state, pc, new_task)'
  BY <1>1, <1>2 DEF Safe, SafeAt, RunsAt
<1>5. TreeAt(state, parent, children, pc, new_task)'
  BY <1>1, <1>2 DEF Safe, SafeAt, TreeAt
<1>6. ZombieAt(state, parent, children, pc, want)'
  BY <1>1, <1>2 DEF Safe, SafeAt, ZombieAt
<1>7. KeptAt(state, parent)'
  BY <1>1, <1>2 DEF Safe, SafeAt, KeptAt
<1>8. WaitAt(state, children, wait_kind, want, stdin)'
  BY <1>1, <1>2 DEF Safe, SafeAt, WaitAt, User, ListedAt
<1>9. LocalsAt(state, parent, pc, wait_kind, want, new_task)'
  <2>1. init \notin readers
    BY <1>2 DEF Safe, SafeAt, LocalsAt
  <2>2. LocalsAt(state, parent, pc, wait_kind, want, new_task)
    BY DEF Safe, SafeAt
  <2>3. \A t \in User : state[t] \in {"NEW", "ZOMBIE"} => state'[t] = state[t]
    BY <1>1, <1>2 DEF User
  <2>4. pc[init] = "created" => state'[new_task] = state[new_task]
    BY <1>1, <1>2, <2>2 DEF LocalsAt, Creating, User
  <2>5. LocalsAt(state', parent', pc', wait_kind', want', new_task)
    BY <2>1, <2>2, <2>3, <2>4, <1>1, LocalsFrame
  <2> QED BY <2>5, <1>1 DEF LocalsAt
<1>10. current_task \notin readers
  BY <1>2 DEF Safe, SafeAt, RunsAt, ListedAt, LocalsAt, User
<1> QED BY <1>1, <1>3, <1>4, <1>5, <1>6, <1>7, <1>8, <1>9, <1>10 DEF Safe, SafeAt

\* A system call that parks its task u, with what it waits for.
LEMMA BlockSafe ==
    ASSUME TypeOK, Safe, NEW u \in User, current_task = u,
           NEW kind \in WaitKind, NEW place \in Place,
           wait_kind' = [wait_kind EXCEPT ![u] = kind],
           want' \in [Task -> Task \cup {NULL, ANY}],
           \A t \in Task : t # u => want'[t] = want[t],
           UNCHANGED <<new_task, stdin>>,
           kind = "CHILD" => /\ Matches(u, want'[u]) # {}
                             /\ Zombies(Matches(u, want'[u])) = {},
           kind = "INPUT" => ~stdin,
           scheduler([state EXCEPT ![u] = "WAITING"], parent, children,
                     [pc EXCEPT ![u] = place])
    PROVE  Safe'
<1> USE TaskAssumption DEF TypeOK, User
<1> DEFINE st == [state EXCEPT ![u] = "WAITING"]
           pl == [pc EXCEPT ![u] = place]
<1>1. st \in [Task -> TaskState] /\ pl \in [Task -> Place]
  BY DEF TaskState
<1>2. state[u] = "RUNNING"
  BY DEF Safe
<1>3. SafeAt(st, parent, children, pl, wait_kind', want', new_task', stdin')
  <2>1. ListedAt(st, parent)
    BY <1>2 DEF Safe, SafeAt, ListedAt
  <2>2. RunsAt(st, pl, new_task')
    BY DEF Safe, SafeAt, RunsAt
  <2>3. TreeAt(st, parent, children, pl, new_task')
    BY DEF Safe, SafeAt, TreeAt
  <2>4. ZombieAt(st, parent, children, pl, want')
    BY <1>2 DEF Safe, SafeAt, ZombieAt
  <2>5. KeptAt(st, parent)
    BY DEF Safe, SafeAt, KeptAt
  <2>6. WaitAt(st, children, wait_kind', want', stdin')
    <3>1. ASSUME NEW v \in User, v # u, st[v] = "WAITING"
          PROVE  /\ wait_kind'[v] = "CHILD" =>
                      \E c \in children[v] : want'[v] = ANY \/ c = want'[v]
                 /\ wait_kind'[v] = "CHILD" =>
                      \A c \in children[v] :
                         want'[v] = ANY \/ c = want'[v] => st[c] # "ZOMBIE"
                 /\ wait_kind'[v] = "INPUT" => ~stdin'
      BY <3>1, <1>2 DEF Safe, SafeAt, WaitAt
    <3>2. /\ wait_kind'[u] = "CHILD" =>
               \E c \in children[u] : want'[u] = ANY \/ c = want'[u]
          /\ wait_kind'[u] = "CHILD" =>
               \A c \in children[u] :
                  want'[u] = ANY \/ c = want'[u] => st[c] # "ZOMBIE"
          /\ wait_kind'[u] = "INPUT" => ~stdin'
      BY <1>2 DEF Matches, Zombies
    <3> QED BY <3>1, <3>2 DEF WaitAt
  <2>7. LocalsAt(st, parent, pl, wait_kind', want', new_task')
    BY <1>2 DEF Safe, SafeAt, LocalsAt, Creating, HasShell
  <2> QED BY <2>1, <2>2, <2>3, <2>4, <2>5, <2>6, <2>7 DEF SafeAt
<1> HIDE DEF st, pl
<1> QED BY <1>1, <1>3, SchedulerSafe DEF st, pl

\* "int 48" with nothing changed.
LEMMA TriggerSafe ==
    ASSUME TypeOK, Safe, NEW pl \in [Task -> Place],
           UNCHANGED <<wait_kind, want, new_task, stdin>>,
           pl[init] = pc[init] \/ (pc[init] = "int48" /\ pl[init] = "scan"),
           scheduler_trigger(pl)
    PROVE  Safe'
<1> USE TaskAssumption DEF TypeOK
<1>1. LocalsAt(state, parent, pl, wait_kind', want', new_task')
  BY DEF Safe, SafeAt, LocalsAt, InitPlace, Creating, HasShell
<1>2. /\ ListedAt(state, parent) /\ KeptAt(state, parent)
      /\ WaitAt(state, children, wait_kind', want', stdin')
  BY DEF Safe, SafeAt, WaitAt
<1>3. RunsAt(state, pl, new_task')
  BY DEF Safe, SafeAt, RunsAt
<1>4. TreeAt(state, parent, children, pl, new_task')
  BY DEF Safe, SafeAt, TreeAt
<1>5. ZombieAt(state, parent, children, pl, want')
  BY DEF Safe, SafeAt, ZombieAt
<1>6. SafeAt(state, parent, children, pl, wait_kind', want', new_task', stdin')
  BY <1>1, <1>2, <1>3, <1>4, <1>5 DEF SafeAt
<1> QED BY <1>6, SchedulerSafe DEF scheduler_trigger

\* A user task's step that only moves its own place in the code, or the input
\* ring, or forgets the pid it waited for.
LEMMA PlaceSafe ==
    ASSUME TypeOK, Safe, NEW u \in User, current_task = u,
           UNCHANGED <<task_list, state, wait_kind, parent, children,
                       current_task, new_task>>,
           pc' = [pc EXCEPT ![u] = "user"],
           want' = want \/ want' = [want EXCEPT ![u] = NULL],
           stdin' = stdin \/ stdin
    PROVE  Safe'
<1> USE TaskAssumption DEF TypeOK, User
<1>0. pc'[init] = pc[init] /\ want'[init] = want[init]
  OBVIOUS
<1>1. RunsAt(state, pc, new_task)'
  BY <1>0 DEF Safe, SafeAt, RunsAt
<1>2. TreeAt(state, parent, children, pc, new_task)'
  BY <1>0 DEF Safe, SafeAt, TreeAt
<1>3. ZombieAt(state, parent, children, pc, want)'
  BY <1>0 DEF Safe, SafeAt, ZombieAt
<1>4. WaitAt(state, children, wait_kind, want, stdin)'
  <2>1. state[u] = "RUNNING"
    BY DEF Safe
  <2> QED BY <2>1 DEF Safe, SafeAt, WaitAt
<1>5. LocalsAt(state, parent, pc, wait_kind, want, new_task)'
  BY <1>0 DEF Safe, SafeAt, LocalsAt
<1>6. ListedAt(state, parent)' /\ KeptAt(state, parent)'
  BY DEF Safe, SafeAt, ListedAt, KeptAt
<1> QED BY <1>1, <1>2, <1>3, <1>4, <1>5, <1>6 DEF Safe, SafeAt

\* One turn of sys_read's loop returns to the user or parks on INPUT.
LEMMA ReadSafe ==
    ASSUME TypeOK, Safe, NEW u \in User, current_task = u, ReadLoop(u)
    PROVE  Safe'
<1> USE TaskAssumption DEF TypeOK
<1>1. CASE stdin
  BY <1>1, PlaceSafe DEF ReadLoop, ReturnToUser, treeVars
<1>2. CASE ~stdin
  <2>1. /\ wait_kind' = [wait_kind EXCEPT ![u] = "INPUT"]
        /\ scheduler([state EXCEPT ![u] = "WAITING"], parent, children,
                     [pc EXCEPT ![u] = "read"])
        /\ UNCHANGED <<want, new_task, stdin>>
    BY <1>2 DEF ReadLoop, task_block
  <2>2. "INPUT" \in WaitKind /\ "read" \in Place
    BY DEF WaitKind, Place, Parked
  <2> QED BY <1>2, <2>1, <2>2, BlockSafe
<1> QED BY <1>1, <1>2

\* Collecting a zombie: it leaves the tree and goes to the reaper.
LEMMA CollectSafe ==
    ASSUME TypeOK, Safe, NEW u \in User, current_task = u,
           NEW z \in children[u], state[z] = "ZOMBIE",
           children' = [children EXCEPT ![u] = @ \ {z}],
           parent' = [parent EXCEPT ![z] = NULL],
           state' = [state EXCEPT ![z] = "TERMINATED"],
           pc' = [pc EXCEPT ![u] = "user"],
           want' = [want EXCEPT ![u] = NULL],
           UNCHANGED <<task_list, wait_kind, current_task, new_task, stdin>>
    PROVE  Safe'
<1> USE TaskAssumption DEF TypeOK, User
<1>0. /\ pc'[init] = pc[init] /\ want'[init] = want[init]
      /\ z \in Task /\ parent[z] = u /\ z \in task_list
      /\ state[u] = "RUNNING" /\ z # u /\ z # init /\ z # idle
  BY DEF Safe, SafeAt, TreeAt, LocalsAt, ListedAt
<1>1. RunsAt(state, pc, new_task)'
  BY <1>0 DEF Safe, SafeAt, RunsAt
<1>2. TreeAt(state, parent, children, pc, new_task)'
  <2>1. ASSUME NEW t \in Task, parent'[t] # NULL
        PROVE  /\ parent'[t] \in task_list' /\ parent'[t] \notin {t, new_task'}
               /\ state'[parent'[t]] \notin {"ZOMBIE", "TERMINATED", "NEW"}
               /\ \/ t \in children'[parent'[t]]
                  \/ t = new_task' /\ pc'[init] = "link"
    BY <2>1, <1>0 DEF Safe, SafeAt, TreeAt
  <2>2. ASSUME NEW p \in Task, NEW c \in children'[p]
        PROVE  parent'[c] = p /\ c \in task_list'
    BY <2>2, <1>0 DEF Safe, SafeAt, TreeAt
  <2> QED BY <2>1, <2>2 DEF TreeAt
<1>3. ZombieAt(state, parent, children, pc, want)'
  BY <1>0 DEF Safe, SafeAt, ZombieAt
<1>4. WaitAt(state, children, wait_kind, want, stdin)'
  BY <1>0 DEF Safe, SafeAt, WaitAt
<1>5. LocalsAt(state, parent, pc, wait_kind, want, new_task)'
  <2>1. LocalsAt(state, parent, pc, wait_kind, want, new_task)
    BY DEF Safe, SafeAt
  <2>2. /\ pc[init] \in Creating => new_task # z
        /\ pc[init] \in HasShell \cup {"collected"} => want[init] # z
    BY <1>0, <2>1 DEF LocalsAt, Creating
  <2> QED BY <1>0, <2>1, <2>2 DEF LocalsAt, Creating, HasShell
<1>6. ListedAt(state, parent)' /\ KeptAt(state, parent)'
  BY <1>0 DEF Safe, SafeAt, ListedAt, KeptAt
<1>7. state'[current_task'] = "RUNNING"
  BY <1>0
<1> QED BY <1>1, <1>2, <1>3, <1>4, <1>5, <1>6, <1>7 DEF Safe, SafeAt

\* One turn of task_waitpid's loop returns, collects, or parks on CHILD.
LEMMA WaitpidSafe ==
    ASSUME TypeOK, Safe, NEW u \in User, current_task = u,
           NEW pid \in Task \cup {NULL, ANY}, WaitpidLoop(u, pid)
    PROVE  Safe'
<1> USE TaskAssumption DEF TypeOK
<1>1. CASE Matches(u, pid) # {} /\ Zombies(Matches(u, pid)) = {}
  <2>1. /\ wait_kind' = [wait_kind EXCEPT ![u] = "CHILD"]
        /\ want' = [want EXCEPT ![u] = pid]
        /\ scheduler([state EXCEPT ![u] = "WAITING"], parent, children,
                     [pc EXCEPT ![u] = "waitpid"])
        /\ UNCHANGED <<new_task, stdin>>
    BY <1>1 DEF WaitpidLoop, task_block
  <2>2. "CHILD" \in WaitKind /\ "waitpid" \in Place
    BY DEF WaitKind, Place, Parked
  <2>3. /\ want' \in [Task -> Task \cup {NULL, ANY}]
        /\ \A t \in Task : t # u => want'[t] = want[t]
        /\ want'[u] = pid
    BY <2>1 DEF User
  <2> QED BY <1>1, <2>1, <2>2, <2>3, BlockSafe
<1>2. CASE Matches(u, pid) = {}
  <2>1. Zombies(Matches(u, pid)) = {}
    BY <1>2 DEF Zombies
  <2> QED BY <1>2, <2>1, PlaceSafe DEF WaitpidLoop, ReturnToUser, treeVars
<1>3. CASE Zombies(Matches(u, pid)) # {}
  <2>1. PICK z \in Zombies(Matches(u, pid)) :
            /\ children' = [children EXCEPT ![u] = @ \ {z}]
            /\ parent' = [parent EXCEPT ![z] = NULL]
            /\ state' = [state EXCEPT ![z] = "TERMINATED"]
    <3>1. Matches(u, pid) # {}
      BY <1>3 DEF Zombies
    <3> QED BY <1>3, <3>1 DEF WaitpidLoop
  <2>2. z \in children[u] /\ state[z] = "ZOMBIE"
    BY DEF Zombies, Matches
  <2>3. /\ pc' = [pc EXCEPT ![u] = "user"]
        /\ want' = [want EXCEPT ![u] = NULL]
        /\ UNCHANGED <<task_list, wait_kind, current_task, new_task, stdin>>
    BY <1>3, <2>1 DEF WaitpidLoop, ReturnToUser, Zombies
  <2> QED BY <2>1, <2>2, <2>3, CollectSafe
<1> QED BY <1>1, <1>2, <1>3

\* spawn() by a system call: the child is READY in the tree, or dead outside.
LEMMA SpawnSafe ==
    ASSUME TypeOK, Safe, NEW u \in User, NEW t \in User, sys_spawn(u, t)
    PROVE  Safe'
<1> USE TaskAssumption DEF TypeOK, User
<1>0. /\ current_task = u /\ state[t] = "FREE" /\ task_list' = task_list \cup {t}
      /\ wait_kind' = [wait_kind EXCEPT ![t] = "NONE"]
      /\ UNCHANGED <<current_task, want, new_task, stdin>>
  BY DEF sys_spawn, Running, task_create, Fresh, ListAdd
<1>1. /\ state[u] = "RUNNING" /\ t # u /\ t \notin task_list
      /\ u \in task_list
  BY <1>0 DEF Safe, SafeAt, ListedAt, RunsAt
<1>2. parent[t] = NULL /\ \A p \in Task : t \notin children[p]
  BY <1>1, <1>0 DEF Safe, SafeAt, TreeAt, LocalsAt, Creating
<1>3. \A c \in Task : parent[c] # t
  BY <1>1 DEF Safe, SafeAt, TreeAt
<1>4. /\ pc[init] \in Creating => new_task # t
      /\ pc[init] \in HasShell \cup {"collected"} => want[init] # t
  <2>1. pc[init] \in Creating => state[new_task] # "FREE"
    BY DEF Safe, SafeAt, LocalsAt
  <2>2. pc[init] \in HasShell => parent[want[init]] = init
    BY DEF Safe, SafeAt, LocalsAt
  <2>3. pc[init] = "collected" => state[want[init]] = "ZOMBIE"
    BY DEF Safe, SafeAt, LocalsAt
  <2> QED BY <2>1, <2>2, <2>3, <1>0, <1>2
<1>5. CASE /\ parent' = [parent EXCEPT ![t] = u]
           /\ children' = [children EXCEPT ![u] = @ \cup {t}]
           /\ state' = [state EXCEPT ![t] = "READY"]
           /\ pc' = [pc EXCEPT ![t] = "user"]
  <2>1. ListedAt(state, parent)' /\ KeptAt(state, parent)'
    BY <1>0, <1>1, <1>5 DEF Safe, SafeAt, ListedAt, KeptAt
  <2>2. RunsAt(state, pc, new_task)'
    BY <1>0, <1>1, <1>5 DEF Safe, SafeAt, RunsAt
  <2>3. TreeAt(state, parent, children, pc, new_task)'
    <3>1. u # new_task
      BY <1>0 DEF Safe, SafeAt, LocalsAt
    <3> QED BY <1>0, <1>1, <1>2, <1>3, <1>5, <3>1 DEF Safe, SafeAt, TreeAt
  <2>4. ZombieAt(state, parent, children, pc, want)'
    BY <1>0, <1>1, <1>5 DEF Safe, SafeAt, ZombieAt
  <2>5. WaitAt(state, children, wait_kind, want, stdin)'
    BY <1>0, <1>1, <1>2, <1>5 DEF Safe, SafeAt, WaitAt
  <2>6. LocalsAt(state, parent, pc, wait_kind, want, new_task)'
    BY <1>0, <1>4, <1>5 DEF Safe, SafeAt, LocalsAt, Creating, HasShell
  <2> QED BY <1>0, <1>1, <1>5, <2>1, <2>2, <2>3, <2>4, <2>5, <2>6 DEF Safe, SafeAt
<1>6. CASE /\ state' = [state EXCEPT ![t] = "TERMINATED"]
           /\ UNCHANGED <<parent, children, pc>>
  <2>1. ListedAt(state, parent)' /\ KeptAt(state, parent)'
    BY <1>0, <1>1, <1>2, <1>6 DEF Safe, SafeAt, ListedAt, KeptAt
  <2>2. RunsAt(state, pc, new_task)'
    BY <1>0, <1>1, <1>6 DEF Safe, SafeAt, RunsAt
  <2>3. TreeAt(state, parent, children, pc, new_task)'
    BY <1>0, <1>1, <1>2, <1>3, <1>6 DEF Safe, SafeAt, TreeAt
  <2>4. ZombieAt(state, parent, children, pc, want)'
    BY <1>0, <1>1, <1>6 DEF Safe, SafeAt, ZombieAt
  <2>5. WaitAt(state, children, wait_kind, want, stdin)'
    BY <1>0, <1>1, <1>2, <1>6 DEF Safe, SafeAt, WaitAt
  <2>6. LocalsAt(state, parent, pc, wait_kind, want, new_task)'
    BY <1>0, <1>4, <1>6 DEF Safe, SafeAt, LocalsAt, Creating, HasShell
  <2> QED BY <1>0, <1>1, <1>6, <2>1, <2>2, <2>3, <2>4, <2>5, <2>6 DEF Safe, SafeAt
<1> QED BY <1>5, <1>6 DEF sys_spawn, treeVars

\* What task_exit hands to the scheduler: the orphans are idle's, the exiting
\* task is nobody's parent, and a parent that waits has been woken.
LEMMA ExitLeaves ==
    ASSUME TypeOK, Safe, NEW u \in User \cup {init}, current_task = u,
           NEW pl \in [Task -> Place],
           \A t \in Task : t # u => pl[t] = pc[t],
           u = init => pc[init] = "halt" /\ pl[init] = "halted"
    PROVE  SafeAt(ExitState(u), ExitParent(u), ExitChildren(u), pl, ExitWait(u),
                  want, new_task, stdin)
<1> USE TaskAssumption DEF TypeOK, User
<1> DEFINE st == ExitState(u)
           par == ExitParent(u)
           ch == ExitChildren(u)
<1>0. /\ u \in Task /\ u # idle /\ u \in task_list
      /\ u \in User => state[u] = "RUNNING"
      /\ state[u] \notin {"FREE", "NEW", "READY"}
  BY DEF Safe, SafeAt, RunsAt
<1>1. \A c \in children[u] : c \in Task /\ parent[c] = u /\ c \in task_list /\ c # idle /\ c # init
  BY <1>0 DEF Safe, SafeAt, TreeAt, ListedAt, LocalsAt
<1>2. parent[u] # u
  BY <1>0 DEF Safe, SafeAt, TreeAt, LocalsAt
<1>3. st[u] = IF parent[u] # NULL /\ parent[u] # idle THEN "ZOMBIE" ELSE "TERMINATED"
  BY <1>0 DEF ExitState, RealParent
<1>4. \A t \in Task : t # u =>
         \/ st[t] = state[t]
         \/ t \in children[u] /\ state[t] = "ZOMBIE" /\ st[t] = "TERMINATED"
         \/ /\ t = parent[u] /\ t # idle /\ state[t] = "WAITING"
            /\ wait_kind[t] = "CHILD" /\ st[t] = "READY"
  BY DEF ExitState, RealParent, WakesParent, Zombies
<1>5. \A t \in Task : t # u /\ t \in children[u] => st[t] # "ZOMBIE"
  BY <1>1, <1>2 DEF ExitState, RealParent, WakesParent, Zombies
<1>6. \A t \in Task : par[t] = IF t \in children[u] THEN idle ELSE parent[t]
  BY DEF ExitParent
<1>7. \A t \in Task : ch[t] = IF t = u THEN {}
                              ELSE IF t = idle THEN children[idle] \cup children[u]
                              ELSE children[t]
  BY DEF ExitChildren
<1>8. u \notin children[u]
  BY <1>1, <1>2
<1>9. \A t \in Task : ExitWait(u)[t] = IF WakesParent(u) /\ t = parent[u] THEN "NONE"
                                       ELSE wait_kind[t]
  BY DEF ExitWait
<1>10. \A t \in Task : st[t] = "WAITING" =>
           t # u /\ state[t] = "WAITING" /\ ~(WakesParent(u) /\ t = parent[u])
  BY <1>3, <1>4, <1>2 DEF ExitState, RealParent, WakesParent, Zombies
<1> HIDE DEF st, par, ch
<1>11. ListedAt(st, par)
  BY <1>0, <1>1, <1>3, <1>4, <1>6 DEF Safe, SafeAt, ListedAt
<1>12. RunsAt(st, pl, new_task)
  <2>1. ASSUME NEW t \in Task, st[t] = "RUNNING" PROVE t # u /\ state[t] = "RUNNING"
    BY <2>1, <1>3, <1>4
  <2>2. pc[init] = "created" => pl[init] = "created"
    BY <1>0
  <2> QED BY <2>1, <2>2, <1>0 DEF Safe, SafeAt, RunsAt
<1>13. TreeAt(st, par, ch, pl, new_task)
  <2>1. ASSUME NEW t \in Task, par[t] # NULL
        PROVE  /\ par[t] \in task_list /\ par[t] \notin {t, new_task}
               /\ st[par[t]] \notin {"ZOMBIE", "TERMINATED", "NEW"}
               /\ t \in ch[par[t]] \/ (t = new_task /\ pl[init] = "link")
    <3>0. new_task # idle
      BY DEF Safe, SafeAt, LocalsAt
    <3>1. CASE t \in children[u]
      BY <2>1, <3>0, <3>1, <1>1, <1>6, <1>7, <1>11, <1>0 DEF ListedAt
    <3>2. CASE t \notin children[u]
      <4>1. /\ par[t] = parent[t] /\ parent[t] \in task_list /\ parent[t] \notin {t, new_task}
            /\ state[parent[t]] \notin {"ZOMBIE", "TERMINATED", "NEW"}
            /\ t \in children[parent[t]] \/ (t = new_task /\ pc[init] = "link")
        BY <2>1, <3>2, <1>6 DEF Safe, SafeAt, TreeAt
      <4>2. parent[t] # u
        <5>1. u = init => pc[init] # "link"
          OBVIOUS
        <5>2. t = new_task /\ pc[init] = "link" => parent[t] = init
          BY DEF Safe, SafeAt, LocalsAt, Creating
        <5> QED BY <3>2, <4>1, <5>1, <5>2
      <4>3. st[parent[t]] \notin {"ZOMBIE", "TERMINATED", "NEW"}
        BY <4>1, <4>2, <1>4
      <4>4. pc[init] = "link" => pl[init] = "link"
        BY <1>0
      <4> QED BY <4>1, <4>2, <4>3, <4>4, <1>7
    <3> QED BY <3>1, <3>2
  <2>2. ASSUME NEW p \in Task, NEW c \in ch[p]
        PROVE  par[c] = p /\ c \in task_list
    <3>1. CASE p = idle /\ c \in children[u]
      BY <3>1, <1>1, <1>6
    <3>2. CASE p # u /\ c \in children[p]
      <4>1. c \in Task /\ parent[c] = p /\ c \in task_list
        BY <3>2 DEF Safe, SafeAt, TreeAt
      <4> QED BY <3>2, <4>1, <1>1, <1>6
    <3> QED BY <2>2, <3>1, <3>2, <1>7, <1>0
  <2> QED BY <2>1, <2>2 DEF TreeAt
<1>14. ZombieAt(st, par, ch, pl, want)
  <2> SUFFICES ASSUME NEW t \in Task, st[t] = "ZOMBIE"
               PROVE  \/ par[t] # NULL /\ par[t] # idle /\ t \in ch[par[t]]
                      \/ pl[init] = "collected" /\ want[init] = t
    BY DEF ZombieAt
  <2>1. CASE t = u
    <3>1. parent[u] # NULL /\ parent[u] # idle
      BY <2>1, <1>3
    <3>2. u # init /\ parent[u] \in Task
      BY <3>1 DEF Safe, SafeAt, LocalsAt
    <3>3. u \in children[parent[u]]
      <4>1. u # new_task \/ pc[init] # "link"
        BY <1>0, <3>2 DEF Safe, SafeAt, LocalsAt, Creating
      <4> QED BY <4>1, <3>1, <1>0 DEF Safe, SafeAt, TreeAt
    <3> QED BY <2>1, <3>1, <3>2, <3>3, <1>0, <1>2, <1>6, <1>7, <1>8
  <2>2. CASE t # u
    <3>1. t \notin children[u] /\ state[t] = "ZOMBIE" /\ par[t] = parent[t]
      BY <2>2, <1>4, <1>5, <1>6
    <3>2. pc[init] = "collected" => pl[init] = "collected"
      BY <1>0
    <3> QED BY <3>1, <3>2, <1>7 DEF Safe, SafeAt, ZombieAt
  <2> QED BY <2>1, <2>2
<1>15. KeptAt(st, par)
  BY <1>3, <1>4, <1>6 DEF Safe, SafeAt, KeptAt
<1>16. WaitAt(st, ch, ExitWait(u), want, stdin)
  <2> SUFFICES ASSUME NEW v \in User, st[v] = "WAITING"
               PROVE  /\ ExitWait(u)[v] = "CHILD" =>
                           \E c \in ch[v] : want[v] = ANY \/ c = want[v]
                      /\ ExitWait(u)[v] = "CHILD" =>
                           \A c \in ch[v] :
                              want[v] = ANY \/ c = want[v] => st[c] # "ZOMBIE"
                      /\ ExitWait(u)[v] = "INPUT" => ~stdin
    BY DEF WaitAt
  <2>1. v # u /\ state[v] = "WAITING" /\ ~(WakesParent(u) /\ v = parent[u])
    BY <1>10
  <2>2. ExitWait(u)[v] = wait_kind[v] /\ ch[v] = children[v]
    BY <2>1, <1>7, <1>9
  <2>3. wait_kind[v] = "CHILD" => u \notin children[v]
    <3>1. u \in children[v] => parent[u] = v
      BY DEF Safe, SafeAt, TreeAt
    <3> QED BY <2>1, <3>1 DEF WakesParent, RealParent
  <2>4. \A c \in children[v] : c # u /\ st[c] = "ZOMBIE" => state[c] = "ZOMBIE"
    <3>1. \A c \in children[v] : c \in Task
      OBVIOUS
    <3> QED BY <3>1, <1>4
  <2> QED BY <2>1, <2>2, <2>3, <2>4 DEF Safe, SafeAt, WaitAt
<1>17. LocalsAt(st, par, pl, ExitWait(u), want, new_task)
  <2>0. LocalsAt(state, parent, pc, wait_kind, want, new_task)
    BY DEF Safe, SafeAt
  <2>1. CASE u = init
    <3>1. pl[init] = "halted" /\ st[init] = "TERMINATED" /\ par[init] = NULL
      BY <2>0, <2>1, <1>3, <1>6, <1>8 DEF LocalsAt
    <3>2. new_task = NULL
      BY <2>0, <2>1 DEF LocalsAt, Creating
    <3> QED BY <3>1, <3>2 DEF LocalsAt, InitPlace, Creating, HasShell
  <2>2. CASE u # init
    <3>1. pl[init] = pc[init] /\ par[init] = parent[init]
      BY <2>2, <1>1, <1>6
    <3>2. pc[init] \in Creating =>
             /\ st[new_task] = state[new_task] /\ par[new_task] = parent[new_task]
      BY <2>0, <2>2, <1>0, <1>1, <1>4, <1>6 DEF LocalsAt, Creating
    <3>3. pc[init] \in HasShell \cup {"collected"} =>
             /\ par[want[init]] = parent[want[init]]
             /\ state[want[init]] = "ZOMBIE" => st[want[init]] = "ZOMBIE"
      <4>1. pc[init] \in HasShell \cup {"collected"} =>
              want[init] \in Task /\ want[init] \notin children[u]
        BY <2>0, <2>2, <1>1 DEF LocalsAt
      <4>2. u \in User
        BY <2>2
      <4> QED BY <4>1, <4>2, <1>0, <1>4, <1>6
    <3>4. \/ st[init] = state[init] /\ ExitWait(u)[init] = wait_kind[init]
          \/ state[init] = "WAITING" /\ st[init] = "READY"
      <4>1. init \notin Zombies(children[u])
        BY <1>1 DEF Zombies
      <4>2. st[init] = IF WakesParent(u) /\ init = parent[u] THEN "READY" ELSE state[init]
        BY <2>2, <4>1 DEF ExitState, st
      <4> QED BY <4>2, <1>9 DEF WakesParent
    <3> QED BY <2>0, <3>1, <3>2, <3>3, <3>4 DEF LocalsAt, Creating, HasShell
  <2> QED BY <2>1, <2>2
<1> QED BY <1>11, <1>12, <1>13, <1>14, <1>15, <1>16, <1>17 DEF SafeAt, st, par, ch

\* task_exit of a user task: ExitLeaves, then scheduler().
LEMMA ExitSafe == ASSUME TypeOK, Safe, NEW u \in User, task_exit(u) PROVE Safe'
<1> USE TaskAssumption DEF TypeOK
<1>1. /\ current_task = u /\ wait_kind' = ExitWait(u)
      /\ scheduler(ExitState(u), ExitParent(u), ExitChildren(u),
                   [pc EXCEPT ![u] = "exit"])
      /\ UNCHANGED <<want, new_task, stdin>>
  BY DEF task_exit, Running
<1>2. /\ u \in Task /\ u # init
      /\ [pc EXCEPT ![u] = "exit"] \in [Task -> Place]
      /\ \A t \in Task : t # u => [pc EXCEPT ![u] = "exit"][t] = pc[t]
  BY DEF Place, Parked, User
<1>3. /\ ExitState(u) \in [Task -> TaskState]
      /\ ExitParent(u) \in [Task -> Task \cup {NULL}]
      /\ ExitChildren(u) \in [Task -> SUBSET Task]
  <2>1. ExitState(u) \in [Task -> TaskState]
    BY DEF ExitState, TaskState
  <2>2. ExitParent(u) \in [Task -> Task \cup {NULL}]
    BY DEF ExitParent
  <2>3. ExitChildren(u) \in [Task -> SUBSET Task]
    BY <1>2 DEF ExitChildren
  <2> QED BY <2>1, <2>2, <2>3
<1>4. SafeAt(ExitState(u), ExitParent(u), ExitChildren(u), [pc EXCEPT ![u] = "exit"],
             ExitWait(u), want, new_task, stdin)
  BY <1>1, <1>2, ExitLeaves
<1> QED BY <1>1, <1>2, <1>3, <1>4, SchedulerSafe

\* init's steps up to task_set_ready: one task is created and linked.
LEMMA InitCreateSafe ==
    ASSUME TypeOK, Safe, NEW t \in User, InitCreate(t) PROVE Safe'
<1> USE TaskAssumption DEF TypeOK, User
<1>0. /\ current_task = init /\ pc[init] = "spawn"
      /\ state[t] = "FREE" /\ task_list' = task_list \cup {t}
      /\ wait_kind' = [wait_kind EXCEPT ![t] = "NONE"]
      /\ state' = [state EXCEPT ![t] = "RUNNING"] /\ new_task' = t
      /\ pc' = [pc EXCEPT ![init] = "created"]
      /\ UNCHANGED <<parent, children, current_task, want, stdin>>
  BY DEF InitCreate, InitAt, InitGoto, task_create, Fresh, ListAdd, treeVars
<1>1. t \notin task_list /\ t # init /\ t # idle
  BY <1>0 DEF Safe, SafeAt, ListedAt
<1>2. parent[t] = NULL /\ \A p \in Task : t \notin children[p]
  BY <1>1, <1>0 DEF Safe, SafeAt, TreeAt
<1>3. \A c \in Task : parent[c] # t
  BY <1>1 DEF Safe, SafeAt, TreeAt
<1>4. ListedAt(state, parent)' /\ KeptAt(state, parent)'
  BY <1>0, <1>1, <1>2 DEF Safe, SafeAt, ListedAt, KeptAt
<1>5. RunsAt(state, pc, new_task)'
  BY <1>0, <1>1 DEF Safe, SafeAt, RunsAt
<1>6. TreeAt(state, parent, children, pc, new_task)'
  BY <1>0, <1>1, <1>2, <1>3 DEF Safe, SafeAt, TreeAt
<1>7. ZombieAt(state, parent, children, pc, want)'
  BY <1>0, <1>1 DEF Safe, SafeAt, ZombieAt
<1>8. WaitAt(state, children, wait_kind, want, stdin)'
  BY <1>0, <1>1, <1>2 DEF Safe, SafeAt, WaitAt
<1>9. LocalsAt(state, parent, pc, wait_kind, want, new_task)'
  BY <1>0, <1>1, <1>2 DEF Safe, SafeAt, LocalsAt, InitPlace, Creating, HasShell
<1> QED BY <1>0, <1>1, <1>4, <1>5, <1>6, <1>7, <1>8, <1>9 DEF Safe, SafeAt

\* The other steps of init that do not call the scheduler.
LEMMA InitLocalSafe ==
    ASSUME TypeOK, Safe,
           \/ InitCannotSpawn \/ InitStoreNew \/ InitLoad \/ InitSetParent
           \/ InitLink \/ InitSetReady \/ InitScan \/ InitUnlink \/ InitCollect
           \/ InitSetWaitKind \/ InitSetWaiting
    PROVE  Safe'
<1> USE TaskAssumption DEF TypeOK, User, InitAt, InitGoto, treeVars
<1>0. /\ current_task = init /\ current_task' = init /\ task_list' = task_list
      /\ stdin' = stdin
  BY DEF InitCannotSpawn, InitStoreNew, InitLoad, InitSetParent, InitLink,
         InitSetReady, InitScan, InitUnlink, InitCollect, InitSetWaitKind,
         InitSetWaiting
<1>L. LocalsAt(state, parent, pc, wait_kind, want, new_task)
  BY DEF Safe, SafeAt
<1>S. /\ state[init] \notin {"FREE", "NEW", "READY"}
      /\ state[init] = "WAITING" => pc[init] = "int48"
  BY <1>0 DEF Safe
<1>1. CASE InitCannotSpawn
  <2>1. LocalsAt(state, parent, pc, wait_kind, want, new_task)'
    BY <1>1, <1>L DEF InitCannotSpawn, LocalsAt, InitPlace, Creating, HasShell
  <2> QED BY <1>0, <1>1, <1>S, <2>1 DEF InitCannotSpawn, Safe, SafeAt, ListedAt, RunsAt, TreeAt,
             ZombieAt, KeptAt, WaitAt
<1>2. CASE InitStoreNew
  <2>0. /\ pc[init] = "created" /\ new_task \in User /\ state[new_task] = "RUNNING"
        /\ parent[new_task] = NULL
    BY <1>2, <1>L DEF InitStoreNew, LocalsAt, Creating
  <2>1. LocalsAt(state, parent, pc, wait_kind, want, new_task)'
    BY <1>0, <1>2, <2>0, <1>L DEF InitStoreNew, LocalsAt, InitPlace, Creating, HasShell
  <2>2. TreeAt(state, parent, children, pc, new_task)'
    <3>1. \A t \in Task : parent[t] # new_task
      BY <2>0 DEF Safe, SafeAt, TreeAt
    <3> QED BY <1>0, <1>2, <2>0, <3>1 DEF InitStoreNew, Safe, SafeAt, TreeAt
  <2> QED BY <1>0, <1>2, <1>S, <2>0, <2>1, <2>2 DEF InitStoreNew, Safe, SafeAt, ListedAt, RunsAt,
             ZombieAt, KeptAt, WaitAt
<1>3. CASE InitLoad
  <2>0. /\ pc[init] = "load" /\ new_task \in User /\ state[new_task] = "NEW"
        /\ parent[new_task] = NULL
    BY <1>3, <1>L DEF InitLoad, LocalsAt, Creating
  <2>1. CASE InitGoto("parent") /\ UNCHANGED <<state, new_task>>
    <3>1. LocalsAt(state, parent, pc, wait_kind, want, new_task)'
      BY <1>0, <1>3, <2>0, <2>1, <1>L DEF InitLoad, LocalsAt, InitPlace, Creating, HasShell
    <3> QED BY <1>0, <1>3, <1>S, <2>0, <2>1, <3>1 DEF InitLoad, Safe, SafeAt, ListedAt, RunsAt,
               TreeAt, ZombieAt, KeptAt, WaitAt
  <2>2. CASE /\ state' = [state EXCEPT ![new_task] = "TERMINATED"]
             /\ new_task' = NULL
             /\ InitGoto("halt")
    <3>1. LocalsAt(state, parent, pc, wait_kind, want, new_task)'
      BY <1>0, <1>3, <2>0, <2>2, <1>L DEF InitLoad, LocalsAt, InitPlace, Creating, HasShell
    <3>2. TreeAt(state, parent, children, pc, new_task)'
      BY <1>0, <1>3, <2>0, <2>2 DEF InitLoad, Safe, SafeAt, TreeAt
    <3>3. KeptAt(state, parent)' /\ ListedAt(state, parent)'
      BY <1>0, <1>3, <2>0, <2>2 DEF InitLoad, Safe, SafeAt, KeptAt, ListedAt
    <3> QED BY <1>0, <1>3, <1>S, <2>0, <2>2, <3>1, <3>2, <3>3 DEF InitLoad, Safe, SafeAt,
               RunsAt, ZombieAt, WaitAt
  <2> QED BY <1>3, <2>1, <2>2 DEF InitLoad
<1>4. CASE InitSetParent
  <2>0. /\ pc[init] = "parent" /\ new_task \in User /\ state[new_task] = "NEW"
        /\ parent[new_task] = NULL
    BY <1>4, <1>L DEF InitSetParent, LocalsAt, Creating
  <2>1. LocalsAt(state, parent, pc, wait_kind, want, new_task)'
    BY <1>0, <1>4, <2>0, <1>L DEF InitSetParent, LocalsAt, InitPlace, Creating, HasShell
  <2>2. TreeAt(state, parent, children, pc, new_task)'
    <3>1. /\ init \in task_list /\ state[init] \notin {"ZOMBIE", "TERMINATED", "NEW"}
          /\ \A p \in Task : new_task \notin children[p]
      BY <1>0, <2>0, <1>L DEF Safe, SafeAt, TreeAt, RunsAt, LocalsAt
    <3> QED BY <1>0, <1>4, <2>0, <3>1 DEF InitSetParent, Safe, SafeAt, TreeAt
  <2> QED BY <1>0, <1>4, <1>S, <2>0, <2>1, <2>2 DEF InitSetParent, Safe, SafeAt, ListedAt, RunsAt,
             ZombieAt, KeptAt, WaitAt
<1>5. CASE InitLink
  <2>0. /\ pc[init] = "link" /\ new_task \in User /\ state[new_task] = "NEW"
        /\ parent[new_task] = init
    BY <1>5, <1>L DEF InitLink, LocalsAt, Creating
  <2>1. LocalsAt(state, parent, pc, wait_kind, want, new_task)'
    BY <1>0, <1>5, <2>0, <1>L DEF InitLink, LocalsAt, InitPlace, Creating, HasShell
  <2>2. TreeAt(state, parent, children, pc, new_task)'
    <3>1. new_task \in task_list
      BY <2>0 DEF Safe, SafeAt, ListedAt
    <3> QED BY <1>0, <1>5, <2>0, <3>1 DEF InitLink, Safe, SafeAt, TreeAt
  <2> QED BY <1>0, <1>5, <1>S, <2>0, <2>1, <2>2 DEF InitLink, Safe, SafeAt, ListedAt, RunsAt,
             ZombieAt, KeptAt, WaitAt
<1>6. CASE InitSetReady
  <2>0. /\ pc[init] = "ready" /\ new_task \in User /\ state[new_task] = "NEW"
        /\ parent[new_task] = init
    BY <1>6, <1>L DEF InitSetReady, LocalsAt, Creating
  <2>1. /\ state' = [state EXCEPT ![new_task] = "READY"]
        /\ want' = [want EXCEPT ![init] = new_task]
        /\ new_task' = NULL
        /\ pc' = [pc EXCEPT ![init] = "scan", ![new_task] = "user"]
        /\ UNCHANGED <<wait_kind, parent, children>>
    BY <1>6, <2>0 DEF InitSetReady
  <2>2. LocalsAt(state, parent, pc, wait_kind, want, new_task)'
    BY <1>0, <2>0, <2>1, <1>L DEF LocalsAt, InitPlace, Creating, HasShell
  <2>3. ListedAt(state, parent)' /\ KeptAt(state, parent)' /\ RunsAt(state, pc, new_task)'
    BY <1>0, <2>0, <2>1 DEF Safe, SafeAt, ListedAt, KeptAt, RunsAt
  <2>4. TreeAt(state, parent, children, pc, new_task)'
    BY <1>0, <2>0, <2>1 DEF Safe, SafeAt, TreeAt
  <2> QED BY <1>0, <1>S, <2>0, <2>1, <2>2, <2>3, <2>4 DEF Safe, SafeAt, ZombieAt, WaitAt
<1>7. CASE InitScan
  <2>0. pc[init] = "scan" /\ want[init] \in User /\ parent[want[init]] = init
    BY <1>7, <1>L DEF InitScan, LocalsAt, HasShell
  <2>1. pc'[init] = "found" => state[want[init]] = "ZOMBIE"
    BY <1>7, <2>0 DEF InitScan, Matches, Zombies
  <2>2. pc'[init] \in {"spawn", "found", "block"} /\ UNCHANGED <<state, parent, wait_kind, want, new_task>>
    BY <1>7 DEF InitScan
  <2>3. LocalsAt(state, parent, pc, wait_kind, want, new_task)'
    BY <1>0, <1>S, <2>0, <2>1, <2>2, <1>L DEF LocalsAt, InitPlace, Creating, HasShell
  <2> QED BY <1>0, <1>7, <1>S, <2>0, <2>2, <2>3 DEF InitScan, Safe, SafeAt, ListedAt, RunsAt,
             TreeAt, ZombieAt, KeptAt, WaitAt
<1>8. CASE InitUnlink
  <2>0. /\ pc[init] = "found" /\ want[init] \in User /\ parent[want[init]] = init
        /\ state[want[init]] = "ZOMBIE"
    BY <1>8, <1>L DEF InitUnlink, LocalsAt, HasShell
  <2>1. LocalsAt(state, parent, pc, wait_kind, want, new_task)'
    BY <1>0, <1>8, <2>0, <1>L DEF InitUnlink, LocalsAt, InitPlace, Creating, HasShell
  <2>2. TreeAt(state, parent, children, pc, new_task)'
    BY <1>0, <1>8, <2>0 DEF InitUnlink, Safe, SafeAt, TreeAt
  <2>3. ZombieAt(state, parent, children, pc, want)'
    BY <1>0, <1>8, <2>0 DEF InitUnlink, Safe, SafeAt, ZombieAt
  <2> QED BY <1>0, <1>8, <1>S, <2>0, <2>1, <2>2, <2>3 DEF InitUnlink, Safe, SafeAt, ListedAt,
             RunsAt, KeptAt, WaitAt
<1>9. CASE InitCollect
  <2>0. /\ pc[init] = "collected" /\ want[init] \in User /\ parent[want[init]] = NULL
        /\ state[want[init]] = "ZOMBIE"
    BY <1>9, <1>L DEF InitCollect, LocalsAt
  <2>1. LocalsAt(state, parent, pc, wait_kind, want, new_task)'
    BY <1>0, <1>9, <2>0, <1>L DEF InitCollect, LocalsAt, InitPlace, Creating, HasShell
  <2>2. TreeAt(state, parent, children, pc, new_task)'
    BY <1>0, <1>9, <2>0 DEF InitCollect, Safe, SafeAt, TreeAt
  <2> QED BY <1>0, <1>9, <1>S, <2>0, <2>1, <2>2 DEF InitCollect, Safe, SafeAt, ListedAt, RunsAt,
             ZombieAt, KeptAt, WaitAt
<1>10. CASE InitSetWaitKind
  <2>1. LocalsAt(state, parent, pc, wait_kind, want, new_task)'
    BY <1>0, <1>10, <1>L DEF InitSetWaitKind, LocalsAt, InitPlace, Creating, HasShell
  <2> QED BY <1>0, <1>10, <1>S, <2>1 DEF InitSetWaitKind, Safe, SafeAt, ListedAt, RunsAt,
             TreeAt, ZombieAt, KeptAt, WaitAt
<1>11. CASE InitSetWaiting
  <2>0. wait_kind[init] = "CHILD"
    BY <1>11, <1>L DEF InitSetWaiting, LocalsAt
  <2>1. LocalsAt(state, parent, pc, wait_kind, want, new_task)'
    BY <1>0, <1>11, <1>L, <1>S, <2>0 DEF InitSetWaiting, LocalsAt, InitPlace, Creating, HasShell
  <2> QED BY <1>0, <1>11, <1>S, <2>1 DEF InitSetWaiting, Safe, SafeAt, ListedAt, RunsAt,
             TreeAt, ZombieAt, KeptAt, WaitAt
<1> QED BY <1>1, <1>2, <1>3, <1>4, <1>5, <1>6, <1>7, <1>8, <1>9, <1>10, <1>11

\* task_exit of init, whose children become idle's.
LEMMA InitExitSafe == ASSUME TypeOK, Safe, InitExit PROVE Safe'
<1> USE TaskAssumption DEF TypeOK
<1>1. /\ current_task = init /\ pc[init] = "halt"
      /\ wait_kind' = ExitWait(init) /\ state' = ExitState(init)
      /\ parent' = ExitParent(init) /\ children' = ExitChildren(init)
      /\ pc' = [pc EXCEPT ![init] = "halted"]
      /\ UNCHANGED <<task_list, current_task, want, new_task, stdin>>
  BY DEF InitExit, InitAt, InitGoto
<1>2. /\ [pc EXCEPT ![init] = "halted"] \in [Task -> Place]
      /\ \A t \in Task : t # init => [pc EXCEPT ![init] = "halted"][t] = pc[t]
      /\ [pc EXCEPT ![init] = "halted"][init] = "halted"
  BY DEF Place, InitPlace
<1>3. SafeAt(state', parent', children', pc', wait_kind', want, new_task, stdin)
  BY <1>1, <1>2, ExitLeaves
<1>4. state'[init] = "TERMINATED"
  BY <1>1 DEF Safe, SafeAt, LocalsAt, ExitState, RealParent
<1>5. /\ ListedAt(state, parent)' /\ RunsAt(state, pc, new_task)'
      /\ TreeAt(state, parent, children, pc, new_task)'
  BY <1>1, <1>3 DEF SafeAt, ListedAt, RunsAt, TreeAt
<1>6. /\ ZombieAt(state, parent, children, pc, want)' /\ KeptAt(state, parent)'
      /\ WaitAt(state, children, wait_kind, want, stdin)'
  BY <1>1, <1>3 DEF SafeAt, ZombieAt, KeptAt, WaitAt
<1>7. LocalsAt(state, parent, pc, wait_kind, want, new_task)'
  BY <1>1, <1>3 DEF SafeAt, LocalsAt
<1> QED BY <1>1, <1>4, <1>5, <1>6, <1>7 DEF Safe, SafeAt, User

\* Every step keeps the invariant.
LEMMA StepSafe == TypeOK /\ Safe /\ [Next]_vars => Safe'
<1> SUFFICES ASSUME TypeOK, Safe, [Next]_vars PROVE Safe'
  OBVIOUS
<1> USE TaskAssumption DEF TypeOK
<1>1. CASE isr_pit BY <1>1, PitSafe
<1>2. CASE isr_keyboard BY <1>2, KeyboardSafe
<1>3. ASSUME NEW u \in User, Syscall(u) PROVE Safe'
  <2>1. CASE sys_yield(u)
    BY <2>1, TriggerSafe DEF sys_yield
  <2>2. ASSUME NEW ms \in 0..MAX_SLEEP, sys_sleep(u, ms) PROVE Safe'
    <3>1. "SLEEP" \in WaitKind /\ "sleep" \in Place
      BY DEF WaitKind, Place, Parked
    <3> QED BY <2>2, <3>1, BlockSafe DEF sys_sleep, Running
  <2>3. CASE sys_read(u)
    BY <2>3, ReadSafe DEF sys_read, Running
  <2>4. ASSUME NEW pid \in {ANY} \cup Task, sys_waitpid(u, pid) PROVE Safe'
    BY <2>4, WaitpidSafe DEF sys_waitpid, Running
  <2>5. ASSUME NEW t \in User, sys_spawn(u, t) PROVE Safe'
    BY <2>5, SpawnSafe
  <2>6. CASE task_exit(u)
    BY <2>6, ExitSafe
  <2> QED BY <1>3, <2>1, <2>2, <2>3, <2>4, <2>5, <2>6 DEF Syscall
<1>4. ASSUME NEW u \in User, Resume(u) PROVE Safe'
  <2>1. CASE SleepReturn(u)
    BY <2>1, PlaceSafe DEF SleepReturn, ReturnToUser, Running, treeVars
  <2>2. CASE ReadResume(u)
    BY <2>2, ReadSafe DEF ReadResume, Running
  <2>3. CASE WaitpidResume(u)
    <3>1. want[u] \in Task \cup {NULL, ANY}
      BY DEF User
    <3> QED BY <2>3, <3>1, WaitpidSafe DEF WaitpidResume, Running
  <2> QED BY <1>4, <2>1, <2>2, <2>3 DEF Resume
<1>5. CASE InitStep
  <2>1. ASSUME NEW t \in User, InitCreate(t) PROVE Safe'
    BY <2>1, InitCreateSafe
  <2>2. CASE InitTrigger
    <3>1. [pc EXCEPT ![init] = "scan"] \in [Task -> Place]
      BY DEF Place, InitPlace
    <3> QED BY <2>2, <3>1, TriggerSafe DEF InitTrigger, InitAt
  <2>3. CASE InitExit BY <2>3, InitExitSafe
  <2>4. CASE InitExitLoop BY <2>4, TriggerSafe DEF InitExitLoop
  <2> QED BY <1>5, <2>1, <2>2, <2>3, <2>4, InitLocalSafe DEF InitStep
<1>6. CASE UNCHANGED vars
  BY <1>6 DEF vars, Safe, SafeAt, ListedAt, RunsAt, TreeAt, ZombieAt, KeptAt,
              WaitAt, LocalsAt
<1> QED BY <1>1, <1>2, <1>3, <1>4, <1>5, <1>6 DEF Next

-----------------------------------------------------------------------------
(* The theorems. *)

\* IInv is an inductive invariant of the specification.
THEOREM Inductive == Spec => []IInv
<1>1. Init => IInv
  <2> SUFFICES ASSUME Init PROVE IInv
    OBVIOUS
  <2> USE TaskAssumption DEF Init
  <2>1. TypeOK
    <3>1. /\ state \in [Task -> TaskState] /\ wait_kind \in [Task -> WaitKind]
          /\ pc \in [Task -> Place]
      BY DEF TaskState, WaitKind, Place, InitPlace
    <3>2. task_list \in SUBSET Task /\ behind \in [Task -> SUBSET Task]
      OBVIOUS
    <3>3. sleep_left \in [Task -> 0..MAX_SLEEP]
      OBVIOUS
    <3>4. ticks_remaining \in [Task -> 0..TIMESLICE]
      OBVIOUS
    <3>5. parent \in [Task -> Task \cup {NULL}] /\ children \in [Task -> SUBSET Task]
      OBVIOUS
    <3>6. want \in [Task -> Task \cup {NULL, ANY}]
      OBVIOUS
    <3>7. current_task \in Task /\ new_task \in Task \cup {NULL} /\ stdin \in BOOLEAN
      OBVIOUS
    <3> HIDE TaskAssumption DEF Init
    <3> QED BY <3>1, <3>2, <3>3, <3>4, <3>5, <3>6, <3>7 DEF TypeOK
  <2>2. Listed /\ OnlyCurrentRuns
    <3>1. Listed
      BY DEF Listed, User
    <3>2. OnlyCurrentRuns
      BY DEF OnlyCurrentRuns
    <3> QED BY <3>1, <3>2
  <2>3. TreeIntact /\ ZombieHasCollector /\ ChildrenKept
    BY DEF TreeIntact, ZombieHasCollector, ChildrenKept, RealParent
  <2>4. InitLocals
    BY DEF InitLocals, InitPlace, Creating, HasShell
  <2>5. NoLostWakeup
    BY DEF NoLostWakeup, User
  <2> QED BY <2>1, <2>2, <2>3, <2>4, <2>5 DEF IInv
<1>2. IInv /\ [Next]_vars => IInv'
  <2> SUFFICES ASSUME IInv, [Next]_vars PROVE IInv'
    OBVIOUS
  <2>1. TypeOK /\ InitLocals
    BY DEF IInv
  <2>2. Safe
    BY <2>1, SafeNow
  <2>3. TypeOK' /\ Safe'
    BY <2>1, <2>2, StepType, StepSafe
  <2>4. (TypeOK => (IInv <=> Safe))'
    BY SafeNow, PTL
  <2> QED BY <2>3, <2>4
<1> QED BY <1>1, <1>2, PTL DEF Spec

\* Type correctness, for every set of tasks, quantum and sleep bound.
THEOREM TypeCorrect == Spec => []TypeOK
<1>1. IInv => TypeOK
  BY DEF IInv
<1> QED BY <1>1, Inductive, PTL

\* No task but the current one runs, and it is allocated and loaded.
THEOREM OnlyCurrentRunsAlways == Spec => []OnlyCurrentRuns
<1>1. IInv => OnlyCurrentRuns
  BY DEF IInv
<1> QED BY <1>1, Inductive, PTL

\* The process tree never holds a dangling pointer.
THEOREM TreeIntactAlways == Spec => []TreeIntact
<1>1. IInv => TreeIntact
  BY DEF IInv
<1> QED BY <1>1, Inductive, PTL

\* No zombie is ever left without somebody to collect it.
THEOREM ZombieHasCollectorAlways == Spec => []ZombieHasCollector
<1>1. IInv => ZombieHasCollector
  BY DEF IInv
<1> QED BY <1>1, Inductive, PTL

\* No system call parks on an event that has already happened.
THEOREM NoLostWakeupAlways == Spec => []NoLostWakeup
<1>1. IInv => NoLostWakeup
  BY DEF IInv
<1> QED BY <1>1, Inductive, PTL

-----------------------------------------------------------------------------
(* TaskSched implements ProcTree. *)

\* Life and Up of the task fields a handler has when it calls scheduler().
LifeAt(st, par, pl) ==
    [t \in Task |-> IF st[t] = "ZOMBIE" /\ par[t] # NULL THEN "zombie"
                    ELSE IF st[t] \in {"READY", "RUNNING", "WAITING"} /\ pl[t] # "none"
                         THEN "alive"
                    ELSE "gone"]
UpAt(st, par, pl) ==
    [t \in Task |-> IF LifeAt(st, par, pl)[t] = "gone" THEN NULL ELSE par[t]]

\* What the refinement needs beyond IInv: a task that is not loaded has no place
\* in any code, so the structure that task_create lists as RUNNING is not alive.
PlacesKept ==
    /\ \A t \in Task : state[t] = "FREE" => pc[t] = "none"
    /\ pc[init] = "created" => pc[new_task] = "none"

\* The tree of the present fields.
LEMMA LifeNow == Life = LifeAt(state, parent, pc) /\ Up = UpAt(state, parent, pc)
BY DEF Life, Up, LifeAt, UpAt

\* Reaping and switching are invisible in the tree.
LEMMA SchedulerStutters ==
    ASSUME TypeOK,
           NEW st \in [Task -> TaskState],
           NEW par \in [Task -> Task \cup {NULL}],
           NEW ch \in [Task -> SUBSET Task],
           NEW places \in [Task -> Place],
           st[idle] = "RUNNING",
           scheduler(st, par, ch, places)
    PROVE  Life' = LifeAt(st, par, places) /\ Up' = UpAt(st, par, places)
<1>1. ASSUME NEW t \in Task PROVE Life'[t] = LifeAt(st, par, places)[t]
  BY SchedulerMoves DEF Life, LifeAt
<1>2. Life' = LifeAt(st, par, places)
  BY <1>1 DEF Life, LifeAt
<1>3. ASSUME NEW t \in Task PROVE Up'[t] = UpAt(st, par, places)[t]
  <2>1. Up'[t] = IF Life'[t] = "gone" THEN NULL ELSE parent'[t]
    BY DEF Up
  <2>2. UpAt(st, par, places)[t] = IF LifeAt(st, par, places)[t] = "gone" THEN NULL ELSE par[t]
    BY DEF UpAt
  <2>3. LifeAt(st, par, places)[t] # "gone" => parent'[t] = par[t]
    BY SchedulerMoves DEF LifeAt
  <2> QED
    BY <1>1, <2>1, <2>2, <2>3
<1>4. Up' = UpAt(st, par, places)
  BY <1>3 DEF Up, UpAt
<1> QED
  BY <1>2, <1>4

\* A scheduling step whose caller changed nothing the tree shows.
LEMMA SchedulerQuiet ==
    ASSUME TypeOK, Safe,
           NEW st \in [Task -> TaskState],
           NEW places \in [Task -> Place],
           scheduler(st, parent, children, places),
           \A t \in Task :
              /\ \/ st[t] = state[t]
                 \/ /\ st[t] \in {"READY", "WAITING"}
                    /\ state[t] \in {"RUNNING", "WAITING"} /\ t # idle
              /\ places[t] = "none" <=> pc[t] = "none"
    PROVE  Life' = Life /\ Up' = Up
<1>1. state[idle] = "RUNNING" /\ idle \in Task
  BY TaskAssumption DEF Safe, SafeAt, ListedAt
<1>2. Life' = LifeAt(st, parent, places) /\ Up' = UpAt(st, parent, places)
  BY <1>1, SchedulerStutters DEF TypeOK
<1>3. LifeAt(st, parent, places) = LifeAt(state, parent, pc)
  BY DEF LifeAt
<1>4. UpAt(st, parent, places) = UpAt(state, parent, pc)
  BY <1>3 DEF UpAt
<1> QED
  BY <1>2, <1>3, <1>4, LifeNow

\* A step without scheduling that changes nothing the tree shows.
LEMMA FieldsQuiet ==
    ASSUME \A t \in Task :
              LifeAt(state', parent', pc')[t] = LifeAt(state, parent, pc)[t],
           \A t \in Task : LifeAt(state, parent, pc)[t] # "gone" => parent'[t] = parent[t]
    PROVE  Life' = Life /\ Up' = Up
<1>1. LifeAt(state', parent', pc') = LifeAt(state, parent, pc)
  BY DEF LifeAt
<1>2. UpAt(state', parent', pc') = UpAt(state, parent, pc)
  BY <1>1 DEF UpAt
<1>3. Life' = LifeAt(state', parent', pc') /\ Up' = UpAt(state', parent', pc')
  BY DEF Life, Up, LifeAt, UpAt
<1> QED
  BY <1>1, <1>2, <1>3, LifeNow

-----------------------------------------------------------------------------

\* PlacesKept of the fields a handler has when it calls scheduler().
PlacesAt(st, pl, nt) ==
    /\ \A t \in Task : st[t] = "FREE" => pl[t] = "none"
    /\ pl[init] = "created" => pl[nt] = "none"

\* Reaping clears the place of what it frees.
LEMMA SchedulerPlaces ==
    ASSUME TypeOK, new_task' \in Task \cup {NULL},
           NEW st \in [Task -> TaskState],
           NEW par \in [Task -> Task \cup {NULL}],
           NEW ch \in [Task -> SUBSET Task],
           NEW places \in [Task -> Place],
           places[init] = "created" => new_task' \in Task,
           st[idle] = "RUNNING", PlacesAt(st, places, new_task'),
           scheduler(st, par, ch, places)
    PROVE  PlacesKept'
<1>1. ASSUME NEW t \in Task, state'[t] = "FREE" PROVE pc'[t] = "none"
  BY <1>1, SchedulerMoves DEF PlacesAt
<1>2. ASSUME pc'[init] = "created" PROVE pc'[new_task'] = "none"
  <2>1. places[init] = "created"
    BY <1>2, SchedulerMoves, TaskAssumption
  <2> QED
    BY <2>1, SchedulerMoves DEF PlacesAt
<1> QED
  BY <1>1, <1>2 DEF PlacesKept

\* PlacesKept is inductive.
LEMMA PlacesStep ==
    ASSUME TypeOK, Safe, PlacesKept, [Next]_vars PROVE PlacesKept'
<1> USE TaskAssumption
<1>1. /\ state[idle] = "RUNNING"
      /\ pc[init] = "created" => new_task \in User /\ new_task # current_task
      /\ current_task \in User => state[current_task] = "RUNNING"
  BY DEF Safe, SafeAt, ListedAt, LocalsAt, Creating
<1>2. ASSUME isr_pit PROVE PlacesKept'
  <2> DEFINE left == [t \in Task |-> IF sleep_left[t] > 0 THEN sleep_left[t] - 1 ELSE 0]
             due  == {t \in task_list : /\ state[t] = "WAITING"
                                        /\ wait_kind[t] = "SLEEP"
                                        /\ left[t] = 0}
             st == [t \in Task |-> IF t \in due THEN "READY" ELSE state[t]]
  <2>1. st \in [Task -> TaskState] /\ st[idle] = "RUNNING" /\ PlacesAt(st, pc, new_task)
    BY <1>1 DEF TypeOK, TaskState, PlacesAt, PlacesKept
  <2>2. scheduler(st, parent, children, pc) /\ new_task' = new_task
    BY <1>2 DEF isr_pit
  <2> HIDE DEF st
  <2> QED
    BY <1>1, <2>1, <2>2, SchedulerPlaces DEF TypeOK, User
<1>3. ASSUME isr_keyboard PROVE PlacesKept'
  BY <1>3 DEF isr_keyboard, PlacesKept, TypeOK
\* A system call that gives up the CPU.
<1>4. ASSUME NEW u \in User, u = current_task, NEW s \in {"WAITING", "RUNNING"},
             NEW place \in Place \ {"created"},
             scheduler([state EXCEPT ![u] = s], parent, children, [pc EXCEPT ![u] = place]),
             new_task' = new_task
      PROVE  PlacesKept'
  <2> DEFINE st == [state EXCEPT ![u] = s]
             pl == [pc EXCEPT ![u] = place]
  <2>1. /\ st \in [Task -> TaskState] /\ st[idle] = "RUNNING" /\ pl \in [Task -> Place]
        /\ pl[init] = "created" => new_task \in Task
    BY <1>1 DEF TypeOK, TaskState, User
  <2>2. PlacesAt(st, pl, new_task)
    BY <1>1, <1>4 DEF PlacesAt, PlacesKept, TypeOK, User
  <2> HIDE DEF st, pl
  <2> QED
    BY <1>4, <2>1, <2>2, SchedulerPlaces DEF TypeOK, User, st, pl
<1>5. ASSUME NEW u \in User, sys_yield(u) PROVE PlacesKept'
  <2>1. state = [state EXCEPT ![u] = "RUNNING"] /\ pc = [pc EXCEPT ![u] = "user"]
    BY <1>1, <1>5 DEF sys_yield, Running, TypeOK
  <2> QED
    BY <1>4, <1>5, <2>1 DEF sys_yield, Running, scheduler_trigger, Place
<1>6. ASSUME NEW u \in User, NEW ms \in 0..MAX_SLEEP, sys_sleep(u, ms) PROVE PlacesKept'
  BY <1>4, <1>6 DEF sys_sleep, Running, Place, Parked
\* One that returns to user mode, or comes back to it.
<1>7. ASSUME NEW u \in User, u = current_task, ReturnToUser(u), new_task' = new_task,
             state' \in [Task -> TaskState], \A t \in Task : state'[t] = "FREE" => state[t] = "FREE"
      PROVE  PlacesKept'
  BY <1>1, <1>7 DEF ReturnToUser, PlacesKept, TypeOK, User
<1>8. ASSUME NEW u \in User, SleepReturn(u) PROVE PlacesKept'
  BY <1>7, <1>8 DEF SleepReturn, Running, TypeOK
<1>9. ASSUME NEW u \in User, ReadLoop(u), current_task = u PROVE PlacesKept'
  <2>1. CASE ReturnToUser(u) /\ UNCHANGED <<state, new_task>>
    BY <1>7, <1>9, <2>1 DEF TypeOK
  <2>2. CASE task_block(u, "INPUT", "read") /\ UNCHANGED new_task
    BY <1>4, <1>9, <2>2 DEF task_block, Place, Parked
  <2> QED
    BY <1>9, <2>1, <2>2 DEF ReadLoop
<1>10. ASSUME NEW u \in User, NEW pid, WaitpidLoop(u, pid), current_task = u PROVE PlacesKept'
  <2>1. CASE ReturnToUser(u) /\ UNCHANGED <<state, new_task>>
    BY <1>7, <1>10, <2>1 DEF TypeOK
  <2>2. ASSUME NEW z \in Task, state' = [state EXCEPT ![z] = "TERMINATED"],
               ReturnToUser(u), UNCHANGED new_task
        PROVE  PlacesKept'
    <3>1. state' \in [Task -> TaskState] /\ \A t \in Task : state'[t] = "FREE" => state[t] = "FREE"
      BY <2>2 DEF TypeOK, TaskState
    <3> QED
      BY <1>7, <1>10, <2>2, <3>1
  <2>3. CASE task_block(u, "CHILD", "waitpid") /\ UNCHANGED new_task
    BY <1>4, <1>10, <2>3 DEF task_block, Place, Parked
  <2> QED
    BY <1>10, <2>1, <2>2, <2>3 DEF WaitpidLoop, Zombies, Matches, TypeOK
<1>11. ASSUME NEW u \in User, NEW t \in User, sys_spawn(u, t) PROVE PlacesKept'
  <2>1. state[t] = "FREE" /\ new_task' = new_task /\ t \in Task /\ t # init
    BY <1>11 DEF sys_spawn, task_create, Fresh, User
  <2>2. pc[init] = "created" => state[new_task] = "RUNNING" /\ new_task # t
    BY <2>1 DEF Safe, SafeAt, LocalsAt, Creating
  <2>3. \/ pc' = [pc EXCEPT ![t] = "user"] /\ state' = [state EXCEPT ![t] = "READY"]
        \/ pc' = pc /\ state' = [state EXCEPT ![t] = "TERMINATED"]
    BY <1>11 DEF sys_spawn
  <2> QED
    BY <1>1, <2>1, <2>2, <2>3 DEF PlacesKept, TypeOK, User
<1>12. ASSUME NEW u \in User, task_exit(u) PROVE PlacesKept'
  <2> DEFINE st == ExitState(u)
             pl == [pc EXCEPT ![u] = "exit"]
  <2>1. /\ st \in [Task -> TaskState] /\ st[idle] = "RUNNING"
        /\ \A t \in Task : st[t] = "FREE" => state[t] = "FREE"
    BY <1>1 DEF ExitState, Zombies, WakesParent, TypeOK, TaskState, User
  <2>2. pl \in [Task -> Place] /\ PlacesAt(st, pl, new_task) /\ (pl[init] = "created" => new_task \in Task)
    <3> HIDE DEF st
    <3> QED
      BY <1>1, <1>12, <2>1 DEF PlacesAt, PlacesKept, TypeOK, User, task_exit, Running, Place, Parked
  <2>3. /\ ExitParent(u) \in [Task -> Task \cup {NULL}]
        /\ ExitChildren(u) \in [Task -> SUBSET Task]
    BY DEF ExitParent, ExitChildren, TypeOK, User
  <2>4. scheduler(st, ExitParent(u), ExitChildren(u), pl) /\ new_task' = new_task
    BY <1>12 DEF task_exit
  <2> HIDE DEF st, pl
  <2> QED
    BY <2>1, <2>2, <2>3, <2>4, SchedulerPlaces DEF TypeOK
<1>13. ASSUME InitStep PROVE PlacesKept'
  <2>1. ASSUME NEW t \in User, InitCreate(t) PROVE PlacesKept'
    BY <2>1 DEF InitCreate, InitAt, InitGoto, task_create, Fresh, PlacesKept, TypeOK, User
  <2>2. CASE InitTrigger \/ InitExitLoop
    <3>1. PICK pl \in [Task -> Place] : /\ scheduler(state, parent, children, pl) /\ new_task' = new_task
                                       /\ pl[init] # "created" /\ PlacesAt(state, pl, new_task)
      <4>1. CASE InitTrigger
        <5> DEFINE pl == [pc EXCEPT ![init] = "scan"]
        <5>1. pc[init] = "int48" /\ scheduler(state, parent, children, pl) /\ new_task' = new_task
          BY <4>1 DEF InitTrigger, InitAt, scheduler_trigger
        <5>2. pl \in [Task -> Place] /\ pl[init] # "created" /\ PlacesAt(state, pl, new_task)
          BY <5>1 DEF PlacesAt, PlacesKept, TypeOK, Place, InitPlace
        <5> QED
          BY <5>1, <5>2
      <4>2. CASE InitExitLoop
        BY <4>2 DEF InitExitLoop, InitAt, scheduler_trigger, PlacesAt, PlacesKept, TypeOK
      <4> QED
        BY <2>2, <4>1, <4>2
    <3> QED
      BY <1>1, <3>1, SchedulerPlaces DEF TypeOK
  <2>3. CASE InitSetReady
    <3>1. /\ pc[init] = "ready" /\ new_task \in User
          /\ pc' = [pc EXCEPT ![init] = "scan", ![new_task] = "user"]
          /\ state' = [state EXCEPT ![new_task] = IF @ = "NEW" THEN "READY" ELSE @]
          /\ state[new_task] = "NEW"
      BY <2>3 DEF InitSetReady, InitAt, Safe, SafeAt, LocalsAt, Creating
    <3> QED
      BY <3>1 DEF PlacesKept, TypeOK, User
  <2>4. CASE InitExit
    <3>1. pc' = [pc EXCEPT ![init] = "halted"] /\ pc[init] = "halt"
      BY <2>4 DEF InitExit, InitAt, InitGoto
    <3>2. \A t \in Task : state'[t] = "FREE" => state[t] = "FREE"
      BY <2>4 DEF InitExit, ExitState
    <3> QED
      BY <3>1, <3>2 DEF PlacesKept, TypeOK
  <2>5. CASE InitCannotSpawn \/ InitSetParent \/ InitLink \/ InitScan \/ InitUnlink \/ InitSetWaitKind
    <3>1. PICK place \in Place : pc' = [pc EXCEPT ![init] = place] /\ place # "created"
      BY <2>5 DEF InitCannotSpawn, InitSetParent, InitLink, InitScan, InitUnlink, InitSetWaitKind,
                  InitGoto, Place, InitPlace
    <3>2. state' = state /\ pc[init] # "none"
      BY <2>5 DEF InitCannotSpawn, InitSetParent, InitLink, InitScan, InitUnlink, InitSetWaitKind,
                  InitAt
    <3> QED
      BY <3>1, <3>2 DEF PlacesKept, TypeOK
  <2>6. CASE InitStoreNew \/ InitLoad \/ InitCollect \/ InitSetWaiting
    <3>1. PICK place \in Place : pc' = [pc EXCEPT ![init] = place] /\ place # "created"
      BY <2>6 DEF InitStoreNew, InitLoad, InitCollect, InitSetWaiting, InitGoto, Place, InitPlace
    <3>2. /\ \A t \in Task : state'[t] = "FREE" => state[t] = "FREE"
          /\ pc[init] # "none"
      BY <2>6 DEF InitStoreNew, InitLoad, InitCollect, InitSetWaiting, InitAt, TypeOK
    <3> QED
      BY <3>1, <3>2 DEF PlacesKept, TypeOK
  <2> QED
    BY <1>13, <2>1, <2>2, <2>3, <2>4, <2>5, <2>6 DEF InitStep
<1>14. CASE UNCHANGED vars
  BY <1>14 DEF vars, PlacesKept
<1> QED
  BY <1>2, <1>3, <1>5, <1>6, <1>8, <1>9, <1>10, <1>11, <1>12, <1>13, <1>14
     DEF Next, Syscall, Resume, sys_read, ReadResume, sys_waitpid, WaitpidResume, Running

-----------------------------------------------------------------------------

\* The running task is alive, and it may spawn, collect and exit.
LEMMA CurrentAlive ==
    ASSUME TypeOK, Safe
    PROVE  /\ \A u \in User : current_task = u /\ pc[u] # "none" =>
                 Life[u] = "alive" /\ Up[u] = parent[u] /\ state[u] = "RUNNING"
           /\ pc[init] \notin {"none", "halted"} =>
                 /\ Life[init] = "alive" /\ Up[init] = NULL
                 /\ state[init] \in {"READY", "RUNNING", "WAITING"}
<1>1. ASSUME NEW u \in User, current_task = u, pc[u] # "none"
      PROVE  Life[u] = "alive" /\ Up[u] = parent[u] /\ state[u] = "RUNNING"
  BY <1>1 DEF Safe, Life, Up, User
<1>2. ASSUME pc[init] \notin {"none", "halted"}
      PROVE  /\ Life[init] = "alive" /\ Up[init] = NULL
             /\ state[init] \in {"READY", "RUNNING", "WAITING"}
  <2>1. parent[init] = NULL /\ state[init] \in {"READY", "RUNNING", "WAITING"}
    BY <1>2 DEF Safe, SafeAt, LocalsAt
  <2> QED
    BY <1>2, <2>1, TaskAssumption DEF Life, Up
<1> QED
  BY <1>1, <1>2

\* A step that leaves the tree alone.
Quiet == Life' = Life /\ Up' = Up

\* Ticks and key presses.
LEMMA InterruptsImplement ==
    ASSUME TypeOK, Safe, isr_pit \/ isr_keyboard PROVE Quiet
<1>1. CASE isr_pit
  <2> DEFINE left == [t \in Task |-> IF sleep_left[t] > 0 THEN sleep_left[t] - 1 ELSE 0]
             due  == {t \in task_list : /\ state[t] = "WAITING"
                                        /\ wait_kind[t] = "SLEEP"
                                        /\ left[t] = 0}
             st == [t \in Task |-> IF t \in due THEN "READY" ELSE state[t]]
  <2>1. state[idle] = "RUNNING"
    BY DEF Safe, SafeAt, ListedAt
  <2>2. /\ st \in [Task -> TaskState]
        /\ \A t \in Task : \/ st[t] = state[t]
                           \/ st[t] = "READY" /\ state[t] = "WAITING" /\ t # idle
    BY <2>1 DEF TypeOK, TaskState
  <2>3. scheduler(st, parent, children, pc)
    BY <1>1 DEF isr_pit
  <2> HIDE DEF st
  <2> QED
    BY <2>2, <2>3, SchedulerQuiet DEF TypeOK, Quiet
<1>2. CASE isr_keyboard
  <2>1. /\ parent' = parent /\ pc' = pc
        /\ \A t \in Task : \/ state'[t] = state[t]
                           \/ state'[t] = "READY" /\ state[t] = "WAITING"
    BY <1>2 DEF isr_keyboard, treeVars
  <2> QED
    BY <2>1, FieldsQuiet DEF LifeAt, Quiet
<1> QED
  BY <1>1, <1>2

\* Parking, yielding and coming back.
LEMMA BlockImplements ==
    ASSUME TypeOK, Safe, NEW u \in User, u = current_task, pc[u] # "none",
           NEW place \in Place \ {"none"},
           scheduler([state EXCEPT ![u] = "WAITING"], parent, children, [pc EXCEPT ![u] = place])
    PROVE  Quiet
<1> DEFINE st == [state EXCEPT ![u] = "WAITING"]
           pl == [pc EXCEPT ![u] = place]
<1>1. state[u] = "RUNNING" /\ u # idle /\ u \in Task
  BY CurrentAlive DEF User
<1>2. st \in [Task -> TaskState] /\ pl \in [Task -> Place]
  BY DEF TypeOK, TaskState
<1>3. \A t \in Task :
         /\ \/ st[t] = state[t]
            \/ /\ st[t] \in {"READY", "WAITING"}
               /\ state[t] \in {"RUNNING", "WAITING"} /\ t # idle
         /\ pl[t] = "none" <=> pc[t] = "none"
  BY <1>1 DEF TypeOK
<1>4. scheduler(st, parent, children, pl)
  OBVIOUS
<1> HIDE DEF st, pl
<1> QED
  BY <1>2, <1>3, <1>4, SchedulerQuiet DEF Quiet

\* A system call returns.
LEMMA ReturnImplements ==
    ASSUME TypeOK, NEW u \in User, pc[u] # "none", ReturnToUser(u), UNCHANGED <<state, parent>>
    PROVE  Quiet
<1>1. \A t \in Task : pc'[t] = "none" <=> pc[t] = "none"
  BY DEF ReturnToUser, TypeOK
<1> QED
  BY <1>1, FieldsQuiet DEF LifeAt, Quiet

\* A zombie leaves the tree when its parent pointer is cleared.
LEMMA CollectImplements ==
    ASSUME TypeOK, NEW p \in Task, NEW z \in Task, p # z,
           Life[p] = "alive", state[z] = "ZOMBIE", parent[z] = p,
           parent' = [parent EXCEPT ![z] = NULL],
           \/ state' = state
           \/ state' = [state EXCEPT ![z] = "TERMINATED"],
           \A t \in Task : pc'[t] = "none" <=> pc[t] = "none"
    PROVE  Tree!Collect(p, z)
<1> USE TaskAssumption
<1>1. parent[z] # NULL /\ Life[z] = "zombie" /\ Up[z] = p
  BY DEF Life, Up
<1>2. \A t \in Task : t # z => state'[t] = state[t] /\ parent'[t] = parent[t]
  BY DEF TypeOK
<1>3. parent'[z] = NULL /\ (state'[z] = "ZOMBIE" \/ state'[z] = "TERMINATED")
  BY DEF TypeOK
<1>4. Life' = [Life EXCEPT ![z] = "gone"]
  <2>1. ASSUME NEW t \in Task PROVE Life'[t] = IF t = z THEN "gone" ELSE Life[t]
    BY <1>2, <1>3 DEF Life
  <2>2. Life = [t \in Task |-> Life[t]] /\ Life' = [t \in Task |-> Life'[t]]
    BY DEF Life
  <2> QED
    BY <2>1, <2>2
<1>5. Up' = [Up EXCEPT ![z] = NULL]
  <2>1. \A t \in Task : Life'[t] = IF t = z THEN "gone" ELSE Life[t]
    BY <1>4 DEF Life
  <2>2. ASSUME NEW t \in Task PROVE Up'[t] = IF t = z THEN NULL ELSE Up[t]
    <3>1. Up'[t] = IF Life'[t] = "gone" THEN NULL ELSE parent'[t]
      BY DEF Up
    <3>2. Up[t] = IF Life[t] = "gone" THEN NULL ELSE parent[t]
      BY DEF Up
    <3> QED
      BY <1>2, <2>1, <3>1, <3>2
  <2>3. Up = [t \in Task |-> Up[t]] /\ Up' = [t \in Task |-> Up'[t]]
    BY DEF Up
  <2> QED
    BY <2>2, <2>3
<1> QED
  BY <1>1, <1>4, <1>5 DEF Tree!Collect

\* A task joins the tree when it becomes READY.
LEMMA StartImplements ==
    ASSUME TypeOK, NEW p \in Task \ {idle}, NEW c \in Task,
           Life[p] = "alive", Life[c] = "gone",
           parent' = [parent EXCEPT ![c] = p], state' = [state EXCEPT ![c] = "READY"],
           \A t \in Task \ {c} : pc'[t] = "none" <=> pc[t] = "none",
           pc'[c] # "none"
    PROVE  Tree!Start(p, c)
<1> USE TaskAssumption
<1>1. \A t \in Task : t # c => state'[t] = state[t] /\ parent'[t] = parent[t]
  BY DEF TypeOK
<1>2. parent'[c] = p /\ state'[c] = "READY"
  BY DEF TypeOK
<1>3. Life' = [Life EXCEPT ![c] = "alive"]
  BY <1>1, <1>2 DEF Life
<1>4. Up' = [Up EXCEPT ![c] = p]
  <2>1. \A t \in Task : Life'[t] = IF t = c THEN "alive" ELSE Life[t]
    BY <1>3 DEF Life
  <2>2. ASSUME NEW t \in Task PROVE Up'[t] = IF t = c THEN p ELSE Up[t]
    <3>1. Up'[t] = IF Life'[t] = "gone" THEN NULL ELSE parent'[t]
      BY DEF Up
    <3>2. Up[t] = IF Life[t] = "gone" THEN NULL ELSE parent[t]
      BY DEF Up
    <3> QED
      BY <1>1, <1>2, <2>1, <3>1, <3>2
  <2>3. Up = [t \in Task |-> Up[t]] /\ Up' = [t \in Task |-> Up'[t]]
    BY DEF Up
  <2> QED
    BY <2>2, <2>3
<1> QED
  BY <1>3, <1>4 DEF Tree!Start

\* task_exit, with the scheduler call of a system call or without.
LEMMA ExitImplements ==
    ASSUME TypeOK, Safe, NEW u \in Task \ {idle}, Life[u] = "alive",
           parent[u] # u, u # new_task,
           NEW pl \in [Task -> Place],
           \A t \in Task \ {u} : pl[t] = "none" <=> pc[t] = "none",
           Life' = LifeAt(ExitState(u), ExitParent(u), pl),
           Up' = UpAt(ExitState(u), ExitParent(u), pl),
           u = init => pc[init] \notin Creating
    PROVE  Tree!Exit(u)
<1> USE TaskAssumption
<1>1. /\ \A t \in Task : t \in children[u] => parent[t] = u
      /\ \A t \in Task : parent[t] = u /\ Life[t] # "gone" => t \in children[u]
  <2>1. \A t \in Task : t \in children[u] => parent[t] = u
    BY DEF Safe, SafeAt, TreeAt
  <2>2. ASSUME NEW t \in Task, parent[t] = u, Life[t] # "gone" PROVE t \in children[u]
    <3>1. t \in children[u] \/ (t = new_task /\ pc[init] = "link")
      BY <2>2 DEF Safe, SafeAt, TreeAt
    <3>2. t = new_task /\ pc[init] = "link" => Life[t] = "gone"
      BY DEF Safe, SafeAt, LocalsAt, Creating, Life
    <3> QED
      BY <2>2, <3>1, <3>2
  <2> QED
    BY <2>1, <2>2
<1>2. Up[u] = parent[u] /\ u \notin children[u]
  BY <1>1 DEF Up
<1> DEFINE kept == Up[u] \notin {NULL, idle}
<1>3. kept <=> RealParent(u)
  BY <1>2 DEF RealParent
<1>4. ASSUME NEW t \in Task \ {u}
      PROVE  /\ Life'[t] = IF Up[t] = u /\ Life[t] = "zombie" THEN "gone" ELSE Life[t]
             /\ Up'[t] = IF Up[t] = u THEN IF Life[t] = "zombie" THEN NULL ELSE idle ELSE Up[t]
  <2>0. /\ ExitParent(u)[t] = IF t \in children[u] THEN idle ELSE parent[t]
        /\ ExitState(u)[t] = IF t \in Zombies(children[u]) THEN "TERMINATED"
                             ELSE IF WakesParent(u) /\ t = parent[u] THEN "READY"
                             ELSE state[t]
    BY DEF ExitParent, ExitState
  <2>1. /\ Life'[t] = IF ExitState(u)[t] = "ZOMBIE" /\ ExitParent(u)[t] # NULL THEN "zombie"
                      ELSE IF ExitState(u)[t] \in {"READY", "RUNNING", "WAITING"} /\ pl[t] # "none"
                           THEN "alive"
                      ELSE "gone"
        /\ Up'[t] = IF Life'[t] = "gone" THEN NULL ELSE ExitParent(u)[t]
    BY DEF LifeAt, UpAt
  <2>2. /\ Life[t] = IF state[t] = "ZOMBIE" /\ parent[t] # NULL THEN "zombie"
                     ELSE IF state[t] \in {"READY", "RUNNING", "WAITING"} /\ pc[t] # "none"
                          THEN "alive"
                     ELSE "gone"
        /\ Up[t] = IF Life[t] = "gone" THEN NULL ELSE parent[t]
        /\ pl[t] = "none" <=> pc[t] = "none"
    BY DEF Life, Up
  <2>3. CASE t \in Zombies(children[u])
    <3>1. t \in children[u] /\ state[t] = "ZOMBIE" /\ parent[t] = u
      BY <1>1, <2>3 DEF Zombies
    <3> QED
      BY <2>0, <2>1, <2>2, <2>3, <3>1
  <2>4. CASE t \notin Zombies(children[u]) /\ t \in children[u]
    <3>1. parent[t] = u /\ state[t] # "ZOMBIE"
      BY <1>1, <2>4 DEF Zombies
    <3>2. ExitState(u)[t] = state[t] \/ (ExitState(u)[t] = "READY" /\ state[t] = "WAITING")
      BY <2>0, <2>4 DEF WakesParent
    <3>3. Life'[t] = Life[t] /\ Life[t] # "zombie"
      BY <2>1, <2>2, <3>1, <3>2
    <3> QED
      BY <2>0, <2>1, <2>2, <2>4, <3>1, <3>3
  <2>5. CASE t \notin children[u]
    <3>1. ExitState(u)[t] = state[t] \/ (ExitState(u)[t] = "READY" /\ state[t] = "WAITING")
      BY <2>0, <2>5 DEF WakesParent, Zombies
    <3>2. Life'[t] = Life[t] /\ Up[t] # u
      BY <1>1, <2>0, <2>1, <2>2, <2>5, <3>1
    <3> QED
      BY <2>0, <2>1, <2>2, <2>5, <3>2
  <2> QED
    BY <2>3, <2>4, <2>5
<1>5. /\ Life'[u] = IF kept THEN "zombie" ELSE "gone"
      /\ Up'[u] = IF kept THEN Up[u] ELSE NULL
  <2>1. /\ ExitState(u)[u] = IF kept THEN "ZOMBIE" ELSE "TERMINATED"
        /\ ExitParent(u)[u] = Up[u]
    BY <1>2, <1>3 DEF ExitState, ExitParent
  <2>2. Life'[u] = IF kept THEN "zombie" ELSE "gone"
    BY <2>1 DEF LifeAt
  <2> QED
    BY <2>1, <2>2 DEF UpAt
<1>6. /\ Life' = [t \in Task |-> Life'[t]] /\ Up' = [t \in Task |-> Up'[t]]
  BY DEF Life, Up
<1> HIDE DEF kept
<1>7. Life' = [c \in Task |->
                  IF c = u THEN IF kept THEN "zombie" ELSE "gone"
                  ELSE IF Up[c] = u /\ Life[c] = "zombie" THEN "gone"
                  ELSE Life[c]]
  BY <1>4, <1>5, <1>6
<1>8. Up' = [c \in Task |->
                IF c = u THEN IF kept THEN Up[u] ELSE NULL
                ELSE IF Up[c] = u THEN IF Life[c] = "zombie" THEN NULL ELSE idle
                ELSE Up[c]]
  BY <1>4, <1>5, <1>6
<1> QED
  BY <1>7, <1>8 DEF Tree!Exit, kept

\* The steps of a user task.
LEMMA UserImplements ==
    ASSUME TypeOK, Safe, PlacesKept, NEW u \in User, Syscall(u) \/ Resume(u)
    PROVE  Tree!Next \/ Quiet
<1> USE TaskAssumption
<1>1. /\ u = current_task /\ pc[u] # "none" /\ u \in Task \ {idle} /\ u # init
      /\ Life[u] = "alive" /\ state[u] = "RUNNING"
  <2>1. u = current_task /\ pc[u] # "none"
    BY DEF Syscall, Resume, sys_yield, sys_sleep, sys_read, sys_waitpid, sys_spawn, task_exit,
           SleepReturn, ReadResume, WaitpidResume, Running
  <2> QED
    BY <2>1, CurrentAlive DEF User
<1>2. CASE sys_yield(u)
  <2>1. scheduler(state, parent, children, pc)
    BY <1>2 DEF sys_yield, scheduler_trigger
  <2> QED
    BY <2>1, SchedulerQuiet DEF TypeOK, Quiet
<1>3. ASSUME NEW ms \in 0..MAX_SLEEP, sys_sleep(u, ms) PROVE Quiet
  BY <1>1, <1>3, BlockImplements DEF sys_sleep, Place, Parked
<1>4. CASE SleepReturn(u)
  BY <1>1, <1>4, ReturnImplements DEF SleepReturn, treeVars
<1>5. CASE ReadLoop(u)
  <2>1. CASE ReturnToUser(u) /\ UNCHANGED <<state, parent>>
    BY <1>1, <2>1, ReturnImplements
  <2>2. CASE task_block(u, "INPUT", "read")
    BY <1>1, <2>2, BlockImplements DEF task_block, Place, Parked
  <2> QED
    BY <1>5, <2>1, <2>2 DEF ReadLoop, treeVars
<1>6. ASSUME NEW pid, WaitpidLoop(u, pid) PROVE Tree!Next \/ Quiet
  <2>1. CASE ReturnToUser(u) /\ UNCHANGED <<state, parent>>
    BY <1>1, <2>1, ReturnImplements
  <2>2. ASSUME NEW z \in Zombies(Matches(u, pid)), ReturnToUser(u),
               parent' = [parent EXCEPT ![z] = NULL],
               state' = [state EXCEPT ![z] = "TERMINATED"]
        PROVE  Tree!Next
    <3>1. z \in Task /\ state[z] = "ZOMBIE" /\ z \in children[u]
      BY <1>1, <2>2 DEF Zombies, Matches, TypeOK
    <3>2. parent[z] = u /\ u # z
      BY <1>1, <3>1 DEF Safe, SafeAt, TreeAt
    <3>3. \A t \in Task : pc'[t] = "none" <=> pc[t] = "none"
      BY <1>1, <2>2 DEF ReturnToUser, TypeOK
    <3>4. Tree!Collect(u, z)
      BY <1>1, <2>2, <3>1, <3>2, <3>3, CollectImplements
    <3> QED
      BY <1>1, <3>1, <3>4 DEF Tree!Next
  <2>3. CASE task_block(u, "CHILD", "waitpid")
    BY <1>1, <2>3, BlockImplements DEF task_block, Place, Parked
  <2> QED
    BY <1>6, <2>1, <2>2, <2>3 DEF WaitpidLoop, treeVars
<1>7. ASSUME NEW t \in User, sys_spawn(u, t) PROVE Tree!Next \/ Quiet
  <2>1. t \in Task /\ state[t] = "FREE" /\ Life[t] = "gone"
    BY <1>7 DEF sys_spawn, task_create, Fresh, User, Life
  <2>2. CASE /\ parent' = [parent EXCEPT ![t] = u] /\ state' = [state EXCEPT ![t] = "READY"]
             /\ pc' = [pc EXCEPT ![t] = "user"]
    <3>1. pc'[t] # "none" /\ \A x \in Task \ {t} : pc'[x] = "none" <=> pc[x] = "none"
      BY <2>1, <2>2 DEF TypeOK
    <3>2. Tree!Start(u, t)
      BY <1>1, <2>1, <2>2, <3>1, StartImplements
    <3> QED
      BY <1>1, <2>1, <3>2 DEF Tree!Next
  <2>3. CASE state' = [state EXCEPT ![t] = "TERMINATED"] /\ UNCHANGED <<treeVars, pc>>
    <3>1. \A x \in Task : LifeAt(state', parent', pc')[x] = LifeAt(state, parent, pc)[x]
      BY <2>1, <2>3 DEF TypeOK, LifeAt, treeVars
    <3> QED
      BY <2>3, <3>1, FieldsQuiet DEF Quiet, treeVars
  <2> QED
    BY <1>7, <2>2, <2>3 DEF sys_spawn
<1>8. CASE task_exit(u)
  <2> DEFINE pl == [pc EXCEPT ![u] = "exit"]
  <2>1. /\ ExitState(u) \in [Task -> TaskState] /\ ExitState(u)[idle] = "RUNNING"
        /\ ExitParent(u) \in [Task -> Task \cup {NULL}]
        /\ ExitChildren(u) \in [Task -> SUBSET Task]
    <3>1. state[idle] = "RUNNING"
      BY DEF Safe, SafeAt, ListedAt
    <3>2. ExitState(u) \in [Task -> TaskState] /\ ExitState(u)[idle] = "RUNNING"
      BY <1>1, <3>1 DEF ExitState, Zombies, WakesParent, TypeOK, TaskState
    <3> QED
      BY <1>1, <3>2 DEF ExitParent, ExitChildren, TypeOK
  <2>2. /\ pl \in [Task -> Place]
        /\ \A t \in Task \ {u} : pl[t] = "none" <=> pc[t] = "none"
    BY DEF TypeOK, Place, Parked
  <2>3. scheduler(ExitState(u), ExitParent(u), ExitChildren(u), pl)
    BY <1>8 DEF task_exit
  <2>4. parent[u] # u /\ u # new_task
    <3>1. parent[u] # u
      BY <1>1 DEF Safe, SafeAt, TreeAt, TypeOK
    <3>2. u # new_task
      BY <1>1 DEF Safe, SafeAt, LocalsAt
    <3> QED
      BY <3>1, <3>2
  <2> HIDE DEF pl
  <2>5. /\ Life' = LifeAt(ExitState(u), ExitParent(u), pl)
        /\ Up' = UpAt(ExitState(u), ExitParent(u), pl)
    BY <2>1, <2>2, <2>3, SchedulerStutters
  <2>6. Tree!Exit(u)
    BY <1>1, <2>2, <2>4, <2>5, ExitImplements
  <2> QED
    BY <1>1, <2>6 DEF Tree!Next
<1> QED
  BY <1>2, <1>3, <1>4, <1>5, <1>6, <1>7, <1>8
     DEF Syscall, Resume, sys_read, ReadResume, sys_waitpid, WaitpidResume

\* The steps of init.
LEMMA InitImplements ==
    ASSUME TypeOK, Safe, PlacesKept, InitStep PROVE Tree!Next \/ Quiet
<1> USE TaskAssumption
<1>1. pc[init] \notin {"none", "halted"} =>
         Life[init] = "alive" /\ state[init] \in {"READY", "RUNNING", "WAITING"}
  BY CurrentAlive
<1>2. ASSUME NEW t \in User, InitCreate(t) PROVE Quiet
  <2>1. /\ t \in Task /\ t # init /\ state[t] = "FREE" /\ pc[t] = "none" /\ parent' = parent
        /\ state' = [state EXCEPT ![t] = "RUNNING"] /\ pc' = [pc EXCEPT ![init] = "created"]
        /\ pc[init] = "spawn"
    BY <1>2 DEF InitCreate, InitAt, InitGoto, task_create, Fresh, User, PlacesKept, treeVars
  <2>2. \A x \in Task : LifeAt(state', parent', pc')[x] = LifeAt(state, parent, pc)[x]
    BY <2>1 DEF LifeAt, TypeOK
  <2> QED
    BY <2>1, <2>2, FieldsQuiet DEF Quiet
<1>3. CASE InitCannotSpawn \/ InitLink \/ InitScan \/ InitSetWaitKind
  <2>1. /\ \A x \in Task : pc'[x] = "none" <=> pc[x] = "none"
        /\ state' = state /\ parent' = parent
    BY <1>3 DEF InitCannotSpawn, InitLink, InitScan, InitSetWaitKind, InitAt, InitGoto,
                treeVars, TypeOK
  <2> QED
    BY <2>1, FieldsQuiet DEF LifeAt, Quiet
<1>4. CASE InitStoreNew
  <2>1. /\ new_task \in Task /\ new_task # init /\ pc[new_task] = "none" /\ parent' = parent
        /\ state[new_task] = "RUNNING"
        /\ state' = [state EXCEPT ![new_task] = "NEW"] /\ pc' = [pc EXCEPT ![init] = "load"]
        /\ pc[init] = "created"
    BY <1>4 DEF InitStoreNew, InitAt, InitGoto, PlacesKept, Safe, SafeAt, LocalsAt, Creating,
                User, treeVars
  <2>2. \A x \in Task : LifeAt(state', parent', pc')[x] = LifeAt(state, parent, pc)[x]
    BY <2>1 DEF LifeAt, TypeOK
  <2> QED
    BY <2>1, <2>2, FieldsQuiet DEF Quiet
<1>5. CASE InitLoad
  <2>1. /\ new_task \in Task /\ new_task # init /\ parent' = parent
        /\ state[new_task] = "NEW" /\ pc[init] = "load"
    BY <1>5 DEF InitLoad, InitAt, Safe, SafeAt, LocalsAt, Creating, User, treeVars
  <2>2. \/ pc' = [pc EXCEPT ![init] = "parent"] /\ state' = state
        \/ pc' = [pc EXCEPT ![init] = "halt"] /\ state' = [state EXCEPT ![new_task] = "TERMINATED"]
    BY <1>5 DEF InitLoad, InitGoto
  <2>3. \A x \in Task : LifeAt(state', parent', pc')[x] = LifeAt(state, parent, pc)[x]
    BY <2>1, <2>2 DEF LifeAt, TypeOK
  <2> QED
    BY <2>1, <2>3, FieldsQuiet DEF Quiet
<1>6. CASE InitSetParent
  <2>1. /\ new_task \in Task /\ new_task # init /\ state[new_task] = "NEW" /\ pc[init] = "parent"
        /\ parent' = [parent EXCEPT ![new_task] = init] /\ state' = state
        /\ pc' = [pc EXCEPT ![init] = "link"]
    BY <1>6 DEF InitSetParent, InitAt, InitGoto, Safe, SafeAt, LocalsAt, Creating, User
  <2>2. \A x \in Task : /\ LifeAt(state', parent', pc')[x] = LifeAt(state, parent, pc)[x]
                        /\ LifeAt(state, parent, pc)[x] # "gone" => parent'[x] = parent[x]
    BY <2>1 DEF LifeAt, TypeOK
  <2> QED
    BY <2>2, FieldsQuiet DEF Quiet
<1>7. CASE InitSetReady
  <2>1. /\ new_task \in Task /\ new_task # init /\ state[new_task] = "NEW" /\ pc[init] = "ready"
        /\ parent[new_task] = init /\ parent' = parent
        /\ state' = [state EXCEPT ![new_task] = "READY"]
        /\ pc' = [pc EXCEPT ![init] = "scan", ![new_task] = "user"]
    BY <1>7 DEF InitSetReady, InitAt, Safe, SafeAt, LocalsAt, Creating, User, treeVars
  <2>2. parent' = [parent EXCEPT ![new_task] = init] /\ Life[new_task] = "gone"
    BY <2>1 DEF TypeOK, Life
  <2>3. pc'[new_task] # "none" /\ \A x \in Task \ {new_task} : pc'[x] = "none" <=> pc[x] = "none"
    BY <2>1 DEF TypeOK
  <2>4. Tree!Start(init, new_task)
    BY <1>1, <2>1, <2>2, <2>3, StartImplements
  <2> QED
    BY <2>1, <2>4 DEF Tree!Next
<1>8. CASE InitUnlink
  <2> DEFINE z == want[init]
  <2>1. /\ z \in Task /\ state[z] = "ZOMBIE" /\ parent[z] = init /\ pc[init] = "found"
        /\ parent' = [parent EXCEPT ![z] = NULL] /\ state' = state
        /\ pc' = [pc EXCEPT ![init] = "collected"] /\ z # init
    BY <1>8 DEF InitUnlink, InitAt, InitGoto, Safe, SafeAt, LocalsAt, HasShell, User
  <2>2. \A x \in Task : pc'[x] = "none" <=> pc[x] = "none"
    BY <2>1 DEF TypeOK
  <2> HIDE DEF z
  <2>3. Tree!Collect(init, z)
    BY <1>1, <2>1, <2>2, CollectImplements
  <2> QED
    BY <2>1, <2>3 DEF Tree!Next
<1>9. CASE InitCollect
  <2>1. /\ want[init] \in Task /\ want[init] # init /\ state[want[init]] = "ZOMBIE"
        /\ parent[want[init]] = NULL /\ parent' = parent /\ pc[init] = "collected"
        /\ state' = [state EXCEPT ![want[init]] = "TERMINATED"]
        /\ pc' = [pc EXCEPT ![init] = "spawn"]
    BY <1>9 DEF InitCollect, InitAt, InitGoto, Safe, SafeAt, LocalsAt, User, treeVars
  <2>2. \A x \in Task : LifeAt(state', parent', pc')[x] = LifeAt(state, parent, pc)[x]
    BY <2>1 DEF LifeAt, TypeOK
  <2> QED
    BY <2>1, <2>2, FieldsQuiet DEF Quiet
<1>10. CASE InitSetWaiting
  <2>1. /\ pc[init] = "waiting" /\ state[init] \in {"READY", "RUNNING", "WAITING"}
        /\ state' = [state EXCEPT ![init] = "WAITING"] /\ parent' = parent
        /\ pc' = [pc EXCEPT ![init] = "int48"]
    BY <1>1, <1>10 DEF InitSetWaiting, InitAt, InitGoto, treeVars
  <2>2. \A x \in Task : LifeAt(state', parent', pc')[x] = LifeAt(state, parent, pc)[x]
    BY <2>1 DEF LifeAt, TypeOK
  <2> QED
    BY <2>1, <2>2, FieldsQuiet DEF Quiet
<1>11. CASE InitTrigger
  <2> DEFINE pl == [pc EXCEPT ![init] = "scan"]
  <2>1. pc[init] = "int48" /\ scheduler(state, parent, children, pl)
    BY <1>11 DEF InitTrigger, InitAt, scheduler_trigger
  <2>2. pl \in [Task -> Place] /\ \A t \in Task : pl[t] = "none" <=> pc[t] = "none"
    BY <2>1 DEF TypeOK, Place, InitPlace
  <2> HIDE DEF pl
  <2> QED
    BY <2>1, <2>2, SchedulerQuiet DEF TypeOK, Quiet
<1>12. CASE InitExitLoop
  BY <1>12, SchedulerQuiet DEF InitExitLoop, scheduler_trigger, TypeOK, Quiet
<1>13. CASE InitExit
  <2>1. /\ pc[init] = "halt" /\ pc' = [pc EXCEPT ![init] = "halted"]
        /\ state' = ExitState(init) /\ parent' = ExitParent(init)
    BY <1>13 DEF InitExit, InitAt, InitGoto
  <2>2. /\ pc' \in [Task -> Place]
        /\ \A t \in Task \ {init} : pc'[t] = "none" <=> pc[t] = "none"
    BY <2>1 DEF TypeOK, Place, InitPlace
  <2>3. Life' = LifeAt(ExitState(init), ExitParent(init), pc')
    BY <2>1 DEF Life, LifeAt
  <2>4. Up' = UpAt(ExitState(init), ExitParent(init), pc')
    BY <2>1, <2>3 DEF Up, UpAt
  <2>5. parent[init] # init /\ init # new_task /\ pc[init] \notin Creating
    BY <2>1 DEF Safe, SafeAt, LocalsAt, Creating
  <2>6. Tree!Exit(init)
    BY <1>1, <2>1, <2>2, <2>3, <2>4, <2>5, ExitImplements
  <2> QED
    BY <2>6 DEF Tree!Next
<1> QED
  BY <1>2, <1>3, <1>4, <1>5, <1>6, <1>7, <1>8, <1>9, <1>10, <1>11, <1>12, <1>13 DEF InitStep

\* Every step of TaskSched.
LEMMA StepImplements ==
    ASSUME TypeOK, Safe, PlacesKept, [Next]_vars PROVE [Tree!Next]_(Tree!vars)
<1>1. CASE UNCHANGED vars
  <2>1. Quiet
    BY <1>1, FieldsQuiet DEF vars, Quiet
  <2> QED
    BY <2>1 DEF Quiet, Tree!vars
<1>2. CASE Next
  <2>1. Tree!Next \/ Quiet
    BY <1>2, InterruptsImplement, UserImplements, InitImplements DEF Next
  <2> QED
    BY <2>1 DEF Quiet, Tree!vars
<1> QED
  BY <1>1, <1>2

\* lizard-os implements the process tree: for every set of tasks, quantum and
\* sleep bound, each step of spawn, waitpid, exit, init's loop, the interrupts, the
\* scheduler and the reaper is a step of ProcTree or leaves its tree alone.
THEOREM TreeImplemented == Spec => ImplementsTree
<1>1. Init => Tree!Init /\ PlacesKept
  BY TaskAssumption DEF Init, Tree!Init, Life, Up, PlacesKept
<1>2. IInv => TypeOK /\ Safe
  BY SafeNow DEF IInv
<1>3. IInv /\ PlacesKept /\ [Next]_vars => PlacesKept'
  BY <1>2, PlacesStep
<1>4. IInv /\ PlacesKept /\ [Next]_vars => [Tree!Next]_(Tree!vars)
  BY <1>2, StepImplements
<1> QED
  BY <1>1, <1>3, <1>4, Inductive, PTL DEF Spec, ImplementsTree, Tree!Spec
=============================================================================
