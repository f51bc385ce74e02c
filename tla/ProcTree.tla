------------------------------ MODULE ProcTree ------------------------------
(***************************************************************************)
(* What spawn, exit and waitpid promise, without scheduling: a process is  *)
(* started by its parent, exits once, and its exit status is kept for that *)
(* parent until the parent collects it or exits itself.  idle adopts       *)
(* orphans and collects nothing, so an adopted process that exits is gone  *)
(* at once.                                                                *)
(***************************************************************************)
CONSTANTS
    Proc,   \* process identities; one that is gone may be used again
    idle,   \* the adopter of orphans
    boot,   \* the processes that exist from the start
    NULL

VARIABLES
    life,   \* "gone", "alive", or "zombie": exited and not collected
    up      \* up[p]: the parent of a process, NULL when it has none

vars == <<life, up>>

Kids(p) == {c \in Proc : up[c] = p}

Init ==
    /\ life = [p \in Proc |-> IF p \in boot THEN "alive" ELSE "gone"]
    /\ up = [p \in Proc |-> NULL]

\* spawn: p starts c.
Start(p, c) ==
    /\ life[p] = "alive" /\ life[c] = "gone" /\ p # idle
    /\ life' = [life EXCEPT ![c] = "alive"]
    /\ up' = [up EXCEPT ![c] = p]

\* waitpid: p collects its zombie c.
Collect(p, c) ==
    /\ life[p] = "alive" /\ life[c] = "zombie" /\ up[c] = p
    /\ life' = [life EXCEPT ![c] = "gone"]
    /\ up' = [up EXCEPT ![c] = NULL]

\* exit: p's zombies are dropped, its other children move to idle, and p
\* stays a zombie exactly when a real parent may still ask for its status.
Exit(p) ==
    LET kept == up[p] \notin {NULL, idle}
    IN  /\ life[p] = "alive" /\ p # idle
        /\ life' = [c \in Proc |->
                      IF c = p THEN IF kept THEN "zombie" ELSE "gone"
                      ELSE IF up[c] = p /\ life[c] = "zombie" THEN "gone"
                      ELSE life[c]]
        /\ up' = [c \in Proc |->
                    IF c = p THEN IF kept THEN up[p] ELSE NULL
                    ELSE IF up[c] = p
                         THEN IF life[c] = "zombie" THEN NULL ELSE idle
                    ELSE up[c]]

Next == \E p, c \in Proc : Start(p, c) \/ Collect(p, c) \/ Exit(p)

Spec == Init /\ [][Next]_vars
=============================================================================
