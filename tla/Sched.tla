------------------------------- MODULE Sched -------------------------------
(***************************************************************************)
(* The two schedulers of sched/kern/sched.c as operators: which slot of    *)
(* envs[] sched_yield() picks, and what happens to the priorities and the  *)
(* waiting times.  The scan is circular and starts just after the slot     *)
(* "start"; "run" is the set of slots that are ENV_RUNNABLE.               *)
(***************************************************************************)
EXTENDS Integers

CONSTANTS
    NENV,             \* number of slots of envs[]
    HighestPriority,  \* HIGHEST_PRIORITY, the 5 of raise_priority()
    MaxWaitTime       \* MAX_WAIT_TIME (3)

ASSUME NENVAssumption == NENV \in Nat \ {0}
ASSUME HighestPriorityAssumption == HighestPriority \in Nat
ASSUME MaxWaitTimeAssumption == MaxWaitTime \in Nat \ {0}

Slots == 0..(NENV - 1)
NoEnv == -1

\* (start + i) % NENV for a start in Slots and an i in 1..NENV.
CircularSlot(start, i) ==
    IF start + i < NENV THEN start + i ELSE start + i - NENV

\* Mutant: the scan always starts at slot 0.
RRPickFromZero(run, start, e) == e \in run /\ \A f \in run : e <= f

\* Round robin: e is the first runnable slot of the scan.
RRPick(run, start, e) ==
    \E i \in 1..NENV :
        /\ CircularSlot(start, i) = e
        /\ e \in run
        /\ \A j \in 1..(i - 1) : CircularSlot(start, j) \notin run

\* raise_priority() and lower_priority().
RaisePriority(p) == IF p < HighestPriority THEN p + 1 ELSE p
LowerPriority(p) == IF p > 0 THEN p - 1 ELSE p

\* The priority of a slot the scan has passed, and its waiting time: a slot
\* that waited MAX_WAIT_TIME calls is raised and starts to wait again.
AgedPriority(p, w) == IF w >= MaxWaitTime THEN RaisePriority(p) ELSE p
AgedWait(w) == IF w >= MaxWaitTime THEN 1 ELSE w + 1

\* Mutant: the comparison with max_e is the wrong way round.
MinE(run, prio, wait, start) ==
    IF run = {} THEN NoEnv
    ELSE CHOOSE e \in run : \A f \in run : prio[e] <= prio[f]

\* Priorities: what becomes of max_e, old, at slot idx: the slot replaces it
\* when its priority, not yet aged, exceeds the one of max_e, already aged.
MaxOf(run, prio, wait, old, idx) ==
    IF /\ idx \in run
       /\ old = NoEnv \/ prio[idx] > AgedPriority(prio[old], wait[old])
    THEN idx ELSE old

\* max_e at the end of the scan.
MaxE(run, prio, wait, start) ==
    LET max_e[i \in 0..NENV] ==
            IF i = 0 THEN NoEnv
            ELSE MaxOf(run, prio, wait, max_e[i - 1], CircularSlot(start, i))
    IN  max_e[NENV]

\* Mutant: the chosen slot is raised and the ones that wait are lowered.
PrioSwapped(prio, wait, e) ==
    [s \in Slots |-> IF s = e THEN RaisePriority(prio[s])
                     ELSE IF wait[s] >= MaxWaitTime THEN LowerPriority(prio[s])
                     ELSE prio[s]]

\* All the slots after a scan whose chosen slot is e (NoEnv: none).
PrioAfterScan(prio, wait, e) ==
    [s \in Slots |-> LET p == AgedPriority(prio[s], wait[s])
                     IN  IF s = e THEN LowerPriority(p) ELSE p]
WaitAfterScan(wait, e) ==
    [s \in Slots |-> IF s = e THEN 0 ELSE AgedWait(wait[s])]
=============================================================================
