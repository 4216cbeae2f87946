------------------------------- MODULE Kernel -------------------------------
(***************************************************************************)
(* The JOS kernel of sched/kern: the table of environments, the processors *)
(* that run them, the big kernel lock and the two schedulers.              *)
(*                                                                         *)
(* A processor takes the big lock when it traps, works alone in the kernel *)
(* and gives the lock back just before it returns to user mode or halts.   *)
(* Each action below is one step of that path.  pc[c] says where processor *)
(* c is:                                                                   *)
(*   boot      the boot processor, lock held, about to run envs[0]         *)
(*   apstart   another processor spinning for the lock in mp_main()        *)
(*   user      in user mode, running curenv[c]                             *)
(*   acquire   trapped from user mode, spinning for the lock               *)
(*   wake      interrupted while halted, spinning for the lock             *)
(*   dispatch  lock held, about to handle the trap of curenv[c]            *)
(*   ret       lock held, the handler has returned to trap()               *)
(*   sched     lock held, about to run sched_yield()                       *)
(*   switch    lock released by env_run(), not yet in user mode            *)
(*   halted    in hlt, lock released                                       *)
(*   idle      lock held for ever: the monitor that sched_halt() enters    *)
(*   debug     lock held for ever: the monitor a breakpoint enters         *)
(*   panic     in panic(); dead: stopped in trap() because of a panic      *)
(*                                                                         *)
(* User programs are the environment of the model: they may raise any trap *)
(* of the set Traps with any argument.  Misuse lists the uses of the calls *)
(* that no program of lib/ and user/ makes but that the kernel accepts:    *)
(*   restart    sys_env_set_status() on a child already started            *)
(*   rekill     a second destroy of a child that is still a zombie         *)
(*   bad_recv   sys_ipc_recv() with an invalid dstva                       *)
(*   underflow  sys_env_lower_priority() at LOWEST_PRIORITY                *)
(*   overflow   page faults nested until the exception stack is exhausted  *)
(***************************************************************************)
EXTENDS Sched, Sequences, FiniteSets

CONSTANTS
    CPU,              \* processors
    BSP,              \* the boot processor
    NoCpu,            \* "the lock is free"
    InitEnvs,         \* environments made by ENV_CREATE in i386_init()
    MaxGen,           \* generations before the uniqueifier of an id wraps
    Policy,           \* "RR" or "PRIO": SCHED_ROUND_ROBIN, SCHED_PRIORITIES
    MinPriority,      \* bound on sys_env_lower_priority()
    Traps,            \* traps and calls the user programs raise
    Misuse            \* uses of the calls beyond those of lib/ and user/

ASSUME CPUAssumption == BSP \in CPU /\ NoCpu \notin CPU
ASSUME InitEnvsAssumption == InitEnvs \in 1..NENV
ASSUME MaxGenAssumption == MaxGen \in Nat \ {0}
ASSUME PolicyAssumption == Policy \in {"RR", "PRIO"}
ASSUME MinPriorityAssumption == MinPriority \in Int /\ MinPriority <= 0

VARIABLES
    status,     \* env_status of each slot
    gen,        \* generation part of env_id (0: never allocated)
    parent,     \* env_parent_id
    freeList,   \* env_free_list, first element first
    pgdir,      \* does the slot have a page directory (env_pgdir # NULL)
    prio,       \* env_priority
    wait,       \* env_wait_time
    recving,    \* env_ipc_recving
    cpunum,     \* env_cpunum
    curenv,     \* curenv of each processor
    cpuStatus,  \* cpu_status of each processor
    lock,       \* the processor that holds kernel_lock, or NoCpu
    pc,         \* where each processor is
    child       \* what programs have done so far with each slot (see below)

envVars == <<gen, parent, recving, cpunum>>
memVars == <<freeList, pgdir>>
agingVars == <<prio, wait>>
vars == <<status, envVars, memVars, agingVars, curenv, cpuStatus, lock, pc, child>>

NoId == <<0, 0>>     \* envid 0: the caller, or "no parent"
EnvIds == (1..MaxGen) \X Slots

Statuses == {"FREE", "DYING", "RUNNABLE", "RUNNING", "NOT_RUNNABLE"}

Places == {"boot", "apstart", "user", "acquire", "wake", "dispatch", "ret",
           "sched", "switch", "halted", "idle", "debug", "panic", "dead"}

\* Where a processor owns the big kernel lock.
InKernel == {"boot", "dispatch", "ret", "sched", "idle", "debug", "panic"}

\* Where a processor runs, or is about to resume, the code of its curenv.
InUser == {"user", "acquire", "switch"}

\* child[e] is not a variable of the kernel.  It records what the programs
\* have done with the environment in slot e: "fresh" from sys_exofork() until
\* its parent starts it, "started" after, "killed" once a destroy of it was
\* requested while it ran; "none" for a free slot or a boot environment.
ChildStates == {"none", "fresh", "started", "killed"}

\* Mutant: an environment that runs elsewhere is a candidate too.
RunnableOrRunning == {e \in Slots : status[e] \in {"RUNNABLE", "RUNNING"}}

Runnable == {e \in Slots : status[e] = "RUNNABLE"}

ENVX(id) == id[2]
EnvId(e) == <<gen[e], e>>

\* Mutant: the generation is not brought back to 1.
NextGenNoWrap(g) == g + 1

\* The generation a slot gets when it is allocated again: the 32-bit sum that
\* stops being positive starts over.
NextGen(g) == IF g + 1 > MaxGen THEN 1 ELSE g + 1

-----------------------------------------------------------------------------
(***************************************************************************)
(* The state when i386_init() reaches env_run(): the other processors are  *)
(* up and wait for the lock, ENV_CREATE has filled the first slots.        *)
(***************************************************************************)
Init ==
    /\ status = [e \in Slots |-> IF e < InitEnvs THEN "RUNNABLE" ELSE "FREE"]
    /\ gen = [e \in Slots |-> IF e < InitEnvs THEN 1 ELSE 0]
    /\ parent = [e \in Slots |-> NoId]
    /\ freeList = [i \in 1..(NENV - InitEnvs) |-> InitEnvs + i - 1]
    /\ pgdir = [e \in Slots |-> e < InitEnvs]
    /\ prio = [e \in Slots |-> IF e < InitEnvs THEN HighestPriority ELSE 0]
    /\ wait = [e \in Slots |-> 0]
    /\ recving = [e \in Slots |-> FALSE]
    /\ cpunum = [e \in Slots |-> BSP]
    /\ curenv = [c \in CPU |-> NoEnv]
    /\ cpuStatus = [c \in CPU |-> "STARTED"]
    /\ lock = BSP
    /\ pc = [c \in CPU |-> IF c = BSP THEN "boot" ELSE "apstart"]
    /\ child = [e \in Slots |-> "none"]

Goto(c, place) == pc' = [pc EXCEPT ![c] = place]

Panic(c) == Goto(c, "panic") /\ UNCHANGED lock

\* spin_lock(): a processor that already holds the lock panics, any other
\* waits until it is free.
SpinLock(c, place) ==
    \/ lock = NoCpu /\ lock' = c /\ Goto(c, place)
    \/ lock = c /\ Panic(c)

\* Mutant: the lock is not released.
SpinUnlockKeep(c, place) == Goto(c, place) /\ UNCHANGED lock

\* spin_unlock(): only the holder may release the lock.
SpinUnlock(c, place) ==
    \/ lock = c /\ lock' = NoCpu /\ Goto(c, place)
    \/ lock # c /\ Panic(c)

-----------------------------------------------------------------------------
(***************************************************************************)
(* env.c: names, creation and destruction of environments.                 *)
(***************************************************************************)

\* envid2env(): the slot of an id, or NoEnv for -E_BAD_ENV.
Envid2Env(c, id, checkperm) ==
    IF id = NoId THEN curenv[c]
    ELSE LET e == ENVX(id)
         IN  IF /\ status[e] # "FREE"
                /\ EnvId(e) = id
                /\ checkperm => \/ e = curenv[c]
                                \/ parent[e] = EnvId(curenv[c])
             THEN e
             ELSE NoEnv

\* env_alloc() for a parent, leaving the new environment with status st.
EnvAlloc(c, st) ==
    LET e == Head(freeList) IN
    /\ freeList' = Tail(freeList)
    /\ pgdir' = [pgdir EXCEPT ![e] = TRUE]
    /\ gen' = [gen EXCEPT ![e] = NextGen(@)]
    /\ parent' = [parent EXCEPT ![e] = EnvId(curenv[c])]
    /\ status' = [status EXCEPT ![e] = st]
    /\ prio' = [prio EXCEPT ![e] = HighestPriority]
    /\ wait' = [wait EXCEPT ![e] = 0]
    /\ recving' = [recving EXCEPT ![e] = FALSE]
    /\ child' = [child EXCEPT ![e] = "fresh"]
    /\ UNCHANGED cpunum

\* Mutants: the slot is not given back; its status is not reset.
EnvFreeLeak(e) ==
    /\ pgdir' = [pgdir EXCEPT ![e] = FALSE]
    /\ status' = [status EXCEPT ![e] = "FREE"]
    /\ child' = [child EXCEPT ![e] = "none"]
    /\ UNCHANGED freeList
EnvFreeStatus(e) ==
    /\ pgdir' = [pgdir EXCEPT ![e] = FALSE]
    /\ freeList' = <<e>> \o freeList
    /\ child' = [child EXCEPT ![e] = "none"]
    /\ UNCHANGED status

\* env_free(): the slot goes to the front of the free list.
EnvFree(e) ==
    /\ pgdir' = [pgdir EXCEPT ![e] = FALSE]
    /\ status' = [status EXCEPT ![e] = "FREE"]
    /\ freeList' = <<e>> \o freeList
    /\ child' = [child EXCEPT ![e] = "none"]

\* Mutant: no zombies, the victim is freed at once.
NoZombies(c, e) == FALSE

\* env_destroy() of an environment that another processor runs: a zombie.
RunsElsewhere(c, e) == status[e] = "RUNNING" /\ curenv[c] # e

\* env_destroy(e) on processor c.  If it returns, c goes on at place.
\* Without a page directory env_free() reads through NULL and panics.
EnvDestroy(c, e, place) ==
    \/ /\ RunsElsewhere(c, e)
       /\ status' = [status EXCEPT ![e] = "DYING"]
       /\ child' = [child EXCEPT ![e] = "killed"]
       /\ Goto(c, place)
       /\ UNCHANGED <<memVars, curenv, lock>>
    \/ /\ ~RunsElsewhere(c, e)
       /\ pgdir[e]
       /\ EnvFree(e)
       /\ IF curenv[c] = e
          THEN curenv' = [curenv EXCEPT ![c] = NoEnv] /\ Goto(c, "sched")
          ELSE UNCHANGED curenv /\ Goto(c, place)
       /\ UNCHANGED lock
    \/ /\ ~RunsElsewhere(c, e)
       /\ ~pgdir[e]
       /\ Panic(c)
       /\ UNCHANGED <<status, memVars, curenv, child>>

\* Step 1 of env_run(): a curenv that is still RUNNING goes back to RUNNABLE.
Preempted(c) ==
    [e \in Slots |-> IF e = curenv[c] /\ status[e] = "RUNNING"
                     THEN "RUNNABLE" ELSE status[e]]

\* env_run(e) up to unlock_kernel(); env_load_pgdir() panics on a NULL pgdir.
EnvRun(c, e) ==
    /\ status' = [Preempted(c) EXCEPT ![e] = "RUNNING"]
    /\ curenv' = [curenv EXCEPT ![c] = e]
    /\ IF pgdir[e] THEN SpinUnlock(c, "switch") ELSE Panic(c)
    /\ UNCHANGED <<memVars, child>>

\* Mutant: env_cpunum is not recorded.
ContextSwitchOnly(c) ==
    /\ pc[c] = "switch"
    /\ Goto(c, "user")
    /\ UNCHANGED <<status, envVars, memVars, agingVars, curenv, cpuStatus, lock,
                   child>>

\* env_run() after unlock_kernel(): env_cpunum is written without the lock,
\* then context_switch() enters user mode.
ContextSwitch(c) ==
    /\ pc[c] = "switch"
    /\ cpunum' = [cpunum EXCEPT ![curenv[c]] = c]
    /\ Goto(c, "user")
    /\ UNCHANGED <<status, gen, parent, recving, memVars, agingVars, curenv,
                   cpuStatus, lock, child>>

-----------------------------------------------------------------------------
(***************************************************************************)
(* init.c: the boot processor runs envs[0]; the others enter the scheduler *)
(* once they get the lock.                                                 *)
(***************************************************************************)
Boot(c) ==
    /\ pc[c] = "boot"
    /\ EnvRun(c, 0)
    /\ UNCHANGED <<envVars, agingVars, cpuStatus>>

MpMain(c) ==
    /\ pc[c] = "apstart"
    /\ SpinLock(c, "sched")
    /\ UNCHANGED <<status, envVars, memVars, agingVars, curenv, cpuStatus, child>>

-----------------------------------------------------------------------------
(***************************************************************************)
(* sched.c                                                                 *)
(***************************************************************************)

\* The slot after which the scan starts.
ScanStart(c) == IF curenv[c] = NoEnv THEN 0 ELSE curenv[c]

Picked(c, e) ==
    \/ Policy = "RR" /\ RRPick(Runnable, ScanStart(c), e)
    \/ Policy = "PRIO" /\ e = MaxE(Runnable, prio, wait, ScanStart(c))

\* What the scan does to priorities and waiting times.
Aging(e) ==
    IF Policy = "PRIO"
    THEN prio' = PrioAfterScan(prio, wait, e) /\ wait' = WaitAfterScan(wait, e)
    ELSE UNCHANGED agingVars

\* Nothing is runnable and the processor's environment cannot go on.
NothingToPick(c) ==
    /\ Runnable = {}
    /\ ~(curenv[c] # NoEnv /\ status[curenv[c]] = "RUNNING")

\* Mutant: zombies are forgotten.
SomeoneNotDying == \E e \in Slots : status[e] \in {"RUNNABLE", "RUNNING"}

\* sched_halt() looks for an environment that is runnable, running or dying.
SomeoneActive ==
    \E e \in Slots : status[e] \in {"RUNNABLE", "RUNNING", "DYING"}

SchedPick(c) ==
    /\ pc[c] = "sched"
    /\ \E e \in Runnable : Picked(c, e) /\ EnvRun(c, e) /\ Aging(e)
    /\ UNCHANGED <<envVars, cpuStatus>>

SchedContinue(c) ==
    /\ pc[c] = "sched"
    /\ Runnable = {} /\ ~NothingToPick(c)
    /\ EnvRun(c, curenv[c])
    /\ Aging(curenv[c])
    /\ UNCHANGED <<envVars, cpuStatus>>

\* Mutant: the processor does not mark itself as halted.
SchedHaltUnmarked(c) ==
    /\ pc[c] = "sched"
    /\ NothingToPick(c) /\ SomeoneActive
    /\ Aging(NoEnv)
    /\ curenv' = [curenv EXCEPT ![c] = NoEnv]
    /\ SpinUnlock(c, "halted")
    /\ UNCHANGED <<status, envVars, memVars, cpuStatus, child>>

SchedHalt(c) ==
    /\ pc[c] = "sched"
    /\ NothingToPick(c) /\ SomeoneActive
    /\ Aging(NoEnv)
    /\ curenv' = [curenv EXCEPT ![c] = NoEnv]
    /\ cpuStatus' = [cpuStatus EXCEPT ![c] = "HALTED"]
    /\ SpinUnlock(c, "halted")
    /\ UNCHANGED <<status, envVars, memVars, child>>

\* Nobody is left: statistics are printed and the monitor never returns.
SchedIdle(c) ==
    /\ pc[c] = "sched"
    /\ NothingToPick(c) /\ ~SomeoneActive
    /\ Aging(NoEnv)
    /\ Goto(c, "idle")
    /\ UNCHANGED <<status, envVars, memVars, curenv, cpuStatus, lock, child>>

-----------------------------------------------------------------------------
(***************************************************************************)
(* trap.c: entering the kernel and leaving it.                             *)
(***************************************************************************)

Panicked == \E c \in CPU : pc[c] = "panic"

\* Mutant: cpu_status is read but not exchanged.
TrapEntryNoExchange(c) ==
    /\ pc[c] \in {"user", "halted"}
    /\ ~Panicked
    /\ Goto(c, IF cpuStatus[c] = "HALTED" THEN "wake" ELSE "acquire")
    /\ UNCHANGED <<status, envVars, memVars, agingVars, curenv, cpuStatus, lock,
                   child>>

\* An interrupt, an exception or a system call reaches trap().  A halted
\* processor takes the lock at once; one that came from user mode takes it
\* further on.
TrapEntry(c) ==
    /\ pc[c] \in {"user", "halted"}
    /\ ~Panicked
    /\ cpuStatus' = [cpuStatus EXCEPT ![c] = "STARTED"]
    /\ \/ cpuStatus[c] = "HALTED" /\ Goto(c, "wake")
       \/ cpuStatus[c] # "HALTED" /\ pc[c] = "user" /\ Goto(c, "acquire")
       \/ cpuStatus[c] # "HALTED" /\ pc[c] = "halted" /\ Goto(c, "sched")
    /\ UNCHANGED <<status, envVars, memVars, agingVars, curenv, lock, child>>

\* Once a processor has panicked every other one stops at its next trap.
TrapDead(c) ==
    /\ pc[c] \in {"user", "halted"}
    /\ Panicked
    /\ Goto(c, "dead")
    /\ UNCHANGED <<status, envVars, memVars, agingVars, curenv, cpuStatus, lock,
                   child>>

\* The lock a halted processor takes; its interrupt only reschedules.
WakeLock(c) ==
    /\ pc[c] = "wake"
    /\ SpinLock(c, IF curenv[c] = NoEnv THEN "sched" ELSE "acquire")
    /\ UNCHANGED <<status, envVars, memVars, agingVars, curenv, cpuStatus, child>>

IsZombie(e) == status[e] = "DYING"

\* Mutant: a zombie goes on into its handler.
TrapLockNoCheck(c) ==
    /\ pc[c] = "acquire"
    /\ SpinLock(c, "dispatch")
    /\ UNCHANGED <<status, envVars, memVars, agingVars, curenv, cpuStatus, child>>

\* The lock of a trap from user mode.
TrapLock(c) ==
    /\ pc[c] = "acquire"
    /\ lock = NoCpu => ~IsZombie(curenv[c])
    /\ SpinLock(c, "dispatch")
    /\ UNCHANGED <<status, envVars, memVars, agingVars, curenv, cpuStatus, child>>

\* A zombie is collected by the processor that ran it, and never resumes.
ReapZombie(c) ==
    /\ pc[c] = "acquire"
    /\ lock = NoCpu /\ IsZombie(curenv[c])
    /\ lock' = c
    /\ EnvFree(curenv[c])
    /\ curenv' = [curenv EXCEPT ![c] = NoEnv]
    /\ Goto(c, "sched")
    /\ UNCHANGED <<envVars, agingVars, cpuStatus>>

CanResume(c) == curenv[c] # NoEnv /\ status[curenv[c]] = "RUNNING"

\* The end of trap(): go on with the current environment if it still runs.
Resume(c) ==
    /\ pc[c] = "ret"
    /\ CanResume(c)
    /\ EnvRun(c, curenv[c])
    /\ UNCHANGED <<envVars, agingVars, cpuStatus>>

Reschedule(c) ==
    /\ pc[c] = "ret"
    /\ ~CanResume(c)
    /\ Goto(c, "sched")
    /\ UNCHANGED <<status, envVars, memVars, agingVars, curenv, cpuStatus, lock,
                   child>>

-----------------------------------------------------------------------------
(***************************************************************************)
(* trap_dispatch() and syscall.c: one action per trap.                     *)
(***************************************************************************)

Handles(c, trap) == pc[c] = "dispatch" /\ trap \in Traps

\* The handler changes nothing the model keeps and goes on at place.
NoEffect(c, place) ==
    /\ Goto(c, place)
    /\ UNCHANGED <<status, envVars, memVars, agingVars, curenv, cpuStatus, lock,
                   child>>

\* How lib/ and user/ use the calls: a parent starts a child once, just after
\* making it; nobody asks twice for the destruction of the same environment.
MayStart(c, e) == e = curenv[c] \/ child[e] = "fresh" \/ "restart" \in Misuse
MayKill(c, e) == e = curenv[c] \/ child[e] # "killed" \/ "rekill" \in Misuse
MayLower(e) == prio[e] > 0 \/ ("underflow" \in Misuse /\ prio[e] > MinPriority)

Timer(c) == pc[c] = "dispatch" /\ NoEffect(c, "sched")

SysYield(c) == Handles(c, "yield") /\ NoEffect(c, "sched")

\* Spurious interrupts and the calls that touch nothing modelled here.
SysOther(c) == Handles(c, "other") /\ NoEffect(c, "ret")

\* int3 runs the monitor, whose commands never make it return.
Breakpoint(c) == Handles(c, "breakpoint") /\ NoEffect(c, "debug")

\* sys_exofork() fails without a free slot or without memory.
SysExofork(c) ==
    /\ Handles(c, "exofork")
    /\ \/ NoEffect(c, "ret")
       \/ /\ freeList # <<>>
          /\ EnvAlloc(c, "NOT_RUNNABLE")
          /\ Goto(c, "ret")
          /\ UNCHANGED <<curenv, cpuStatus, lock>>

SysEnvDestroy(c, id) ==
    LET e == Envid2Env(c, id, TRUE) IN
    /\ Handles(c, "destroy")
    /\ \/ e = NoEnv /\ NoEffect(c, "ret")
       \/ /\ e # NoEnv /\ MayKill(c, e)
          /\ EnvDestroy(c, e, "ret")
          /\ UNCHANGED <<envVars, agingVars, cpuStatus>>

\* The current status of the target is not looked at.
SysEnvSetStatus(c, id, st) ==
    LET e == Envid2Env(c, id, TRUE) IN
    /\ Handles(c, "set_status")
    /\ \/ e = NoEnv /\ NoEffect(c, "ret")
       \/ /\ e # NoEnv /\ MayStart(c, e)
          /\ status' = [status EXCEPT ![e] = st]
          /\ child' = [child EXCEPT ![e] =
                          IF @ = "fresh" /\ st = "RUNNABLE" THEN "started" ELSE @]
          /\ Goto(c, "ret")
          /\ UNCHANGED <<envVars, memVars, agingVars, curenv, cpuStatus, lock>>

\* A function the target cannot read destroys the target.
SysEnvSetPgfaultUpcall(c, id) ==
    LET e == Envid2Env(c, id, TRUE) IN
    /\ Handles(c, "set_upcall")
    /\ \/ NoEffect(c, "ret")
       \/ /\ e # NoEnv /\ MayKill(c, e)
          /\ EnvDestroy(c, e, "ret")
          /\ UNCHANGED <<envVars, agingVars, cpuStatus>>

\* env_ipc_recving is set before dstva is checked: a bad dstva returns with
\* the flag left on.
SysIpcRecv(c) ==
    /\ Handles(c, "recv")
    /\ recving' = [recving EXCEPT ![curenv[c]] = TRUE]
    /\ \/ status' = [status EXCEPT ![curenv[c]] = "NOT_RUNNABLE"] /\ Goto(c, "sched")
       \/ "bad_recv" \in Misuse /\ UNCHANGED status /\ Goto(c, "ret")
    /\ UNCHANGED <<gen, parent, cpunum, memVars, agingVars, curenv, cpuStatus,
                   lock, child>>

\* Mutants: the target need not be receiving; env_ipc_recving is not reset.
SysIpcTrySendAny(c, id) ==
    LET e == Envid2Env(c, id, FALSE) IN
    /\ Handles(c, "send") /\ e # NoEnv
    /\ recving' = [recving EXCEPT ![e] = FALSE]
    /\ status' = [status EXCEPT ![e] = "RUNNABLE"]
    /\ Goto(c, "ret")
    /\ UNCHANGED <<gen, parent, cpunum, memVars, agingVars, curenv, cpuStatus,
                   lock, child>>
SysIpcTrySendAgain(c, id) ==
    LET e == Envid2Env(c, id, FALSE) IN
    /\ Handles(c, "send") /\ e # NoEnv /\ recving[e]
    /\ status' = [status EXCEPT ![e] = "RUNNABLE"]
    /\ Goto(c, "ret")
    /\ UNCHANGED <<envVars, memVars, agingVars, curenv, cpuStatus, lock, child>>

\* Sending fails on a bad id, on a target that does not receive and when the
\* page cannot be mapped; otherwise the target is made runnable.
SysIpcTrySend(c, id) ==
    LET e == Envid2Env(c, id, FALSE) IN
    /\ Handles(c, "send")
    /\ \/ NoEffect(c, "ret")
       \/ /\ e # NoEnv /\ recving[e]
          /\ recving' = [recving EXCEPT ![e] = FALSE]
          /\ status' = [status EXCEPT ![e] = "RUNNABLE"]
          /\ Goto(c, "ret")
          /\ UNCHANGED <<gen, parent, cpunum, memVars, agingVars, curenv,
                         cpuStatus, lock, child>>

\* env_priority-- with no lower limit (MinPriority bounds the model).
SysEnvLowerPriority(c, id) ==
    LET e == Envid2Env(c, id, TRUE) IN
    /\ Handles(c, "lower_priority")
    /\ \/ e = NoEnv /\ NoEffect(c, "ret")
       \/ /\ e # NoEnv /\ MayLower(e)
          /\ prio' = [prio EXCEPT ![e] = @ - 1]
          /\ Goto(c, "ret")
          /\ UNCHANGED <<status, envVars, memVars, wait, curenv, cpuStatus, lock,
                         child>>

\* page_fault_handler(): to the upcall, without looking at env_status; or to
\* env_destroy() when there is none; or a panic when the exception stack
\* overflows.
PageFault(c) ==
    /\ Handles(c, "fault")
    /\ \/ EnvRun(c, curenv[c])
       \/ EnvDestroy(c, curenv[c], "ret")
       \/ "overflow" \in Misuse /\ Panic(c) /\ UNCHANGED <<status, memVars, curenv, child>>
    /\ UNCHANGED <<envVars, agingVars, cpuStatus>>

\* An unexpected trap, or a string sys_cputs() cannot read.
BadTrap(c) ==
    /\ Handles(c, "bad")
    /\ EnvDestroy(c, curenv[c], "ret")
    /\ UNCHANGED <<envVars, agingVars, cpuStatus>>

Syscall(c) ==
    \/ SysYield(c) \/ SysOther(c) \/ SysExofork(c) \/ SysIpcRecv(c)
    \/ \E id \in EnvIds \cup {NoId} :
          \/ SysEnvDestroy(c, id)
          \/ SysEnvSetPgfaultUpcall(c, id)
          \/ SysIpcTrySend(c, id)
          \/ SysEnvLowerPriority(c, id)
          \/ \E st \in {"RUNNABLE", "NOT_RUNNABLE"} : SysEnvSetStatus(c, id, st)

Dispatch(c) ==
    Timer(c) \/ Breakpoint(c) \/ PageFault(c) \/ BadTrap(c) \/ Syscall(c)

Scheduler(c) == SchedPick(c) \/ SchedContinue(c) \/ SchedHalt(c) \/ SchedIdle(c)

TrapPath(c) ==
    \/ TrapEntry(c) \/ TrapDead(c) \/ WakeLock(c) \/ TrapLock(c)
    \/ ReapZombie(c) \/ Resume(c) \/ Reschedule(c)

CpuStep(c) ==
    Boot(c) \/ MpMain(c) \/ Scheduler(c) \/ ContextSwitch(c) \/ TrapPath(c)
            \/ Dispatch(c)

Next == \E c \in CPU : CpuStep(c)

Spec == Init /\ [][Next]_vars

\* The local APIC timer interrupts every processor again and again, and a
\* timer interrupt that is pending is taken on the way to user mode whatever
\* the program does; a processor in the kernel goes on.
FairTimer(c) == WF_vars(CpuStep(c)) /\ SF_vars(Timer(c))

\* No processor spins for ever while the lock is released again and again.
FairLock(c) == SF_vars(MpMain(c) \/ WakeLock(c) \/ TrapLock(c) \/ ReapZombie(c))

FairSpec == Spec /\ \A c \in CPU : FairTimer(c) /\ FairLock(c)

-----------------------------------------------------------------------------
(***************************************************************************)
(* Properties.                                                             *)
(***************************************************************************)

\* Every variable keeps to the values the C declarations are meant to hold.
TypeOK ==
    /\ status \in [Slots -> Statuses]
    /\ gen \in [Slots -> 0..MaxGen]
    /\ parent \in [Slots -> (0..MaxGen) \X Slots]
    /\ freeList \in Seq(Slots)
    /\ pgdir \in [Slots -> BOOLEAN]
    /\ prio \in [Slots -> MinPriority..HighestPriority]
    /\ wait \in [Slots -> 0..MaxWaitTime]
    /\ recving \in [Slots -> BOOLEAN]
    /\ cpunum \in [Slots -> CPU]
    /\ curenv \in [CPU -> Slots \cup {NoEnv}]
    /\ cpuStatus \in [CPU -> {"STARTED", "HALTED"}]
    /\ lock \in CPU \cup {NoCpu}
    /\ pc \in [CPU -> Places]
    /\ child \in [Slots -> ChildStates]

\* The big kernel lock: a processor that works on the environment table owns
\* the lock, and whoever owns it is working there (spinlock.c, trap.c,
\* sched_halt, env_run).  Holds whatever the programs do.
LockOwner == \A c \in CPU : lock = c <=> pc[c] \in InKernel

\* The handshake of sched_halt() and trap(): a processor is marked HALTED
\* exactly while it is halted (or stopped by a panic right after), so trap()
\* takes the lock once and never twice.  Holds whatever the programs do.
HaltHandshake ==
    \A c \in CPU :
        /\ pc[c] = "halted" => cpuStatus[c] = "HALTED"
        /\ cpuStatus[c] = "HALTED" => pc[c] \in {"halted", "dead"}
        /\ pc[c] \in {"boot", "apstart", "halted", "wake"} => curenv[c] = NoEnv

\* env_free_list holds each slot without address space once, and no other
\* (env_alloc, env_free): no slot is leaked and none is handed out twice.
\* Holds whatever the programs do.
FreeListExact ==
    /\ \A e \in Slots : ~pgdir[e] <=> \E i \in DOMAIN freeList : freeList[i] = e
    /\ \A i, j \in DOMAIN freeList : freeList[i] = freeList[j] => i = j

\* An environment that a processor may execute has an address space, or the
\* kernel has stopped.  Holds whatever the programs do.
PagesOrPanic ==
    \A e \in Slots : status[e] \in {"RUNNING", "DYING"} => pgdir[e] \/ Panicked

\* An environment is current on one processor at most (the check of
\* user/stresssched.c).
OneCpuPerEnv ==
    \A c, d \in CPU : c # d /\ curenv[c] = curenv[d] => curenv[c] = NoEnv

\* The environment a processor executes outside the kernel is alive: running
\* or a zombie, with the page directory that is loaded in cr3 (env_free must
\* not pull it away).
UserEnvAlive ==
    \A c \in CPU : pc[c] \in InUser =>
        /\ curenv[c] # NoEnv
        /\ status[curenv[c]] \in {"RUNNING", "DYING"}
        /\ pgdir[curenv[c]]

\* The converse: what is marked RUNNING or DYING is current on a processor;
\* otherwise nobody would schedule it or collect it ever again.
ActiveHasCpu ==
    \A e \in Slots : status[e] \in {"RUNNING", "DYING"} =>
        \E c \in CPU : /\ curenv[c] = e
                       /\ status[e] = "DYING" => pc[c] \in InUser

\* env_ipc_recving means "blocked receiving" (inc/env.h): sys_ipc_try_send()
\* marks the target RUNNABLE on the strength of that flag alone.
RecvingIsBlocked ==
    \A e \in Slots : recving[e] => status[e] \in {"NOT_RUNNABLE", "FREE"}

\* When sched_halt() gives up and enters the monitor for good, no processor
\* has an environment left that would need the kernel again.
IdleIsFinal ==
    \A c \in CPU : pc[c] = "idle" =>
        /\ ~SomeoneActive
        /\ \A d \in CPU \ {c} : curenv[d] = NoEnv

\* A program that looks at its env_cpunum sees the processor it runs on,
\* although env_run() writes the field after it has released the lock.
CpunumIsTrue ==
    \A c \in CPU : pc[c] \in {"user", "acquire", "dispatch"} =>
        cpunum[curenv[c]] = c

\* No program makes the kernel panic.
NoPanic == \A c \in CPU : pc[c] \notin {"panic", "dead"}

\* env_destroy(): a zombie stays a zombie until the processor that runs it
\* traps, and is then freed by that processor.
ZombieReapedByItsCpu ==
    [][\A e \in Slots : IsZombie(e) /\ status'[e] # "DYING" =>
          \E c \in CPU : /\ pc[c] = "acquire" /\ curenv[c] = e
                         /\ status'[e] = "FREE"
                         /\ curenv'[c] = NoEnv]_vars

\* Nobody but the processor that runs an environment takes it off the
\* processor: another one can at most turn it into a zombie.
OnlyOwnerPreempts ==
    [][\A e \in Slots : status[e] = "RUNNING" /\ status'[e] # "RUNNING" =>
          \/ status'[e] = "DYING"
          \/ \E c \in CPU : lock = c /\ curenv[c] = e]_vars

\* The step by which processor c runs a runnable environment it picked.
Picks(c) ==
    /\ pc[c] = "sched" /\ pc'[c] = "switch"
    /\ status[curenv'[c]] = "RUNNABLE"

\* Priorities: no runnable environment has a priority above the one the chosen
\* environment has once it is aged (sched_yield, SCHED_PRIORITIES).
PicksNearTopPriority ==
    [][\A c \in CPU : Picks(c) =>
          LET e == curenv'[c]
          IN  \A f \in Runnable : prio[f] <= AgedPriority(prio[e], wait[e])]_vars

\* What sched.md promises, "se elegira siempre el proceso con mas prioridad":
\* nobody runnable is above the chosen one both before and after the ageing.
PicksTopPriority ==
    [][\A c \in CPU : Picks(c) =>
          LET e == curenv'[c]
          IN  \A f \in Runnable :
                 \/ prio[f] <= prio[e]
                 \/ AgedPriority(prio[f], wait[f]) <= AgedPriority(prio[e], wait[e])]_vars

\* No starvation: a runnable environment is run, or stops being runnable.
NoStarvation ==
    \A e \in Slots : status[e] = "RUNNABLE" ~> status[e] # "RUNNABLE"

\* Every zombie is collected in the end.
ZombiesCollected == \A e \in Slots : IsZombie(e) ~> status[e] = "FREE"
=============================================================================
