---------------------------- MODULE KernelProofs ----------------------------
(***************************************************************************)
(* Proofs about Kernel, for any number of processors and of slots and both *)
(* schedulers.                                                             *)
(***************************************************************************)
EXTENDS Kernel, WellFoundedInduction, TLAPS

\* A processor that executes or handles a program has a current environment.
HasEnv ==
    \A c \in CPU : pc[c] \in {"user", "acquire", "switch", "dispatch"} =>
        curenv[c] \in Slots

\* The inductive invariant that holds whatever the programs do.
SysInv ==
    /\ TypeOK /\ LockOwner /\ HaltHandshake /\ HasEnv
    /\ FreeListExact /\ PagesOrPanic

-----------------------------------------------------------------------------
(***************************************************************************)
(* Types.  The part of the state that the control helpers of env.c change, *)
(* and the rest.                                                           *)
(***************************************************************************)
CtlType ==
    /\ status \in [Slots -> Statuses]
    /\ freeList \in Seq(Slots)
    /\ pgdir \in [Slots -> BOOLEAN]
    /\ curenv \in [CPU -> Slots \cup {NoEnv}]
    /\ lock \in CPU \cup {NoCpu}
    /\ pc \in [CPU -> Places]
    /\ child \in [Slots -> ChildStates]

DataType ==
    /\ gen \in [Slots -> 0..MaxGen]
    /\ parent \in [Slots -> (0..MaxGen) \X Slots]
    /\ prio \in [Slots -> MinPriority..HighestPriority]
    /\ wait \in [Slots -> 0..MaxWaitTime]
    /\ recving \in [Slots -> BOOLEAN]
    /\ cpunum \in [Slots -> CPU]
    /\ cpuStatus \in [CPU -> {"STARTED", "HALTED"}]

\* TypeOK in the two parts the lemmas below work with.
LEMMA TypeParts == TypeOK <=> CtlType /\ DataType
BY DEF TypeOK, CtlType, DataType

\* env_run() keeps the types.
LEMMA EnvRunType ==
    ASSUME CtlType, NEW c \in CPU, NEW e \in Slots, EnvRun(c, e)
    PROVE  CtlType'
BY DEF CtlType, EnvRun, Preempted, SpinUnlock, Panic, Goto, memVars, Statuses, Places

\* env_free() keeps the types.
LEMMA EnvFreeType ==
    ASSUME CtlType, NEW e \in Slots, EnvFree(e)
    PROVE  /\ status' \in [Slots -> Statuses] /\ freeList' \in Seq(Slots)
           /\ pgdir' \in [Slots -> BOOLEAN] /\ child' \in [Slots -> ChildStates]
BY DEF CtlType, EnvFree, Statuses, ChildStates

\* env_destroy() keeps the types.
LEMMA EnvDestroyType ==
    ASSUME CtlType, NEW c \in CPU, NEW e \in Slots, EnvDestroy(c, e, "ret")
    PROVE  CtlType'
<1>1. CASE RunsElsewhere(c, e)
  BY <1>1 DEF CtlType, EnvDestroy, Panic, Goto, Statuses, Places, ChildStates, memVars
<1>2. CASE ~RunsElsewhere(c, e) /\ pgdir[e]
  BY <1>2, EnvFreeType DEF CtlType, EnvDestroy, Panic, Goto, Places
<1>3. CASE ~RunsElsewhere(c, e) /\ ~pgdir[e]
  BY <1>3 DEF CtlType, EnvDestroy, Panic, Goto, Places, memVars
<1> QED BY <1>1, <1>2, <1>3 

\* A scan keeps priorities and waiting times in their ranges.
LEMMA AgingType ==
    ASSUME prio \in [Slots -> MinPriority..HighestPriority],
           wait \in [Slots -> 0..MaxWaitTime], NEW e, Aging(e)
    PROVE  /\ prio' \in [Slots -> MinPriority..HighestPriority]
           /\ wait' \in [Slots -> 0..MaxWaitTime]
BY MinPriorityAssumption, HighestPriorityAssumption, MaxWaitTimeAssumption DEF Aging, agingVars, PrioAfterScan, WaitAfterScan, AgedPriority, AgedWait, RaisePriority, LowerPriority

\* envid2env() returns a slot or nothing.
LEMMA EnvidType ==
    ASSUME status \in [Slots -> Statuses], NEW c \in CPU, curenv[c] \in Slots,
           NEW id \in EnvIds \cup {NoId}, NEW p
    PROVE  Envid2Env(c, id, p) \in Slots \cup {NoEnv}
BY DEF Envid2Env, EnvIds, ENVX, NoId

\* env_alloc() keeps the types.
LEMMA EnvAllocType ==
    ASSUME TypeOK, NEW c \in CPU, curenv[c] \in Slots, freeList # <<>>,
           EnvAlloc(c, "NOT_RUNNABLE")
    PROVE  /\ status' \in [Slots -> Statuses] /\ freeList' \in Seq(Slots)
           /\ pgdir' \in [Slots -> BOOLEAN] /\ child' \in [Slots -> ChildStates]
           /\ gen' \in [Slots -> 0..MaxGen]
           /\ parent' \in [Slots -> (0..MaxGen) \X Slots]
           /\ prio' \in [Slots -> MinPriority..HighestPriority]
           /\ wait' \in [Slots -> 0..MaxWaitTime]
           /\ recving' \in [Slots -> BOOLEAN]
           /\ cpunum' \in [Slots -> CPU]
<1> DEFINE e == Head(freeList)
<1>1. e \in Slots /\ Tail(freeList) \in Seq(Slots)
  BY DEF TypeOK
<1>2. NextGen(gen[e]) \in 0..MaxGen
  BY <1>1, MaxGenAssumption DEF TypeOK, NextGen
<1>3. EnvId(curenv[c]) \in (0..MaxGen) \X Slots
  BY DEF TypeOK, EnvId
<1>4. HighestPriority \in MinPriority..HighestPriority /\ 0 \in 0..MaxWaitTime
  BY MinPriorityAssumption, HighestPriorityAssumption, MaxWaitTimeAssumption
<1>5. /\ status' \in [Slots -> Statuses] /\ freeList' \in Seq(Slots)
      /\ pgdir' \in [Slots -> BOOLEAN] /\ child' \in [Slots -> ChildStates]
  BY <1>1 DEF TypeOK, EnvAlloc, Statuses, ChildStates
<1>6. gen' \in [Slots -> 0..MaxGen]
  BY <1>1, <1>2 DEF TypeOK, EnvAlloc
<1>7. parent' \in [Slots -> (0..MaxGen) \X Slots]
  BY <1>1, <1>3 DEF TypeOK, EnvAlloc
<1>8. /\ prio' \in [Slots -> MinPriority..HighestPriority]
      /\ wait' \in [Slots -> 0..MaxWaitTime]
      /\ recving' \in [Slots -> BOOLEAN]
      /\ cpunum' \in [Slots -> CPU]
  BY <1>1, <1>4 DEF TypeOK, EnvAlloc
<1> QED BY <1>5, <1>6, <1>7, <1>8

\* Every step keeps the types.
LEMMA TypeStep == SysInv /\ [Next]_vars => TypeOK'
<1> SUFFICES ASSUME SysInv, [Next]_vars PROVE CtlType' /\ DataType'
  BY TypeParts DEF TypeOK, CtlType, DataType
<1>0. CtlType /\ DataType /\ HasEnv /\ 0 \in Slots
  <2>1. 0 \in Slots
    BY NENVAssumption DEF Slots
  <2> QED BY <2>1, TypeParts DEF SysInv
<1>u. CASE UNCHANGED vars
  BY <1>0, <1>u DEF vars, envVars, memVars, agingVars, CtlType, DataType
<1> SUFFICES ASSUME NEW c \in CPU, CpuStep(c) PROVE CtlType' /\ DataType'
  BY <1>u DEF Next
<1> USE DEF envVars, agingVars
<1>1. CASE Boot(c)
  BY <1>0, <1>1, EnvRunType DEF Boot, DataType
<1>2. CASE MpMain(c)
  BY <1>0, <1>2 DEF MpMain, SpinLock, Panic, Goto, memVars, Places, CtlType, DataType
<1>3. CASE Scheduler(c)
  <2>1. CASE SchedPick(c)
    <3>1. PICK e \in Slots : EnvRun(c, e) /\ Aging(e)
      BY <2>1 DEF SchedPick, Runnable
    <3>2. CtlType'
      BY <1>0, <3>1, EnvRunType
    <3> QED BY <1>0, <2>1, <3>1, <3>2, AgingType DEF SchedPick, DataType
  <2>2. CASE SchedContinue(c)
    <3>1. curenv[c] \in Slots
      BY <1>0, <2>2 DEF SchedContinue, NothingToPick, CtlType
    <3>2. CtlType'
      BY <1>0, <2>2, <3>1, EnvRunType DEF SchedContinue
    <3> QED BY <1>0, <2>2, <3>2, AgingType DEF SchedContinue, DataType
  <2>3. CASE SchedHalt(c)
    <3>1. CtlType'
      BY <1>0, <2>3 DEF SchedHalt, SpinUnlock, Panic, Goto, memVars, Places, CtlType
    <3> QED BY <1>0, <2>3, <3>1, AgingType DEF SchedHalt, DataType
  <2>4. CASE SchedIdle(c)
    <3>1. CtlType'
      BY <1>0, <2>4 DEF SchedIdle, Goto, memVars, Places, CtlType
    <3> QED BY <1>0, <2>4, <3>1, AgingType DEF SchedIdle, DataType
  <2> QED BY <1>3, <2>1, <2>2, <2>3, <2>4 DEF Scheduler
<1>4. CASE ContextSwitch(c)
  BY <1>0, <1>4 DEF ContextSwitch, Goto, memVars, Places, CtlType, DataType, HasEnv
<1>5. CASE TrapPath(c)
  <2>1. CASE TrapEntry(c) \/ TrapDead(c) \/ WakeLock(c) \/ TrapLock(c) \/ Reschedule(c)
    BY <1>0, <2>1 DEF TrapEntry, TrapDead, WakeLock, TrapLock, Reschedule, SpinLock, Panic, Goto, memVars, Places, CtlType, DataType
  <2>2. CASE ReapZombie(c)
    BY <1>0, <2>2, EnvFreeType DEF ReapZombie, Goto, Places, CtlType, DataType, HasEnv
  <2>3. CASE Resume(c)
    <3>1. curenv[c] \in Slots
      BY <1>0, <2>3 DEF Resume, CanResume, CtlType
    <3> QED BY <1>0, <2>3, <3>1, EnvRunType DEF Resume, DataType
  <2> QED BY <1>5, <2>1, <2>2, <2>3 DEF TrapPath
<1>6. CASE Dispatch(c)
  <2>0. pc[c] = "dispatch" /\ curenv[c] \in Slots
    BY <1>0, <1>6 DEF Dispatch, Timer, Breakpoint, PageFault, BadTrap, Syscall, SysYield, SysOther, SysExofork, SysIpcRecv, SysEnvDestroy, SysEnvSetPgfaultUpcall, SysIpcTrySend, SysEnvLowerPriority, SysEnvSetStatus, Handles, HasEnv
  <2>q. ASSUME NEW p \in Places, NoEffect(c, p) PROVE CtlType' /\ DataType'
    BY <1>0, <2>q DEF NoEffect, Goto, memVars, CtlType, DataType
  <2>1. CASE Timer(c) \/ Breakpoint(c) \/ SysYield(c) \/ SysOther(c)
    BY <2>q, <2>1 DEF Timer, Breakpoint, SysYield, SysOther, Places
  <2>2. CASE SysIpcRecv(c)
    BY <1>0, <2>0, <2>2 DEF SysIpcRecv, Goto, memVars, Places, Statuses, CtlType, DataType
  <2>3. CASE PageFault(c)
    <3>1. DataType'
      BY <1>0, <2>3 DEF PageFault, DataType
    <3>2. CASE Panic(c) /\ UNCHANGED <<status, memVars, curenv, child>>
      BY <1>0, <3>1, <3>2 DEF Panic, Goto, memVars, Places, CtlType
    <3> QED BY <1>0, <2>0, <2>3, <3>1, <3>2, EnvRunType, EnvDestroyType DEF PageFault
  <2>4. CASE BadTrap(c)
    BY <1>0, <2>0, <2>4, EnvDestroyType DEF BadTrap, DataType
  <2>5. CASE SysExofork(c)
    <3>1. CASE NoEffect(c, "ret")
      BY <2>q, <3>1 DEF Places
    <3>2. CASE freeList # <<>> /\ EnvAlloc(c, "NOT_RUNNABLE") /\ Goto(c, "ret") /\ UNCHANGED <<curenv, cpuStatus, lock>>
      BY <1>0, <2>0, <3>2, EnvAllocType DEF SysInv, Goto, Places, CtlType, DataType
    <3> QED BY <2>5, <3>1, <3>2 DEF SysExofork
  <2>6. ASSUME NEW id \in EnvIds \cup {NoId}, SysEnvDestroy(c, id) \/ SysEnvSetPgfaultUpcall(c, id)
        PROVE  CtlType' /\ DataType'
    <3>1. CASE NoEffect(c, "ret")
      BY <2>q, <3>1 DEF Places
    <3>2. ASSUME NEW e \in Slots, EnvDestroy(c, e, "ret"), UNCHANGED <<envVars, agingVars, cpuStatus>>
          PROVE  CtlType' /\ DataType'
      BY <1>0, <3>2, EnvDestroyType DEF DataType
    <3> QED BY <1>0, <2>0, <2>6, <3>1, <3>2, EnvidType DEF SysEnvDestroy, SysEnvSetPgfaultUpcall, CtlType
  <2>7. ASSUME NEW id \in EnvIds \cup {NoId}, SysIpcTrySend(c, id)
        PROVE  CtlType' /\ DataType'
    <3>1. CASE NoEffect(c, "ret")
      BY <2>q, <3>1 DEF Places
    <3>2. CASE ~NoEffect(c, "ret")
      <4>1. PICK e \in Slots : /\ recving' = [recving EXCEPT ![e] = FALSE]
                              /\ status' = [status EXCEPT ![e] = "RUNNABLE"]
        BY <1>0, <2>0, <2>7, <3>2, EnvidType DEF SysIpcTrySend, CtlType
      <4>2. status' \in [Slots -> Statuses] /\ recving' \in [Slots -> BOOLEAN]
        BY <1>0, <4>1 DEF Statuses, CtlType, DataType
      <4> QED BY <1>0, <2>7, <3>2, <4>2, ZenonT(30) DEF SysIpcTrySend, Goto, memVars, Places, CtlType, DataType
    <3> QED BY <3>1, <3>2
  <2>8. ASSUME NEW id \in EnvIds \cup {NoId}, SysEnvLowerPriority(c, id)
        PROVE  CtlType' /\ DataType'
    <3>1. CASE NoEffect(c, "ret")
      BY <2>q, <3>1 DEF Places
    <3>2. ASSUME NEW e \in Slots, MayLower(e), prio' = [prio EXCEPT ![e] = @ - 1]
          PROVE  prio' \in [Slots -> MinPriority..HighestPriority]
      BY <1>0, <3>2, MinPriorityAssumption, HighestPriorityAssumption DEF MayLower, DataType
    <3>3. CASE ~NoEffect(c, "ret")
      <4>1. PICK e \in Slots : MayLower(e) /\ prio' = [prio EXCEPT ![e] = @ - 1]
        BY <1>0, <2>0, <2>8, <3>3, EnvidType DEF SysEnvLowerPriority, CtlType
      <4>2. CtlType'
        BY <1>0, <2>8, <3>3 DEF SysEnvLowerPriority, Goto, memVars, Places, CtlType
      <4> QED BY <1>0, <2>8, <3>2, <3>3, <4>1, <4>2 DEF SysEnvLowerPriority, DataType
    <3> QED BY <3>1, <3>3
  <2>9. ASSUME NEW id \in EnvIds \cup {NoId}, NEW st \in {"RUNNABLE", "NOT_RUNNABLE"}, SysEnvSetStatus(c, id, st)
        PROVE  CtlType' /\ DataType'
    <3>1. CASE NoEffect(c, "ret")
      BY <2>q, <3>1 DEF Places
    <3>2. CASE ~NoEffect(c, "ret")
      <4>1. PICK e \in Slots :
               /\ status' = [status EXCEPT ![e] = st]
               /\ child' = [child EXCEPT ![e] =
                               IF @ = "fresh" /\ st = "RUNNABLE" THEN "started" ELSE @]
        BY <1>0, <2>0, <2>9, <3>2, EnvidType DEF SysEnvSetStatus, CtlType
      <4>2. status' \in [Slots -> Statuses] /\ child' \in [Slots -> ChildStates]
        BY <1>0, <4>1 DEF Statuses, ChildStates, CtlType
      <4>3. Goto(c, "ret") /\ UNCHANGED <<envVars, memVars, agingVars, curenv, cpuStatus, lock>>
        BY <2>9, <3>2, Zenon DEF SysEnvSetStatus
      <4>4. pc' \in [CPU -> Places]
        BY <1>0, <4>3 DEF Goto, Places, CtlType
      <4> QED BY <1>0, <4>2, <4>3, <4>4 DEF memVars, envVars, agingVars, CtlType, DataType
    <3> QED BY <3>1, <3>2
  <2> QED BY <1>6, <2>1, <2>2, <2>3, <2>4, <2>5, <2>6, <2>7, <2>8, <2>9 DEF Dispatch, Syscall
<1> QED BY <1>1, <1>2, <1>3, <1>4, <1>5, <1>6 DEF CpuStep

-----------------------------------------------------------------------------
(***************************************************************************)
(* The big kernel lock.                                                    *)
(***************************************************************************)
LEMMA EnvRunLock ==
    ASSUME pc \in [CPU -> Places], LockOwner, NEW c \in CPU, NEW e \in Slots,
           pc[c] \in {"boot", "sched", "ret", "dispatch"}, EnvRun(c, e)
    PROVE  LockOwner'
BY CPUAssumption DEF EnvRun, SpinUnlock, Panic, Goto, LockOwner, InKernel

\* env_destroy() leaves the lock where it is.
LEMMA EnvDestroyLock ==
    ASSUME pc \in [CPU -> Places], LockOwner, NEW c \in CPU, NEW e,
           pc[c] = "dispatch", EnvDestroy(c, e, "ret")
    PROVE  LockOwner'
<1>1. lock' = lock
  BY DEF EnvDestroy, Panic
<1>2. \E p \in {"ret", "sched", "panic"} : Goto(c, p)
  BY DEF EnvDestroy, Panic
<1> QED BY <1>1, <1>2 DEF Goto, LockOwner, InKernel

\* Every step keeps the big lock and the places in agreement.
LEMMA LockStep == SysInv /\ [Next]_vars => LockOwner'
<1> SUFFICES ASSUME SysInv, NEW c \in CPU, CpuStep(c) PROVE LockOwner'
  BY DEF Next, SysInv, LockOwner, vars
<1>0. /\ pc \in [CPU -> Places] /\ curenv \in [CPU -> Slots \cup {NoEnv}]
      /\ LockOwner /\ HaltHandshake /\ HasEnv /\ 0 \in Slots
  <2>1. 0 \in Slots
    BY NENVAssumption DEF Slots
  <2> QED BY <2>1 DEF SysInv, TypeOK
<1>1. CASE Boot(c)
  BY <1>0, <1>1, EnvRunLock DEF Boot
<1>2. CASE MpMain(c)
  BY <1>0, <1>2, CPUAssumption DEF MpMain, SpinLock, Goto, LockOwner, InKernel, Panic
<1>3. CASE Scheduler(c)
  <2>1. CASE SchedPick(c)
    BY <1>0, <2>1, EnvRunLock DEF SchedPick, Runnable
  <2>2. CASE SchedContinue(c)
    BY <1>0, <2>2, EnvRunLock DEF SchedContinue, NothingToPick
  <2>3. CASE SchedHalt(c)
    BY <1>0, <2>3, CPUAssumption DEF SchedHalt, SpinUnlock, Goto, LockOwner, InKernel, Panic
  <2>4. CASE SchedIdle(c)
    BY <1>0, <2>4 DEF SchedIdle, Goto, LockOwner, InKernel
  <2> QED BY <1>3, <2>1, <2>2, <2>3, <2>4 DEF Scheduler
<1>4. CASE ContextSwitch(c)
  BY <1>0, <1>4 DEF ContextSwitch, Goto, LockOwner, InKernel
<1>5. CASE TrapPath(c)
  BY <1>0, <1>5, CPUAssumption, EnvRunLock DEF TrapPath, TrapEntry, TrapDead, WakeLock, TrapLock, ReapZombie, Resume, Reschedule, CanResume, SpinLock, Panic, Goto, HaltHandshake, LockOwner, InKernel, HasEnv
<1>6. CASE Dispatch(c)
  <2> USE DEF Handles
  <2>1. CASE Timer(c) \/ Breakpoint(c) \/ SysYield(c) \/ SysOther(c) \/ SysIpcRecv(c)
    BY <1>0, <2>1 DEF Timer, Breakpoint, SysYield, SysOther, SysIpcRecv, NoEffect, Goto, LockOwner, InKernel
  <2>2. CASE PageFault(c)
    BY <1>0, <2>2, EnvRunLock, EnvDestroyLock DEF PageFault, Panic, Goto, LockOwner, InKernel, HasEnv
  <2>3. CASE BadTrap(c)
    BY <1>0, <2>3, EnvDestroyLock DEF BadTrap
  <2>4. CASE SysExofork(c)
    BY <1>0, <2>4 DEF SysExofork, NoEffect, Goto, LockOwner, InKernel
  <2>5. ASSUME NEW id, SysEnvDestroy(c, id) \/ SysEnvSetPgfaultUpcall(c, id) PROVE LockOwner'
    BY <1>0, <2>5, EnvDestroyLock DEF SysEnvDestroy, SysEnvSetPgfaultUpcall, NoEffect, Goto, LockOwner, InKernel
  <2>6. ASSUME NEW id, SysIpcTrySend(c, id) \/ SysEnvLowerPriority(c, id) \/ \E st \in {"RUNNABLE", "NOT_RUNNABLE"} : SysEnvSetStatus(c, id, st) PROVE LockOwner'
    BY <1>0, <2>6 DEF SysIpcTrySend, SysEnvLowerPriority, SysEnvSetStatus, NoEffect, Goto, LockOwner, InKernel
  <2> QED BY <1>6, <2>1, <2>2, <2>3, <2>4, <2>5, <2>6 DEF Dispatch, Syscall
<1> QED BY <1>1, <1>2, <1>3, <1>4, <1>5, <1>6 DEF CpuStep

-----------------------------------------------------------------------------
(***************************************************************************)
(* The halt handshake and the current environment of each processor.       *)
(***************************************************************************)

\* What HaltHandshake and HasEnv say of one processor.
CpuFits(place, env, state) ==
    /\ place = "halted" => state = "HALTED"
    /\ state = "HALTED" => place \in {"halted", "dead"}
    /\ place \in {"boot", "apstart", "halted", "wake"} => env = NoEnv
    /\ place \in {"user", "acquire", "switch", "dispatch"} => env \in Slots

\* A step of c leaves the other processors alone.
LEMMA CpuFrame ==
    ASSUME HaltHandshake, HasEnv, NEW c \in CPU,
           \A d \in CPU \ {c} : /\ pc'[d] = pc[d] /\ curenv'[d] = curenv[d]
                                /\ cpuStatus'[d] = cpuStatus[d],
           CpuFits(pc'[c], curenv'[c], cpuStatus'[c])
    PROVE  HaltHandshake' /\ HasEnv'
BY DEF HaltHandshake, HasEnv, CpuFits

\* A step of a processor does not touch what belongs to another one.
LEMMA CpuStepFrame ==
    ASSUME TypeOK, NEW c \in CPU, CpuStep(c)
    PROVE  \A d \in CPU \ {c} : /\ pc'[d] = pc[d] /\ curenv'[d] = curenv[d]
                                /\ cpuStatus'[d] = cpuStatus[d]
<1> USE DEF TypeOK, Goto, Panic, SpinLock, SpinUnlock
<1>1. CASE Boot(c) \/ MpMain(c) \/ ContextSwitch(c)
  BY <1>1 DEF Boot, MpMain, ContextSwitch, EnvRun
<1>2. CASE Scheduler(c)
  BY <1>2 DEF Scheduler, SchedPick, SchedContinue, SchedHalt, SchedIdle, EnvRun
<1>3. CASE TrapPath(c)
  BY <1>3 DEF TrapPath, TrapEntry, TrapDead, WakeLock, TrapLock, ReapZombie, Resume, Reschedule, EnvRun
<1>4. CASE Dispatch(c)
  BY <1>4, ZenonT(30) DEF Dispatch, Timer, Breakpoint, PageFault, BadTrap, Syscall, SysYield, SysOther, SysExofork, SysIpcRecv, SysEnvDestroy, SysEnvSetPgfaultUpcall, SysIpcTrySend, SysEnvLowerPriority, SysEnvSetStatus, NoEffect, EnvDestroy, EnvRun
<1> QED BY <1>1, <1>2, <1>3, <1>4 DEF CpuStep

\* env_run() leaves the halt handshake of its processor in order.
LEMMA EnvRunFits ==
    ASSUME TypeOK, NEW c \in CPU, NEW e \in Slots, EnvRun(c, e),
           cpuStatus' = cpuStatus, cpuStatus[c] # "HALTED"
    PROVE  CpuFits(pc'[c], curenv'[c], cpuStatus'[c])
BY DEF TypeOK, EnvRun, SpinUnlock, Panic, Goto, CpuFits

\* So does env_destroy().
LEMMA EnvDestroyFits ==
    ASSUME TypeOK, NEW c \in CPU, NEW e, EnvDestroy(c, e, "ret"),
           cpuStatus' = cpuStatus, cpuStatus[c] # "HALTED"
    PROVE  CpuFits(pc'[c], curenv'[c], cpuStatus'[c])
<1>1. \E p \in {"ret", "sched", "panic"} : Goto(c, p)
  BY DEF EnvDestroy, Panic
<1> QED BY <1>1 DEF TypeOK, Goto, CpuFits

\* A step keeps the halt handshake of the processor that makes it.
LEMMA CpuStepStep ==
    ASSUME SysInv, NEW c \in CPU, CpuStep(c)
    PROVE  CpuFits(pc'[c], curenv'[c], cpuStatus'[c])
<1>0. /\ TypeOK /\ 0 \in Slots
      /\ pc[c] \notin {"halted", "dead"} => cpuStatus[c] # "HALTED"
      /\ pc[c] \in {"boot", "apstart", "halted", "wake"} => curenv[c] = NoEnv
      /\ pc[c] \in {"user", "acquire", "switch", "dispatch"} => curenv[c] \in Slots
      /\ lock = c <=> pc[c] \in InKernel
  <2>1. 0 \in Slots
    BY NENVAssumption DEF Slots
  <2> QED BY <2>1 DEF SysInv, HaltHandshake, HasEnv, LockOwner
<1>1. CASE Boot(c)
  BY <1>0, <1>1, EnvRunFits DEF Boot
<1>2. CASE MpMain(c)
  BY <1>0, <1>2 DEF TypeOK, MpMain, SpinLock, Panic, Goto, CpuFits
<1>3. CASE Scheduler(c)
  <2>1. CASE SchedPick(c)
    BY <1>0, <2>1, EnvRunFits DEF SchedPick, Runnable
  <2>2. CASE SchedContinue(c)
    BY <1>0, <2>2, EnvRunFits DEF TypeOK, SchedContinue, NothingToPick
  <2>3. CASE SchedHalt(c)
    BY <1>0, <2>3 DEF TypeOK, SchedHalt, SpinUnlock, Panic, Goto, CpuFits, InKernel
  <2>4. CASE SchedIdle(c)
    BY <1>0, <2>4 DEF TypeOK, SchedIdle, Goto, CpuFits
  <2> QED BY <1>3, <2>1, <2>2, <2>3, <2>4 DEF Scheduler
<1>4. CASE ContextSwitch(c)
  BY <1>0, <1>4 DEF TypeOK, ContextSwitch, Goto, CpuFits
<1>5. CASE TrapPath(c)
  <2>1. CASE TrapEntry(c) \/ TrapDead(c) \/ Reschedule(c)
    BY <1>0, <2>1 DEF TypeOK, TrapEntry, TrapDead, Reschedule, Goto, CpuFits
  <2>2. CASE WakeLock(c) \/ TrapLock(c) \/ ReapZombie(c)
    BY <1>0, <2>2 DEF TypeOK, WakeLock, TrapLock, ReapZombie, SpinLock, Panic, Goto, CpuFits
  <2>3. CASE Resume(c)
    BY <1>0, <2>3, EnvRunFits DEF TypeOK, Resume, CanResume
  <2> QED BY <1>5, <2>1, <2>2, <2>3 DEF TrapPath
<1>6. CASE Dispatch(c)
  <2>0. pc[c] = "dispatch"
    BY <1>6 DEF Dispatch, Timer, Breakpoint, PageFault, BadTrap, Syscall, SysYield, SysOther, SysExofork, SysIpcRecv, SysEnvDestroy, SysEnvSetPgfaultUpcall, SysIpcTrySend, SysEnvLowerPriority, SysEnvSetStatus, Handles
  <2>1. ASSUME NEW p \in {"ret", "sched", "debug", "panic"}, Goto(c, p), cpuStatus' = cpuStatus
        PROVE  CpuFits(pc'[c], curenv'[c], cpuStatus'[c])
    BY <1>0, <2>0, <2>1 DEF TypeOK, Goto, CpuFits
  <2>2. CASE PageFault(c)
    BY <1>0, <2>0, <2>1, <2>2, EnvRunFits, EnvDestroyFits DEF PageFault, Panic
  <2>3. CASE BadTrap(c)
    BY <1>0, <2>0, <2>3, EnvDestroyFits DEF BadTrap
  <2>4. CASE Timer(c) \/ Breakpoint(c) \/ SysYield(c) \/ SysOther(c) \/ SysExofork(c) \/ SysIpcRecv(c)
    BY <2>1, <2>4 DEF Timer, Breakpoint, SysYield, SysOther, SysExofork, SysIpcRecv, NoEffect
  <2>5. ASSUME NEW id, SysEnvDestroy(c, id) \/ SysEnvSetPgfaultUpcall(c, id)
        PROVE  CpuFits(pc'[c], curenv'[c], cpuStatus'[c])
    BY <1>0, <2>0, <2>1, <2>5, EnvDestroyFits DEF SysEnvDestroy, SysEnvSetPgfaultUpcall, NoEffect
  <2>6. ASSUME NEW id, SysIpcTrySend(c, id) \/ SysEnvLowerPriority(c, id)
                        \/ \E st \in {"RUNNABLE", "NOT_RUNNABLE"} : SysEnvSetStatus(c, id, st)
        PROVE  CpuFits(pc'[c], curenv'[c], cpuStatus'[c])
    BY <2>1, <2>6 DEF SysIpcTrySend, SysEnvLowerPriority, SysEnvSetStatus, NoEffect
  <2> QED BY <1>6, <2>2, <2>3, <2>4, <2>5, <2>6 DEF Dispatch, Syscall
<1> QED BY <1>1, <1>2, <1>3, <1>4, <1>5, <1>6 DEF CpuStep

\* Every step keeps the halt handshake.
LEMMA HandshakeStep == SysInv /\ [Next]_vars => HaltHandshake' /\ HasEnv'
<1>1. ASSUME SysInv, UNCHANGED vars PROVE HaltHandshake' /\ HasEnv'
  BY <1>1 DEF SysInv, HaltHandshake, HasEnv, vars
<1>2. ASSUME SysInv, NEW c \in CPU, CpuStep(c) PROVE HaltHandshake' /\ HasEnv'
  BY <1>2, CpuFrame, CpuStepFrame, CpuStepStep DEF SysInv
<1> QED BY <1>1, <1>2 DEF Next

-----------------------------------------------------------------------------
(***************************************************************************)
(* The free list and the address spaces.                                   *)
(***************************************************************************)

\* Putting a slot in front of an exact free list keeps it exact.
LEMMA PushFree ==
    ASSUME CtlType, FreeListExact, NEW e \in Slots, pgdir[e], EnvFree(e)
    PROVE  FreeListExact'
<1>1. freeList' = <<e>> \o freeList /\ pgdir' = [pgdir EXCEPT ![e] = FALSE]
  BY DEF EnvFree
<1>2. /\ Len(freeList') = Len(freeList) + 1
      /\ freeList'[1] = e
      /\ \A i \in 1..Len(freeList) : freeList'[i + 1] = freeList[i]
      /\ \A i \in 2..(Len(freeList) + 1) : freeList'[i] = freeList[i - 1]
  BY <1>1 DEF CtlType
<1>3. DOMAIN freeList = 1..Len(freeList) /\ DOMAIN freeList' = 1..(Len(freeList) + 1)
      /\ Len(freeList) \in Nat
  BY <1>1 DEF CtlType
<1>4. ASSUME NEW s \in Slots
      PROVE  ~pgdir'[s] <=> \E i \in DOMAIN freeList' : freeList'[i] = s
  <2>1. CASE s = e
    <3>1. ~pgdir'[e]
      BY <1>1 DEF CtlType
    <3>2. 1 \in DOMAIN freeList' /\ freeList'[1] = e
      BY <1>2, <1>3
    <3> QED BY <2>1, <3>1, <3>2
  <2>2. CASE s # e
    <3>1. pgdir'[s] = pgdir[s]
      BY <1>1, <2>2 DEF CtlType
    <3>2. (\E i \in DOMAIN freeList' : freeList'[i] = s)
          <=> (\E i \in DOMAIN freeList : freeList[i] = s)
      BY <1>2, <1>3, <2>2
    <3> QED BY <3>1, <3>2 DEF FreeListExact
  <2> QED BY <2>1, <2>2
<1>5. ASSUME NEW i \in DOMAIN freeList', NEW j \in DOMAIN freeList',
             freeList'[i] = freeList'[j]
      PROVE  i = j
  <2>1. \A k \in DOMAIN freeList : freeList[k] # e
    BY DEF FreeListExact
  <2>2. ASSUME NEW k \in DOMAIN freeList', k # 1
        PROVE  k - 1 \in DOMAIN freeList /\ freeList'[k] = freeList[k - 1]
    BY <1>2, <1>3, <2>2
  <2>3. i = 1 <=> j = 1
    BY <1>2, <1>5, <2>1, <2>2
  <2>4. CASE i # 1 /\ j # 1
    <3>1. i - 1 = j - 1
      BY <1>5, <2>2, <2>4 DEF FreeListExact
    <3> QED BY <1>3, <3>1
  <2> QED BY <2>3, <2>4
<1> QED BY <1>4, <1>5 DEF FreeListExact

\* Taking the first slot of an exact free list keeps it exact.
LEMMA PopFree ==
    ASSUME CtlType, FreeListExact, freeList # <<>>,
           freeList' = Tail(freeList),
           pgdir' = [pgdir EXCEPT ![Head(freeList)] = TRUE]
    PROVE  FreeListExact'
<1> DEFINE e == Head(freeList)
<1>1. /\ Len(freeList) \in Nat \ {0} /\ DOMAIN freeList = 1..Len(freeList)
      /\ DOMAIN freeList' = 1..(Len(freeList) - 1)
      /\ e = freeList[1] /\ e \in Slots
      /\ \A i \in 1..(Len(freeList) - 1) : freeList'[i] = freeList[i + 1]
  BY DEF CtlType
<1>2. ASSUME NEW s \in Slots
      PROVE  ~pgdir'[s] <=> \E i \in DOMAIN freeList' : freeList'[i] = s
  <2>1. CASE s = e
    <3>1. pgdir'[e]
      BY <1>1 DEF CtlType
    <3>2. ASSUME NEW i \in DOMAIN freeList', freeList'[i] = e PROVE FALSE
      <4>1. i + 1 \in DOMAIN freeList /\ 1 \in DOMAIN freeList
        BY <1>1
      <4>2. freeList[i + 1] = freeList[1]
        BY <1>1, <3>2
      <4>3. i + 1 = 1
        BY <4>1, <4>2 DEF FreeListExact
      <4> QED BY <1>1, <4>3
    <3> QED BY <2>1, <3>1, <3>2
  <2>2. CASE s # e
    <3>1. pgdir'[s] = pgdir[s]
      BY <1>1, <2>2 DEF CtlType
    <3>2. ASSUME NEW i \in DOMAIN freeList, freeList[i] = s
          PROVE  \E j \in DOMAIN freeList' : freeList'[j] = s
      <4>1. i - 1 \in DOMAIN freeList' /\ freeList'[i - 1] = freeList[i]
        BY <1>1, <2>2, <3>2
      <4> QED BY <3>2, <4>1
    <3> QED BY <1>1, <3>1, <3>2 DEF FreeListExact
  <2> QED BY <2>1, <2>2
<1>3. ASSUME NEW i \in DOMAIN freeList', NEW j \in DOMAIN freeList',
             freeList'[i] = freeList'[j]
      PROVE  i = j
  BY <1>1, <1>3 DEF FreeListExact
<1> QED BY <1>2, <1>3 DEF FreeListExact

\* The lock is free only while nobody has panicked: panic() keeps the lock.
LEMMA FreeLockNoPanic ==
    ASSUME SysInv, lock = NoCpu \/ \E c \in CPU : lock = c /\ pc[c] # "panic"
    PROVE  ~Panicked
BY CPUAssumption DEF SysInv, LockOwner, InKernel, Panicked

\* What a handler can count on, whatever the programs do.
LEMMA DispatchFacts ==
    ASSUME SysInv, NEW c \in CPU, Dispatch(c)
    PROVE  pc[c] = "dispatch" /\ curenv[c] \in Slots
BY DEF SysInv, Dispatch, Timer, Breakpoint, PageFault, BadTrap, Syscall, SysYield, SysOther, SysExofork, SysIpcRecv, SysEnvDestroy, SysEnvSetPgfaultUpcall, SysIpcTrySend, SysEnvLowerPriority, SysEnvSetStatus, Handles, HasEnv

\* A processor in panic() takes no step.
LEMMA PanicStays ==
    ASSUME SysInv, NEW c \in CPU, CpuStep(c)
    PROVE  pc[c] # "panic" /\ (Panicked => Panicked')
<1>1. pc[c] # "panic"
  <2>1. CASE Boot(c) \/ MpMain(c) \/ Scheduler(c) \/ ContextSwitch(c) \/ TrapPath(c)
    BY <2>1 DEF Boot, MpMain, Scheduler, SchedPick, SchedContinue, SchedHalt, SchedIdle, ContextSwitch, TrapPath, TrapEntry, TrapDead, WakeLock, TrapLock, ReapZombie, Resume, Reschedule
  <2> QED BY <2>1, DispatchFacts DEF CpuStep
<1> QED BY <1>1, CpuStepFrame DEF Panicked, SysInv

\* What a step does to the free list and to the address spaces.
LEMMA MemCases ==
    ASSUME SysInv, NEW c \in CPU, CpuStep(c)
    PROVE  \/ UNCHANGED memVars
           \/ \E e \in Slots : pgdir[e] /\ EnvFree(e)
           \/ freeList # <<>> /\ EnvAlloc(c, "NOT_RUNNABLE")
<1>1. CASE Boot(c) \/ MpMain(c) \/ Scheduler(c) \/ ContextSwitch(c)
  BY <1>1 DEF Boot, MpMain, Scheduler, SchedPick, SchedContinue, SchedHalt, SchedIdle, ContextSwitch, EnvRun
<1>2. CASE TrapPath(c)
  <2>1. CASE ReapZombie(c)
    <3>1. curenv[c] \in Slots
      BY <2>1 DEF ReapZombie, SysInv, HasEnv
    <3>2. pgdir[curenv[c]]
      BY <2>1, <3>1, FreeLockNoPanic DEF ReapZombie, IsZombie, SysInv, PagesOrPanic
    <3> QED BY <2>1, <3>1, <3>2 DEF ReapZombie
  <2> QED BY <1>2, <2>1 DEF TrapPath, TrapEntry, TrapDead, WakeLock, TrapLock, Resume, Reschedule, EnvRun
<1>3. CASE Dispatch(c)
  <2>1. ASSUME NEW e \in Slots, EnvDestroy(c, e, "ret")
        PROVE  UNCHANGED memVars \/ (pgdir[e] /\ EnvFree(e))
    BY <2>1 DEF EnvDestroy
  <2>2. curenv[c] \in Slots /\ status \in [Slots -> Statuses]
    BY <1>3, DispatchFacts DEF SysInv, TypeOK
  <2>3. ASSUME NEW id \in EnvIds \cup {NoId}, SysEnvDestroy(c, id) \/ SysEnvSetPgfaultUpcall(c, id)
        PROVE  UNCHANGED memVars \/ \E e \in Slots : pgdir[e] /\ EnvFree(e)
    BY <2>1, <2>2, <2>3, EnvidType DEF SysEnvDestroy, SysEnvSetPgfaultUpcall, NoEffect
  <2>4. CASE PageFault(c) \/ BadTrap(c)
    BY <2>1, <2>2, <2>4 DEF PageFault, BadTrap, EnvRun
  <2>5. CASE SysExofork(c)
    BY <2>5 DEF SysExofork, NoEffect
  <2>6. CASE Timer(c) \/ Breakpoint(c) \/ SysYield(c) \/ SysOther(c) \/ SysIpcRecv(c)
    BY <2>6 DEF Timer, Breakpoint, SysYield, SysOther, SysIpcRecv, NoEffect
  <2>7. ASSUME NEW id, SysIpcTrySend(c, id) \/ SysEnvLowerPriority(c, id)
                        \/ \E st \in {"RUNNABLE", "NOT_RUNNABLE"} : SysEnvSetStatus(c, id, st)
        PROVE  UNCHANGED memVars
    BY <2>7 DEF SysIpcTrySend, SysEnvLowerPriority, SysEnvSetStatus, NoEffect
  <2> QED BY <1>3, <2>3, <2>4, <2>5, <2>6, <2>7 DEF Dispatch, Syscall
<1> QED BY <1>1, <1>2, <1>3 DEF CpuStep

\* Every step keeps the free list exact.
LEMMA FreeListStep == SysInv /\ [Next]_vars => FreeListExact'
<1>0. ASSUME SysInv PROVE CtlType /\ FreeListExact
  BY <1>0, TypeParts DEF SysInv
<1>1. ASSUME SysInv, UNCHANGED memVars PROVE FreeListExact'
  BY <1>0, <1>1 DEF memVars, FreeListExact
<1>2. ASSUME SysInv, NEW c \in CPU, CpuStep(c) PROVE FreeListExact'
  <2>1. CASE \E e \in Slots : pgdir[e] /\ EnvFree(e)
    BY <1>0, <1>2, <2>1, PushFree
  <2>2. CASE freeList # <<>> /\ EnvAlloc(c, "NOT_RUNNABLE")
    BY <1>0, <1>2, <2>2, PopFree DEF EnvAlloc
  <2> QED BY <1>1, <1>2, <2>1, <2>2, MemCases
<1> QED BY <1>1, <1>2 DEF Next, vars

\* env_run() executes nothing without an address space, or panics.
LEMMA EnvRunPages ==
    ASSUME CtlType, PagesOrPanic, NEW c \in CPU, NEW e \in Slots, EnvRun(c, e),
           Panicked => Panicked'
    PROVE  PagesOrPanic'
<1>1. /\ status' = [Preempted(c) EXCEPT ![e] = "RUNNING"] /\ pgdir' = pgdir
      /\ pgdir[e] \/ Panicked'
  BY DEF EnvRun, memVars, Panic, Goto, Panicked, CtlType
<1> QED BY <1>1 DEF PagesOrPanic, Preempted, CtlType

\* env_free() leaves nothing executable without an address space.
LEMMA EnvFreePages ==
    ASSUME CtlType, PagesOrPanic, NEW e \in Slots, EnvFree(e),
           Panicked => Panicked'
    PROVE  PagesOrPanic'
BY DEF EnvFree, PagesOrPanic, CtlType

\* Nor does env_destroy().
LEMMA EnvDestroyPages ==
    ASSUME CtlType, PagesOrPanic, NEW c \in CPU, NEW e \in Slots,
           EnvDestroy(c, e, "ret"), Panicked => Panicked'
    PROVE  PagesOrPanic'
<1>1. CASE RunsElsewhere(c, e)
  BY <1>1 DEF EnvDestroy, RunsElsewhere, memVars, PagesOrPanic, CtlType
<1>2. CASE ~RunsElsewhere(c, e) /\ pgdir[e]
  BY <1>2, EnvFreePages DEF EnvDestroy
<1>3. CASE ~RunsElsewhere(c, e) /\ ~pgdir[e]
  BY <1>3 DEF EnvDestroy, memVars, PagesOrPanic
<1> QED BY <1>1, <1>2, <1>3

\* Every step keeps PagesOrPanic.
LEMMA PagesStep == SysInv /\ [Next]_vars => PagesOrPanic'
<1>1. ASSUME SysInv, UNCHANGED vars PROVE PagesOrPanic'
  BY <1>1 DEF SysInv, PagesOrPanic, Panicked, vars, memVars
<1> SUFFICES ASSUME SysInv, NEW c \in CPU, CpuStep(c) PROVE PagesOrPanic'
  BY <1>1 DEF Next
<1>2. CtlType /\ PagesOrPanic /\ (Panicked => Panicked') /\ 0 \in Slots
  <2>1. 0 \in Slots
    BY NENVAssumption DEF Slots
  <2> QED BY <2>1, TypeParts, PanicStays DEF SysInv
<1>q. ASSUME UNCHANGED <<status, memVars>> PROVE PagesOrPanic'
  BY <1>2, <1>q DEF PagesOrPanic, memVars
<1>s. ASSUME NEW e \in Slots, NEW st \in {"RUNNABLE", "NOT_RUNNABLE"},
             status' = [status EXCEPT ![e] = st], UNCHANGED memVars
      PROVE  PagesOrPanic'
  BY <1>2, <1>s DEF PagesOrPanic, memVars, CtlType
<1>3. CASE Boot(c) \/ MpMain(c) \/ ContextSwitch(c)
  BY <1>2, <1>3, <1>q, EnvRunPages DEF Boot, MpMain, ContextSwitch
<1>4. CASE Scheduler(c)
  <2>1. CASE SchedPick(c) \/ SchedContinue(c)
    BY <1>2, <2>1, EnvRunPages DEF SchedPick, Runnable, SchedContinue, NothingToPick, CtlType
  <2> QED BY <1>4, <1>q, <2>1 DEF Scheduler, SchedHalt, SchedIdle
<1>5. CASE TrapPath(c)
  <2>1. CASE ReapZombie(c)
    BY <1>2, <2>1, EnvFreePages DEF ReapZombie, SysInv, HasEnv
  <2>2. CASE Resume(c)
    BY <1>2, <2>2, EnvRunPages DEF Resume, CanResume, CtlType
  <2> QED BY <1>5, <1>q, <2>1, <2>2 DEF TrapPath, TrapEntry, TrapDead, WakeLock, TrapLock, Reschedule
<1>6. CASE Dispatch(c)
  <2>0. curenv[c] \in Slots /\ status \in [Slots -> Statuses]
    BY <1>2, <1>6, DispatchFacts DEF CtlType
  <2>1. CASE PageFault(c) \/ BadTrap(c)
    BY <1>2, <1>q, <2>0, <2>1, EnvRunPages, EnvDestroyPages DEF PageFault, BadTrap
  <2>2. CASE SysExofork(c)
    <3>1. CASE freeList # <<>> /\ EnvAlloc(c, "NOT_RUNNABLE")
      <4>1. Head(freeList) \in Slots
        BY <1>2, <3>1 DEF CtlType
      <4> QED BY <1>2, <3>1, <4>1 DEF EnvAlloc, PagesOrPanic, CtlType
    <3> QED BY <1>q, <2>2, <3>1 DEF SysExofork, NoEffect
  <2>3. CASE Timer(c) \/ Breakpoint(c) \/ SysYield(c) \/ SysOther(c) \/ SysIpcRecv(c)
    BY <1>q, <1>s, <2>0, <2>3 DEF Timer, Breakpoint, SysYield, SysOther, SysIpcRecv, NoEffect
  <2>4. ASSUME NEW id \in EnvIds \cup {NoId}, SysEnvDestroy(c, id) \/ SysEnvSetPgfaultUpcall(c, id)
        PROVE  PagesOrPanic'
    BY <1>2, <1>q, <2>0, <2>4, EnvidType, EnvDestroyPages DEF SysEnvDestroy, SysEnvSetPgfaultUpcall, NoEffect
  <2>5. ASSUME NEW id \in EnvIds \cup {NoId}, SysIpcTrySend(c, id) \/ SysEnvLowerPriority(c, id)
        PROVE  PagesOrPanic'
    BY <1>q, <1>s, <2>0, <2>5, EnvidType DEF SysIpcTrySend, SysEnvLowerPriority, NoEffect
  <2>6. ASSUME NEW id \in EnvIds \cup {NoId}, NEW st \in {"RUNNABLE", "NOT_RUNNABLE"}, SysEnvSetStatus(c, id, st)
        PROVE  PagesOrPanic'
    BY <1>q, <1>s, <2>0, <2>6, EnvidType DEF SysEnvSetStatus, NoEffect
  <2> QED BY <1>6, <2>1, <2>2, <2>3, <2>4, <2>5, <2>6 DEF Dispatch, Syscall
<1> QED BY <1>3, <1>4, <1>5, <1>6 DEF CpuStep

\* The state after boot satisfies the invariant.
LEMMA SysInit == Init => SysInv
<1> SUFFICES ASSUME Init PROVE SysInv
  OBVIOUS
<1> USE NENVAssumption, CPUAssumption, InitEnvsAssumption, MaxGenAssumption, MinPriorityAssumption, HighestPriorityAssumption, MaxWaitTimeAssumption DEF Init
<1>1. TypeOK
  <2>1. CtlType
    <3>1. freeList \in Seq(Slots)
      BY DEF Slots
    <3> QED BY <3>1 DEF CtlType, Slots, Statuses, Places, ChildStates
  <2>2. DataType
    BY DEF DataType, Slots, NoId
  <2> QED BY <2>1, <2>2, TypeParts
<1>2. LockOwner /\ HaltHandshake /\ HasEnv
  BY DEF LockOwner, HaltHandshake, HasEnv, InKernel
<1>3. FreeListExact
  <2>1. DOMAIN freeList = 1..(NENV - InitEnvs)
    OBVIOUS
  <2>2. \A i \in 1..(NENV - InitEnvs) : freeList[i] = InitEnvs + i - 1
    OBVIOUS
  <2>3. ASSUME NEW e \in Slots
        PROVE  ~pgdir[e] <=> \E i \in DOMAIN freeList : freeList[i] = e
    <3>0. e \in Int /\ 0 <= e /\ e <= NENV - 1 /\ InitEnvs \in Int
      BY DEF Slots
    <3>1. ~pgdir[e] <=> e >= InitEnvs
      <4>1. pgdir[e] <=> e < InitEnvs
        BY Zenon
      <4>2. ~(e < InitEnvs) <=> e >= InitEnvs
        BY <3>0
      <4> QED BY <4>1, <4>2, Zenon
    <3>2. ASSUME e >= InitEnvs PROVE \E i \in DOMAIN freeList : freeList[i] = e
      <4>1. e - InitEnvs + 1 \in 1..(NENV - InitEnvs)
        BY <3>0, <3>2
      <4>2. freeList[e - InitEnvs + 1] = e
        BY <2>2, <3>0, <4>1
      <4> QED BY <2>1, <4>1, <4>2
    <3>3. ASSUME NEW i \in DOMAIN freeList, freeList[i] = e PROVE e >= InitEnvs
      BY <2>1, <2>2, <3>0, <3>3
    <3> QED BY <3>1, <3>2, <3>3
  <2>4. ASSUME NEW i \in DOMAIN freeList, NEW j \in DOMAIN freeList, freeList[i] = freeList[j]
        PROVE  i = j
    BY <2>1, <2>2, <2>4
  <2> QED BY <2>3, <2>4 DEF FreeListExact
<1>4. PagesOrPanic
  BY DEF PagesOrPanic
<1> QED BY <1>1, <1>2, <1>3, <1>4 DEF SysInv

-----------------------------------------------------------------------------
(***************************************************************************)
(* The scan of sched_yield() with SCHED_PRIORITIES.  MaxE is a recursive   *)
(* function: its value at each slot is reached by induction on the scan.   *)
(***************************************************************************)
\* Induction over the naturals, for a set S that has 0 and every successor.
LEMMA Induction ==
    ASSUME NEW S, 0 \in S, \A n \in Nat : n \in S => n + 1 \in S
    PROVE  Nat \subseteq S
<1> DEFINE T == {n \in Nat : n \notin S}
<1> SUFFICES ASSUME T # {} PROVE FALSE
  OBVIOUS
<1>1. \E m \in T : \A k \in T : ~(k < m)
  <2>1. PICK m \in T : \A k \in T : <<k, m>> \notin OpToRel(<, Nat)
    BY WFMin, NatLessThanWellFounded, Zenon
  <2>2. \A k \in T : ~(k < m)
    BY <2>1, Zenon DEF OpToRel
  <2> QED BY <2>2, Zenon
<1>2. PICK m \in T : \A k \in T : ~(k < m)
  BY <1>1
<1>3. m \in Nat /\ m # 0 /\ m - 1 \in Nat /\ m - 1 < m
  OBVIOUS
<1>4. m - 1 \in S
  BY <1>2, <1>3
<1> QED BY <1>3, <1>4

\* The scan goes round all slots.
LEMMA ScanIsCircular ==
    ASSUME NEW start \in Slots
    PROVE  /\ \A i \in 1..NENV : CircularSlot(start, i) \in Slots
           /\ \A e \in Slots : \E i \in 1..NENV : CircularSlot(start, i) = e
<1>1. \A i \in 1..NENV : CircularSlot(start, i) \in Slots
  BY NENVAssumption DEF CircularSlot, Slots
<1>2. ASSUME NEW e \in Slots PROVE \E i \in 1..NENV : CircularSlot(start, i) = e
  <2>1. CASE e > start
    <3>1. e - start \in 1..NENV /\ CircularSlot(start, e - start) = e
      BY <2>1, NENVAssumption DEF CircularSlot, Slots
    <3> QED BY <3>1
  <2>2. CASE ~(e > start)
    <3>1. e + NENV - start \in 1..NENV /\ CircularSlot(start, e + NENV - start) = e
      BY <2>2, NENVAssumption DEF CircularSlot, Slots
    <3> QED BY <3>1
  <2> QED BY <2>1, <2>2
<1> QED BY <1>1, <1>2

\* max_e of the scan at each of its first k slots.
IsScan(run, pri, waited, start, max_e, k) ==
    /\ max_e = [i \in 0..k |-> max_e[i]]
    /\ max_e[0] = NoEnv
    /\ \A i \in 1..k : max_e[i] = MaxOf(run, pri, waited, max_e[i - 1], CircularSlot(start, i))

\* The scan up to any slot has a function max_e.
LEMMA ScanIsDefined ==
    ASSUME NEW run, NEW pri, NEW waited, NEW start, NEW n \in Nat
    PROVE  \E g : IsScan(run, pri, waited, start, g, n)
<1> DEFINE S == {k \in Nat : \E g : IsScan(run, pri, waited, start, g, k)}
<1>1. 0 \in S
  <2> DEFINE g == [i \in 0..0 |-> NoEnv]
  <2>1. IsScan(run, pri, waited, start, g, 0)
    BY DEF IsScan
  <2> QED BY <2>1, Zenon
<1>2. ASSUME NEW k \in Nat, k \in S PROVE k + 1 \in S
  <2>1. PICK g : IsScan(run, pri, waited, start, g, k)
    BY <1>2
  <2>2. \E h : IsScan(run, pri, waited, start, h, k + 1)
    <3> PICK x : x = MaxOf(run, pri, waited, g[k], CircularSlot(start, k + 1))
      OBVIOUS
    <3> DEFINE h == [i \in 0..(k + 1) |-> IF i = k + 1 THEN x ELSE g[i]]
    <3>1. \A i \in 0..k : h[i] = g[i]
      OBVIOUS
    <3>2. h[k + 1] = x /\ h = [i \in 0..(k + 1) |-> h[i]]
      OBVIOUS
    <3> HIDE DEF h
    <3>3. ASSUME NEW i \in 1..(k + 1)
          PROVE  h[i] = MaxOf(run, pri, waited, h[i - 1], CircularSlot(start, i))
      <4>1. CASE i = k + 1
        <5>1. h[i - 1] = g[k]
          BY <3>1, <4>1
        <5> QED BY <3>2, <4>1, <5>1
      <4>2. CASE i # k + 1
        <5>1. i \in 1..k /\ i \in 0..k /\ i - 1 \in 0..k
          BY <4>2
        <5>2. g[i] = MaxOf(run, pri, waited, g[i - 1], CircularSlot(start, i))
          BY <2>1, <5>1 DEF IsScan
        <5> QED BY <3>1, <5>1, <5>2
      <4> QED BY <4>1, <4>2
    <3>4. h[0] = NoEnv
      <4>1. g[0] = NoEnv /\ 0 \in 0..k
        BY <2>1 DEF IsScan
      <4> QED BY <3>1, <4>1
    <3>5. IsScan(run, pri, waited, start, h, k + 1)
      BY <3>2, <3>3, <3>4, Zenon DEF IsScan
    <3> QED BY <3>5, Zenon
  <2> QED BY <2>2
<1>3. Nat \subseteq S
  <2> HIDE DEF S
  <2> QED BY <1>1, <1>2, Induction
<1> QED BY <1>3

\* What MaxE chooses is max_e at the last slot of the scan.
LEMMA MaxIsScanned ==
    ASSUME NEW run, NEW pri, NEW waited, NEW start
    PROVE  \E g : /\ IsScan(run, pri, waited, start, g, NENV)
                  /\ g[NENV] = MaxE(run, pri, waited, start)
<1>1. \E g : g = [i \in 0..NENV |-> IF i = 0 THEN NoEnv
                                    ELSE MaxOf(run, pri, waited, g[i - 1], CircularSlot(start, i))]
  <2>1. PICK g : IsScan(run, pri, waited, start, g, NENV)
    BY ScanIsDefined, NENVAssumption
  <2>2. ASSUME NEW i \in 0..NENV
        PROVE  g[i] = IF i = 0 THEN NoEnv
                      ELSE MaxOf(run, pri, waited, g[i - 1], CircularSlot(start, i))
    <3>1. CASE i = 0
      BY <2>1, <3>1, Zenon DEF IsScan
    <3>2. CASE i # 0
      <4>1. i \in 1..NENV
        BY <3>2, NENVAssumption
      <4> QED BY <2>1, <3>2, <4>1, Zenon DEF IsScan
    <3> QED BY <3>1, <3>2
  <2>3. g = [i \in 0..NENV |-> g[i]]
    BY <2>1, Zenon DEF IsScan
  <2>4. g = [i \in 0..NENV |-> IF i = 0 THEN NoEnv
                               ELSE MaxOf(run, pri, waited, g[i - 1], CircularSlot(start, i))]
    BY <2>2, <2>3, Zenon
  <2> QED BY <2>4, Zenon
<1> DEFINE max_e[i \in 0..NENV] ==
             IF i = 0 THEN NoEnv
             ELSE MaxOf(run, pri, waited, max_e[i - 1], CircularSlot(start, i))
<1>2. MaxE(run, pri, waited, start) = max_e[NENV]
  BY DEF MaxE
<1>3. max_e = [i \in 0..NENV |-> IF i = 0 THEN NoEnv
                               ELSE MaxOf(run, pri, waited, max_e[i - 1], CircularSlot(start, i))]
  BY <1>1, Zenon
<1> HIDE DEF max_e
<1>4. \A i \in 0..NENV : max_e[i] = IF i = 0 THEN NoEnv
                         ELSE MaxOf(run, pri, waited, max_e[i - 1], CircularSlot(start, i))
  BY <1>3, Zenon
<1>5. max_e = [i \in 0..NENV |-> max_e[i]]
  BY <1>3, <1>4, Zenon
<1>6. max_e[0] = NoEnv /\ \A i \in 1..NENV : max_e[i] = MaxOf(run, pri, waited, max_e[i - 1], CircularSlot(start, i))
  BY <1>4, NENVAssumption
<1>7. IsScan(run, pri, waited, start, max_e, NENV)
  BY <1>5, <1>6, Zenon DEF IsScan
<1> QED BY <1>2, <1>7, Zenon

\* The environment max_e ends with can run, and no one that can run had a
\* priority above the one it has once it is aged.
LEMMA MaxIsNearTop ==
    ASSUME NEW run \in SUBSET Slots, NEW pri \in [Slots -> Int], NEW waited \in [Slots -> Int],
           NEW start \in Slots, run # {}
    PROVE  LET e == MaxE(run, pri, waited, start)
           IN  e \in run /\ \A f \in run : pri[f] <= AgedPriority(pri[e], waited[e])
<1>1. PICK g : /\ g[0] = NoEnv /\ g[NENV] = MaxE(run, pri, waited, start)
               /\ \A i \in 1..NENV : g[i] = MaxOf(run, pri, waited, g[i - 1], CircularSlot(start, i))
  BY MaxIsScanned DEF IsScan
<1> DEFINE Above(k) == /\ g[k] \in run \union {NoEnv}
                       /\ \A j \in 1..k : CircularSlot(start, j) \in run =>
                             /\ g[k] # NoEnv
                             /\ pri[CircularSlot(start, j)] <= AgedPriority(pri[g[k]], waited[g[k]])
           S == {k \in Nat : k <= NENV => Above(k)}
<1>2. \A e \in Slots : /\ e # NoEnv /\ pri[e] \in Int /\ AgedPriority(pri[e], waited[e]) \in Int
                        /\ pri[e] <= AgedPriority(pri[e], waited[e])
  BY HighestPriorityAssumption, MaxWaitTimeAssumption, NENVAssumption DEF AgedPriority, RaisePriority, Slots, NoEnv
<1>3. 0 \in S
  BY <1>1
<1>4. ASSUME NEW k \in Nat, k \in S PROVE k + 1 \in S
  <2> SUFFICES ASSUME k + 1 <= NENV PROVE Above(k + 1)
    OBVIOUS
  <2> PICK idx : idx = CircularSlot(start, k + 1)
    OBVIOUS
  <2>1. Above(k) /\ k + 1 \in 1..NENV /\ idx \in Slots
    BY <1>4, ScanIsCircular, NENVAssumption
  <2>2. g[k + 1] = MaxOf(run, pri, waited, g[k], idx)
    BY <1>1, <2>1
  <2>3. \A j \in 1..k : CircularSlot(start, j) \in Slots
    BY <2>1, ScanIsCircular, NENVAssumption
  <2>4. \A j \in 1..(k + 1) : j \in 1..k \/ j = k + 1
    OBVIOUS
  <2>5. CASE idx \in run /\ (g[k] = NoEnv \/ pri[idx] > AgedPriority(pri[g[k]], waited[g[k]]))
    <3>1. g[k + 1] = idx
      BY <2>2, <2>5 DEF MaxOf
    <3>2. ASSUME NEW j \in 1..k, CircularSlot(start, j) \in run
          PROVE  pri[CircularSlot(start, j)] <= AgedPriority(pri[idx], waited[idx])
      <4>1. g[k] \in Slots /\ pri[CircularSlot(start, j)] <= AgedPriority(pri[g[k]], waited[g[k]])
            /\ pri[idx] > AgedPriority(pri[g[k]], waited[g[k]])
        BY <2>1, <2>5, <3>2
      <4> QED BY <1>2, <2>1, <2>3, <4>1
    <3> QED BY <1>2, <2>1, <2>4, <2>5, <3>1, <3>2
  <2>6. CASE ~(idx \in run /\ (g[k] = NoEnv \/ pri[idx] > AgedPriority(pri[g[k]], waited[g[k]])))
    <3>1. g[k + 1] = g[k]
      BY <2>2, <2>6 DEF MaxOf
    <3>2. idx \in run => g[k] # NoEnv /\ pri[idx] <= AgedPriority(pri[g[k]], waited[g[k]])
      BY <1>2, <2>1, <2>6
    <3> QED BY <2>1, <2>4, <3>1, <3>2
  <2> QED BY <2>5, <2>6
<1>5. Nat \subseteq S
  <2> HIDE DEF S
  <2> QED BY <1>3, <1>4, Induction
<1>6. Above(NENV)
  BY <1>5, NENVAssumption
<1>7. \A f \in run : \E j \in 1..NENV : CircularSlot(start, j) = f
  BY ScanIsCircular
<1> QED BY <1>1, <1>6, <1>7
\* The step by which a processor runs an environment it picked is the scan's.
LEMMA PickIsScanned ==
    ASSUME SysInv, [Next]_vars, Policy = "PRIO", NEW c \in CPU, Picks(c)
    PROVE  curenv'[c] = MaxE(Runnable, prio, wait, ScanStart(c)) /\ Runnable # {}
<1>0. TypeOK /\ ~UNCHANGED vars
  BY DEF SysInv, Picks, vars
<1>1. CpuStep(c)
  <2>1. PICK d \in CPU : CpuStep(d)
    BY <1>0 DEF Next
  <2>2. d = c
    BY <1>0, <2>1, CpuStepFrame DEF Picks
  <2> QED BY <2>1, <2>2
<1>2. pc[c] = "sched"
  BY DEF Picks
<1>3. Scheduler(c)
  <2>1. ~Boot(c) /\ ~MpMain(c) /\ ~ContextSwitch(c)
    BY <1>2 DEF Boot, MpMain, ContextSwitch
  <2>2. ~TrapPath(c)
    BY <1>2 DEF TrapPath, TrapEntry, TrapDead, WakeLock, TrapLock, ReapZombie, Resume, Reschedule
  <2>3. ~Dispatch(c)
    BY <1>2 DEF Dispatch, Timer, Breakpoint, PageFault, BadTrap, Syscall, SysYield, SysOther, SysExofork, SysIpcRecv, SysEnvDestroy, SysEnvSetPgfaultUpcall, SysIpcTrySend, SysEnvLowerPriority, SysEnvSetStatus, Handles
  <2> QED BY <1>1, <2>1, <2>2, <2>3 DEF CpuStep
<1>4. ASSUME NEW e \in Slots, EnvRun(c, e) PROVE curenv'[c] = e
  <2>1. pc'[c] = "switch"
    BY DEF Picks
  <2> QED BY <1>0, <1>4, <2>1 DEF TypeOK, EnvRun, SpinUnlock, Panic, Goto
<1>5. CASE SchedPick(c)
  BY <1>4, <1>5 DEF SchedPick, Picked, Runnable
<1>6. CASE SchedContinue(c)
  <2>1. curenv[c] \in Slots /\ status[curenv[c]] = "RUNNING"
    BY <1>0, <1>6 DEF TypeOK, SchedContinue, NothingToPick
  <2> QED BY <1>4, <1>6, <2>1 DEF SchedContinue, Picks
<1>7. ~SchedHalt(c) /\ ~SchedIdle(c)
  <2>1. pc'[c] = "switch"
    BY DEF Picks
  <2> QED BY <1>0, <2>1 DEF TypeOK, SchedHalt, SchedIdle, SpinUnlock, Panic, Goto
<1> QED BY <1>3, <1>5, <1>6, <1>7 DEF Scheduler

-----------------------------------------------------------------------------
\* Whatever the programs do: every variable keeps its type, the big lock is
\* owned by exactly the processor that works in the kernel, the halt handshake
\* never takes the lock twice, the free list is exact, and what can be executed
\* has an address space.
THEOREM SystemInvariant == Spec => []SysInv
<1>1. SysInv /\ [Next]_vars => SysInv'
  BY TypeStep, LockStep, HandshakeStep, FreeListStep, PagesStep DEF SysInv
<1> QED BY SysInit, <1>1, PTL DEF Spec

\* Every variable keeps to its type, whatever the programs do.
THEOREM TypeCorrect == Spec => []TypeOK
BY SystemInvariant, PTL DEF SysInv

\* A processor works on the environment table exactly while it owns the big
\* lock, whatever the programs do.
THEOREM LockOwned == Spec => []LockOwner
BY SystemInvariant, PTL DEF SysInv

\* cpu_status is HALTED exactly while the processor is halted, so trap() never
\* takes the lock twice or forgets to take it, whatever the programs do.
THEOREM HaltIsHandshake == Spec => []HaltHandshake
BY SystemInvariant, PTL DEF SysInv

\* The free list holds the slots without address space, each once, whatever the
\* programs do: no slot leaks and none is handed out twice.
THEOREM FreeListIsExact == Spec => []FreeListExact
BY SystemInvariant, PTL DEF SysInv

\* Nothing is executed without an address space, whatever the programs do.
THEOREM PagesThere == Spec => []PagesOrPanic
BY SystemInvariant, PTL DEF SysInv

\* With priorities, no runnable environment is above the one sched_yield() picks
\* once that one is aged, for any number of slots and whatever the programs do.
THEOREM PicksNearTop == Policy = "PRIO" => (Spec => PicksNearTopPriority)
<1> SUFFICES ASSUME Policy = "PRIO" PROVE Spec => PicksNearTopPriority
  OBVIOUS
<1> DEFINE NearTop == \A c \in CPU : Picks(c) =>
                         LET e == curenv'[c]
                         IN  \A f \in Runnable : prio[f] <= AgedPriority(prio[e], wait[e])
<1>1. ASSUME SysInv, [Next]_vars PROVE NearTop
  <2> SUFFICES ASSUME NEW c \in CPU, Picks(c)
               PROVE  \A f \in Runnable : prio[f] <= AgedPriority(prio[curenv'[c]], wait[curenv'[c]])
    OBVIOUS
  <2>1. curenv'[c] = MaxE(Runnable, prio, wait, ScanStart(c)) /\ Runnable # {}
    BY <1>1, PickIsScanned
  <2>2. TypeOK /\ ScanStart(c) \in Slots /\ Runnable \in SUBSET Slots
    <3>1. TypeOK /\ 0 \in Slots
      BY <1>1, NENVAssumption DEF SysInv, Slots
    <3> QED BY <3>1 DEF TypeOK, ScanStart, Runnable
  <2>3. prio \in [Slots -> Int] /\ wait \in [Slots -> Int]
    BY <2>2, MinPriorityAssumption, HighestPriorityAssumption, MaxWaitTimeAssumption DEF TypeOK
  <2> QED BY <2>1, <2>2, <2>3, MaxIsNearTop
<1>2. SysInv /\ [Next]_vars => [NearTop]_vars
  BY <1>1
<1> QED BY <1>2, SystemInvariant, PTL DEF Spec, PicksNearTopPriority

-----------------------------------------------------------------------------
(***************************************************************************)
(* What holds as long as the programs use the calls the way lib/ and user/ *)
(* do, for any number of processors and of slots.                          *)
(***************************************************************************)

\* The slots with an address space are the slots in use.
LiveSlots == \A e \in Slots : pgdir[e] <=> status[e] # "FREE"

\* A processor never has a free slot as its current environment, and handles
\* the traps of a running one.
CurenvLive ==
    \A c \in CPU : /\ curenv[c] # NoEnv => status[curenv[c]] # "FREE"
                   /\ pc[c] = "dispatch" => status[curenv[c]] = "RUNNING"

\* What the history of a slot says about it.
ChildMeans ==
    \A e \in Slots :
        /\ child[e] = "fresh" => /\ status[e] = "NOT_RUNNABLE" /\ ~recving[e]
                                 /\ \A c \in CPU : curenv[c] # e
        /\ child[e] = "killed" <=> status[e] = "DYING"

BootReady == \A c \in CPU : pc[c] = "boot" => status[0] = "RUNNABLE"

ProgInv ==
    /\ OneCpuPerEnv /\ UserEnvAlive /\ ActiveHasCpu /\ LiveSlots /\ CurenvLive
    /\ RecvingIsBlocked /\ ChildMeans /\ BootReady /\ IdleIsFinal
    /\ CpunumIsTrue /\ NoPanic

SafeInv == SysInv /\ ProgInv

-----------------------------------------------------------------------------
\* Seen from the holder of the lock, every other processor is outside the
\* kernel, and its environment, if it has one, is running or a zombie.
LEMMA OtherCpu ==
    ASSUME SafeInv, NEW c \in CPU, lock = c, NEW d \in CPU, d # c,
           curenv[d] # NoEnv
    PROVE  pc[d] \in InUser /\ status[curenv[d]] \in {"RUNNING", "DYING"}
<1>1. pc[d] \in InUser
  BY DEF SafeInv, SysInv, ProgInv, TypeOK, Places, LockOwner, InKernel, HaltHandshake, NoPanic, InUser
<1> QED BY <1>1 DEF SafeInv, ProgInv, UserEnvAlive

\* The environment of the holder of the lock is no zombie.
LEMMA HolderNoZombie ==
    ASSUME SafeInv, NEW c \in CPU, lock = c, curenv[c] # NoEnv
    PROVE  status[curenv[c]] # "DYING"
<1> SUFFICES ASSUME status[curenv[c]] = "DYING" PROVE FALSE
  OBVIOUS
<1>1. curenv[c] \in Slots
  BY DEF SafeInv, SysInv, TypeOK
<1>2. PICK d \in CPU : curenv[d] = curenv[c] /\ pc[d] \in InUser
  BY <1>1 DEF SafeInv, ProgInv, ActiveHasCpu
<1>3. d = c
  BY <1>2 DEF SafeInv, ProgInv, OneCpuPerEnv
<1> QED BY <1>2, <1>3 DEF SafeInv, SysInv, LockOwner, InKernel, InUser

\* env_run() of a runnable environment, or of the one the processor runs.
LEMMA EnvRunSafe ==
    ASSUME SafeInv, NEW c \in CPU, pc[c] \in {"boot", "sched", "ret", "dispatch"},
           NEW e \in Slots,
           e \in Runnable \/ (e = curenv[c] /\ status[e] = "RUNNING"),
           EnvRun(c, e), UNCHANGED <<recving, cpunum>>
    PROVE  ProgInv'
<1>0. /\ status \in [Slots -> Statuses] /\ curenv \in [CPU -> Slots \cup {NoEnv}]
      /\ pc \in [CPU -> Places] /\ NoEnv \notin Slots /\ lock = c
  BY DEF SafeInv, SysInv, TypeOK, LockOwner, InKernel, NoEnv, Slots
<1>1. pgdir[e] /\ status[e] \in {"RUNNABLE", "RUNNING"}
  BY DEF SafeInv, ProgInv, LiveSlots, Runnable
<1>2. /\ status' = [Preempted(c) EXCEPT ![e] = "RUNNING"]
      /\ curenv' = [curenv EXCEPT ![c] = e]
      /\ pc' = [pc EXCEPT ![c] = "switch"]
      /\ pgdir' = pgdir /\ child' = child /\ recving' = recving /\ cpunum' = cpunum
  BY <1>0, <1>1 DEF EnvRun, SpinUnlock, Goto, memVars
<1>3. ASSUME NEW d \in CPU, d # c
      PROVE  /\ curenv'[d] = curenv[d] /\ pc'[d] = pc[d]
             /\ curenv[d] # e
             /\ curenv[d] # NoEnv => /\ curenv[d] # curenv[c]
                                     /\ curenv[d] \in Slots
                                     /\ status'[curenv[d]] = status[curenv[d]]
  <2>1. curenv[d] # e
    <3>1. CASE e \in Runnable
      BY <1>0, <1>3, <3>1, OtherCpu DEF Runnable
    <3>2. CASE e = curenv[c]
      BY <1>0, <1>3, <3>2 DEF SafeInv, ProgInv, OneCpuPerEnv
    <3> QED BY <3>1, <3>2
  <2>2. curenv[d] # NoEnv => curenv[d] # curenv[c]
    BY <1>3 DEF SafeInv, ProgInv, OneCpuPerEnv
  <2> QED BY <1>0, <1>2, <1>3, <2>1, <2>2 DEF Preempted
<1>4. curenv'[c] = e /\ pc'[c] = "switch" /\ status'[e] = "RUNNING"
  BY <1>0, <1>2 DEF Preempted
<1>5. ASSUME NEW s \in Slots, s # e
      PROVE  /\ status'[s] = status[s] \/ (s = curenv[c] /\ status[s] = "RUNNING" /\ status'[s] = "RUNNABLE")
             /\ s = curenv[c] => status'[s] # "RUNNING"
  BY <1>0, <1>2, <1>5 DEF Preempted
<1>6. OneCpuPerEnv'
  BY <1>3, <1>4 DEF OneCpuPerEnv, SafeInv, ProgInv
<1>7. UserEnvAlive'
  <2>1. ASSUME NEW d \in CPU, pc'[d] \in InUser
        PROVE  /\ curenv'[d] # NoEnv /\ status'[curenv'[d]] \in {"RUNNING", "DYING"}
               /\ pgdir'[curenv'[d]]
    <3>1. CASE d = c
      BY <1>0, <1>1, <1>2, <1>4, <3>1
    <3>2. CASE d # c
      BY <1>2, <1>3, <2>1, <3>2 DEF SafeInv, ProgInv, UserEnvAlive
    <3> QED BY <3>1, <3>2
  <2> QED BY <2>1 DEF UserEnvAlive
<1>8. ActiveHasCpu'
  <2>1. ASSUME NEW s \in Slots, status'[s] \in {"RUNNING", "DYING"}
        PROVE  \E d \in CPU : curenv'[d] = s /\ (status'[s] = "DYING" => pc'[d] \in InUser)
    <3>1. CASE s = e
      BY <1>4, <3>1
    <3>2. CASE s # e
      <4>1. status'[s] = status[s]
        BY <1>5, <2>1, <3>2
      <4>2. PICK d \in CPU : curenv[d] = s /\ (status[s] = "DYING" => pc[d] \in InUser)
        BY <2>1, <4>1 DEF SafeInv, ProgInv, ActiveHasCpu
      <4>3. d # c
        <5>1. CASE status[s] = "DYING"
          BY <4>2, <5>1 DEF InUser
        <5>2. CASE status[s] = "RUNNING"
          BY <1>5, <3>2, <4>1, <4>2, <5>2
        <5> QED BY <2>1, <4>1, <5>1, <5>2
      <4> QED BY <1>3, <4>1, <4>2, <4>3
    <3> QED BY <3>1, <3>2
  <2> QED BY <2>1 DEF ActiveHasCpu
<1>9. LiveSlots'
  BY <1>0, <1>1, <1>2, <1>4, <1>5 DEF SafeInv, ProgInv, LiveSlots
<1>10. CurenvLive'
  <2>1. ASSUME NEW d \in CPU
        PROVE  /\ curenv'[d] # NoEnv => status'[curenv'[d]] # "FREE"
               /\ pc'[d] # "dispatch"
    <3>1. CASE d = c
      BY <1>4, <3>1
    <3>2. CASE d # c
      BY <1>0, <1>3, <3>2 DEF SafeInv, SysInv, LockOwner, InKernel, ProgInv, CurenvLive
    <3> QED BY <3>1, <3>2
  <2> QED BY <2>1 DEF CurenvLive
<1>11. RecvingIsBlocked'
  BY <1>1, <1>2, <1>5 DEF SafeInv, ProgInv, RecvingIsBlocked
<1>12. ChildMeans'
  <2>1. child[e] # "fresh" /\ child[e] # "killed"
    BY <1>1 DEF SafeInv, ProgInv, ChildMeans
  <2> QED BY <1>2, <1>3, <1>4, <1>5, <2>1 DEF SafeInv, ProgInv, ChildMeans
<1>13. BootReady' /\ IdleIsFinal' /\ NoPanic'
  <2>1. \A d \in CPU : d # c => pc[d] \notin InKernel
    BY <1>0 DEF SafeInv, SysInv, LockOwner
  <2> QED BY <1>3, <1>4, <2>1 DEF SafeInv, ProgInv, BootReady, IdleIsFinal, NoPanic, InKernel
<1>14. CpunumIsTrue'
  BY <1>2, <1>3, <1>4 DEF SafeInv, ProgInv, CpunumIsTrue
<1> QED BY <1>6, <1>7, <1>8, <1>9, <1>10, <1>11, <1>12, <1>13, <1>14 DEF ProgInv

\* env_free() of an environment that no other processor executes.
LEMMA EnvFreeSafe ==
    ASSUME SafeInv, NEW c \in CPU, NEW e \in Slots, EnvFree(e),
           \A d \in CPU \ {c} : /\ curenv[d] # e /\ curenv'[d] = curenv[d]
                                /\ pc'[d] = pc[d] /\ pc[d] \notin InKernel,
           \/ curenv[c] = e /\ curenv'[c] = NoEnv /\ pc'[c] = "sched"
           \/ /\ curenv[c] # e /\ curenv'[c] = curenv[c]
              /\ pc[c] = "dispatch" /\ pc'[c] = "ret",
           UNCHANGED <<recving, cpunum>>
    PROVE  ProgInv'
<1>0. /\ status \in [Slots -> Statuses] /\ curenv \in [CPU -> Slots \cup {NoEnv}]
      /\ pgdir \in [Slots -> BOOLEAN] /\ child \in [Slots -> ChildStates]
      /\ NoEnv \notin Slots
  BY DEF SafeInv, SysInv, TypeOK, NoEnv, Slots
<1>1. /\ status' = [status EXCEPT ![e] = "FREE"] /\ pgdir' = [pgdir EXCEPT ![e] = FALSE]
      /\ child' = [child EXCEPT ![e] = "none"]
      /\ recving' = recving /\ cpunum' = cpunum
  BY DEF EnvFree
<1>2. /\ status'[e] = "FREE" /\ ~pgdir'[e] /\ child'[e] = "none"
      /\ \A s \in Slots \ {e} : /\ status'[s] = status[s] /\ pgdir'[s] = pgdir[s]
                                /\ child'[s] = child[s]
  BY <1>0, <1>1
<1>3. \A d \in CPU : curenv'[d] # e /\ (curenv'[d] # NoEnv => curenv'[d] = curenv[d] /\ curenv'[d] \in Slots \ {e})
  BY <1>0
<1>4. OneCpuPerEnv'
  BY <1>3 DEF OneCpuPerEnv, SafeInv, ProgInv
<1>5. UserEnvAlive'
  BY <1>2, <1>3 DEF UserEnvAlive, SafeInv, ProgInv, InUser
<1>6. ActiveHasCpu'
  <2>1. ASSUME NEW s \in Slots, status'[s] \in {"RUNNING", "DYING"}
        PROVE  \E d \in CPU : curenv'[d] = s /\ (status'[s] = "DYING" => pc'[d] \in InUser)
    <3>1. s # e /\ status[s] = status'[s]
      BY <1>2, <2>1
    <3>2. PICK d \in CPU : curenv[d] = s /\ (status[s] = "DYING" => pc[d] \in InUser)
      BY <2>1, <3>1 DEF SafeInv, ProgInv, ActiveHasCpu
    <3>3. curenv'[d] = s /\ (status'[s] = "DYING" => pc'[d] \in InUser)
      BY <3>1, <3>2 DEF InUser
    <3> QED BY <3>3
  <2> QED BY <2>1 DEF ActiveHasCpu
<1>7. LiveSlots'
  BY <1>2 DEF LiveSlots, SafeInv, ProgInv
<1>8. CurenvLive'
  BY <1>2, <1>3 DEF CurenvLive, SafeInv, ProgInv, InKernel
<1>9. RecvingIsBlocked'
  BY <1>1, <1>2 DEF RecvingIsBlocked, SafeInv, ProgInv
<1>10. ChildMeans'
  <2>1. \A d \in CPU, s \in Slots : curenv'[d] = s => curenv[d] = s
    BY <1>0, <1>3
  <2> QED BY <1>1, <1>2, <2>1 DEF ChildMeans, SafeInv, ProgInv
<1>11. BootReady' /\ IdleIsFinal' /\ NoPanic'
  BY DEF BootReady, IdleIsFinal, NoPanic, InKernel, SafeInv, ProgInv
<1>12. CpunumIsTrue'
  BY <1>1, <1>3 DEF CpunumIsTrue, SafeInv, ProgInv, InKernel
<1> QED BY <1>4, <1>5, <1>6, <1>7, <1>8, <1>9, <1>10, <1>11, <1>12 DEF ProgInv

\* env_destroy() of an environment that another processor executes.
LEMMA ZombieSafe ==
    ASSUME SafeInv, NEW c \in CPU, lock = c, pc[c] = "dispatch", NEW e \in Slots,
           RunsElsewhere(c, e),
           status' = [status EXCEPT ![e] = "DYING"],
           child' = [child EXCEPT ![e] = "killed"],
           Goto(c, "ret"), UNCHANGED <<memVars, curenv, recving, cpunum>>
    PROVE  ProgInv'
<1>0. /\ status \in [Slots -> Statuses] /\ curenv \in [CPU -> Slots \cup {NoEnv}]
      /\ child \in [Slots -> ChildStates] /\ pc \in [CPU -> Places]
      /\ status[e] = "RUNNING" /\ curenv[c] # e
  BY DEF SafeInv, SysInv, TypeOK, RunsElsewhere
<1>1. /\ status'[e] = "DYING" /\ child'[e] = "killed"
      /\ \A s \in Slots \ {e} : status'[s] = status[s] /\ child'[s] = child[s]
      /\ pgdir' = pgdir /\ curenv' = curenv /\ recving' = recving /\ cpunum' = cpunum
  BY <1>0 DEF memVars
<1>2. /\ pc'[c] = "ret"
      /\ \A d \in CPU \ {c} : pc'[d] = pc[d] /\ pc[d] \notin InKernel
  BY <1>0 DEF Goto, SafeInv, SysInv, LockOwner
<1>3. OneCpuPerEnv' /\ UserEnvAlive'
  BY <1>1, <1>2 DEF OneCpuPerEnv, UserEnvAlive, SafeInv, ProgInv, InUser
<1>4. ActiveHasCpu'
  <2>1. ASSUME NEW s \in Slots, status'[s] \in {"RUNNING", "DYING"}
        PROVE  \E d \in CPU : curenv'[d] = s /\ (status'[s] = "DYING" => pc'[d] \in InUser)
    <3>1. PICK d \in CPU : curenv[d] = s /\ (status[s] = "DYING" => pc[d] \in InUser)
      BY <1>0, <1>1, <2>1 DEF SafeInv, ProgInv, ActiveHasCpu
    <3>2. CASE s = e
      <4>1. d # c /\ curenv[d] # NoEnv
        BY <1>0, <3>1, <3>2 DEF NoEnv, Slots
      <4>2. pc[d] \in InUser
        BY <4>1, OtherCpu
      <4> QED BY <1>1, <1>2, <3>1, <4>1, <4>2
    <3>3. CASE s # e
      <4>1. pc[c] \notin InUser
        BY DEF InUser
      <4> QED BY <1>1, <1>2, <3>1, <3>3, <4>1
    <3> QED BY <3>2, <3>3
  <2> QED BY <2>1 DEF ActiveHasCpu
<1>5. LiveSlots' /\ RecvingIsBlocked'
  BY <1>0, <1>1 DEF LiveSlots, RecvingIsBlocked, SafeInv, ProgInv
<1>6. CurenvLive'
  BY <1>0, <1>1, <1>2 DEF CurenvLive, SafeInv, ProgInv, InKernel
<1>7. ChildMeans'
  BY <1>1 DEF ChildMeans, SafeInv, ProgInv
<1>8. BootReady' /\ IdleIsFinal' /\ NoPanic'
  BY <1>1, <1>2 DEF BootReady, IdleIsFinal, NoPanic, InKernel, SafeInv, ProgInv
<1>9. CpunumIsTrue'
  BY <1>1, <1>2 DEF CpunumIsTrue, SafeInv, ProgInv, InKernel
<1> QED BY <1>3, <1>4, <1>5, <1>6, <1>7, <1>8, <1>9 DEF ProgInv

\* A step that only moves c: no environment changes hands.
LEMMA MoveSafe ==
    ASSUME SafeInv, NEW c \in CPU, NEW p \in Places \ {"boot", "idle", "panic", "dead"},
           Goto(c, p), UNCHANGED <<status, memVars, curenv, recving, child>>,
           p \in InUser => pc[c] \in InUser,
           pc[c] \in InUser /\ p \notin InUser =>
               p = "dispatch" /\ status[curenv[c]] = "RUNNING",
           p = "dispatch" => pc[c] = "acquire",
           \/ UNCHANGED cpunum /\ (p \in {"user", "acquire", "dispatch"} =>
                                      pc[c] \in {"user", "acquire"})
           \/ cpunum' = [cpunum EXCEPT ![curenv[c]] = c] /\ curenv[c] \in Slots
    PROVE  ProgInv'
<1>0. /\ pc \in [CPU -> Places] /\ curenv \in [CPU -> Slots \cup {NoEnv}]
      /\ cpunum \in [Slots -> CPU] /\ NoEnv \notin Slots
  BY DEF SafeInv, SysInv, TypeOK, NoEnv, Slots
<1>1. /\ pc'[c] = p /\ \A d \in CPU \ {c} : pc'[d] = pc[d]
      /\ status' = status /\ pgdir' = pgdir /\ curenv' = curenv
      /\ recving' = recving /\ child' = child
  BY <1>0 DEF Goto, memVars
<1>2. OneCpuPerEnv' /\ UserEnvAlive' /\ LiveSlots' /\ RecvingIsBlocked' /\ ChildMeans'
  BY <1>1 DEF OneCpuPerEnv, UserEnvAlive, LiveSlots, RecvingIsBlocked, ChildMeans, SafeInv, ProgInv
<1>3. ActiveHasCpu'
  BY <1>1 DEF ActiveHasCpu, SafeInv, ProgInv
<1>4. CurenvLive'
  BY <1>1 DEF CurenvLive, SafeInv, ProgInv, InUser
<1>5. BootReady' /\ IdleIsFinal' /\ NoPanic'
  BY <1>1 DEF BootReady, IdleIsFinal, NoPanic, SomeoneActive, SafeInv, ProgInv
<1>6. CpunumIsTrue'
  <2>1. ASSUME NEW d \in CPU, pc'[d] \in {"user", "acquire", "dispatch"}
        PROVE  cpunum'[curenv[d]] = d
    <3>1. CASE UNCHANGED cpunum /\ (p \in {"user", "acquire", "dispatch"} =>
                                       pc[c] \in {"user", "acquire"})
      BY <1>1, <2>1, <3>1 DEF CpunumIsTrue, SafeInv, ProgInv
    <3>2. CASE cpunum' = [cpunum EXCEPT ![curenv[c]] = c] /\ curenv[c] \in Slots
      <4>1. CASE d = c
        BY <1>0, <3>2, <4>1
      <4>2. CASE d # c
        <5>1. curenv[d] # curenv[c] /\ cpunum[curenv[d]] = d
          BY <1>0, <1>1, <2>1, <3>2, <4>2 DEF CpunumIsTrue, OneCpuPerEnv, SafeInv, ProgInv
        <5>2. curenv[d] \in Slots
          BY <1>1, <2>1, <4>2 DEF SafeInv, SysInv, HasEnv
        <5> QED BY <1>0, <3>2, <5>1, <5>2
      <4> QED BY <4>1, <4>2
    <3> QED BY <3>1, <3>2
  <2> QED BY <1>1, <2>1 DEF CpunumIsTrue
<1> QED BY <1>2, <1>3, <1>4, <1>5, <1>6 DEF ProgInv

\* The holder of the lock makes an environment runnable or not runnable that
\* no other processor executes.
LEMMA StatusSafe ==
    ASSUME SafeInv, NEW c \in CPU, lock = c, pc[c] = "dispatch", NEW e \in Slots,
           NEW st \in {"RUNNABLE", "NOT_RUNNABLE"},
           status' = [status EXCEPT ![e] = st],
           status[e] # "DYING", \A d \in CPU \ {c} : curenv[d] # e,
           pgdir'[e], \A s \in Slots \ {e} : pgdir'[s] = pgdir[s],
           child'[e] # "killed",
           child'[e] = "fresh" => st = "NOT_RUNNABLE" /\ ~recving'[e] /\ curenv[c] # e,
           \A s \in Slots \ {e} : child'[s] = child[s] /\ recving'[s] = recving[s],
           recving'[e] => st = "NOT_RUNNABLE",
           NEW p \in {"ret", "sched"}, Goto(c, p), UNCHANGED <<curenv, cpunum>>
    PROVE  ProgInv'
<1>0. /\ status \in [Slots -> Statuses] /\ curenv \in [CPU -> Slots \cup {NoEnv}]
      /\ pc \in [CPU -> Places] /\ NoEnv \notin Slots
  BY DEF SafeInv, SysInv, TypeOK, NoEnv, Slots
<1>1. /\ status'[e] = st /\ \A s \in Slots \ {e} : status'[s] = status[s]
      /\ curenv' = curenv /\ cpunum' = cpunum
  BY <1>0
<1>2. /\ pc'[c] = p
      /\ \A d \in CPU \ {c} : /\ pc'[d] = pc[d] /\ pc[d] \notin InKernel
                               /\ curenv[d] # e
  BY <1>0 DEF Goto, SafeInv, SysInv, LockOwner
<1>3. OneCpuPerEnv'
  BY <1>1 DEF OneCpuPerEnv, SafeInv, ProgInv
<1>4. UserEnvAlive'
  <2>1. ASSUME NEW d \in CPU, pc'[d] \in InUser
        PROVE  /\ curenv'[d] # NoEnv /\ status'[curenv'[d]] \in {"RUNNING", "DYING"}
               /\ pgdir'[curenv'[d]]
    <3>1. d # c /\ pc[d] \in InUser
      BY <1>2, <2>1 DEF InUser
    <3>2. curenv[d] \in Slots \ {e}
      BY <1>0, <1>2, <3>1 DEF UserEnvAlive, SafeInv, ProgInv
    <3> QED BY <1>1, <3>1, <3>2 DEF UserEnvAlive, SafeInv, ProgInv
  <2> QED BY <2>1 DEF UserEnvAlive
<1>5. ActiveHasCpu'
  BY <1>1, <1>2 DEF ActiveHasCpu, SafeInv, ProgInv, InUser
<1>6. LiveSlots' /\ RecvingIsBlocked'
  BY <1>1 DEF LiveSlots, RecvingIsBlocked, SafeInv, ProgInv
<1>7. CurenvLive'
  <2>1. ASSUME NEW d \in CPU
        PROVE  /\ curenv'[d] # NoEnv => status'[curenv'[d]] # "FREE"
               /\ pc'[d] # "dispatch"
    <3>1. pc'[d] # "dispatch"
      BY <1>2 DEF InKernel
    <3>2. curenv[d] # NoEnv => curenv[d] \in Slots
      BY <1>0
    <3> QED BY <1>1, <3>1, <3>2 DEF CurenvLive, SafeInv, ProgInv
  <2> QED BY <2>1 DEF CurenvLive
<1>8. ChildMeans'
  <2>1. ASSUME NEW s \in Slots, s # e
        PROVE  /\ child'[s] = child[s] /\ status'[s] = status[s] /\ recving'[s] = recving[s]
    BY <1>1, <2>1
  <2> QED BY <1>1, <1>2, <2>1 DEF ChildMeans, SafeInv, ProgInv
<1>9. BootReady' /\ IdleIsFinal' /\ NoPanic'
  BY <1>2 DEF BootReady, IdleIsFinal, NoPanic, InKernel, SafeInv, ProgInv
<1>10. CpunumIsTrue'
  BY <1>1, <1>2 DEF CpunumIsTrue, SafeInv, ProgInv
<1> QED BY <1>3, <1>4, <1>5, <1>6, <1>7, <1>8, <1>9, <1>10 DEF ProgInv

\* sched_halt(): the processor gives its environment up, if it has one.
LEMMA HaltSafe ==
    ASSUME SafeInv, NEW c \in CPU, SchedHalt(c)
    PROVE  ProgInv'
<1>0. /\ curenv \in [CPU -> Slots \cup {NoEnv}] /\ pc \in [CPU -> Places]
      /\ NoEnv \notin Slots /\ lock = c
  BY DEF SafeInv, SysInv, TypeOK, NoEnv, Slots, LockOwner, SchedHalt, InKernel
<1>1. /\ curenv'[c] = NoEnv /\ pc'[c] = "halted"
      /\ \A d \in CPU \ {c} : /\ curenv'[d] = curenv[d] /\ pc'[d] = pc[d]
                               /\ pc[d] \notin InKernel
      /\ status' = status /\ pgdir' = pgdir /\ recving' = recving
      /\ child' = child /\ cpunum' = cpunum
  BY <1>0 DEF SchedHalt, SpinUnlock, Goto, memVars, envVars, SafeInv, SysInv, LockOwner
<1>2. curenv[c] # NoEnv => status[curenv[c]] \notin {"RUNNING", "DYING"}
  BY <1>0, HolderNoZombie DEF SchedHalt, NothingToPick
<1>3. OneCpuPerEnv' /\ UserEnvAlive' /\ LiveSlots' /\ RecvingIsBlocked'
  BY <1>1 DEF OneCpuPerEnv, UserEnvAlive, LiveSlots, RecvingIsBlocked, SafeInv, ProgInv, InUser
<1>4. ActiveHasCpu'
  <2>1. ASSUME NEW s \in Slots, status[s] \in {"RUNNING", "DYING"}
        PROVE  \E d \in CPU : curenv'[d] = s /\ (status[s] = "DYING" => pc'[d] \in InUser)
    <3>1. PICK d \in CPU : curenv[d] = s /\ (status[s] = "DYING" => pc[d] \in InUser)
      BY <2>1 DEF ActiveHasCpu, SafeInv, ProgInv
    <3>2. d # c
      BY <1>0, <1>2, <2>1, <3>1
    <3> QED BY <1>1, <3>1, <3>2
  <2> QED BY <1>1, <2>1 DEF ActiveHasCpu
<1>5. CurenvLive'
  BY <1>1 DEF CurenvLive, SafeInv, ProgInv
<1>6. ChildMeans'
  <2>1. \A d \in CPU, s \in Slots : curenv'[d] = s => curenv[d] = s
    BY <1>0, <1>1
  <2> QED BY <1>1, <2>1 DEF ChildMeans, SafeInv, ProgInv
<1>7. BootReady' /\ IdleIsFinal' /\ NoPanic' /\ CpunumIsTrue'
  BY <1>1 DEF BootReady, IdleIsFinal, NoPanic, CpunumIsTrue, InKernel, SafeInv, ProgInv
<1> QED BY <1>3, <1>4, <1>5, <1>6, <1>7 DEF ProgInv

\* sched_halt() when nobody is active: the monitor.
LEMMA IdleSafe ==
    ASSUME SafeInv, NEW c \in CPU, SchedIdle(c)
    PROVE  ProgInv'
<1>0. pc \in [CPU -> Places] /\ curenv \in [CPU -> Slots \cup {NoEnv}] /\ lock = c
  BY DEF SafeInv, SysInv, TypeOK, LockOwner, SchedIdle, InKernel
<1>1. /\ pc'[c] = "idle" /\ pc[c] = "sched"
      /\ \A d \in CPU \ {c} : pc'[d] = pc[d] /\ pc[d] \notin InKernel
      /\ status' = status /\ pgdir' = pgdir /\ curenv' = curenv
      /\ recving' = recving /\ child' = child /\ cpunum' = cpunum
  BY <1>0 DEF SchedIdle, Goto, memVars, envVars, SafeInv, SysInv, LockOwner
<1>2. ~SomeoneActive
  BY DEF SchedIdle
<1>3. \A d \in CPU \ {c} : curenv[d] = NoEnv
  <2>1. ASSUME NEW d \in CPU \ {c}, curenv[d] # NoEnv PROVE FALSE
    <3>1. curenv[d] \in Slots /\ status[curenv[d]] \in {"RUNNING", "DYING"}
      BY <1>0, <2>1, OtherCpu
    <3> QED BY <1>2, <3>1 DEF SomeoneActive
  <2> QED BY <2>1
<1>4. IdleIsFinal'
  BY <1>1, <1>2, <1>3 DEF IdleIsFinal, SomeoneActive, InKernel
<1>5. OneCpuPerEnv' /\ UserEnvAlive' /\ LiveSlots' /\ RecvingIsBlocked' /\ ChildMeans'
  BY <1>1 DEF OneCpuPerEnv, UserEnvAlive, LiveSlots, RecvingIsBlocked, ChildMeans, SafeInv, ProgInv, InUser
<1>6. ActiveHasCpu'
  BY <1>1, <1>2 DEF ActiveHasCpu, SomeoneActive
<1>7. CurenvLive' /\ BootReady' /\ NoPanic' /\ CpunumIsTrue'
  BY <1>1 DEF CurenvLive, BootReady, NoPanic, CpunumIsTrue, SafeInv, ProgInv
<1> QED BY <1>4, <1>5, <1>6, <1>7 DEF ProgInv

-----------------------------------------------------------------------------
\* A slot that envid2env() returns is in use.
LEMMA EnvidLive ==
    ASSUME SafeInv, NEW c \in CPU, pc[c] = "dispatch",
           NEW id \in EnvIds \cup {NoId}, NEW p, Envid2Env(c, id, p) # NoEnv
    PROVE  /\ Envid2Env(c, id, p) \in Slots
           /\ status[Envid2Env(c, id, p)] # "FREE"
           /\ pgdir[Envid2Env(c, id, p)]
<1>1. curenv[c] \in Slots /\ status[curenv[c]] = "RUNNING"
  BY DEF SafeInv, SysInv, HasEnv, ProgInv, CurenvLive
<1>2. Envid2Env(c, id, p) \in Slots
  BY <1>1, EnvidType DEF SafeInv, SysInv, TypeOK
<1>3. status[Envid2Env(c, id, p)] # "FREE"
  BY <1>1 DEF Envid2Env
<1> QED BY <1>2, <1>3 DEF SafeInv, ProgInv, LiveSlots

\* What the handler of a trap finds.
LEMMA HandlerFacts ==
    ASSUME SafeInv, NEW c \in CPU, pc[c] = "dispatch"
    PROVE  /\ lock = c /\ curenv[c] \in Slots /\ NoEnv \notin Slots
           /\ status[curenv[c]] = "RUNNING" /\ pgdir[curenv[c]]
           /\ \A d \in CPU \ {c} : curenv[d] # curenv[c]
           /\ ~recving[curenv[c]]
           /\ child[curenv[c]] \notin {"fresh", "killed"}
<1>1. lock = c /\ curenv[c] \in Slots /\ NoEnv \notin Slots
  BY DEF SafeInv, SysInv, LockOwner, InKernel, HasEnv, NoEnv, Slots
<1>2. status[curenv[c]] = "RUNNING"
  BY DEF SafeInv, ProgInv, CurenvLive
<1>3. pgdir[curenv[c]] /\ ~recving[curenv[c]]
  BY <1>1, <1>2 DEF SafeInv, ProgInv, LiveSlots, RecvingIsBlocked
<1>4. child[curenv[c]] \notin {"fresh", "killed"}
  BY <1>1, <1>2 DEF SafeInv, ProgInv, ChildMeans
<1> QED BY <1>1, <1>2, <1>3, <1>4 DEF SafeInv, ProgInv, OneCpuPerEnv

\* A handler that changes nothing, or changes only what a slot has of priority.
LEMMA HandlerMoves ==
    ASSUME SafeInv, NEW c \in CPU, pc[c] \in {"dispatch", "ret"},
           NEW p \in {"ret", "sched", "debug"}, Goto(c, p),
           UNCHANGED <<status, memVars, curenv, recving, cpunum, child>>
    PROVE  ProgInv'
BY MoveSafe DEF Places, InUser

\* env_destroy() asked by a program that does not ask twice.
LEMMA EnvDestroySafe ==
    ASSUME SafeInv, NEW c \in CPU, pc[c] = "dispatch", NEW e \in Slots,
           pgdir[e], e = curenv[c] \/ child[e] # "killed",
           EnvDestroy(c, e, "ret"), UNCHANGED <<recving, cpunum>>
    PROVE  ProgInv'
<1>1. /\ lock = c /\ curenv \in [CPU -> Slots \cup {NoEnv}] /\ pc \in [CPU -> Places]
      /\ NoEnv \notin Slots
  BY HandlerFacts DEF SafeInv, SysInv, TypeOK
<1>2. CASE RunsElsewhere(c, e)
  BY <1>1, <1>2, ZombieSafe DEF EnvDestroy
<1>3. CASE ~RunsElsewhere(c, e)
  <2>1. EnvFree(e)
    BY <1>3 DEF EnvDestroy
  <2>2. ASSUME NEW d \in CPU \ {c}
        PROVE  /\ curenv[d] # e /\ curenv'[d] = curenv[d]
               /\ pc'[d] = pc[d] /\ pc[d] \notin InKernel
    <3>1. curenv[d] # e
      <4> SUFFICES ASSUME curenv[d] = e PROVE FALSE
        OBVIOUS
      <4>1. curenv[c] # e /\ status[e] \in {"RUNNING", "DYING"}
        BY <1>1, OtherCpu, HandlerFacts
      <4>2. status[e] = "DYING"
        BY <1>3, <4>1 DEF RunsElsewhere
      <4> QED BY <4>1, <4>2 DEF SafeInv, ProgInv, ChildMeans
    <3>2. pc[d] \notin InKernel
      BY <1>1 DEF SafeInv, SysInv, LockOwner
    <3> QED BY <1>1, <1>3, <3>1, <3>2 DEF EnvDestroy, Goto
  <2>3. \/ curenv[c] = e /\ curenv'[c] = NoEnv /\ pc'[c] = "sched"
        \/ curenv[c] # e /\ curenv'[c] = curenv[c] /\ pc'[c] = "ret"
    BY <1>1, <1>3 DEF EnvDestroy, Goto
  <2> QED BY <2>1, <2>2, <2>3, EnvFreeSafe
<1> QED BY <1>2, <1>3

-----------------------------------------------------------------------------
(***************************************************************************)
(* Every step keeps the invariant.                                         *)
(***************************************************************************)
LEMMA TrapPathSafe ==
    ASSUME SafeInv, NEW c \in CPU, TrapPath(c)
    PROVE  ProgInv'
<1>0. /\ curenv \in [CPU -> Slots \cup {NoEnv}] /\ pc \in [CPU -> Places]
      /\ NoEnv \notin Slots /\ NoCpu \notin CPU
  BY CPUAssumption DEF SafeInv, SysInv, TypeOK, NoEnv, Slots
<1>1. CASE TrapEntry(c)
  <2>1. PICK p \in {"wake", "acquire", "sched"} :
           Goto(c, p) /\ (p = "acquire" => pc[c] = "user") /\ (p # "acquire" => pc[c] = "halted")
    BY <1>1 DEF TrapEntry, SafeInv, SysInv, HaltHandshake
  <2> QED BY <1>1, <2>1, MoveSafe DEF TrapEntry, Places, InUser, envVars
<1>2. CASE TrapDead(c)
  BY <1>2 DEF TrapDead, Panicked, SafeInv, ProgInv, NoPanic
<1>3. CASE WakeLock(c)
  <2>1. Goto(c, "sched")
    BY <1>3 DEF WakeLock, SpinLock, SafeInv, SysInv, LockOwner, InKernel, HaltHandshake
  <2> QED BY <1>3, <2>1, MoveSafe DEF WakeLock, Places, InUser, envVars
<1>4. CASE TrapLock(c)
  <2>1. lock = NoCpu /\ Goto(c, "dispatch")
    BY <1>4 DEF TrapLock, SpinLock, SafeInv, SysInv, LockOwner, InKernel
  <2>2. status[curenv[c]] = "RUNNING"
    BY <1>4, <2>1 DEF TrapLock, IsZombie, SafeInv, ProgInv, UserEnvAlive, InUser
  <2> QED BY <1>4, <2>1, <2>2, MoveSafe DEF TrapLock, Places, InUser, envVars
<1>5. CASE ReapZombie(c)
  <2>1. curenv[c] \in Slots
    BY <1>5 DEF ReapZombie, SafeInv, SysInv, HasEnv
  <2>2. \A d \in CPU \ {c} : /\ curenv[d] # curenv[c] /\ curenv'[d] = curenv[d]
                             /\ pc'[d] = pc[d] /\ pc[d] \notin InKernel
    BY <1>0, <1>5, <2>1 DEF ReapZombie, Goto, SafeInv, SysInv, LockOwner, ProgInv, OneCpuPerEnv
  <2>3. curenv'[c] = NoEnv /\ pc'[c] = "sched"
    BY <1>0, <1>5 DEF ReapZombie, Goto
  <2> QED BY <1>5, <2>1, <2>2, <2>3, EnvFreeSafe DEF ReapZombie, envVars
<1>6. CASE Resume(c)
  <2>1. curenv[c] \in Slots /\ status[curenv[c]] = "RUNNING"
    BY <1>0, <1>6 DEF Resume, CanResume
  <2> QED BY <1>6, <2>1, EnvRunSafe DEF Resume, envVars
<1>7. CASE Reschedule(c)
  BY <1>7, HandlerMoves DEF Reschedule, envVars
<1> QED BY <1>1, <1>2, <1>3, <1>4, <1>5, <1>6, <1>7 DEF TrapPath

\* sched_yield() and sched_halt().
LEMMA SchedulerSafe ==
    ASSUME SafeInv, NEW c \in CPU, Scheduler(c)
    PROVE  ProgInv'
<1>1. CASE SchedPick(c)
  <2>1. PICK e \in Runnable : EnvRun(c, e)
    BY <1>1 DEF SchedPick
  <2> QED BY <1>1, <2>1, EnvRunSafe DEF SchedPick, Runnable, envVars
<1>2. CASE SchedContinue(c)
  <2>1. curenv[c] \in Slots /\ status[curenv[c]] = "RUNNING"
    BY <1>2 DEF SchedContinue, NothingToPick, SafeInv, SysInv, TypeOK
  <2> QED BY <1>2, <2>1, EnvRunSafe DEF SchedContinue, envVars
<1> QED BY <1>1, <1>2, HaltSafe, IdleSafe DEF Scheduler

\* The system calls, used the way lib/ and user/ use them.
LEMMA SyscallSafe ==
    ASSUME SafeInv, Misuse = {}, NEW c \in CPU, Syscall(c)
    PROVE  ProgInv'
<1>0. pc[c] = "dispatch"
  BY DEF Syscall, SysYield, SysOther, SysExofork, SysIpcRecv, SysEnvDestroy,
         SysEnvSetPgfaultUpcall, SysIpcTrySend, SysEnvLowerPriority, SysEnvSetStatus, Handles
<1>1. /\ status \in [Slots -> Statuses] /\ recving \in [Slots -> BOOLEAN]
      /\ pgdir \in [Slots -> BOOLEAN] /\ child \in [Slots -> ChildStates]
      /\ freeList \in Seq(Slots) /\ curenv \in [CPU -> Slots \cup {NoEnv}]
  BY DEF SafeInv, SysInv, TypeOK
<1>2. ASSUME NEW p \in {"ret", "sched"}, NoEffect(c, p) PROVE ProgInv'
  BY <1>0, <1>2, HandlerMoves DEF NoEffect, envVars
<1>3. CASE SysExofork(c)
  <2> DEFINE e == Head(freeList)
  <2> SUFFICES ASSUME freeList # <<>>, EnvAlloc(c, "NOT_RUNNABLE"), Goto(c, "ret"),
                      UNCHANGED <<curenv, cpuStatus, lock>>
               PROVE  ProgInv'
    BY <1>2, <1>3 DEF SysExofork
  <2>1. e \in Slots /\ 1 \in DOMAIN freeList /\ e = freeList[1]
    BY <1>1
  <2>2. ~pgdir[e]
    BY <2>1 DEF SafeInv, SysInv, FreeListExact
  <2>3. status[e] = "FREE" /\ \A d \in CPU : curenv[d] # e
    BY <2>1, <2>2, HandlerFacts DEF SafeInv, ProgInv, LiveSlots, CurenvLive, NoEnv, Slots
  <2>4. /\ status' = [status EXCEPT ![e] = "NOT_RUNNABLE"]
        /\ pgdir'[e] /\ \A s \in Slots \ {e} : pgdir'[s] = pgdir[s]
        /\ child'[e] = "fresh" /\ recving'[e] = FALSE
        /\ \A s \in Slots \ {e} : child'[s] = child[s] /\ recving'[s] = recving[s]
        /\ cpunum' = cpunum
    BY <1>1, <2>1 DEF EnvAlloc
  <2> HIDE DEF e
  <2> QED BY <1>0, <2>1, <2>3, <2>4, HandlerFacts, StatusSafe, ZenonT(30)
<1>4. CASE SysIpcRecv(c)
  <2>1. /\ status' = [status EXCEPT ![curenv[c]] = "NOT_RUNNABLE"] /\ Goto(c, "sched")
        /\ recving' = [recving EXCEPT ![curenv[c]] = TRUE]
        /\ UNCHANGED <<memVars, cpunum, curenv, child>>
    BY <1>4 DEF SysIpcRecv
  <2>2. \A s \in Slots \ {curenv[c]} : /\ child'[s] = child[s] /\ recving'[s] = recving[s]
                                      /\ pgdir'[s] = pgdir[s]
    BY <1>1, <2>1 DEF memVars
  <2>3. /\ pgdir'[curenv[c]] /\ child'[curenv[c]] \notin {"fresh", "killed"}
        /\ status[curenv[c]] # "DYING"
    BY <1>0, <2>1, HandlerFacts DEF memVars
  <2> QED BY <1>0, <2>1, <2>2, <2>3, HandlerFacts, StatusSafe
<1>5. ASSUME NEW id \in EnvIds \cup {NoId}, SysEnvDestroy(c, id) \/ SysEnvSetPgfaultUpcall(c, id)
      PROVE  ProgInv'
  <2> DEFINE e == Envid2Env(c, id, TRUE)
  <2> SUFFICES ASSUME e # NoEnv, MayKill(c, e), EnvDestroy(c, e, "ret"), UNCHANGED envVars
               PROVE  ProgInv'
    BY <1>2, <1>5 DEF SysEnvDestroy, SysEnvSetPgfaultUpcall
  <2>1. e \in Slots /\ pgdir[e]
    BY <1>0, EnvidLive
  <2>2. e = curenv[c] \/ child[e] # "killed"
    BY DEF MayKill
  <2> HIDE DEF e
  <2> QED BY <1>0, <2>1, <2>2, EnvDestroySafe DEF envVars
<1>6. ASSUME NEW id \in EnvIds \cup {NoId}, SysIpcTrySend(c, id)
      PROVE  ProgInv'
  <2> DEFINE e == Envid2Env(c, id, FALSE)
  <2> SUFFICES ASSUME e # NoEnv, recving[e], recving' = [recving EXCEPT ![e] = FALSE],
                      status' = [status EXCEPT ![e] = "RUNNABLE"], Goto(c, "ret"),
                      UNCHANGED <<cpunum, memVars, curenv, child>>
               PROVE  ProgInv'
    BY <1>2, <1>6 DEF SysIpcTrySend
  <2>1. e \in Slots /\ status[e] # "FREE" /\ pgdir[e]
    BY <1>0, EnvidLive
  <2> HIDE DEF e
  <2>2. status[e] = "NOT_RUNNABLE" /\ child[e] \notin {"fresh", "killed"}
    BY <2>1 DEF SafeInv, ProgInv, RecvingIsBlocked, ChildMeans
  <2>3. \A d \in CPU \ {c} : curenv[d] # e
    BY <1>0, <2>1, <2>2, OtherCpu, HandlerFacts
  <2>4. /\ pgdir'[e] /\ child'[e] \notin {"fresh", "killed"} /\ recving'[e] = FALSE
        /\ \A s \in Slots \ {e} : /\ child'[s] = child[s] /\ recving'[s] = recving[s]
                                  /\ pgdir'[s] = pgdir[s]
    BY <1>1, <2>1, <2>2 DEF memVars
  <2> QED BY <1>0, <2>1, <2>2, <2>3, <2>4, HandlerFacts, StatusSafe
<1>7. ASSUME NEW id \in EnvIds \cup {NoId}, SysEnvLowerPriority(c, id)
      PROVE  ProgInv'
  BY <1>0, <1>2, <1>7, HandlerMoves DEF SysEnvLowerPriority, envVars
<1>8. ASSUME NEW id \in EnvIds \cup {NoId}, NEW st \in {"RUNNABLE", "NOT_RUNNABLE"},
             SysEnvSetStatus(c, id, st)
      PROVE  ProgInv'
  <2> DEFINE e == Envid2Env(c, id, TRUE)
  <2> SUFFICES ASSUME e # NoEnv, MayStart(c, e), status' = [status EXCEPT ![e] = st],
                      child' = [child EXCEPT ![e] =
                          IF @ = "fresh" /\ st = "RUNNABLE" THEN "started" ELSE @],
                      Goto(c, "ret"), UNCHANGED <<envVars, memVars, curenv>>
               PROVE  ProgInv'
    BY <1>2, <1>8 DEF SysEnvSetStatus
  <2>1. e \in Slots /\ status[e] # "FREE" /\ pgdir[e]
    BY <1>0, EnvidLive
  <2> HIDE DEF e
  <2>2. e = curenv[c] \/ child[e] = "fresh"
    BY DEF MayStart
  <2>3. /\ status[e] # "DYING" /\ ~recving[e] /\ child[e] # "killed"
        /\ \A d \in CPU \ {c} : curenv[d] # e
        /\ child[e] = "fresh" => curenv[c] # e
    <3>1. CASE e = curenv[c]
      BY <1>0, <3>1, HandlerFacts
    <3>2. CASE child[e] = "fresh"
      BY <2>1, <3>2 DEF SafeInv, ProgInv, ChildMeans
    <3> QED BY <2>2, <3>1, <3>2
  <2>4. /\ child'[e] # "killed" /\ (child'[e] = "fresh" => child[e] = "fresh" /\ st = "NOT_RUNNABLE")
        /\ \A s \in Slots \ {e} : child'[s] = child[s]
    BY <1>1, <2>1, <2>3
  <2>5. UNCHANGED <<pgdir, recving, cpunum, curenv>>
    BY DEF envVars, memVars
  <2> QED BY <1>0, <2>1, <2>3, <2>4, <2>5, HandlerFacts, StatusSafe
<1>9. CASE SysYield(c) \/ SysOther(c)
  BY <1>2, <1>9 DEF SysYield, SysOther
<1> QED BY <1>3, <1>4, <1>5, <1>6, <1>7, <1>8, <1>9 DEF Syscall

\* Every step keeps the invariant.
LEMMA ProgStep == Misuse = {} /\ SafeInv /\ [Next]_vars => ProgInv'
<1>1. ASSUME SafeInv, UNCHANGED vars PROVE ProgInv'
  BY <1>1 DEF vars, envVars, memVars, SafeInv, ProgInv, OneCpuPerEnv, UserEnvAlive,
     ActiveHasCpu, LiveSlots, CurenvLive, RecvingIsBlocked, ChildMeans, BootReady,
     IdleIsFinal, SomeoneActive, CpunumIsTrue, NoPanic
<1> SUFFICES ASSUME Misuse = {}, SafeInv, NEW c \in CPU, CpuStep(c) PROVE ProgInv'
  BY <1>1 DEF Next
<1>2. CASE Boot(c)
  <2>1. 0 \in Slots /\ 0 \in Runnable
    BY <1>2, NENVAssumption DEF Boot, Slots, Runnable, SafeInv, ProgInv, BootReady
  <2> QED BY <1>2, <2>1, EnvRunSafe DEF Boot, envVars
<1>3. CASE MpMain(c)
  <2>1. Goto(c, "sched")
    BY <1>3 DEF MpMain, SpinLock, SafeInv, SysInv, LockOwner, InKernel
  <2> QED BY <1>3, <2>1, MoveSafe DEF MpMain, Places, InUser, envVars
<1>4. CASE ContextSwitch(c)
  <2>1. curenv[c] \in Slots
    BY <1>4 DEF ContextSwitch, SafeInv, SysInv, HasEnv
  <2> QED BY <1>4, <2>1, MoveSafe DEF ContextSwitch, Places, InUser
<1>5. CASE Dispatch(c)
  <2>1. CASE Timer(c) \/ Breakpoint(c)
    BY <2>1, HandlerMoves DEF Timer, Breakpoint, Handles, NoEffect, envVars
  <2>2. CASE PageFault(c) \/ BadTrap(c)
    <3>1. pc[c] = "dispatch" /\ UNCHANGED <<recving, cpunum>>
      BY <2>2 DEF PageFault, BadTrap, Handles, envVars
    <3>2. EnvRun(c, curenv[c]) \/ EnvDestroy(c, curenv[c], "ret")
      BY <2>2 DEF PageFault, BadTrap
    <3> QED BY <3>1, <3>2, HandlerFacts, EnvRunSafe, EnvDestroySafe
  <2> QED BY <1>5, <2>1, <2>2, SyscallSafe DEF Dispatch
<1> QED BY <1>2, <1>3, <1>4, <1>5, SchedulerSafe, TrapPathSafe DEF CpuStep

\* The state after boot satisfies the invariant.
LEMMA ProgInit == Init => ProgInv
<1> SUFFICES ASSUME Init PROVE ProgInv
  OBVIOUS
<1> USE NENVAssumption, CPUAssumption, InitEnvsAssumption DEF Init
<1>1. OneCpuPerEnv /\ UserEnvAlive /\ ActiveHasCpu /\ CpunumIsTrue
  BY DEF OneCpuPerEnv, UserEnvAlive, ActiveHasCpu, CpunumIsTrue, InUser
<1>2. LiveSlots /\ RecvingIsBlocked /\ ChildMeans
  BY DEF LiveSlots, RecvingIsBlocked, ChildMeans
<1>3. BootReady
  <2>1. 0 \in Slots /\ 0 < InitEnvs
    BY DEF Slots
  <2> QED BY <2>1 DEF BootReady
<1>4. CurenvLive /\ IdleIsFinal /\ NoPanic
  BY DEF CurenvLive, IdleIsFinal, NoPanic
<1> QED BY <1>1, <1>2, <1>3, <1>4 DEF ProgInv

\* What the programs of lib/ and user/ can count on, for any number of
\* processors, slots and environments and both schedulers.
THEOREM ProgramInvariant == ASSUME Misuse = {} PROVE Spec => []SafeInv
<1>1. Init => SafeInv
  BY SysInit, ProgInit DEF SafeInv
<1>2. SafeInv /\ [Next]_vars => SafeInv'
  <2>1. SysInv /\ [Next]_vars => SysInv'
    BY TypeStep, LockStep, HandshakeStep, FreeListStep, PagesStep DEF SysInv
  <2> QED BY <2>1, ProgStep DEF SafeInv
<1> QED BY <1>1, <1>2, PTL DEF Spec

\* No environment is ever current on two processors (the check that
\* user/stresssched.c makes with a counter).
THEOREM EnvOnOneCpu == ASSUME Misuse = {} PROVE Spec => []OneCpuPerEnv
<1>1. SafeInv => OneCpuPerEnv
  BY DEF SafeInv, ProgInv
<1> QED BY <1>1, ProgramInvariant, PTL

\* What a processor executes in user mode is alive, with the address space that
\* is loaded in its cr3: env_destroy() by another processor only marks it.
THEOREM UserEnvsAlive == ASSUME Misuse = {} PROVE Spec => []UserEnvAlive
<1>1. SafeInv => UserEnvAlive
  BY DEF SafeInv, ProgInv
<1> QED BY <1>1, ProgramInvariant, PTL

\* A running environment or a zombie is current on a processor, which will give
\* it back to the scheduler or collect it.
THEOREM ActiveEnvsHaveCpu == ASSUME Misuse = {} PROVE Spec => []ActiveHasCpu
<1>1. SafeInv => ActiveHasCpu
  BY DEF SafeInv, ProgInv
<1> QED BY <1>1, ProgramInvariant, PTL

\* env_ipc_recving means blocked, which sys_ipc_try_send() relies on.
THEOREM ReceiversBlocked == ASSUME Misuse = {} PROVE Spec => []RecvingIsBlocked
<1>1. SafeInv => RecvingIsBlocked
  BY DEF SafeInv, ProgInv
<1> QED BY <1>1, ProgramInvariant, PTL

\* The scheduler enters the monitor for good only when no processor has an
\* environment left.
THEOREM IdleFinal == ASSUME Misuse = {} PROVE Spec => []IdleIsFinal
<1>1. SafeInv => IdleIsFinal
  BY DEF SafeInv, ProgInv
<1> QED BY <1>1, ProgramInvariant, PTL

\* thisenv->env_cpunum is right for a program that reads it, although env_run()
\* writes it after releasing the lock.
THEOREM CpunumTrue == ASSUME Misuse = {} PROVE Spec => []CpunumIsTrue
<1>1. SafeInv => CpunumIsTrue
  BY DEF SafeInv, ProgInv
<1> QED BY <1>1, ProgramInvariant, PTL

\* No program of this kind makes the kernel panic.
THEOREM KernelNeverPanics == ASSUME Misuse = {} PROVE Spec => []NoPanic
<1>1. SafeInv => NoPanic
  BY DEF SafeInv, ProgInv
<1> QED BY <1>1, ProgramInvariant, PTL

-----------------------------------------------------------------------------
(***************************************************************************)
(* How the status of an environment may change.                            *)
(***************************************************************************)
OwnerStep(c, e) == lock = c /\ curenv[c] = e /\ status[e] = "RUNNING"
KillStep(e) == status[e] = "RUNNING" /\ status'[e] = "DYING"
ReapStep(c, e) ==
    /\ pc[c] = "acquire" /\ curenv[c] = e /\ status[e] = "DYING"
    /\ status'[e] = "FREE" /\ curenv'[c] = NoEnv
NotExecuted(e) == status[e] \in {"FREE", "NOT_RUNNABLE", "RUNNABLE"}

\* env_run() changes the status of its environment and of curenv only.
LEMMA EnvRunStatus ==
    ASSUME SafeInv, NEW c \in CPU, lock = c, NEW x \in Slots, EnvRun(c, x),
           status[x] \in {"RUNNABLE", "RUNNING"},
           NEW e \in Slots, status'[e] # status[e]
    PROVE  OwnerStep(c, e) \/ NotExecuted(e)
BY DEF EnvRun, Preempted, OwnerStep, NotExecuted, SafeInv, SysInv, TypeOK

\* env_destroy() frees its own environment or makes a zombie.
LEMMA EnvDestroyStatus ==
    ASSUME SafeInv, NEW c \in CPU, lock = c, NEW x \in Slots, EnvDestroy(c, x, "ret"),
           x = curenv[c] \/ child[x] # "killed",
           NEW e \in Slots, status'[e] # status[e]
    PROVE  OwnerStep(c, e) \/ KillStep(e) \/ NotExecuted(e)
<1>1. e = x /\ status \in [Slots -> Statuses]
  BY DEF EnvDestroy, EnvFree, SafeInv, SysInv, TypeOK
<1>2. CASE RunsElsewhere(c, x)
  BY <1>1, <1>2 DEF EnvDestroy, RunsElsewhere, KillStep
<1>3. CASE ~RunsElsewhere(c, x)
  <2>1. status[x] # "DYING"
    BY HolderNoZombie DEF SafeInv, ProgInv, ChildMeans, NoEnv, Slots
  <2> QED BY <1>1, <1>3, <2>1 DEF RunsElsewhere, OwnerStep, NotExecuted, Statuses
<1> QED BY <1>2, <1>3

\* What a system call may do to the status of an environment.
LEMMA SyscallStatus ==
    ASSUME SafeInv, Misuse = {}, NEW c \in CPU, Syscall(c),
           NEW e \in Slots, status'[e] # status[e]
    PROVE  OwnerStep(c, e) \/ KillStep(e) \/ NotExecuted(e)
<1>0. pc[c] = "dispatch"
  BY DEF Syscall, SysYield, SysOther, SysExofork, SysIpcRecv, SysEnvDestroy,
         SysEnvSetPgfaultUpcall, SysIpcTrySend, SysEnvLowerPriority, SysEnvSetStatus, Handles
<1>1. /\ lock = c /\ curenv[c] \in Slots /\ status[curenv[c]] = "RUNNING"
      /\ status \in [Slots -> Statuses] /\ freeList \in Seq(Slots)
  BY <1>0, HandlerFacts DEF SafeInv, SysInv, TypeOK
<1>2. CASE SysExofork(c)
  <2>1. freeList # <<>> /\ status' = [status EXCEPT ![Head(freeList)] = "NOT_RUNNABLE"]
    BY <1>2 DEF SysExofork, NoEffect, EnvAlloc
  <2>2. e = Head(freeList)
    BY <1>1, <2>1
  <2>3. 1 \in DOMAIN freeList /\ freeList[1] = e
    BY <1>1, <2>1, <2>2
  <2>4. status[e] = "FREE"
    BY <2>3 DEF SafeInv, SysInv, FreeListExact, ProgInv, LiveSlots
  <2> QED BY <2>4 DEF NotExecuted
<1>3. CASE SysIpcRecv(c)
  BY <1>1, <1>3 DEF SysIpcRecv, OwnerStep
<1>4. ASSUME NEW id \in EnvIds \cup {NoId}, SysEnvDestroy(c, id) \/ SysEnvSetPgfaultUpcall(c, id)
      PROVE  OwnerStep(c, e) \/ KillStep(e) \/ NotExecuted(e)
  <2> DEFINE x == Envid2Env(c, id, TRUE)
  <2>1. x # NoEnv /\ MayKill(c, x) /\ EnvDestroy(c, x, "ret")
    BY <1>4 DEF SysEnvDestroy, SysEnvSetPgfaultUpcall, NoEffect
  <2>2. x \in Slots /\ (x = curenv[c] \/ child[x] # "killed")
    BY <1>0, <2>1, EnvidLive DEF MayKill
  <2> HIDE DEF x
  <2> QED BY <1>1, <2>1, <2>2, EnvDestroyStatus
<1>5. ASSUME NEW id \in EnvIds \cup {NoId}, SysIpcTrySend(c, id)
      PROVE  NotExecuted(e)
  <2> DEFINE x == Envid2Env(c, id, FALSE)
  <2>1. x # NoEnv /\ recving[x] /\ status' = [status EXCEPT ![x] = "RUNNABLE"]
    BY <1>5 DEF SysIpcTrySend, NoEffect
  <2> HIDE DEF x
  <2>2. e = x
    BY <1>1, <2>1
  <2> QED BY <2>1, <2>2 DEF SafeInv, ProgInv, RecvingIsBlocked, NotExecuted
<1>6. ASSUME NEW id \in EnvIds \cup {NoId}, NEW st \in {"RUNNABLE", "NOT_RUNNABLE"},
             SysEnvSetStatus(c, id, st)
      PROVE  OwnerStep(c, e) \/ NotExecuted(e)
  <2> DEFINE x == Envid2Env(c, id, TRUE)
  <2>1. MayStart(c, x) /\ status' = [status EXCEPT ![x] = st]
    BY <1>6 DEF SysEnvSetStatus, NoEffect
  <2> HIDE DEF x
  <2>2. e = x /\ (x = curenv[c] \/ child[x] = "fresh")
    BY <1>1, <2>1 DEF MayStart
  <2> QED BY <1>1, <2>2 DEF OwnerStep, NotExecuted, SafeInv, ProgInv, ChildMeans
<1> QED BY <1>2, <1>3, <1>4, <1>5, <1>6 DEF Syscall, SysYield, SysOther, SysEnvLowerPriority, NoEffect

\* What any step may do to the status of an environment.
LEMMA StatusChange ==
    ASSUME SafeInv, Misuse = {}, NEW c \in CPU, CpuStep(c),
           NEW e \in Slots, status'[e] # status[e]
    PROVE  OwnerStep(c, e) \/ KillStep(e) \/ ReapStep(c, e) \/ NotExecuted(e)
<1>0. /\ status \in [Slots -> Statuses] /\ curenv \in [CPU -> Slots \cup {NoEnv}]
      /\ pc[c] \in InKernel => lock = c
  BY DEF SafeInv, SysInv, TypeOK, LockOwner
<1>1. CASE Boot(c)
  <2>1. 0 \in Slots /\ status[0] = "RUNNABLE" /\ lock = c
    BY <1>0, <1>1, NENVAssumption DEF Boot, InKernel, Slots, SafeInv, ProgInv, BootReady
  <2> QED BY <1>1, <2>1, EnvRunStatus DEF Boot
<1>2. CASE Scheduler(c)
  <2>1. lock = c
    BY <1>0, <1>2 DEF Scheduler, SchedPick, SchedContinue, SchedHalt, SchedIdle, InKernel
  <2>2. CASE SchedPick(c)
    BY <2>1, <2>2, EnvRunStatus DEF SchedPick, Runnable
  <2>3. CASE SchedContinue(c)
    BY <1>0, <2>1, <2>3, EnvRunStatus DEF SchedContinue, NothingToPick
  <2> QED BY <1>2, <2>2, <2>3 DEF Scheduler, SchedHalt, SchedIdle
<1>3. CASE TrapPath(c)
  <2>1. CASE ReapZombie(c)
    <3>1. curenv[c] \in Slots
      BY <2>1 DEF ReapZombie, SafeInv, SysInv, HasEnv
    <3> QED BY <1>0, <2>1, <3>1 DEF ReapZombie, EnvFree, IsZombie, ReapStep
  <2>2. CASE Resume(c)
    BY <1>0, <2>2, EnvRunStatus DEF Resume, CanResume, InKernel
  <2> QED BY <1>3, <2>1, <2>2 DEF TrapPath, TrapEntry, TrapDead, WakeLock, TrapLock, Reschedule
<1>4. CASE Dispatch(c)
  <2>1. CASE PageFault(c) \/ BadTrap(c)
    <3>1. pc[c] = "dispatch" /\ (EnvRun(c, curenv[c]) \/ EnvDestroy(c, curenv[c], "ret")
                                  \/ UNCHANGED status)
      BY <2>1 DEF PageFault, BadTrap, Handles
    <3> QED BY <3>1, HandlerFacts, EnvRunStatus, EnvDestroyStatus
  <2> QED BY <1>4, <2>1, SyscallStatus DEF Dispatch, Timer, Breakpoint, NoEffect
<1> QED BY <1>1, <1>2, <1>3, <1>4 DEF CpuStep, MpMain, ContextSwitch

\* A zombie stays one until the processor that executes it traps, and is then
\* freed by that processor (env_destroy, trap).
THEOREM ZombiesReapedByTheirCpu ==
    ASSUME Misuse = {} PROVE Spec => ZombieReapedByItsCpu
<1>1. SafeInv /\ [Next]_vars =>
        [\A e \in Slots : IsZombie(e) /\ status'[e] # "DYING" =>
            \E c \in CPU : /\ pc[c] = "acquire" /\ curenv[c] = e
                           /\ status'[e] = "FREE"
                           /\ curenv'[c] = NoEnv]_vars
  BY StatusChange DEF Next, IsZombie, OwnerStep, KillStep, ReapStep, NotExecuted
<1> QED BY <1>1, ProgramInvariant, PTL DEF Spec, ZombieReapedByItsCpu

\* Only the processor that runs an environment, holding the big lock, takes it
\* off the processor; another one can at most make a zombie of it.
THEOREM OwnersPreempt == ASSUME Misuse = {} PROVE Spec => OnlyOwnerPreempts
<1>1. SafeInv /\ [Next]_vars =>
        [\A e \in Slots : status[e] = "RUNNING" /\ status'[e] # "RUNNING" =>
            \/ status'[e] = "DYING"
            \/ \E c \in CPU : lock = c /\ curenv[c] = e]_vars
  BY StatusChange DEF Next, OwnerStep, KillStep, ReapStep, NotExecuted
<1> QED BY <1>1, ProgramInvariant, PTL DEF Spec, OnlyOwnerPreempts
=============================================================================
