---------------------------- MODULE PagesProofs ----------------------------
(* The machine of BootMemory, from the moment it runs, keeps the invariant   *)
(* of PagesInvariant, and with it the counts of pages, the address spaces    *)
(* and the translations are right.                                           *)
EXTENDS BootMemory, PagesLemmas

-----------------------------------------------------------------------------
(* The invariant in the next state, from lemmas about memories.              *)

(* The directory of the kernel stays where it is.                            *)
LEMMA KernelSame ==
    ASSUME kern_pgdir' = kern_pgdir, MemoryInv(memory', env_pgdir', 0)
    PROVE  MemoryInv(memory, env_pgdir, 0)'
<1>1. \A d : Counted(d)' = Counted(d)
  BY DEF Counted
<1>2. /\ LiveIn(env_pgdir)' = LiveIn(env_pgdir') /\ DirsIn(env_pgdir)' = DirsIn(env_pgdir')
      /\ ManagedIn(memory)' = ManagedIn(memory')
  BY DEF LiveIn, DirsIn, ManagedIn
<1>3. /\ Records(memory)' /\ FreeList(memory)' /\ UserTablesOK(memory, env_pgdir)'
      /\ HoldsPage(memory, 0)'
  BY DEF MemoryInv, Records, FreeList, UserTablesOK, HoldsPage, ManagedIn, LiveIn, Present, TableAt, Slot
<1>4. Directories(memory, env_pgdir)'
  BY DEF MemoryInv, Directories, ManagedIn, LiveIn, DirsIn, Present
<1>5. TablesApart(memory, env_pgdir)'
  <2>1. TablesApart(memory', env_pgdir')
    BY DEF MemoryInv
  <2> QED BY <1>1, <1>2, <2>1 DEF TablesApart, Present, TableAt
<1>6. \A p : TabRefs(memory, env_pgdir, p)' = TabRefs(memory', env_pgdir', p)
  BY <1>1, <1>2 DEF TabRefs, Present, TableAt
<1>7. RefsCounted(memory, env_pgdir, 0)'
  <2>1. RefsCounted(memory', env_pgdir', 0)
    BY DEF MemoryInv
  <2>2. \A p : MapRefs(memory, env_pgdir, p)' = MapRefs(memory', env_pgdir', p)
    BY DEF MapRefs, LiveIn, Present, Slot
  <2>3. \A p : EnvRefs(env_pgdir, p)' = EnvRefs(env_pgdir', p)
    BY DEF EnvRefs
  <2> QED BY <1>2, <1>6, <2>1, <2>2, <2>3 DEF RefsCounted, Held
<1> QED BY <1>3, <1>4, <1>5, <1>7 DEF MemoryInv

(* Who runs where is the same.                                               *)
LEMMA RunnersSame ==
    ASSUME OneRunner, UNCHANGED <<env_pgdir, curenv>>
    PROVE  OneRunner'
  BY DEF OneRunner, Exists

(* A processor keeps or forgets translations whose mapping did not change.   *)
LEMMA TlbKept ==
    ASSUME OneRunner, TlbInv, DOMAIN tlb' = CPU,
           NEW n, n = memory', NEW E, E = env_pgdir',
           \A c \in CPU : \A t \in tlb'[c] :
              /\ t \in tlb[c] /\ curenv'[c] = curenv[c]
              /\ Pte(n, E[curenv[c]], t.va) = Pte(memory, env_pgdir[curenv[c]], t.va)
    PROVE  TlbInv'
<1>1. ASSUME NEW c \in CPU, NEW t \in tlb'[c]
      PROVE  /\ t.va \in Nat /\ ValidVa(t.va)
             /\ curenv'[c] # NoEnv /\ Pte(memory', env_pgdir'[curenv'[c]], t.va) = t.pte
  BY <1>1 DEF TlbInv, TlbFresh
<1>2. \A c \in CPU : \A t \in tlb'[c] : (Pte(memory, env_pgdir[curenv[c]], t.va) = t.pte)'
  BY <1>1 DEF Pte, HasPte
<1>3. TlbFresh'
  BY <1>1, <1>2 DEF TlbFresh
<1> QED BY <1>1, <1>3 DEF TlbInv, ValidVa

(* What a program that runs has.                                             *)
LEMMA RunnerIs ==
    ASSUME PagesInv, NEW c \in CPU, curenv[c] # NoEnv
    PROVE  /\ curenv[c] \in Envs /\ Exists(curenv[c])
           /\ env_pgdir[curenv[c]] \in LiveIn(env_pgdir)
<1>1. curenv[c] \in Envs /\ Exists(curenv[c])
  BY DEF PagesInv, OneRunner
<1> QED BY <1>1 DEF LiveIn, Exists

(* Environments that exist have directories of their own.                    *)
LEMMA OwnDirectory ==
    ASSUME PagesInv, NEW e \in Envs, NEW f \in Envs, Exists(e), env_pgdir[e] = env_pgdir[f]
    PROVE  e = f
  BY DEF PagesInv, MemoryInv, Directories, Exists

(* No processor keeps a translation of the address that changed, when the    *)
(* one that made the change invalidates it and no other runs the owner.      *)
LEMMA ChangeInvalidated ==
    ASSUME PagesInv, ~Remote, NEW c \in CPU, NEW f \in Envs, Exists(f),
           \A d \in CPU \ {c} : curenv[d] # f,
           NEW va, NEW n, n = memory', SameElsewhere(memory, n, env_pgdir, env_pgdir[f], va),
           tlb' = TlbInvalidate(c, f, va), UNCHANGED <<env_pgdir, curenv>>
    PROVE  TlbInv'
<1>1. OneRunner /\ TlbInv
  BY DEF PagesInv
<1>2. DOMAIN tlb' = CPU
  BY <1>1 DEF TlbInv, TlbInvalidate
<1>3. ASSUME NEW d \in CPU, NEW t \in tlb'[d]
      PROVE  /\ t \in tlb[d] /\ curenv'[d] = curenv[d]
             /\ Pte(n, env_pgdir[curenv[d]], t.va) = Pte(memory, env_pgdir[curenv[d]], t.va)
  <2>1. t \in tlb[d] /\ (d = c /\ curenv[c] = f => t.va # va)
    BY <1>1, <1>3 DEF TlbInv, TlbInvalidate
  <2>2. curenv[d] # NoEnv /\ t.va \in Nat /\ ValidVa(t.va)
    BY <1>1, <2>1 DEF TlbInv, TlbFresh
  <2>3. curenv[d] \in Envs /\ Exists(curenv[d]) /\ env_pgdir[curenv[d]] \in LiveIn(env_pgdir)
    BY <2>2, RunnerIs
  <2>4. ~(env_pgdir[curenv[d]] = env_pgdir[f] /\ t.va = va)
    <3> SUFFICES ASSUME env_pgdir[curenv[d]] = env_pgdir[f], t.va = va PROVE FALSE
      OBVIOUS
    <3>1. curenv[d] = f
      BY <2>3, OwnDirectory
    <3> QED BY <2>1, <3>1
  <2>5. Pte(n, env_pgdir[curenv[d]], t.va) = Pte(memory, env_pgdir[curenv[d]], t.va)
    BY <2>2, <2>3, <2>4 DEF SameElsewhere
  <2> QED BY <2>1, <2>5
<1>4. env_pgdir' = env_pgdir
  OBVIOUS
<1> QED BY <1>1, <1>2, <1>3, <1>4, TlbKept

(* Nor of an environment that nobody runs.                                   *)
LEMMA ChangeOfIdle ==
    ASSUME PagesInv, ~Remote, NEW f \in Envs, Exists(f), \A d \in CPU : curenv[d] # f,
           NEW va, NEW n, n = memory', SameElsewhere(memory, n, env_pgdir, env_pgdir[f], va),
           UNCHANGED <<env_pgdir, curenv, tlb>>
    PROVE  TlbInv'
<1>1. OneRunner /\ TlbInv
  BY DEF PagesInv
<1>2. DOMAIN tlb' = CPU
  BY <1>1 DEF TlbInv
<1>3. ASSUME NEW d \in CPU, NEW t \in tlb'[d]
      PROVE  /\ t \in tlb[d] /\ curenv'[d] = curenv[d]
             /\ Pte(n, env_pgdir[curenv[d]], t.va) = Pte(memory, env_pgdir[curenv[d]], t.va)
  <2>1. t \in tlb[d]
    BY <1>3
  <2>2. curenv[d] # NoEnv /\ t.va \in Nat /\ ValidVa(t.va)
    BY <1>1, <2>1 DEF TlbInv, TlbFresh
  <2>3. curenv[d] \in Envs /\ Exists(curenv[d]) /\ env_pgdir[curenv[d]] \in LiveIn(env_pgdir)
    BY <2>2, RunnerIs
  <2>4. env_pgdir[curenv[d]] # env_pgdir[f]
    BY <2>3, OwnDirectory
  <2>5. Pte(n, env_pgdir[curenv[d]], t.va) = Pte(memory, env_pgdir[curenv[d]], t.va)
    BY <2>2, <2>3, <2>4 DEF SameElsewhere
  <2> QED BY <2>1, <2>5
<1>4. env_pgdir' = env_pgdir
  OBVIOUS
<1> QED BY <1>1, <1>2, <1>3, <1>4, TlbKept

(* Nor of the environments that keep their mappings.                         *)
LEMMA NoChange ==
    ASSUME PagesInv, ~Remote, NEW n, n = memory',
           NEW E, E = env_pgdir', MappingsSame(memory, n, E),
           DOMAIN tlb' = CPU,
           \A d \in CPU : tlb'[d] # {} =>
              /\ tlb'[d] = tlb[d] /\ curenv'[d] = curenv[d]
              /\ E[curenv[d]] = env_pgdir[curenv[d]]
              /\ E[curenv[d]] \in LiveIn(E)
    PROVE  TlbInv'
<1>1. OneRunner /\ TlbInv
  BY DEF PagesInv
<1>2. ASSUME NEW d \in CPU, NEW t \in tlb'[d]
      PROVE  /\ t \in tlb[d] /\ curenv'[d] = curenv[d]
             /\ Pte(n, E[curenv[d]], t.va) = Pte(memory, env_pgdir[curenv[d]], t.va)
  <2>1. /\ t \in tlb[d] /\ curenv'[d] = curenv[d]
        /\ E[curenv[d]] = env_pgdir[curenv[d]]
        /\ E[curenv[d]] \in LiveIn(E)
    BY <1>2
  <2>2. t.va \in Nat /\ ValidVa(t.va)
    BY <1>1, <2>1 DEF TlbInv
  <2> QED BY <2>1, <2>2 DEF MappingsSame
<1> QED BY <1>1, <1>2, TlbKept

-----------------------------------------------------------------------------
(* One lemma for each trap.                                                  *)

(* The names the programs use.                                               *)
LEMMA Guard ==
    ASSUME PagesInv, NEW c \in CPU, NEW e, Running(c, e)
    PROVE  /\ e \in Envs /\ Exists(e) /\ curenv[c] = e
           /\ \A f : MayChange(c, e, f) => Exists(f) /\ (~Remote => \A d \in CPU \ {c} : curenv[d] # f)
<1>1. curenv[c] = e /\ e # NoEnv
  BY DEF Running
<1>2. e \in Envs /\ Exists(e)
  BY <1>1, RunnerIs
<1> QED BY <1>1, <1>2 DEF MayChange

LEMMA SysPageAllocInv ==
    ASSUME PagesInv, NEW c \in CPU, NEW e \in Envs, NEW f \in Envs, NEW va \in UserVas,
           NEW perm, SysPageAlloc(c, e, f, va, perm)
    PROVE  PagesInv'
<1> PICK r : r = EnvPageAlloc(memory, f, va, UserPerm(perm))
  OBVIOUS
<1>1. /\ Running(c, e) /\ MayChange(c, e, f) /\ ValidVa(va)
      /\ memory' = r.memory
      /\ tlb' = IF r.ok THEN TlbInvalidate(c, f, va) ELSE tlb
      /\ UNCHANGED <<kern_pgdir, env_pgdir, parent, curenv>>
  BY DEF SysPageAlloc
<1>2. va \in Nat /\ Exists(f) /\ (~Remote => \A d \in CPU \ {c} : curenv[d] # f)
  BY <1>1, Guard, PagesAssumption
<1>3. MemoryInv(memory, env_pgdir, 0) /\ OneRunner
  BY DEF PagesInv
<1>4. /\ MemoryInv(r.memory, env_pgdir, 0)
      /\ SameElsewhere(memory, r.memory, env_pgdir, env_pgdir[f], va)
      /\ ~r.ok => MappingsSame(memory, r.memory, env_pgdir)
  BY <1>1, <1>2, <1>3, EnvPageAllocInv DEF MappingsSame
<1> PICK n : n = memory'
  OBVIOUS
<1>5. MemoryInv(memory, env_pgdir, 0)'
  BY <1>1, <1>4, KernelSame
<1>6. OneRunner'
  BY <1>1, <1>3, RunnersSame
<1>7. ASSUME ~Remote PROVE TlbInv'
  <2>1. CASE r.ok
    BY <1>1, <1>2, <1>4, <1>7, <2>1, ChangeInvalidated
  <2>2. CASE ~r.ok
    <3>1. DOMAIN tlb' = CPU /\ tlb' = tlb
      BY <1>1, <1>7, <2>2 DEF PagesInv, TlbInv
    <3>2. \A d \in CPU : tlb'[d] # {} => curenv[d] # NoEnv
      BY <1>7, <3>1 DEF PagesInv, TlbInv, TlbFresh
    <3>3. \A d \in CPU : tlb'[d] # {} =>
              /\ tlb'[d] = tlb[d] /\ curenv'[d] = curenv[d]
              /\ env_pgdir[curenv[d]] \in LiveIn(env_pgdir)
      BY <1>1, <3>1, <3>2, RunnerIs
    <3>4. MappingsSame(memory, n, env_pgdir) /\ env_pgdir' = env_pgdir
      BY <1>1, <1>4, <2>2
    <3> QED BY <1>7, <3>1, <3>3, <3>4, NoChange
  <2> QED BY <2>1, <2>2
<1> QED BY <1>5, <1>6, <1>7 DEF PagesInv

LEMMA SysPageMapInv ==
    ASSUME PagesInv, NEW c \in CPU, NEW e \in Envs, NEW s \in Envs, NEW f \in Envs,
           NEW srcva \in UserVas, NEW dstva \in UserVas,
           NEW perm, SysPageMap(c, e, s, srcva, f, dstva, perm)
    PROVE  PagesInv'
<1> PICK r : r = EnvPageMap(memory, s, srcva, f, dstva, UserPerm(perm))
  OBVIOUS
<1>1. /\ Running(c, e) /\ MayChange(c, e, s) /\ MayChange(c, e, f)
      /\ ValidVa(srcva) /\ ValidVa(dstva)
      /\ memory' = r.memory
      /\ tlb' = IF r.ok THEN TlbInvalidate(c, f, dstva) ELSE tlb
      /\ UNCHANGED <<kern_pgdir, env_pgdir, parent, curenv>>
  BY DEF SysPageMap
<1>2. /\ srcva \in Nat /\ dstva \in Nat /\ Exists(s) /\ Exists(f)
      /\ (~Remote => \A d \in CPU \ {c} : curenv[d] # f)
  BY <1>1, Guard, PagesAssumption
<1>3. MemoryInv(memory, env_pgdir, 0) /\ OneRunner
  BY DEF PagesInv
<1>4. /\ MemoryInv(r.memory, env_pgdir, 0)
      /\ SameElsewhere(memory, r.memory, env_pgdir, env_pgdir[f], dstva)
      /\ ~r.ok => r.memory = memory
  BY <1>1, <1>2, <1>3, EnvPageMapInv
<1> PICK n : n = memory'
  OBVIOUS
<1>5. MemoryInv(memory, env_pgdir, 0)'
  BY <1>1, <1>4, KernelSame
<1>6. OneRunner'
  BY <1>1, <1>3, RunnersSame
<1>7. ASSUME ~Remote PROVE TlbInv'
  <2>1. CASE r.ok
    BY <1>1, <1>2, <1>4, <1>7, <2>1, ChangeInvalidated
  <2>2. CASE ~r.ok
    <3>1. memory' = memory /\ tlb' = tlb /\ env_pgdir' = env_pgdir /\ curenv' = curenv
      BY <1>1, <1>4, <2>2
    <3>2. TlbInv
      BY <1>7 DEF PagesInv
    <3> QED BY <3>1, <3>2 DEF TlbInv, TlbFresh, Pte, HasPte, ValidVa
  <2> QED BY <2>1, <2>2
<1> QED BY <1>5, <1>6, <1>7 DEF PagesInv

LEMMA SysPageUnmapInv ==
    ASSUME PagesInv, NEW c \in CPU, NEW e \in Envs, NEW f \in Envs, NEW va \in UserVas,
           SysPageUnmap(c, e, f, va)
    PROVE  PagesInv'
<1> PICK n : n = PageRemove(memory, env_pgdir[f], va)
  OBVIOUS
<1>1. /\ Running(c, e) /\ MayChange(c, e, f) /\ ValidVa(va)
      /\ memory' = n /\ tlb' = TlbInvalidate(c, f, va)
      /\ UNCHANGED <<kern_pgdir, env_pgdir, parent, curenv>>
  BY DEF SysPageUnmap
<1>2. va \in Nat /\ Exists(f) /\ (~Remote => \A d \in CPU \ {c} : curenv[d] # f)
  BY <1>1, Guard, PagesAssumption
<1>3. MemoryInv(memory, env_pgdir, 0) /\ OneRunner
  BY DEF PagesInv
<1>4. env_pgdir[f] \in LiveIn(env_pgdir)
  BY <1>2 DEF LiveIn, Exists
<1>5. MemoryInv(n, env_pgdir, 0) /\ SameElsewhere(memory, n, env_pgdir, env_pgdir[f], va)
  BY <1>1, <1>2, <1>3, <1>4, RemoveInv
<1>6. MemoryInv(memory, env_pgdir, 0)'
  BY <1>1, <1>5, KernelSame
<1>7. OneRunner'
  BY <1>1, <1>3, RunnersSame
<1>8. ~Remote => TlbInv'
  BY <1>1, <1>2, <1>5, ChangeInvalidated
<1> QED BY <1>6, <1>7, <1>8 DEF PagesInv

(* The page of the sender takes the place of the fresh one at once.          *)
LEMMA SysIpcTrySendInv ==
    ASSUME PagesInv, NEW c \in CPU, NEW e \in Envs, NEW f \in Envs,
           NEW srcva \in UserVas, NEW dstva \in UserVas,
           NEW perm, SysIpcTrySend(c, e, f, srcva, dstva, perm)
    PROVE  PagesInv'
<1> PICK a : a = EnvPageAlloc(memory, f, dstva, UserPerm(perm))
  OBVIOUS
<1> PICK r : r = EnvPageMap(a.memory, e, srcva, f, dstva, UserPerm(perm))
  OBVIOUS
<1>1. /\ Running(c, e) /\ Exists(f) /\ \A d \in CPU : curenv[d] # f
      /\ ValidVa(srcva) /\ ValidVa(dstva)
  BY DEF SysIpcTrySend
<1>2. srcva \in Nat /\ dstva \in Nat /\ Exists(e)
  BY <1>1, Guard, PagesAssumption
<1>3. MemoryInv(memory, env_pgdir, 0) /\ OneRunner
  BY DEF PagesInv
<1>4. /\ memory' = memory \/ memory' = IF a.ok THEN r.memory ELSE a.memory
      /\ UNCHANGED <<kern_pgdir, env_pgdir, parent, curenv, tlb>>
  BY DEF SysIpcTrySend, Error, pagesVars
<1>5. /\ MemoryInv(a.memory, env_pgdir, 0)
      /\ SameElsewhere(memory, a.memory, env_pgdir, env_pgdir[f], dstva)
  BY <1>1, <1>2, <1>3, EnvPageAllocInv
<1>6. /\ MemoryInv(r.memory, env_pgdir, 0)
      /\ SameElsewhere(a.memory, r.memory, env_pgdir, env_pgdir[f], dstva)
  BY <1>1, <1>2, <1>5, EnvPageMapInv
<1>7. SameElsewhere(memory, memory, env_pgdir, env_pgdir[f], dstva)
  BY DEF SameElsewhere
<1>8. SameElsewhere(memory, r.memory, env_pgdir, env_pgdir[f], dstva)
  BY <1>5, <1>6 DEF SameElsewhere
<1> PICK n : n = memory'
  OBVIOUS
<1>9. MemoryInv(n, env_pgdir, 0) /\ SameElsewhere(memory, n, env_pgdir, env_pgdir[f], dstva)
  BY <1>3, <1>4, <1>5, <1>6, <1>7, <1>8
<1>10. MemoryInv(memory, env_pgdir, 0)'
  BY <1>4, <1>9, KernelSame
<1>11. OneRunner'
  BY <1>3, <1>4, RunnersSame
<1>12. ~Remote => TlbInv'
  BY <1>1, <1>4, <1>9, ChangeOfIdle
<1> QED BY <1>10, <1>11, <1>12 DEF PagesInv

LEMMA SysExoforkInv ==
    ASSUME PagesInv, NEW c \in CPU, NEW e \in Envs, NEW f \in Envs, SysExofork(c, e, f)
    PROVE  PagesInv'
<1>1. PICK n : n = EnvSetupVm(memory)
  OBVIOUS
<1>2. PICK E : E = [env_pgdir EXCEPT ![f] = Head(memory.free)]
  OBVIOUS
<1>3. /\ Running(c, e) /\ ~Exists(f) /\ memory.free # <<>>
      /\ memory' = n /\ env_pgdir' = E
      /\ UNCHANGED <<kern_pgdir, curenv, tlb>>
  BY <1>1, <1>2 DEF SysExofork, EnvAlloc
<1>4. MemoryInv(memory, env_pgdir, 0) /\ OneRunner /\ DOMAIN env_pgdir = Envs
  BY DEF PagesInv, MemoryInv, Directories
<1>5. env_pgdir[f] = 0
  BY <1>3 DEF Exists
<1>6. MemoryInv(n, E, 0) /\ MappingsSame(memory, n, env_pgdir)
  BY <1>3, <1>4, <1>5, <1>1, <1>2, EnvSetupVmInv
<1>7. MemoryInv(memory, env_pgdir, 0)'
  BY <1>3, <1>6, KernelSame
<1>8. \A d \in CPU : curenv[d] # NoEnv =>
         /\ curenv[d] \in Envs /\ curenv[d] # f /\ env_pgdir[curenv[d]] \in LiveIn(env_pgdir)
         /\ E[curenv[d]] = env_pgdir[curenv[d]] /\ E[curenv[d]] # 0
  <2> SUFFICES ASSUME NEW d \in CPU, curenv[d] # NoEnv
               PROVE  /\ curenv[d] \in Envs /\ curenv[d] # f
                      /\ env_pgdir[curenv[d]] \in LiveIn(env_pgdir)
                      /\ E[curenv[d]] = env_pgdir[curenv[d]] /\ E[curenv[d]] # 0
    OBVIOUS
  <2>1. curenv[d] \in Envs /\ Exists(curenv[d]) /\ env_pgdir[curenv[d]] \in LiveIn(env_pgdir)
    BY RunnerIs
  <2>2. curenv[d] # f
    BY <1>3, <2>1
  <2>3. E[curenv[d]] = env_pgdir[curenv[d]]
    BY <1>4, <1>2, <2>1, <2>2
  <2> QED BY <2>1, <2>2, <2>3 DEF Exists
<1>9. OneRunner'
  BY <1>3, <1>4, <1>8 DEF OneRunner, Exists
<1>10. ASSUME ~Remote PROVE TlbInv'
  <2>1. OneRunner /\ TlbInv
    BY <1>10 DEF PagesInv
  <2>2. ASSUME NEW d \in CPU, NEW t \in tlb'[d]
        PROVE  /\ t \in tlb[d] /\ curenv'[d] = curenv[d]
               /\ Pte(n, E[curenv[d]], t.va) = Pte(memory, env_pgdir[curenv[d]], t.va)
    <3>1. t \in tlb[d] /\ curenv'[d] = curenv[d]
      BY <1>3, <2>2
    <3>2. curenv[d] # NoEnv /\ t.va \in Nat /\ ValidVa(t.va)
      BY <2>1, <3>1 DEF TlbInv, TlbFresh
    <3>3. E[curenv[d]] = env_pgdir[curenv[d]] /\ env_pgdir[curenv[d]] \in LiveIn(env_pgdir)
      BY <1>8, <3>2
    <3> QED BY <1>6, <3>1, <3>2, <3>3 DEF MappingsSame
  <2>3. DOMAIN tlb' = CPU
    BY <1>3, <2>1 DEF TlbInv
  <2>4. memory' = n /\ env_pgdir' = E
    BY <1>3
  <2> QED BY <2>1, <2>2, <2>3, <2>4, TlbKept
<1> QED BY <1>7, <1>9, <1>10 DEF PagesInv

(* env_free() of what this processor runs, or of what none does.             *)
LEMMA EnvFreeInv ==
    ASSUME PagesInv, NEW c \in CPU, NEW f \in Envs, Exists(f),
           \A d \in CPU \ {c} : curenv[d] # f, EnvFree(c, f)
    PROVE  PagesInv'
<1> PICK n : n = EnvFreePages(memory, env_pgdir[f])
  OBVIOUS
<1> PICK E : E = [env_pgdir EXCEPT ![f] = 0]
  OBVIOUS
<1>1. /\ memory' = n /\ env_pgdir' = E
      /\ curenv' = [curenv EXCEPT ![c] = IF @ = f THEN NoEnv ELSE @]
      /\ tlb' = IF curenv[c] = f THEN [tlb EXCEPT ![c] = {}] ELSE tlb
      /\ kern_pgdir' = kern_pgdir
  BY DEF EnvFree
<1>2. MemoryInv(memory, env_pgdir, 0) /\ OneRunner /\ DOMAIN env_pgdir = Envs
  BY DEF PagesInv, MemoryInv, Directories
<1>3. MemoryInv(n, E, 0) /\ MappingsSame(memory, n, E)
  BY <1>2, EnvFreePagesInv DEF Exists
<1>4. MemoryInv(memory, env_pgdir, 0)'
  BY <1>1, <1>3, KernelSame
<1>5. /\ curenv \in [CPU -> Envs \union {NoEnv}] /\ curenv' \in [CPU -> Envs \union {NoEnv}]
      /\ \A d \in CPU : curenv'[d] = IF curenv[d] = f THEN NoEnv ELSE curenv[d]
  BY <1>1, <1>2 DEF OneRunner
<1>6. f # NoEnv
  BY PagesAssumption
<1>7. \A d \in CPU : curenv'[d] # NoEnv =>
         /\ curenv'[d] = curenv[d] /\ curenv[d] # f /\ curenv[d] \in Envs
         /\ E[curenv[d]] = env_pgdir[curenv[d]] /\ E[curenv[d]] # 0
         /\ E[curenv[d]] \in LiveIn(E)
  <2> SUFFICES ASSUME NEW d \in CPU, curenv'[d] # NoEnv
               PROVE  /\ curenv'[d] = curenv[d] /\ curenv[d] # f /\ curenv[d] \in Envs
                      /\ E[curenv[d]] = env_pgdir[curenv[d]] /\ E[curenv[d]] # 0
                      /\ E[curenv[d]] \in LiveIn(E)
    OBVIOUS
  <2>1. curenv'[d] = curenv[d] /\ curenv[d] # f /\ curenv[d] # NoEnv
    BY <1>5
  <2>2. curenv[d] \in Envs /\ Exists(curenv[d])
    BY <2>1, RunnerIs
  <2>3. E[curenv[d]] = env_pgdir[curenv[d]] /\ E[curenv[d]] # 0
    BY <1>2, <2>1, <2>2 DEF Exists
  <2> QED BY <2>1, <2>2, <2>3 DEF LiveIn
<1>8. OneRunner'
  BY <1>1, <1>2, <1>5, <1>7 DEF OneRunner, Exists
<1>9. ASSUME ~Remote PROVE TlbInv'
  <2>1. TlbInv
    BY <1>9 DEF PagesInv
  <2>2. DOMAIN tlb' = CPU
    BY <1>1, <2>1 DEF TlbInv
  <2>3. ASSUME NEW d \in CPU, tlb'[d] # {}
        PROVE  /\ tlb'[d] = tlb[d] /\ curenv'[d] = curenv[d]
               /\ E[curenv[d]] = env_pgdir[curenv[d]]
               /\ E[curenv[d]] \in LiveIn(E)
    <3>1. tlb'[d] = tlb[d] /\ curenv[d] # f
      BY <1>1, <2>1, <2>3 DEF TlbInv
    <3>2. curenv[d] # NoEnv
      BY <2>1, <2>3, <3>1 DEF TlbInv, TlbFresh
    <3>3. curenv'[d] # NoEnv
      BY <1>5, <3>1, <3>2
    <3> QED BY <1>7, <3>1, <3>3
  <2> QED BY <1>1, <1>3, <1>9, <2>2, <2>3, NoChange
<1> QED BY <1>4, <1>8, <1>9 DEF PagesInv

LEMMA SysEnvDestroyInv ==
    ASSUME PagesInv, NEW c \in CPU, NEW e \in Envs, NEW f \in Envs, SysEnvDestroy(c, e, f)
    PROVE  PagesInv'
  BY EnvFreeInv DEF SysEnvDestroy

LEMMA SysCputsInv ==
    ASSUME PagesInv, NEW c \in CPU, NEW e \in Envs, NEW va, NEW n, SysCputs(c, e, va, n)
    PROVE  PagesInv'
<1>1. Running(c, e) /\ EnvFree(c, e)
  BY DEF SysCputs
<1>2. Exists(e) /\ curenv[c] = e /\ e # NoEnv
  BY <1>1, Guard DEF Running
<1>3. \A d \in CPU \ {c} : curenv[d] # e
  BY <1>2 DEF PagesInv, OneRunner
<1> QED BY <1>1, <1>2, <1>3, EnvFreeInv

LEMMA UserAccessInv ==
    ASSUME PagesInv, NEW c \in CPU, NEW e \in Envs, NEW va \in UserVas, UserAccess(c, e, va)
    PROVE  PagesInv'
<1> PICK pte : pte = Pte(memory, env_pgdir[e], va)
  OBVIOUS
<1>1. /\ Running(c, e) /\ ValidVa(va)
      /\ tlb' = [tlb EXCEPT ![c] = @ \union {[va |-> va, pte |-> pte]}]
      /\ UNCHANGED <<memory, kern_pgdir, env_pgdir, parent, curenv>>
  BY DEF UserAccess
<1>2. curenv[c] = e /\ curenv[c] # NoEnv /\ va \in Nat
  BY <1>1, PagesAssumption DEF Running
<1>3. MemoryInv(memory, env_pgdir, 0)'
  BY <1>1, KernelSame DEF PagesInv
<1>4. OneRunner'
  BY <1>1, RunnersSame DEF PagesInv
<1>5. ASSUME ~Remote PROVE TlbInv'
  <2>1. TlbInv
    BY <1>5 DEF PagesInv
  <2>2. DOMAIN tlb' = CPU
    BY <1>1, <2>1 DEF TlbInv
  <2>3. ASSUME NEW d \in CPU, NEW t \in tlb'[d]
        PROVE  /\ t.va \in Nat /\ ValidVa(t.va)
               /\ curenv[d] # NoEnv /\ Pte(memory, env_pgdir[curenv[d]], t.va) = t.pte
    <3>1. CASE t \in tlb[d]
      BY <2>1, <3>1 DEF TlbInv, TlbFresh
    <3>2. CASE t \notin tlb[d]
      <4>1. d = c /\ t = [va |-> va, pte |-> pte]
        BY <1>1, <2>1, <2>3, <3>2 DEF TlbInv
      <4> QED BY <1>1, <1>2, <4>1
    <3> QED BY <3>1, <3>2
  <2>4. TlbFresh'
    BY <1>1, <2>3 DEF TlbFresh, Pte, HasPte
  <2> QED BY <2>2, <2>3, <2>4 DEF TlbInv, ValidVa
<1> QED BY <1>3, <1>4, <1>5 DEF PagesInv

LEMMA EnvRunInv ==
    ASSUME PagesInv, NEW c \in CPU, NEW f \in Envs \union {NoEnv}, EnvRun(c, f)
    PROVE  PagesInv'
<1>1. /\ f # NoEnv => Exists(f) /\ \A d \in CPU \ {c} : curenv[d] # f
      /\ curenv' = [curenv EXCEPT ![c] = f]
      /\ tlb' = [tlb EXCEPT ![c] = {}]
      /\ UNCHANGED <<memory, kern_pgdir, env_pgdir>>
  BY DEF EnvRun
<1>2. MemoryInv(memory, env_pgdir, 0)'
  BY <1>1, KernelSame DEF PagesInv
<1>3. OneRunner /\ curenv \in [CPU -> Envs \union {NoEnv}]
  BY DEF PagesInv, OneRunner
<1>4. \A d \in CPU : curenv'[d] = IF d = c THEN f ELSE curenv[d]
  BY <1>1, <1>3
<1>5. OneRunner'
  BY <1>1, <1>3, <1>4 DEF OneRunner, Exists
<1>6. ASSUME ~Remote PROVE TlbInv'
  <2>1. TlbInv
    BY <1>6 DEF PagesInv
  <2>2. DOMAIN tlb' = CPU /\ \A d \in CPU : tlb'[d] = IF d = c THEN {} ELSE tlb[d]
    BY <1>1, <2>1 DEF TlbInv
  <2>3. ASSUME NEW d \in CPU, NEW t \in tlb'[d]
        PROVE  /\ t.va \in Nat /\ ValidVa(t.va)
               /\ curenv'[d] # NoEnv /\ Pte(memory, env_pgdir[curenv'[d]], t.va) = t.pte
    <3>1. d # c /\ t \in tlb[d] /\ curenv'[d] = curenv[d]
      BY <1>4, <2>2, <2>3
    <3> QED BY <2>1, <3>1 DEF TlbInv, TlbFresh
  <2>4. TlbFresh'
    BY <1>1, <2>3 DEF TlbFresh, Pte, HasPte
  <2> QED BY <2>2, <2>3, <2>4 DEF TlbInv, ValidVa
<1> QED BY <1>2, <1>5, <1>6 DEF PagesInv

-----------------------------------------------------------------------------
(* Every step of the machine that runs.                                      *)

LEMMA PageCallInv ==
    ASSUME PagesInv, NEW c \in CPU, NEW e \in Envs, PageCall(c, e)
    PROVE  PagesInv'
<1>1. CASE \E f \in Envs, va \in UserVas, perm \in Perms : SysPageAlloc(c, e, f, va, perm)
  BY <1>1, SysPageAllocInv
<1>2. CASE \E s, f \in Envs, va, vb \in UserVas, perm \in Perms :
              SysPageMap(c, e, s, va, f, vb, perm)
  BY <1>2, SysPageMapInv
<1>3. CASE \E f \in Envs, va \in UserVas : SysPageUnmap(c, e, f, va)
  BY <1>3, SysPageUnmapInv
<1>4. CASE \E f \in Envs, va, vb \in UserVas, perm \in Perms :
              SysIpcTrySend(c, e, f, va, vb, perm)
  BY <1>4, SysIpcTrySendInv
<1>5. CASE \E va \in UserVas, n \in 1..2 : SysCputs(c, e, va, n)
  BY <1>5, SysCputsInv
<1> QED BY <1>1, <1>2, <1>3, <1>4, <1>5 DEF PageCall

LEMMA PagesNextInv ==
    ASSUME PagesInv, NEW cpus \in SUBSET CPU, PagesNext(cpus)
    PROVE  PagesInv'
<1>1. CASE \E c \in cpus, e \in Envs : \/ PageCall(c, e)
                                       \/ \E f \in Envs : SysExofork(c, e, f) \/ SysEnvDestroy(c, e, f)
                                       \/ \E va \in UserVas : UserAccess(c, e, va)
  <2> PICK c \in cpus, e \in Envs : \/ PageCall(c, e)
                                    \/ \E f \in Envs : SysExofork(c, e, f) \/ SysEnvDestroy(c, e, f)
                                    \/ \E va \in UserVas : UserAccess(c, e, va)
    BY <1>1
  <2>1. c \in CPU
    OBVIOUS
  <2>2. CASE PageCall(c, e)
    BY <2>1, <2>2, PageCallInv
  <2>3. CASE \E f \in Envs : SysExofork(c, e, f)
    BY <2>1, <2>3, SysExoforkInv
  <2>4. CASE \E f \in Envs : SysEnvDestroy(c, e, f)
    BY <2>1, <2>4, SysEnvDestroyInv
  <2>5. CASE \E va \in UserVas : UserAccess(c, e, va)
    BY <2>1, <2>5, UserAccessInv
  <2> QED BY <2>2, <2>3, <2>4, <2>5
<1>2. CASE \E c \in cpus, f \in Envs \union {NoEnv} : EnvRun(c, f)
  BY <1>2, EnvRunInv
<1> QED BY <1>1, <1>2 DEF PagesNext

-----------------------------------------------------------------------------
(* The pages that nobody has.                                                *)

(* Only env_page_alloc() drops pages: then they are leaked.                  *)
Leaks ==
    /\ DOMAIN memory'.pp_ref = DOMAIN memory.pp_ref
    /\ \E S \in SUBSET (ManagedIn(memory) \ Idle(memory)) :
          leaked' = leaked \union S /\ Idle(memory') = Idle(memory) \union S

LEMMA LeaksNothing ==
    ASSUME IdleSame(memory, memory'), leaked' = leaked
    PROVE  Leaks
<1>1. {} \in SUBSET (ManagedIn(memory) \ Idle(memory))
  OBVIOUS
<1> QED BY <1>1 DEF IdleSame, Leaks

LEMMA SysPageAllocLeaks ==
    ASSUME PagesInv, NEW c \in CPU, NEW e \in Envs, NEW f \in Envs, NEW va \in UserVas,
           NEW perm, SysPageAlloc(c, e, f, va, perm)
    PROVE  Leaks
<1> PICK r : r = EnvPageAlloc(memory, f, va, UserPerm(perm))
  OBVIOUS
<1>1. /\ Running(c, e) /\ MayChange(c, e, f) /\ ValidVa(va)
      /\ memory' = r.memory /\ leaked' = leaked \union r.lost
  BY DEF SysPageAlloc
<1>2. va \in Nat /\ Exists(f) /\ MemoryInv(memory, env_pgdir, 0)
  BY <1>1, Guard, PagesAssumption DEF PagesInv
<1>3. /\ DOMAIN r.memory.pp_ref = DOMAIN memory.pp_ref
      /\ Idle(r.memory) = Idle(memory) \union r.lost
      /\ r.lost \subseteq ManagedIn(memory) \ Idle(memory)
  BY <1>1, <1>2, EnvPageAllocInv
<1> QED BY <1>1, <1>3 DEF Leaks

LEMMA SysPageMapLeaks ==
    ASSUME PagesInv, NEW c \in CPU, NEW e \in Envs, NEW s \in Envs, NEW f \in Envs,
           NEW srcva \in UserVas, NEW dstva \in UserVas,
           NEW perm, SysPageMap(c, e, s, srcva, f, dstva, perm)
    PROVE  Leaks
<1> PICK r : r = EnvPageMap(memory, s, srcva, f, dstva, UserPerm(perm))
  OBVIOUS
<1>1. /\ Running(c, e) /\ MayChange(c, e, s) /\ MayChange(c, e, f)
      /\ ValidVa(srcva) /\ ValidVa(dstva)
      /\ memory' = r.memory /\ leaked' = leaked
  BY DEF SysPageMap
<1>2. /\ srcva \in Nat /\ dstva \in Nat /\ Exists(s) /\ Exists(f)
      /\ MemoryInv(memory, env_pgdir, 0)
  BY <1>1, Guard, PagesAssumption DEF PagesInv
<1>3. IdleSame(memory, r.memory)
  BY <1>1, <1>2, EnvPageMapInv
<1> QED BY <1>1, <1>3, LeaksNothing

LEMMA SysPageUnmapLeaks ==
    ASSUME PagesInv, NEW c \in CPU, NEW e \in Envs, NEW f \in Envs, NEW va \in UserVas,
           SysPageUnmap(c, e, f, va)
    PROVE  Leaks
<1> PICK n : n = PageRemove(memory, env_pgdir[f], va)
  OBVIOUS
<1>1. /\ Running(c, e) /\ MayChange(c, e, f) /\ ValidVa(va)
      /\ memory' = n /\ leaked' = leaked
  BY DEF SysPageUnmap
<1>2. va \in Nat /\ MemoryInv(memory, env_pgdir, 0) /\ env_pgdir[f] \in LiveIn(env_pgdir)
  BY <1>1, Guard, PagesAssumption DEF PagesInv, LiveIn, Exists
<1>3. SamePages(memory, n)
  BY <1>1, <1>2, RemoveInv
<1> QED BY <1>1, <1>3, LeaksNothing DEF SamePages

LEMMA SysIpcTrySendLeaks ==
    ASSUME PagesInv, NEW c \in CPU, NEW e \in Envs, NEW f \in Envs,
           NEW srcva \in UserVas, NEW dstva \in UserVas,
           NEW perm, SysIpcTrySend(c, e, f, srcva, dstva, perm)
    PROVE  Leaks
<1> PICK a : a = EnvPageAlloc(memory, f, dstva, UserPerm(perm))
  OBVIOUS
<1> PICK r : r = EnvPageMap(a.memory, e, srcva, f, dstva, UserPerm(perm))
  OBVIOUS
<1>1. Running(c, e) /\ Exists(f) /\ ValidVa(srcva) /\ ValidVa(dstva)
  BY DEF SysIpcTrySend
<1>2. \/ memory' = memory /\ leaked' = leaked
      \/ memory' = (IF a.ok THEN r.memory ELSE a.memory) /\ leaked' = leaked \union a.lost
  BY DEF SysIpcTrySend, Error, pagesVars
<1>3. /\ srcva \in Nat /\ dstva \in Nat /\ Exists(e) /\ MemoryInv(memory, env_pgdir, 0)
  BY <1>1, Guard, PagesAssumption DEF PagesInv
<1>4. /\ MemoryInv(a.memory, env_pgdir, 0)
      /\ DOMAIN a.memory.pp_ref = DOMAIN memory.pp_ref
      /\ Idle(a.memory) = Idle(memory) \union a.lost
      /\ a.lost \subseteq ManagedIn(memory) \ Idle(memory)
  BY <1>1, <1>3, EnvPageAllocInv
<1>5. IdleSame(a.memory, r.memory)
  BY <1>1, <1>3, <1>4, EnvPageMapInv
<1>6. CASE memory' = memory /\ leaked' = leaked
  BY <1>6, LeaksNothing, IdleUnchanged
<1>7. CASE memory' = (IF a.ok THEN r.memory ELSE a.memory) /\ leaked' = leaked \union a.lost
  BY <1>4, <1>5, <1>7 DEF Leaks, IdleSame
<1> QED BY <1>2, <1>6, <1>7

LEMMA SysExoforkLeaks ==
    ASSUME PagesInv, NEW c \in CPU, NEW e \in Envs, NEW f \in Envs, SysExofork(c, e, f)
    PROVE  Leaks
<1>1. /\ env_pgdir[f] = 0 /\ memory.free # <<>>
      /\ memory' = EnvSetupVm(memory) /\ leaked' = leaked
  BY DEF SysExofork, EnvAlloc, Exists
<1>2. IdleSame(memory, EnvSetupVm(memory))
  BY <1>1, EnvSetupVmInv DEF PagesInv
<1> QED BY <1>1, <1>2, LeaksNothing

LEMMA EnvFreeLeaks ==
    ASSUME PagesInv, NEW c \in CPU, NEW f \in Envs, Exists(f), EnvFree(c, f)
    PROVE  Leaks
<1>1. memory' = EnvFreePages(memory, env_pgdir[f]) /\ leaked' = leaked
  BY DEF EnvFree
<1>2. IdleSame(memory, EnvFreePages(memory, env_pgdir[f]))
  BY EnvFreePagesInv DEF PagesInv, Exists
<1> QED BY <1>1, <1>2, LeaksNothing

LEMMA PagesNextLeaks ==
    ASSUME PagesInv, NEW cpus \in SUBSET CPU, PagesNext(cpus)
    PROVE  Leaks
<1>1. ASSUME NEW c \in CPU, NEW e \in Envs, PageCall(c, e) PROVE Leaks
  <2>1. CASE \E f \in Envs, va \in UserVas, perm \in Perms : SysPageAlloc(c, e, f, va, perm)
    BY <2>1, SysPageAllocLeaks
  <2>2. CASE \E s, f \in Envs, va, vb \in UserVas, perm \in Perms :
                SysPageMap(c, e, s, va, f, vb, perm)
    BY <2>2, SysPageMapLeaks
  <2>3. CASE \E f \in Envs, va \in UserVas : SysPageUnmap(c, e, f, va)
    BY <2>3, SysPageUnmapLeaks
  <2>4. CASE \E f \in Envs, va, vb \in UserVas, perm \in Perms :
                SysIpcTrySend(c, e, f, va, vb, perm)
    BY <2>4, SysIpcTrySendLeaks
  <2>5. CASE \E va \in UserVas, n \in 1..2 : SysCputs(c, e, va, n)
    <3>1. Running(c, e) /\ EnvFree(c, e)
      BY <2>5 DEF SysCputs
    <3> QED BY <3>1, Guard, EnvFreeLeaks
  <2> QED BY <1>1, <2>1, <2>2, <2>3, <2>4, <2>5 DEF PageCall
<1>2. ASSUME NEW c \in CPU, NEW e \in Envs,
             \E f \in Envs : SysExofork(c, e, f) \/ SysEnvDestroy(c, e, f)
      PROVE  Leaks
  <2>1. CASE \E f \in Envs : SysExofork(c, e, f)
    BY <2>1, SysExoforkLeaks
  <2>2. CASE \E f \in Envs : SysEnvDestroy(c, e, f)
    BY <2>2, EnvFreeLeaks DEF SysEnvDestroy
  <2> QED BY <1>2, <2>1, <2>2
<1>3. ASSUME memory' = memory, leaked' = leaked PROVE Leaks
  BY <1>3, LeaksNothing, IdleUnchanged
<1>4. ASSUME NEW c \in CPU, NEW e \in Envs, \E va \in UserVas : UserAccess(c, e, va)
      PROVE  Leaks
  BY <1>3, <1>4 DEF UserAccess
<1>5. ASSUME NEW c \in CPU, \E f \in Envs \union {NoEnv} : EnvRun(c, f)
      PROVE  Leaks
  BY <1>3, <1>5 DEF EnvRun
<1> QED BY <1>1, <1>2, <1>4, <1>5 DEF PagesNext

(* So the pages that nobody has stay known.                                  *)
LEMMA IdleStaysKnown ==
    ASSUME IdleKnown, Leaks, nextfree' = nextfree
    PROVE  IdleKnown'
<1>1. PICK S \in SUBSET (ManagedIn(memory) \ Idle(memory)) :
         leaked' = leaked \union S /\ Idle(memory') = Idle(memory) \union S
  BY DEF Leaks
<1>2. /\ Idle(memory)' = Idle(memory') /\ Managed' = ManagedIn(memory)
      /\ Managed = ManagedIn(memory)
  BY DEF Idle, Managed, ManagedIn, Leaks
<1>3. \A p : InUse(p)' <=> InUse(p)
  BY DEF InUse
<1>4. Idle(memory)' = leaked' \union {p \in Managed' : InUse(p)'}
  <2>1. Idle(memory) = leaked \union {p \in ManagedIn(memory) : InUse(p)}
    BY <1>2 DEF IdleKnown
  <2>2. {p \in Managed' : InUse(p)'} = {p \in ManagedIn(memory) : InUse(p)}
    BY <1>2, <1>3
  <2> QED BY <1>1, <1>2, <2>1, <2>2
<1>5. \A p \in leaked' : ~InUse(p)'
  <2>1. \A p \in S : ~InUse(p)
    BY <1>2 DEF IdleKnown
  <2> QED BY <1>1, <1>3, <2>1 DEF IdleKnown
<1> QED BY <1>4, <1>5 DEF IdleKnown

LEMMA AwakeIs == Awake \subseteq CPU
  BY BootAssumption DEF Awake

(* A step of the machine that changes nothing of the memory.                 *)
LEMMA StutterInv ==
    ASSUME PagesInv, UNCHANGED pagesVars
    PROVE  PagesInv'
<1>1. MemoryInv(memory, env_pgdir, 0)'
  BY KernelSame DEF PagesInv, pagesVars
<1>2. OneRunner'
  BY RunnersSame DEF PagesInv, pagesVars
<1>3. ~Remote => TlbInv'
  BY DEF PagesInv, pagesVars, TlbInv, TlbFresh, Pte, HasPte, ValidVa
<1> QED BY <1>1, <1>2, <1>3 DEF PagesInv

-----------------------------------------------------------------------------
(* What the invariant means for the properties of Pages.                     *)

LEMMA SameSets ==
    ASSUME PagesInv
    PROVE  /\ Live = LiveIn(env_pgdir) /\ Dirs = DirsIn(env_pgdir) /\ Managed = ManagedIn(memory)
           /\ Directories(memory, env_pgdir)
<1>1. Directories(memory, env_pgdir)
  BY DEF PagesInv, MemoryInv
<1>2. Live = LiveIn(env_pgdir)
  BY DEF Live, LiveIn
<1>3. Dirs = DirsIn(env_pgdir)
  BY <1>1, <1>2, CountedIs DEF Dirs, DirsIn, Directories
<1> QED BY <1>1, <1>2, <1>3 DEF Managed, ManagedIn

LEMMA TablesAre ==
    ASSUME PagesInv
    PROVE  /\ \A t : t \in UNION {Tables(d) : d \in Dirs} <=>
                 \E d \in DirsIn(env_pgdir), i \in 0..(NPD-1) :
                    t = <<d, i>> /\ i \in Counted(d) /\ Present(memory, d, i)
           /\ \A t : t \in UserTables <=>
                 \E d \in LiveIn(env_pgdir), i \in UserPart :
                    t = <<d, i>> /\ Present(memory, d, i)
<1>1. \A d : Tables(d) = {<<d, i>> : i \in {j \in Counted(d) : Present(memory, d, j)}}
  BY DEF Tables, Present
<1>2. \A d \in DirsIn(env_pgdir) : Counted(d) \subseteq 0..(NPD-1)
  BY SameSets, CountedIs
<1>3. \A d \in LiveIn(env_pgdir) : Counted(d) = UserPart
  BY SameSets, CountedIs
<1>4. \A t : t \in UNION {Tables(d) : d \in Dirs} <=>
         \E d \in DirsIn(env_pgdir), i \in 0..(NPD-1) :
            t = <<d, i>> /\ i \in Counted(d) /\ Present(memory, d, i)
  <2>1. Dirs = DirsIn(env_pgdir)
    BY SameSets
  <2> QED BY <1>1, <1>2, <2>1
<1>5. \A t : t \in UserTables <=>
         \E d \in LiveIn(env_pgdir), i \in UserPart :
            t = <<d, i>> /\ Present(memory, d, i)
  <2>1. Live = LiveIn(env_pgdir)
    BY SameSets
  <2> QED BY <1>1, <1>3, <2>1 DEF UserTables
<1> QED BY <1>4, <1>5

LEMMA MappingsAre ==
    ASSUME PagesInv, NEW x
    PROVE  x \in Mappings <=>
              \E d \in LiveIn(env_pgdir), i \in UserPart, j \in Entries :
                 /\ x = <<<<d, i>>, j>> /\ Present(memory, d, i)
                 /\ Slot(memory, d, i, j) # Zero
<1>1. ASSUME NEW d, NEW i, NEW j, x = <<<<d, i>>, j>>
      PROVE  memory.mem[TableOf(x[1])][x[2]] = Slot(memory, d, i, j)
  BY <1>1 DEF TableOf, Slot
<1>2. x \in Mappings <=> x \in UserTables \X Entries /\ memory.mem[TableOf(x[1])][x[2]] # Zero
  BY DEF Mappings, Entries
<1>3. x \in UserTables \X Entries <=>
         \E d \in LiveIn(env_pgdir), i \in UserPart, j \in Entries :
            x = <<<<d, i>>, j>> /\ Present(memory, d, i)
  BY TablesAre
<1> QED BY <1>1, <1>2, <1>3

(* The sets that RefsMatch counts.                                           *)
LEMMA CountsAre ==
    ASSUME PagesInv, NEW p
    PROVE  /\ {x \in Mappings : MappedBy(x) = p} = MapRefs(memory, env_pgdir, p)
           /\ {t \in UNION {Tables(d) : d \in Dirs} : TableOf(t) = p} = TabRefs(memory, env_pgdir, p)
<1>1. ASSUME NEW x
      PROVE  (x \in Mappings /\ MappedBy(x) = p) <=> x \in MapRefs(memory, env_pgdir, p)
  <2>1. x \in MapRefs(memory, env_pgdir, p) <=>
           \E d \in LiveIn(env_pgdir), i \in UserPart, j \in Entries :
              /\ x = <<<<d, i>>, j>> /\ Present(memory, d, i)
              /\ Slot(memory, d, i, j) # Zero /\ Slot(memory, d, i, j).page = p
    <3>1. ASSUME x \in MapRefs(memory, env_pgdir, p)
          PROVE  \E d \in LiveIn(env_pgdir), i \in UserPart, j \in Entries :
                    /\ x = <<<<d, i>>, j>> /\ Present(memory, d, i)
                    /\ Slot(memory, d, i, j) # Zero /\ Slot(memory, d, i, j).page = p
      <4> x \in (LiveIn(env_pgdir) \X UserPart) \X Entries
        BY <3>1 DEF MapRefs
      <4>1. PICK d \in LiveIn(env_pgdir), i \in UserPart, j \in Entries : x = <<<<d, i>>, j>>
        OBVIOUS
      <4>2. Present(memory, d, i) /\ Slot(memory, d, i, j) # Zero /\ Slot(memory, d, i, j).page = p
        BY <3>1, <4>1, MapRefsHave
      <4> QED BY <4>1, <4>2, Zenon
    <3>2. ASSUME NEW d \in LiveIn(env_pgdir), NEW i \in UserPart, NEW j \in Entries,
                 x = <<<<d, i>>, j>>, Present(memory, d, i),
                 Slot(memory, d, i, j) # Zero, Slot(memory, d, i, j).page = p
          PROVE  x \in MapRefs(memory, env_pgdir, p)
      BY <3>2, MapRefsHave
    <3> QED BY <3>1, <3>2
  <2>2. ASSUME NEW d, NEW i, NEW j, x = <<<<d, i>>, j>>
        PROVE  MappedBy(x) = Slot(memory, d, i, j).page
    BY <2>2 DEF MappedBy, TableOf, Slot
  <2> QED BY <2>1, <2>2, MappingsAre
<1>2. ASSUME NEW t
      PROVE  (t \in UNION {Tables(d) : d \in Dirs} /\ TableOf(t) = p) <=>
                t \in TabRefs(memory, env_pgdir, p)
  <2>1. t \in TabRefs(memory, env_pgdir, p) <=>
           \E d \in DirsIn(env_pgdir), i \in 0..(NPD-1) :
              t = <<d, i>> /\ i \in Counted(d) /\ Present(memory, d, i) /\ TableAt(memory, d, i) = p
    <3>1. ASSUME t \in TabRefs(memory, env_pgdir, p)
          PROVE  \E d \in DirsIn(env_pgdir), i \in 0..(NPD-1) :
                    t = <<d, i>> /\ i \in Counted(d) /\ Present(memory, d, i) /\ TableAt(memory, d, i) = p
      <4> t \in DirsIn(env_pgdir) \X (0..(NPD-1))
        BY <3>1 DEF TabRefs
      <4>1. PICK d \in DirsIn(env_pgdir), i \in 0..(NPD-1) : t = <<d, i>>
        OBVIOUS
      <4>2. i \in Counted(d) /\ Present(memory, d, i) /\ TableAt(memory, d, i) = p
        BY <3>1, <4>1, TabRefsHave
      <4> QED BY <4>1, <4>2, Zenon
    <3>2. ASSUME NEW d \in DirsIn(env_pgdir), NEW i \in 0..(NPD-1),
                 t = <<d, i>>, i \in Counted(d), Present(memory, d, i), TableAt(memory, d, i) = p
          PROVE  t \in TabRefs(memory, env_pgdir, p)
      BY <3>2, TabRefsHave
    <3> QED BY <3>1, <3>2
  <2>2. ASSUME NEW d, NEW i, t = <<d, i>> PROVE TableOf(t) = TableAt(memory, d, i)
    BY <2>2 DEF TableOf, TableAt
  <2> QED BY <2>1, <2>2, TablesAre
<1>3. {x \in Mappings : MappedBy(x) = p} = MapRefs(memory, env_pgdir, p)
  BY <1>1
<1> QED BY <1>2, <1>3

LEMMA InvRefsMatch ==
    ASSUME PagesInv
    PROVE  RefsMatch
<1> SUFFICES ASSUME NEW p \in Managed
             PROVE  memory.pp_ref[p] =
                        Cardinality({x \in Mappings : MappedBy(x) = p})
                      + Cardinality({t \in UNION {Tables(d) : d \in Dirs} : TableOf(t) = p})
                      + Cardinality({e \in Envs : env_pgdir[e] = p})
  BY DEF RefsMatch
<1>1. p \in ManagedIn(memory) /\ Held(0, p) = 0
  BY SameSets DEF ManagedIn, Held
<1>2. memory.pp_ref[p] = Cardinality(MapRefs(memory, env_pgdir, p))
                         + Cardinality(TabRefs(memory, env_pgdir, p))
                         + Cardinality(EnvRefs(env_pgdir, p)) + Held(0, p)
  BY <1>1 DEF PagesInv, MemoryInv, RefsCounted
<1>3. EnvRefs(env_pgdir, p) = {e \in Envs : env_pgdir[e] = p}
  BY DEF EnvRefs
<1>4. /\ Cardinality({x \in Mappings : MappedBy(x) = p}) = Cardinality(MapRefs(memory, env_pgdir, p))
      /\ Cardinality({t \in UNION {Tables(d) : d \in Dirs} : TableOf(t) = p}) =
            Cardinality(TabRefs(memory, env_pgdir, p))
  BY CountsAre, Zenon
<1>5. memory.pp_ref[p] = Cardinality(MapRefs(memory, env_pgdir, p))
                         + Cardinality(TabRefs(memory, env_pgdir, p))
                         + Cardinality(EnvRefs(env_pgdir, p))
  BY <1>1, <1>2, RefsFinite
<1> QED BY <1>3, <1>4, <1>5, Zenon

LEMMA InvAddressSpaces ==
    ASSUME PagesInv
    PROVE  AddressSpaces
<1>1. Directories(memory, env_pgdir) /\ TablesApart(memory, env_pgdir) /\ UserTablesOK(memory, env_pgdir)
  BY DEF PagesInv, MemoryInv
<1>2. ASSUME NEW x \in Mappings PROVE MappedBy(x) \notin DOMAIN memory.mem
  <2>1. PICK d \in LiveIn(env_pgdir), i \in UserPart, j \in Entries :
           /\ x = <<<<d, i>>, j>> /\ Present(memory, d, i)
           /\ Slot(memory, d, i, j) # Zero
    BY <1>2, MappingsAre
  <2>2. MappedBy(x) = Slot(memory, d, i, j).page
    BY <2>1 DEF MappedBy, TableOf, Slot
  <2> QED BY <1>1, <2>1, <2>2 DEF UserTablesOK
<1>3. ASSUME NEW t \in UNION {Tables(d) : d \in Dirs}, NEW u \in UNION {Tables(d) : d \in Dirs},
             TableOf(t) = TableOf(u)
      PROVE  t = u
  <2>1. PICK d \in DirsIn(env_pgdir), i \in 0..(NPD-1) :
           t = <<d, i>> /\ i \in Counted(d) /\ Present(memory, d, i)
    BY <1>3, TablesAre
  <2>2. PICK b \in DirsIn(env_pgdir), k \in 0..(NPD-1) :
           u = <<b, k>> /\ k \in Counted(b) /\ Present(memory, b, k)
    BY <1>3, TablesAre
  <2>3. TableAt(memory, d, i) = TableAt(memory, b, k)
    BY <1>3, <2>1, <2>2 DEF TableOf, TableAt
  <2>4. d = b /\ i = k
    BY <1>1, <2>1, <2>2, <2>3 DEF TablesApart
  <2> QED BY <2>1, <2>2, <2>4
<1>4. \A d \in Live : \A i \in PDX(UTOP)..(NPD-1) :
         memory.mem[d][i] = IF i = PDX(UVPT) THEN [page |-> d, perm |-> {"P", "U"}]
                            ELSE memory.mem[kern_pgdir][i]
  <2>1. Live = LiveIn(env_pgdir) /\ PDX(UTOP) = UserPds
    BY SameSets, Layout
  <2> QED BY <1>1, <2>1, Zenon DEF Directories
<1> QED BY <1>2, <1>3, <1>4 DEF AddressSpaces

(* A page is free, or counted, or leaked, or taken at boot.                  *)
LEMMA InvPagePartition ==
    ASSUME PagesInv, IdleKnown
    PROVE  PagePartition
<1>1. Records(memory) /\ FreeList(memory) /\ RefsCounted(memory, env_pgdir, 0)
  BY DEF PagesInv, MemoryInv
<1>2. Managed = ManagedIn(memory)
  BY DEF Managed, ManagedIn
<1>3. IsInjective(memory.free)
  BY <1>1 DEF FreeList, IsInjective
<1>4. ASSUME NEW p \in Managed
      PROVE  /\ Cardinality({k \in 1..4 : <<Contains(memory.free, p), memory.pp_ref[p] > 0,
                                            p \in leaked, InUse(p)>>[k]}) = 1
             /\ InUse(p) => \A x \in Mappings : MappedBy(x) # p
  <2>1. PICK free \in BOOLEAN : free <=> Contains(memory.free, p)
    OBVIOUS
  <2>2. PICK used \in BOOLEAN : used <=> memory.pp_ref[p] > 0
    OBVIOUS
  <2>3. free <=> \E k \in DOMAIN memory.free : memory.free[k] = p
    BY <1>1, <2>1 DEF Contains, FreeList
  <2>4. memory.pp_ref[p] \in Nat
    BY <1>1, <1>2 DEF Records
  <2>5. free => ~used
    BY <1>1, <2>2, <2>3 DEF FreeList
  <2>6. p \in Idle(memory) <=> ~free /\ ~used
    BY <1>2, <2>2, <2>3, <2>4 DEF Idle
  <2>7. p \in Idle(memory) <=> p \in leaked \/ InUse(p)
    BY DEF IdleKnown
  <2>8. ~(p \in leaked /\ InUse(p))
    BY DEF IdleKnown
  <2>9. PICK n \in 1..4 :
           /\ n = 1 <=> Contains(memory.free, p)
           /\ n = 2 <=> memory.pp_ref[p] > 0
           /\ n = 3 <=> p \in leaked
           /\ n = 4 <=> InUse(p)
    <3>1. CASE free
      BY <2>1, <2>2, <2>5, <2>6, <2>7, <3>1
    <3>2. CASE used
      BY <2>1, <2>2, <2>5, <2>6, <2>7, <3>2
    <3>3. CASE p \in leaked
      BY <2>1, <2>2, <2>6, <2>7, <2>8, <3>3
    <3>4. CASE InUse(p)
      BY <2>1, <2>2, <2>6, <2>7, <2>8, <3>4
    <3> QED BY <2>6, <2>7, <3>1, <3>2, <3>3, <3>4
  <2>10. {k \in 1..4 : <<Contains(memory.free, p), memory.pp_ref[p] > 0, p \in leaked, InUse(p)>>[k]} = {n}
    <3> DEFINE which == <<Contains(memory.free, p), memory.pp_ref[p] > 0, p \in leaked, InUse(p)>>
    <3>1. /\ which[1] = Contains(memory.free, p) /\ which[2] = (memory.pp_ref[p] > 0)
          /\ which[3] = (p \in leaked) /\ which[4] = InUse(p)
      OBVIOUS
    <3> HIDE DEF which
    <3>2. \A k \in 1..4 : k = 1 \/ k = 2 \/ k = 3 \/ k = 4
      OBVIOUS
    <3>3. \A k \in 1..4 : which[k] <=> k = n
      BY <2>9, <3>1, <3>2
    <3>4. {k \in 1..4 : which[k]} = {n}
      BY <3>3
    <3> QED BY <3>4 DEF which
  <2>11. ASSUME InUse(p), NEW x \in Mappings PROVE MappedBy(x) # p
    <3>1. memory.pp_ref[p] = 0
      BY <2>7, <2>11 DEF Idle
    <3>2. MapRefs(memory, env_pgdir, p) = {}
      BY <1>1, <1>2, <3>1, Unreferenced
    <3>3. {y \in Mappings : MappedBy(y) = p} = {}
      BY <3>2, CountsAre
    <3> QED BY <3>3
  <2> QED BY <2>10, <2>11, FS_Singleton
<1> QED BY <1>3, <1>4 DEF PagePartition

-----------------------------------------------------------------------------
(* From the moment it holds, the invariant holds for ever.  That it holds    *)
(* when the machine starts to run is what TypeOK checks.                     *)

InOrder == phase = "run" /\ PagesInv /\ IdleKnown

(* No step of a machine that runs breaks the invariant or boots again.       *)
LEMMA RunningStep ==
    ASSUME InOrder, [Next]_vars
    PROVE  InOrder'
<1>1. CASE UNCHANGED vars
  <2>1. UNCHANGED pagesVars /\ phase' = phase /\ nextfree' = nextfree
    BY <1>1 DEF vars, bootVars
  <2>2. Leaks
    BY <2>1, LeaksNothing, IdleUnchanged DEF pagesVars
  <2> QED BY <2>1, <2>2, StutterInv, IdleStaysKnown DEF InOrder
<1>2. CASE Next
  <2>1. Run
    BY <1>2 DEF Next, InOrder, At, MemInit, BootAlloc, PageInitAndCheck, MapAndCheck, MpInit,
                BootLapic, BootAps, ApsDone, EnvCreate, BootDone
  <2>2. phase' = phase /\ nextfree' = nextfree /\ PagesNext(Awake)
    BY <2>1 DEF Run, bootVars
  <2>3. PagesInv' /\ Leaks
    BY <2>2, AwakeIs, PagesNextInv, PagesNextLeaks DEF InOrder
  <2> QED BY <2>2, <2>3, IdleStaysKnown DEF InOrder
<1> QED BY <1>1, <1>2

(* Once the machine runs with its memory in order, it stays in order.        *)
THEOREM StaysInOrder == Spec => [](InOrder => []InOrder)
<1>1. [Next]_vars => (InOrder => InOrder')
  BY RunningStep
<1> QED BY <1>1, PTL DEF Spec

(* The counts of the pages stay right, whatever the programs ask for and in  *)
(* whatever order the processors serve it.                                   *)
THEOREM CountsStayRight == Spec => [](InOrder => []RefsMatch)
<1>1. InOrder => RefsMatch
  BY InvRefsMatch DEF InOrder
<1> QED BY <1>1, StaysInOrder, PTL

(* No program ever reaches a table or a directory, and above UTOP all        *)
(* address spaces stay the kernel's.                                         *)
THEOREM SpacesStayApart == Spec => [](InOrder => []AddressSpaces)
<1>1. InOrder => AddressSpaces
  BY InvAddressSpaces DEF InOrder
<1> QED BY <1>1, StaysInOrder, PTL

(* While no parent changes a child that runs, no processor ever uses a       *)
(* translation that the tables no longer hold.                               *)
THEOREM TranslationsStayFresh == Spec => [](InOrder => [](~Remote => TlbFresh))
<1>1. InOrder => (~Remote => TlbFresh)
  BY DEF InOrder, PagesInv, TlbInv
<1> QED BY <1>1, StaysInOrder, PTL

(* No page is lost but those that a failed env_page_alloc() drops, none is   *)
(* at once free and in use, and those taken at boot are never given away.    *)
THEOREM NoPageIsLost == Spec => [](InOrder => []PagePartition)
<1>1. InOrder => PagePartition
  BY InvPagePartition DEF InOrder
<1> QED BY <1>1, StaysInOrder, PTL

(* page_free() never panics: no page is freed that is counted or free.       *)
THEOREM NeverPanics == Spec => [](InOrder => []~memory.panic)
<1>1. InOrder => ~memory.panic
  BY DEF InOrder, PagesInv, MemoryInv, Records
<1> QED BY <1>1, StaysInOrder, PTL
=============================================================================
