------------------------------- MODULE Pages -------------------------------
(* Physical pages, page tables and the system calls on them: kern/pmap.c,    *)
(* and what env.c and syscall.c do with it.  The big kernel lock makes each  *)
(* trap one step.  Addresses count pages; a table holds NPT entries.         *)
EXTENDS Integers, FiniteSets, Sequences, SequencesExt, FiniteSetsExt, TLC

CONSTANTS Envs,        \* the slots of envs[]
          CPU,         \* processors
          NoEnv,       \* no environment
          NPT,         \* entries of a page table (NPTENTRIES)
          UserPds,     \* directory entries below UTOP
          KernPds,     \* directory entries from KERNBASE on
          UserVas,     \* the addresses the programs name
          Perms,       \* the permissions the programs ask for
          Remote       \* may a parent change a child that another processor runs?

ASSUME PagesAssumption == /\ NPT \in Nat \ {0} /\ UserPds \in Nat \ {0} /\ KernPds \in Nat
                          /\ IsFiniteSet(Envs) /\ NoEnv \notin Envs /\ Remote \in BOOLEAN
                          /\ UserVas \subseteq Nat

VARIABLES memory,      \* pages[]: pp_ref, the free list, the contents of tables
          kern_pgdir,  \* page of the kernel's directory
          env_pgdir,   \* env -> page of its directory, 0 if none
          parent,      \* env -> env_parent_id
          curenv,      \* processor -> the environment it runs
          tlb,         \* processor -> the translations it holds
          leaked       \* history: pages dropped by a failed env_page_alloc()

pagesVars == <<memory, kern_pgdir, env_pgdir, parent, curenv, tlb, leaked>>

----------------------------------------------------------------------------
(* Virtual addresses, as in memlayout.h. *)
PDX(va) == va \div NPT
PTX(va) == va % NPT
UTOP == UserPds * NPT
UENVS == UTOP
UPAGES == UENVS + NPT
UVPT == UPAGES + NPT
MMIOBASE == UVPT + NPT
MMIOLIM == MMIOBASE + NPT
KSTACKTOP == MMIOLIM + NPT
KERNBASE == KSTACKTOP
NPD == PDX(KERNBASE) + KernPds
USTACKTOP == UTOP - 2

(* An entry of a directory or of a table. *)
Zero == [page |-> 0, perm |-> {}]
Table(n) == [i \in 0..(n-1) |-> Zero]

----------------------------------------------------------------------------
(* The allocator.  m is a value of memory. *)

PageAlloc(m) == [m EXCEPT !.free = Tail(@)]

(* A page that is free has a link, unless it is the last of the list. *)
PageFree(m, p) ==
    [m EXCEPT !.panic = @ \/ m.pp_ref[p] # 0 \/ (Contains(m.free, p) /\ Last(m.free) # p),
              !.free = <<p>> \o @,
              !.mem = [q \in (DOMAIN @) \ {p} |-> @[q]]]

PageDecref(m, p) ==
    LET n == [m EXCEPT !.pp_ref[p] = @ - 1]
    IN  IF n.pp_ref[p] = 0 THEN PageFree(n, p) ELSE n

(* The contents of the tables when p becomes one. *)
WithTable(mem, p, table) == [q \in (DOMAIN mem) \union {p} |-> IF q = p THEN table ELSE mem[q]]

(* pgdir_walk(): the entry of va, and the memory after creating its table. *)
HasPte(m, pgdir, va) == m.mem[pgdir][PDX(va)] # Zero
Pte(m, pgdir, va) ==
    IF HasPte(m, pgdir, va) THEN m.mem[m.mem[pgdir][PDX(va)].page][PTX(va)] ELSE Zero
WalkCreate(m, pgdir, va) ==
    IF HasPte(m, pgdir, va) \/ m.free = <<>> THEN m
    ELSE LET p == Head(m.free)
             n == PageAlloc(m)
         IN  [n EXCEPT !.pp_ref[p] = @ + 1,
                       !.mem = WithTable([@ EXCEPT ![pgdir][PDX(va)] =
                                             [page |-> p, perm |-> {"P", "W", "U"}]], p, Table(NPT))]
SetPte(m, pgdir, va, e) == [m EXCEPT !.mem[m.mem[pgdir][PDX(va)].page][PTX(va)] = e]

PageRemove(m, pgdir, va) ==
    LET pte == Pte(m, pgdir, va)
    IN  IF pte = Zero THEN m ELSE SetPte(PageDecref(m, pte.page), pgdir, va, Zero)

(* The count goes up before the old page is removed: it may be the same. *)
PageInsert(m, pgdir, p, va, perm) ==
    LET w == WalkCreate(m, pgdir, va)
        r == [w EXCEPT !.pp_ref[p] = @ + 1]
    IN  IF ~HasPte(w, pgdir, va) THEN [ok |-> FALSE, memory |-> w]
        ELSE [ok |-> TRUE,
              memory |-> SetPte(PageRemove(r, pgdir, va), pgdir, va,
                                [page |-> p, perm |-> perm \union {"P"}])]

(* For the mappings of the kernel, which are not counted and never replace   *)
(* one another: all entries of a table at once.                              *)
MapInTable(m, pgdir, pd, va, size, pa, perm) ==
    LET w == WalkCreate(m, pgdir, pd * NPT)
    IN  [w EXCEPT !.mem[w.mem[pgdir][pd].page] =
            [i \in 0..(NPT-1) |->
                LET off == pd * NPT + i - va
                IN  IF off \in 0..(size-1)
                      THEN [page |-> pa + off, perm |-> perm \union {"P"}] ELSE @[i]]]
BootMapRegion(m, pgdir, va, size, pa, perm) ==
    FoldLeft(LAMBDA acc, pd : MapInTable(acc, pgdir, pd, va, size, pa, perm), m,
             SetToSortSeq(PDX(va)..PDX(va + size - 1), <))

(* user_mem_check(): n pages from va on, all with these permissions. *)
UserMemCheck(m, pgdir, va, n, perm) ==
    /\ va + n <= UTOP
    /\ \A a \in va..(va + n - 1) : perm \union {"P"} \subseteq Pte(m, pgdir, a).perm

----------------------------------------------------------------------------
(* Address spaces. *)

(* Mutant: the copy still shows the directory of the kernel at UVPT. *)
EnvSetupVmSameUvpt(m) ==
    LET p == Head(m.free)
        n == PageAlloc(m)
    IN  [n EXCEPT !.pp_ref[p] = @ + 1, !.mem = WithTable(@, p, n.mem[kern_pgdir])]

(* The directory is a copy of the kernel's that maps itself at UVPT. *)
EnvSetupVm(m) ==
    LET p == Head(m.free)
        n == PageAlloc(m)
    IN  [n EXCEPT !.pp_ref[p] = @ + 1,
                  !.mem = WithTable(@, p, [n.mem[kern_pgdir] EXCEPT ![PDX(UVPT)] =
                                             [page |-> p, perm |-> {"P", "U"}]])]

(* Mutant: the entries go, their table stays counted. *)
FreeTableKept(m, pgdir, pd) ==
    LET u[i \in 0..NPT] == IF i = 0 THEN m ELSE PageRemove(u[i - 1], pgdir, pd * NPT + i - 1)
    IN  IF m.mem[pgdir][pd] = Zero THEN m ELSE [u[NPT] EXCEPT !.mem[pgdir][pd] = Zero]

(* u holds the memory after each entry of the table. *)
FreeTable(m, pgdir, pd) ==
    LET u[i \in 0..NPT] == IF i = 0 THEN m ELSE PageRemove(u[i - 1], pgdir, pd * NPT + i - 1)
    IN  IF m.mem[pgdir][pd] = Zero THEN m
        ELSE PageDecref([u[NPT] EXCEPT !.mem[pgdir][pd] = Zero], m.mem[pgdir][pd].page)

(* Mutant: the directory loses its reference and is not freed. *)
EnvFreePagesLost(m, pgdir) ==
    LET u[pd \in 0..UserPds] == IF pd = 0 THEN m ELSE FreeTable(u[pd - 1], pgdir, pd - 1)
    IN  [u[UserPds] EXCEPT !.pp_ref[pgdir] = @ - 1,
                           !.mem = [q \in (DOMAIN @) \ {pgdir} |-> @[q]]]

EnvFreePages(m, pgdir) ==
    LET u[pd \in 0..UserPds] == IF pd = 0 THEN m ELSE FreeTable(u[pd - 1], pgdir, pd - 1)
    IN  PageDecref(u[UserPds], pgdir)

(* Mutant: invalidates nothing. *)
TlbInvalidateNever(c, e, va) == tlb

(* tlb_invalidate(): only this processor, only if the tables are in use. *)
TlbInvalidate(c, e, va) ==
    IF curenv[c] \in {NoEnv, e}
      THEN [tlb EXCEPT ![c] = {t \in @ : t.va # va}] ELSE tlb

(* Mutant: UTOP itself passes. *)
ValidVaUpTo(va) == va <= UTOP
ValidVa(va) == va < UTOP
CheckPerm(perm) == perm \subseteq {"P", "U", "W", "AVAIL"}       \* PTE_SYSCALL
UserPerm(perm) == perm \union {"U", "P"}

----------------------------------------------------------------------------
(* What traps do.  c is the processor, e its environment. *)

Running(c, e) == curenv[c] = e /\ e # NoEnv /\ ~memory.panic
Exists(f) == env_pgdir[f] # 0
(* envid2env() with checkperm, and the restraint of the programs. *)
MayChange(c, e, f) ==
    /\ Exists(f) /\ (f = e \/ parent[f] = e)
    /\ Remote \/ \A d \in CPU \ {c} : curenv[d] # f
Error == UNCHANGED pagesVars

(* env_page_alloc(): when the insertion fails the page is not freed. *)
EnvPageAlloc(m, f, va, perm) ==
    LET p == Head(m.free)
        i == PageInsert(PageAlloc(m), env_pgdir[f], p, va, perm)
    IN  IF ~CheckPerm(perm) \/ m.free = <<>>
        THEN [ok |-> FALSE, memory |-> m, lost |-> {}]
        ELSE [ok |-> i.ok, memory |-> i.memory, lost |-> IF i.ok THEN {} ELSE {p}]

(* env_page_map(): the page must be there, and writable to be given so. *)
EnvPageMap(m, e, srcva, f, dstva, perm) ==
    LET src == Pte(m, env_pgdir[e], srcva)
    IN  IF src = Zero \/ ("W" \in perm /\ "W" \notin src.perm)
        THEN [ok |-> FALSE, memory |-> m]
        ELSE PageInsert(m, env_pgdir[f], src.page, dstva, perm)

SysPageAlloc(c, e, f, va, perm) ==
    /\ Running(c, e) /\ MayChange(c, e, f) /\ ValidVa(va)
    /\ LET r == EnvPageAlloc(memory, f, va, UserPerm(perm))
       IN  /\ memory' = r.memory /\ leaked' = leaked \union r.lost
           /\ tlb' = IF r.ok THEN TlbInvalidate(c, f, va) ELSE tlb
    /\ UNCHANGED <<kern_pgdir, env_pgdir, parent, curenv>>

SysPageMap(c, e, s, srcva, f, dstva, perm) ==
    /\ Running(c, e) /\ MayChange(c, e, s) /\ MayChange(c, e, f)
    /\ ValidVa(srcva) /\ ValidVa(dstva)
    /\ LET r == EnvPageMap(memory, s, srcva, f, dstva, UserPerm(perm))
       IN  /\ memory' = r.memory
           /\ tlb' = IF r.ok THEN TlbInvalidate(c, f, dstva) ELSE tlb
    /\ UNCHANGED <<kern_pgdir, env_pgdir, parent, curenv, leaked>>

SysPageUnmap(c, e, f, va) ==
    /\ Running(c, e) /\ MayChange(c, e, f) /\ ValidVa(va)
    /\ memory' = PageRemove(memory, env_pgdir[f], va)
    /\ tlb' = TlbInvalidate(c, f, va)
    /\ UNCHANGED <<kern_pgdir, env_pgdir, parent, curenv, leaked>>

(* The page of sys_ipc_try_send(): a fresh page takes the place in the       *)
(* blocked receiver before the page of the sender is mapped over it.         *)
SysIpcTrySend(c, e, f, srcva, dstva, perm) ==
    /\ Running(c, e) /\ Exists(f)
    /\ \A d \in CPU : curenv[d] # f                   \* blocked in receive
    /\ ValidVa(srcva) /\ ValidVa(dstva) /\ dstva # 0    \* 0 asks for no page
    /\ Pte(memory, env_pgdir[e], srcva) # Zero        \* the programs send what they have
    /\ IF "W" \in perm /\ "W" \notin Pte(memory, env_pgdir[e], srcva).perm THEN Error
       ELSE LET a == EnvPageAlloc(memory, f, dstva, UserPerm(perm))
                r == EnvPageMap(a.memory, e, srcva, f, dstva, UserPerm(perm))
            IN  /\ memory' = IF a.ok THEN r.memory ELSE a.memory
                /\ leaked' = leaked \union a.lost
                /\ UNCHANGED <<kern_pgdir, env_pgdir, parent, curenv, tlb>>

(* env_alloc() for a child, when there is a slot and a page. *)
EnvAlloc(f, e) ==
    /\ ~Exists(f) /\ memory.free # <<>>
    /\ memory' = EnvSetupVm(memory)
    /\ env_pgdir' = [env_pgdir EXCEPT ![f] = Head(memory.free)]
    /\ parent' = [parent EXCEPT ![f] = e]
SysExofork(c, e, f) ==
    /\ Running(c, e) /\ EnvAlloc(f, e)
    /\ UNCHANGED <<kern_pgdir, curenv, tlb, leaked>>

(* env_free() of itself or of an environment nobody runs. *)
EnvFree(c, f) ==
    /\ memory' = EnvFreePages(memory, env_pgdir[f])
    /\ env_pgdir' = [env_pgdir EXCEPT ![f] = 0]
    /\ curenv' = [curenv EXCEPT ![c] = IF @ = f THEN NoEnv ELSE @]
    /\ tlb' = IF curenv[c] = f THEN [tlb EXCEPT ![c] = {}] ELSE tlb
    /\ UNCHANGED <<kern_pgdir, parent, leaked>>
SysEnvDestroy(c, e, f) ==
    /\ Running(c, e) /\ Exists(f) /\ (f = e \/ parent[f] = e)
    /\ \A d \in CPU \ {c} : curenv[d] # f
    /\ EnvFree(c, f)

(* sys_cputs() wants its string writable and destroys who cannot give that. *)
SysCputs(c, e, va, n) ==
    /\ Running(c, e)
    /\ ~UserMemCheck(memory, env_pgdir[e], va, n, {"P", "W", "U"})
    /\ EnvFree(c, e)

(* The program touches its memory: the processor remembers the translation. *)
UserAccess(c, e, va) ==
    LET pte == Pte(memory, env_pgdir[e], va)
    IN  /\ Running(c, e) /\ ValidVa(va)
        /\ {"P", "U"} \subseteq pte.perm
        /\ \A t \in tlb[c] : t.va # va
        /\ tlb' = [tlb EXCEPT ![c] = @ \union {[va |-> va, pte |-> pte]}]
        /\ UNCHANGED <<memory, kern_pgdir, env_pgdir, parent, curenv, leaked>>

(* The scheduler runs an environment or halts: both load cr3. *)
EnvRun(c, f) ==
    /\ ~memory.panic
    /\ f # NoEnv => Exists(f) /\ \A d \in CPU \ {c} : curenv[d] # f
    /\ f # curenv[c]
    /\ curenv' = [curenv EXCEPT ![c] = f]
    /\ tlb' = [tlb EXCEPT ![c] = {}]
    /\ UNCHANGED <<memory, kern_pgdir, env_pgdir, parent, leaked>>

PageCall(c, e) ==
    \/ \E f \in Envs, va \in UserVas, perm \in Perms :
          SysPageAlloc(c, e, f, va, perm)
    \/ \E s, f \in Envs, va, vb \in UserVas, perm \in Perms :
          SysPageMap(c, e, s, va, f, vb, perm)
    \/ \E f \in Envs, va \in UserVas : SysPageUnmap(c, e, f, va)
    \/ \E f \in Envs, va, vb \in UserVas, perm \in Perms :
          SysIpcTrySend(c, e, f, va, vb, perm)
    \/ \E va \in UserVas, n \in 1..2 : SysCputs(c, e, va, n)

(* The processors in cpus run; the others have not been started. *)
PagesNext(cpus) ==
    \/ \E c \in cpus, e \in Envs : \/ PageCall(c, e)
                                   \/ \E f \in Envs : SysExofork(c, e, f) \/ SysEnvDestroy(c, e, f)
                                   \/ \E va \in UserVas : UserAccess(c, e, va)
    \/ \E c \in cpus, f \in Envs \union {NoEnv} : EnvRun(c, f)

----------------------------------------------------------------------------
(* Properties. *)

Live == {env_pgdir[e] : e \in Envs} \ {0}
Dirs == (Live \union {kern_pgdir}) \ {0}
(* The entries of a directory that its owner counts. *)
Counted(d) == IF d = kern_pgdir THEN (0..(NPD-1)) \ {PDX(UVPT)} ELSE 0..(UserPds-1)
Tables(d) == {<<d, i>> : i \in {j \in Counted(d) : memory.mem[d][j] # Zero}}
UserTables == UNION {Tables(d) : d \in Live}
TableOf(t) == memory.mem[t[1]][t[2]].page
Mappings == {x \in UserTables \X (0..(NPT-1)) : memory.mem[TableOf(x[1])][x[2]] # Zero}
MappedBy(x) == memory.mem[TableOf(x[1])][x[2]].page
Managed == DOMAIN memory.pp_ref \ {0}

(* The count of every page is the number of page table entries, directory    *)
(* entries and environments that refer to it, whatever maps, unmaps, inserts *)
(* a page over itself, runs out of memory half way or dies.                  *)
RefsMatch ==
    \A p \in Managed :
        memory.pp_ref[p] =
            Cardinality({x \in Mappings : MappedBy(x) = p})
          + Cardinality({t \in UNION {Tables(d) : d \in Dirs} : TableOf(t) = p})
          + Cardinality({e \in Envs : env_pgdir[e] = p})

(* No environment can reach a page table or a directory, no two entries of   *)
(* directories share a table, and above UTOP all address spaces are the one  *)
(* of the kernel, except that each sees itself.                              *)
AddressSpaces ==
    /\ \A x \in Mappings : MappedBy(x) \notin DOMAIN memory.mem
    /\ \A t, u \in UNION {Tables(d) : d \in Dirs} : TableOf(t) = TableOf(u) => t = u
    /\ \A d \in Live : \A i \in PDX(UTOP)..(NPD-1) :
          memory.mem[d][i] = IF i = PDX(UVPT) THEN [page |-> d, perm |-> {"P", "U"}]
                             ELSE memory.mem[kern_pgdir][i]

(* A processor never uses a translation, or a permission, that the tables no *)
(* longer hold.                                                              *)
TlbFresh ==
    \A c \in CPU : \A t \in tlb[c] :
        curenv[c] # NoEnv /\ Pte(memory, env_pgdir[curenv[c]], t.va) = t.pte
=============================================================================
