----------------------------- MODULE BootMemory -----------------------------
(* How i386_init() gets from the raw machine to the first environment: the   *)
(* map of physical memory, the directory of the kernel, the processors and   *)
(* the first programs; then the machine runs as in Pages.  Only the boot     *)
(* processor is awake, or waits for the one it has started.                  *)
EXTENDS PagesInvariant

CONSTANTS Machines,    \* what the BIOS may report
          NCPU,        \* entries of cpus[]
          MPENTRY, IOPHYSMEM, EXTPHYSMEM, Ext16,    \* page numbers of the map
          KernelEnd,   \* first page after the kernel image and its stacks
          PagesSize, EnvsSize,                      \* pages of both arrays
          KSTKSIZE, KSTKGAP,
          LAPIC,       \* physical page of the APIC, no RAM
          Programs,    \* bound: calls of ENV_CREATE
          Segments     \* the segments of a program: pairs of address and size

ASSUME BootAssumption == /\ NCPU \in Nat \ {0} /\ CPU = 0..(NCPU-1)
                         /\ Programs \in 0..Cardinality(Envs)

VARIABLES phase,       \* how far i386_init() is
          machine,     \* the machine it runs on
          npages,
          nextfree,    \* boot_alloc(): the next page
          base,        \* mmio_map_region(): the next address
          ncpu,
          cpu_status

bootVars == <<phase, machine, npages, nextfree, base, ncpu, cpu_status>>
vars == <<pagesVars, bootVars>>

Seqn(n) == [k \in 1..n |-> k - 1]
Stack(i) == KernelEnd - NCPU * KSTKSIZE + i * KSTKSIZE       \* percpu_kstacks[i]

----------------------------------------------------------------------------
(* Physical memory. *)

(* i386_detect_memory(), in pages. *)
Detected(m) == IF m.ext16mem > 0 THEN Ext16 + m.ext16mem
               ELSE IF m.extmem > 0 THEN EXTPHYSMEM + m.extmem
               ELSE m.basemem

(* boot_alloc() panics when the chunk does not end before the last page. *)
BootAllocFails(n) == nextfree + n >= npages

(* Mutant: forgets the page where the other processors start. *)
InUseButEntry(i) == \/ i = 0
                    \/ i \in IOPHYSMEM..(EXTPHYSMEM - 1)
                    \/ i \in EXTPHYSMEM..(nextfree - 1)
InUse(i) == \/ i = 0 \/ i = MPENTRY
            \/ i \in IOPHYSMEM..(EXTPHYSMEM - 1)
            \/ i \in EXTPHYSMEM..(nextfree - 1)

PageInit(n) ==
    [memory EXCEPT
        !.pp_ref = [i \in 0..(n-1) |-> 0],
        !.free = Reverse(SelectSeq(Seqn(n), LAMBDA i : ~InUse(i)))]

(* Returns the region, or fails when it would reach MMIOLIM. *)
MmioMapRegion(m, va, pa, size) ==
    IF va + size >= MMIOLIM THEN [ok |-> FALSE, memory |-> m, base |-> va]
    ELSE [ok |-> TRUE, base |-> va + size,
          memory |-> BootMapRegion(m, kern_pgdir, va, size, pa, {"W", "PCD", "PWT"})]

----------------------------------------------------------------------------
(* The tests that mem_init() runs on itself.  Each answers whether its       *)
(* assertions hold and what it leaves behind.                                *)

Va2Pa(m, va) == IF HasPte(m, kern_pgdir, va) /\ "P" \in Pte(m, kern_pgdir, va).perm
                THEN Pte(m, kern_pgdir, va).page ELSE -1

(* check_page_free_list(): with only_low_memory it also sorts the list. *)
LowFirst(m) ==
    [m EXCEPT !.free = SelectSeq(@, LAMBDA p : PDX(p) = 0) \o SelectSeq(@, LAMBDA p : PDX(p) # 0)]
CheckPageFreeList(m) ==
    /\ \A i \in DOMAIN m.free :
          /\ m.free[i] \in (0..(npages-1)) \ {0, IOPHYSMEM, EXTPHYSMEM - 1, EXTPHYSMEM, MPENTRY}
          /\ m.free[i] < EXTPHYSMEM \/ m.free[i] >= nextfree
    /\ \E i \in DOMAIN m.free : m.free[i] < EXTPHYSMEM
    /\ \E i \in DOMAIN m.free : m.free[i] >= EXTPHYSMEM

Taken(m) == [m EXCEPT !.free = <<>>]              \* three taken, the rest stolen
(* check_page_alloc() *)
CheckPageAlloc(m) ==
    LET pp == SubSeq(m.free, 1, 3)
        back == FoldLeft(PageFree, Taken(m), pp)
        one == PageFree(PageAlloc(PageAlloc(PageAlloc(back))), pp[3])
        final == FoldLeft(PageFree, [m EXCEPT !.free = SubSeq(@, 4, Len(@))], Reverse(pp))
    IN  [ok |-> /\ Len(m.free) >= 3 /\ IsInjective(pp) /\ ToSet(pp) \subseteq 0..(npages-1)
                /\ back.free = Reverse(pp)
                /\ one.free = <<pp[3]>>
                /\ Len(final.free) = Len(m.free) /\ ~final.panic,
         memory |-> final]

(* "Forcibly take back" the only table of the user part. *)
TakeBack(m, p) == [m EXCEPT !.mem[kern_pgdir][0] = Zero, !.pp_ref[p] = 0]

(* check_page(): page_insert() without memory, twice the same page, with     *)
(* other permissions, over another page; then two regions of devices.        *)
CheckPage(m) ==
    LET pp0 == m.free[1]   pp1 == m.free[2]   pp2 == m.free[3]
        Ins(n, p, va, perm) == PageInsert(n, kern_pgdir, p, va, perm)
        a == Ins(Taken(m), pp1, 0, {"W"})
        b == Ins(PageFree(a.memory, pp0), pp1, 0, {"W"})
        c == Ins(b.memory, pp2, 1, {"W"})
        d == Ins(c.memory, pp2, 1, {"W"})
        e == Ins(d.memory, pp2, 1, {"W", "U"})
        f == Ins(e.memory, pp2, 1, {"W"})
        g == Ins(f.memory, pp0, NPT, {"W"})
        h == Ins(g.memory, pp1, 1, {"W"})
        r == PageRemove(PageAlloc(h.memory), kern_pgdir, 0)
        s == Ins(r, pp1, 1, {})
        t == PageRemove(s.memory, kern_pgdir, 1)
        u == PageFree(TakeBack(PageAlloc(t), pp0), pp0)
        v == TakeBack(WalkCreate(u, kern_pgdir, 0), pp0)
        w == FoldLeft(PageFree, [v EXCEPT !.free = SubSeq(m.free, 4, Len(m.free))], <<pp0, pp1, pp2>>)
        x == MmioMapRegion(w, base, 0, 2)
        y == MmioMapRegion(x.memory, x.base, 0, 1)
        Cleared(n) == FoldLeft(LAMBDA acc, va : SetPte(acc, kern_pgdir, va, Zero), n,
                               <<base, base + 1, base + 2>>)
    IN  [ok |-> /\ ~a.ok
                /\ b.ok /\ b.memory.mem[kern_pgdir][0].page = pp0
                        /\ b.memory.pp_ref[pp0] = 1 /\ b.memory.pp_ref[pp1] = 1
                /\ c.ok /\ Va2Pa(c.memory, 1) = pp2
                /\ \A i \in 1..3 : LET z == <<d, e, f>>[i]
                                    IN  /\ z.ok /\ Va2Pa(z.memory, 1) = pp2
                                        /\ z.memory.pp_ref[pp2] = 1 /\ z.memory.free = <<>>
                /\ "U" \in Pte(e.memory, kern_pgdir, 1).perm
                /\ "U" \notin Pte(f.memory, kern_pgdir, 1).perm
                /\ ~g.ok
                /\ h.ok /\ Va2Pa(h.memory, 0) = pp1 /\ Va2Pa(h.memory, 1) = pp1
                        /\ h.memory.pp_ref[pp1] = 2 /\ h.memory.free = <<pp2>>
                /\ Va2Pa(r, 0) = -1 /\ Va2Pa(r, 1) = pp1 /\ r.pp_ref[pp1] = 1
                /\ s.ok /\ s.memory.pp_ref[pp1] = 1
                /\ Va2Pa(t, 1) = -1 /\ t.free = <<pp1>>
                /\ WalkCreate(u, kern_pgdir, 0).mem[pp0] = Table(NPT)
                /\ x.ok /\ y.ok /\ ~y.memory.panic
                /\ [i \in 0..2 |-> Va2Pa(y.memory, base + i)] = [i \in 0..2 |-> IF i = 1 THEN 1 ELSE 0]
                /\ Va2Pa(y.memory, y.base) = -1
                /\ "U" \notin Pte(y.memory, kern_pgdir, base).perm,
         memory |-> Cleared(y.memory), base |-> y.base]

(* check_page_installed_pgdir(), with the directory in use. *)
CheckPageInstalledPgdir(m) ==
    LET pp0 == m.free[1]   pp1 == m.free[2]   pp2 == m.free[3]
        a == PageFree([m EXCEPT !.free = SubSeq(@, 4, Len(@))], pp0)
        b == PageInsert(a, kern_pgdir, pp1, 1, {"W"})
        c == PageInsert(b.memory, kern_pgdir, pp2, 1, {"W"})
        d == PageRemove(c.memory, kern_pgdir, 1)
    IN  [ok |-> /\ b.memory.pp_ref[pp1] = 1 /\ Va2Pa(b.memory, 1) = pp1
                /\ c.memory.pp_ref[pp1] = 0 /\ c.memory.pp_ref[pp2] = 1 /\ Va2Pa(c.memory, 1) = pp2
                /\ d.pp_ref[pp2] = 0 /\ d.mem[kern_pgdir][0].page = pp0 /\ d.pp_ref[pp0] = 1,
         memory |-> PageFree(TakeBack(d, pp0), pp0)]

(* Where the arrays are: after the kernel and its directory. *)
PagesAt == KernelEnd + 1
EnvsAt == PagesAt + PagesSize

CheckKernPgdir(m) ==
    /\ \A i \in 0..(PagesSize-1) : Va2Pa(m, UPAGES + i) = PagesAt + i
    /\ \A i \in 0..(EnvsSize-1) : Va2Pa(m, UENVS + i) = EnvsAt + i
    /\ \A i \in 0..(npages-1) : Va2Pa(m, KERNBASE + i) = i
    /\ \A n \in 0..(NCPU-1) :
          LET bottom == KSTACKTOP - (KSTKSIZE + KSTKGAP) * (n + 1)
          IN  /\ \A i \in 0..(KSTKSIZE-1) : Va2Pa(m, bottom + KSTKGAP + i) = Stack(n) + i
              /\ \A i \in 0..(KSTKGAP-1) : Va2Pa(m, bottom + i) = -1
    /\ \A i \in 0..(NPD-1) :
          LET pde == m.mem[kern_pgdir][i]
          IN  IF i \in {PDX(va) : va \in {UVPT, KSTACKTOP - 1, UPAGES, UENVS, MMIOBASE}}
                THEN "P" \in pde.perm
              ELSE IF i >= PDX(KERNBASE) THEN {"P", "W"} \subseteq pde.perm
              ELSE pde = Zero

----------------------------------------------------------------------------
(* i386_init() *)

Init == /\ memory = [pp_ref |-> <<>>, free |-> <<>>, mem |-> <<>>, panic |-> FALSE]
        /\ kern_pgdir = 0
        /\ env_pgdir = [e \in Envs |-> 0] /\ parent = [e \in Envs |-> NoEnv]
        /\ curenv = [c \in CPU |-> NoEnv] /\ tlb = [c \in CPU |-> {}]
        /\ leaked = {}
        /\ phase = "mem_init" /\ machine \in Machines
        /\ npages = 0 /\ nextfree = KernelEnd /\ base = MMIOBASE
        /\ ncpu = 0 /\ cpu_status = [c \in CPU |-> "unused"]

At(p) == phase = p /\ ~memory.panic
Fail == /\ memory' = [memory EXCEPT !.panic = TRUE]
        /\ UNCHANGED <<kern_pgdir, env_pgdir, parent, curenv, tlb, leaked, bootVars>>
UserSide == <<env_pgdir, parent, curenv, tlb, leaked>>

(* The directory, pages[] and envs[] are carved off after the kernel. *)
MemInit ==
    /\ At("mem_init") /\ npages = 0
    /\ npages' = Detected(machine)
    /\ UNCHANGED <<pagesVars, phase, machine, nextfree, base, ncpu, cpu_status>>
BootAlloc ==
    /\ At("mem_init") /\ npages > 0
    /\ IF BootAllocFails(1 + PagesSize + EnvsSize) THEN Fail
       ELSE /\ nextfree' = nextfree + 1 + PagesSize + EnvsSize
            /\ kern_pgdir' = nextfree
            /\ memory' = [memory EXCEPT !.mem = nextfree :>
                            [Table(NPD) EXCEPT ![PDX(UVPT)] = [page |-> nextfree, perm |-> {"P", "U"}]]]
            /\ phase' = "page_init"
            /\ UNCHANGED <<UserSide, machine, npages, base, ncpu, cpu_status>>

PageInitAndCheck ==
    /\ At("page_init")
    /\ LET m == LowFirst(PageInit(npages))
           a == CheckPageAlloc(m)
           p == CheckPage(a.memory)
       IN  IF ~CheckPageFreeList(m) \/ ~a.ok \/ ~p.ok THEN Fail
           ELSE /\ memory' = p.memory /\ base' = p.base /\ phase' = "map"
                /\ UNCHANGED <<UserSide, kern_pgdir, machine, npages, nextfree, ncpu, cpu_status>>

(* The arrays read-only for the programs, all memory, one stack for each     *)
(* processor with a gap below.                                               *)
MemInitMp(m) ==
    FoldLeft(LAMBDA acc, i :
                BootMapRegion(acc, kern_pgdir,
                              KSTACKTOP - i * (KSTKSIZE + KSTKGAP) - KSTKSIZE,
                              KSTKSIZE, Stack(i), {"W"}),
             m, Seqn(NCPU))
KernelMap(m) ==
    LET p == BootMapRegion(m, kern_pgdir, UPAGES, PagesSize, PagesAt, {"U"})
        e == BootMapRegion(p, kern_pgdir, UENVS, EnvsSize, EnvsAt, {"U"})
        k == BootMapRegion(e, kern_pgdir, KERNBASE, KernPds * NPT, 0, {"W"})
    IN  MemInitMp(k)

MapAndCheck ==
    /\ At("map")
    /\ LET m == KernelMap(memory)
           i == CheckPageInstalledPgdir(m)
       IN  IF ~CheckKernPgdir(m) \/ ~CheckPageFreeList(m) \/ ~i.ok THEN Fail
           ELSE /\ memory' = i.memory /\ phase' = "mp_init"
                /\ UNCHANGED <<UserSide, kern_pgdir, machine, npages, nextfree, base, ncpu, cpu_status>>

(* mp_init(): the entries of the table up to one it does not know.  Without  *)
(* a table, ncpu stays 0 and there is no APIC.                               *)
Known == SelectSeq(machine.mp, LAMBDA x : x \in {"cpu", "boot"})
IsMp == machine.mp # <<>> /\ "unknown" \notin ToSet(machine.mp)
MpInit ==
    /\ At("mp_init")
    /\ ncpu' = IF machine.mp = <<>> THEN 0
               ELSE IF ~IsMp THEN 1 ELSE Min({NCPU, Len(Known)})
    /\ cpu_status' = IF machine.mp = <<>> THEN cpu_status
                     ELSE [cpu_status EXCEPT ![0] = "started"]
    /\ phase' = "lapic_init"
    /\ UNCHANGED <<pagesVars, machine, npages, nextfree, base>>

(* The boot processor's lapic_init(), or that of one it has woken in         *)
(* boot_aps() and waits for.                                                 *)
LapicInit(c) ==
    LET r == MmioMapRegion(memory, base, LAPIC, 1)
    IN  IF ~r.ok THEN Fail
        ELSE /\ memory' = r.memory /\ base' = r.base
             /\ cpu_status' = [cpu_status EXCEPT ![c] = "started"]
             /\ UNCHANGED <<UserSide, kern_pgdir, phase, machine, npages, nextfree, ncpu>>

Asleep == {c \in 1..(ncpu-1) : cpu_status[c] = "unused"}
BootLapic ==
    /\ At("lapic_init") /\ IsMp /\ base = MMIOBASE + 3
    /\ LapicInit(0)
BootAps ==
    /\ At("lapic_init") /\ IsMp /\ base > MMIOBASE + 3
    /\ Asleep # {} /\ LapicInit(Min(Asleep))
ApsDone ==
    /\ At("lapic_init") /\ Asleep = {} /\ (IsMp => base > MMIOBASE + 3)
    /\ phase' = "env_create"
    /\ UNCHANGED <<pagesVars, machine, npages, nextfree, base, ncpu, cpu_status>>

(* region_alloc(): one page after the other; any failure panics. *)
RegionAlloc(r, pgdir, va, size) ==
    FoldLeft(LAMBDA acc, i :
                IF ~acc.ok \/ va + i >= UTOP \/ acc.memory.free = <<>>
                THEN [acc EXCEPT !.ok = FALSE]
                ELSE PageInsert(PageAlloc(acc.memory), pgdir, Head(acc.memory.free), va + i, {"U", "W"}),
             r, Seqn(size))
(* The segments of the program, then its stack. *)
LoadIcode(m, pgdir) ==
    LET segs == FoldLeft(LAMBDA acc, s : RegionAlloc(acc, pgdir, s[1], s[2]),
                         [ok |-> TRUE, memory |-> m], Segments)
    IN  RegionAlloc(segs, pgdir, USTACKTOP - 1, 1)

Created == {e \in Envs : Exists(e)}
EnvCreate ==
    /\ At("env_create") /\ Cardinality(Created) < Programs
    /\ IF memory.free = <<>> THEN Fail
       ELSE \E e \in Envs \ Created :
              LET r == LoadIcode(EnvSetupVm(memory), Head(memory.free))
              IN  IF ~r.ok THEN Fail
                  ELSE /\ memory' = r.memory
                       /\ env_pgdir' = [env_pgdir EXCEPT ![e] = Head(memory.free)]
                       /\ UNCHANGED <<kern_pgdir, parent, curenv, tlb, leaked, bootVars>>

(* env_run(&envs[0]) and the release of the lock for the others. *)
BootDone ==
    /\ At("env_create") /\ Cardinality(Created) = Programs
    /\ phase' = "run"
    /\ UNCHANGED <<pagesVars, machine, npages, nextfree, base, ncpu, cpu_status>>

Awake == {0} \union {c \in CPU : cpu_status[c] = "started"}
Run == /\ phase = "run" /\ PagesNext(Awake)
       /\ UNCHANGED bootVars

Next == \/ MemInit \/ BootAlloc \/ PageInitAndCheck \/ MapAndCheck \/ MpInit
        \/ BootLapic \/ BootAps \/ ApsDone \/ EnvCreate \/ BootDone \/ Run

Spec == Init /\ [][Next]_vars

----------------------------------------------------------------------------
(* Properties. *)

(* While the machine runs, the pages that nobody has are those taken at boot *)
(* and those dropped since, which are others.                                *)
IdleKnown ==
    /\ Idle(memory) = leaked \union {p \in Managed : InUse(p)}
    /\ \A p \in leaked : ~InUse(p)

(* The types of the variables; the machine runs with its memory in order.    *)
TypeOK ==
    /\ phase = "run" => PagesInv /\ IdleKnown
    /\ memory.free \in Seq(DOMAIN memory.pp_ref) /\ memory.panic \in BOOLEAN
    /\ \A p \in DOMAIN memory.pp_ref : memory.pp_ref[p] \in Nat
    /\ env_pgdir \in [Envs -> Nat] /\ parent \in [Envs -> Envs \union {NoEnv}]
    /\ curenv \in [CPU -> Envs \union {NoEnv}]
    /\ base \in MMIOBASE..MMIOLIM /\ ncpu \in 0..NCPU

(* From page_init() on, a page is either taken at boot, and then never in    *)
(* the free list nor mapped by a program, or on the free list once, or       *)
(* referred to, or was dropped by a failed env_page_alloc(): one of the four.*)
PagePartition ==
    /\ IsInjective(memory.free)
    /\ \A p \in Managed :
          LET free == Contains(memory.free, p)
              used == memory.pp_ref[p] > 0
          IN  /\ Cardinality({k \in 1..4 : <<free, used, p \in leaked, InUse(p)>>[k]}) = 1
              /\ InUse(p) => \A x \in Mappings : MappedBy(x) # p

(* The tests of the boot pass on every machine that has memory for what it   *)
(* loads, and nothing panics later; then every processor found is awake with *)
(* the same devices, before the first program.                               *)
Loaded == {USTACKTOP - 1} \union
          UNION {Segments[i][1]..(Segments[i][1] + Segments[i][2] - 1) : i \in DOMAIN Segments}
Needed == (EnvsAt + EnvsSize) - (machine.basemem - 2) + (KernPds + 4)
          + Programs * (1 + Cardinality({PDX(va) : va \in Loaded}) + Cardinality(Loaded))
BootsIfRoom ==
    /\ memory.panic => Detected(machine) < Needed /\ phase # "run"
    /\ phase = "env_create" /\ ~memory.panic =>
                        /\ CheckKernPgdir(memory)
                        /\ \A c \in 0..(ncpu-1) : cpu_status[c] = "started"
                        /\ IsMp => \A c \in 0..(ncpu-1) : Va2Pa(memory, MMIOBASE + 3 + c) = LAPIC
=============================================================================
