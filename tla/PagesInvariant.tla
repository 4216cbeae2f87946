--------------------------- MODULE PagesInvariant ---------------------------
(* The inductive invariant of Pages.  Its parts speak of a memory m, of the  *)
(* directories D of the environments and of a page h that a system call      *)
(* holds, 0 if none: page_insert() counts its page before it maps it.        *)
EXTENDS Pages

Fields == {"pp_ref", "free", "mem", "panic"}
UserPart == 0..(UserPds-1)
Entries == 0..(NPT-1)

ManagedIn(m) == DOMAIN m.pp_ref \ {0}
LiveIn(D) == {D[e] : e \in Envs} \ {0}
DirsIn(D) == LiveIn(D) \union {kern_pgdir}

(* Entry i of the directory d, its table, and entry j of that table.         *)
Present(m, d, i) == m.mem[d][i] # Zero
TableAt(m, d, i) == m.mem[d][i].page
Slot(m, d, i, j) == m.mem[m.mem[d][i].page][j]

(* What refers to a page: entries of tables, entries of directories and      *)
(* environments.                                                             *)
MapRefs(m, D, p) ==
    {x \in (LiveIn(D) \X UserPart) \X Entries :
        /\ Present(m, x[1][1], x[1][2])
        /\ Slot(m, x[1][1], x[1][2], x[2]) # Zero
        /\ Slot(m, x[1][1], x[1][2], x[2]).page = p}
TabRefs(m, D, p) ==
    {t \in DirsIn(D) \X (0..(NPD-1)) :
        t[2] \in Counted(t[1]) /\ Present(m, t[1], t[2]) /\ TableAt(m, t[1], t[2]) = p}
EnvRefs(D, p) == {e \in Envs : D[e] = p}
Held(h, p) == IF p = h THEN 1 ELSE 0

Records(m) ==
    /\ DOMAIN m = Fields
    /\ ~m.panic
    /\ \A p \in ManagedIn(m) : m.pp_ref[p] \in Nat

(* The free list has pages nobody refers to, each once.                      *)
FreeList(m) ==
    /\ m.free \in Seq(ManagedIn(m))
    /\ \A k \in DOMAIN m.free :
          /\ m.pp_ref[m.free[k]] = 0
          /\ m.free[k] \notin DOMAIN m.mem
          /\ \A l \in DOMAIN m.free : m.free[k] = m.free[l] => k = l

(* Each environment has a directory of its own, the kernel's above UTOP.     *)
Directories(m, D) ==
    /\ kern_pgdir # 0 /\ DOMAIN D = Envs
    /\ \A e \in Envs : D[e] # kern_pgdir
    /\ \A e, f \in Envs : D[e] # 0 /\ D[e] = D[f] => e = f
    /\ LiveIn(D) \subseteq ManagedIn(m)
    /\ \A d \in DirsIn(D) : d \in DOMAIN m.mem /\ DOMAIN m.mem[d] = 0..(NPD-1)
    /\ \A i \in UserPart : ~Present(m, kern_pgdir, i)
    /\ \A d \in LiveIn(D) : \A i \in UserPds..(NPD-1) :
          m.mem[d][i] = IF i = PDX(UVPT) THEN [page |-> d, perm |-> {"P", "U"}]
                        ELSE m.mem[kern_pgdir][i]

(* Every table belongs to one entry and is no directory.                     *)
TablesApart(m, D) ==
    \A d \in DirsIn(D) : \A i \in Counted(d) : Present(m, d, i) =>
       /\ TableAt(m, d, i) \in (DOMAIN m.mem) \ DirsIn(D)
       /\ \A b \in DirsIn(D) : \A k \in Counted(b) :
             Present(m, b, k) /\ TableAt(m, b, k) = TableAt(m, d, i) => b = d /\ k = i

(* The tables of the programs are managed pages; they map managed pages that *)
(* are neither tables nor directories.                                       *)
UserTablesOK(m, D) ==
    \A d \in LiveIn(D) : \A i \in UserPart : Present(m, d, i) =>
       /\ TableAt(m, d, i) \in ManagedIn(m)
       /\ DOMAIN m.mem[TableAt(m, d, i)] = Entries
       /\ \A j \in Entries : Slot(m, d, i, j) # Zero =>
             Slot(m, d, i, j).page \in ManagedIn(m) \ DOMAIN m.mem

(* The page held is nobody's table and is not free.                          *)
HoldsPage(m, h) ==
    h # 0 => /\ h \in ManagedIn(m) \ DOMAIN m.mem
             /\ \A k \in DOMAIN m.free : m.free[k] # h

RefsCounted(m, D, h) ==
    \A p \in ManagedIn(m) :
       m.pp_ref[p] = Cardinality(MapRefs(m, D, p)) + Cardinality(TabRefs(m, D, p))
                     + Cardinality(EnvRefs(D, p)) + Held(h, p)

(* The pages that are neither free nor referred to.                          *)
Idle(m) == {p \in ManagedIn(m) : m.pp_ref[p] = 0 /\ \A k \in DOMAIN m.free : m.free[k] # p}

MemoryInv(m, D, h) ==
    /\ Records(m) /\ FreeList(m)
    /\ Directories(m, D) /\ TablesApart(m, D) /\ UserTablesOK(m, D)
    /\ HoldsPage(m, h) /\ RefsCounted(m, D, h)

(* A processor runs an environment that exists and that no other runs.       *)
OneRunner ==
    /\ curenv \in [CPU -> Envs \union {NoEnv}]
    /\ \A c \in CPU : curenv[c] # NoEnv => Exists(curenv[c])
    /\ \A c, d \in CPU : curenv[c] = curenv[d] /\ curenv[c] # NoEnv => c = d

(* While programs do not change what another processor runs.                 *)
TlbInv ==
    /\ DOMAIN tlb = CPU
    /\ \A c \in CPU : \A t \in tlb[c] : t.va \in Nat /\ ValidVa(t.va)
    /\ TlbFresh

PagesInv == MemoryInv(memory, env_pgdir, 0) /\ OneRunner /\ (~Remote => TlbInv)
=============================================================================
