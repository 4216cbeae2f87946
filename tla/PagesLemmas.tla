---------------------------- MODULE PagesLemmas ----------------------------
(* What the operations of kern/pmap.c and kern/env.c on physical pages do to *)
(* the invariant of PagesInvariant, one lemma for each.                      *)
EXTENDS PagesInvariant, FiniteSetTheorems, SequenceTheorems, WellFoundedInduction, TLAPS

(* Induction over the naturals, for a set S that has 0 and every successor.  *)
LEMMA Induction ==
    ASSUME NEW S, 0 \in S, \A n \in Nat : n \in S => n + 1 \in S
    PROVE  Nat \subseteq S
<1> DEFINE T == {n \in Nat : n \notin S}
<1> SUFFICES ASSUME T # {} PROVE FALSE
  OBVIOUS
<1>1. \E m \in T : \A k \in T : ~(k < m)
  <2>1. PICK m \in T : \A k \in T : <<k, m>> \notin OpToRel(<, Nat)
    BY WFMin, NatLessThanWellFounded, Zenon
  <2>2. \A k \in T : ~(k < m)
    BY <2>1, Zenon DEF OpToRel
  <2> QED BY <2>2, Zenon
<1>2. PICK m \in T : \A k \in T : ~(k < m)
  BY <1>1
<1>3. m \in Nat /\ m # 0 /\ m - 1 \in Nat /\ m - 1 < m
  OBVIOUS
<1>4. m - 1 \in S
  BY <1>2, <1>3
<1> QED BY <1>3, <1>4

-----------------------------------------------------------------------------
(* Virtual addresses.                                                        *)

(* An address is its directory index times the size of a table plus its      *)
(* table index.                                                              *)
LEMMA Address ==
    ASSUME NEW va \in Nat
    PROVE  /\ PDX(va) \in Nat /\ PTX(va) \in Entries
           /\ va = PDX(va) * NPT + PTX(va)
  BY PagesAssumption DEF PDX, PTX, Entries

(* The indexes are the only ones.                                            *)
LEMMA AddressUnique ==
    ASSUME NEW i \in Nat, NEW j \in Entries
    PROVE  PDX(i * NPT + j) = i /\ PTX(i * NPT + j) = j
  BY PagesAssumption DEF PDX, PTX, Entries

(* Below UTOP are the entries of the user part.                              *)
LEMMA UserAddress ==
    ASSUME NEW va \in Nat
    PROVE  ValidVa(va) <=> PDX(va) \in UserPart
  BY PagesAssumption DEF PDX, ValidVa, UTOP, UserPart

(* Where the parts of a directory begin.                                     *)
LEMMA Layout ==
    /\ PDX(UTOP) = UserPds
    /\ PDX(UVPT) = UserPds + 2
    /\ NPD = UserPds + 5 + KernPds
  BY PagesAssumption DEF PDX, UTOP, UVPT, UPAGES, UENVS, NPD, KERNBASE, KSTACKTOP, MMIOLIM, MMIOBASE

-----------------------------------------------------------------------------
(* References.                                                               *)

(* The directories are finitely many.                                        *)
LEMMA LiveFinite ==
    ASSUME NEW D
    PROVE  IsFiniteSet(LiveIn(D)) /\ IsFiniteSet(DirsIn(D))
<1> DEFINE T == {D[e] : e \in Envs}
           f == [e \in Envs |-> D[e]]
<1>1. f \in Surjection(Envs, T)
  BY DEF Surjection
<1>2. IsFiniteSet(T)
  BY <1>1, FS_Surjection, PagesAssumption
<1>3. LiveIn(D) \subseteq T
  BY DEF LiveIn
<1>4. IsFiniteSet(LiveIn(D))
  BY <1>2, <1>3, FS_Subset
<1>5. IsFiniteSet(DirsIn(D))
  BY <1>4, FS_AddElement DEF DirsIn
<1> QED BY <1>4, <1>5

(* What refers to a page is finite, so it can be counted.                    *)
LEMMA RefsFinite ==
    ASSUME NEW m, NEW D, NEW p
    PROVE  /\ IsFiniteSet(MapRefs(m, D, p)) /\ Cardinality(MapRefs(m, D, p)) \in Nat
           /\ IsFiniteSet(TabRefs(m, D, p)) /\ Cardinality(TabRefs(m, D, p)) \in Nat
           /\ IsFiniteSet(EnvRefs(D, p)) /\ Cardinality(EnvRefs(D, p)) \in Nat
<1>1. IsFiniteSet(UserPart) /\ IsFiniteSet(Entries) /\ IsFiniteSet(0..(NPD-1))
  BY FS_Interval, PagesAssumption, Layout DEF UserPart, Entries
<1>2. IsFiniteSet((LiveIn(D) \X UserPart) \X Entries)
  BY <1>1, LiveFinite, FS_Product
<1>3. IsFiniteSet(DirsIn(D) \X (0..(NPD-1)))
  BY <1>1, LiveFinite, FS_Product
<1>4. MapRefs(m, D, p) \subseteq (LiveIn(D) \X UserPart) \X Entries
  BY DEF MapRefs
<1>5. TabRefs(m, D, p) \subseteq DirsIn(D) \X (0..(NPD-1))
  BY DEF TabRefs
<1>6. EnvRefs(D, p) \subseteq Envs
  BY DEF EnvRefs
<1>7. IsFiniteSet(MapRefs(m, D, p)) /\ IsFiniteSet(TabRefs(m, D, p)) /\ IsFiniteSet(EnvRefs(D, p))
  BY <1>2, <1>3, <1>4, <1>5, <1>6, PagesAssumption, FS_Subset
<1> QED BY <1>7, FS_CardinalityType

(* A page with no reference counted is referred to by nothing.               *)
LEMMA Unreferenced ==
    ASSUME NEW m, NEW D, NEW h, NEW p \in ManagedIn(m),
           RefsCounted(m, D, h), m.pp_ref[p] = 0
    PROVE  /\ MapRefs(m, D, p) = {} /\ TabRefs(m, D, p) = {} /\ EnvRefs(D, p) = {}
           /\ p # h
<1>1. /\ Cardinality(MapRefs(m, D, p)) = 0 /\ Cardinality(TabRefs(m, D, p)) = 0
      /\ Cardinality(EnvRefs(D, p)) = 0 /\ Held(h, p) = 0
  BY RefsFinite DEF RefsCounted, Held
<1> QED BY <1>1, RefsFinite, FS_EmptySet DEF Held

(* The members of the sets of references.                                    *)
LEMMA MapRefsHave ==
    ASSUME NEW m, NEW D, NEW p, NEW d \in LiveIn(D), NEW i \in UserPart, NEW j \in Entries
    PROVE  <<<<d, i>>, j>> \in MapRefs(m, D, p) <=>
              Present(m, d, i) /\ Slot(m, d, i, j) # Zero /\ Slot(m, d, i, j).page = p
  BY DEF MapRefs
LEMMA TabRefsHave ==
    ASSUME NEW m, NEW D, NEW p, NEW d \in DirsIn(D), NEW i \in 0..(NPD-1)
    PROVE  <<d, i>> \in TabRefs(m, D, p) <=>
              i \in Counted(d) /\ Present(m, d, i) /\ TableAt(m, d, i) = p
  BY DEF TabRefs

(* Sets of references whose members agree are the same.                      *)
LEMMA MapRefsSame ==
    ASSUME NEW m, NEW n, NEW D, NEW p,
           \A d \in LiveIn(D) : \A i \in UserPart :
              /\ Present(n, d, i) <=> Present(m, d, i)
              /\ Present(m, d, i) => \A j \in Entries : Slot(n, d, i, j) = Slot(m, d, i, j)
    PROVE  MapRefs(n, D, p) = MapRefs(m, D, p)
<1>1. ASSUME NEW x \in (LiveIn(D) \X UserPart) \X Entries
      PROVE  x \in MapRefs(n, D, p) <=> x \in MapRefs(m, D, p)
  <2>1. PICK d \in LiveIn(D), i \in UserPart, j \in Entries : x = <<<<d, i>>, j>>
    OBVIOUS
  <2>2. \A a \in {m, n} : x \in MapRefs(a, D, p) <=>
              Present(a, d, i) /\ Slot(a, d, i, j) # Zero /\ Slot(a, d, i, j).page = p
    BY <2>1, MapRefsHave
  <2> QED BY <2>2, Zenon
<1> QED BY <1>1, Zenon DEF MapRefs
LEMMA TabRefsSame ==
    ASSUME NEW m, NEW n, NEW D, NEW p,
           \A d \in DirsIn(D) : \A i \in 0..(NPD-1) : n.mem[d][i] = m.mem[d][i]
    PROVE  TabRefs(n, D, p) = TabRefs(m, D, p)
<1>1. ASSUME NEW x \in DirsIn(D) \X (0..(NPD-1))
      PROVE  x \in TabRefs(n, D, p) <=> x \in TabRefs(m, D, p)
  <2>1. PICK d \in DirsIn(D), i \in 0..(NPD-1) : x = <<d, i>>
    OBVIOUS
  <2>2. \A a \in {m, n} : x \in TabRefs(a, D, p) <=>
              i \in Counted(d) /\ Present(a, d, i) /\ TableAt(a, d, i) = p
    BY <2>1, TabRefsHave
  <2>3. Present(n, d, i) = Present(m, d, i) /\ TableAt(n, d, i) = TableAt(m, d, i)
    BY DEF Present, TableAt
  <2> QED BY <2>2, <2>3, Zenon
<1> QED BY <1>1, Zenon DEF TabRefs

(* The entries a live directory counts are those of the user part.           *)
LEMMA CountedIs ==
    ASSUME NEW m, NEW D, Directories(m, D)
    PROVE  /\ \A d \in LiveIn(D) : Counted(d) = UserPart /\ d # kern_pgdir /\ d # 0
           /\ \A d \in DirsIn(D) : Counted(d) \subseteq 0..(NPD-1)
           /\ UserPart \subseteq 0..(NPD-1)
<1>1. \A d \in LiveIn(D) : d # kern_pgdir /\ d # 0
  BY DEF Directories, LiveIn
<1>2. UserPart \subseteq 0..(NPD-1)
  BY Layout, PagesAssumption DEF UserPart
<1>3. Counted(kern_pgdir) \subseteq 0..(NPD-1)
  BY DEF Counted
<1>4. \A d \in LiveIn(D) : Counted(d) = UserPart
  BY <1>1 DEF Counted, UserPart
<1> QED BY <1>1, <1>2, <1>3, <1>4 DEF DirsIn

-----------------------------------------------------------------------------
(* One entry of a page of m is written.                                      *)
Wrote(m, n, t, j, e) ==
    /\ DOMAIN n = Fields /\ ~n.panic
    /\ DOMAIN n.pp_ref = DOMAIN m.pp_ref
    /\ DOMAIN n.mem = DOMAIN m.mem
    /\ \A q \in DOMAIN m.mem : DOMAIN n.mem[q] = DOMAIN m.mem[q]
    /\ \A q \in DOMAIN m.mem : \A k \in DOMAIN m.mem[q] :
          n.mem[q][k] = IF q = t /\ k = j THEN e ELSE m.mem[q][k]

(* An entry that a table of a program may have.                              *)
EntryOK(m, e) == e = Zero \/ e.page \in ManagedIn(m) \ DOMAIN m.mem

(* Entry j of the table at entry i of d is e now, and all else is the same.  *)
SlotWritten(m, n, D, d, i, j, e) ==
    /\ \A b \in DirsIn(D) : \A k \in 0..(NPD-1) : n.mem[b][k] = m.mem[b][k]
    /\ \A b \in LiveIn(D) : \A k \in UserPart : Present(m, b, k) =>
          \A l \in Entries :
             Slot(n, b, k, l) = IF b = d /\ k = i /\ l = j THEN e ELSE Slot(m, b, k, l)

(* The parts of the invariant about directories and tables.                  *)
Structure(m, D) == Directories(m, D) /\ TablesApart(m, D) /\ UserTablesOK(m, D)

(* What an entry of a table of a program is, seen as a page.                 *)
LEMMA SlotAt ==
    ASSUME NEW m, NEW D, Structure(m, D),
           NEW d \in LiveIn(D), NEW i \in UserPart, Present(m, d, i)
    PROVE  /\ TableAt(m, d, i) \in DOMAIN m.mem
           /\ DOMAIN m.mem[TableAt(m, d, i)] = Entries
           /\ TableAt(m, d, i) \notin DirsIn(D)
           /\ \A j \in Entries : Slot(m, d, i, j) = m.mem[TableAt(m, d, i)][j]
           /\ d \in DOMAIN m.mem /\ i \in DOMAIN m.mem[d]
<1>1. d \in DirsIn(D) /\ i \in Counted(d)
  BY CountedIs DEF DirsIn, Structure
<1>2. TableAt(m, d, i) \in (DOMAIN m.mem) \ DirsIn(D)
  BY <1>1 DEF Structure, TablesApart
<1>3. DOMAIN m.mem[TableAt(m, d, i)] = Entries
  BY DEF Structure, UserTablesOK
<1>4. \A j \in Entries : Slot(m, d, i, j) = m.mem[TableAt(m, d, i)][j]
  BY DEF Slot, TableAt
<1>5. d \in DOMAIN m.mem /\ i \in DOMAIN m.mem[d]
  BY <1>1, CountedIs DEF Structure, Directories
<1> QED BY <1>2, <1>3, <1>4, <1>5

(* Only the user part of a program's directory may change.                   *)
LEMMA DirectoriesKept ==
    ASSUME NEW m, NEW n, NEW D, Directories(m, D),
           DOMAIN n.pp_ref = DOMAIN m.pp_ref,
           \A d \in DirsIn(D) : /\ d \in DOMAIN n.mem /\ DOMAIN n.mem[d] = DOMAIN m.mem[d]
                                /\ \A i \in 0..(NPD-1) : d = kern_pgdir \/ i \notin UserPart =>
                                      n.mem[d][i] = m.mem[d][i]
    PROVE  Directories(n, D)
<1>1. ManagedIn(n) = ManagedIn(m)
  BY DEF ManagedIn
<1>2. \A i \in UserPart : ~Present(n, kern_pgdir, i)
  <2>1. UserPart \subseteq 0..(NPD-1) /\ kern_pgdir \in DirsIn(D)
    BY CountedIs DEF DirsIn
  <2>2. \A i \in UserPart : n.mem[kern_pgdir][i] = m.mem[kern_pgdir][i]
    BY <2>1
  <2>3. \A i \in UserPart : m.mem[kern_pgdir][i] = Zero
    BY DEF Directories, Present
  <2> QED BY <2>2, <2>3 DEF Present
<1>3. UserPds..(NPD-1) \subseteq (0..(NPD-1)) \ UserPart
  BY Layout, PagesAssumption DEF UserPart
<1>4. \A d \in LiveIn(D) : d \in DirsIn(D)
  BY DEF DirsIn
<1>5. kern_pgdir \in DirsIn(D)
  BY DEF DirsIn
<1>6. \A d \in LiveIn(D) : \A i \in UserPds..(NPD-1) :
          n.mem[d][i] = IF i = PDX(UVPT) THEN [page |-> d, perm |-> {"P", "U"}]
                        ELSE n.mem[kern_pgdir][i]
  <2> SUFFICES ASSUME NEW d \in LiveIn(D), NEW i \in UserPds..(NPD-1)
               PROVE  n.mem[d][i] = IF i = PDX(UVPT) THEN [page |-> d, perm |-> {"P", "U"}]
                                    ELSE n.mem[kern_pgdir][i]
    OBVIOUS
  <2>1. n.mem[d][i] = m.mem[d][i] /\ n.mem[kern_pgdir][i] = m.mem[kern_pgdir][i]
    BY <1>3, <1>4, <1>5
  <2>2. m.mem[d][i] = IF i = PDX(UVPT) THEN [page |-> d, perm |-> {"P", "U"}]
                      ELSE m.mem[kern_pgdir][i]
    BY Zenon DEF Directories
  <2> QED BY <2>1, <2>2
<1>7. \A d \in DirsIn(D) : d \in DOMAIN n.mem /\ DOMAIN n.mem[d] = 0..(NPD-1)
  BY DEF Directories
<1> QED BY <1>1, <1>2, <1>6, <1>7 DEF Directories

(* A write of one entry of the table of a program changes the mapping of one *)
(* address, and nothing else that the invariant speaks of.                   *)
LEMMA WriteSlot ==
    ASSUME NEW m, NEW n, NEW D, Structure(m, D),
           NEW d \in LiveIn(D), NEW i \in UserPart, Present(m, d, i), NEW j \in Entries,
           NEW e, Wrote(m, n, TableAt(m, d, i), j, e),
           EntryOK(m, e)
    PROVE  Structure(n, D) /\ SlotWritten(m, n, D, d, i, j, e)
<1> DEFINE t == TableAt(m, d, i)
<1>1. t \in DOMAIN m.mem /\ t \notin DirsIn(D) /\ DOMAIN m.mem[t] = Entries
  BY SlotAt
<1>2. \A b \in DirsIn(D) : /\ b \in DOMAIN n.mem /\ DOMAIN n.mem[b] = DOMAIN m.mem[b]
                           /\ \A k \in 0..(NPD-1) : n.mem[b][k] = m.mem[b][k]
  <2> SUFFICES ASSUME NEW b \in DirsIn(D)
               PROVE  /\ b \in DOMAIN n.mem /\ DOMAIN n.mem[b] = DOMAIN m.mem[b]
                      /\ \A k \in 0..(NPD-1) : n.mem[b][k] = m.mem[b][k]
    OBVIOUS
  <2>1. b \in DOMAIN m.mem /\ DOMAIN m.mem[b] = 0..(NPD-1) /\ b # t
    BY <1>1 DEF Structure, Directories
  <2> QED BY <2>1 DEF Wrote
<1>3. Directories(n, D)
  BY <1>2, DirectoriesKept DEF Structure, Wrote
<1>4. \A b \in DirsIn(D) : \A k \in 0..(NPD-1) :
         (Present(n, b, k) <=> Present(m, b, k)) /\ TableAt(n, b, k) = TableAt(m, b, k)
  BY <1>2 DEF Present, TableAt
<1>5. \A b \in DirsIn(D) : Counted(b) \subseteq 0..(NPD-1)
  BY CountedIs DEF Structure
<1>6. TablesApart(n, D)
  BY <1>4, <1>5 DEF TablesApart, Structure, Wrote
<1>7. \A b \in LiveIn(D) : b \in DirsIn(D) /\ Counted(b) = UserPart
  BY CountedIs DEF Structure, DirsIn
<1>8. ASSUME NEW b \in LiveIn(D), NEW k \in UserPart, Present(m, b, k), NEW l \in Entries
      PROVE  Slot(n, b, k, l) = IF b = d /\ k = i /\ l = j THEN e ELSE Slot(m, b, k, l)
  <2>1. TableAt(m, b, k) = t => b = d /\ k = i
    BY <1>7, <1>8 DEF Structure, TablesApart
  <2>2. k \in 0..(NPD-1)
    BY <1>5, <1>7
  <2>3. Slot(n, b, k, l) = n.mem[TableAt(m, b, k)][l]
    BY <1>4, <1>7, <2>2 DEF Slot, TableAt
  <2>4. /\ TableAt(m, b, k) \in DOMAIN m.mem /\ l \in DOMAIN m.mem[TableAt(m, b, k)]
        /\ Slot(m, b, k, l) = m.mem[TableAt(m, b, k)][l]
    BY <1>8, SlotAt
  <2>5. n.mem[TableAt(m, b, k)][l] = IF TableAt(m, b, k) = t /\ l = j THEN e ELSE m.mem[TableAt(m, b, k)][l]
    BY <2>4 DEF Wrote
  <2> QED BY <2>1, <2>3, <2>4, <2>5
<1>9. UserTablesOK(n, D)
  <2> SUFFICES ASSUME NEW b \in LiveIn(D), NEW k \in UserPart, Present(n, b, k)
               PROVE  /\ TableAt(n, b, k) \in ManagedIn(n)
                      /\ DOMAIN n.mem[TableAt(n, b, k)] = Entries
                      /\ \A l \in Entries : Slot(n, b, k, l) # Zero =>
                            Slot(n, b, k, l).page \in ManagedIn(n) \ DOMAIN n.mem
    BY DEF UserTablesOK
  <2>1. k \in 0..(NPD-1)
    BY <1>5, <1>7
  <2>2. Present(m, b, k) /\ TableAt(n, b, k) = TableAt(m, b, k)
    BY <1>4, <1>7, <2>1
  <2>3. ManagedIn(n) = ManagedIn(m) /\ DOMAIN n.mem = DOMAIN m.mem
    BY DEF Wrote, ManagedIn
  <2>4. TableAt(n, b, k) \in ManagedIn(n)
    BY <2>2, <2>3 DEF Structure, UserTablesOK
  <2>5. DOMAIN n.mem[TableAt(n, b, k)] = Entries
    BY <2>2, SlotAt DEF Wrote
  <2>6. ASSUME NEW l \in Entries, Slot(n, b, k, l) # Zero
        PROVE  Slot(n, b, k, l).page \in ManagedIn(n) \ DOMAIN n.mem
    <3>1. Slot(m, b, k, l) # Zero => Slot(m, b, k, l).page \in ManagedIn(m) \ DOMAIN m.mem
      BY <2>2 DEF Structure, UserTablesOK
    <3> QED BY <1>8, <2>2, <2>3, <2>6, <3>1 DEF EntryOK
  <2> QED BY <2>4, <2>5, <2>6
<1> QED BY <1>2, <1>3, <1>6, <1>8, <1>9 DEF Structure, SlotWritten

(* The references S to page p when the entry at x becomes e.                 *)
RefsAfter(S, x, e, p) == (S \ {x}) \union (IF e # Zero /\ e.page = p THEN {x} ELSE {})

(* And so the references to each page follow.                                *)
LEMMA WriteSlotRefs ==
    ASSUME NEW m, NEW n, NEW D, Structure(m, D),
           NEW d \in LiveIn(D), NEW i \in UserPart, Present(m, d, i), NEW j \in Entries,
           NEW e, Wrote(m, n, TableAt(m, d, i), j, e),
           EntryOK(m, e), NEW p
    PROVE  /\ TabRefs(n, D, p) = TabRefs(m, D, p)
           /\ MapRefs(n, D, p) = RefsAfter(MapRefs(m, D, p), <<<<d, i>>, j>>, e, p)
<1> DEFINE x0 == <<<<d, i>>, j>>
           R == (MapRefs(m, D, p) \ {x0}) \union (IF e # Zero /\ e.page = p THEN {x0} ELSE {})
<1>1. /\ \A b \in DirsIn(D) : \A k \in 0..(NPD-1) : n.mem[b][k] = m.mem[b][k]
      /\ \A b \in LiveIn(D) : \A k \in UserPart : Present(m, b, k) =>
                 \A l \in Entries :
                    Slot(n, b, k, l) = IF b = d /\ k = i /\ l = j THEN e ELSE Slot(m, b, k, l)
  <2>1. SlotWritten(m, n, D, d, i, j, e)
    BY WriteSlot
  <2> QED BY <2>1 DEF SlotWritten
<1>2. TabRefs(n, D, p) = TabRefs(m, D, p)
  BY <1>1, TabRefsSame
<1>3. \A b \in LiveIn(D) : \A k \in UserPart : Present(n, b, k) <=> Present(m, b, k)
  BY <1>1, CountedIs DEF Present, DirsIn, Structure
<1>4. ASSUME NEW x \in (LiveIn(D) \X UserPart) \X Entries
      PROVE  x \in MapRefs(n, D, p) <=> x \in R
  <2>1. PICK b \in LiveIn(D), k \in UserPart, l \in Entries : x = <<<<b, k>>, l>>
    OBVIOUS
  <2>2. x = x0 <=> b = d /\ k = i /\ l = j
    BY <2>1
  <2>3. x \in MapRefs(n, D, p) <=>
              Present(n, b, k) /\ Slot(n, b, k, l) # Zero /\ Slot(n, b, k, l).page = p
    BY <2>1, MapRefsHave
  <2>4. x \in MapRefs(m, D, p) <=>
              Present(m, b, k) /\ Slot(m, b, k, l) # Zero /\ Slot(m, b, k, l).page = p
    BY <2>1, MapRefsHave
  <2>5. CASE x = x0
    <3>1. Slot(n, b, k, l) = e /\ Present(n, b, k)
      BY <1>1, <1>3, <2>2, <2>5
    <3> QED BY <2>3, <2>5, <3>1
  <2>6. CASE x # x0
    <3>1. Present(m, b, k) => Slot(n, b, k, l) = Slot(m, b, k, l)
      BY <1>1, <2>2, <2>6
    <3> QED BY <1>3, <2>3, <2>4, <2>6, <3>1
  <2> QED BY <2>5, <2>6
<1>5. x0 \in (LiveIn(D) \X UserPart) \X Entries
  OBVIOUS
<1>6. MapRefs(n, D, p) \subseteq (LiveIn(D) \X UserPart) \X Entries
  BY DEF MapRefs
<1>7. MapRefs(m, D, p) \subseteq (LiveIn(D) \X UserPart) \X Entries
  BY DEF MapRefs
<1>8. R \subseteq (LiveIn(D) \X UserPart) \X Entries
  BY <1>5, <1>7
<1>9. MapRefs(n, D, p) = R
  <2> HIDE DEF R
  <2> QED BY <1>4, <1>6, <1>8
<1> QED BY <1>2, <1>9 DEF RefsAfter

-----------------------------------------------------------------------------
(* page_alloc().                                                             *)

(* A page that is neither free nor referred to, nor holds a table.           *)
Fresh(m, D, p) ==
    /\ p \in ManagedIn(m) \ DOMAIN m.mem
    /\ m.pp_ref[p] = 0
    /\ \A k \in DOMAIN m.free : m.free[k] # p
    /\ MapRefs(m, D, p) = {} /\ TabRefs(m, D, p) = {} /\ EnvRefs(D, p) = {}

(* The fields of the memory after page_alloc().                              *)
LEMMA AllocFields ==
    ASSUME NEW m, DOMAIN m = Fields
    PROVE  /\ DOMAIN PageAlloc(m) = Fields
           /\ PageAlloc(m).pp_ref = m.pp_ref /\ PageAlloc(m).mem = m.mem
           /\ PageAlloc(m).panic = m.panic /\ PageAlloc(m).free = Tail(m.free)
  BY DEF PageAlloc, Fields

(* The tail of the free list.                                                *)
LEMMA TailOfFree ==
    ASSUME NEW m, FreeList(m), m.free # <<>>
    PROVE  /\ Tail(m.free) \in Seq(ManagedIn(m))
           /\ Head(m.free) = m.free[1] /\ 1 \in DOMAIN m.free
           /\ \A k \in DOMAIN Tail(m.free) : /\ k + 1 \in DOMAIN m.free
                                             /\ Tail(m.free)[k] = m.free[k + 1]
                                             /\ k \in Nat
<1>1. m.free \in Seq(ManagedIn(m))
  BY DEF FreeList
<1> QED BY <1>1

(* The page it returns is fresh.                                             *)
LEMMA AllocInv ==
    ASSUME NEW m, NEW D, NEW h, MemoryInv(m, D, h), m.free # <<>>
    PROVE  /\ MemoryInv(PageAlloc(m), D, h)
           /\ Fresh(PageAlloc(m), D, Head(m.free))
           /\ Head(m.free) # h
<1> DEFINE n == PageAlloc(m)
           p == Head(m.free)
<1>1. /\ Records(m) /\ FreeList(m) /\ Directories(m, D) /\ TablesApart(m, D)
      /\ UserTablesOK(m, D) /\ HoldsPage(m, h) /\ RefsCounted(m, D, h)
  BY DEF MemoryInv
<1>2. /\ DOMAIN n = Fields /\ n.pp_ref = m.pp_ref /\ n.mem = m.mem
      /\ n.panic = m.panic /\ n.free = Tail(m.free)
  BY <1>1, AllocFields DEF Records
<1> HIDE DEF n
<1>3. /\ n.free \in Seq(ManagedIn(m)) /\ p = m.free[1] /\ 1 \in DOMAIN m.free
      /\ \A k \in DOMAIN n.free : /\ k + 1 \in DOMAIN m.free /\ k \in Nat
                                  /\ n.free[k] = m.free[k + 1]
  BY <1>1, <1>2, TailOfFree
<1> HIDE DEF p
<1>4. ManagedIn(n) = ManagedIn(m)
  BY <1>2 DEF ManagedIn
<1>5. Records(n)
  BY <1>1, <1>2, <1>4 DEF Records
<1>6. FreeList(n)
  <2>1. ASSUME NEW k \in DOMAIN n.free
        PROVE  /\ n.pp_ref[n.free[k]] = 0 /\ n.free[k] \notin DOMAIN n.mem
               /\ \A l \in DOMAIN n.free : n.free[k] = n.free[l] => k = l
    <3>1. ASSUME NEW l \in DOMAIN n.free, n.free[k] = n.free[l] PROVE k = l
      <4>1. k + 1 = l + 1
        BY <1>1, <1>3, <3>1 DEF FreeList
      <4> QED BY <1>3, <4>1
    <3> QED BY <1>1, <1>2, <1>3, <3>1 DEF FreeList
  <2> QED BY <1>3, <1>4, <2>1 DEF FreeList
<1>7. Directories(n, D) /\ TablesApart(n, D) /\ UserTablesOK(n, D)
  BY <1>1, <1>2, <1>4 DEF Directories, TablesApart, UserTablesOK, Present, TableAt, Slot
<1>8. \A k \in DOMAIN n.free : n.free[k] # p
  BY <1>1, <1>3 DEF FreeList
<1>9. HoldsPage(n, h) /\ (h # 0 => p # h)
  BY <1>1, <1>2, <1>3, <1>4 DEF HoldsPage
<1>10. \A q : MapRefs(n, D, q) = MapRefs(m, D, q) /\ TabRefs(n, D, q) = TabRefs(m, D, q)
  BY <1>2 DEF MapRefs, TabRefs, Present, TableAt, Slot
<1>11. RefsCounted(n, D, h)
  BY <1>1, <1>2, <1>4, <1>10 DEF RefsCounted
<1>12. p \in ManagedIn(m) \ DOMAIN m.mem /\ m.pp_ref[p] = 0 /\ p # 0
  <2>1. p \in ManagedIn(m)
    BY <1>1, <1>3 DEF FreeList
  <2> QED BY <1>1, <1>3, <2>1 DEF FreeList, ManagedIn
<1>13. Fresh(n, D, p)
  BY <1>1, <1>2, <1>4, <1>8, <1>10, <1>12, Unreferenced DEF Fresh
<1>14. MemoryInv(n, D, h)
  BY <1>5, <1>6, <1>7, <1>9, <1>11 DEF MemoryInv
<1>15. p # h
  BY <1>9, <1>12
<1> QED BY <1>13, <1>14, <1>15 DEF n, p

-----------------------------------------------------------------------------
(* page_free() and page_decref().                                            *)

(* The count of p is one less, and p is free when that was the last.         *)
Decreffed(m, n, p) ==
    /\ DOMAIN n = Fields /\ ~n.panic
    /\ DOMAIN n.pp_ref = DOMAIN m.pp_ref
    /\ \A q \in DOMAIN m.pp_ref : n.pp_ref[q] = IF q = p THEN m.pp_ref[p] - 1 ELSE m.pp_ref[q]
    /\ n.free = IF m.pp_ref[p] = 1 THEN <<p>> \o m.free ELSE m.free

(* A page that is referred to is not free.                                   *)
LEMMA ReferredNotFree ==
    ASSUME NEW m, FreeList(m), NEW p, m.pp_ref[p] # 0
    PROVE  \A k \in DOMAIN m.free : m.free[k] # p
  BY DEF FreeList

(* page_free() does not panic on a page that nobody refers to.               *)
LEMMA FreeFields ==
    ASSUME NEW m, DOMAIN m = Fields, ~m.panic, NEW p, m.pp_ref[p] = 0,
           m.free \in Seq(ManagedIn(m)), \A k \in DOMAIN m.free : m.free[k] # p
    PROVE  /\ DOMAIN PageFree(m, p) = Fields /\ ~PageFree(m, p).panic
           /\ PageFree(m, p).pp_ref = m.pp_ref /\ PageFree(m, p).free = <<p>> \o m.free
           /\ PageFree(m, p).mem = [q \in (DOMAIN m.mem) \ {p} |-> m.mem[q]]
<1>1. ~Contains(m.free, p)
  BY DEF Contains
<1> QED BY <1>1 DEF PageFree, Fields

(* The fields of the memory after page_decref().                             *)
LEMMA DecrefFields ==
    ASSUME NEW m, Records(m), FreeList(m), NEW p \in ManagedIn(m), m.pp_ref[p] # 0
    PROVE  /\ Decreffed(m, PageDecref(m, p), p)
           /\ DOMAIN PageDecref(m, p).mem = (DOMAIN m.mem) \ (IF m.pp_ref[p] = 1 THEN {p} ELSE {})
           /\ \A q \in DOMAIN PageDecref(m, p).mem : PageDecref(m, p).mem[q] = m.mem[q]
<1> DEFINE n == [m EXCEPT !.pp_ref[p] = @ - 1]
<1>1. m.pp_ref[p] \in Nat \ {0} /\ p \in DOMAIN m.pp_ref /\ DOMAIN m = Fields /\ ~m.panic
  BY DEF Records, ManagedIn
<1>2. /\ DOMAIN n = Fields /\ n.panic = m.panic /\ n.free = m.free /\ n.mem = m.mem
      /\ DOMAIN n.pp_ref = DOMAIN m.pp_ref
      /\ \A q \in DOMAIN m.pp_ref : n.pp_ref[q] = IF q = p THEN m.pp_ref[p] - 1 ELSE m.pp_ref[q]
  BY <1>1 DEF Fields
<1>3. PageDecref(m, p) = IF n.pp_ref[p] = 0 THEN PageFree(n, p) ELSE n
  BY DEF PageDecref
<1> HIDE DEF n
<1>4. n.free \in Seq(ManagedIn(n)) /\ \A k \in DOMAIN n.free : n.free[k] # p
  BY <1>2, ReferredNotFree DEF FreeList, ManagedIn
<1>5. n.pp_ref[p] = m.pp_ref[p] - 1
  BY <1>1, <1>2
<1>6. CASE m.pp_ref[p] = 1
  <2>1. PageDecref(m, p) = PageFree(n, p) /\ n.pp_ref[p] = 0
    BY <1>3, <1>5, <1>6
  <2>2. /\ DOMAIN PageFree(n, p) = Fields /\ ~PageFree(n, p).panic
        /\ PageFree(n, p).pp_ref = n.pp_ref /\ PageFree(n, p).free = <<p>> \o n.free
        /\ PageFree(n, p).mem = [q \in (DOMAIN n.mem) \ {p} |-> n.mem[q]]
    BY <1>1, <1>2, <1>4, <2>1, FreeFields
  <2> QED BY <1>2, <1>6, <2>1, <2>2 DEF Decreffed
<1>7. CASE m.pp_ref[p] # 1
  <2>1. PageDecref(m, p) = n
    BY <1>1, <1>3, <1>5, <1>7
  <2> QED BY <1>1, <1>2, <1>7, <2>1 DEF Decreffed
<1> QED BY <1>6, <1>7

(* The elements of r are p and then those of s.                              *)
IsPushed(r, p, s) ==
    \A k \in DOMAIN r :
       \/ k = 1 /\ r[k] = p
       \/ k \in Nat /\ k - 1 \in DOMAIN s /\ r[k] = s[k - 1]

(* A sequence with one more element in front.                                *)
LEMMA Pushed ==
    ASSUME NEW S, NEW s \in Seq(S), NEW p \in S, NEW r, r = <<p>> \o s
    PROVE  r \in Seq(S) /\ IsPushed(r, p, s)
<1>1. <<p>> \in Seq(S) /\ Len(<<p>>) = 1 /\ <<p>>[1] = p
  OBVIOUS
<1>2. r \in Seq(S) /\ Len(r) = 1 + Len(s)
  BY <1>1, ConcatProperties
<1>3. DOMAIN r = 1..(1 + Len(s)) /\ DOMAIN s = 1..Len(s) /\ Len(s) \in Nat
  BY <1>2, LenProperties
<1>4. \A k \in 1..(1 + Len(s)) : r[k] = IF k <= 1 THEN <<p>>[k] ELSE s[k - 1]
  BY <1>1, ConcatProperties
<1>5. ASSUME NEW k \in 1..(1 + Len(s))
      PROVE  \/ k = 1 /\ r[k] = p
             \/ k \in Nat /\ k - 1 \in 1..Len(s) /\ r[k] = s[k - 1]
  <2>1. CASE k = 1
    BY <1>1, <1>3, <1>4, <2>1
  <2>2. CASE k # 1
    <3>1. k \in Nat /\ k - 1 \in 1..Len(s) /\ ~(k <= 1)
      BY <1>3, <2>2
    <3> QED BY <1>4, <3>1
  <2> QED BY <2>1, <2>2
<1>6. IsPushed(r, p, s)
  <2> SUFFICES ASSUME NEW k \in DOMAIN r
               PROVE  \/ k = 1 /\ r[k] = p
                      \/ k \in Nat /\ k - 1 \in DOMAIN s /\ r[k] = s[k - 1]
    BY DEF IsPushed
  <2>1. k \in 1..(1 + Len(s))
    BY <1>3
  <2> QED BY <1>3, <1>5, <2>1, Zenon
<1> QED BY <1>2, <1>6

(* What the allocator and the counts do to the pages that are idle.          *)
IdleSame(m, n) == DOMAIN n.pp_ref = DOMAIN m.pp_ref /\ Idle(n) = Idle(m)

(* A page that is allocated is idle until it is counted.                     *)
LEMMA IdleAlloc ==
    ASSUME NEW m, Records(m), FreeList(m), m.free # <<>>, NEW p, p = Head(m.free)
    PROVE  /\ DOMAIN PageAlloc(m).pp_ref = DOMAIN m.pp_ref
           /\ Idle(PageAlloc(m)) = Idle(m) \union {p}
           /\ p \in ManagedIn(m) \ Idle(m) /\ m.pp_ref[p] = 0
<1> DEFINE a == PageAlloc(m)
<1>1. a.pp_ref = m.pp_ref /\ a.free = Tail(m.free)
  BY AllocFields DEF Records
<1>2. /\ p = m.free[1] /\ 1 \in DOMAIN m.free
      /\ \A k \in DOMAIN Tail(m.free) : /\ k + 1 \in DOMAIN m.free
                                        /\ Tail(m.free)[k] = m.free[k + 1]
                                        /\ k \in Nat
  BY TailOfFree
<1>3. p \in ManagedIn(m) /\ m.pp_ref[p] = 0
  BY <1>2 DEF FreeList
<1> HIDE DEF a
<1>4. ASSUME NEW q
      PROVE  (\A k \in DOMAIN a.free : a.free[k] # q) <=>
                q = p \/ \A k \in DOMAIN m.free : m.free[k] # q
  <2>1. ASSUME q = p, NEW k \in DOMAIN a.free PROVE a.free[k] # q
    <3>1. k + 1 \in DOMAIN m.free /\ a.free[k] = m.free[k + 1] /\ k + 1 # 1
      BY <1>1, <1>2, <2>1
    <3> QED BY <1>2, <2>1, <3>1 DEF FreeList
  <2>2. ASSUME NEW k \in DOMAIN m.free, m.free[k] = q, q # p
        PROVE  \E l \in DOMAIN a.free : a.free[l] = q
    <3>1. m.free \in Seq(ManagedIn(m)) /\ k # 1
      BY <1>2, <2>2 DEF FreeList
    <3>2. k - 1 \in DOMAIN a.free /\ a.free[k - 1] = m.free[k]
      BY <1>1, <2>2, <3>1
    <3> QED BY <2>2, <3>2
  <2>3. ASSUME \A k \in DOMAIN m.free : m.free[k] # q, NEW k \in DOMAIN a.free
        PROVE  a.free[k] # q
    BY <1>1, <1>2, <2>3
  <2> QED BY <2>1, <2>2, <2>3
<1>5. Idle(a) = Idle(m) \union {p}
  BY <1>1, <1>3, <1>4 DEF Idle, ManagedIn
<1>6. p \notin Idle(m)
  BY <1>2 DEF Idle
<1> QED BY <1>1, <1>3, <1>5, <1>6 DEF a

(* page_decref() makes no page idle: the one it forgets is free.             *)
LEMMA IdleDecref ==
    ASSUME NEW m, NEW n, Records(m), FreeList(m),
           NEW p \in ManagedIn(m), m.pp_ref[p] # 0, Decreffed(m, n, p)
    PROVE  IdleSame(m, n)
<1>1. /\ DOMAIN n.pp_ref = DOMAIN m.pp_ref /\ ManagedIn(n) = ManagedIn(m)
      /\ \A q \in ManagedIn(m) : n.pp_ref[q] = IF q = p THEN m.pp_ref[p] - 1 ELSE m.pp_ref[q]
      /\ n.free = IF m.pp_ref[p] = 1 THEN <<p>> \o m.free ELSE m.free
  BY DEF Decreffed, ManagedIn
<1>2. m.pp_ref[p] \in Nat
  BY DEF Records
<1>3. ASSUME NEW q \in ManagedIn(m) PROVE q \in Idle(n) <=> q \in Idle(m)
  <2>1. CASE m.pp_ref[p] # 1
    <3>1. n.pp_ref[q] = 0 <=> m.pp_ref[q] = 0
      BY <1>1, <1>2, <2>1
    <3> QED BY <1>1, <2>1, <3>1 DEF Idle
  <2>2. CASE m.pp_ref[p] = 1
    <3>1. n.free = <<p>> \o m.free /\ m.free \in Seq(ManagedIn(m))
      BY <1>1, <2>2 DEF FreeList
    <3>2. IsPushed(n.free, p, m.free)
      BY <3>1, Pushed
    <3>3. /\ 1 \in DOMAIN n.free /\ n.free[1] = p
          /\ \A k \in DOMAIN m.free : k + 1 \in DOMAIN n.free /\ n.free[k + 1] = m.free[k]
      BY <3>1
    <3>4. CASE q = p
      BY <2>2, <3>3, <3>4 DEF Idle
    <3>5. CASE q # p
      <4>1. n.pp_ref[q] = m.pp_ref[q]
        BY <1>1, <3>5
      <4>2. (\A k \in DOMAIN n.free : n.free[k] # q) <=> (\A k \in DOMAIN m.free : m.free[k] # q)
        BY <3>2, <3>3, <3>5 DEF IsPushed
      <4> QED BY <1>1, <4>1, <4>2 DEF Idle
    <3> QED BY <3>4, <3>5
  <2> QED BY <2>1, <2>2
<1>4. Idle(n) \subseteq ManagedIn(m) /\ Idle(m) \subseteq ManagedIn(m)
  BY <1>1 DEF Idle
<1> QED BY <1>1, <1>3, <1>4 DEF IdleSame

(* A page that is counted is idle no more.                                   *)
LEMMA IdleCounted ==
    ASSUME NEW m, NEW n, Records(m), NEW p \in ManagedIn(m),
           n.pp_ref = [m.pp_ref EXCEPT ![p] = @ + 1], n.free = m.free
    PROVE  DOMAIN n.pp_ref = DOMAIN m.pp_ref /\ Idle(n) = Idle(m) \ {p}
<1>1. /\ DOMAIN n.pp_ref = DOMAIN m.pp_ref /\ ManagedIn(n) = ManagedIn(m)
      /\ \A q \in ManagedIn(m) : n.pp_ref[q] = IF q = p THEN m.pp_ref[p] + 1 ELSE m.pp_ref[q]
  BY DEF ManagedIn
<1>2. n.pp_ref[p] # 0
  BY <1>1 DEF Records
<1>3. Idle(n) = Idle(m) \ {p}
  BY <1>1, <1>2 DEF Idle
<1> QED BY <1>1, <1>3

LEMMA IdleUnchanged ==
    ASSUME NEW m, NEW n, n.pp_ref = m.pp_ref, n.free = m.free
    PROVE  IdleSame(m, n)
  BY DEF IdleSame, Idle, ManagedIn

(* The free list after page_decref().                                        *)
LEMMA FreeListDecref ==
    ASSUME NEW m, NEW n, Records(m), FreeList(m),
           NEW p \in ManagedIn(m), m.pp_ref[p] # 0, Decreffed(m, n, p),
           DOMAIN n.mem \subseteq DOMAIN m.mem,
           m.pp_ref[p] = 1 => p \notin DOMAIN n.mem
    PROVE  Records(n) /\ FreeList(n) /\ ManagedIn(n) = ManagedIn(m)
<1>1. ManagedIn(n) = ManagedIn(m)
  BY DEF Decreffed, ManagedIn
<1>2. m.pp_ref[p] \in Nat \ {0} /\ p \in DOMAIN m.pp_ref
  BY DEF Records, ManagedIn
<1>3. ASSUME NEW q \in ManagedIn(n) PROVE n.pp_ref[q] \in Nat
  <2>1. m.pp_ref[q] \in Nat /\ q \in DOMAIN m.pp_ref
    BY <1>1, <1>3 DEF Records, ManagedIn
  <2> QED BY <1>2, <2>1 DEF Decreffed
<1>4. Records(n)
  BY <1>3 DEF Records, Decreffed
<1>5. \A k \in DOMAIN m.free : /\ m.free[k] # p /\ n.pp_ref[m.free[k]] = 0
                               /\ m.free[k] \notin DOMAIN n.mem
                               /\ m.free[k] \in DOMAIN m.pp_ref
  <2> SUFFICES ASSUME NEW k \in DOMAIN m.free
               PROVE  /\ m.free[k] # p /\ n.pp_ref[m.free[k]] = 0
                      /\ m.free[k] \notin DOMAIN n.mem /\ m.free[k] \in DOMAIN m.pp_ref
    OBVIOUS
  <2>1. m.pp_ref[m.free[k]] = 0 /\ m.free[k] \notin DOMAIN m.mem
    BY DEF FreeList
  <2>2. m.free[k] \in ManagedIn(m)
    BY DEF FreeList
  <2> QED BY <2>1, <2>2 DEF Decreffed, ManagedIn
<1>6. FreeList(n)
  <2>1. CASE m.pp_ref[p] = 1
    <3>1. n.free = <<p>> \o m.free /\ n.pp_ref[p] = 0 /\ p \notin DOMAIN n.mem
      BY <1>2, <2>1 DEF Decreffed
    <3>2. m.free \in Seq(ManagedIn(m))
      BY DEF FreeList
    <3>3. n.free \in Seq(ManagedIn(m))
      BY <3>1, <3>2, Pushed
    <3>4. \A k \in DOMAIN n.free : \/ k = 1 /\ n.free[k] = p
                                   \/ k - 1 \in DOMAIN m.free /\ n.free[k] = m.free[k - 1] /\ k \in Nat
      <4>1. IsPushed(n.free, p, m.free)
        BY <3>1, <3>2, Pushed
      <4> QED BY <4>1 DEF IsPushed
    <3>5. \A k \in DOMAIN n.free : /\ n.pp_ref[n.free[k]] = 0 /\ n.free[k] \notin DOMAIN n.mem
      BY <1>5, <3>1, <3>4
    <3>6. ASSUME NEW k \in DOMAIN n.free, NEW l \in DOMAIN n.free, n.free[k] = n.free[l]
          PROVE  k = l
      <4>1. CASE n.free[k] = p
        BY <1>5, <3>4, <3>6, <4>1
      <4>2. CASE n.free[k] # p
        <5>1. /\ k - 1 \in DOMAIN m.free /\ n.free[k] = m.free[k - 1] /\ k \in Nat
              /\ l - 1 \in DOMAIN m.free /\ n.free[l] = m.free[l - 1] /\ l \in Nat
          BY <3>4, <3>6, <4>2
        <5>2. k - 1 = l - 1
          BY <3>6, <5>1 DEF FreeList
        <5> QED BY <5>1, <5>2
      <4> QED BY <4>1, <4>2
    <3> QED BY <1>1, <3>3, <3>5, <3>6 DEF FreeList
  <2>2. CASE m.pp_ref[p] # 1
    <3>1. n.free = m.free
      BY <2>2 DEF Decreffed
    <3> QED BY <1>1, <1>5, <3>1 DEF FreeList
  <2> QED BY <2>1, <2>2
<1> QED BY <1>1, <1>4, <1>6

(* A page that is held stays out of the free list.                           *)
LEMMA HeldDecref ==
    ASSUME NEW m, NEW n, NEW h, HoldsPage(m, h), Records(m), FreeList(m),
           NEW p \in ManagedIn(m), Decreffed(m, n, p),
           DOMAIN n.mem \subseteq DOMAIN m.mem,
           p = h => m.pp_ref[p] # 1
    PROVE  HoldsPage(n, h)
<1> SUFFICES ASSUME h # 0
             PROVE  /\ h \in ManagedIn(n) \ DOMAIN n.mem
                    /\ \A k \in DOMAIN n.free : n.free[k] # h
  BY DEF HoldsPage
<1>1. h \in ManagedIn(m) \ DOMAIN m.mem /\ \A k \in DOMAIN m.free : m.free[k] # h
  BY DEF HoldsPage
<1>2. h \in ManagedIn(n) \ DOMAIN n.mem
  BY <1>1 DEF Decreffed, ManagedIn
<1>3. CASE m.pp_ref[p] = 1
  <2>1. n.free = <<p>> \o m.free /\ m.free \in Seq(ManagedIn(m)) /\ p # h
    BY <1>3 DEF Decreffed, FreeList
  <2>2. \A k \in DOMAIN n.free : \/ n.free[k] = p
                                 \/ k - 1 \in DOMAIN m.free /\ n.free[k] = m.free[k - 1]
    <3>1. IsPushed(n.free, p, m.free)
      BY <2>1, Pushed
    <3> QED BY <3>1 DEF IsPushed
  <2> QED BY <1>1, <1>2, <2>1, <2>2
<1>4. CASE m.pp_ref[p] # 1
  BY <1>1, <1>2, <1>4 DEF Decreffed
<1> QED BY <1>3, <1>4

-----------------------------------------------------------------------------
(* pgdir_walk() without creation: the entry of an address.                   *)
LEMMA PteSlot ==
    ASSUME NEW m, NEW d, NEW va
    PROVE  /\ HasPte(m, d, va) <=> Present(m, d, PDX(va))
           /\ Pte(m, d, va) = IF Present(m, d, PDX(va)) THEN Slot(m, d, PDX(va), PTX(va)) ELSE Zero
  BY DEF HasPte, Pte, Present, Slot

(* Addresses that differ have different entries.                             *)
LEMMA OtherAddress ==
    ASSUME NEW va \in Nat, NEW u \in Nat, PDX(u) = PDX(va), PTX(u) = PTX(va)
    PROVE  u = va
  BY Address, PagesAssumption

(* Only the mapping of va in d differs, in the address spaces of programs.   *)
SameElsewhere(m, n, D, d, va) ==
    \A b \in LiveIn(D) : \A u \in Nat :
       ValidVa(u) /\ ~(b = d /\ u = va) => Pte(n, b, u) = Pte(m, b, u)
SamePages(m, n) == IdleSame(m, n) /\ DOMAIN n.mem = DOMAIN m.mem

(* SetPte writes one entry of the table.                                     *)
LEMMA SetPteWrites ==
    ASSUME NEW m, DOMAIN m = Fields, NEW d, NEW va, NEW e,
           NEW t, t = TableAt(m, d, PDX(va)), t \in DOMAIN m.mem, PTX(va) \in DOMAIN m.mem[t]
    PROVE  /\ DOMAIN SetPte(m, d, va, e) = Fields
           /\ SetPte(m, d, va, e).pp_ref = m.pp_ref /\ SetPte(m, d, va, e).free = m.free
           /\ SetPte(m, d, va, e).panic = m.panic
           /\ DOMAIN SetPte(m, d, va, e).mem = DOMAIN m.mem
           /\ \A q \in DOMAIN m.mem : DOMAIN SetPte(m, d, va, e).mem[q] = DOMAIN m.mem[q]
           /\ \A q \in DOMAIN m.mem : \A k \in DOMAIN m.mem[q] :
                 SetPte(m, d, va, e).mem[q][k] =
                    IF q = t /\ k = PTX(va) THEN e ELSE m.mem[q][k]
<1>1. SetPte(m, d, va, e) = [m EXCEPT !.mem[t][PTX(va)] = e]
  BY DEF SetPte, TableAt
<1> QED BY <1>1 DEF Fields

(* After a write of one entry, the other addresses map as before.            *)
LEMMA WritePte ==
    ASSUME NEW m, NEW n, NEW D, Structure(m, D), NEW d \in LiveIn(D),
           NEW va \in Nat, ValidVa(va), NEW e,
           SlotWritten(m, n, D, d, PDX(va), PTX(va), e), Present(m, d, PDX(va))
    PROVE  /\ Pte(n, d, va) = e /\ HasPte(n, d, va)
           /\ SameElsewhere(m, n, D, d, va)
<1>1. \A u \in Nat : ValidVa(u) => PDX(u) \in UserPart /\ PTX(u) \in Entries
  BY Address, UserAddress
<1>2. \A b \in LiveIn(D) : \A k \in UserPart : Present(n, b, k) <=> Present(m, b, k)
  BY CountedIs DEF SlotWritten, Present, DirsIn, Structure
<1>3. Present(n, d, PDX(va)) /\ Slot(n, d, PDX(va), PTX(va)) = e
  BY <1>1, <1>2 DEF SlotWritten
<1>4. ASSUME NEW b \in LiveIn(D), NEW u \in Nat, ValidVa(u), ~(b = d /\ u = va)
      PROVE  Pte(n, b, u) = Pte(m, b, u)
  <2>1. ~(b = d /\ PDX(u) = PDX(va) /\ PTX(u) = PTX(va))
    BY <1>4, OtherAddress
  <2>2. Present(m, b, PDX(u)) => Slot(n, b, PDX(u), PTX(u)) = Slot(m, b, PDX(u), PTX(u))
    BY <1>1, <1>4, <2>1 DEF SlotWritten
  <2>3. Present(n, b, PDX(u)) <=> Present(m, b, PDX(u))
    BY <1>1, <1>2, <1>4
  <2> QED BY <2>2, <2>3, PteSlot
<1> QED BY <1>3, <1>4, PteSlot DEF SameElsewhere

(* A page that a program maps is counted, besides the one that is held.      *)
LEMMA MappedIsCounted ==
    ASSUME NEW m, NEW D, NEW h, RefsCounted(m, D, h), NEW p \in ManagedIn(m),
           NEW x \in MapRefs(m, D, p)
    PROVE  m.pp_ref[p] \in Nat /\ m.pp_ref[p] > Held(h, p)
<1>1. Cardinality(MapRefs(m, D, p)) # 0
  BY RefsFinite, FS_EmptySet
<1>2. m.pp_ref[p] = Cardinality(MapRefs(m, D, p)) + Cardinality(TabRefs(m, D, p))
                     + Cardinality(EnvRefs(D, p)) + Held(h, p)
  BY DEF RefsCounted
<1>3. Held(h, p) \in Nat
  BY DEF Held
<1>4. /\ Cardinality(MapRefs(m, D, p)) \in Nat /\ Cardinality(TabRefs(m, D, p)) \in Nat
      /\ Cardinality(EnvRefs(D, p)) \in Nat
  BY RefsFinite
<1> QED BY <1>1, <1>2, <1>3, <1>4

-----------------------------------------------------------------------------
(* page_remove().                                                            *)

(* It removes one mapping, with its reference.                               *)
LEMMA RemoveInv ==
    ASSUME NEW m, NEW D, NEW h, MemoryInv(m, D, h),
           NEW d \in LiveIn(D), NEW va \in Nat, ValidVa(va),
           NEW n, n = PageRemove(m, d, va)
    PROVE  /\ MemoryInv(n, D, h) /\ SamePages(m, n)
           /\ Pte(n, d, va) = Zero /\ (HasPte(n, d, va) <=> HasPte(m, d, va))
           /\ SameElsewhere(m, n, D, d, va)
           /\ \A b \in DirsIn(D) : \A k \in 0..(NPD-1) : n.mem[b][k] = m.mem[b][k]
<1> DEFINE i == PDX(va)
           j == PTX(va)
           pte == Pte(m, d, va)
           q == pte.page
           t == TableAt(m, d, i)
           w == PageDecref(m, q)
<1>1. CASE pte = Zero
  <2>1. n = m
    BY <1>1 DEF PageRemove
  <2> QED BY <1>1, <2>1 DEF SamePages, IdleSame, SameElsewhere
<1>2. CASE pte # Zero
  <2>1. n = SetPte(w, d, va, Zero)
    BY <1>2 DEF PageRemove
  <2>2. i \in UserPart /\ j \in Entries
    BY Address, UserAddress
  <2>3. Present(m, d, i) /\ pte = Slot(m, d, i, j) /\ Slot(m, d, i, j) # Zero
    BY <1>2, PteSlot
  <2> HIDE DEF i, j, pte, w
  <2>4. /\ Records(m) /\ FreeList(m) /\ Structure(m, D) /\ HoldsPage(m, h) /\ RefsCounted(m, D, h)
    BY DEF MemoryInv, Structure
  <2>5. q \in ManagedIn(m) \ DOMAIN m.mem
    BY <2>2, <2>3, <2>4 DEF Structure, UserTablesOK
  <2>6. <<<<d, i>>, j>> \in MapRefs(m, D, q)
    BY <2>2, <2>3, MapRefsHave
  <2> HIDE DEF q
  <2>7. m.pp_ref[q] \in Nat /\ m.pp_ref[q] > Held(h, q)
    BY <2>4, <2>5, <2>6, MappedIsCounted
  <2>8. m.pp_ref[q] # 0 /\ (q = h => m.pp_ref[q] # 1)
    BY <2>7 DEF Held
  <2>9. /\ Decreffed(m, w, q)
        /\ DOMAIN w.mem = (DOMAIN m.mem) \ (IF m.pp_ref[q] = 1 THEN {q} ELSE {})
        /\ \A a \in DOMAIN w.mem : w.mem[a] = m.mem[a]
    BY <2>4, <2>5, <2>8, DecrefFields DEF w
  <2>10. DOMAIN w.mem = DOMAIN m.mem
    BY <2>5, <2>9
  <2>11. t \in DOMAIN m.mem /\ DOMAIN m.mem[t] = Entries /\ d \in DOMAIN m.mem
    BY <2>2, <2>3, <2>4, SlotAt
  <2>12. TableAt(w, d, i) = t
    BY <2>9, <2>10, <2>11 DEF TableAt
  <2> HIDE DEF t
  <2>13. DOMAIN w = Fields /\ ~w.panic
    BY <2>9 DEF Decreffed
  <2>14. /\ DOMAIN n = Fields
         /\ n.pp_ref = w.pp_ref /\ n.free = w.free /\ n.panic = w.panic
         /\ DOMAIN n.mem = DOMAIN w.mem
         /\ \A a \in DOMAIN w.mem : DOMAIN n.mem[a] = DOMAIN w.mem[a]
         /\ \A a \in DOMAIN w.mem : \A k \in DOMAIN w.mem[a] :
               n.mem[a][k] = IF a = t /\ k = j THEN Zero ELSE w.mem[a][k]
    BY <2>1, <2>2, <2>9, <2>10, <2>11, <2>12, <2>13, SetPteWrites DEF i, j
  <2>15. Wrote(m, n, t, j, Zero)
    BY <2>9, <2>10, <2>13, <2>14 DEF Wrote, Decreffed
  <2>16. Decreffed(m, n, q)
    BY <2>9, <2>13, <2>14 DEF Decreffed
  <2>17. EntryOK(m, Zero)
    BY DEF EntryOK
  <2>18. Structure(n, D) /\ SlotWritten(m, n, D, d, i, j, Zero)
    BY <2>2, <2>3, <2>4, <2>15, <2>17, WriteSlot DEF t
  <2>19. DOMAIN n.mem = DOMAIN m.mem
    BY <2>10, <2>14
  <2>20. Records(n) /\ FreeList(n) /\ ManagedIn(n) = ManagedIn(m)
    BY <2>4, <2>5, <2>8, <2>16, <2>19, FreeListDecref
  <2>21. HoldsPage(n, h)
    BY <2>4, <2>5, <2>8, <2>16, <2>19, HeldDecref
  <2>22. RefsCounted(n, D, h)
    <3> SUFFICES ASSUME NEW p \in ManagedIn(m)
                 PROVE  n.pp_ref[p] = Cardinality(MapRefs(n, D, p)) + Cardinality(TabRefs(n, D, p))
                                      + Cardinality(EnvRefs(D, p)) + Held(h, p)
      BY <2>20 DEF RefsCounted
    <3>1. /\ TabRefs(n, D, p) = TabRefs(m, D, p)
          /\ MapRefs(n, D, p) = MapRefs(m, D, p) \ {<<<<d, i>>, j>>}
      <4>1. /\ TabRefs(n, D, p) = TabRefs(m, D, p)
            /\ MapRefs(n, D, p) = RefsAfter(MapRefs(m, D, p), <<<<d, i>>, j>>, Zero, p)
        BY <2>2, <2>3, <2>4, <2>15, <2>17, WriteSlotRefs DEF t
      <4> QED BY <4>1 DEF RefsAfter
    <3>2. <<<<d, i>>, j>> \in MapRefs(m, D, p) <=> p = q
      BY <2>2, <2>3, <2>6, MapRefsHave DEF q
    <3>3. Cardinality(MapRefs(n, D, p)) = Cardinality(MapRefs(m, D, p)) - (IF p = q THEN 1 ELSE 0)
      <4>1. IsFiniteSet(MapRefs(m, D, p)) /\ Cardinality(MapRefs(m, D, p)) \in Nat
        BY RefsFinite
      <4>2. Cardinality(MapRefs(m, D, p) \ {<<<<d, i>>, j>>}) =
               IF <<<<d, i>>, j>> \in MapRefs(m, D, p) THEN Cardinality(MapRefs(m, D, p)) - 1
               ELSE Cardinality(MapRefs(m, D, p))
        BY <4>1, FS_RemoveElement
      <4> QED BY <3>1, <3>2, <4>1, <4>2
    <3>4. m.pp_ref[p] = Cardinality(MapRefs(m, D, p)) + Cardinality(TabRefs(m, D, p))
                         + Cardinality(EnvRefs(D, p)) + Held(h, p)
      BY <2>4 DEF RefsCounted
    <3>5. n.pp_ref[p] = m.pp_ref[p] - (IF p = q THEN 1 ELSE 0)
      BY <2>7, <2>16, <2>4 DEF Decreffed, ManagedIn, Records
    <3>6. Held(h, p) \in Nat
      BY DEF Held
    <3> QED BY <3>1, <3>3, <3>4, <3>5, <3>6, RefsFinite
  <2>23. MemoryInv(n, D, h)
    BY <2>18, <2>20, <2>21, <2>22 DEF MemoryInv, Structure
  <2>24. Pte(n, d, va) = Zero /\ HasPte(n, d, va) /\ SameElsewhere(m, n, D, d, va)
    BY <2>3, <2>4, <2>18, WritePte DEF i, j
  <2>25. HasPte(m, d, va)
    BY <2>3, PteSlot DEF i
  <2>26. \A b \in DirsIn(D) : \A k \in 0..(NPD-1) : n.mem[b][k] = m.mem[b][k]
    BY <2>18 DEF SlotWritten
  <2>27. IdleSame(m, n)
    BY <2>4, <2>5, <2>8, <2>16, IdleDecref
  <2> QED BY <2>19, <2>23, <2>24, <2>25, <2>26, <2>27 DEF SamePages
<1> QED BY <1>1, <1>2

-----------------------------------------------------------------------------
(* pgdir_walk() that creates the table.                                      *)

TableEntry(t) == [page |-> t, perm |-> {"P", "W", "U"}]

(* The memory after t became the table at entry i of the directory d.        *)
LEMMA WalkFields ==
    ASSUME NEW m, DOMAIN m = Fields, NEW d \in DOMAIN m.mem, NEW va,
           ~HasPte(m, d, va), m.free # <<>>,
           NEW t, t = Head(m.free), t \in DOMAIN m.pp_ref, t \notin DOMAIN m.mem,
           PDX(va) \in DOMAIN m.mem[d],
           NEW n, n = WalkCreate(m, d, va)
    PROVE  /\ DOMAIN n = Fields /\ n.panic = m.panic /\ n.free = Tail(m.free)
           /\ n.pp_ref = [m.pp_ref EXCEPT ![t] = @ + 1]
           /\ DOMAIN n.mem = (DOMAIN m.mem) \union {t}
           /\ n.mem[t] = Table(NPT)
           /\ \A q \in DOMAIN m.mem : DOMAIN n.mem[q] = DOMAIN m.mem[q]
           /\ \A q \in DOMAIN m.mem : \A k \in DOMAIN m.mem[q] :
                 n.mem[q][k] = IF q = d /\ k = PDX(va) THEN TableEntry(t) ELSE m.mem[q][k]
<1> DEFINE a == PageAlloc(m)
           x == [m.mem EXCEPT ![d][PDX(va)] = TableEntry(t)]
           y == WithTable(x, t, Table(NPT))
<1>1. /\ DOMAIN a = Fields /\ a.pp_ref = m.pp_ref /\ a.mem = m.mem
      /\ a.panic = m.panic /\ a.free = Tail(m.free)
  BY AllocFields
<1>2. n = [a EXCEPT !.pp_ref[t] = @ + 1,
                    !.mem = WithTable([@ EXCEPT ![d][PDX(va)] = TableEntry(t)], t, Table(NPT))]
  BY DEF WalkCreate, TableEntry
<1> HIDE DEF a
<1>3. /\ DOMAIN n = Fields /\ n.panic = a.panic /\ n.free = a.free
      /\ n.pp_ref = [a.pp_ref EXCEPT ![t] = @ + 1]
      /\ n.mem = WithTable([a.mem EXCEPT ![d][PDX(va)] = TableEntry(t)], t, Table(NPT))
  BY <1>1, <1>2 DEF Fields
<1>4. n.mem = y
  BY <1>1, <1>3
<1>5. /\ DOMAIN x = DOMAIN m.mem
      /\ \A q \in DOMAIN m.mem : DOMAIN x[q] = DOMAIN m.mem[q]
      /\ \A q \in DOMAIN m.mem : \A k \in DOMAIN m.mem[q] :
            x[q][k] = IF q = d /\ k = PDX(va) THEN TableEntry(t) ELSE m.mem[q][k]
  OBVIOUS
<1> HIDE DEF x
<1>6. /\ DOMAIN y = (DOMAIN x) \union {t} /\ y[t] = Table(NPT)
      /\ \A q \in DOMAIN x : q # t => y[q] = x[q]
  BY DEF WithTable
<1> HIDE DEF y
<1>7. DOMAIN n.mem = (DOMAIN m.mem) \union {t} /\ n.mem[t] = Table(NPT)
  BY <1>4, <1>5, <1>6
<1>8. \A q \in DOMAIN m.mem : n.mem[q] = x[q]
  BY <1>4, <1>5, <1>6
<1>9. /\ \A q \in DOMAIN m.mem : DOMAIN n.mem[q] = DOMAIN m.mem[q]
      /\ \A q \in DOMAIN m.mem : \A k \in DOMAIN m.mem[q] :
            n.mem[q][k] = IF q = d /\ k = PDX(va) THEN TableEntry(t) ELSE m.mem[q][k]
  BY <1>5, <1>8
<1>10. /\ DOMAIN n = Fields /\ n.panic = m.panic /\ n.free = Tail(m.free)
       /\ n.pp_ref = [m.pp_ref EXCEPT ![t] = @ + 1]
  BY <1>1, <1>3
<1> QED BY <1>7, <1>9, <1>10

(* A fresh page becomes the table of an empty entry.                         *)
TableAddedAt(m, n, d, i, t) ==
    /\ DOMAIN n = Fields /\ n.panic = m.panic /\ n.free = m.free
    /\ n.pp_ref = [m.pp_ref EXCEPT ![t] = @ + 1]
    /\ DOMAIN n.mem = (DOMAIN m.mem) \union {t}
    /\ n.mem[t] = Table(NPT)
    /\ \A q \in DOMAIN m.mem : DOMAIN n.mem[q] = DOMAIN m.mem[q]
    /\ \A q \in DOMAIN m.mem : \A k \in DOMAIN m.mem[q] :
          n.mem[q][k] = IF q = d /\ k = i THEN TableEntry(t) ELSE m.mem[q][k]

(* The entries of directories and of tables then.                            *)
TableSeen(m, n, D, d, i, t) ==
    /\ \A b \in DirsIn(D) :
          /\ b \in DOMAIN n.mem /\ DOMAIN n.mem[b] = DOMAIN m.mem[b]
          /\ \A k \in 0..(NPD-1) :
                n.mem[b][k] = IF b = d /\ k = i THEN TableEntry(t) ELSE m.mem[b][k]
    /\ Present(n, d, i) /\ TableAt(n, d, i) = t
    /\ \A l \in Entries : Slot(n, d, i, l) = Zero
    /\ \A b \in LiveIn(D) : \A k \in UserPart : ~(b = d /\ k = i) =>
          /\ Present(n, b, k) <=> Present(m, b, k)
          /\ TableAt(n, b, k) = TableAt(m, b, k)
          /\ Present(m, b, k) => \A l \in Entries : Slot(n, b, k, l) = Slot(m, b, k, l)

LEMMA TableAddedView ==
    ASSUME NEW m, NEW n, NEW D, Structure(m, D), NEW d \in LiveIn(D), NEW i \in UserPart,
           ~Present(m, d, i), NEW t \in ManagedIn(m) \ DOMAIN m.mem, TableAddedAt(m, n, d, i, t)
    PROVE  TableSeen(m, n, D, d, i, t)
<1>1. ASSUME NEW b \in DirsIn(D)
      PROVE  /\ b \in DOMAIN n.mem /\ DOMAIN n.mem[b] = DOMAIN m.mem[b]
             /\ \A k \in 0..(NPD-1) :
                   n.mem[b][k] = IF b = d /\ k = i THEN TableEntry(t) ELSE m.mem[b][k]
  <2>1. b \in DOMAIN m.mem /\ DOMAIN m.mem[b] = 0..(NPD-1)
    BY DEF Structure, Directories
  <2> QED BY <2>1 DEF TableAddedAt
<1>2. \A b \in LiveIn(D) : b \in DirsIn(D)
  BY DEF DirsIn
<1>3. UserPart \subseteq 0..(NPD-1)
  BY CountedIs DEF Structure
<1>4. n.mem[d][i] = TableEntry(t)
  BY <1>1, <1>2, <1>3
<1>5. t # 0
  BY DEF ManagedIn
<1>6. TableEntry(t) # Zero /\ TableEntry(t).page = t
  BY <1>5 DEF TableEntry, Zero
<1>7. Present(n, d, i) /\ TableAt(n, d, i) = t
  BY <1>4, <1>6 DEF Present, TableAt
<1>8. \A l \in Entries : Slot(n, d, i, l) = Zero
  <2>1. \A l \in Entries : n.mem[t][l] = Zero
    BY DEF TableAddedAt, Table, Entries
  <2> QED BY <1>7, <2>1 DEF Slot, TableAt
<1>9. ASSUME NEW b \in LiveIn(D), NEW k \in UserPart, ~(b = d /\ k = i)
      PROVE  /\ Present(n, b, k) <=> Present(m, b, k)
             /\ TableAt(n, b, k) = TableAt(m, b, k)
             /\ Present(m, b, k) => \A l \in Entries : Slot(n, b, k, l) = Slot(m, b, k, l)
  <2>1. n.mem[b][k] = m.mem[b][k]
    BY <1>1, <1>2, <1>3, <1>9
  <2>2. (Present(n, b, k) <=> Present(m, b, k)) /\ TableAt(n, b, k) = TableAt(m, b, k)
    BY <2>1 DEF Present, TableAt
  <2>3. ASSUME Present(m, b, k), NEW l \in Entries PROVE Slot(n, b, k, l) = Slot(m, b, k, l)
    <3>1. /\ TableAt(m, b, k) \in DOMAIN m.mem /\ l \in DOMAIN m.mem[TableAt(m, b, k)]
          /\ TableAt(m, b, k) \notin DirsIn(D)
      BY <2>3, SlotAt
    <3>2. n.mem[TableAt(m, b, k)][l] = m.mem[TableAt(m, b, k)][l]
      BY <1>2, <3>1 DEF TableAddedAt
    <3> QED BY <2>2, <3>2 DEF Slot, TableAt
  <2> QED BY <2>2, <2>3
<1> QED BY <1>1, <1>7, <1>8, <1>9 DEF TableSeen

(* The invariant then.                                                       *)
LEMMA TableAddedInv ==
    ASSUME NEW m, NEW n, NEW D, NEW h, MemoryInv(m, D, h), NEW d \in LiveIn(D), NEW i \in UserPart,
           ~Present(m, d, i), NEW t, Fresh(m, D, t), t # h, TableAddedAt(m, n, d, i, t)
    PROVE  MemoryInv(n, D, h)
<1>1. /\ Records(m) /\ FreeList(m) /\ Structure(m, D) /\ HoldsPage(m, h) /\ RefsCounted(m, D, h)
  BY DEF MemoryInv, Structure
<1>2. /\ t \in ManagedIn(m) \ DOMAIN m.mem /\ m.pp_ref[t] = 0
      /\ \A k \in DOMAIN m.free : m.free[k] # t
      /\ MapRefs(m, D, t) = {} /\ TabRefs(m, D, t) = {} /\ EnvRefs(D, t) = {}
  BY DEF Fresh
<1>3. /\ \A b \in DirsIn(D) :
            /\ b \in DOMAIN n.mem /\ DOMAIN n.mem[b] = DOMAIN m.mem[b]
            /\ \A k \in 0..(NPD-1) :
                  n.mem[b][k] = IF b = d /\ k = i THEN TableEntry(t) ELSE m.mem[b][k]
      /\ Present(n, d, i) /\ TableAt(n, d, i) = t
      /\ \A l \in Entries : Slot(n, d, i, l) = Zero
      /\ \A b \in LiveIn(D) : \A k \in UserPart : ~(b = d /\ k = i) =>
            /\ Present(n, b, k) <=> Present(m, b, k)
            /\ TableAt(n, b, k) = TableAt(m, b, k)
            /\ Present(m, b, k) => \A l \in Entries : Slot(n, b, k, l) = Slot(m, b, k, l)
  <2>1. TableSeen(m, n, D, d, i, t)
    BY <1>1, <1>2, TableAddedView
  <2> QED BY <2>1 DEF TableSeen
<1>4. /\ DOMAIN n = Fields /\ n.panic = m.panic /\ n.free = m.free
      /\ DOMAIN n.pp_ref = DOMAIN m.pp_ref
      /\ \A q \in DOMAIN m.pp_ref : n.pp_ref[q] = IF q = t THEN m.pp_ref[t] + 1 ELSE m.pp_ref[q]
      /\ DOMAIN n.mem = (DOMAIN m.mem) \union {t}
  BY DEF TableAddedAt
<1>5. ManagedIn(n) = ManagedIn(m)
  BY <1>4 DEF ManagedIn
<1>6. /\ \A b \in LiveIn(D) : Counted(b) = UserPart /\ b # kern_pgdir /\ b \in DirsIn(D)
      /\ \A b \in DirsIn(D) : Counted(b) \subseteq 0..(NPD-1)
      /\ UserPart \subseteq 0..(NPD-1)
  BY <1>1, CountedIs DEF Structure, DirsIn
<1>7. Records(n)
  BY <1>1, <1>2, <1>4, <1>5 DEF Records, ManagedIn
<1>8. FreeList(n)
  <2>1. ASSUME NEW k \in DOMAIN m.free
        PROVE  n.pp_ref[m.free[k]] = 0 /\ m.free[k] \notin DOMAIN n.mem
    <3>1. m.free[k] \in ManagedIn(m) /\ m.pp_ref[m.free[k]] = 0 /\ m.free[k] \notin DOMAIN m.mem
      BY <1>1 DEF FreeList
    <3> QED BY <1>2, <1>4, <3>1 DEF ManagedIn
  <2> QED BY <1>1, <1>4, <1>5, <2>1 DEF FreeList
<1>9. Directories(n, D)
  <2>1. \A b \in DirsIn(D) : \A k \in 0..(NPD-1) :
           b = kern_pgdir \/ k \notin UserPart => n.mem[b][k] = m.mem[b][k]
    BY <1>3, <1>6
  <2> QED BY <1>1, <1>3, <1>4, <2>1, DirectoriesKept DEF Structure
<1>10. \A b \in DirsIn(D) : \A k \in 0..(NPD-1) :
          ~(b = d /\ k = i) => /\ Present(n, b, k) <=> Present(m, b, k)
                               /\ TableAt(n, b, k) = TableAt(m, b, k)
  BY <1>3 DEF Present, TableAt
<1>11. TablesApart(n, D)
  <2> SUFFICES ASSUME NEW b \in DirsIn(D), NEW k \in Counted(b), Present(n, b, k)
               PROVE  /\ TableAt(n, b, k) \in (DOMAIN n.mem) \ DirsIn(D)
                      /\ \A c \in DirsIn(D) : \A l \in Counted(c) :
                            Present(n, c, l) /\ TableAt(n, c, l) = TableAt(n, b, k) => c = b /\ l = k
    BY DEF TablesApart
  <2>1. ASSUME NEW c \in DirsIn(D), NEW l \in Counted(c), Present(n, c, l), ~(c = d /\ l = i)
        PROVE  /\ Present(m, c, l) /\ TableAt(n, c, l) = TableAt(m, c, l)
               /\ TableAt(n, c, l) \in (DOMAIN m.mem) \ DirsIn(D) /\ TableAt(n, c, l) # t
    <3>1. Present(m, c, l) /\ TableAt(n, c, l) = TableAt(m, c, l)
      BY <1>6, <1>10, <2>1
    <3>2. TableAt(m, c, l) \in (DOMAIN m.mem) \ DirsIn(D)
      BY <1>1, <3>1 DEF Structure, TablesApart
    <3> QED BY <1>2, <3>1, <3>2
  <2>2. t \notin DirsIn(D)
    BY <1>1, <1>2 DEF Structure, Directories
  <2>3. TableAt(n, b, k) \in (DOMAIN n.mem) \ DirsIn(D)
    BY <1>3, <1>4, <2>1, <2>2
  <2>4. ASSUME NEW c \in DirsIn(D), NEW l \in Counted(c), Present(n, c, l),
               TableAt(n, c, l) = TableAt(n, b, k)
        PROVE  c = b /\ l = k
    <3>1. CASE b = d /\ k = i
      BY <1>3, <2>1, <2>4, <3>1
    <3>2. CASE ~(b = d /\ k = i)
      <4>1. ~(c = d /\ l = i)
        BY <1>3, <2>1, <2>4, <3>2
      <4> QED BY <1>1, <2>1, <2>4, <3>2, <4>1 DEF Structure, TablesApart
    <3> QED BY <3>1, <3>2
  <2> QED BY <2>3, <2>4
<1>12. UserTablesOK(n, D)
  <2> SUFFICES ASSUME NEW b \in LiveIn(D), NEW k \in UserPart, Present(n, b, k)
               PROVE  /\ TableAt(n, b, k) \in ManagedIn(n)
                      /\ DOMAIN n.mem[TableAt(n, b, k)] = Entries
                      /\ \A l \in Entries : Slot(n, b, k, l) # Zero =>
                            Slot(n, b, k, l).page \in ManagedIn(n) \ DOMAIN n.mem
    BY DEF UserTablesOK
  <2>1. CASE b = d /\ k = i
    <3>1. DOMAIN n.mem[t] = Entries
      BY DEF TableAddedAt, Table, Entries
    <3> QED BY <1>2, <1>3, <1>5, <2>1, <3>1
  <2>2. CASE ~(b = d /\ k = i)
    <3>1. Present(m, b, k) /\ TableAt(n, b, k) = TableAt(m, b, k)
      BY <1>3, <2>2
    <3>2. TableAt(m, b, k) \in DOMAIN m.mem /\ DOMAIN m.mem[TableAt(m, b, k)] = Entries
      BY <1>1, <3>1, SlotAt
    <3>3. DOMAIN n.mem[TableAt(n, b, k)] = Entries
      BY <3>1, <3>2 DEF TableAddedAt
    <3>4. TableAt(n, b, k) \in ManagedIn(n)
      BY <1>1, <1>5, <3>1 DEF Structure, UserTablesOK
    <3>5. ASSUME NEW l \in Entries, Slot(n, b, k, l) # Zero
          PROVE  Slot(n, b, k, l).page \in ManagedIn(n) \ DOMAIN n.mem
      <4>1. Slot(n, b, k, l) = Slot(m, b, k, l)
        BY <1>3, <2>2, <3>1
      <4>2. Slot(m, b, k, l).page \in ManagedIn(m) \ DOMAIN m.mem
        BY <1>1, <3>1, <3>5, <4>1 DEF Structure, UserTablesOK
      <4>3. Slot(m, b, k, l).page # t
        <5>1. <<<<b, k>>, l>> \in MapRefs(m, D, t) <=>
                 Present(m, b, k) /\ Slot(m, b, k, l) # Zero /\ Slot(m, b, k, l).page = t
          BY MapRefsHave
        <5> QED BY <1>2, <3>1, <3>5, <4>1, <5>1
      <4> QED BY <1>4, <1>5, <4>1, <4>2, <4>3
    <3> QED BY <3>3, <3>4, <3>5
  <2> QED BY <2>1, <2>2
<1>13. HoldsPage(n, h)
  BY <1>1, <1>4, <1>5 DEF HoldsPage
<1>14. \A p : MapRefs(n, D, p) = MapRefs(m, D, p)
  <2> SUFFICES ASSUME NEW p, NEW x \in (LiveIn(D) \X UserPart) \X Entries
               PROVE  x \in MapRefs(n, D, p) <=> x \in MapRefs(m, D, p)
    BY Zenon DEF MapRefs
  <2>1. PICK b \in LiveIn(D), k \in UserPart, l \in Entries : x = <<<<b, k>>, l>>
    OBVIOUS
  <2>2. \A a \in {m, n} : x \in MapRefs(a, D, p) <=>
              Present(a, b, k) /\ Slot(a, b, k, l) # Zero /\ Slot(a, b, k, l).page = p
    BY <2>1, MapRefsHave
  <2> QED BY <1>3, <2>2
<1>15. \A p : TabRefs(n, D, p) = IF p = t THEN {<<d, i>>} ELSE TabRefs(m, D, p)
  <2>1. ASSUME NEW p, NEW x \in DirsIn(D) \X (0..(NPD-1))
        PROVE  x \in TabRefs(n, D, p) <=> x \in IF p = t THEN {<<d, i>>} ELSE TabRefs(m, D, p)
    <3>1. PICK b \in DirsIn(D), k \in 0..(NPD-1) : x = <<b, k>>
      OBVIOUS
    <3>2. \A a \in {m, n} : x \in TabRefs(a, D, p) <=>
                k \in Counted(b) /\ Present(a, b, k) /\ TableAt(a, b, k) = p
      BY <3>1, TabRefsHave
    <3>3. CASE b = d /\ k = i
      BY <1>3, <1>6, <3>1, <3>2, <3>3
    <3>4. CASE ~(b = d /\ k = i)
      <4>1. x \in TabRefs(n, D, p) <=> x \in TabRefs(m, D, p)
        BY <1>10, <3>2, <3>4
      <4>2. x # <<d, i>>
        BY <3>1, <3>4
      <4> QED BY <1>2, <4>1, <4>2
    <3> QED BY <3>3, <3>4
  <2>2. <<d, i>> \in DirsIn(D) \X (0..(NPD-1))
    BY <1>6
  <2>3. ASSUME NEW p PROVE TabRefs(n, D, p) = IF p = t THEN {<<d, i>>} ELSE TabRefs(m, D, p)
    <3>1. /\ TabRefs(n, D, p) \subseteq DirsIn(D) \X (0..(NPD-1))
          /\ TabRefs(m, D, p) \subseteq DirsIn(D) \X (0..(NPD-1))
      BY DEF TabRefs
    <3> QED BY <2>1, <2>2, <3>1
  <2> QED BY <2>3
<1>16. RefsCounted(n, D, h)
  <2> SUFFICES ASSUME NEW p \in ManagedIn(m)
               PROVE  n.pp_ref[p] = Cardinality(MapRefs(n, D, p)) + Cardinality(TabRefs(n, D, p))
                                    + Cardinality(EnvRefs(D, p)) + Held(h, p)
    BY <1>5 DEF RefsCounted
  <2>1. m.pp_ref[p] = Cardinality(MapRefs(m, D, p)) + Cardinality(TabRefs(m, D, p))
                       + Cardinality(EnvRefs(D, p)) + Held(h, p)
    BY <1>1 DEF RefsCounted
  <2>2. CASE p = t
    <3>1. n.pp_ref[p] = 1 /\ Held(h, p) = 0
      BY <1>2, <1>4, <2>2 DEF Held, ManagedIn
    <3>2. Cardinality(MapRefs(n, D, p)) = 0 /\ Cardinality(EnvRefs(D, p)) = 0
      BY <1>2, <1>14, <2>2, FS_EmptySet
    <3>3. Cardinality(TabRefs(n, D, p)) = 1
      BY <1>15, <2>2, FS_Singleton
    <3> QED BY <3>1, <3>2, <3>3
  <2>3. CASE p # t
    BY <1>4, <1>14, <1>15, <2>1, <2>3 DEF ManagedIn
  <2> QED BY <2>2, <2>3
<1> QED BY <1>7, <1>8, <1>9, <1>11, <1>12, <1>13, <1>16 DEF MemoryInv

(* A page that may be mapped: no table, and not free.                        *)
Apart(m, p) ==
    /\ p \in ManagedIn(m) \ DOMAIN m.mem
    /\ \A k \in DOMAIN m.free : m.free[k] # p

(* pgdir_walk() may take a page for a table and changes no mapping.          *)
LEMMA WalkInv ==
    ASSUME NEW m, NEW D, NEW h, MemoryInv(m, D, h),
           NEW d \in LiveIn(D), NEW va \in Nat, ValidVa(va),
           NEW n, n = WalkCreate(m, d, va)
    PROVE  /\ MemoryInv(n, D, h)
           /\ \A b \in LiveIn(D) : \A u \in Nat : ValidVa(u) => Pte(n, b, u) = Pte(m, b, u)
           /\ \A p : Apart(m, p) => Apart(n, p)
           /\ ~HasPte(n, d, va) => n = m
           /\ IdleSame(m, n)
<1>1. CASE HasPte(m, d, va) \/ m.free = <<>>
  <2>1. n = m
    BY <1>1 DEF WalkCreate
  <2> QED BY <2>1 DEF IdleSame
<1>2. CASE ~(HasPte(m, d, va) \/ m.free = <<>>)
  <2> DEFINE a == PageAlloc(m)
             t == Head(m.free)
             i == PDX(va)
  <2>1. Records(m) /\ FreeList(m) /\ Structure(m, D)
    BY DEF MemoryInv, Structure
  <2>2. MemoryInv(a, D, h) /\ Fresh(a, D, t) /\ t # h
    BY <1>2, AllocInv
  <2>3. /\ DOMAIN a = Fields /\ a.pp_ref = m.pp_ref /\ a.mem = m.mem
        /\ a.panic = m.panic /\ a.free = Tail(m.free)
    BY <2>1, AllocFields DEF Records
  <2>4. t \in ManagedIn(m) /\ t \notin DOMAIN m.mem /\ t \in DOMAIN m.pp_ref
    BY <2>2, <2>3 DEF Fresh, ManagedIn
  <2>5. i \in UserPart
    BY UserAddress
  <2>6. d \in DOMAIN m.mem /\ i \in DOMAIN m.mem[d]
    BY <2>1, <2>5, CountedIs DEF Structure, Directories, DirsIn
  <2>7. /\ DOMAIN n = Fields /\ n.panic = m.panic /\ n.free = Tail(m.free)
        /\ n.pp_ref = [m.pp_ref EXCEPT ![t] = @ + 1]
        /\ DOMAIN n.mem = (DOMAIN m.mem) \union {t}
        /\ n.mem[t] = Table(NPT)
        /\ \A q \in DOMAIN m.mem : DOMAIN n.mem[q] = DOMAIN m.mem[q]
        /\ \A q \in DOMAIN m.mem : \A k \in DOMAIN m.mem[q] :
              n.mem[q][k] = IF q = d /\ k = i THEN TableEntry(t) ELSE m.mem[q][k]
    BY <1>2, <2>1, <2>4, <2>6, WalkFields DEF Records
  <2>8. ~Present(m, d, i) /\ ~Present(a, d, i)
    BY <1>2, <2>3, PteSlot DEF Present
  <2> HIDE DEF a, t, i
  <2>9. TableAddedAt(a, n, d, i, t)
    BY <2>3, <2>7 DEF TableAddedAt
  <2>10. MemoryInv(n, D, h)
    BY <2>2, <2>5, <2>8, <2>9, TableAddedInv
  <2>11. t \in ManagedIn(a) \ DOMAIN a.mem /\ Structure(a, D)
    BY <2>2 DEF Fresh, MemoryInv, Structure
  <2>12. /\ Present(n, d, i)
         /\ \A l \in Entries : Slot(n, d, i, l) = Zero
         /\ \A b \in LiveIn(D) : \A k \in UserPart : ~(b = d /\ k = i) =>
               /\ Present(n, b, k) <=> Present(a, b, k)
               /\ Present(a, b, k) => \A l \in Entries : Slot(n, b, k, l) = Slot(a, b, k, l)
    <3>1. TableSeen(a, n, D, d, i, t)
      BY <2>5, <2>8, <2>9, <2>11, TableAddedView
    <3> QED BY <3>1 DEF TableSeen
  <2>13. ASSUME NEW b \in LiveIn(D), NEW u \in Nat, ValidVa(u)
         PROVE  Pte(n, b, u) = Pte(m, b, u)
    <3>1. PDX(u) \in UserPart /\ PTX(u) \in Entries
      BY <2>13, Address, UserAddress
    <3>2. Pte(n, b, u) = Pte(a, b, u)
      BY <2>8, <2>12, <3>1, PteSlot
    <3>3. Pte(a, b, u) = Pte(m, b, u)
      BY <2>3 DEF Pte, HasPte
    <3> QED BY <3>2, <3>3
  <2>14. ASSUME NEW p, Apart(m, p) PROVE Apart(n, p)
    <3>1. t = m.free[1] /\ 1 \in DOMAIN m.free
      BY <1>2, <2>1, TailOfFree DEF t
    <3>2. p # t
      BY <2>14, <3>1 DEF Apart
    <3>3. \A k \in DOMAIN n.free : n.free[k] # p
      BY <1>2, <2>1, <2>7, <2>14, TailOfFree DEF Apart
    <3> QED BY <2>7, <2>14, <3>2, <3>3 DEF Apart, ManagedIn
  <2>15. HasPte(n, d, va)
    BY <2>12, PteSlot DEF i
  <2>16. IdleSame(m, n)
    <3>1. DOMAIN a.pp_ref = DOMAIN m.pp_ref /\ Idle(a) = Idle(m) \union {t} /\ t \notin Idle(m)
      BY <1>2, <2>1, IdleAlloc DEF a, t
    <3>2. Records(a) /\ t \in ManagedIn(a) /\ n.pp_ref = [a.pp_ref EXCEPT ![t] = @ + 1] /\ n.free = a.free
      BY <2>2, <2>9, <2>11 DEF MemoryInv, TableAddedAt
    <3>3. DOMAIN n.pp_ref = DOMAIN a.pp_ref /\ Idle(n) = Idle(a) \ {t}
      BY <3>2, IdleCounted
    <3> QED BY <3>1, <3>3 DEF IdleSame
  <2> QED BY <2>10, <2>13, <2>14, <2>15, <2>16
<1> QED BY <1>1, <1>2

-----------------------------------------------------------------------------
(* page_insert().                                                            *)

(* The count of the page goes up before the page is mapped.                  *)
LEMMA HoldInv ==
    ASSUME NEW m, NEW D, MemoryInv(m, D, 0), NEW p, Apart(m, p),
           NEW n, n = [m EXCEPT !.pp_ref[p] = @ + 1]
    PROVE  /\ MemoryInv(n, D, p) /\ n.mem = m.mem /\ n.free = m.free /\ p # 0
           /\ DOMAIN n.pp_ref = DOMAIN m.pp_ref /\ Idle(n) = Idle(m) \ {p}
<1>1. /\ Records(m) /\ FreeList(m) /\ Directories(m, D) /\ TablesApart(m, D)
      /\ UserTablesOK(m, D) /\ RefsCounted(m, D, 0)
  BY DEF MemoryInv
<1>2. /\ p \in ManagedIn(m) \ DOMAIN m.mem /\ p \in DOMAIN m.pp_ref /\ p # 0
      /\ \A k \in DOMAIN m.free : m.free[k] # p
  BY DEF Apart, ManagedIn
<1>3. /\ DOMAIN n = Fields /\ n.mem = m.mem /\ n.free = m.free /\ n.panic = m.panic
      /\ DOMAIN n.pp_ref = DOMAIN m.pp_ref
      /\ \A q \in DOMAIN m.pp_ref : n.pp_ref[q] = IF q = p THEN m.pp_ref[p] + 1 ELSE m.pp_ref[q]
  BY <1>1 DEF Records, Fields
<1>4. ManagedIn(n) = ManagedIn(m)
  BY <1>3 DEF ManagedIn
<1>5. Records(n)
  BY <1>1, <1>2, <1>3, <1>4 DEF Records, ManagedIn
<1>6. FreeList(n)
  <2>1. ASSUME NEW k \in DOMAIN m.free PROVE n.pp_ref[m.free[k]] = 0
    <3>1. m.free[k] \in ManagedIn(m) /\ m.pp_ref[m.free[k]] = 0
      BY <1>1 DEF FreeList
    <3> QED BY <1>2, <1>3, <3>1 DEF ManagedIn
  <2> QED BY <1>1, <1>3, <1>4, <2>1 DEF FreeList
<1>7. Directories(n, D) /\ TablesApart(n, D) /\ UserTablesOK(n, D)
  BY <1>1, <1>3, <1>4 DEF Directories, TablesApart, UserTablesOK, Present, TableAt, Slot
<1>8. HoldsPage(n, p)
  BY <1>2, <1>3, <1>4 DEF HoldsPage
<1>9. \A q : MapRefs(n, D, q) = MapRefs(m, D, q) /\ TabRefs(n, D, q) = TabRefs(m, D, q)
  BY <1>3 DEF MapRefs, TabRefs, Present, TableAt, Slot
<1>10. RefsCounted(n, D, p)
  <2> SUFFICES ASSUME NEW q \in ManagedIn(m)
               PROVE  n.pp_ref[q] = Cardinality(MapRefs(n, D, q)) + Cardinality(TabRefs(n, D, q))
                                    + Cardinality(EnvRefs(D, q)) + Held(p, q)
    BY <1>4 DEF RefsCounted
  <2>1. m.pp_ref[q] = Cardinality(MapRefs(m, D, q)) + Cardinality(TabRefs(m, D, q))
                       + Cardinality(EnvRefs(D, q)) + Held(0, q)
    BY <1>1 DEF RefsCounted
  <2>2. Held(0, q) = 0 /\ q \in DOMAIN m.pp_ref
    BY DEF Held, ManagedIn
  <2>3. n.pp_ref[q] = m.pp_ref[q] + Held(p, q)
    BY <1>1, <1>3, <2>2 DEF Held, Records
  <2> QED BY <1>9, <2>1, <2>2, <2>3, RefsFinite DEF Held
<1>11. DOMAIN n.pp_ref = DOMAIN m.pp_ref /\ Idle(n) = Idle(m) \ {p}
  <2>1. n.pp_ref = [m.pp_ref EXCEPT ![p] = @ + 1]
    BY <1>1 DEF Records, Fields
  <2> QED BY <1>1, <1>2, <1>3, <2>1, IdleCounted
<1> QED BY <1>2, <1>3, <1>5, <1>6, <1>7, <1>8, <1>10, <1>11 DEF MemoryInv

(* The page held is mapped where nothing is.                                 *)
LEMMA PutInv ==
    ASSUME NEW m, NEW D, NEW h, MemoryInv(m, D, h), h # 0,
           NEW d \in LiveIn(D), NEW va \in Nat, ValidVa(va),
           HasPte(m, d, va), Pte(m, d, va) = Zero,
           NEW perm, NEW e, e = [page |-> h, perm |-> perm],
           NEW n, n = SetPte(m, d, va, e)
    PROVE  /\ MemoryInv(n, D, 0)
           /\ Pte(n, d, va) = e /\ SameElsewhere(m, n, D, d, va)
           /\ IdleSame(m, n)
<1> DEFINE i == PDX(va)
           j == PTX(va)
           t == TableAt(m, d, i)
<1>1. /\ Records(m) /\ FreeList(m) /\ Structure(m, D) /\ HoldsPage(m, h) /\ RefsCounted(m, D, h)
  BY DEF MemoryInv, Structure
<1>2. i \in UserPart /\ j \in Entries
  BY Address, UserAddress
<1>3. Present(m, d, i) /\ Slot(m, d, i, j) = Zero
  BY PteSlot
<1>4. t \in DOMAIN m.mem /\ DOMAIN m.mem[t] = Entries
  BY <1>1, <1>2, <1>3, SlotAt
<1>5. /\ DOMAIN n = Fields
      /\ n.pp_ref = m.pp_ref /\ n.free = m.free /\ n.panic = m.panic
      /\ DOMAIN n.mem = DOMAIN m.mem
      /\ \A a \in DOMAIN m.mem : DOMAIN n.mem[a] = DOMAIN m.mem[a]
      /\ \A a \in DOMAIN m.mem : \A k \in DOMAIN m.mem[a] :
            n.mem[a][k] = IF a = t /\ k = j THEN e ELSE m.mem[a][k]
  BY <1>1, <1>2, <1>4, SetPteWrites DEF Records
<1> HIDE DEF i, j, t
<1>6. h \in ManagedIn(m) \ DOMAIN m.mem /\ e.page = h /\ e # Zero
  BY <1>1 DEF HoldsPage, Zero
<1>7. EntryOK(m, e)
  BY <1>6 DEF EntryOK
<1>8. Wrote(m, n, t, j, e)
  BY <1>1, <1>5 DEF Wrote, Records
<1>9. Structure(n, D) /\ SlotWritten(m, n, D, d, i, j, e)
  BY <1>1, <1>2, <1>3, <1>7, <1>8, WriteSlot DEF t
<1>10. ManagedIn(n) = ManagedIn(m)
  BY <1>5 DEF ManagedIn
<1>11. Records(n) /\ FreeList(n)
  BY <1>1, <1>5, <1>10 DEF Records, FreeList
<1>12. HoldsPage(n, 0)
  BY DEF HoldsPage
<1>13. RefsCounted(n, D, 0)
  <2> SUFFICES ASSUME NEW p \in ManagedIn(m)
               PROVE  n.pp_ref[p] = Cardinality(MapRefs(n, D, p)) + Cardinality(TabRefs(n, D, p))
                                    + Cardinality(EnvRefs(D, p)) + Held(0, p)
    BY <1>10 DEF RefsCounted
  <2>1. /\ TabRefs(n, D, p) = TabRefs(m, D, p)
        /\ MapRefs(n, D, p) = RefsAfter(MapRefs(m, D, p), <<<<d, i>>, j>>, e, p)
    BY <1>1, <1>2, <1>3, <1>7, <1>8, WriteSlotRefs DEF t
  <2>2. <<<<d, i>>, j>> \notin MapRefs(m, D, p)
    <3>1. <<<<d, i>>, j>> \in MapRefs(m, D, p) <=>
             Present(m, d, i) /\ Slot(m, d, i, j) # Zero /\ Slot(m, d, i, j).page = p
      BY <1>2, MapRefsHave
    <3> QED BY <1>3, <3>1
  <2>3. Cardinality(MapRefs(n, D, p)) = Cardinality(MapRefs(m, D, p)) + Held(h, p)
    <3>1. IsFiniteSet(MapRefs(m, D, p)) /\ Cardinality(MapRefs(m, D, p)) \in Nat
      BY RefsFinite
    <3>2. CASE p = h
      <4>1. MapRefs(n, D, p) = MapRefs(m, D, p) \union {<<<<d, i>>, j>>}
        BY <1>6, <2>1, <2>2, <3>2 DEF RefsAfter
      <4>2. Cardinality(MapRefs(n, D, p)) = Cardinality(MapRefs(m, D, p)) + 1
        BY <2>2, <3>1, <4>1, FS_AddElement
      <4> QED BY <3>2, <4>2 DEF Held
    <3>3. CASE p # h
      <4>1. MapRefs(n, D, p) = MapRefs(m, D, p)
        BY <1>6, <2>1, <2>2, <3>3 DEF RefsAfter
      <4> QED BY <3>1, <3>3, <4>1 DEF Held
    <3> QED BY <3>2, <3>3
  <2>4. m.pp_ref[p] = Cardinality(MapRefs(m, D, p)) + Cardinality(TabRefs(m, D, p))
                       + Cardinality(EnvRefs(D, p)) + Held(h, p)
    BY <1>1 DEF RefsCounted
  <2>5. Held(0, p) = 0 /\ Held(h, p) \in Nat
    BY DEF Held, ManagedIn
  <2> QED BY <1>5, <2>1, <2>3, <2>4, <2>5, RefsFinite
<1>14. MemoryInv(n, D, 0)
  BY <1>9, <1>11, <1>12, <1>13 DEF MemoryInv, Structure
<1>15. Pte(n, d, va) = e /\ SameElsewhere(m, n, D, d, va)
  BY <1>1, <1>3, <1>9, WritePte DEF i, j
<1> QED BY <1>5, <1>14, <1>15, IdleUnchanged

(* page_insert() maps the page, whatever was there, or changes nothing.      *)
LEMMA InsertInv ==
    ASSUME NEW m, NEW D, MemoryInv(m, D, 0), NEW p, Apart(m, p),
           NEW d \in LiveIn(D), NEW va \in Nat, ValidVa(va), NEW perm,
           NEW r, r = PageInsert(m, d, p, va, perm)
    PROVE  /\ MemoryInv(r.memory, D, 0)
           /\ SameElsewhere(m, r.memory, D, d, va)
           /\ ~r.ok => r.memory = m
           /\ r.ok \in BOOLEAN
           /\ DOMAIN r.memory.pp_ref = DOMAIN m.pp_ref
           /\ r.ok => Idle(r.memory) = Idle(m) \ {p}
<1> DEFINE w == WalkCreate(m, d, va)
           y == [w EXCEPT !.pp_ref[p] = @ + 1]
           x == PageRemove(y, d, va)
           e == [page |-> p, perm |-> perm \union {"P"}]
           z == SetPte(x, d, va, e)
<1>1. /\ MemoryInv(w, D, 0) /\ Apart(w, p)
      /\ \A b \in LiveIn(D) : \A u \in Nat : ValidVa(u) => Pte(w, b, u) = Pte(m, b, u)
      /\ ~HasPte(w, d, va) => w = m
      /\ IdleSame(m, w)
  BY WalkInv
<1>2. CASE ~HasPte(w, d, va)
  <2>1. r.ok = FALSE /\ r.memory = m
    BY <1>1, <1>2 DEF PageInsert
  <2> QED BY <2>1 DEF SameElsewhere
<1>3. CASE HasPte(w, d, va)
  <2>1. r = [ok |-> TRUE, memory |-> z]
    BY <1>3, Zenon DEF PageInsert
  <2>2. r.ok = TRUE /\ r.memory = z
    BY <2>1
  <2>3. /\ MemoryInv(y, D, p) /\ y.mem = w.mem /\ p # 0
        /\ DOMAIN y.pp_ref = DOMAIN w.pp_ref /\ Idle(y) = Idle(w) \ {p}
    BY <1>1, HoldInv
  <2>4. \A b, u : Pte(y, b, u) = Pte(w, b, u) /\ (HasPte(y, b, u) <=> HasPte(w, b, u))
    BY <2>3 DEF Pte, HasPte
  <2> HIDE DEF w, y
  <2>5. /\ MemoryInv(x, D, p)
        /\ Pte(x, d, va) = Zero /\ (HasPte(x, d, va) <=> HasPte(y, d, va))
        /\ SameElsewhere(y, x, D, d, va) /\ SamePages(y, x)
    BY <2>3, RemoveInv
  <2>6. HasPte(x, d, va)
    BY <1>3, <2>4, <2>5
  <2> HIDE DEF x
  <2>7. MemoryInv(z, D, 0) /\ SameElsewhere(x, z, D, d, va) /\ IdleSame(x, z)
    BY <2>3, <2>5, <2>6, PutInv
  <2> HIDE DEF z
  <2>8. SameElsewhere(m, z, D, d, va)
    BY <1>1, <2>4, <2>5, <2>7 DEF SameElsewhere
  <2>9. DOMAIN z.pp_ref = DOMAIN m.pp_ref /\ Idle(z) = Idle(m) \ {p}
    BY <1>1, <2>3, <2>5, <2>7 DEF SamePages, IdleSame
  <2> QED BY <2>2, <2>7, <2>8, <2>9
<1> QED BY <1>2, <1>3

-----------------------------------------------------------------------------
(* The system calls that allocate and map.                                   *)

(* A page that a program maps is apart from the free list and the tables.    *)
LEMMA MappedIsApart ==
    ASSUME NEW m, NEW D, NEW h, MemoryInv(m, D, h), NEW b \in LiveIn(D),
           NEW u \in Nat, ValidVa(u), Pte(m, b, u) # Zero
    PROVE  Apart(m, Pte(m, b, u).page) /\ Pte(m, b, u).page \notin Idle(m)
<1> DEFINE p == Pte(m, b, u).page
<1>1. FreeList(m) /\ UserTablesOK(m, D) /\ RefsCounted(m, D, h)
  BY DEF MemoryInv
<1>2. PDX(u) \in UserPart /\ PTX(u) \in Entries
  BY Address, UserAddress
<1>3. Present(m, b, PDX(u)) /\ Pte(m, b, u) = Slot(m, b, PDX(u), PTX(u))
  BY PteSlot
<1>4. p \in ManagedIn(m) \ DOMAIN m.mem
  BY <1>1, <1>2, <1>3 DEF UserTablesOK
<1>5. <<<<b, PDX(u)>>, PTX(u)>> \in MapRefs(m, D, p)
  BY <1>2, <1>3, MapRefsHave
<1> HIDE DEF p
<1>6. m.pp_ref[p] \in Nat /\ m.pp_ref[p] > Held(h, p)
  BY <1>1, <1>4, <1>5, MappedIsCounted
<1>7. m.pp_ref[p] # 0
  BY <1>6 DEF Held
<1>8. Apart(m, p)
  BY <1>1, <1>4, <1>7, ReferredNotFree DEF Apart
<1>9. p \notin Idle(m)
  BY <1>7 DEF Idle
<1> QED BY <1>8, <1>9 DEF p

(* env_page_alloc(): when it fails no mapping changes.                       *)
LEMMA EnvPageAllocInv ==
    ASSUME NEW m, MemoryInv(m, env_pgdir, 0), NEW f \in Envs, Exists(f),
           NEW va \in Nat, ValidVa(va), NEW perm,
           NEW r, r = EnvPageAlloc(m, f, va, perm)
    PROVE  /\ MemoryInv(r.memory, env_pgdir, 0)
           /\ SameElsewhere(m, r.memory, env_pgdir, env_pgdir[f], va)
           /\ ~r.ok => \A b \in LiveIn(env_pgdir) : \A u \in Nat :
                          ValidVa(u) => Pte(r.memory, b, u) = Pte(m, b, u)
           /\ DOMAIN r.memory.pp_ref = DOMAIN m.pp_ref
           /\ Idle(r.memory) = Idle(m) \union r.lost
           /\ r.lost \subseteq ManagedIn(m) \ Idle(m)
<1> DEFINE d == env_pgdir[f]
           p == Head(m.free)
           a == PageAlloc(m)
           i == PageInsert(a, d, p, va, perm)
<1>1. d \in LiveIn(env_pgdir)
  BY DEF LiveIn, Exists
<1>2. CASE ~CheckPerm(perm) \/ m.free = <<>>
  <2>1. r.ok = FALSE /\ r.memory = m /\ r.lost = {}
    BY <1>2 DEF EnvPageAlloc
  <2> QED BY <2>1 DEF SameElsewhere
<1>3. CASE ~(~CheckPerm(perm) \/ m.free = <<>>)
  <2>1. r.ok = i.ok /\ r.memory = i.memory /\ r.lost = IF i.ok THEN {} ELSE {p}
    BY <1>3 DEF EnvPageAlloc
  <2>2. MemoryInv(a, env_pgdir, 0) /\ Fresh(a, env_pgdir, p)
    BY <1>3, AllocInv
  <2>3. Apart(a, p)
    BY <2>2 DEF Fresh, Apart
  <2>4. a.mem = m.mem
    BY AllocFields DEF MemoryInv, Records
  <2>5. \A b, u : Pte(a, b, u) = Pte(m, b, u)
    BY <2>4 DEF Pte, HasPte
  <2>10. /\ DOMAIN a.pp_ref = DOMAIN m.pp_ref /\ Idle(a) = Idle(m) \union {p}
         /\ p \in ManagedIn(m) \ Idle(m)
    BY <1>3, IdleAlloc DEF MemoryInv
  <2> HIDE DEF d, p, a
  <2>6. /\ MemoryInv(i.memory, env_pgdir, 0)
        /\ SameElsewhere(a, i.memory, env_pgdir, d, va)
        /\ ~i.ok => i.memory = a
        /\ i.ok \in BOOLEAN /\ DOMAIN i.memory.pp_ref = DOMAIN a.pp_ref
        /\ i.ok => Idle(i.memory) = Idle(a) \ {p}
    BY <1>1, <2>2, <2>3, InsertInv
  <2> HIDE DEF i
  <2>7. SameElsewhere(m, i.memory, env_pgdir, d, va)
    BY <2>5, <2>6 DEF SameElsewhere
  <2>8. DOMAIN i.memory.pp_ref = DOMAIN m.pp_ref
    BY <2>6, <2>10
  <2>9. Idle(i.memory) = Idle(m) \union r.lost /\ r.lost \subseteq ManagedIn(m) \ Idle(m)
    <3>1. CASE i.ok
      <4>1. r.lost = {}
        BY <2>1, <3>1
      <4> QED BY <2>6, <2>10, <3>1, <4>1
    <3>2. CASE ~i.ok
      <4>1. r.lost = {p}
        BY <2>1, <3>2
      <4> QED BY <2>6, <2>10, <3>2, <4>1
    <3> QED BY <3>1, <3>2
  <2> QED BY <2>1, <2>5, <2>6, <2>7, <2>8, <2>9 DEF d
<1> QED BY <1>2, <1>3

(* env_page_map(): when it fails nothing changes.                            *)
LEMMA EnvPageMapInv ==
    ASSUME NEW m, MemoryInv(m, env_pgdir, 0), NEW e \in Envs, Exists(e),
           NEW srcva \in Nat, ValidVa(srcva),
           NEW f \in Envs, Exists(f), NEW dstva \in Nat, ValidVa(dstva), NEW perm,
           NEW r, r = EnvPageMap(m, e, srcva, f, dstva, perm)
    PROVE  /\ MemoryInv(r.memory, env_pgdir, 0)
           /\ SameElsewhere(m, r.memory, env_pgdir, env_pgdir[f], dstva)
           /\ ~r.ok => r.memory = m
           /\ IdleSame(m, r.memory)
<1> DEFINE src == Pte(m, env_pgdir[e], srcva)
           i == PageInsert(m, env_pgdir[f], src.page, dstva, perm)
<1>1. env_pgdir[e] \in LiveIn(env_pgdir) /\ env_pgdir[f] \in LiveIn(env_pgdir)
  BY DEF LiveIn, Exists
<1>2. CASE src = Zero \/ ("W" \in perm /\ "W" \notin src.perm)
  <2>1. r.ok = FALSE /\ r.memory = m
    BY <1>2 DEF EnvPageMap
  <2> QED BY <2>1 DEF SameElsewhere, IdleSame
<1>3. CASE ~(src = Zero \/ ("W" \in perm /\ "W" \notin src.perm))
  <2>1. r = i
    BY <1>3 DEF EnvPageMap
  <2>2. Apart(m, src.page) /\ src.page \notin Idle(m)
    BY <1>1, <1>3, MappedIsApart
  <2> HIDE DEF src
  <2>3. /\ MemoryInv(i.memory, env_pgdir, 0)
        /\ SameElsewhere(m, i.memory, env_pgdir, env_pgdir[f], dstva)
        /\ ~i.ok => i.memory = m
        /\ i.ok \in BOOLEAN /\ DOMAIN i.memory.pp_ref = DOMAIN m.pp_ref
        /\ i.ok => Idle(i.memory) = Idle(m) \ {src.page}
    BY <1>1, <2>2, InsertInv
  <2>4. IdleSame(m, i.memory)
    <3>1. Idle(m) \ {src.page} = Idle(m)
      BY <2>2
    <3> QED BY <2>3, <3>1 DEF IdleSame
  <2> QED BY <2>1, <2>3, <2>4
<1> QED BY <1>2, <1>3

-----------------------------------------------------------------------------
(* The loops of env_free().                                                  *)

(* u holds the memory before the loop over a table and after each entry.     *)
IsTableLoop(u, m, d, pd, k) ==
    /\ u = [i \in 0..k |-> u[i]]
    /\ u[0] = m
    /\ \A i \in 1..k : u[i] = PageRemove(u[i - 1], d, pd * NPT + i - 1)

LEMMA TableLoopDefined ==
    ASSUME NEW m, NEW d, NEW pd, NEW n \in Nat
    PROVE  \E u : IsTableLoop(u, m, d, pd, n)
<1> DEFINE S == {k \in Nat : \E u : IsTableLoop(u, m, d, pd, k)}
<1>1. 0 \in S
  <2> DEFINE u == [i \in 0..0 |-> m]
  <2>1. IsTableLoop(u, m, d, pd, 0)
    BY DEF IsTableLoop
  <2> QED BY <2>1, Zenon
<1>2. ASSUME NEW k \in Nat, k \in S PROVE k + 1 \in S
  <2>1. PICK u : IsTableLoop(u, m, d, pd, k)
    BY <1>2
  <2>2. \E v : IsTableLoop(v, m, d, pd, k + 1)
    <3> PICK x : x = PageRemove(u[k], d, pd * NPT + (k + 1) - 1)
      OBVIOUS
    <3> DEFINE v == [i \in 0..(k + 1) |-> IF i = k + 1 THEN x ELSE u[i]]
    <3>1. \A i \in 0..k : v[i] = u[i]
      OBVIOUS
    <3>2. v[k + 1] = x /\ v = [i \in 0..(k + 1) |-> v[i]]
      OBVIOUS
    <3> HIDE DEF v
    <3>3. ASSUME NEW i \in 1..(k + 1) PROVE v[i] = PageRemove(v[i - 1], d, pd * NPT + i - 1)
      <4>1. CASE i = k + 1
        <5>1. v[i - 1] = u[k]
          BY <3>1, <4>1
        <5> QED BY <3>2, <4>1, <5>1
      <4>2. CASE i # k + 1
        <5>1. i \in 1..k /\ i \in 0..k /\ i - 1 \in 0..k
          BY <4>2
        <5>2. u[i] = PageRemove(u[i - 1], d, pd * NPT + i - 1)
          BY <2>1, <5>1 DEF IsTableLoop
        <5> QED BY <3>1, <5>1, <5>2
      <4> QED BY <4>1, <4>2
    <3>4. v[0] = m
      <4>1. u[0] = m /\ 0 \in 0..k
        BY <2>1 DEF IsTableLoop
      <4> QED BY <3>1, <4>1
    <3>5. IsTableLoop(v, m, d, pd, k + 1)
      BY <3>2, <3>3, <3>4, Zenon DEF IsTableLoop
    <3> QED BY <3>5, Zenon
  <2> QED BY <2>2
<1>3. Nat \subseteq S
  <2> HIDE DEF S
  <2> QED BY <1>1, <1>2, Induction
<1> QED BY <1>3

(* And the loop is what FreeTable() runs.                                    *)
LEMMA TableLoop ==
    ASSUME NEW m, NEW d, NEW pd
    PROVE  \E u : /\ IsTableLoop(u, m, d, pd, NPT)
                  /\ FreeTable(m, d, pd) =
                        IF m.mem[d][pd] = Zero THEN m
                        ELSE PageDecref([u[NPT] EXCEPT !.mem[d][pd] = Zero], m.mem[d][pd].page)
<1>1. \E g : g = [i \in 0..NPT |-> IF i = 0 THEN m ELSE PageRemove(g[i - 1], d, pd * NPT + i - 1)]
  <2>1. PICK g : IsTableLoop(g, m, d, pd, NPT)
    BY TableLoopDefined, PagesAssumption
  <2>2. ASSUME NEW i \in 0..NPT
        PROVE  g[i] = IF i = 0 THEN m ELSE PageRemove(g[i - 1], d, pd * NPT + i - 1)
    <3>1. CASE i = 0
      BY <2>1, <3>1, Zenon DEF IsTableLoop
    <3>2. CASE i # 0
      <4>1. i \in 1..NPT
        BY <3>2, PagesAssumption
      <4> QED BY <2>1, <3>2, <4>1, Zenon DEF IsTableLoop
    <3> QED BY <3>1, <3>2
  <2>3. g = [i \in 0..NPT |-> g[i]]
    BY <2>1, Zenon DEF IsTableLoop
  <2>4. g = [i \in 0..NPT |-> IF i = 0 THEN m ELSE PageRemove(g[i - 1], d, pd * NPT + i - 1)]
    BY <2>2, <2>3, Zenon
  <2> QED BY <2>4, Zenon
<1> DEFINE u[i \in 0..NPT] == IF i = 0 THEN m ELSE PageRemove(u[i - 1], d, pd * NPT + i - 1)
<1>2. FreeTable(m, d, pd) =
         IF m.mem[d][pd] = Zero THEN m
         ELSE PageDecref([u[NPT] EXCEPT !.mem[d][pd] = Zero], m.mem[d][pd].page)
  BY Zenon DEF FreeTable
<1>3. u = [i \in 0..NPT |-> IF i = 0 THEN m ELSE PageRemove(u[i - 1], d, pd * NPT + i - 1)]
  BY <1>1, Zenon
<1> HIDE DEF u
<1>4. \A i \in 0..NPT : u[i] = IF i = 0 THEN m ELSE PageRemove(u[i - 1], d, pd * NPT + i - 1)
  BY <1>3, Zenon
<1>5. u = [i \in 0..NPT |-> u[i]]
  BY <1>3, <1>4, Zenon
<1>6. 0 \in 0..NPT /\ \A i \in 1..NPT : i \in 0..NPT /\ i # 0
  BY PagesAssumption
<1>7. IsTableLoop(u, m, d, pd, NPT)
  BY <1>4, <1>5, <1>6, Zenon DEF IsTableLoop
<1> QED BY <1>2, <1>7, Zenon

(* u holds the memory before the loop over the tables and after each one.    *)
IsUserLoop(u, m, d, k) ==
    /\ u = [i \in 0..k |-> u[i]]
    /\ u[0] = m
    /\ \A i \in 1..k : u[i] = FreeTable(u[i - 1], d, i - 1)

LEMMA UserLoopDefined ==
    ASSUME NEW m, NEW d, NEW n \in Nat
    PROVE  \E u : IsUserLoop(u, m, d, n)
<1> DEFINE S == {k \in Nat : \E u : IsUserLoop(u, m, d, k)}
<1>1. 0 \in S
  <2> DEFINE u == [i \in 0..0 |-> m]
  <2>1. IsUserLoop(u, m, d, 0)
    BY DEF IsUserLoop
  <2> QED BY <2>1, Zenon
<1>2. ASSUME NEW k \in Nat, k \in S PROVE k + 1 \in S
  <2>1. PICK u : IsUserLoop(u, m, d, k)
    BY <1>2
  <2>2. \E v : IsUserLoop(v, m, d, k + 1)
    <3> PICK x : x = FreeTable(u[k], d, (k + 1) - 1)
      OBVIOUS
    <3> DEFINE v == [i \in 0..(k + 1) |-> IF i = k + 1 THEN x ELSE u[i]]
    <3>1. \A i \in 0..k : v[i] = u[i]
      OBVIOUS
    <3>2. v[k + 1] = x /\ v = [i \in 0..(k + 1) |-> v[i]]
      OBVIOUS
    <3> HIDE DEF v
    <3>3. ASSUME NEW i \in 1..(k + 1) PROVE v[i] = FreeTable(v[i - 1], d, i - 1)
      <4>1. CASE i = k + 1
        <5>1. v[i - 1] = u[k]
          BY <3>1, <4>1
        <5> QED BY <3>2, <4>1, <5>1
      <4>2. CASE i # k + 1
        <5>1. i \in 1..k /\ i \in 0..k /\ i - 1 \in 0..k
          BY <4>2
        <5>2. u[i] = FreeTable(u[i - 1], d, i - 1)
          BY <2>1, <5>1 DEF IsUserLoop
        <5> QED BY <3>1, <5>1, <5>2
      <4> QED BY <4>1, <4>2
    <3>4. v[0] = m
      <4>1. u[0] = m /\ 0 \in 0..k
        BY <2>1 DEF IsUserLoop
      <4> QED BY <3>1, <4>1
    <3>5. IsUserLoop(v, m, d, k + 1)
      BY <3>2, <3>3, <3>4, Zenon DEF IsUserLoop
    <3> QED BY <3>5, Zenon
  <2> QED BY <2>2
<1>3. Nat \subseteq S
  <2> HIDE DEF S
  <2> QED BY <1>1, <1>2, Induction
<1> QED BY <1>3

(* And the loop is what EnvFreePages() runs.                                 *)
LEMMA UserLoop ==
    ASSUME NEW m, NEW d
    PROVE  \E u : /\ IsUserLoop(u, m, d, UserPds)
                  /\ EnvFreePages(m, d) = PageDecref(u[UserPds], d)
<1>1. \E g : g = [i \in 0..UserPds |-> IF i = 0 THEN m ELSE FreeTable(g[i - 1], d, i - 1)]
  <2>1. PICK g : IsUserLoop(g, m, d, UserPds)
    BY UserLoopDefined, PagesAssumption
  <2>2. ASSUME NEW i \in 0..UserPds
        PROVE  g[i] = IF i = 0 THEN m ELSE FreeTable(g[i - 1], d, i - 1)
    <3>1. CASE i = 0
      BY <2>1, <3>1, Zenon DEF IsUserLoop
    <3>2. CASE i # 0
      <4>1. i \in 1..UserPds
        BY <3>2, PagesAssumption
      <4> QED BY <2>1, <3>2, <4>1, Zenon DEF IsUserLoop
    <3> QED BY <3>1, <3>2
  <2>3. g = [i \in 0..UserPds |-> g[i]]
    BY <2>1, Zenon DEF IsUserLoop
  <2>4. g = [i \in 0..UserPds |-> IF i = 0 THEN m ELSE FreeTable(g[i - 1], d, i - 1)]
    BY <2>2, <2>3, Zenon
  <2> QED BY <2>4, Zenon
<1> DEFINE u[i \in 0..UserPds] == IF i = 0 THEN m ELSE FreeTable(u[i - 1], d, i - 1)
<1>2. EnvFreePages(m, d) = PageDecref(u[UserPds], d)
  BY Zenon DEF EnvFreePages
<1>3. u = [i \in 0..UserPds |-> IF i = 0 THEN m ELSE FreeTable(u[i - 1], d, i - 1)]
  BY <1>1, Zenon
<1> HIDE DEF u
<1>4. \A i \in 0..UserPds : u[i] = IF i = 0 THEN m ELSE FreeTable(u[i - 1], d, i - 1)
  BY <1>3, Zenon
<1>5. u = [i \in 0..UserPds |-> u[i]]
  BY <1>3, <1>4, Zenon
<1>6. 0 \in 0..UserPds /\ \A i \in 1..UserPds : i \in 0..UserPds /\ i # 0
  BY PagesAssumption
<1>7. IsUserLoop(u, m, d, UserPds)
  BY <1>4, <1>5, <1>6, Zenon DEF IsUserLoop
<1> QED BY <1>2, <1>7, Zenon

(* The loop over a table unmaps its entries and nothing else.                *)
OthersSame(m, n, D, d) ==
    \A b \in LiveIn(D) : b # d =>
       \A u \in Nat : ValidVa(u) => Pte(n, b, u) = Pte(m, b, u)
DirEntriesSame(m, n, D) ==
    \A b \in DirsIn(D) : \A k \in 0..(NPD-1) : n.mem[b][k] = m.mem[b][k]
Emptied(m, n, D, d, pd, i) ==
    /\ MemoryInv(n, D, 0) /\ SamePages(m, n)
    /\ OthersSame(m, n, D, d) /\ DirEntriesSame(m, n, D)
    /\ \A j \in Entries : j < i => Pte(n, d, pd * NPT + j) = Zero

(* An entry of a table is at one address.                                    *)
LEMMA EntryAddress ==
    ASSUME NEW pd \in UserPart, NEW j \in Entries
    PROVE  /\ pd * NPT + j \in Nat /\ ValidVa(pd * NPT + j)
           /\ PDX(pd * NPT + j) = pd /\ PTX(pd * NPT + j) = j
<1>1. pd \in Nat /\ j \in Nat
  BY PagesAssumption DEF UserPart, Entries
<1>2. PICK t \in Nat : t = pd * NPT
  BY <1>1, PagesAssumption
<1>3. pd * NPT + j \in Nat
  BY <1>1, <1>2
<1>4. PDX(pd * NPT + j) = pd /\ PTX(pd * NPT + j) = j
  BY <1>1, AddressUnique
<1> QED BY <1>3, <1>4, UserAddress

LEMMA EmptiedStep ==
    ASSUME NEW m, NEW D, NEW d \in LiveIn(D), NEW pd \in UserPart, NEW i \in Entries,
           NEW x, Emptied(m, x, D, d, pd, i),
           NEW y, y = PageRemove(x, d, pd * NPT + i)
    PROVE  Emptied(m, y, D, d, pd, i + 1)
<1> PICK va \in Nat : va = pd * NPT + i
  BY EntryAddress
<1>1. ValidVa(va)
  BY EntryAddress
<1>2. MemoryInv(x, D, 0) /\ y = PageRemove(x, d, va)
  BY DEF Emptied
<1>3. /\ MemoryInv(y, D, 0) /\ SamePages(x, y)
      /\ Pte(y, d, va) = Zero
      /\ SameElsewhere(x, y, D, d, va)
      /\ \A b \in DirsIn(D) : \A k \in 0..(NPD-1) : y.mem[b][k] = x.mem[b][k]
  BY <1>1, <1>2, RemoveInv
<1>4. SamePages(m, y)
  BY <1>3 DEF SamePages, IdleSame, Emptied
<1>5. OthersSame(m, y, D, d)
  BY <1>3 DEF OthersSame, Emptied, SameElsewhere
<1>6. DirEntriesSame(m, y, D)
  BY <1>3 DEF DirEntriesSame, Emptied
<1>7. ASSUME NEW j \in Entries, j < i + 1 PROVE Pte(y, d, pd * NPT + j) = Zero
  <2>1. CASE j = i
    BY <1>3, <2>1
  <2>2. CASE j # i
    <3>1. j < i
      BY <1>7, <2>2 DEF Entries
    <3>2. PICK u \in Nat : u = pd * NPT + j
      BY EntryAddress
    <3>3. ValidVa(u) /\ PTX(u) = j /\ PTX(va) = i
      BY <3>2, EntryAddress
    <3>4. Pte(y, d, u) = Pte(x, d, u)
      BY <1>3, <2>2, <3>3 DEF SameElsewhere
    <3>5. Pte(x, d, u) = Zero
      BY <3>1, <3>2 DEF Emptied
    <3> QED BY <3>2, <3>4, <3>5
  <2> QED BY <2>1, <2>2
<1> QED BY <1>3, <1>4, <1>5, <1>6, <1>7 DEF Emptied

LEMMA TableLoopInv ==
    ASSUME NEW m, NEW D, MemoryInv(m, D, 0), NEW d \in LiveIn(D), NEW pd \in UserPart,
           NEW u, IsTableLoop(u, m, d, pd, NPT)
    PROVE  Emptied(m, u[NPT], D, d, pd, NPT)
<1> DEFINE S == {i \in Nat : i <= NPT => Emptied(m, u[i], D, d, pd, i)}
<1>1. 0 \in S
  <2>1. u[0] = m
    BY DEF IsTableLoop
  <2>2. \A j \in Entries : ~(j < 0)
    BY DEF Entries
  <2>3. Emptied(m, m, D, d, pd, 0)
    BY <2>2 DEF Emptied, SamePages, IdleSame, OthersSame, DirEntriesSame
  <2> QED BY <2>1, <2>3
<1>2. ASSUME NEW i \in Nat, i \in S PROVE i + 1 \in S
  <2> SUFFICES ASSUME i + 1 <= NPT PROVE Emptied(m, u[i + 1], D, d, pd, i + 1)
    OBVIOUS
  <2>1. i \in Entries /\ i + 1 \in 1..NPT /\ i <= NPT
    BY PagesAssumption DEF Entries
  <2>2. Emptied(m, u[i], D, d, pd, i)
    BY <1>2, <2>1
  <2>3. u[i + 1] = PageRemove(u[(i + 1) - 1], d, pd * NPT + (i + 1) - 1)
    BY <2>1, Zenon DEF IsTableLoop
  <2>4. (i + 1) - 1 = i /\ pd * NPT + (i + 1) - 1 = pd * NPT + i
    <3>1. PICK t \in Nat : t = pd * NPT
      BY PagesAssumption DEF UserPart
    <3> QED BY <3>1
  <2>5. u[i + 1] = PageRemove(u[i], d, pd * NPT + i)
    BY <2>3, <2>4
  <2> QED BY <2>1, <2>2, <2>5, EmptiedStep
<1>3. Nat \subseteq S
  <2> HIDE DEF S
  <2> QED BY <1>1, <1>2, Induction
<1>4. NPT \in Nat /\ NPT <= NPT
  BY PagesAssumption
<1> QED BY <1>3, <1>4

-----------------------------------------------------------------------------
(* An empty table goes.                                                      *)

(* The memory x after the entry i of the directory d was cleared and the     *)
(* count of its table t went down, which frees it.                           *)
TableDropped(x, n, d, i, t) ==
    /\ Decreffed(x, n, t)
    /\ DOMAIN n.mem = (DOMAIN x.mem) \ {t}
    /\ \A q \in DOMAIN n.mem : DOMAIN n.mem[q] = DOMAIN x.mem[q]
    /\ \A q \in DOMAIN n.mem : \A k \in DOMAIN x.mem[q] :
          n.mem[q][k] = IF q = d /\ k = i THEN Zero ELSE x.mem[q][k]

(* Its table is referred to by that entry only.                              *)
LEMMA TableRefs ==
    ASSUME NEW x, NEW D, MemoryInv(x, D, 0), NEW d \in LiveIn(D), NEW i \in UserPart,
           Present(x, d, i), NEW t, t = TableAt(x, d, i)
    PROVE  /\ t \in ManagedIn(x) /\ t \in (DOMAIN x.mem) \ DirsIn(D)
           /\ TabRefs(x, D, t) = {<<d, i>>} /\ x.pp_ref[t] = 1
<1>1. Structure(x, D) /\ RefsCounted(x, D, 0) /\ Directories(x, D)
  BY DEF MemoryInv, Structure
<1>2. d \in DirsIn(D) /\ i \in Counted(d) /\ i \in 0..(NPD-1)
  BY <1>1, CountedIs DEF DirsIn
<1>3. t \in ManagedIn(x) /\ t \in (DOMAIN x.mem) \ DirsIn(D)
  BY <1>1, <1>2 DEF Structure, TablesApart, UserTablesOK
<1>4. MapRefs(x, D, t) = {}
  <2> SUFFICES ASSUME NEW y \in MapRefs(x, D, t) PROVE FALSE
    OBVIOUS
  <2> y \in (LiveIn(D) \X UserPart) \X Entries
    BY DEF MapRefs
  <2>1. PICK b \in LiveIn(D), k \in UserPart, l \in Entries : y = <<<<b, k>>, l>>
    OBVIOUS
  <2>2. Present(x, b, k) /\ Slot(x, b, k, l) # Zero /\ Slot(x, b, k, l).page = t
    BY <2>1, MapRefsHave
  <2> QED BY <1>1, <1>3, <2>2 DEF Structure, UserTablesOK
<1>5. TabRefs(x, D, t) = {<<d, i>>}
  <2>1. <<d, i>> \in TabRefs(x, D, t)
    BY <1>2, TabRefsHave
  <2>2. ASSUME NEW y \in TabRefs(x, D, t) PROVE y = <<d, i>>
    <3> y \in DirsIn(D) \X (0..(NPD-1))
      BY DEF TabRefs
    <3>1. PICK b \in DirsIn(D), k \in 0..(NPD-1) : y = <<b, k>>
      OBVIOUS
    <3>2. k \in Counted(b) /\ Present(x, b, k) /\ TableAt(x, b, k) = t
      BY <3>1, TabRefsHave
    <3>3. b = d /\ k = i
      BY <1>1, <1>2, <3>2 DEF Structure, TablesApart
    <3> QED BY <3>1, <3>3
  <2> QED BY <2>1, <2>2
<1>6. EnvRefs(D, t) = {}
  <2>1. \A e \in Envs : D[e] = t => t \in DirsIn(D)
    BY <1>3 DEF DirsIn, LiveIn, ManagedIn
  <2> QED BY <1>3, <2>1 DEF EnvRefs
<1>7. Held(0, t) = 0
  BY <1>3 DEF Held, ManagedIn
<1>8. x.pp_ref[t] = Cardinality(MapRefs(x, D, t)) + Cardinality(TabRefs(x, D, t))
                    + Cardinality(EnvRefs(D, t)) + Held(0, t)
  BY <1>1, <1>3 DEF RefsCounted
<1>9. Cardinality(TabRefs(x, D, t)) = 1
  BY <1>5, FS_Singleton
<1>10. x.pp_ref[t] = 1
  BY <1>4, <1>6, <1>7, <1>8, <1>9, FS_EmptySet
<1> QED BY <1>3, <1>5, <1>10

LEMMA TableDroppedInv ==
    ASSUME NEW x, NEW D, MemoryInv(x, D, 0), NEW d \in LiveIn(D), NEW i \in UserPart,
           Present(x, d, i), \A j \in Entries : Slot(x, d, i, j) = Zero,
           NEW t, t = TableAt(x, d, i), NEW n, TableDropped(x, n, d, i, t)
    PROVE  /\ MemoryInv(n, D, 0) /\ ~Present(n, d, i)
           /\ \A b \in DirsIn(D) : \A k \in 0..(NPD-1) :
                 ~(b = d /\ k = i) => n.mem[b][k] = x.mem[b][k]
           /\ \A b \in LiveIn(D) : \A k \in UserPart : \A l \in Entries :
                 Present(n, b, k) => Slot(n, b, k, l) = Slot(x, b, k, l)
<1>1. /\ Records(x) /\ FreeList(x) /\ Structure(x, D) /\ RefsCounted(x, D, 0) /\ Directories(x, D)
      /\ TablesApart(x, D) /\ UserTablesOK(x, D)
  BY DEF MemoryInv, Structure
<1>2. /\ t \in ManagedIn(x) /\ t \in (DOMAIN x.mem) \ DirsIn(D)
      /\ TabRefs(x, D, t) = {<<d, i>>} /\ x.pp_ref[t] = 1
  BY TableRefs
<1>3. d \in DirsIn(D) /\ i \in Counted(d) /\ i \in 0..(NPD-1)
  BY <1>1, CountedIs DEF DirsIn
<1>4. \A b \in DirsIn(D) : /\ b \in DOMAIN n.mem /\ DOMAIN n.mem[b] = DOMAIN x.mem[b]
                           /\ \A k \in 0..(NPD-1) :
                                 n.mem[b][k] = IF b = d /\ k = i THEN Zero ELSE x.mem[b][k]
  <2> SUFFICES ASSUME NEW b \in DirsIn(D)
               PROVE  /\ b \in DOMAIN n.mem /\ DOMAIN n.mem[b] = DOMAIN x.mem[b]
                      /\ \A k \in 0..(NPD-1) :
                            n.mem[b][k] = IF b = d /\ k = i THEN Zero ELSE x.mem[b][k]
    OBVIOUS
  <2>1. b \in DOMAIN x.mem /\ DOMAIN x.mem[b] = 0..(NPD-1)
    BY <1>1 DEF Directories
  <2>2. b \in DOMAIN n.mem
    BY <1>2, <2>1 DEF TableDropped
  <2> QED BY <2>1, <2>2 DEF TableDropped
<1>5. ~Present(n, d, i)
  BY <1>3, <1>4 DEF Present
<1>6. \A b \in DirsIn(D) : \A k \in 0..(NPD-1) :
         ~(b = d /\ k = i) => /\ Present(n, b, k) <=> Present(x, b, k)
                              /\ TableAt(n, b, k) = TableAt(x, b, k)
  BY <1>4 DEF Present, TableAt
<1>7. /\ \A b \in LiveIn(D) : b \in DirsIn(D) /\ Counted(b) = UserPart
      /\ \A b \in DirsIn(D) : Counted(b) \subseteq 0..(NPD-1)
      /\ UserPart \subseteq 0..(NPD-1) /\ d # kern_pgdir
  BY <1>1, CountedIs DEF DirsIn
<1>8. ASSUME NEW b \in DirsIn(D), NEW k \in Counted(b), Present(n, b, k)
      PROVE  /\ ~(b = d /\ k = i) /\ Present(x, b, k) /\ TableAt(n, b, k) = TableAt(x, b, k)
             /\ TableAt(x, b, k) \in (DOMAIN n.mem) \ DirsIn(D) /\ TableAt(x, b, k) # t
  <2>1. /\ ~(b = d /\ k = i) /\ Present(x, b, k) /\ TableAt(n, b, k) = TableAt(x, b, k)
    BY <1>5, <1>6, <1>7, <1>8
  <2>2. TableAt(x, b, k) \in (DOMAIN x.mem) \ DirsIn(D)
    BY <1>1, <2>1 DEF TablesApart
  <2>3. TableAt(x, b, k) # t
    BY <1>1, <1>3, <2>1 DEF TablesApart
  <2> QED BY <2>1, <2>2, <2>3 DEF TableDropped
<1>9. Directories(n, D)
  <2>1. \A b \in DirsIn(D) : /\ b \in DOMAIN n.mem /\ DOMAIN n.mem[b] = DOMAIN x.mem[b]
                             /\ \A k \in 0..(NPD-1) : b = kern_pgdir \/ k \notin UserPart =>
                                   n.mem[b][k] = x.mem[b][k]
    BY <1>4, <1>7
  <2>2. DOMAIN n.pp_ref = DOMAIN x.pp_ref
    BY DEF TableDropped, Decreffed
  <2> QED BY <1>1, <2>1, <2>2, DirectoriesKept
<1>10. TablesApart(n, D)
  BY <1>1, <1>8 DEF TablesApart
<1>11. DOMAIN n.mem \subseteq DOMAIN x.mem
  BY DEF TableDropped
<1>12. Records(n) /\ FreeList(n) /\ ManagedIn(n) = ManagedIn(x)
  <2>1. Decreffed(x, n, t) /\ t \notin DOMAIN n.mem /\ x.pp_ref[t] # 0
    BY <1>2 DEF TableDropped
  <2> QED BY <1>1, <1>2, <1>11, <2>1, FreeListDecref
<1>13. ASSUME NEW b \in LiveIn(D), NEW k \in UserPart, NEW l \in Entries, Present(n, b, k)
       PROVE  Present(x, b, k) /\ Slot(n, b, k, l) = Slot(x, b, k, l)
  <2>1. /\ Present(x, b, k) /\ TableAt(n, b, k) = TableAt(x, b, k)
        /\ TableAt(x, b, k) \in (DOMAIN n.mem) \ DirsIn(D)
    BY <1>7, <1>8, <1>13
  <2>2. DOMAIN x.mem[TableAt(x, b, k)] = Entries
    BY <1>1, <2>1 DEF UserTablesOK
  <2>3. n.mem[TableAt(x, b, k)][l] = x.mem[TableAt(x, b, k)][l]
    BY <1>3, <2>1, <2>2 DEF TableDropped
  <2> QED BY <2>1, <2>3 DEF Slot, TableAt
<1>14. UserTablesOK(n, D)
  <2> SUFFICES ASSUME NEW b \in LiveIn(D), NEW k \in UserPart, Present(n, b, k)
               PROVE  /\ TableAt(n, b, k) \in ManagedIn(n)
                      /\ DOMAIN n.mem[TableAt(n, b, k)] = Entries
                      /\ \A l \in Entries : Slot(n, b, k, l) # Zero =>
                            Slot(n, b, k, l).page \in ManagedIn(n) \ DOMAIN n.mem
    BY DEF UserTablesOK
  <2>1. /\ Present(x, b, k) /\ TableAt(n, b, k) = TableAt(x, b, k)
        /\ TableAt(x, b, k) \in DOMAIN n.mem
    BY <1>7, <1>8
  <2>2. /\ TableAt(x, b, k) \in ManagedIn(x) /\ DOMAIN x.mem[TableAt(x, b, k)] = Entries
        /\ \A l \in Entries : Slot(x, b, k, l) # Zero =>
              Slot(x, b, k, l).page \in ManagedIn(x) \ DOMAIN x.mem
    BY <1>1, <2>1 DEF UserTablesOK
  <2>3. DOMAIN n.mem[TableAt(n, b, k)] = Entries
    BY <2>1, <2>2 DEF TableDropped
  <2>4. ASSUME NEW l \in Entries, Slot(n, b, k, l) # Zero
        PROVE  Slot(n, b, k, l).page \in ManagedIn(n) \ DOMAIN n.mem
    BY <1>11, <1>12, <1>13, <2>2, <2>4
  <2> QED BY <1>12, <2>1, <2>2, <2>3, <2>4
<1>15. \A p : MapRefs(n, D, p) = MapRefs(x, D, p)
  <2> SUFFICES ASSUME NEW p, NEW y \in (LiveIn(D) \X UserPart) \X Entries
               PROVE  y \in MapRefs(n, D, p) <=> y \in MapRefs(x, D, p)
    BY Zenon DEF MapRefs
  <2>1. PICK b \in LiveIn(D), k \in UserPart, l \in Entries : y = <<<<b, k>>, l>>
    OBVIOUS
  <2>2. \A a : y \in MapRefs(a, D, p) <=>
                  Present(a, b, k) /\ Slot(a, b, k, l) # Zero /\ Slot(a, b, k, l).page = p
    BY <2>1, MapRefsHave
  <2>3. CASE Present(n, b, k)
    <3>1. Present(x, b, k) /\ Slot(n, b, k, l) = Slot(x, b, k, l)
      BY <1>13, <2>3
    <3> QED BY <2>2, <2>3, <3>1
  <2>4. CASE ~Present(n, b, k)
    <3>1. Present(x, b, k) => b = d /\ k = i
      BY <1>6, <1>7, <2>4
    <3>2. Present(x, b, k) => Slot(x, b, k, l) = Zero
      BY <3>1
    <3> QED BY <2>2, <2>4, <3>2
  <2> QED BY <2>3, <2>4
<1>16. \A p : TabRefs(n, D, p) = TabRefs(x, D, p) \ {<<d, i>>}
  <2> SUFFICES ASSUME NEW p, NEW y \in DirsIn(D) \X (0..(NPD-1))
               PROVE  y \in TabRefs(n, D, p) <=> y \in TabRefs(x, D, p) /\ y # <<d, i>>
    BY Zenon DEF TabRefs
  <2>1. PICK b \in DirsIn(D), k \in 0..(NPD-1) : y = <<b, k>>
    OBVIOUS
  <2>2. \A a : y \in TabRefs(a, D, p) <=> k \in Counted(b) /\ Present(a, b, k) /\ TableAt(a, b, k) = p
    BY <2>1, TabRefsHave
  <2>3. CASE b = d /\ k = i
    BY <1>5, <2>1, <2>2, <2>3
  <2>4. CASE ~(b = d /\ k = i)
    BY <1>6, <2>1, <2>2, <2>4
  <2> QED BY <2>3, <2>4
<1>17. RefsCounted(n, D, 0)
  <2> SUFFICES ASSUME NEW p \in ManagedIn(x)
               PROVE  n.pp_ref[p] = Cardinality(MapRefs(n, D, p)) + Cardinality(TabRefs(n, D, p))
                                    + Cardinality(EnvRefs(D, p)) + Held(0, p)
    BY <1>12 DEF RefsCounted
  <2>1. x.pp_ref[p] = Cardinality(MapRefs(x, D, p)) + Cardinality(TabRefs(x, D, p))
                       + Cardinality(EnvRefs(D, p)) + Held(0, p)
    BY <1>1 DEF RefsCounted
  <2>2. n.pp_ref[p] = IF p = t THEN x.pp_ref[t] - 1 ELSE x.pp_ref[p]
    BY DEF TableDropped, Decreffed, ManagedIn
  <2>3. MapRefs(n, D, p) = MapRefs(x, D, p)
    BY <1>15
  <2>4. Held(0, p) = 0
    BY DEF Held, ManagedIn
  <2>5. CASE p = t
    <3>1. TabRefs(n, D, p) = {}
      BY <1>2, <1>16, <2>5
    <3>2. Cardinality(TabRefs(x, D, p)) = 1 /\ Cardinality(TabRefs(n, D, p)) = 0
      BY <1>2, <2>5, <3>1, FS_Singleton, FS_EmptySet
    <3> QED BY <2>1, <2>2, <2>3, <2>4, <2>5, <3>2, RefsFinite
  <2>6. CASE p # t
    <3>1. <<d, i>> \notin TabRefs(x, D, p)
      BY <1>3, <2>6, TabRefsHave
    <3>2. TabRefs(n, D, p) = TabRefs(x, D, p)
      BY <1>16, <3>1
    <3> QED BY <2>1, <2>2, <2>3, <2>6, <3>2
  <2> QED BY <2>5, <2>6
<1>18. HoldsPage(n, 0)
  BY DEF HoldsPage
<1>19. MemoryInv(n, D, 0)
  BY <1>9, <1>10, <1>12, <1>14, <1>17, <1>18 DEF MemoryInv
<1> QED BY <1>4, <1>5, <1>13, <1>19

(* Which is what env_free() does to each entry of the user part.             *)
LEMMA DropFields ==
    ASSUME NEW x, NEW D, MemoryInv(x, D, 0), NEW d \in LiveIn(D), NEW i \in UserPart,
           Present(x, d, i), NEW t, t = TableAt(x, d, i),
           NEW n, n = PageDecref([x EXCEPT !.mem[d][i] = Zero], t)
    PROVE  TableDropped(x, n, d, i, t)
<1> DEFINE y == [x EXCEPT !.mem[d][i] = Zero]
<1>1. Records(x) /\ FreeList(x)
  BY DEF MemoryInv
<1>2. t \in ManagedIn(x) /\ x.pp_ref[t] = 1
  BY TableRefs
<1>3. /\ DOMAIN y = Fields /\ y.pp_ref = x.pp_ref /\ y.free = x.free /\ y.panic = x.panic
      /\ DOMAIN y.mem = DOMAIN x.mem
      /\ \A q \in DOMAIN x.mem : DOMAIN y.mem[q] = DOMAIN x.mem[q]
      /\ \A q \in DOMAIN x.mem : \A k \in DOMAIN x.mem[q] :
            y.mem[q][k] = IF q = d /\ k = i THEN Zero ELSE x.mem[q][k]
  BY <1>1 DEF Records, Fields
<1>4. n = PageDecref(y, t)
  OBVIOUS
<1> HIDE DEF y
<1>5. Records(y) /\ FreeList(y) /\ t \in ManagedIn(y) /\ y.pp_ref[t] = 1
  BY <1>1, <1>2, <1>3 DEF Records, FreeList, ManagedIn
<1>6. /\ Decreffed(y, n, t)
      /\ DOMAIN n.mem = (DOMAIN y.mem) \ {t}
      /\ \A q \in DOMAIN n.mem : n.mem[q] = y.mem[q]
  <2>1. y.pp_ref[t] # 0
    BY <1>5
  <2>2. /\ Decreffed(y, PageDecref(y, t), t)
        /\ DOMAIN PageDecref(y, t).mem = (DOMAIN y.mem) \ (IF y.pp_ref[t] = 1 THEN {t} ELSE {})
        /\ \A q \in DOMAIN PageDecref(y, t).mem : PageDecref(y, t).mem[q] = y.mem[q]
    BY <1>5, <2>1, DecrefFields
  <2>3. (IF y.pp_ref[t] = 1 THEN {t} ELSE {}) = {t}
    BY <1>5
  <2> QED BY <1>4, <2>2, <2>3, Zenon
<1>7. Decreffed(x, n, t)
  BY <1>3, <1>6 DEF Decreffed
<1>8. DOMAIN n.mem = (DOMAIN x.mem) \ {t}
  BY <1>3, <1>6
<1>9. ASSUME NEW q \in DOMAIN n.mem
      PROVE  /\ DOMAIN n.mem[q] = DOMAIN x.mem[q]
             /\ \A k \in DOMAIN x.mem[q] :
                   n.mem[q][k] = IF q = d /\ k = i THEN Zero ELSE x.mem[q][k]
  <2>1. q \in DOMAIN x.mem /\ n.mem[q] = y.mem[q]
    BY <1>6, <1>8
  <2> QED BY <1>3, <2>1
<1> QED BY <1>7, <1>8, <1>9 DEF TableDropped

(* One turn of the loop over the directory: the entry is clear, the pages    *)
(* its table mapped lose a reference, and no other address space changes.    *)
TableFreed(m, n, D, d, i) ==
    /\ MemoryInv(n, D, 0) /\ ~Present(n, d, i)
    /\ \A b \in DirsIn(D) : \A k \in 0..(NPD-1) :
          ~(b = d /\ k = i) => n.mem[b][k] = m.mem[b][k]
    /\ OthersSame(m, n, D, d) /\ IdleSame(m, n)

LEMMA FreeTableInv ==
    ASSUME NEW m, NEW D, MemoryInv(m, D, 0), NEW d \in LiveIn(D), NEW i \in UserPart,
           NEW n, n = FreeTable(m, d, i)
    PROVE  TableFreed(m, n, D, d, i)
<1>1. CASE m.mem[d][i] = Zero
  <2>1. n = m
    BY <1>1, TableLoop
  <2> QED BY <1>1, <2>1 DEF TableFreed, Present, OthersSame, IdleSame
<1>2. CASE m.mem[d][i] # Zero
  <2>1. PICK u : /\ IsTableLoop(u, m, d, i, NPT)
                 /\ n = PageDecref([u[NPT] EXCEPT !.mem[d][i] = Zero], m.mem[d][i].page)
    BY <1>2, TableLoop
  <2>2. PICK x : x = u[NPT]
    OBVIOUS
  <2>3. Emptied(m, x, D, d, i, NPT)
    BY <2>1, <2>2, TableLoopInv
  <2>4. d \in DirsIn(D) /\ i \in 0..(NPD-1)
    BY CountedIs DEF DirsIn, MemoryInv
  <2>5. x.mem[d][i] = m.mem[d][i] /\ MemoryInv(x, D, 0)
    BY <2>3, <2>4 DEF Emptied, DirEntriesSame
  <2>6. Present(x, d, i)
    BY <1>2, <2>5 DEF Present
  <2>7. PICK t : t = TableAt(x, d, i)
    OBVIOUS
  <2>8. n = PageDecref([x EXCEPT !.mem[d][i] = Zero], t)
    BY <2>1, <2>2, <2>5, <2>7 DEF TableAt
  <2>9. TableDropped(x, n, d, i, t)
    BY <2>5, <2>6, <2>7, <2>8, DropFields
  <2>10. \A j \in Entries : Slot(x, d, i, j) = Zero
    <3> SUFFICES ASSUME NEW j \in Entries PROVE Slot(x, d, i, j) = Zero
      OBVIOUS
    <3>1. PICK va \in Nat : va = i * NPT + j
      BY EntryAddress
    <3>2. PDX(va) = i /\ PTX(va) = j
      BY <3>1, EntryAddress
    <3>3. j < NPT
      BY PagesAssumption DEF Entries
    <3>4. Pte(x, d, va) = Zero
      BY <2>3, <3>1, <3>3 DEF Emptied
    <3> QED BY <2>6, <3>2, <3>4, PteSlot
  <2>11. /\ MemoryInv(n, D, 0) /\ ~Present(n, d, i)
         /\ \A b \in DirsIn(D) : \A k \in 0..(NPD-1) :
               ~(b = d /\ k = i) => n.mem[b][k] = x.mem[b][k]
         /\ \A b \in LiveIn(D) : \A k \in UserPart : \A l \in Entries :
               Present(n, b, k) => Slot(n, b, k, l) = Slot(x, b, k, l)
    BY <2>5, <2>6, <2>7, <2>9, <2>10, TableDroppedInv
  <2>12. \A b \in DirsIn(D) : \A k \in 0..(NPD-1) :
            ~(b = d /\ k = i) => n.mem[b][k] = m.mem[b][k]
    BY <2>3, <2>11 DEF Emptied, DirEntriesSame
  <2>13. OthersSame(m, n, D, d)
    <3> SUFFICES ASSUME NEW b \in LiveIn(D), b # d, NEW v \in Nat, ValidVa(v)
                 PROVE  Pte(n, b, v) = Pte(m, b, v)
      BY DEF OthersSame
    <3>1. PDX(v) \in UserPart /\ PTX(v) \in Entries
      BY Address, UserAddress
    <3>2. b \in DirsIn(D) /\ PDX(v) \in 0..(NPD-1)
      BY <3>1, CountedIs DEF DirsIn, MemoryInv
    <3>3. Present(n, b, PDX(v)) <=> Present(x, b, PDX(v))
      BY <2>11, <3>2 DEF Present
    <3>4. Pte(n, b, v) = Pte(x, b, v)
      BY <2>11, <3>1, <3>3, PteSlot
    <3> QED BY <2>3, <3>4 DEF Emptied, OthersSame
  <2>14. IdleSame(m, n)
    <3>1. Records(x) /\ FreeList(x)
      BY <2>5 DEF MemoryInv
    <3>2. t \in ManagedIn(x) /\ x.pp_ref[t] # 0
      BY <2>5, <2>6, <2>7, TableRefs
    <3>3. IdleSame(x, n)
      BY <2>9, <3>1, <3>2, IdleDecref DEF TableDropped
    <3> QED BY <2>3, <3>3 DEF Emptied, SamePages, IdleSame
  <2> QED BY <2>11, <2>12, <2>13, <2>14 DEF TableFreed
<1> QED BY <1>1, <1>2

(* The loop over the directory leaves it empty.                              *)
Cleared(m, n, D, d, i) ==
    /\ MemoryInv(n, D, 0) /\ OthersSame(m, n, D, d) /\ IdleSame(m, n)
    /\ \A k \in UserPart : k < i => ~Present(n, d, k)

LEMMA ClearedStep ==
    ASSUME NEW m, NEW D, NEW d \in LiveIn(D), NEW i \in UserPart,
           NEW x, Cleared(m, x, D, d, i), NEW y, y = FreeTable(x, d, i)
    PROVE  Cleared(m, y, D, d, i + 1)
<1>1. MemoryInv(x, D, 0)
  BY DEF Cleared
<1>2. TableFreed(x, y, D, d, i)
  BY <1>1, FreeTableInv
<1>3. OthersSame(m, y, D, d)
  BY <1>2 DEF OthersSame, Cleared, TableFreed
<1>4. ASSUME NEW k \in UserPart, k < i + 1 PROVE ~Present(y, d, k)
  <2>1. CASE k = i
    BY <1>2, <2>1 DEF TableFreed
  <2>2. CASE k # i
    <3>1. k < i
      BY <1>4, <2>2, PagesAssumption DEF UserPart
    <3>2. d \in DirsIn(D) /\ k \in 0..(NPD-1)
      BY <1>1, CountedIs DEF DirsIn, MemoryInv
    <3>3. y.mem[d][k] = x.mem[d][k]
      BY <1>2, <2>2, <3>2 DEF TableFreed
    <3>4. ~Present(x, d, k)
      BY <3>1 DEF Cleared
    <3> QED BY <3>3, <3>4 DEF Present
  <2> QED BY <2>1, <2>2
<1>5. IdleSame(m, y)
  BY <1>2 DEF IdleSame, Cleared, TableFreed
<1> QED BY <1>2, <1>3, <1>4, <1>5 DEF Cleared, TableFreed

LEMMA UserLoopInv ==
    ASSUME NEW m, NEW D, MemoryInv(m, D, 0), NEW d \in LiveIn(D),
           NEW u, IsUserLoop(u, m, d, UserPds)
    PROVE  Cleared(m, u[UserPds], D, d, UserPds)
<1> DEFINE S == {i \in Nat : i <= UserPds => Cleared(m, u[i], D, d, i)}
<1>1. 0 \in S
  <2>1. u[0] = m
    BY DEF IsUserLoop
  <2>2. \A k \in UserPart : ~(k < 0)
    BY DEF UserPart
  <2>3. Cleared(m, m, D, d, 0)
    BY <2>2 DEF Cleared, OthersSame, IdleSame
  <2> QED BY <2>1, <2>3
<1>2. ASSUME NEW i \in Nat, i \in S PROVE i + 1 \in S
  <2> SUFFICES ASSUME i + 1 <= UserPds PROVE Cleared(m, u[i + 1], D, d, i + 1)
    OBVIOUS
  <2>1. i \in UserPart /\ i + 1 \in 1..UserPds /\ i <= UserPds
    BY PagesAssumption DEF UserPart
  <2>2. Cleared(m, u[i], D, d, i)
    BY <1>2, <2>1
  <2>3. u[i + 1] = FreeTable(u[(i + 1) - 1], d, (i + 1) - 1)
    BY <2>1, Zenon DEF IsUserLoop
  <2>4. (i + 1) - 1 = i
    OBVIOUS
  <2>5. u[i + 1] = FreeTable(u[i], d, i)
    BY <2>3, <2>4
  <2> QED BY <2>1, <2>2, <2>5, ClearedStep
<1>3. Nat \subseteq S
  <2> HIDE DEF S
  <2> QED BY <1>1, <1>2, Induction
<1>4. UserPds \in Nat /\ UserPds <= UserPds
  BY PagesAssumption
<1> QED BY <1>3, <1>4

-----------------------------------------------------------------------------
(* Environments come and go.                                                 *)

(* The mappings of D are those of m.                                         *)
MappingsSame(m, n, D) ==
    \A b \in LiveIn(D) : \A u \in Nat : ValidVa(u) => Pte(n, b, u) = Pte(m, b, u)

(* The directories without that of f.                                        *)
LEMMA LiveWithout ==
    ASSUME NEW m, NEW D, Directories(m, D), NEW f \in Envs, D[f] # 0,
           NEW E, E = [D EXCEPT ![f] = 0]
    PROVE  /\ D[f] \in LiveIn(D) /\ D[f] # kern_pgdir
           /\ LiveIn(E) = LiveIn(D) \ {D[f]} /\ DirsIn(E) = DirsIn(D) \ {D[f]}
           /\ DOMAIN E = Envs
           /\ \A e \in Envs : E[e] = IF e = f THEN 0 ELSE D[e]
<1>1. /\ DOMAIN D = Envs /\ D[f] # kern_pgdir
      /\ \A e, g \in Envs : D[e] # 0 /\ D[e] = D[g] => e = g
  BY DEF Directories
<1>2. DOMAIN E = Envs /\ \A e \in Envs : E[e] = IF e = f THEN 0 ELSE D[e]
  BY <1>1
<1>3. LiveIn(E) = LiveIn(D) \ {D[f]}
  BY <1>1, <1>2 DEF LiveIn
<1>4. D[f] \in LiveIn(D)
  BY DEF LiveIn
<1> QED BY <1>1, <1>2, <1>3, <1>4 DEF DirsIn

(* An empty directory is referred to by its environment only.                *)
LEMMA DirRefs ==
    ASSUME NEW m, NEW D, MemoryInv(m, D, 0), NEW f \in Envs, D[f] # 0,
           NEW d, d = D[f]
    PROVE  /\ d \in ManagedIn(m) /\ d \in DOMAIN m.mem
           /\ EnvRefs(D, d) = {f} /\ m.pp_ref[d] = 1
<1>1. Structure(m, D) /\ RefsCounted(m, D, 0) /\ Directories(m, D) /\ TablesApart(m, D)
  BY DEF MemoryInv, Structure
<1>2. d \in LiveIn(D) /\ d \in DirsIn(D)
  BY DEF LiveIn, DirsIn
<1>3. d \in ManagedIn(m) /\ d \in DOMAIN m.mem
  BY <1>1, <1>2 DEF Directories
<1>4. MapRefs(m, D, d) = {}
  <2> SUFFICES ASSUME NEW y \in MapRefs(m, D, d) PROVE FALSE
    OBVIOUS
  <2> y \in (LiveIn(D) \X UserPart) \X Entries
    BY DEF MapRefs
  <2>1. PICK b \in LiveIn(D), k \in UserPart, l \in Entries : y = <<<<b, k>>, l>>
    OBVIOUS
  <2>2. Present(m, b, k) /\ Slot(m, b, k, l) # Zero /\ Slot(m, b, k, l).page = d
    BY <2>1, MapRefsHave
  <2> QED BY <1>1, <1>3, <2>2 DEF Structure, UserTablesOK
<1>5. TabRefs(m, D, d) = {}
  <2> SUFFICES ASSUME NEW y \in TabRefs(m, D, d) PROVE FALSE
    OBVIOUS
  <2> y \in DirsIn(D) \X (0..(NPD-1))
    BY DEF TabRefs
  <2>1. PICK b \in DirsIn(D), k \in 0..(NPD-1) : y = <<b, k>>
    OBVIOUS
  <2>2. k \in Counted(b) /\ Present(m, b, k) /\ TableAt(m, b, k) = d
    BY <2>1, TabRefsHave
  <2> QED BY <1>1, <1>2, <2>2 DEF TablesApart
<1>6. EnvRefs(D, d) = {f}
  BY <1>1 DEF EnvRefs, Directories
<1>7. Held(0, d) = 0
  BY <1>3 DEF Held, ManagedIn
<1>8. m.pp_ref[d] = Cardinality(MapRefs(m, D, d)) + Cardinality(TabRefs(m, D, d))
                    + Cardinality(EnvRefs(D, d)) + Held(0, d)
  BY <1>1, <1>3 DEF RefsCounted
<1>9. Cardinality(EnvRefs(D, d)) = 1
  BY <1>6, FS_Singleton
<1>10. m.pp_ref[d] = 1
  BY <1>4, <1>5, <1>7, <1>8, <1>9, FS_EmptySet
<1> QED BY <1>3, <1>6, <1>10

(* The end of env_free(): the directory goes.                                *)
LEMMA DirFreedInv ==
    ASSUME NEW m, NEW D, MemoryInv(m, D, 0), NEW f \in Envs, D[f] # 0,
           \A k \in UserPart : ~Present(m, D[f], k),
           NEW n, n = PageDecref(m, D[f]),
           NEW E, E = [D EXCEPT ![f] = 0]
    PROVE  MemoryInv(n, E, 0) /\ MappingsSame(m, n, E) /\ IdleSame(m, n)
<1> PICK d : d = D[f]
  OBVIOUS
<1>1. /\ Records(m) /\ FreeList(m) /\ Structure(m, D) /\ RefsCounted(m, D, 0) /\ Directories(m, D)
      /\ TablesApart(m, D) /\ UserTablesOK(m, D)
  BY DEF MemoryInv, Structure
<1>2. /\ d \in LiveIn(D) /\ d # kern_pgdir
      /\ LiveIn(E) = LiveIn(D) \ {d} /\ DirsIn(E) = DirsIn(D) \ {d}
      /\ DOMAIN E = Envs
      /\ \A e \in Envs : E[e] = IF e = f THEN 0 ELSE D[e]
  BY <1>1, LiveWithout
<1>3. /\ d \in ManagedIn(m) /\ d \in DOMAIN m.mem
      /\ EnvRefs(D, d) = {f} /\ m.pp_ref[d] = 1
  BY DirRefs
<1>4. /\ Decreffed(m, n, d)
      /\ DOMAIN n.mem = (DOMAIN m.mem) \ {d}
      /\ \A q \in DOMAIN n.mem : n.mem[q] = m.mem[q]
  <2>1. m.pp_ref[d] # 0 /\ n = PageDecref(m, d)
    BY <1>3
  <2>2. /\ Decreffed(m, n, d)
        /\ DOMAIN n.mem = (DOMAIN m.mem) \ (IF m.pp_ref[d] = 1 THEN {d} ELSE {})
        /\ \A q \in DOMAIN n.mem : n.mem[q] = m.mem[q]
    BY <1>1, <1>3, <2>1, DecrefFields
  <2>3. (IF m.pp_ref[d] = 1 THEN {d} ELSE {}) = {d}
    BY <1>3
  <2> QED BY <2>2, <2>3, Zenon
<1>5. Records(n) /\ FreeList(n) /\ ManagedIn(n) = ManagedIn(m)
  <2>1. DOMAIN n.mem \subseteq DOMAIN m.mem /\ d \notin DOMAIN n.mem /\ m.pp_ref[d] # 0
    BY <1>3, <1>4
  <2> QED BY <1>1, <1>3, <1>4, <2>1, FreeListDecref
<1>6. /\ \A b \in LiveIn(D) : b \in DirsIn(D) /\ Counted(b) = UserPart
      /\ \A b \in DirsIn(D) : Counted(b) \subseteq 0..(NPD-1)
      /\ UserPart \subseteq 0..(NPD-1)
  BY <1>1, CountedIs DEF DirsIn
<1>7. \A b \in DirsIn(E) : b \in DOMAIN n.mem /\ b \in DirsIn(D) /\ n.mem[b] = m.mem[b]
  BY <1>1, <1>2, <1>4 DEF Directories
<1>8. Directories(n, E)
  <2>1. \A e \in Envs : E[e] # kern_pgdir
    BY <1>1, <1>2 DEF Directories
  <2>2. \A e, g \in Envs : E[e] # 0 /\ E[e] = E[g] => e = g
    BY <1>1, <1>2 DEF Directories
  <2>3. LiveIn(E) \subseteq ManagedIn(n)
    BY <1>1, <1>2, <1>5 DEF Directories
  <2>4. \A b \in DirsIn(E) : b \in DOMAIN n.mem /\ DOMAIN n.mem[b] = 0..(NPD-1)
    BY <1>1, <1>7 DEF Directories
  <2>5. kern_pgdir \in DirsIn(E) /\ LiveIn(E) \subseteq DirsIn(E)
    BY DEF DirsIn
  <2>6. n.mem[kern_pgdir] = m.mem[kern_pgdir] /\ \A b \in LiveIn(E) : n.mem[b] = m.mem[b]
    BY <1>7, <2>5
  <2>7. \A i \in UserPart : ~Present(n, kern_pgdir, i)
    BY <1>1, <2>6 DEF Directories, Present
  <2>8. \A b \in LiveIn(E) : \A i \in UserPds..(NPD-1) :
           n.mem[b][i] = IF i = PDX(UVPT) THEN [page |-> b, perm |-> {"P", "U"}]
                         ELSE n.mem[kern_pgdir][i]
    <3> SUFFICES ASSUME NEW b \in LiveIn(E), NEW i \in UserPds..(NPD-1)
                 PROVE  n.mem[b][i] = IF i = PDX(UVPT) THEN [page |-> b, perm |-> {"P", "U"}]
                                      ELSE n.mem[kern_pgdir][i]
      OBVIOUS
    <3>1. b \in LiveIn(D)
      BY <1>2
    <3>2. m.mem[b][i] = IF i = PDX(UVPT) THEN [page |-> b, perm |-> {"P", "U"}]
                        ELSE m.mem[kern_pgdir][i]
      BY <1>1, <3>1, Zenon DEF Directories
    <3> QED BY <2>6, <3>2
  <2>9. kern_pgdir # 0
    BY <1>1 DEF Directories
  <2> QED BY <1>2, <2>1, <2>2, <2>3, <2>4, <2>7, <2>8, <2>9 DEF Directories
<1>9. \A b \in DirsIn(E) : \A k :
         (Present(n, b, k) <=> Present(m, b, k)) /\ TableAt(n, b, k) = TableAt(m, b, k)
  BY <1>7 DEF Present, TableAt
<1>10. TablesApart(n, E)
  <2> SUFFICES ASSUME NEW b \in DirsIn(E), NEW k \in Counted(b), Present(n, b, k)
               PROVE  /\ TableAt(n, b, k) \in (DOMAIN n.mem) \ DirsIn(E)
                      /\ \A c \in DirsIn(E) : \A l \in Counted(c) :
                            Present(n, c, l) /\ TableAt(n, c, l) = TableAt(n, b, k) => c = b /\ l = k
    BY DEF TablesApart
  <2>1. b \in DirsIn(D) /\ Present(m, b, k) /\ TableAt(n, b, k) = TableAt(m, b, k)
    BY <1>7, <1>9
  <2>2. TableAt(m, b, k) \in (DOMAIN m.mem) \ DirsIn(D)
    BY <1>1, <2>1 DEF TablesApart
  <2>3. TableAt(m, b, k) # d
    BY <1>2, <1>6, <2>2
  <2>4. TableAt(n, b, k) \in (DOMAIN n.mem) \ DirsIn(E)
    BY <1>2, <1>4, <2>1, <2>2, <2>3
  <2>5. ASSUME NEW c \in DirsIn(E), NEW l \in Counted(c),
               Present(n, c, l), TableAt(n, c, l) = TableAt(n, b, k)
        PROVE  c = b /\ l = k
    <3>1. c \in DirsIn(D) /\ Present(m, c, l) /\ TableAt(m, c, l) = TableAt(m, b, k)
      BY <1>7, <1>9, <2>1, <2>5
    <3> QED BY <1>1, <2>1, <3>1 DEF TablesApart
  <2> QED BY <2>4, <2>5
<1>11. ASSUME NEW b \in LiveIn(E), NEW k \in UserPart, Present(n, b, k)
       PROVE  /\ Present(m, b, k) /\ TableAt(n, b, k) = TableAt(m, b, k) /\ b \in LiveIn(D)
              /\ n.mem[TableAt(m, b, k)] = m.mem[TableAt(m, b, k)]
              /\ \A l : Slot(n, b, k, l) = Slot(m, b, k, l)
  <2>1. b \in LiveIn(D) /\ b \in DirsIn(E)
    BY <1>2 DEF DirsIn
  <2>2. Present(m, b, k) /\ TableAt(n, b, k) = TableAt(m, b, k)
    BY <1>9, <1>11, <2>1
  <2>3. k \in Counted(b) /\ b \in DirsIn(D)
    BY <1>6, <2>1
  <2>4. TableAt(m, b, k) \in (DOMAIN m.mem) \ DirsIn(D)
    BY <1>1, <2>2, <2>3 DEF TablesApart
  <2>5. TableAt(m, b, k) \in DOMAIN n.mem
    BY <1>2, <1>4, <1>6, <2>4
  <2>6. n.mem[TableAt(m, b, k)] = m.mem[TableAt(m, b, k)]
    BY <1>4, <2>5
  <2> QED BY <2>1, <2>2, <2>6 DEF Slot, TableAt
<1>12. UserTablesOK(n, E)
  <2> SUFFICES ASSUME NEW b \in LiveIn(E), NEW k \in UserPart, Present(n, b, k)
               PROVE  /\ TableAt(n, b, k) \in ManagedIn(n)
                      /\ DOMAIN n.mem[TableAt(n, b, k)] = Entries
                      /\ \A l \in Entries : Slot(n, b, k, l) # Zero =>
                            Slot(n, b, k, l).page \in ManagedIn(n) \ DOMAIN n.mem
    BY DEF UserTablesOK
  <2>1. /\ Present(m, b, k) /\ TableAt(n, b, k) = TableAt(m, b, k) /\ b \in LiveIn(D)
        /\ n.mem[TableAt(m, b, k)] = m.mem[TableAt(m, b, k)]
        /\ \A l : Slot(n, b, k, l) = Slot(m, b, k, l)
    BY <1>11
  <2>2. /\ TableAt(m, b, k) \in ManagedIn(m) /\ DOMAIN m.mem[TableAt(m, b, k)] = Entries
        /\ \A l \in Entries : Slot(m, b, k, l) # Zero =>
              Slot(m, b, k, l).page \in ManagedIn(m) \ DOMAIN m.mem
    BY <1>1, <2>1 DEF UserTablesOK
  <2> QED BY <1>4, <1>5, <2>1, <2>2
<1>13. \A p : MapRefs(n, E, p) = MapRefs(m, D, p)
  <2>1. ASSUME NEW p, NEW y \in (LiveIn(D) \X UserPart) \X Entries
        PROVE  y \in MapRefs(n, E, p) <=> y \in MapRefs(m, D, p)
    <3>1. PICK b \in LiveIn(D), k \in UserPart, l \in Entries : y = <<<<b, k>>, l>>
      OBVIOUS
    <3>2. y \in MapRefs(m, D, p) <=>
             Present(m, b, k) /\ Slot(m, b, k, l) # Zero /\ Slot(m, b, k, l).page = p
      BY <3>1, MapRefsHave
    <3>3. CASE b = d
      <4>1. y \notin (LiveIn(E) \X UserPart) \X Entries
        BY <1>2, <3>1, <3>3
      <4>2. y \notin MapRefs(n, E, p)
        BY <4>1 DEF MapRefs
      <4>3. ~Present(m, b, k)
        BY <3>3
      <4> QED BY <3>2, <4>2, <4>3
    <3>4. CASE b # d
      <4>1. b \in LiveIn(E) /\ b \in DirsIn(E)
        BY <1>2, <3>4 DEF DirsIn
      <4>2. y \in MapRefs(n, E, p) <=>
               Present(n, b, k) /\ Slot(n, b, k, l) # Zero /\ Slot(n, b, k, l).page = p
        BY <3>1, <4>1, MapRefsHave
      <4>3. Present(n, b, k) <=> Present(m, b, k)
        BY <1>9, <4>1
      <4>4. Present(n, b, k) => Slot(n, b, k, l) = Slot(m, b, k, l)
        BY <1>11, <4>1
      <4> QED BY <3>2, <4>2, <4>3, <4>4
    <3> QED BY <3>3, <3>4
  <2>2. ASSUME NEW p PROVE MapRefs(n, E, p) = MapRefs(m, D, p)
    <3>1. /\ MapRefs(n, E, p) \subseteq (LiveIn(E) \X UserPart) \X Entries
          /\ MapRefs(m, D, p) \subseteq (LiveIn(D) \X UserPart) \X Entries
      BY DEF MapRefs
    <3>2. (LiveIn(E) \X UserPart) \X Entries \subseteq (LiveIn(D) \X UserPart) \X Entries
      BY <1>2
    <3>3. \A y \in (LiveIn(D) \X UserPart) \X Entries : y \in MapRefs(n, E, p) <=> y \in MapRefs(m, D, p)
      BY <2>1
    <3> QED BY <3>1, <3>2, <3>3
  <2> QED BY <2>2
<1>14. \A p : TabRefs(n, E, p) = TabRefs(m, D, p)
  <2>1. ASSUME NEW p, NEW y \in DirsIn(D) \X (0..(NPD-1))
        PROVE  y \in TabRefs(n, E, p) <=> y \in TabRefs(m, D, p)
    <3>1. PICK b \in DirsIn(D), k \in 0..(NPD-1) : y = <<b, k>>
      OBVIOUS
    <3>2. y \in TabRefs(m, D, p) <=> k \in Counted(b) /\ Present(m, b, k) /\ TableAt(m, b, k) = p
      BY <3>1, TabRefsHave
    <3>3. CASE b = d
      <4>1. y \notin DirsIn(E) \X (0..(NPD-1))
        BY <1>2, <3>1, <3>3
      <4>2. y \notin TabRefs(n, E, p)
        BY <4>1 DEF TabRefs
      <4>3. k \in Counted(b) => ~Present(m, b, k)
        BY <1>2, <1>6, <3>3
      <4> QED BY <3>2, <4>2, <4>3
    <3>4. CASE b # d
      <4>1. b \in DirsIn(E)
        BY <1>2, <3>4
      <4>2. y \in TabRefs(n, E, p) <=> k \in Counted(b) /\ Present(n, b, k) /\ TableAt(n, b, k) = p
        BY <3>1, <4>1, TabRefsHave
      <4> QED BY <1>9, <3>2, <4>1, <4>2
    <3> QED BY <3>3, <3>4
  <2>2. ASSUME NEW p PROVE TabRefs(n, E, p) = TabRefs(m, D, p)
    <3>1. /\ TabRefs(n, E, p) \subseteq DirsIn(E) \X (0..(NPD-1))
          /\ TabRefs(m, D, p) \subseteq DirsIn(D) \X (0..(NPD-1))
      BY DEF TabRefs
    <3>2. DirsIn(E) \X (0..(NPD-1)) \subseteq DirsIn(D) \X (0..(NPD-1))
      BY <1>2
    <3>3. \A y \in DirsIn(D) \X (0..(NPD-1)) : y \in TabRefs(n, E, p) <=> y \in TabRefs(m, D, p)
      BY <2>1
    <3> QED BY <3>1, <3>2, <3>3
  <2> QED BY <2>2
<1>15. RefsCounted(n, E, 0)
  <2> SUFFICES ASSUME NEW p \in ManagedIn(m)
               PROVE  n.pp_ref[p] = Cardinality(MapRefs(n, E, p)) + Cardinality(TabRefs(n, E, p))
                                    + Cardinality(EnvRefs(E, p)) + Held(0, p)
    BY <1>5 DEF RefsCounted
  <2>1. m.pp_ref[p] = Cardinality(MapRefs(m, D, p)) + Cardinality(TabRefs(m, D, p))
                       + Cardinality(EnvRefs(D, p)) + Held(0, p)
    BY <1>1 DEF RefsCounted
  <2>2. n.pp_ref[p] = IF p = d THEN m.pp_ref[d] - 1 ELSE m.pp_ref[p]
    BY <1>4 DEF Decreffed, ManagedIn
  <2>3. MapRefs(n, E, p) = MapRefs(m, D, p) /\ TabRefs(n, E, p) = TabRefs(m, D, p)
    BY <1>13, <1>14
  <2>4. p # 0 /\ Held(0, p) = 0
    BY DEF Held, ManagedIn
  <2>5. CASE p = d
    <3>1. EnvRefs(E, p) = {}
      BY <1>2, <1>3, <2>4, <2>5 DEF EnvRefs
    <3>2. Cardinality(EnvRefs(D, p)) = 1 /\ Cardinality(EnvRefs(E, p)) = 0
      BY <1>3, <2>5, <3>1, FS_Singleton, FS_EmptySet
    <3> QED BY <2>1, <2>2, <2>3, <2>4, <2>5, <3>2, RefsFinite
  <2>6. CASE p # d
    <3>1. EnvRefs(E, p) = EnvRefs(D, p)
      BY <1>2, <2>4, <2>6 DEF EnvRefs
    <3> QED BY <2>1, <2>2, <2>3, <2>6, <3>1
  <2> QED BY <2>5, <2>6
<1>16. MemoryInv(n, E, 0)
  BY <1>5, <1>8, <1>10, <1>12, <1>15 DEF MemoryInv, HoldsPage
<1>17. MappingsSame(m, n, E)
  <2> SUFFICES ASSUME NEW b \in LiveIn(E), NEW u \in Nat, ValidVa(u)
               PROVE  Pte(n, b, u) = Pte(m, b, u)
    BY DEF MappingsSame
  <2>1. PDX(u) \in UserPart
    BY UserAddress
  <2>2. Present(n, b, PDX(u)) <=> Present(m, b, PDX(u))
    BY <1>9 DEF DirsIn
  <2>3. Present(n, b, PDX(u)) => Slot(n, b, PDX(u), PTX(u)) = Slot(m, b, PDX(u), PTX(u))
    BY <1>11, <2>1
  <2> QED BY <2>2, <2>3, PteSlot
<1>18. IdleSame(m, n)
  BY <1>1, <1>3, <1>4, IdleDecref
<1> QED BY <1>16, <1>17, <1>18

(* env_free(): the other address spaces stay as they are.                    *)
LEMMA EnvFreePagesInv ==
    ASSUME NEW m, NEW D, MemoryInv(m, D, 0), NEW f \in Envs, D[f] # 0,
           NEW n, n = EnvFreePages(m, D[f]),
           NEW E, E = [D EXCEPT ![f] = 0]
    PROVE  MemoryInv(n, E, 0) /\ MappingsSame(m, n, E) /\ IdleSame(m, n)
<1> PICK d : d = D[f]
  OBVIOUS
<1>1. d \in LiveIn(D) /\ LiveIn(E) = LiveIn(D) \ {d}
  BY LiveWithout DEF MemoryInv
<1>2. PICK u : IsUserLoop(u, m, d, UserPds) /\ EnvFreePages(m, d) = PageDecref(u[UserPds], d)
  BY UserLoop
<1>3. PICK x : x = u[UserPds]
  OBVIOUS
<1>4. Cleared(m, x, D, d, UserPds)
  BY <1>1, <1>2, <1>3, UserLoopInv
<1>5. \A k \in UserPart : ~Present(x, d, k)
  <2>1. \A k \in UserPart : k < UserPds
    BY PagesAssumption DEF UserPart
  <2> QED BY <1>4, <2>1 DEF Cleared
<1>6. MemoryInv(x, D, 0) /\ OthersSame(m, x, D, d) /\ IdleSame(m, x)
  BY <1>4 DEF Cleared
<1>7. n = PageDecref(x, d)
  BY <1>2, <1>3
<1>8. MemoryInv(n, E, 0) /\ MappingsSame(x, n, E) /\ IdleSame(x, n)
  BY <1>5, <1>6, <1>7, DirFreedInv
<1>9. MappingsSame(m, n, E)
  BY <1>1, <1>6, <1>8 DEF MappingsSame, OthersSame
<1> QED BY <1>6, <1>8, <1>9 DEF IdleSame

(* env_setup_vm(): the fields of the memory then.                            *)
DirAddedAt(a, n, p) ==
    /\ DOMAIN n = Fields /\ n.panic = a.panic /\ n.free = a.free
    /\ n.pp_ref = [a.pp_ref EXCEPT ![p] = @ + 1]
    /\ DOMAIN n.mem = (DOMAIN a.mem) \union {p}
    /\ n.mem[p] = [a.mem[kern_pgdir] EXCEPT ![PDX(UVPT)] = [page |-> p, perm |-> {"P", "U"}]]
    /\ \A q \in DOMAIN a.mem : q # p => n.mem[q] = a.mem[q]

LEMMA SetupFields ==
    ASSUME NEW m, DOMAIN m = Fields, NEW p, p = Head(m.free),
           NEW n, n = EnvSetupVm(m)
    PROVE  DirAddedAt(PageAlloc(m), n, p)
<1> DEFINE a == PageAlloc(m)
           t == [a.mem[kern_pgdir] EXCEPT ![PDX(UVPT)] = [page |-> p, perm |-> {"P", "U"}]]
<1>1. DOMAIN a = Fields
  BY AllocFields
<1>2. n = [a EXCEPT !.pp_ref[p] = @ + 1, !.mem = WithTable(@, p, t)]
  BY DEF EnvSetupVm
<1> HIDE DEF a, t
<1>3. /\ DOMAIN n = Fields /\ n.panic = a.panic /\ n.free = a.free
      /\ n.pp_ref = [a.pp_ref EXCEPT ![p] = @ + 1]
      /\ n.mem = WithTable(a.mem, p, t)
  BY <1>1, <1>2 DEF Fields
<1>4. /\ DOMAIN n.mem = (DOMAIN a.mem) \union {p} /\ n.mem[p] = t
      /\ \A q \in DOMAIN a.mem : q # p => n.mem[q] = a.mem[q]
  BY <1>3 DEF WithTable
<1> QED BY <1>3, <1>4 DEF DirAddedAt, a, t

(* A fresh page becomes the directory of f.                                  *)
LEMMA DirAddedInv ==
    ASSUME NEW a, NEW D, MemoryInv(a, D, 0), NEW f \in Envs, D[f] = 0,
           NEW p, Fresh(a, D, p), NEW n, DirAddedAt(a, n, p),
           NEW E, E = [D EXCEPT ![f] = p]
    PROVE  MemoryInv(n, E, 0) /\ MappingsSame(a, n, D)
<1>1. /\ Records(a) /\ FreeList(a) /\ Structure(a, D) /\ RefsCounted(a, D, 0) /\ Directories(a, D)
      /\ TablesApart(a, D) /\ UserTablesOK(a, D)
  BY DEF MemoryInv, Structure
<1>2. /\ p \in ManagedIn(a) \ DOMAIN a.mem /\ p # 0 /\ a.pp_ref[p] = 0
      /\ \A k \in DOMAIN a.free : a.free[k] # p
      /\ MapRefs(a, D, p) = {} /\ TabRefs(a, D, p) = {} /\ EnvRefs(D, p) = {}
  BY DEF Fresh, ManagedIn
<1>3. /\ LiveIn(E) = LiveIn(D) \union {p} /\ DirsIn(E) = DirsIn(D) \union {p}
      /\ DOMAIN E = Envs
      /\ \A e \in Envs : E[e] = IF e = f THEN p ELSE D[e]
  <2>1. DOMAIN E = Envs /\ \A e \in Envs : E[e] = IF e = f THEN p ELSE D[e]
    BY <1>1 DEF Directories
  <2>2. LiveIn(E) = LiveIn(D) \union {p}
    BY <1>2, <2>1 DEF LiveIn
  <2> QED BY <2>1, <2>2 DEF DirsIn
<1>4. /\ DOMAIN n = Fields /\ n.panic = a.panic /\ n.free = a.free
      /\ DOMAIN n.pp_ref = DOMAIN a.pp_ref
      /\ \A q \in DOMAIN a.pp_ref : n.pp_ref[q] = IF q = p THEN a.pp_ref[p] + 1 ELSE a.pp_ref[q]
      /\ DOMAIN n.mem = (DOMAIN a.mem) \union {p}
      /\ n.mem[p] = [a.mem[kern_pgdir] EXCEPT ![PDX(UVPT)] = [page |-> p, perm |-> {"P", "U"}]]
      /\ \A q \in DOMAIN a.mem : n.mem[q] = a.mem[q]
  BY <1>2 DEF DirAddedAt
<1>5. ManagedIn(n) = ManagedIn(a)
  BY <1>4 DEF ManagedIn
<1>6. \A q \in ManagedIn(a) : n.pp_ref[q] = IF q = p THEN 1 ELSE a.pp_ref[q]
  BY <1>2, <1>4 DEF ManagedIn
<1>7. Records(n)
  BY <1>1, <1>4, <1>5, <1>6 DEF Records
<1>8. FreeList(n)
  <2> SUFFICES ASSUME NEW k \in DOMAIN a.free
               PROVE  /\ n.pp_ref[a.free[k]] = 0
                      /\ a.free[k] \notin DOMAIN n.mem
                      /\ \A l \in DOMAIN a.free : a.free[k] = a.free[l] => k = l
    BY <1>1, <1>4, <1>5 DEF FreeList
  <2>1. a.free[k] \in ManagedIn(a) /\ a.free[k] # p
    BY <1>1, <1>2 DEF FreeList
  <2> QED BY <1>1, <1>4, <1>6, <2>1 DEF FreeList
<1>9. /\ \A b \in LiveIn(D) : b \in DirsIn(D) /\ Counted(b) = UserPart
      /\ UserPart \subseteq 0..(NPD-1)
      /\ kern_pgdir \in DirsIn(D)
  BY <1>1, CountedIs DEF DirsIn
<1>10. \A b \in DirsIn(D) : b \in DOMAIN a.mem /\ b # p /\ n.mem[b] = a.mem[b]
  BY <1>1, <1>2, <1>4 DEF Directories
<1>11. p # kern_pgdir /\ Counted(p) = UserPart
  BY <1>9, <1>10 DEF Counted, UserPart
<1>12. /\ DOMAIN n.mem[p] = 0..(NPD-1)
       /\ \A i \in 0..(NPD-1) :
             n.mem[p][i] = IF i = PDX(UVPT) THEN [page |-> p, perm |-> {"P", "U"}]
                           ELSE n.mem[kern_pgdir][i]
  <2>1. DOMAIN a.mem[kern_pgdir] = 0..(NPD-1) /\ n.mem[kern_pgdir] = a.mem[kern_pgdir]
    BY <1>1, <1>9, <1>10 DEF Directories
  <2> QED BY <1>4, <2>1
<1>13. \A i \in UserPart : ~Present(n, kern_pgdir, i) /\ ~Present(n, p, i)
  <2> SUFFICES ASSUME NEW i \in UserPart PROVE ~Present(n, kern_pgdir, i) /\ ~Present(n, p, i)
    OBVIOUS
  <2>1. ~Present(a, kern_pgdir, i)
    BY <1>1 DEF Directories
  <2>2. n.mem[kern_pgdir][i] = Zero
    BY <1>9, <1>10, <2>1 DEF Present
  <2>3. i # PDX(UVPT)
    BY Layout, PagesAssumption DEF UserPart
  <2>4. n.mem[p][i] = Zero
    BY <1>9, <1>12, <2>2, <2>3
  <2> QED BY <2>2, <2>4 DEF Present
<1>14. Directories(n, E)
  <2>1. \A e \in Envs : E[e] # kern_pgdir
    BY <1>1, <1>3, <1>11 DEF Directories
  <2>2. \A e, g \in Envs : E[e] # 0 /\ E[e] = E[g] => e = g
    <3>1. \A e \in Envs : D[e] # p
      BY <1>2 DEF EnvRefs
    <3> QED BY <1>1, <1>3, <3>1 DEF Directories
  <2>3. LiveIn(E) \subseteq ManagedIn(n)
    BY <1>1, <1>2, <1>3, <1>5 DEF Directories
  <2>4. \A b \in DirsIn(E) : b \in DOMAIN n.mem /\ DOMAIN n.mem[b] = 0..(NPD-1)
    BY <1>1, <1>3, <1>4, <1>10, <1>12 DEF Directories
  <2>5. \A b \in LiveIn(E) : \A i \in UserPds..(NPD-1) :
           n.mem[b][i] = IF i = PDX(UVPT) THEN [page |-> b, perm |-> {"P", "U"}]
                         ELSE n.mem[kern_pgdir][i]
    <3> SUFFICES ASSUME NEW b \in LiveIn(E), NEW i \in UserPds..(NPD-1)
                 PROVE  n.mem[b][i] = IF i = PDX(UVPT) THEN [page |-> b, perm |-> {"P", "U"}]
                                      ELSE n.mem[kern_pgdir][i]
      OBVIOUS
    <3>1. CASE b = p
      <4>1. i \in 0..(NPD-1)
        BY PagesAssumption, Layout
      <4> QED BY <1>12, <3>1, <4>1
    <3>2. CASE b # p
      <4>1. b \in LiveIn(D)
        BY <1>3, <3>2
      <4>2. a.mem[b][i] = IF i = PDX(UVPT) THEN [page |-> b, perm |-> {"P", "U"}]
                          ELSE a.mem[kern_pgdir][i]
        BY <1>1, <4>1, Zenon DEF Directories
      <4>3. n.mem[b] = a.mem[b] /\ n.mem[kern_pgdir] = a.mem[kern_pgdir]
        BY <1>9, <1>10, <4>1
      <4> QED BY <4>2, <4>3
    <3> QED BY <3>1, <3>2
  <2>6. kern_pgdir # 0
    BY <1>1 DEF Directories
  <2> QED BY <1>3, <1>13, <2>1, <2>2, <2>3, <2>4, <2>5, <2>6 DEF Directories
<1>15. \A b \in DirsIn(D) : \A k :
          (Present(n, b, k) <=> Present(a, b, k)) /\ TableAt(n, b, k) = TableAt(a, b, k)
  BY <1>10 DEF Present, TableAt
<1>16. ASSUME NEW b \in DirsIn(E), NEW k \in Counted(b), Present(n, b, k)
       PROVE  /\ b \in DirsIn(D) /\ Present(a, b, k) /\ TableAt(n, b, k) = TableAt(a, b, k)
  <2>1. b # p
    BY <1>11, <1>13, <1>16
  <2> QED BY <1>3, <1>15, <1>16, <2>1
<1>17. TablesApart(n, E)
  <2> SUFFICES ASSUME NEW b \in DirsIn(E), NEW k \in Counted(b), Present(n, b, k)
               PROVE  /\ TableAt(n, b, k) \in (DOMAIN n.mem) \ DirsIn(E)
                      /\ \A c \in DirsIn(E) : \A l \in Counted(c) :
                            Present(n, c, l) /\ TableAt(n, c, l) = TableAt(n, b, k) => c = b /\ l = k
    BY DEF TablesApart
  <2>1. b \in DirsIn(D) /\ Present(a, b, k) /\ TableAt(n, b, k) = TableAt(a, b, k)
    BY <1>16
  <2>2. TableAt(a, b, k) \in (DOMAIN a.mem) \ DirsIn(D)
    BY <1>1, <2>1 DEF TablesApart
  <2>3. TableAt(n, b, k) \in (DOMAIN n.mem) \ DirsIn(E)
    BY <1>2, <1>3, <1>4, <2>1, <2>2
  <2>4. ASSUME NEW c \in DirsIn(E), NEW l \in Counted(c),
               Present(n, c, l), TableAt(n, c, l) = TableAt(n, b, k)
        PROVE  c = b /\ l = k
    <3>1. c \in DirsIn(D) /\ Present(a, c, l) /\ TableAt(a, c, l) = TableAt(a, b, k)
      BY <1>16, <2>1, <2>4
    <3> QED BY <1>1, <2>1, <3>1 DEF TablesApart
  <2> QED BY <2>3, <2>4
<1>18. ASSUME NEW b \in LiveIn(D), NEW k \in UserPart, Present(a, b, k)
       PROVE  /\ TableAt(n, b, k) = TableAt(a, b, k) /\ TableAt(a, b, k) \in DOMAIN a.mem
              /\ n.mem[TableAt(a, b, k)] = a.mem[TableAt(a, b, k)]
              /\ \A l : Slot(n, b, k, l) = Slot(a, b, k, l)
  <2>1. b \in DirsIn(D) /\ k \in Counted(b)
    BY <1>9
  <2>2. TableAt(n, b, k) = TableAt(a, b, k) /\ TableAt(a, b, k) \in DOMAIN a.mem
    BY <1>1, <1>15, <1>18, <2>1 DEF TablesApart
  <2>3. n.mem[TableAt(a, b, k)] = a.mem[TableAt(a, b, k)]
    BY <1>4, <2>2
  <2> QED BY <2>2, <2>3 DEF Slot, TableAt
<1>19. UserTablesOK(n, E)
  <2> SUFFICES ASSUME NEW b \in LiveIn(E), NEW k \in UserPart, Present(n, b, k)
               PROVE  /\ TableAt(n, b, k) \in ManagedIn(n)
                      /\ DOMAIN n.mem[TableAt(n, b, k)] = Entries
                      /\ \A l \in Entries : Slot(n, b, k, l) # Zero =>
                            Slot(n, b, k, l).page \in ManagedIn(n) \ DOMAIN n.mem
    BY DEF UserTablesOK
  <2>1. b \in LiveIn(D)
    BY <1>3, <1>13
  <2>2. Present(a, b, k)
    BY <1>9, <1>15, <2>1
  <2>3. /\ TableAt(n, b, k) = TableAt(a, b, k)
        /\ n.mem[TableAt(a, b, k)] = a.mem[TableAt(a, b, k)]
        /\ \A l : Slot(n, b, k, l) = Slot(a, b, k, l)
    BY <1>18, <2>1, <2>2
  <2>4. /\ TableAt(a, b, k) \in ManagedIn(a) /\ DOMAIN a.mem[TableAt(a, b, k)] = Entries
        /\ \A l \in Entries : Slot(a, b, k, l) # Zero =>
              Slot(a, b, k, l).page \in ManagedIn(a) \ DOMAIN a.mem
    BY <1>1, <2>1, <2>2 DEF UserTablesOK
  <2>5. ASSUME NEW l \in Entries, Slot(n, b, k, l) # Zero
        PROVE  Slot(n, b, k, l).page \in ManagedIn(n) \ DOMAIN n.mem
    <3>1. Slot(a, b, k, l) # Zero /\ Slot(a, b, k, l).page \in ManagedIn(a) \ DOMAIN a.mem
      BY <2>3, <2>4, <2>5
    <3>2. Slot(a, b, k, l).page # p
      BY <1>2, <2>1, <2>2, <3>1, MapRefsHave
    <3> QED BY <1>4, <1>5, <2>3, <3>1, <3>2
  <2> QED BY <1>5, <2>3, <2>4, <2>5
<1>20. \A q : MapRefs(n, E, q) = MapRefs(a, D, q)
  <2>1. ASSUME NEW q, NEW y \in (LiveIn(E) \X UserPart) \X Entries
        PROVE  y \in MapRefs(n, E, q) <=> y \in MapRefs(a, D, q)
    <3>1. PICK b \in LiveIn(E), k \in UserPart, l \in Entries : y = <<<<b, k>>, l>>
      OBVIOUS
    <3>2. y \in MapRefs(n, E, q) <=>
             Present(n, b, k) /\ Slot(n, b, k, l) # Zero /\ Slot(n, b, k, l).page = q
      BY <3>1, MapRefsHave
    <3>3. CASE b = p
      <4>1. b \notin LiveIn(D)
        BY <1>9, <1>10, <3>3
      <4>2. y \notin (LiveIn(D) \X UserPart) \X Entries
        BY <3>1, <4>1
      <4>3. y \notin MapRefs(a, D, q)
        BY <4>2 DEF MapRefs
      <4> QED BY <1>13, <3>2, <3>3, <4>3
    <3>4. CASE b # p
      <4>1. b \in LiveIn(D)
        BY <1>3, <3>4
      <4>2. y \in MapRefs(a, D, q) <=>
               Present(a, b, k) /\ Slot(a, b, k, l) # Zero /\ Slot(a, b, k, l).page = q
        BY <3>1, <4>1, MapRefsHave
      <4>3. Present(n, b, k) <=> Present(a, b, k)
        BY <1>9, <1>15, <4>1
      <4>4. Present(a, b, k) => Slot(n, b, k, l) = Slot(a, b, k, l)
        BY <1>18, <4>1
      <4> QED BY <3>2, <4>2, <4>3, <4>4
    <3> QED BY <3>3, <3>4
  <2>2. ASSUME NEW q PROVE MapRefs(n, E, q) = MapRefs(a, D, q)
    <3>1. /\ MapRefs(n, E, q) \subseteq (LiveIn(E) \X UserPart) \X Entries
          /\ MapRefs(a, D, q) \subseteq (LiveIn(D) \X UserPart) \X Entries
      BY DEF MapRefs
    <3>2. (LiveIn(D) \X UserPart) \X Entries \subseteq (LiveIn(E) \X UserPart) \X Entries
      BY <1>3
    <3>3. \A y \in (LiveIn(E) \X UserPart) \X Entries : y \in MapRefs(n, E, q) <=> y \in MapRefs(a, D, q)
      BY <2>1
    <3> QED BY <3>1, <3>2, <3>3
  <2> QED BY <2>2
<1>21. \A q : TabRefs(n, E, q) = TabRefs(a, D, q)
  <2>1. ASSUME NEW q, NEW y \in DirsIn(E) \X (0..(NPD-1))
        PROVE  y \in TabRefs(n, E, q) <=> y \in TabRefs(a, D, q)
    <3>1. PICK b \in DirsIn(E), k \in 0..(NPD-1) : y = <<b, k>>
      OBVIOUS
    <3>2. y \in TabRefs(n, E, q) <=> k \in Counted(b) /\ Present(n, b, k) /\ TableAt(n, b, k) = q
      BY <3>1, TabRefsHave
    <3>3. CASE b = p
      <4>1. y \notin DirsIn(D) \X (0..(NPD-1))
        BY <1>10, <3>1, <3>3
      <4>2. y \notin TabRefs(a, D, q)
        BY <4>1 DEF TabRefs
      <4> QED BY <1>11, <1>13, <3>2, <3>3, <4>2
    <3>4. CASE b # p
      <4>1. b \in DirsIn(D)
        BY <1>3, <3>4
      <4>2. y \in TabRefs(a, D, q) <=> k \in Counted(b) /\ Present(a, b, k) /\ TableAt(a, b, k) = q
        BY <3>1, <4>1, TabRefsHave
      <4> QED BY <1>15, <3>2, <4>1, <4>2
    <3> QED BY <3>3, <3>4
  <2>2. ASSUME NEW q PROVE TabRefs(n, E, q) = TabRefs(a, D, q)
    <3>1. /\ TabRefs(n, E, q) \subseteq DirsIn(E) \X (0..(NPD-1))
          /\ TabRefs(a, D, q) \subseteq DirsIn(D) \X (0..(NPD-1))
      BY DEF TabRefs
    <3>2. DirsIn(D) \X (0..(NPD-1)) \subseteq DirsIn(E) \X (0..(NPD-1))
      BY <1>3
    <3>3. \A y \in DirsIn(E) \X (0..(NPD-1)) : y \in TabRefs(n, E, q) <=> y \in TabRefs(a, D, q)
      BY <2>1
    <3> QED BY <3>1, <3>2, <3>3
  <2> QED BY <2>2
<1>22. RefsCounted(n, E, 0)
  <2> SUFFICES ASSUME NEW q \in ManagedIn(a)
               PROVE  n.pp_ref[q] = Cardinality(MapRefs(n, E, q)) + Cardinality(TabRefs(n, E, q))
                                    + Cardinality(EnvRefs(E, q)) + Held(0, q)
    BY <1>5 DEF RefsCounted
  <2>1. MapRefs(n, E, q) = MapRefs(a, D, q) /\ TabRefs(n, E, q) = TabRefs(a, D, q)
    BY <1>20, <1>21
  <2>2. q # 0 /\ Held(0, q) = 0
    BY DEF Held, ManagedIn
  <2>3. CASE q = p
    <3>1. EnvRefs(E, q) = {f}
      BY <1>2, <1>3, <2>3 DEF EnvRefs
    <3>2. /\ Cardinality(EnvRefs(E, q)) = 1
          /\ Cardinality(MapRefs(n, E, q)) = 0 /\ Cardinality(TabRefs(n, E, q)) = 0
      BY <1>2, <2>1, <2>3, <3>1, FS_Singleton, FS_EmptySet
    <3> QED BY <1>6, <2>2, <2>3, <3>2
  <2>4. CASE q # p
    <3>1. EnvRefs(E, q) = EnvRefs(D, q)
      BY <1>3, <2>2, <2>4 DEF EnvRefs
    <3>2. a.pp_ref[q] = Cardinality(MapRefs(a, D, q)) + Cardinality(TabRefs(a, D, q))
                        + Cardinality(EnvRefs(D, q)) + Held(0, q)
      BY <1>1 DEF RefsCounted
    <3> QED BY <1>6, <2>1, <2>4, <3>1, <3>2
  <2> QED BY <2>3, <2>4
<1>23. MemoryInv(n, E, 0)
  BY <1>7, <1>8, <1>14, <1>17, <1>19, <1>22 DEF MemoryInv, HoldsPage
<1>24. MappingsSame(a, n, D)
  <2> SUFFICES ASSUME NEW b \in LiveIn(D), NEW u \in Nat, ValidVa(u)
               PROVE  Pte(n, b, u) = Pte(a, b, u)
    BY DEF MappingsSame
  <2>1. PDX(u) \in UserPart
    BY UserAddress
  <2>2. Present(n, b, PDX(u)) <=> Present(a, b, PDX(u))
    BY <1>9, <1>15
  <2>3. Present(a, b, PDX(u)) => Slot(n, b, PDX(u), PTX(u)) = Slot(a, b, PDX(u), PTX(u))
    BY <1>18, <2>1
  <2> QED BY <2>2, <2>3, PteSlot
<1> QED BY <1>23, <1>24

(* env_setup_vm(): the other address spaces stay as they are.                *)
LEMMA EnvSetupVmInv ==
    ASSUME NEW m, NEW D, MemoryInv(m, D, 0), m.free # <<>>, NEW f \in Envs, D[f] = 0,
           NEW n, n = EnvSetupVm(m),
           NEW E, E = [D EXCEPT ![f] = Head(m.free)]
    PROVE  MemoryInv(n, E, 0) /\ MappingsSame(m, n, D) /\ IdleSame(m, n)
<1> PICK a : a = PageAlloc(m)
  OBVIOUS
<1> PICK p : p = Head(m.free)
  OBVIOUS
<1>1. DOMAIN m = Fields
  BY DEF MemoryInv, Records
<1>2. MemoryInv(a, D, 0) /\ Fresh(a, D, p)
  BY AllocInv
<1>3. DirAddedAt(a, n, p)
  BY <1>1, SetupFields
<1>4. MemoryInv(n, E, 0) /\ MappingsSame(a, n, D)
  BY <1>2, <1>3, DirAddedInv
<1>5. a.mem = m.mem
  BY <1>1, AllocFields
<1>6. MappingsSame(m, a, D)
  BY <1>5 DEF MappingsSame, Pte, HasPte
<1>7. IdleSame(m, n)
  <2>1. DOMAIN a.pp_ref = DOMAIN m.pp_ref /\ Idle(a) = Idle(m) \union {p} /\ p \notin Idle(m)
    BY IdleAlloc DEF MemoryInv
  <2>2. Records(a) /\ p \in ManagedIn(a)
    BY <1>2 DEF MemoryInv, Fresh
  <2>3. DOMAIN n.pp_ref = DOMAIN a.pp_ref /\ Idle(n) = Idle(a) \ {p}
    BY <1>3, <2>2, IdleCounted DEF DirAddedAt
  <2> QED BY <2>1, <2>3 DEF IdleSame
<1> QED BY <1>4, <1>6, <1>7 DEF MappingsSame
=============================================================================
