------------------------------ MODULE CowFork ------------------------------
(* fork() of lib/fork.c, one system call at a time: the copy-on-write        *)
(* mappings, the page faults of everybody meanwhile, and fork_v0(), which    *)
(* copies at once.  A physical page is known by the places that map it.      *)
EXTENDS Integers, Sequences, FiniteSets, SequencesExt, FiniteSetsExt

CONSTANTS Envs, First,
          VaSeq,       \* user addresses in ascending order, UXSTACK the last
          UXSTACK,     \* UXSTACKTOP - PGSIZE
          TEMP,        \* PFTEMP and UTEMP
          ReadOnly,    \* addresses that are not writable in the first program
          Stack,       \* the page of the normal stack
          Values,
          MaxPages     \* bound: pages of the machine

(* Addresses ascend, so none comes twice; the normal stack is writable and   *)
(* is not the exception stack; the first program fits in the machine.        *)
ASSUME CowForkAssumption ==
    /\ First \in Envs /\ 0 \in Values
    /\ VaSeq \in Seq(ToSet(VaSeq)) /\ IsInjective(VaSeq)
    /\ TEMP \notin ToSet(VaSeq) /\ UXSTACK = Last(VaSeq)
    /\ Stack \in ToSet(VaSeq) \ ({UXSTACK} \union ReadOnly)
    /\ MaxPages \in Nat /\ Cardinality(ToSet(VaSeq) \ {UXSTACK}) <= MaxPages

VARIABLES state,       \* env -> "free", "embryo", "alive"
          perm,        \* env -> address -> "RO", "W", "COW" for what is mapped
          pages,       \* the pages in use: the places that map it, its content
          upcall,      \* env -> has env_pgfault_upcall been set?
          unlucky,     \* history, env -> did set_pgfault_handler() fail for it?
          eager,       \* do the programs call fork_v0() instead of fork()?
          fork,        \* env -> where it is in fork()
          fault        \* env -> where it is in pgfault()

vars == <<state, perm, pages, upcall, unlucky, eager, fork, fault>>

Vas == ToSet(VaSeq)
Idle == [pc |-> "out"]
NoPages == [va \in {} |-> "RO"]

----------------------------------------------------------------------------
(* Memory. *)

Mapped(e, va) == va \in DOMAIN perm[e]
PageAt(e, va) == CHOOSE p \in pages : <<e, va>> \in p.at
Data(e, va) == PageAt(e, va).data

(* The pages after the given places stop mapping anything. *)
Without(ps, places) ==
    {p \in {[q EXCEPT !.at = @ \ places] : q \in ps} : p.at # {}}
With(f, va, x) == [a \in (DOMAIN f) \union {va} |-> IF a = va THEN x ELSE f[a]]
Dropped(f, va) == [a \in (DOMAIN f) \ {va} |-> f[a]]

(* sys_page_alloc(): a page of zeros. *)
NoMemory == Cardinality(pages) >= MaxPages
Alloc(e, va, p) ==
    /\ pages' = Without(pages, {<<e, va>>}) \union {[at |-> {<<e, va>>}, data |-> 0]}
    /\ perm' = [perm EXCEPT ![e] = With(@, va, p)]

(* Mutant: the page that was mapped there before keeps its reference. *)
MapKeeping(s, va, f, wa, p) ==
    /\ pages' = {IF <<s, va>> \in q.at THEN [q EXCEPT !.at = @ \union {<<f, wa>>}] ELSE q : q \in pages}
    /\ perm' = [perm EXCEPT ![f] = With(@, wa, p)]

(* sys_page_map(): the page of s at va is also the one of f at wa. *)
Map(s, va, f, wa, p) ==
    /\ pages' = {IF <<s, va>> \in q.at THEN [q EXCEPT !.at = @ \union {<<f, wa>>}] ELSE q :
                    q \in Without(pages, {<<f, wa>>} \ {<<s, va>>})}
    /\ perm' = [perm EXCEPT ![f] = With(@, wa, p)]

Unmap(e, va) ==
    /\ pages' = Without(pages, {<<e, va>>})
    /\ perm' = [perm EXCEPT ![e] = Dropped(@, va)]

Store(e, va, v) ==
    /\ pages' = {IF <<e, va>> \in p.at THEN [p EXCEPT !.data = v] ELSE p : p \in pages}
    /\ UNCHANGED perm

(* memmove() of a page. *)
CopyPage(e, from, to) == Store(e, to, Data(e, from))

(* env_free(): of whoever exits, or faults without remedy. *)
Destroy(e) ==
    /\ state' = [state EXCEPT ![e] = "free"]
    /\ pages' = Without(pages, {<<e, va>> : va \in DOMAIN perm[e]})
    /\ perm' = [perm EXCEPT ![e] = NoPages]
    /\ upcall' = [upcall EXCEPT ![e] = FALSE]
    /\ fork' = [fork EXCEPT ![e] = Idle]
    /\ fault' = [fault EXCEPT ![e] = Idle]
    /\ unlucky' = [unlucky EXCEPT ![e] = FALSE]
    /\ UNCHANGED eager

(* panic() of a program: breakpoints for ever, with everything it has. *)
Panic(e) ==
    /\ fault' = [fault EXCEPT ![e] = [pc |-> "panicked"]]
    /\ UNCHANGED <<state, perm, pages, upcall, unlucky, eager, fork>>

Init ==
    /\ state = [e \in Envs |-> IF e = First THEN "alive" ELSE "free"]
    /\ perm = [e \in Envs |-> IF e # First THEN NoPages
                              ELSE [va \in Vas \ {UXSTACK} |-> IF va \in ReadOnly THEN "RO" ELSE "W"]]
    /\ \E m \in [Vas \ {UXSTACK} -> Values] :
          pages = {[at |-> {<<First, va>>}, data |-> m[va]] : va \in Vas \ {UXSTACK}}
    /\ upcall = [e \in Envs |-> FALSE] /\ unlucky = [e \in Envs |-> FALSE] /\ eager \in BOOLEAN
    /\ fork = [e \in Envs |-> Idle] /\ fault = [e \in Envs |-> Idle]

----------------------------------------------------------------------------
(* The page fault handler of lib/fork.c. *)

Executes(e) == state[e] = "alive" /\ fault[e] = Idle
(* Inside fork() a program only writes to its stack. *)
MayWrite(e, va) == Executes(e) /\ Mapped(e, va) /\ (fork[e] = Idle \/ va = Stack)

Write(e, va, v) ==
    /\ MayWrite(e, va) /\ perm[e][va] = "W" /\ va # UXSTACK
    /\ Store(e, va, v)
    /\ UNCHANGED <<state, upcall, unlucky, eager, fork, fault>>

(* page_fault_handler(): to the upcall, if there is one and its stack can be *)
(* written; pgfault() asks for the page before it looks at anything else.    *)
PageFault(e, va) ==
    /\ MayWrite(e, va) /\ perm[e][va] # "W"
    /\ IF upcall[e] /\ Mapped(e, UXSTACK) /\ perm[e][UXSTACK] = "W"
         THEN /\ fault' = [fault EXCEPT ![e] = [pc |-> "alloc", va |-> va]]
              /\ UNCHANGED <<state, perm, pages, upcall, unlucky, eager, fork>>
         ELSE Destroy(e)

Handling(e, pc) == state[e] = "alive" /\ fault[e].pc = pc
FaultAt(e, pc) == fault' = [fault EXCEPT ![e].pc = pc]
HandlerRest == UNCHANGED <<state, upcall, unlucky, eager, fork>>

(* The test for PTE_COW mixes & with a value that is 0 or 1: it never fires, *)
(* and a write to a read-only page gets a private copy as well.              *)
PgfaultAlloc(e) ==
    /\ Handling(e, "alloc")
    /\ IF NoMemory THEN Panic(e)
       ELSE Alloc(e, TEMP, "W") /\ FaultAt(e, "copy") /\ HandlerRest
PgfaultCopy(e) ==
    /\ Handling(e, "copy")
    /\ CopyPage(e, fault[e].va, TEMP) /\ FaultAt(e, "map") /\ HandlerRest
PgfaultMap(e) ==
    /\ Handling(e, "map")
    /\ Map(e, TEMP, e, fault[e].va, "W") /\ FaultAt(e, "unmap") /\ HandlerRest
PgfaultUnmap(e) ==
    /\ Handling(e, "unmap")
    /\ Unmap(e, TEMP) /\ HandlerRest
    /\ fault' = [fault EXCEPT ![e] = Idle]

----------------------------------------------------------------------------
(* fork() *)

ForkAt(e, pc) == Executes(e) /\ fork[e].pc = pc
Quiet == UNCHANGED <<state, upcall, unlucky, eager, fault>>
Child(e) == fork[e].child
Va(e) == VaSeq[fork[e].i]
Loop(e, pc, i, pte) == fork' = [fork EXCEPT ![e] = [pc |-> pc, child |-> Child(e), i |-> i, pte |-> pte]]
GoTo(e, pc) == Loop(e, pc, fork[e].i, fork[e].pte)
NextPage(e) == Loop(e, "scan", fork[e].i + 1, "RO")

(* set_pgfault_handler(): without memory it returns and nobody notices. *)
SetPgfaultHandler(e) ==
    /\ Executes(e) /\ fork[e] = Idle /\ ~eager
    /\ IF upcall[e] \/ NoMemory THEN UNCHANGED <<pages, perm, upcall>>
       ELSE Alloc(e, UXSTACK, "W") /\ upcall' = [upcall EXCEPT ![e] = TRUE]
    /\ unlucky' = [unlucky EXCEPT ![e] = ~upcall[e] /\ NoMemory]
    /\ fork' = [fork EXCEPT ![e] = [pc |-> "exofork"]]
    /\ UNCHANGED <<state, eager, fault>>

(* sys_exofork(); fork_v0() starts here. *)
SysExofork(e) ==
    /\ IF eager THEN Executes(e) /\ fork[e] = Idle ELSE ForkAt(e, "exofork")
    /\ IF \A c \in Envs : state[c] # "free" THEN Panic(e)
       ELSE \E c \in {d \in Envs : state[d] = "free"} :
              /\ state' = [state EXCEPT ![c] = "embryo"]
              /\ fork' = [fork EXCEPT ![e] = [pc |-> "scan", child |-> c, i |-> 1, pte |-> "RO"]]
              /\ unlucky' = [unlucky EXCEPT ![c] = unlucky[e]]
              /\ UNCHANGED <<perm, pages, upcall, eager, fault>>

(* Mutant: the exception stack is duplicated like any other page. *)
SkipsUnmapped(e) == ~Mapped(e, Va(e))

(* The loop of fork() reads the entry of each page before its system calls. *)
Skips(e) == ~Mapped(e, Va(e)) \/ (~eager /\ Va(e) = UXSTACK)
Scan(e) ==
    /\ ForkAt(e, "scan")
    /\ IF fork[e].i > Len(VaSeq) THEN GoTo(e, IF eager THEN "start" ELSE "uxstack")
       ELSE IF Skips(e) THEN NextPage(e)
       ELSE Loop(e, IF eager /\ perm[e][Va(e)] = "W" THEN "v0_alloc" ELSE "map_child",
                 fork[e].i, perm[e][Va(e)])
    /\ Quiet /\ UNCHANGED <<pages, perm>>

Private(pte) == pte \in {"W", "COW"}

(* Mutant: a page that is copy-on-write already is not marked again. *)
DuppageChildOnce(e) ==
    /\ ForkAt(e, "map_child")
    /\ Map(e, Va(e), Child(e), Va(e), IF Private(fork[e].pte) THEN "COW" ELSE "RO")
    /\ IF fork[e].pte = "W" THEN GoTo(e, "map_parent") ELSE NextPage(e)
    /\ Quiet

(* duppage(): first in the child, then our own entry.  dup_or_share() of a   *)
(* page that is not writable shares it, and knows nothing of COW.            *)
DuppageChild(e) ==
    /\ ForkAt(e, "map_child")
    /\ Map(e, Va(e), Child(e), Va(e), IF Private(fork[e].pte) /\ ~eager THEN "COW" ELSE "RO")
    /\ IF Private(fork[e].pte) /\ ~eager THEN GoTo(e, "map_parent") ELSE NextPage(e)
    /\ Quiet
DuppageParent(e) ==
    /\ ForkAt(e, "map_parent")
    /\ Map(e, Va(e), e, Va(e), "COW")
    /\ NextPage(e) /\ Quiet

(* dup_or_share() of a writable page: a copy, through UTEMP. *)
V0Alloc(e) ==
    /\ ForkAt(e, "v0_alloc")
    /\ IF NoMemory THEN Panic(e)
       ELSE Alloc(Child(e), Va(e), "W") /\ GoTo(e, "v0_map") /\ Quiet
V0Map(e) ==
    /\ ForkAt(e, "v0_map")
    /\ Map(Child(e), Va(e), e, TEMP, "W") /\ GoTo(e, "v0_copy") /\ Quiet
V0Copy(e) ==
    /\ ForkAt(e, "v0_copy")
    /\ CopyPage(e, Va(e), TEMP) /\ GoTo(e, "v0_unmap") /\ Quiet
V0Unmap(e) ==
    /\ ForkAt(e, "v0_unmap")
    /\ Unmap(e, TEMP) /\ NextPage(e) /\ Quiet

(* The child gets an exception stack of its own, and the upcall. *)
ChildUxstack(e) ==
    /\ ForkAt(e, "uxstack")
    /\ IF NoMemory THEN Panic(e)
       ELSE Alloc(Child(e), UXSTACK, "W") /\ GoTo(e, "upcall") /\ Quiet
ChildUpcall(e) ==
    /\ ForkAt(e, "upcall")
    /\ upcall' = [upcall EXCEPT ![Child(e)] = upcall[e]]
    /\ GoTo(e, "start")
    /\ UNCHANGED <<state, perm, pages, unlucky, eager, fault>>
StartChild(e) ==
    /\ ForkAt(e, "start")
    /\ state' = [state EXCEPT ![Child(e)] = "alive"]
    /\ fork' = [fork EXCEPT ![e] = Idle]
    /\ UNCHANGED <<perm, pages, upcall, unlucky, eager, fault>>

Exit(e) == Executes(e) /\ fork[e] = Idle /\ Destroy(e)

Pgfault(e) == PgfaultAlloc(e) \/ PgfaultCopy(e) \/ PgfaultMap(e) \/ PgfaultUnmap(e)
Fork(e) == \/ SetPgfaultHandler(e) \/ SysExofork(e) \/ Scan(e)
           \/ DuppageChild(e) \/ DuppageParent(e)
           \/ ChildUxstack(e) \/ ChildUpcall(e) \/ StartChild(e)
ForkV0(e) == V0Alloc(e) \/ V0Map(e) \/ V0Copy(e) \/ V0Unmap(e)
Program(e) == \/ Exit(e)
              \/ \E va \in Vas : PageFault(e, va) \/ \E v \in Values : Write(e, va, v)

Next == \E e \in Envs : Program(e) \/ Pgfault(e) \/ Fork(e) \/ ForkV0(e)

Spec == Init /\ [][Next]_vars

----------------------------------------------------------------------------
(* Properties. *)

(* The types of the variables; each mapped place is of one page. *)
TypeOK ==
    /\ state \in [Envs -> {"free", "embryo", "alive"}]
    /\ upcall \in [Envs -> BOOLEAN]
    /\ \A e \in Envs : /\ DOMAIN perm[e] \subseteq Vas \union {TEMP}
                       /\ \A va \in DOMAIN perm[e] : /\ perm[e][va] \in {"RO", "W", "COW"}
                                                     /\ Cardinality({p \in pages : <<e, va>> \in p.at}) = 1
    /\ \A p \in pages : p.data \in Values /\ p.at # {}
    /\ Cardinality(pages) <= MaxPages

(* Whoever has copy-on-write pages can have its writes mended: the kernel    *)
(* knows its upcall and the exception stack is writable, never itself        *)
(* copy-on-write; but for those that forked when set_pgfault_handler() found *)
(* no memory, and their children.  Else an ordinary write would kill it.     *)
CowIsMended ==
    \A e \in Envs :
        state[e] = "alive" /\ (\E va \in DOMAIN perm[e] : perm[e][va] = "COW") =>
            unlucky[e] \/ (upcall[e] /\ Mapped(e, UXSTACK) /\ perm[e][UXSTACK] = "W")

(* A page of the child counts from the moment its parent can no longer write *)
(* to it, which is before our own entry is marked if it was marked already.  *)
Forking(e) == IF fork[e].pc \in {"out", "exofork"} THEN {} ELSE {fork[e].child}
Done(c, va) ==
    \/ state[c] = "alive"
    \/ \E e \in Envs :
          /\ c \in Forking(e)
          /\ \/ \E i \in 1..(fork[e].i - 1) : VaSeq[i] = va
             \/ /\ fork[e].pc \in {"v0_unmap", "map_parent"} /\ Va(e) = va
                /\ ~(/\ fork[e].pc = "map_parent" /\ perm[e][va] = "W"
                      /\ PageAt(e, va) = PageAt(c, va))
Shown == Vas \ {UXSTACK}
Memory == [e \in Envs |-> [va \in {a \in Shown : Mapped(e, a) /\ Done(e, a)} |-> Data(e, va)]]
P == INSTANCE PrivateMemory WITH memory <- Memory, Vas <- Shown,
                                forking <- [e \in Envs |-> Forking(e)]

(* fork() and fork_v0() implement PrivateMemory, whatever the page faults,   *)
(* the writes and the exits in between.                                      *)
ForkCopies == P!Spec
=============================================================================
