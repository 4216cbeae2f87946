-------------------------- MODULE CowForkInvariant -------------------------
(* The inductive invariant of CowFork.  It says who shares a page with whom, *)
(* where everybody can be in its loop and its handler, and what they have    *)
(* got by then.                                                              *)
EXTENDS CowFork

Places == Vas \union {TEMP}
Perms == {"RO", "W", "COW"}

(* A set of pages; what a place has of it, and with whom it shares it.       *)
Disjoint(ps) == \A p, q \in ps : p.at \intersect q.at # {} => p = q
Page == [at : SUBSET (Envs \X Places), data : Values]
PagesOK(ps) ==
    /\ ps \subseteq Page /\ \A p \in ps : p.at # {}
    /\ Disjoint(ps) /\ IsFiniteSet(ps) /\ Cardinality(ps) <= MaxPages
Holds(ps, e, va) == \E p \in ps : <<e, va>> \in p.at
Same(ps, e, va, c, wa) == \E p \in ps : <<e, va>> \in p.at /\ <<c, wa>> \in p.at
Content(ps, e, va, v) == \E p \in ps : <<e, va>> \in p.at /\ p.data = v

(* The page tables and the pages agree: what is mapped has a page.           *)
MemoryOK ==
    /\ PagesOK(pages)
    /\ perm \in [Envs -> UNION {[D -> Perms] : D \in SUBSET Places}]
    /\ \A e \in Envs, va \in Places : Mapped(e, va) <=> Holds(pages, e, va)
FlagsOK ==
    /\ state \in [Envs -> {"free", "embryo", "alive"}]
    /\ upcall \in [Envs -> BOOLEAN] /\ unlucky \in [Envs -> BOOLEAN] /\ eager \in BOOLEAN

(* The positions of fork() between its system calls, and those of pgfault(). *)
Mapping == {"map_child", "map_parent", "v0_alloc", "v0_map", "v0_copy", "v0_unmap"}
Late == {"uxstack", "upcall", "start"}
Making == [pc : {"scan"} \union Mapping \union Late, child : Envs, i : 1..(Len(VaSeq) + 1), pte : Perms]
Handled == [pc : {"alloc", "copy", "map", "unmap"}, va : Vas]
PcOK ==
    /\ fork \in [Envs -> {Idle, [pc |-> "exofork"]} \union Making]
    /\ fault \in [Envs -> {Idle, [pc |-> "panicked"]} \union Handled]

(* Only what is alive acts, and nobody has two parents. *)
LifeOK ==
    /\ \A e \in Envs : state[e] # "alive" => fork[e] = Idle /\ fault[e] = Idle
    /\ \A e \in Envs : state[e] = "free" => DOMAIN perm[e] = {}
    /\ \A e, d, c \in Envs : c \in Forking(e) /\ c \in Forking(d) => e = d
    /\ \A e \in Envs : \A c \in Forking(e) : state[c] = "embryo"

(* Where an environment may be in fork(), and what it has read there. *)
Reads(e) ==
    /\ fork[e].pc \in Mapping => /\ fork[e].i <= Len(VaSeq) /\ Va(e) # UXSTACK
                                 /\ Mapped(e, Va(e))
    /\ fork[e].pc \in Late => fork[e].i = Len(VaSeq) + 1
    /\ eager => fork[e].pc \notin {"exofork", "map_parent", "uxstack", "upcall"}
    /\ fork[e].pc \in {"v0_alloc", "v0_map", "v0_copy", "v0_unmap"} => eager
    /\ fork[e].pc = "map_child" => /\ fork[e].pte = "RO" \/ eager => perm[e][Va(e)] # "W"
                                   /\ Va(e) = Stack /\ ~eager => fork[e].pte # "RO"

(* fork_v0() leads to no page fault; the stacks are what they should be. *)
Stacks(e) ==
    /\ eager => /\ ~upcall[e] /\ ~Mapped(e, UXSTACK) /\ fault[e].pc \in {"out", "panicked"}
                /\ \A va \in DOMAIN perm[e] : perm[e][va] # "COW"
    /\ Mapped(e, UXSTACK) => perm[e][UXSTACK] = "W"
    /\ ~eager /\ Mapped(e, Stack) => perm[e][Stack] # "RO"

(* Who needs the upcall has it, but for the unlucky. *)
Mends(e) ==
    /\ upcall[e] => Mapped(e, UXSTACK)
    /\ fork[e].pc # "out" /\ ~eager => unlucky[e] \/ upcall[e]
    /\ \A c \in Forking(e) : /\ unlucky[c] = unlucky[e]
                             /\ fork[e].pc = "upcall" => Mapped(c, UXSTACK)
                             /\ fork[e].pc = "start" /\ ~eager => upcall[c] = upcall[e]
    /\ state[e] = "alive" /\ (\E va \in DOMAIN perm[e] : perm[e][va] = "COW") =>
          unlucky[e] \/ upcall[e]

(* The child has the pages that the loop has passed. *)
Given(e, va) ==
    \/ \E j \in 1..(fork[e].i - 1) : VaSeq[j] = va
    \/ fork[e].pc \in {"map_parent", "v0_map", "v0_copy", "v0_unmap"} /\ va = Va(e)
Gives(e) ==
    \A c \in Forking(e) :
        /\ \A va \in Shown : Mapped(c, va) <=> Mapped(e, va) /\ Given(e, va)
        /\ fork[e].pc = "v0_map" => perm[c][Va(e)] = "W"

(* A page fault is of a page that cannot be written until its copy is there. *)
Faults(e) ==
    /\ fault[e].pc \in {"alloc", "copy", "map", "unmap"} =>
          /\ Mapped(e, fault[e].va) /\ fault[e].va # UXSTACK
          /\ fault[e].pc # "unmap" => perm[e][fault[e].va] # "W"
          /\ fork[e] # Idle => fault[e].va = Stack
    /\ Mapped(e, TEMP) <=> \/ fault[e].pc \in {"copy", "map", "unmap"}
                            \/ fork[e].pc \in {"v0_copy", "v0_unmap"}

LocalOK(e) == Reads(e) /\ Stacks(e) /\ Mends(e) /\ Gives(e) /\ Faults(e)

(* With whom the page of PFTEMP or UTEMP is shared. *)
TempOK ==
    /\ \A e, c \in Envs : \A wa \in Places :
          Same(pages, e, TEMP, c, wa) =>
             \/ c = e /\ wa = TEMP
             \/ fault[e].pc = "unmap" /\ c = e /\ wa = fault[e].va
             \/ fork[e].pc \in {"v0_copy", "v0_unmap"} /\ c = Child(e) /\ wa = Va(e)
    /\ \A e \in Envs : fork[e].pc = "v0_copy" => Same(pages, e, TEMP, Child(e), Va(e))
    /\ \A e \in Envs : fault[e].pc = "map" =>
          \A v \in Values : Content(pages, e, TEMP, v) <=> Content(pages, e, fault[e].va, v)

(* A page that one can write is seen by nobody else. *)
Exclusive ==
    \A e, c \in Envs : \A va, wa \in Shown :
        Same(pages, e, va, c, wa) /\ perm[e][va] = "W" =>
            \/ e = c /\ va = wa
            \/ fork[e].pc = "map_parent" /\ c = Child(e) /\ va = Va(e) /\ wa = va

(* All of it. *)
CowInv == /\ MemoryOK /\ FlagsOK /\ PcOK /\ LifeOK
          /\ \A e \in Envs : LocalOK(e)
          /\ TempOK /\ Exclusive
=============================================================================
