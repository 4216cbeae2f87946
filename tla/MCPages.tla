------------------------------ MODULE MCPages ------------------------------
(* Two processors, two environments and 18 to 21 pages of memory for TLC. *)
EXTENDS BootMemory

(* With and without a second processor, with an entry the kernel does not    *)
(* know, without a table, with too little memory.                            *)
TheMachines ==
    {[basemem |-> 3, extmem |-> 17, ext16mem |-> 0, mp |-> <<"boot", "bus", "cpu", "cpu">>],
     [basemem |-> 3, extmem |-> 15, ext16mem |-> 0, mp |-> <<"boot", "cpu", "unknown">>],
     [basemem |-> 3, extmem |-> 0, ext16mem |-> 1, mp |-> <<>>],
     [basemem |-> 3, extmem |-> 14, ext16mem |-> 0, mp |-> <<"boot">>],
     [basemem |-> 3, extmem |-> 0, ext16mem |-> 0, mp |-> <<"boot">>]}
TextOnly == <<<<16, 1>>>>
TwoCpus == 0..1
ReadWrite == {{}, {"W"}}
Addresses == {16, 29, 32}

(* Pages that programs use have no identity but the places that refer to     *)
(* them: two states that differ by a renaming of such pages are the same.    *)
(* Places in a fixed order: directories, tables, entries, free list.         *)
EnvSeq == SetToSeq(Envs)
VaSeq == SetToSortSeq({va \in Addresses : va < UTOP} \union {USTACKTOP - 1}, <)
EnvPlaces(e) ==
    LET d == env_pgdir[e]
    IN  IF d = 0 THEN <<>>
        ELSE <<<<d, {}>>>>
             \o [i \in 1..UserPds |-> <<memory.mem[d][i-1].page, {}>>]
             \o [i \in DOMAIN VaSeq |-> <<Pte(memory, d, VaSeq[i]).page, Pte(memory, d, VaSeq[i]).perm>>]
Places == FlattenSeq([i \in DOMAIN EnvSeq |-> EnvPlaces(EnvSeq[i])])
          \o [i \in DOMAIN memory.free |-> <<memory.free[i], {"free"}>>]
          \o [i \in 1..Cardinality(leaked) |-> <<SetToSeq(leaked)[i], {"leaked"}>>]
Evaluated == memory = memory         \* TLC stores states with a VIEW unevaluated
UpToNames ==
    IF phase # "run" \/ ~Evaluated THEN <<bootVars, memory, env_pgdir>>
    ELSE LET pl == Places
             first(p) == SelectInSeq(pl, LAMBDA x : x[1] = p)
         IN  <<bootVars, {e \in Envs : Exists(e)}, parent, curenv, memory.panic,
               [i \in DOMAIN pl |-> <<first(pl[i][1]), pl[i][2], memory.pp_ref[pl[i][1]],
                                     pl[i][1] \in DOMAIN memory.mem>>],
               [c \in CPU |-> {<<t.va, first(t.pte.page), t.pte.perm>> : t \in tlb[c]}]>>
=============================================================================
