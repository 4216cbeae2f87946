----------------------------- MODULE FsPromise -----------------------------
(* What fisopfs promises to whoever mounts it: a tree of named directories   *)
(* and files, one copy of it that survives the process, and nothing of what  *)
(* was not in that copy after a crash.  Fisopfs implements it.               *)
EXTENDS Integers, Sequences, SequencesExt

CONSTANTS Paths,       \* the paths, as sequences of names; <<>> is the root
          Modos,       \* the permissions an inode may have
          Bytes,       \* what a write may put in a byte
          MaxSize,     \* bound: bytes of a file
          Roto,        \* a saved copy that was cut short
          NoMontado    \* nothing is mounted

VARIABLES arbol,       \* the tree in memory: path -> node
          durable      \* the tree on disk

vars == <<arbol, durable>>

Nodo(esDir, m) == [dir |-> esDir, modo |-> m, contenido |-> <<>>]
Vacio == [p \in {<<>>} |-> Nodo(TRUE, {"r", "w"})]
Hijos(a, p) == {q \in DOMAIN a : q # <<>> /\ Front(q) = p}
Menor(m, n) == IF m < n THEN m ELSE n
Mayor(m, n) == IF m < n THEN n ELSE m

Init == arbol = NoMontado /\ durable = Vacio

----------------------------------------------------------------------------
(* How a request may change the tree a into b: at one path, and so that      *)
(* everything keeps hanging from the root.                                   *)

Agregado(a, b) ==
    \E p \in (Paths \intersect DOMAIN b) \ DOMAIN a, esDir \in BOOLEAN, m \in Modos :
        /\ Front(p) \in DOMAIN a /\ a[Front(p)].dir
        /\ b = [q \in (DOMAIN a) \union {p} |-> IF q = p THEN Nodo(esDir, m) ELSE a[q]]

Quitado(a, b) ==
    \E p \in (DOMAIN a) \ DOMAIN b :
        /\ Hijos(a, p) = {}
        /\ b = [q \in (DOMAIN a) \ {p} |-> a[q]]

(* Bytes d from position n on; a gap beyond the old end holds anything. *)
Escrito(c, c2) ==
    \E n \in 0..MaxSize, d \in BoundedSeq(Bytes, MaxSize) \ {<<>>} :
        /\ Len(c2) = Mayor(Len(c), n + Len(d))
        /\ \A k \in 1..Len(d) : c2[n + k] = d[k]
        /\ \A k \in 1..Len(c) : k \in (n+1)..(n+Len(d)) \/ c2[k] = c[k]

(* The old bytes up to the new end, then zeros. *)
Truncado(c, c2) ==
    \A k \in 1..Len(c2) : c2[k] = IF k <= Len(c) THEN c[k] ELSE "0"

Reemplazado(a, b) ==
    /\ DOMAIN a = DOMAIN b
    /\ \E p \in DOMAIN a :
          /\ ~a[p].dir
          /\ b = [a EXCEPT ![p].contenido = b[p].contenido]
          /\ \/ Escrito(a[p].contenido, b[p].contenido)
             \/ Truncado(a[p].contenido, b[p].contenido)

----------------------------------------------------------------------------
Cambia(a, b) ==
    /\ Agregado(a, b) \/ Quitado(a, b) \/ Reemplazado(a, b)
    /\ UNCHANGED durable

(* The copy on disk: complete, or cut while it is being written. *)
Guarda(a) == durable' \in {a, Roto} /\ UNCHANGED arbol

(* The process ends; what the next one finds is the copy, if there is one. *)
Termina == UNCHANGED durable
Monta(b) == (durable = Roto \/ b = durable) /\ UNCHANGED durable

Next ==
    \E a \in {arbol}, b \in {arbol'} :
        IF a = NoMontado THEN Monta(b)
        ELSE IF b = NoMontado THEN Termina
        ELSE Guarda(a) \/ Cambia(a, b)

Spec == Init /\ [][Next]_vars
=============================================================================
