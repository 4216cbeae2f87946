--------------------------- MODULE FisopfsLemmas ---------------------------
(* What the searches, the requests and the answers of Fisopfs do to the tree *)
(* in memory, for any names, any number of inodes, any depth of the paths    *)
(* and any size of the files.                                                *)
EXTENDS Fisopfs, FiniteSetTheorems, SequenceTheorems, WellFoundedInduction, TLAPS

(* Induction over the naturals, for a set S that has 0 and every successor.  *)
LEMMA Induction ==
    ASSUME NEW S, 0 \in S, \A n \in Nat : n \in S => n + 1 \in S
    PROVE  Nat \subseteq S
<1> DEFINE T == {n \in Nat : n \notin S}
<1> SUFFICES ASSUME T # {} PROVE FALSE
  OBVIOUS
<1>1. \E m \in T : \A k \in T : ~(k < m)
  <2>1. PICK m \in T : \A k \in T : <<k, m>> \notin OpToRel(<, Nat)
    BY WFMin, NatLessThanWellFounded, Zenon
  <2>2. \A k \in T : ~(k < m)
    BY <2>1, Zenon DEF OpToRel
  <2> QED BY <2>2, Zenon
<1>2. PICK m \in T : \A k \in T : ~(k < m)
  BY <1>1
<1>3. m \in Nat /\ m # 0 /\ m - 1 \in Nat /\ m - 1 < m
  OBVIOUS
<1>4. m - 1 \in S
  BY <1>2, <1>3
<1> QED BY <1>3, <1>4

(* Min() and Max() are what their names say.                                 *)
LEMMA MinIsLeast ==
    ASSUME NEW S \in SUBSET Nat, S # {}
    PROVE  Min(S) \in S /\ \A k \in S : Min(S) <= k
<1>1. \E m \in S : \A k \in S : m =< k
  <2>1. PICK m \in S : \A k \in S : <<k, m>> \notin OpToRel(<, Nat)
    BY WFMin, NatLessThanWellFounded, Zenon
  <2>2. \A k \in S : ~(k < m)
    <3>1. \A k \in S : k \in Nat /\ m \in Nat
      OBVIOUS
    <3> QED BY <2>1, <3>1, Zenon DEF OpToRel
  <2>3. \A k \in S : m =< k
    BY <2>2
  <2> QED BY <2>3
<1> QED BY <1>1, Zenon DEF Min

LEMMA MaxOfTwo ==
    ASSUME NEW a \in Nat, NEW b \in Nat
    PROVE  Max({a, b}) = IF a >= b THEN a ELSE b
<1>1. \E x \in {a, b} : \A y \in {a, b} : x >= y
  OBVIOUS
<1>2. Max({a, b}) \in {a, b} /\ \A y \in {a, b} : Max({a, b}) >= y
  BY <1>1, Zenon DEF Max
<1> QED BY <1>2

LEMMA BoundedIsSeq ==
    ASSUME NEW S, NEW n \in Nat, NEW s \in BoundedSeq(S, n)
    PROVE  s \in Seq(S) /\ Len(s) <= n
<1>1. PICK m \in 0..n : s \in [1..m -> S]
  BY DEF BoundedSeq, SeqOf
<1> QED BY <1>1

LEMMA SeqIsBounded ==
    ASSUME NEW S, NEW n \in Nat, NEW m \in 0..n, NEW s \in [1..m -> S]
    PROVE  s \in BoundedSeq(S, n)
BY DEF BoundedSeq, SeqOf

-----------------------------------------------------------------------------
(* The walk down a path.                                                     *)

Campos == {"nombre", "modo", "es_directorio", "contenido", "hijos"}

(* The search among the children answers one of them that has the name, and  *)
(* answers nothing only when no child has it.                                *)
LEMMA HijoAnswers ==
    ASSUME NEW nodos, NEW i, NEW nombre, nodos[i].hijos \in Seq(Inodes)
    PROVE  /\ Hijo(nodos, i, nombre) \in ToSet(nodos[i].hijos) \union {NULL}
           /\ Hijo(nodos, i, nombre) = NULL =>
                 \A j \in ToSet(nodos[i].hijos) : nodos[j].nombre # nombre
           /\ Hijo(nodos, i, nombre) # NULL => nodos[Hijo(nodos, i, nombre)].nombre = nombre
<1> DEFINE h == nodos[i].hijos
           I == {k \in 1..Len(h) : nodos[h[k]].nombre = nombre}
           s == IF I # {} THEN Min(I) ELSE 0
<1>1. Hijo(nodos, i, nombre) = IF s = 0 THEN NULL ELSE h[s]
  BY DEF Hijo, SelectInSeq
<1>2. I \in SUBSET Nat /\ h \in Seq(Inodes)
  OBVIOUS
<1>3. CASE I = {}
  <2>1. Hijo(nodos, i, nombre) = NULL
    BY <1>1, <1>3
  <2>2. \A k \in DOMAIN h : nodos[h[k]].nombre # nombre
    BY <1>3, <1>2
  <2> QED BY <2>1, <2>2 DEF ToSet
<1>4. CASE I # {}
  <2>1. Min(I) \in I
    BY <1>2, <1>4, MinIsLeast
  <2>2. Min(I) # 0 /\ Min(I) \in DOMAIN h /\ nodos[h[Min(I)]].nombre = nombre
    <3>1. I \subseteq 1..Len(h) /\ DOMAIN h = 1..Len(h) /\ 0 \notin 1..Len(h)
      BY <1>2
    <3> QED BY <2>1, <3>1, Zenon
  <2> HIDE DEF I
  <2>3. Hijo(nodos, i, nombre) = h[Min(I)]
    BY <1>1, <1>4, <2>2
  <2>4. h[Min(I)] \in Inodes
    BY <1>2, <2>2
  <2> QED BY <2>2, <2>3, <2>4, FisopfsAssumption DEF ToSet
<1> QED BY <1>3, <1>4

(* f holds where the walk down a path stands before each of its names.       *)
EsCamino(f, nodos, i, path, n) ==
    /\ f = [k \in 0..n |-> f[k]]
    /\ f[0] = i
    /\ \A k \in 1..n : f[k] = Baja(nodos, f[k - 1], path[k])

LEMMA WalkDefined ==
    ASSUME NEW nodos, NEW i, NEW path, NEW n \in Nat
    PROVE  \E f : EsCamino(f, nodos, i, path, n)
<1> DEFINE S == {k \in Nat : \E f : EsCamino(f, nodos, i, path, k)}
<1>1. 0 \in S
  <2> DEFINE f == [k \in 0..0 |-> i]
  <2>1. EsCamino(f, nodos, i, path, 0)
    BY DEF EsCamino
  <2> QED BY <2>1, Zenon
<1>2. ASSUME NEW k \in Nat, k \in S PROVE k + 1 \in S
  <2>1. PICK f : EsCamino(f, nodos, i, path, k)
    BY <1>2
  <2>2. \E g : EsCamino(g, nodos, i, path, k + 1)
    <3> PICK x : x = Baja(nodos, f[k], path[k + 1])
      OBVIOUS
    <3> DEFINE g == [j \in 0..(k + 1) |-> IF j = k + 1 THEN x ELSE f[j]]
    <3>1. \A j \in 0..k : g[j] = f[j]
      OBVIOUS
    <3>2. g[k + 1] = x /\ g = [j \in 0..(k + 1) |-> g[j]]
      OBVIOUS
    <3> HIDE DEF g
    <3>3. ASSUME NEW j \in 1..(k + 1) PROVE g[j] = Baja(nodos, g[j - 1], path[j])
      <4>1. CASE j = k + 1
        <5>1. g[j - 1] = f[k]
          BY <3>1, <4>1
        <5> QED BY <3>2, <4>1, <5>1
      <4>2. CASE j # k + 1
        <5>1. j \in 1..k /\ j \in 0..k /\ j - 1 \in 0..k
          BY <4>2
        <5>2. f[j] = Baja(nodos, f[j - 1], path[j])
          BY <2>1, <5>1 DEF EsCamino
        <5> QED BY <3>1, <5>1, <5>2
      <4> QED BY <4>1, <4>2
    <3>4. g[0] = i
      <4>1. f[0] = i /\ 0 \in 0..k
        BY <2>1 DEF EsCamino
      <4> QED BY <3>1, <4>1
    <3>5. EsCamino(g, nodos, i, path, k + 1)
      BY <3>2, <3>3, <3>4, Zenon DEF EsCamino
    <3> QED BY <3>5, Zenon
  <2> QED BY <2>2
<1>3. Nat \subseteq S
  <2> HIDE DEF S
  <2> QED BY <1>1, <1>2, Induction
<1> QED BY <1>3

(* And the walk is the one that BuscarDesde() takes.                         *)
LEMMA WalkIsTaken ==
    ASSUME NEW nodos, NEW i, NEW path, Len(path) \in Nat
    PROVE  \E f : /\ EsCamino(f, nodos, i, path, Len(path))
                  /\ BuscarDesde(nodos, i, path) = f[Len(path)]
<1> PICK n \in Nat : n = Len(path)
  OBVIOUS
<1>1. \E g : g = [k \in 0..n |-> IF k = 0 THEN i ELSE Baja(nodos, g[k - 1], path[k])]
  <2>1. PICK g : EsCamino(g, nodos, i, path, n)
    BY WalkDefined
  <2>2. ASSUME NEW k \in 0..n
        PROVE  g[k] = IF k = 0 THEN i ELSE Baja(nodos, g[k - 1], path[k])
    <3>1. CASE k = 0
      BY <2>1, <3>1, Zenon DEF EsCamino
    <3>2. CASE k # 0
      <4>1. k \in 1..n
        BY <3>2
      <4> QED BY <2>1, <3>2, <4>1, Zenon DEF EsCamino
    <3> QED BY <3>1, <3>2
  <2>3. g = [k \in 0..n |-> g[k]]
    BY <2>1, Zenon DEF EsCamino
  <2>4. g = [k \in 0..n |-> IF k = 0 THEN i ELSE Baja(nodos, g[k - 1], path[k])]
    BY <2>2, <2>3, Zenon
  <2> QED BY <2>4, Zenon
<1> DEFINE f[k \in 0..n] == IF k = 0 THEN i ELSE Baja(nodos, f[k - 1], path[k])
<1>2. BuscarDesde(nodos, i, path) = f[n]
  BY Zenon DEF BuscarDesde
<1>3. f = [k \in 0..n |-> IF k = 0 THEN i ELSE Baja(nodos, f[k - 1], path[k])]
  BY <1>1, Zenon
<1> HIDE DEF f
<1>4. \A k \in 0..n : f[k] = IF k = 0 THEN i ELSE Baja(nodos, f[k - 1], path[k])
  BY <1>3, Zenon
<1>5. f = [k \in 0..n |-> f[k]]
  BY <1>3, <1>4, Zenon
<1>6. 0 \in 0..n /\ \A k \in 1..n : k \in 0..n /\ k # 0
  OBVIOUS
<1>7. EsCamino(f, nodos, i, path, n)
  BY <1>4, <1>5, <1>6, Zenon DEF EsCamino
<1> QED BY <1>2, <1>7, Zenon

(* The walk stays in the heap, or finds nothing.                             *)
NodosSanos(nodos) ==
    \A d \in DOMAIN nodos : /\ nodos[d].hijos \in Seq(Inodes)
                            /\ ToSet(nodos[d].hijos) \subseteq DOMAIN nodos

LEMMA WalkStaysIn ==
    ASSUME NEW nodos, NEW i \in DOMAIN nodos \union {NULL}, NodosSanos(nodos),
           NEW path, NEW n \in Nat, NEW f, EsCamino(f, nodos, i, path, n)
    PROVE  \A k \in 0..n : f[k] \in DOMAIN nodos \union {NULL}
<1> DEFINE S == {k \in Nat : k <= n => f[k] \in DOMAIN nodos \union {NULL}}
<1>1. 0 \in S
  BY DEF EsCamino
<1>2. ASSUME NEW k \in Nat, k \in S PROVE k + 1 \in S
  <2>1. CASE k + 1 <= n
    <3>1. k + 1 \in 1..n /\ (k + 1) - 1 = k /\ k <= n
      BY <2>1
    <3>2. f[k] \in DOMAIN nodos \union {NULL}
      BY <1>2, <3>1
    <3>3. f[k + 1] = Baja(nodos, f[(k + 1) - 1], path[k + 1])
      BY <3>1, Zenon DEF EsCamino
    <3>4. f[k + 1] = Baja(nodos, f[k], path[k + 1])
      BY <3>1, <3>3
    <3>5. CASE f[k] # NULL /\ nodos[f[k]].es_directorio
      <4>1. f[k] \in DOMAIN nodos
        BY <3>2, <3>5
      <4>2. f[k + 1] = Hijo(nodos, f[k], path[k + 1])
        BY <3>4, <3>5 DEF Baja
      <4>3. f[k + 1] \in ToSet(nodos[f[k]].hijos) \union {NULL}
        BY <4>1, <4>2, HijoAnswers DEF NodosSanos
      <4> QED BY <4>1, <4>3 DEF NodosSanos
    <3>6. CASE ~(f[k] # NULL /\ nodos[f[k]].es_directorio)
      <4>1. f[k + 1] = f[k]
        BY <3>4, <3>6 DEF Baja
      <4> QED BY <3>2, <4>1
    <3> QED BY <3>5, <3>6
  <2> QED BY <2>1
<1>3. Nat \subseteq S
  <2> HIDE DEF S
  <2> QED BY <1>1, <1>2, Induction
<1> QED BY <1>3

LEMMA SearchStaysIn ==
    ASSUME NEW nodos, NEW i \in DOMAIN nodos \union {NULL}, NodosSanos(nodos),
           NEW path, Len(path) \in Nat
    PROVE  BuscarDesde(nodos, i, path) \in DOMAIN nodos \union {NULL}
<1>1. PICK f : /\ EsCamino(f, nodos, i, path, Len(path))
               /\ BuscarDesde(nodos, i, path) = f[Len(path)]
  BY WalkIsTaken
<1>2. \A k \in 0..Len(path) : f[k] \in DOMAIN nodos \union {NULL}
  BY <1>1, WalkStaysIn
<1>3. Len(path) \in 0..Len(path)
  OBVIOUS
<1> QED BY <1>1, <1>2, <1>3

(* Two walks down the same names go through the same inodes.                 *)
LEMMA WalksAgree ==
    ASSUME NEW nodos, NEW i, NEW path, NEW q, NEW n \in Nat, NEW m \in Nat, n <= m,
           NEW f, EsCamino(f, nodos, i, path, n),
           NEW g, EsCamino(g, nodos, i, q, m),
           \A k \in 1..n : path[k] = q[k]
    PROVE  f[n] = g[n]
<1> DEFINE S == {k \in Nat : k <= n => f[k] = g[k]}
<1>1. 0 \in S
  BY DEF EsCamino
<1>2. ASSUME NEW k \in Nat, k \in S PROVE k + 1 \in S
  <2>1. CASE k + 1 <= n
    <3>1. k + 1 \in 1..n /\ k + 1 \in 1..m /\ (k + 1) - 1 = k /\ k <= n
      BY <2>1
    <3>2. f[k] = g[k] /\ path[k + 1] = q[k + 1]
      BY <1>2, <3>1
    <3>3. f[k + 1] = Baja(nodos, f[(k + 1) - 1], path[k + 1])
      BY <3>1, Zenon DEF EsCamino
    <3>4. g[k + 1] = Baja(nodos, g[(k + 1) - 1], q[k + 1])
      BY <3>1, Zenon DEF EsCamino
    <3> QED BY <3>1, <3>2, <3>3, <3>4
  <2> QED BY <2>1
<1>3. Nat \subseteq S
  <2> HIDE DEF S
  <2> QED BY <1>1, <1>2, Induction
<1>4. n \in S
  BY <1>3
<1> QED BY <1>4

(* The last step of a search is the search of its parent.                    *)
LEMMA SearchEndsInParent ==
    ASSUME NEW nodos, NEW i, NEW S, NEW path \in Seq(S), path # <<>>
    PROVE  BuscarDesde(nodos, i, path) =
              Baja(nodos, BuscarDesde(nodos, i, Front(path)), Last(path))
<1>1. /\ Len(path) \in Nat \ {0}
      /\ Front(path) \in Seq(S) /\ Len(Front(path)) = Len(path) - 1
      /\ \A k \in 1..(Len(path) - 1) : Front(path)[k] = path[k]
      /\ Last(path) = path[Len(path)]
  BY DEF Front, Last
<1> PICK n \in Nat : n = Len(path) - 1
  BY <1>1
<1>2. PICK g : /\ EsCamino(g, nodos, i, path, n + 1)
               /\ BuscarDesde(nodos, i, path) = g[n + 1]
  <2>1. Len(path) = n + 1
    BY <1>1
  <2> QED BY <2>1, <1>1, WalkIsTaken
<1>3. PICK f : /\ EsCamino(f, nodos, i, Front(path), n)
               /\ BuscarDesde(nodos, i, Front(path)) = f[n]
  <2>1. Len(Front(path)) = n
    BY <1>1
  <2> QED BY <2>1, WalkIsTaken
<1>4. f[n] = g[n]
  <2>1. n + 1 \in Nat /\ n <= n + 1 /\ \A k \in 1..n : Front(path)[k] = path[k]
    BY <1>1
  <2> QED BY <1>2, <1>3, <2>1, WalksAgree
<1>5. g[n + 1] = Baja(nodos, g[n], path[n + 1])
  <2>1. n + 1 \in 1..(n + 1) /\ (n + 1) - 1 = n
    OBVIOUS
  <2>2. g[n + 1] = Baja(nodos, g[(n + 1) - 1], path[n + 1])
    BY <1>2, <2>1, Zenon DEF EsCamino
  <2> QED BY <2>1, <2>2
<1>6. Last(path) = path[n + 1]
  BY <1>1
<1> QED BY <1>2, <1>3, <1>4, <1>5, <1>6

-----------------------------------------------------------------------------
(* The searches of a request.                                                *)

LEMMA HeapIsSane ==
    ASSUME ArbolInv
    PROVE  NodosSanos(inodo) /\ raiz \in DOMAIN inodo \union {NULL}
<1>1. ASSUME NEW d \in DOMAIN inodo
      PROVE  inodo[d].hijos \in Seq(Inodes) /\ ToSet(inodo[d].hijos) \subseteq DOMAIN inodo
  BY DEF ArbolInv, MontonOK, Nodo, UnSoloLugar
<1> QED BY <1>1 DEF NodosSanos, ArbolInv

LEMMA SearchFinds ==
    ASSUME ArbolInv, NEW path \in Paths
    PROVE  /\ BuscarInode(path) \in DOMAIN inodo \union {NULL}
           /\ BuscarPadre(path) \in DOMAIN inodo \union {NULL}
           /\ path # <<>> => Last(path) \in Nombres
<1>1. path \in Seq(Nombres)
  BY BoundedIsSeq, FisopfsAssumption DEF Paths
<1>2. NodosSanos(inodo) /\ raiz \in DOMAIN inodo \union {NULL}
  BY HeapIsSane
<1>3. BuscarInode(path) \in DOMAIN inodo \union {NULL}
  <2>1. Len(path) \in Nat
    BY <1>1
  <2> QED BY <1>2, <2>1, SearchStaysIn DEF BuscarInode
<1>4. CASE path = <<>>
  BY <1>3, <1>4 DEF BuscarPadre
<1>5. CASE path # <<>>
  <2>1. Len(Front(path)) \in Nat /\ Last(path) \in Nombres
    BY <1>1, <1>5 DEF Front, Last
  <2>2. BuscarDesde(inodo, raiz, Front(path)) \in DOMAIN inodo \union {NULL}
    BY <1>2, <2>1, SearchStaysIn
  <2> QED BY <1>3, <1>5, <2>1, <2>2 DEF BuscarPadre, BuscarInode
<1> QED BY <1>4, <1>5

(* A path that names nothing, in a directory there is, is a new name there.  *)
LEMMA NameIsNew ==
    ASSUME ArbolInv, NEW path \in Paths, EsDirectorio(BuscarPadre(path)),
           BuscarInode(path) = NULL
    PROVE  /\ BuscarPadre(path) \in DOMAIN inodo
           /\ \A j \in ToSet(inodo[BuscarPadre(path)].hijos) : inodo[j].nombre # Last(path)
<1> DEFINE padre == BuscarPadre(path)
<1>1. path \in Seq(Nombres) /\ path # <<>>
  BY BoundedIsSeq, FisopfsAssumption DEF Paths, EsDirectorio, BuscarPadre
<1>2. padre \in DOMAIN inodo /\ inodo[padre].es_directorio /\ padre # NULL
  BY SearchFinds DEF EsDirectorio
<1>3. padre = BuscarDesde(inodo, raiz, Front(path))
  BY <1>1 DEF BuscarPadre, BuscarInode
<1>4. BuscarInode(path) = Baja(inodo, padre, Last(path))
  BY <1>1, <1>3, SearchEndsInParent DEF BuscarInode
<1>5. Hijo(inodo, padre, Last(path)) = NULL
  BY <1>2, <1>4 DEF Baja
<1>6. inodo[padre].hijos \in Seq(Inodes)
  BY <1>2, HeapIsSane DEF NodosSanos
<1> QED BY <1>2, <1>5, <1>6, HijoAnswers

-----------------------------------------------------------------------------
(* How the steps change the heap.                                            *)

(* A step that leaves every inode where it was, with its name and its kind.  *)
LEMMA KeepsShape ==
    ASSUME ArbolInv, MontonOK', DOMAIN inodo' = DOMAIN inodo,
           \A i \in DOMAIN inodo : /\ inodo'[i].hijos = inodo[i].hijos
                                   /\ inodo'[i].nombre = inodo[i].nombre
                                   /\ inodo'[i].es_directorio = inodo[i].es_directorio,
           raiz' = raiz,
           nuevo' = nuevo \/ (~Pendiente /\ ~Pendiente' /\ nuevo' \in Encargo),
           pc' \in {"desmontado", "listo"} => nuevo' = Ninguno
    PROVE  ArbolInv'
<1>1. SinPadre' = SinPadre
  BY DEF SinPadre, Pendiente
<1>2. UnSoloLugar'
  BY <1>1 DEF ArbolInv, UnSoloLugar, ToSet
<1>3. NombresDistintos'
  <2>1. ASSUME NEW i \in DOMAIN inodo, NEW j \in DOMAIN inodo[i].hijos
        PROVE  inodo[i].hijos[j] \in DOMAIN inodo
    BY DEF ArbolInv, UnSoloLugar, ToSet
  <2> QED BY <2>1 DEF ArbolInv, NombresDistintos
<1>4. Pendiente' => PendienteSano'
  <2> SUFFICES ASSUME Pendiente' PROVE PendienteSano'
    OBVIOUS
  <2>1. nuevo' = nuevo /\ PendienteSano
    BY DEF ArbolInv, Pendiente
  <2>2. ASSUME NEW j \in ToSet(inodo[nuevo.padre].hijos)
        PROVE  j \in DOMAIN inodo
    BY <2>1, <2>2 DEF ArbolInv, UnSoloLugar, PendienteSano
  <2> QED BY <2>1, <2>2 DEF PendienteSano
<1>5. nuevo' \in Encargo /\ \A i \in DOMAIN inodo' \ {raiz'} : inodo'[i].nombre # "/"
  BY DEF ArbolInv
<1> QED BY <1>2, <1>3, <1>4, <1>5 DEF ArbolInv

LEMMA NingunoIsEncargo == Ninguno \in Encargo
BY DEF Ninguno, Encargo

(* A step that gives a file new bytes.                                       *)
LEMMA ContentsKeepShape ==
    ASSUME ArbolInv, ~Pendiente, NEW n \in DOMAIN inodo, NEW c \in BoundedSeq(Celdas, MaxSize),
           inodo' = ConContenido(n, c), raiz' = raiz, nuevo' = Ninguno
    PROVE  ArbolInv'
<1>1. \A i \in DOMAIN inodo : inodo[i] \in Nodo
  BY DEF ArbolInv, MontonOK
<1>2. inodo' = [inodo EXCEPT ![n].contenido = c]
  BY DEF ConContenido
<1>3. DOMAIN inodo' = DOMAIN inodo
  BY <1>2
<1>4. ASSUME NEW i \in DOMAIN inodo
      PROVE  /\ inodo'[i] \in Nodo
             /\ inodo'[i].hijos = inodo[i].hijos
             /\ inodo'[i].nombre = inodo[i].nombre
             /\ inodo'[i].es_directorio = inodo[i].es_directorio
  <2>1. CASE i = n
    <3>1. inodo'[i] = [inodo[i] EXCEPT !.contenido = c]
      BY <1>2, <2>1
    <3> QED BY <1>1, <3>1 DEF Nodo
  <2>2. CASE i # n
    <3>1. inodo'[i] = inodo[i]
      BY <1>2, <2>2
    <3> QED BY <1>1, <3>1
  <2> QED BY <2>1, <2>2
<1>5. MontonOK'
  BY <1>3, <1>4 DEF ArbolInv, MontonOK
<1>6. ~Pendiente'
  BY DEF Pendiente, Ninguno
<1> QED BY <1>3, <1>4, <1>5, <1>6, KeepsShape, NingunoIsEncargo

(* mkdir and create: a new empty inode that waits for its directory.         *)
LEMMA CreateKeepsTree ==
    ASSUME ArbolInv, nuevo = Ninguno, NEW path \in Paths, path # <<>>,
           NEW modo \in Modos, NEW esDir \in BOOLEAN,
           EsDirectorio(BuscarPadre(path)), BuscarInode(path) = NULL,
           NEW i \in Libres,
           inodo' = ConNuevo(i, CrearInode(Last(path), modo, esDir)),
           nuevo' = [padre |-> BuscarPadre(path), hijo |-> i],
           raiz' = raiz, pc' = "abrir"
    PROVE  ArbolInv'
<1> DEFINE padre == BuscarPadre(path)
<1>1. /\ padre \in DOMAIN inodo
      /\ \A j \in ToSet(inodo[padre].hijos) : inodo[j].nombre # Last(path)
  BY NameIsNew
<1>2. padre # NULL /\ inodo[padre].es_directorio
  BY DEF EsDirectorio
<1>3. i \in Inodes /\ i \notin DOMAIN inodo /\ i # NULL /\ i # raiz
  BY FisopfsAssumption DEF Libres, ArbolInv
<1>4. /\ DOMAIN inodo' = DOMAIN inodo \union {i}
      /\ \A j \in DOMAIN inodo : inodo'[j] = inodo[j]
      /\ inodo'[i] = CrearInode(Last(path), modo, esDir)
  BY <1>3 DEF ConNuevo
<1>5. inodo'[i] \in Nodo /\ inodo'[i].hijos = <<>> /\ inodo'[i].nombre = Last(path)
  <2>1. <<>> \in BoundedSeq(Celdas, MaxSize)
    <3>1. 0 \in 0..MaxSize /\ <<>> \in [1..0 -> Celdas]
      BY FisopfsAssumption
    <3> QED BY <3>1, SeqIsBounded, FisopfsAssumption
  <2>2. Last(path) \in Nombres
    BY SearchFinds
  <2>3. modo \in SUBSET {"r", "w"} /\ <<>> \in Seq(Inodes)
    BY FisopfsAssumption
  <2>4. ASSUME NEW c \in BoundedSeq(Celdas, MaxSize), NEW hs \in Seq(Inodes)
        PROVE  [nombre |-> Last(path), modo |-> modo, es_directorio |-> esDir,
                contenido |-> c, hijos |-> hs] \in Nodo
    BY <2>2, <2>3 DEF Nodo
  <2>5. CrearInode(Last(path), modo, esDir) \in Nodo
    BY <2>1, <2>3, <2>4, Zenon DEF CrearInode
  <2> QED BY <1>4, <2>5 DEF CrearInode
<1>6. MontonOK'
  BY <1>3, <1>4, <1>5 DEF ArbolInv, MontonOK
<1>7. Pendiente' /\ ~Pendiente /\ nuevo'.padre = padre /\ nuevo'.hijo = i
  BY <1>2 DEF Pendiente, Ninguno
<1>8. SinPadre' = SinPadre \union {i} /\ SinPadre \subseteq DOMAIN inodo
  BY <1>3, <1>4, <1>7 DEF SinPadre
<1>9. ASSUME NEW d \in DOMAIN inodo', NEW k \in DOMAIN inodo'[d].hijos
      PROVE  /\ d \in DOMAIN inodo /\ k \in DOMAIN inodo[d].hijos
             /\ inodo'[d].hijos[k] = inodo[d].hijos[k]
             /\ inodo[d].hijos[k] \in DOMAIN inodo
  <2>1. d # i
    BY <1>5, <1>9
  <2>2. d \in DOMAIN inodo /\ inodo'[d] = inodo[d]
    BY <1>4, <2>1
  <2> QED BY <1>9, <2>2 DEF ArbolInv, UnSoloLugar, ToSet
<1>10. UnSoloLugar'
  <2>1. ASSUME NEW d \in DOMAIN inodo', NEW e \in DOMAIN inodo',
               NEW k \in DOMAIN inodo'[d].hijos, NEW l \in DOMAIN inodo'[e].hijos,
               inodo'[d].hijos[k] = inodo'[e].hijos[l]
        PROVE  d = e /\ k = l
    BY <1>9, <2>1 DEF ArbolInv, UnSoloLugar
  <2>2. ASSUME NEW d \in DOMAIN inodo', NEW j \in ToSet(inodo'[d].hijos)
        PROVE  j \in DOMAIN inodo' \ SinPadre'
    <3>1. PICK k \in DOMAIN inodo'[d].hijos : j = inodo'[d].hijos[k]
      BY <2>2 DEF ToSet
    <3>2. j \in DOMAIN inodo /\ j \in ToSet(inodo[d].hijos) /\ d \in DOMAIN inodo
      BY <1>9, <3>1 DEF ToSet
    <3>3. j \notin SinPadre
      BY <3>2 DEF ArbolInv, UnSoloLugar
    <3> QED BY <1>3, <1>4, <1>8, <3>2, <3>3
  <2>3. ASSUME NEW j \in DOMAIN inodo' \ SinPadre'
        PROVE  \E d \in DOMAIN inodo' : j \in ToSet(inodo'[d].hijos)
    <3>1. j \in DOMAIN inodo \ SinPadre
      BY <1>4, <1>8, <2>3
    <3>2. PICK d \in DOMAIN inodo : j \in ToSet(inodo[d].hijos)
      BY <3>1 DEF ArbolInv, UnSoloLugar
    <3>3. d \in DOMAIN inodo' /\ inodo'[d] = inodo[d]
      BY <1>4
    <3> QED BY <3>2, <3>3
  <2> QED BY <2>1, <2>2, <2>3 DEF UnSoloLugar
<1>11. NombresDistintos'
  <2>1. ASSUME NEW d \in DOMAIN inodo', NEW k \in DOMAIN inodo'[d].hijos
        PROVE  inodo'[inodo'[d].hijos[k]].nombre = inodo[inodo[d].hijos[k]].nombre
    BY <1>4, <1>9
  <2> QED BY <1>9, <2>1 DEF ArbolInv, NombresDistintos
<1>12. PendienteSano'
  <2>1. padre \in DOMAIN inodo' /\ inodo'[padre] = inodo[padre]
    BY <1>1, <1>4
  <2>2. ASSUME NEW j \in ToSet(inodo'[padre].hijos)
        PROVE  inodo'[j].nombre # Last(path)
    <3>1. j \in DOMAIN inodo /\ j \in ToSet(inodo[padre].hijos)
      BY <1>1, <2>1, <2>2 DEF ArbolInv, UnSoloLugar
    <3> QED BY <1>1, <1>4, <3>1
  <2> QED BY <1>2, <1>3, <1>4, <1>5, <1>7, <2>1, <2>2 DEF PendienteSano
<1>13. \A j \in DOMAIN inodo' : inodo'[j].hijos # <<>> => inodo'[j].es_directorio
  BY <1>4, <1>5 DEF ArbolInv
<1>14. raiz' \in DOMAIN inodo' \union {NULL} /\ nuevo' \in Encargo
  BY <1>1, <1>3, <1>4 DEF ArbolInv, MontonOK, Encargo
<1>15. \A j \in DOMAIN inodo' \ {raiz'} : inodo'[j].nombre # "/"
  BY <1>4, <1>5, SearchFinds, FisopfsAssumption DEF ArbolInv
<1> QED BY <1>6, <1>10, <1>11, <1>12, <1>13, <1>14, <1>15 DEF ArbolInv

(* agregar_hijo(), at the end of mkdir and create.                           *)
LEMMA AddKeepsTree ==
    ASSUME ArbolInv, Pendiente, inodo' = AgregarHijo(nuevo.padre, nuevo.hijo),
           nuevo' = Ninguno, raiz' = raiz
    PROVE  ArbolInv'
<1> DEFINE p == nuevo.padre
           h == nuevo.hijo
           n == Len(inodo[p].hijos) + 1
<1>1. /\ h \in DOMAIN inodo /\ h # raiz /\ inodo[h].hijos = <<>>
      /\ p \in DOMAIN inodo /\ inodo[p].es_directorio
      /\ \A j \in ToSet(inodo[p].hijos) : inodo[j].nombre # inodo[h].nombre
  BY DEF ArbolInv, PendienteSano
<1>2. \A d \in DOMAIN inodo : inodo[d] \in Nodo /\ inodo[d].hijos \in Seq(Inodes)
  BY DEF ArbolInv, MontonOK, Nodo
<1>3. h \in Inodes
  BY <1>1 DEF ArbolInv, MontonOK
<1>4. inodo' = [inodo EXCEPT ![p].hijos = Append(@, h)]
  BY DEF AgregarHijo
<1>5. /\ DOMAIN inodo' = DOMAIN inodo
      /\ inodo'[p] = [inodo[p] EXCEPT !.hijos = Append(inodo[p].hijos, h)]
      /\ \A d \in DOMAIN inodo : d # p => inodo'[d] = inodo[d]
  BY <1>1, <1>4
<1> HIDE DEF p, h
<1>6. /\ inodo'[p] \in Nodo
      /\ inodo'[p].hijos = Append(inodo[p].hijos, h)
      /\ inodo'[p].nombre = inodo[p].nombre
      /\ inodo'[p].es_directorio = inodo[p].es_directorio
  <2>1. inodo[p] \in Nodo /\ inodo[p].hijos \in Seq(Inodes)
    BY <1>1, <1>2
  <2>2. Append(inodo[p].hijos, h) \in Seq(Inodes)
    BY <1>3, <2>1
  <2> QED BY <1>5, <2>1, <2>2 DEF Nodo
<1>7. /\ \A d \in DOMAIN inodo : d # p => inodo'[d].hijos = inodo[d].hijos
      /\ \A d \in DOMAIN inodo : inodo'[d].nombre = inodo[d].nombre
      /\ \A d \in DOMAIN inodo : inodo'[d].es_directorio = inodo[d].es_directorio
  BY <1>5, <1>6
<1>8. /\ DOMAIN inodo'[p].hijos = DOMAIN inodo[p].hijos \union {n}
      /\ n \notin DOMAIN inodo[p].hijos
      /\ inodo'[p].hijos[n] = h
      /\ \A k \in DOMAIN inodo[p].hijos : inodo'[p].hijos[k] = inodo[p].hijos[k]
      /\ inodo'[p].hijos # <<>>
  <2>1. PICK x : x = inodo[p].hijos
    OBVIOUS
  <2>2. x \in Seq(Inodes) /\ n = Len(x) + 1
    BY <1>1, <1>2, <2>1
  <2>3. /\ DOMAIN Append(x, h) = DOMAIN x \union {n} /\ n \notin DOMAIN x
        /\ Append(x, h)[n] = h /\ \A k \in DOMAIN x : Append(x, h)[k] = x[k]
        /\ Append(x, h) # <<>>
    BY <1>3, <2>2
  <2> QED BY <1>6, <2>1, <2>3
<1> HIDE DEF n
<1>9. MontonOK'
  BY <1>1, <1>2, <1>5, <1>6 DEF ArbolInv, MontonOK
<1>10. ~Pendiente' /\ h = nuevo.hijo /\ p = nuevo.padre
  BY DEF Pendiente, Ninguno, p, h
<1>11. SinPadre' = SinPadre \ {h} /\ h \in SinPadre
  BY <1>1, <1>5, <1>10 DEF SinPadre
<1>12. ASSUME NEW d \in DOMAIN inodo', NEW k \in DOMAIN inodo'[d].hijos
       PROVE  \/ d = p /\ k = n /\ inodo'[d].hijos[k] = h
              \/ /\ d \in DOMAIN inodo /\ k \in DOMAIN inodo[d].hijos
                 /\ inodo'[d].hijos[k] = inodo[d].hijos[k]
                 /\ inodo[d].hijos[k] \in DOMAIN inodo \ SinPadre
  <2>1. ASSUME d \in DOMAIN inodo, k \in DOMAIN inodo[d].hijos
        PROVE  inodo[d].hijos[k] \in DOMAIN inodo \ SinPadre
    BY <2>1 DEF ArbolInv, UnSoloLugar, ToSet
  <2>2. CASE d = p
    BY <1>1, <1>8, <1>12, <2>1, <2>2
  <2>3. CASE d # p
    BY <1>5, <1>7, <1>12, <2>1, <2>3
  <2> QED BY <2>2, <2>3
<1>13. UnSoloLugar'
  <2>1. ASSUME NEW d \in DOMAIN inodo', NEW e \in DOMAIN inodo',
               NEW k \in DOMAIN inodo'[d].hijos, NEW l \in DOMAIN inodo'[e].hijos,
               inodo'[d].hijos[k] = inodo'[e].hijos[l]
        PROVE  d = e /\ k = l
    <3>1. CASE inodo'[d].hijos[k] = h
      <4>1. d = p /\ k = n
        BY <1>11, <1>12, <3>1
      <4>2. e = p /\ l = n
        <5>1. inodo'[e].hijos[l] = h
          BY <2>1, <3>1
        <5>2. h \notin DOMAIN inodo \ SinPadre
          BY <1>11
        <5> QED BY <1>12, <5>1, <5>2
      <4> QED BY <4>1, <4>2
    <3>2. CASE inodo'[d].hijos[k] # h
      BY <1>11, <1>12, <2>1, <3>2 DEF ArbolInv, UnSoloLugar
    <3> QED BY <3>1, <3>2
  <2>2. ASSUME NEW d \in DOMAIN inodo', NEW j \in ToSet(inodo'[d].hijos)
        PROVE  j \in DOMAIN inodo' \ SinPadre'
    <3>1. PICK k \in DOMAIN inodo'[d].hijos : j = inodo'[d].hijos[k]
      BY <2>2 DEF ToSet
    <3> QED BY <1>1, <1>5, <1>11, <1>12, <3>1
  <2>3. ASSUME NEW j \in DOMAIN inodo' \ SinPadre'
        PROVE  \E d \in DOMAIN inodo' : j \in ToSet(inodo'[d].hijos)
    <3>1. CASE j = h
      <4>1. n \in DOMAIN inodo'[p].hijos /\ inodo'[p].hijos[n] = j
        BY <1>8, <3>1
      <4>2. j \in ToSet(inodo'[p].hijos)
        BY <4>1 DEF ToSet
      <4> QED BY <1>1, <1>5, <4>2
    <3>2. CASE j # h
      <4>1. j \in DOMAIN inodo \ SinPadre
        BY <1>5, <1>11, <2>3, <3>2
      <4>2. PICK d \in DOMAIN inodo : j \in ToSet(inodo[d].hijos)
        BY <4>1 DEF ArbolInv, UnSoloLugar
      <4>3. PICK k \in DOMAIN inodo[d].hijos : j = inodo[d].hijos[k]
        BY <4>2 DEF ToSet
      <4>4. d \in DOMAIN inodo' /\ k \in DOMAIN inodo'[d].hijos /\ inodo'[d].hijos[k] = j
        BY <1>5, <1>7, <1>8, <4>3
      <4> QED BY <4>4 DEF ToSet
    <3> QED BY <3>1, <3>2
  <2> QED BY <2>1, <2>2, <2>3 DEF UnSoloLugar
<1>14. NombresDistintos'
  <2> SUFFICES ASSUME NEW d \in DOMAIN inodo', NEW j \in DOMAIN inodo'[d].hijos,
                      NEW k \in DOMAIN inodo'[d].hijos,
                      inodo'[inodo'[d].hijos[j]].nombre = inodo'[inodo'[d].hijos[k]].nombre
               PROVE  j = k \/ inodo'[inodo'[d].hijos[j]].nombre = Basura
    BY DEF NombresDistintos
  <2>1. ASSUME NEW l \in DOMAIN inodo[p].hijos
        PROVE  inodo'[inodo[p].hijos[l]].nombre # inodo'[h].nombre
    <3>1. inodo[p].hijos[l] \in ToSet(inodo[p].hijos) /\ inodo[p].hijos[l] \in DOMAIN inodo
      BY <1>1, <2>1 DEF ToSet, ArbolInv, UnSoloLugar
    <3> QED BY <1>1, <1>7, <3>1
  <2>2. CASE d = p /\ j = n /\ k = n
    BY <2>2
  <2>3. CASE d = p /\ j = n /\ k # n
    BY <1>8, <2>1, <2>3
  <2>4. CASE d = p /\ j # n /\ k = n
    BY <1>8, <2>1, <2>4
  <2>5. CASE ~(d = p /\ (j = n \/ k = n))
    <3>1. /\ d \in DOMAIN inodo /\ j \in DOMAIN inodo[d].hijos /\ k \in DOMAIN inodo[d].hijos
          /\ inodo'[d].hijos[j] = inodo[d].hijos[j] /\ inodo'[d].hijos[k] = inodo[d].hijos[k]
          /\ inodo[d].hijos[j] \in DOMAIN inodo /\ inodo[d].hijos[k] \in DOMAIN inodo
      BY <1>12, <2>5
    <3>2. /\ inodo'[inodo[d].hijos[j]].nombre = inodo[inodo[d].hijos[j]].nombre
          /\ inodo'[inodo[d].hijos[k]].nombre = inodo[inodo[d].hijos[k]].nombre
      BY <1>7, <3>1
    <3> QED BY <3>1, <3>2 DEF ArbolInv, NombresDistintos
  <2> QED BY <2>2, <2>3, <2>4, <2>5
<1>15. \A d \in DOMAIN inodo' : inodo'[d].hijos # <<>> => inodo'[d].es_directorio
  BY <1>1, <1>5, <1>7 DEF ArbolInv
<1>16. /\ raiz' \in DOMAIN inodo' \union {NULL}
       /\ \A d \in DOMAIN inodo' \ {raiz'} : inodo'[d].nombre # "/"
  BY <1>5, <1>7 DEF ArbolInv
<1> QED BY <1>9, <1>10, <1>13, <1>14, <1>15, <1>16, NingunoIsEncargo DEF ArbolInv

(* RemoveFirst() takes out one occurrence and closes the hole.               *)
LEMMA RemovedFirst ==
    ASSUME NEW S, NEW s \in Seq(S), NEW x, Contains(s, x)
    PROVE  \E j \in 1..Len(s) :
              /\ s[j] = x
              /\ RemoveFirst(s, x) \in Seq(S)
              /\ Len(RemoveFirst(s, x)) = Len(s) - 1
              /\ \A k \in 1..(Len(s) - 1) :
                    RemoveFirst(s, x)[k] = s[IF k < j THEN k ELSE k + 1]
<1> DEFINE I == {k \in 1..Len(s) : s[k] = x}
           j == Min(I)
<1>1. I \in SUBSET Nat /\ I # {}
  BY DEF Contains
<1>2. j \in I
  BY <1>1, MinIsLeast
<1>3. SelectInSeq(s, LAMBDA v : v = x) = j
  BY <1>1 DEF SelectInSeq
<1>4. RemoveFirst(s, x) = RemoveAt(s, j)
  <2>1. \E i \in 1..Len(s) : s[i] = x
    BY DEF Contains
  <2>2. RemoveFirst(s, x) = RemoveAt(s, SelectInSeq(s, LAMBDA v : v = x))
    BY <2>1 DEF RemoveFirst
  <2> QED BY <1>3, <2>2
<1>5. j \in 1..Len(s) /\ s[j] = x
  BY <1>2
<1> HIDE DEF I, j
<1>6. RemoveFirst(s, x) = SubSeq(s, 1, j - 1) \o SubSeq(s, j + 1, Len(s))
  BY <1>4, Zenon DEF RemoveAt
<1> PICK a : a = SubSeq(s, 1, j - 1)
  OBVIOUS
<1> PICK b : b = SubSeq(s, j + 1, Len(s))
  OBVIOUS
<1>7. a \in Seq(S) /\ Len(a) = j - 1 /\ \A k \in 1..(j - 1) : a[k] = s[k]
  BY <1>5
<1>8. b \in Seq(S) /\ Len(b) = Len(s) - j /\ \A k \in 1..(Len(s) - j) : b[k] = s[k + j]
  BY <1>5
<1>9. /\ a \o b \in Seq(S) /\ Len(a \o b) = Len(s) - 1
      /\ \A k \in 1..(Len(s) - 1) : (a \o b)[k] = IF k <= j - 1 THEN a[k] ELSE b[k - (j - 1)]
  <2>1. /\ a \o b \in Seq(S) /\ Len(a \o b) = Len(a) + Len(b)
        /\ \A k \in 1..(Len(a) + Len(b)) : (a \o b)[k] = IF k <= Len(a) THEN a[k] ELSE b[k - Len(a)]
    <3>1. a \in Seq(S) /\ b \in Seq(S)
      BY <1>7, <1>8
    <3> QED BY <3>1, ConcatProperties
  <2>2. Len(a) = j - 1 /\ Len(a) + Len(b) = Len(s) - 1
    <3>1. Len(s) \in Nat /\ j \in Nat
      BY <1>5
    <3>2. Len(a) = j - 1 /\ Len(b) = Len(s) - j
      BY <1>7, <1>8, Zenon
    <3>3. (j - 1) + (Len(s) - j) = Len(s) - 1
      BY <3>1
    <3> QED BY <3>2, <3>3
  <2> QED BY <2>1, <2>2
<1>10. ASSUME NEW k \in 1..(Len(s) - 1)
       PROVE  (a \o b)[k] = s[IF k < j THEN k ELSE k + 1]
  <2>1. CASE k < j
    <3>1. k <= j - 1 /\ k \in 1..(j - 1)
      BY <1>5, <2>1
    <3> QED BY <1>7, <1>9, <2>1, <3>1
  <2>2. CASE ~(k < j)
    <3>0. ~(k <= j - 1)
      BY <1>5, <2>2
    <3>1. k - (j - 1) \in 1..(Len(s) - j) /\ k - (j - 1) + j = k + 1
      BY <1>5, <2>2
    <3>2. (a \o b)[k] = b[k - (j - 1)]
      BY <1>9, <3>0
    <3>3. b[k - (j - 1)] = s[k - (j - 1) + j]
      BY <1>8, <3>1
    <3> QED BY <2>2, <3>1, <3>2, <3>3
  <2> QED BY <2>1, <2>2
<1> QED BY <1>5, <1>6, <1>9, <1>10

(* unlink and rmdir: what is freed has no children, and leaves no hole.      *)
LEMMA RemoveKeepsTree ==
    ASSUME ArbolInv, nuevo = Ninguno, NEW padre \in DOMAIN inodo \union {NULL}, NEW target,
           target \in DOMAIN inodo => inodo[target].hijos = <<>>,
           inodo' = EliminarInode(padre, target),
           nuevo' = Ninguno, raiz' = raiz
    PROVE  ArbolInv'
<1>1. ~Pendiente /\ ~Pendiente'
  BY DEF Pendiente, Ninguno
<1>2. CASE ~EsDirectorio(padre) \/ ~Contains(inodo[padre].hijos, target)
  <2>1. inodo' = inodo
    BY <1>2 DEF EliminarInode
  <2>2. MontonOK'
    BY <2>1 DEF ArbolInv, MontonOK
  <2> QED BY <1>1, <2>1, <2>2, KeepsShape, NingunoIsEncargo
<1>3. CASE EsDirectorio(padre) /\ Contains(inodo[padre].hijos, target)
  <2>1. padre \in DOMAIN inodo /\ padre # NULL /\ inodo[padre].es_directorio
    BY <1>3 DEF EsDirectorio
  <2>2. \A d \in DOMAIN inodo : inodo[d] \in Nodo /\ inodo[d].hijos \in Seq(Inodes)
    BY DEF ArbolInv, MontonOK, Nodo
  <2>3. target \in ToSet(inodo[padre].hijos) /\ inodo[padre].hijos # <<>>
    <3>1. inodo[padre].hijos \in Seq(Inodes)
      BY <2>1, <2>2
    <3> QED BY <1>3, <3>1 DEF Contains, ToSet
  <2>4. target \in DOMAIN inodo /\ target \notin SinPadre
    BY <2>1, <2>3 DEF ArbolInv, UnSoloLugar
  <2>5. inodo[target].hijos = <<>> /\ target # padre /\ target # raiz
    BY <2>3, <2>4 DEF SinPadre
  <2> PICK hs : hs = RemoveFirst(inodo[padre].hijos, target)
    OBVIOUS
  <2> PICK n \in Nat : n = Len(inodo[padre].hijos)
    BY <2>1, <2>2
  <2>6. PICK j \in 1..n :
           /\ inodo[padre].hijos[j] = target
           /\ hs \in Seq(Inodes) /\ Len(hs) = n - 1
           /\ \A k \in 1..(n - 1) : hs[k] = inodo[padre].hijos[IF k < j THEN k ELSE k + 1]
    <3> PICK s : s = inodo[padre].hijos
      OBVIOUS
    <3>1. s \in Seq(Inodes) /\ Contains(s, target) /\ hs = RemoveFirst(s, target) /\ n = Len(s)
      BY <1>3, <2>1, <2>2
    <3>2. \E j \in 1..n :
             /\ s[j] = target
             /\ hs \in Seq(Inodes) /\ Len(hs) = n - 1
             /\ \A k \in 1..(n - 1) : hs[k] = s[IF k < j THEN k ELSE k + 1]
      <4>1. \E j \in 1..Len(s) :
               /\ s[j] = target
               /\ RemoveFirst(s, target) \in Seq(Inodes)
               /\ Len(RemoveFirst(s, target)) = Len(s) - 1
               /\ \A k \in 1..(Len(s) - 1) :
                     RemoveFirst(s, target)[k] = s[IF k < j THEN k ELSE k + 1]
        BY <3>1, RemovedFirst, SMTT(60)
      <4> QED BY <3>1, <4>1
    <3> QED BY <3>2
  <2>7. inodo' = [i \in DOMAIN inodo \ {target} |->
                    IF i = padre THEN [inodo[i] EXCEPT !.hijos = hs] ELSE inodo[i]]
    BY <1>3 DEF EliminarInode
  <2>8. /\ DOMAIN inodo' = DOMAIN inodo \ {target}
        /\ padre \in DOMAIN inodo'
        /\ inodo'[padre] = [inodo[padre] EXCEPT !.hijos = hs]
        /\ \A d \in DOMAIN inodo' : d # padre => inodo'[d] = inodo[d]
    BY <2>1, <2>5, <2>7
  <2>9. /\ inodo'[padre] \in Nodo /\ inodo'[padre].hijos = hs
        /\ inodo'[padre].nombre = inodo[padre].nombre
        /\ inodo'[padre].es_directorio = inodo[padre].es_directorio
    <3>1. inodo[padre] \in Nodo
      BY <2>1, <2>2
    <3> QED BY <2>6, <2>8, <3>1 DEF Nodo
  <2>10. /\ \A d \in DOMAIN inodo' : d # padre => inodo'[d].hijos = inodo[d].hijos
         /\ \A d \in DOMAIN inodo' : inodo'[d].nombre = inodo[d].nombre
         /\ \A d \in DOMAIN inodo' : inodo'[d].es_directorio = inodo[d].es_directorio
    BY <2>8, <2>9
  <2>11. MontonOK'
    BY <2>2, <2>8, <2>9 DEF ArbolInv, MontonOK
  <2>12. SinPadre' = SinPadre
    <3>1. \A i : i \in SinPadre' <=> i \in DOMAIN inodo' /\ i = raiz
      BY <1>1 DEF SinPadre
    <3>2. \A i : i \in SinPadre <=> i \in DOMAIN inodo /\ i = raiz
      BY <1>1 DEF SinPadre
    <3> QED BY <2>5, <2>8, <3>1, <3>2
  <2> DEFINE Antes(d, k) == IF d = padre /\ k >= j THEN k + 1 ELSE k
  <2>13. ASSUME NEW d \in DOMAIN inodo', NEW k \in DOMAIN inodo'[d].hijos
         PROVE  /\ d \in DOMAIN inodo /\ Antes(d, k) \in DOMAIN inodo[d].hijos
                /\ inodo'[d].hijos[k] = inodo[d].hijos[Antes(d, k)]
                /\ inodo'[d].hijos[k] \in DOMAIN inodo' \ SinPadre
                /\ k \in Nat
    <3>1. d \in DOMAIN inodo /\ inodo[d].hijos \in Seq(Inodes)
      BY <2>2, <2>8
    <3>2. /\ Antes(d, k) \in DOMAIN inodo[d].hijos
          /\ inodo'[d].hijos[k] = inodo[d].hijos[Antes(d, k)]
          /\ k \in Nat
          /\ ~(d = padre /\ Antes(d, k) = j)
      <4>1. CASE d = padre
        <5>1. k \in 1..(n - 1)
          BY <2>6, <2>9, <2>13, <4>1
        <5> QED BY <2>6, <2>9, <3>1, <4>1, <5>1
      <4>2. CASE d # padre
        <5>1. inodo'[d].hijos = inodo[d].hijos
          BY <2>10, <4>2
        <5> QED BY <2>13, <3>1, <4>2, <5>1
      <4> QED BY <4>1, <4>2
    <3> HIDE DEF Antes
    <3>3. inodo[d].hijos[Antes(d, k)] \in DOMAIN inodo \ SinPadre
      BY <3>1, <3>2 DEF ArbolInv, UnSoloLugar, ToSet
    <3>4. inodo[d].hijos[Antes(d, k)] # target
      <4>1. j \in DOMAIN inodo[padre].hijos
        BY <2>1, <2>2, <2>6
      <4> QED BY <2>1, <2>6, <3>1, <3>2, <4>1 DEF ArbolInv, UnSoloLugar
    <3> QED BY <2>8, <3>1, <3>2, <3>3, <3>4
  <2>14. ASSUME NEW d, NEW k \in Nat, NEW l \in Nat, Antes(d, k) = Antes(d, l)
         PROVE  k = l
    BY <2>6, <2>14
  <2> HIDE DEF Antes
  <2>15. UnSoloLugar'
    <3>1. ASSUME NEW d \in DOMAIN inodo', NEW e \in DOMAIN inodo',
                 NEW k \in DOMAIN inodo'[d].hijos, NEW l \in DOMAIN inodo'[e].hijos,
                 inodo'[d].hijos[k] = inodo'[e].hijos[l]
          PROVE  d = e /\ k = l
      <4>1. d = e /\ Antes(d, k) = Antes(e, l)
        BY <2>13, <3>1 DEF ArbolInv, UnSoloLugar
      <4> QED BY <2>13, <2>14, <4>1
    <3>2. ASSUME NEW d \in DOMAIN inodo', NEW i \in ToSet(inodo'[d].hijos)
          PROVE  i \in DOMAIN inodo' \ SinPadre'
      BY <2>12, <2>13, <3>2 DEF ToSet
    <3>3. ASSUME NEW i \in DOMAIN inodo' \ SinPadre'
          PROVE  \E d \in DOMAIN inodo' : i \in ToSet(inodo'[d].hijos)
      <4>1. i \in DOMAIN inodo \ SinPadre /\ i # target
        BY <2>8, <2>12, <3>3
      <4>2. PICK d \in DOMAIN inodo : i \in ToSet(inodo[d].hijos)
        BY <4>1 DEF ArbolInv, UnSoloLugar
      <4>3. PICK k \in DOMAIN inodo[d].hijos : i = inodo[d].hijos[k]
        BY <4>2 DEF ToSet
      <4>4. d # target /\ d \in DOMAIN inodo'
        BY <2>5, <2>8, <4>3
      <4>5. CASE d # padre
        BY <2>10, <4>2, <4>4, <4>5
      <4>6. CASE d = padre
        <5>1. k \in 1..n /\ k # j
          BY <2>2, <2>6, <4>1, <4>3, <4>6
        <5>2. PICK l \in 1..(n - 1) : k = IF l < j THEN l ELSE l + 1
          <6>1. CASE k < j
            BY <2>6, <5>1, <6>1
          <6>2. CASE k > j
            <7>1. k - 1 \in 1..(n - 1) /\ k = IF k - 1 < j THEN k - 1 ELSE (k - 1) + 1
              BY <2>6, <5>1, <6>2
            <7> QED BY <7>1
          <6> QED BY <2>6, <5>1, <6>1, <6>2
        <5>3. l \in DOMAIN hs /\ hs[l] = i
          BY <2>6, <4>3, <4>6, <5>2
        <5> QED BY <2>8, <2>9, <4>6, <5>3 DEF ToSet
      <4> QED BY <4>5, <4>6
    <3> QED BY <3>1, <3>2, <3>3 DEF UnSoloLugar
  <2>16. NombresDistintos'
    <3> SUFFICES ASSUME NEW d \in DOMAIN inodo', NEW k \in DOMAIN inodo'[d].hijos,
                        NEW l \in DOMAIN inodo'[d].hijos,
                        inodo'[inodo'[d].hijos[k]].nombre = inodo'[inodo'[d].hijos[l]].nombre
                 PROVE  k = l \/ inodo'[inodo'[d].hijos[k]].nombre = Basura
      BY DEF NombresDistintos
    <3>1. /\ inodo'[inodo'[d].hijos[k]].nombre = inodo[inodo[d].hijos[Antes(d, k)]].nombre
          /\ inodo'[inodo'[d].hijos[l]].nombre = inodo[inodo[d].hijos[Antes(d, l)]].nombre
      BY <2>10, <2>13
    <3>2. \/ Antes(d, k) = Antes(d, l)
          \/ inodo[inodo[d].hijos[Antes(d, k)]].nombre = Basura
      <4>1. /\ d \in DOMAIN inodo
            /\ Antes(d, k) \in DOMAIN inodo[d].hijos /\ Antes(d, l) \in DOMAIN inodo[d].hijos
        BY <2>13
      <4>2. inodo[inodo[d].hijos[Antes(d, k)]].nombre = inodo[inodo[d].hijos[Antes(d, l)]].nombre
        BY <3>1
      <4>3. \A x, y \in DOMAIN inodo[d].hijos :
               inodo[inodo[d].hijos[x]].nombre = inodo[inodo[d].hijos[y]].nombre =>
                  x = y \/ inodo[inodo[d].hijos[x]].nombre = Basura
        BY <4>1 DEF ArbolInv, NombresDistintos
      <4> QED BY <4>1, <4>2, <4>3, Zenon
    <3> QED BY <2>13, <2>14, <3>1, <3>2
  <2>17. \A d \in DOMAIN inodo' : inodo'[d].hijos # <<>> => inodo'[d].es_directorio
    BY <2>1, <2>8, <2>10 DEF ArbolInv
  <2>18. /\ raiz' \in DOMAIN inodo' \union {NULL}
         /\ \A d \in DOMAIN inodo' \ {raiz'} : inodo'[d].nombre # "/"
    BY <2>5, <2>8, <2>10 DEF ArbolInv
  <2> QED BY <1>1, <2>11, <2>15, <2>16, <2>17, <2>18, NingunoIsEncargo DEF ArbolInv
<1> QED BY <1>2, <1>3

-----------------------------------------------------------------------------
(* The steps.                                                                *)

LEMMA WrittenFits ==
    ASSUME NEW c \in BoundedSeq(Celdas, MaxSize), NEW n \in 0..(MaxSize - 1),
           NEW datos \in BoundedSeq(Bytes, MaxSize - n)
    PROVE  Escrito(c, datos, n) \in BoundedSeq(Celdas, MaxSize)
<1>1. MaxSize \in Nat /\ MaxSize - n \in Nat /\ n \in Nat
  BY FisopfsAssumption
<1>2. c \in Seq(Celdas) /\ Len(c) <= MaxSize /\ Len(c) \in Nat
  BY <1>1, BoundedIsSeq
<1>3. datos \in Seq(Bytes) /\ Len(datos) <= MaxSize - n /\ Len(datos) \in Nat
  BY <1>1, BoundedIsSeq
<1> PICK m : m = Max({Len(c), n + Len(datos)})
  OBVIOUS
<1>4. m \in 0..MaxSize
  <2>1. n + Len(datos) \in Nat /\ n + Len(datos) <= MaxSize
    BY <1>1, <1>3
  <2>2. m = IF Len(c) >= n + Len(datos) THEN Len(c) ELSE n + Len(datos)
    BY <1>2, <2>1, MaxOfTwo
  <2> QED BY <1>1, <1>2, <2>1, <2>2
<1>5. Escrito(c, datos, n) \in [1..m -> Celdas]
  <2>1. ASSUME NEW k \in 1..m
        PROVE  (IF k \in (n+1)..(n + Len(datos)) THEN datos[k - n]
                ELSE IF k <= Len(c) THEN c[k] ELSE "?") \in Celdas
    <3>1. CASE k \in (n+1)..(n + Len(datos))
      <4>1. k - n \in 1..Len(datos)
        BY <1>1, <1>3, <3>1
      <4>2. datos[k - n] \in Bytes
        BY <1>3, <4>1
      <4> QED BY <3>1, <4>2 DEF Celdas
    <3>2. CASE k \notin (n+1)..(n + Len(datos)) /\ k <= Len(c)
      <4>1. k \in 1..Len(c)
        BY <1>2, <1>4, <3>2
      <4> QED BY <1>2, <3>2, <4>1
    <3>3. CASE k \notin (n+1)..(n + Len(datos)) /\ ~(k <= Len(c))
      BY <3>3 DEF Celdas
    <3> QED BY <3>1, <3>2, <3>3
  <2> QED BY <2>1 DEF Escrito
<1> QED BY <1>1, <1>4, <1>5, SeqIsBounded

LEMMA TruncatedFits ==
    ASSUME NEW c \in BoundedSeq(Celdas, MaxSize), NEW n \in 0..MaxSize
    PROVE  Truncado(c, n) \in BoundedSeq(Celdas, MaxSize)
<1>1. c \in Seq(Celdas) /\ Len(c) \in Nat
  BY BoundedIsSeq, FisopfsAssumption
<1>2. Truncado(c, n) \in [1..n -> Celdas]
  <2>1. ASSUME NEW k \in 1..n PROVE (IF k <= Len(c) THEN c[k] ELSE "0") \in Celdas
    BY <1>1 DEF Celdas
  <2> QED BY <2>1 DEF Truncado
<1> QED BY <1>2, SeqIsBounded, FisopfsAssumption

(* A request.                                                                *)
LEMMA RequestKeepsTree ==
    ASSUME ArbolInv, Pedido
    PROVE  ArbolInv'
<1>1. PICK path \in Paths : Pedible(path) /\ Cambio(path)
  BY DEF Pedido
<1>2. pc = "listo" /\ nuevo = Ninguno /\ ~Pendiente
  BY <1>1 DEF Pedible, ArbolInv, Pendiente, Ninguno
<1> DEFINE n == BuscarInode(path)
<1>3. n \in DOMAIN inodo \union {NULL} /\ BuscarPadre(path) \in DOMAIN inodo \union {NULL}
  BY SearchFinds
<1>4. ASSUME UNCHANGED vars PROVE ArbolInv'
  <2>1. inodo' = inodo /\ raiz' = raiz /\ nuevo' = nuevo /\ pc' = pc /\ MontonOK'
    BY <1>4 DEF vars, ArbolInv, MontonOK
  <2> QED BY <1>2, <2>1, KeepsShape
<1>5. ASSUME EsArchivo(n) PROVE n \in DOMAIN inodo /\ inodo[n].contenido \in BoundedSeq(Celdas, MaxSize)
  BY <1>3, <1>5 DEF EsArchivo, ArbolInv, MontonOK, Nodo
<1>6. ASSUME NEW modo \in Modos, NEW esDir \in BOOLEAN, path # <<>>, Crear(path, modo, esDir)
      PROVE  ArbolInv'
  <2>1. CASE ~EsDirectorio(BuscarPadre(path)) \/ n # NULL
    BY <1>4, <1>6, <2>1 DEF Crear, Error
  <2>2. CASE EsDirectorio(BuscarPadre(path)) /\ n = NULL
    <3>1. /\ Libres # {}
          /\ GuardarTras(ConNuevo(Min(Libres), CrearInode(Last(path), modo, esDir)),
                         [padre |-> BuscarPadre(path), hijo |-> Min(Libres)])
      BY <1>6, <2>2 DEF Crear
    <3>2. Min(Libres) \in Libres
      BY <3>1, MinIsLeast, FisopfsAssumption DEF Libres
    <3> QED BY <1>2, <1>6, <2>2, <3>1, <3>2, CreateKeepsTree DEF GuardarTras
  <2> QED BY <2>1, <2>2
<1>7. ASSUME NEW k \in 0..(MaxSize - 1), NEW d \in BoundedSeq(Bytes, MaxSize - k), Write(path, d, k)
      PROVE  ArbolInv'
  <2>1. CASE ~EsArchivo(n)
    BY <1>4, <1>7, <2>1 DEF Write, Error
  <2>2. CASE EsArchivo(n)
    <3>1. GuardarTras(ConContenido(n, Escrito(inodo[n].contenido, d, k)), Ninguno)
      BY <1>7, <2>2 DEF Write
    <3>2. n \in DOMAIN inodo /\ Escrito(inodo[n].contenido, d, k) \in BoundedSeq(Celdas, MaxSize)
      BY <1>5, <2>2, WrittenFits
    <3> QED BY <1>2, <3>1, <3>2, ContentsKeepShape DEF GuardarTras
  <2> QED BY <2>1, <2>2
<1>8. ASSUME Unlink(path) PROVE ArbolInv'
  <2>1. CASE ~EsArchivo(n)
    BY <1>4, <1>8, <2>1 DEF Unlink, Error
  <2>2. CASE EsArchivo(n)
    <3>1. GuardarTras(EliminarInode(BuscarPadre(path), n), Ninguno)
      BY <1>8, <2>2 DEF Unlink
    <3>2. inodo[n].hijos = <<>>
      BY <1>5, <2>2 DEF EsArchivo, ArbolInv
    <3> QED BY <1>2, <1>3, <3>1, <3>2, RemoveKeepsTree DEF GuardarTras
  <2> QED BY <2>1, <2>2
<1>9. ASSUME Rmdir(path) PROVE ArbolInv'
  <2>1. CASE ~EsDirectorio(n) \/ inodo[n].hijos # <<>>
    BY <1>4, <1>9, <2>1 DEF Rmdir, Error
  <2>2. CASE EsDirectorio(n) /\ inodo[n].hijos = <<>>
    <3>1. GuardarTras(EliminarInode(BuscarPadre(path), n), Ninguno)
      BY <1>9, <2>2 DEF Rmdir
    <3> QED BY <1>2, <1>3, <2>2, <3>1, RemoveKeepsTree DEF GuardarTras
  <2> QED BY <2>1, <2>2
<1>10. ASSUME NEW a, NEW t, Open(path, a, t) PROVE ArbolInv'
  <2>1. CASE ~PuedeAbrir(n, a) \/ ~t
    BY <1>4, <1>10, <2>1 DEF Open
  <2>2. CASE PuedeAbrir(n, a) /\ t
    <3>1. GuardarTras(ConContenido(n, <<>>), Ninguno)
      BY <1>10, <2>2 DEF Open
    <3>2. n \in DOMAIN inodo
      BY <1>5, <2>2 DEF PuedeAbrir
    <3>3. <<>> \in BoundedSeq(Celdas, MaxSize)
      <4>1. 0 \in 0..MaxSize /\ <<>> \in [1..0 -> Celdas]
        BY FisopfsAssumption
      <4> QED BY <4>1, SeqIsBounded, FisopfsAssumption
    <3> QED BY <1>2, <3>1, <3>2, <3>3, ContentsKeepShape DEF GuardarTras
  <2> QED BY <2>1, <2>2
<1>11. ASSUME NEW k \in 0..MaxSize, Truncate(path, k) PROVE ArbolInv'
  <2>1. CASE ~EsArchivo(n)
    BY <1>4, <1>11, <2>1 DEF Truncate, Error
  <2>2. CASE EsArchivo(n)
    <3>1. GuardarTras(ConContenido(n, Truncado(inodo[n].contenido, k)), Ninguno)
      BY <1>11, <2>2 DEF Truncate
    <3>2. n \in DOMAIN inodo /\ Truncado(inodo[n].contenido, k) \in BoundedSeq(Celdas, MaxSize)
      BY <1>5, <2>2, TruncatedFits
    <3> QED BY <1>2, <3>1, <3>2, ContentsKeepShape DEF GuardarTras
  <2> QED BY <2>1, <2>2
<1>12. ASSUME Utimens(path) PROVE ArbolInv'
  <2>1. CASE n = NULL
    BY <1>4, <1>12, <2>1 DEF Utimens, Error
  <2>2. CASE n # NULL
    <3>1. inodo' = inodo /\ raiz' = raiz /\ nuevo' = Ninguno
      BY <1>12, <2>2 DEF Utimens, GuardarTras
    <3>2. MontonOK' /\ nuevo' = nuevo
      BY <1>2, <3>1 DEF ArbolInv, MontonOK
    <3> QED BY <3>1, <3>2, KeepsShape
  <2> QED BY <2>1, <2>2
<1> HIDE DEF n
<1>13. CASE path # <<>> /\ \E m \in Modos : Mkdir(path, m) \/ Create(path, m)
  BY <1>6, <1>13 DEF Mkdir, Create
<1>14. CASE \E k \in 0..(MaxSize-1) : \E d \in BoundedSeq(Bytes, MaxSize - k) :
              d # <<>> /\ Write(path, d, k)
  BY <1>7, <1>14
<1>15. CASE \E a \in {"rd", "wr", "rdwr"}, t \in BOOLEAN : Open(path, a, t)
  BY <1>10, <1>15
<1>16. CASE \E k \in 0..MaxSize : Truncate(path, k)
  BY <1>11, <1>16
<1> QED BY <1>1, <1>8, <1>9, <1>12, <1>13, <1>14, <1>15, <1>16, Zenon DEF Cambio

(* The end of the process.                                                   *)
LEMMA EndKeepsTree ==
    ASSUME Apagado
    PROVE  ArbolInv'
<1>1. inodo' = <<>> /\ DOMAIN inodo' = {} /\ raiz' = NULL /\ nuevo' = Ninguno /\ ~Pendiente'
  BY DEF Apagado, Pendiente, Ninguno
<1>2. MontonOK' /\ UnSoloLugar' /\ NombresDistintos'
  BY <1>1 DEF MontonOK, UnSoloLugar, NombresDistintos
<1> QED BY <1>1, <1>2, NingunoIsEncargo DEF ArbolInv

LEMMA AnswerKeepsTree ==
    ASSUME ArbolInv, Responder
    PROVE  ArbolInv'
<1>1. CASE Desmontando
  BY <1>1, EndKeepsTree DEF Responder
<1>2. CASE ~Desmontando
  <2>1. /\ inodo' = IF nuevo = Ninguno THEN inodo ELSE AgregarHijo(nuevo.padre, nuevo.hijo)
        /\ nuevo' = Ninguno /\ raiz' = raiz
    BY <1>2 DEF Responder
  <2>2. CASE nuevo = Ninguno
    <3>1. inodo' = inodo /\ MontonOK' /\ nuevo' = nuevo
      BY <2>1, <2>2 DEF ArbolInv, MontonOK
    <3> QED BY <2>1, <3>1, KeepsShape
  <2>3. CASE nuevo # Ninguno
    <3>1. Pendiente
      BY <1>2, <2>3 DEF Pendiente, Desmontando, ArbolInv, Encargo, Ninguno
    <3> QED BY <2>1, <2>3, <3>1, AddKeepsTree
  <2> QED BY <2>2, <2>3
<1> QED BY <1>1, <1>2

LEMMA StartIsTree ==
    ASSUME Init
    PROVE  ArbolInv
<1>1. inodo = <<>> /\ DOMAIN inodo = {} /\ raiz = NULL /\ nuevo = Ninguno /\ ~Pendiente
  BY DEF Init, Pendiente, Ninguno
<1>2. MontonOK /\ UnSoloLugar /\ NombresDistintos
  BY <1>1 DEF MontonOK, UnSoloLugar, NombresDistintos
<1> QED BY <1>1, <1>2, NingunoIsEncargo DEF ArbolInv

(* The inductive invariant, which speaks of places, counts the same things   *)
(* as the property.                                                          *)
LEMMA TreeIsWellFormed ==
    ASSUME ArbolInv
    PROVE  ArbolBienFormado
<1>1. ASSUME NEW i \in DOMAIN inodo
      PROVE  Cardinality(Apariciones(i)) =
                IF i = raiz \/ (i = nuevo.hijo /\ nuevo.padre # NULL) THEN 0 ELSE 1
  <2>1. CASE i \in SinPadre
    <3>1. ASSUME NEW x \in Apariciones(i) PROVE FALSE
      <4>1. x \in Lugares /\ inodo[x[1]].hijos[x[2]] = i
        BY <3>1 DEF Apariciones
      <4>2. PICK d \in DOMAIN inodo : x \in {d} \X DOMAIN inodo[d].hijos
        BY <4>1 DEF Lugares
      <4>3. x[1] = d /\ x[2] \in DOMAIN inodo[d].hijos
        BY <4>2
      <4>4. i \in ToSet(inodo[d].hijos)
        BY <4>1, <4>3 DEF ToSet
      <4> QED BY <2>1, <4>4 DEF ArbolInv, UnSoloLugar
    <3>2. Apariciones(i) = {}
      BY <3>1
    <3>3. Cardinality(Apariciones(i)) = 0
      BY <3>2, FS_EmptySet
    <3> QED BY <2>1, <3>3 DEF SinPadre, Pendiente
  <2>2. CASE i \notin SinPadre
    <3>1. PICK d \in DOMAIN inodo : i \in ToSet(inodo[d].hijos)
      BY <2>2 DEF ArbolInv, UnSoloLugar
    <3>2. PICK k \in DOMAIN inodo[d].hijos : i = inodo[d].hijos[k]
      BY <3>1 DEF ToSet
    <3>3. <<d, k>> \in Apariciones(i)
      <4>1. <<d, k>> \in {d} \X DOMAIN inodo[d].hijos
        BY <3>2
      <4>2. <<d, k>> \in Lugares
        BY <4>1 DEF Lugares
      <4> QED BY <3>2, <4>2 DEF Apariciones
    <3>4. ASSUME NEW x \in Apariciones(i) PROVE x = <<d, k>>
      <4>1. x \in Lugares /\ inodo[x[1]].hijos[x[2]] = i
        BY <3>4 DEF Apariciones
      <4>2. PICK e \in DOMAIN inodo : x \in {e} \X DOMAIN inodo[e].hijos
        BY <4>1 DEF Lugares
      <4>3. x = <<x[1], x[2]>> /\ x[1] = e /\ x[2] \in DOMAIN inodo[e].hijos
        BY <4>2
      <4>4. inodo[e].hijos[x[2]] = inodo[d].hijos[k]
        BY <3>2, <4>1, <4>3
      <4>5. e = d /\ x[2] = k
        BY <3>2, <4>3, <4>4 DEF ArbolInv, UnSoloLugar
      <4> QED BY <4>3, <4>5
    <3>5. Apariciones(i) = {<<d, k>>}
      BY <3>3, <3>4
    <3>6. Cardinality(Apariciones(i)) = 1
      BY <3>5, FS_Singleton
    <3> QED BY <2>2, <3>6 DEF SinPadre, Pendiente
  <2> QED BY <2>1, <2>2
<1>2. \A i \in DOMAIN inodo : /\ ToSet(inodo[i].hijos) \subseteq DOMAIN inodo
                              /\ inodo[i].hijos # <<>> => inodo[i].es_directorio
  BY DEF ArbolInv, UnSoloLugar
<1>3. nuevo.padre # NULL => EsDirectorio(nuevo.padre) /\ nuevo.hijo \in DOMAIN inodo
  BY DEF ArbolInv, Pendiente, PendienteSano, EsDirectorio
<1> QED BY <1>1, <1>2, <1>3 DEF ArbolInv, ArbolBienFormado

-----------------------------------------------------------------------------
(* What the user sees.                                                       *)

(* en holds the inodes that each path up to n names long names.              *)
EsMapa(en, nodos, i, n) ==
    /\ en = [p \in TodosPaths |-> en[p]]
    /\ en[<<>>] = {i}
    /\ \A p \in TodosPaths :
          p # <<>> /\ Len(p) <= n => en[p] = HijosDeNombre(nodos, en[Front(p)], Last(p))

LEMMA PathsAreSequences ==
    /\ \A p \in TodosPaths : p \in Seq(Nombres \union {Basura}) /\ Len(p) <= MaxDepth
    /\ \A p \in Seq(Nombres \union {Basura}) : Len(p) <= MaxDepth => p \in TodosPaths
    /\ \A p \in Paths : p \in Seq(Nombres) /\ Len(p) <= MaxDepth /\ p \in TodosPaths
    /\ \A p \in Seq(Nombres) : Len(p) <= MaxDepth => p \in Paths
    /\ MaxDepth \in Nat
<1>1. MaxDepth \in Nat
  BY FisopfsAssumption
<1>2. ASSUME NEW S, NEW p \in Seq(S), Len(p) <= MaxDepth PROVE p \in BoundedSeq(S, MaxDepth)
  <2>1. Len(p) \in 0..MaxDepth /\ p \in [1..Len(p) -> S]
    BY <1>1, <1>2
  <2> QED BY <1>1, <2>1, SeqIsBounded
<1>3. \A p \in TodosPaths : p \in Seq(Nombres \union {Basura}) /\ Len(p) <= MaxDepth
  BY <1>1, BoundedIsSeq DEF TodosPaths
<1>4. \A p \in Paths : p \in Seq(Nombres) /\ Len(p) <= MaxDepth
  BY <1>1, BoundedIsSeq DEF Paths
<1>5. \A p \in Seq(Nombres) : p \in Seq(Nombres \union {Basura})
  OBVIOUS
<1> QED BY <1>1, <1>2, <1>3, <1>4, <1>5 DEF TodosPaths, Paths

LEMMA FrontOf ==
    ASSUME NEW S, NEW p \in Seq(S), p # <<>>
    PROVE  /\ Len(p) \in Nat \ {0}
           /\ Front(p) \in Seq(S) /\ Len(Front(p)) = Len(p) - 1
           /\ \A k \in 1..(Len(p) - 1) : Front(p)[k] = p[k]
           /\ Last(p) = p[Len(p)] /\ Last(p) \in S
<1>1. Len(p) \in Nat \ {0}
  OBVIOUS
<1>2. /\ Front(p) \in Seq(S) /\ Len(Front(p)) = Len(p) - 1
      /\ \A k \in 1..(Len(p) - 1) : Front(p)[k] = p[k]
  BY <1>1, SMTT(20) DEF Front
<1>3. Last(p) = p[Len(p)] /\ Last(p) \in S
  BY <1>1 DEF Last
<1> QED BY <1>1, <1>2, <1>3

LEMMA RootIsPath == <<>> \in TodosPaths /\ <<>> \in Paths /\ Len(<<>>) = 0
<1>1. /\ <<>> \in Seq(Nombres \union {Basura}) /\ <<>> \in Seq(Nombres)
      /\ Len(<<>>) = 0 /\ 0 <= MaxDepth
  BY FisopfsAssumption
<1> QED BY <1>1, PathsAreSequences

LEMMA FrontIsShorter ==
    ASSUME NEW p \in TodosPaths, p # <<>>
    PROVE  /\ Front(p) \in TodosPaths /\ Len(Front(p)) = Len(p) - 1
           /\ Len(p) \in Nat \ {0}
<1>1. p \in Seq(Nombres \union {Basura}) /\ Len(p) <= MaxDepth
  BY PathsAreSequences
<1>2. /\ Front(p) \in Seq(Nombres \union {Basura})
      /\ Len(p) \in Nat \ {0} /\ Len(Front(p)) = Len(p) - 1
  BY <1>1, FrontOf
<1>3. Len(Front(p)) <= MaxDepth
  BY <1>1, <1>2, PathsAreSequences
<1> QED BY <1>2, <1>3, PathsAreSequences

LEMMA MapDefined ==
    ASSUME NEW nodos, NEW i, NEW n \in Nat
    PROVE  \E en : EsMapa(en, nodos, i, n)
<1> DEFINE S == {k \in Nat : \E en : EsMapa(en, nodos, i, k)}
<1>0. <<>> \in TodosPaths
  BY RootIsPath
<1>1. 0 \in S
  <2> DEFINE en == [p \in TodosPaths |-> {i}]
  <2>1. \A p \in TodosPaths : p # <<>> => ~(Len(p) <= 0)
    BY FrontIsShorter
  <2>2. EsMapa(en, nodos, i, 0)
    BY <1>0, <2>1 DEF EsMapa
  <2> QED BY <2>2, Zenon
<1>2. ASSUME NEW k \in Nat, k \in S PROVE k + 1 \in S
  <2>1. PICK en : EsMapa(en, nodos, i, k)
    BY <1>2
  <2> DEFINE g == [p \in TodosPaths |->
                     IF Len(p) = k + 1 THEN HijosDeNombre(nodos, en[Front(p)], Last(p)) ELSE en[p]]
  <2>2. /\ g = [p \in TodosPaths |-> g[p]]
        /\ \A p \in TodosPaths :
              g[p] = IF Len(p) = k + 1 THEN HijosDeNombre(nodos, en[Front(p)], Last(p)) ELSE en[p]
    BY Zenon
  <2> HIDE DEF g
  <2>3. g[<<>>] = {i}
    <3>1. Len(<<>>) # k + 1
      OBVIOUS
    <3> QED BY <1>0, <2>1, <2>2, <3>1, Zenon DEF EsMapa
  <2>4. ASSUME NEW p \in TodosPaths, p # <<>>, Len(p) <= k + 1
        PROVE  g[p] = HijosDeNombre(nodos, g[Front(p)], Last(p))
    <3>1. Front(p) \in TodosPaths /\ Len(Front(p)) = Len(p) - 1 /\ Len(p) \in Nat \ {0}
      BY <2>4, FrontIsShorter
    <3>2. Len(Front(p)) # k + 1 /\ (Len(p) # k + 1 => Len(p) <= k)
      BY <2>4, <3>1
    <3>3. g[Front(p)] = en[Front(p)]
      BY <2>2, <3>1, <3>2, Zenon
    <3>4. CASE Len(p) = k + 1
      BY <2>2, <3>3, <3>4, Zenon
    <3>5. CASE Len(p) # k + 1
      <4>1. g[p] = en[p]
        BY <2>2, <3>5, Zenon
      <4>2. en[p] = HijosDeNombre(nodos, en[Front(p)], Last(p))
        BY <2>1, <2>4, <3>2, <3>5, Zenon DEF EsMapa
      <4> QED BY <3>3, <4>1, <4>2
    <3> QED BY <3>4, <3>5
  <2>5. EsMapa(g, nodos, i, k + 1)
    BY <2>2, <2>3, <2>4, Zenon DEF EsMapa
  <2>6. \E v : EsMapa(v, nodos, i, k + 1)
    BY <2>5, Zenon
  <2> QED BY <2>6
<1>3. Nat \subseteq S
  <2> HIDE DEF S
  <2> QED BY <1>1, <1>2, Induction
<1> QED BY <1>3

LoQueNombra(en, nodos) ==
    [p \in {q \in TodosPaths : en[q] # {}} |->
        CHOOSE v \in {Vista(nodos, h) : h \in en[p]} : TRUE]

(* And the map is the one that ArbolDe() reads.                              *)
LEMMA MapIsRead ==
    ASSUME NEW nodos, NEW i
    PROVE  \E en : /\ EsMapa(en, nodos, i, MaxDepth)
                   /\ ArbolDe(nodos, i) = LoQueNombra(en, nodos)
<1>1. \E g : g = [p \in TodosPaths |->
                    IF p = <<>> THEN {i} ELSE HijosDeNombre(nodos, g[Front(p)], Last(p))]
  <2>1. PICK g : EsMapa(g, nodos, i, MaxDepth)
    BY MapDefined, PathsAreSequences
  <2>2. ASSUME NEW p \in TodosPaths
        PROVE  g[p] = IF p = <<>> THEN {i} ELSE HijosDeNombre(nodos, g[Front(p)], Last(p))
    <3>1. Len(p) <= MaxDepth
      BY PathsAreSequences
    <3> QED BY <2>1, <3>1, Zenon DEF EsMapa
  <2>3. g = [p \in TodosPaths |-> g[p]]
    BY <2>1, Zenon DEF EsMapa
  <2>4. g = [p \in TodosPaths |->
               IF p = <<>> THEN {i} ELSE HijosDeNombre(nodos, g[Front(p)], Last(p))]
    BY <2>2, <2>3, Zenon
  <2> QED BY <2>4, Zenon
<1> DEFINE en[p \in TodosPaths] ==
      IF p = <<>> THEN {i} ELSE HijosDeNombre(nodos, en[Front(p)], Last(p))
<1>2. ArbolDe(nodos, i) = LoQueNombra(en, nodos)
  BY Zenon DEF ArbolDe, LoQueNombra
<1>3. en = [p \in TodosPaths |->
              IF p = <<>> THEN {i} ELSE HijosDeNombre(nodos, en[Front(p)], Last(p))]
  BY <1>1, Zenon
<1> HIDE DEF en
<1>4. \A p \in TodosPaths :
         en[p] = IF p = <<>> THEN {i} ELSE HijosDeNombre(nodos, en[Front(p)], Last(p))
  BY <1>3, Zenon
<1>5. en = [p \in TodosPaths |-> en[p]]
  BY <1>3, <1>4, Zenon
<1>6. <<>> \in TodosPaths
  BY RootIsPath
<1>7. EsMapa(en, nodos, i, MaxDepth)
  BY <1>4, <1>5, <1>6, Zenon DEF EsMapa
<1> QED BY <1>2, <1>7, Zenon

(* A path whose directories are all there names what the search finds.       *)
Transitable(path) == \A q \in Prefijos(path) : EsDirectorio(BuscarInode(q))

LEMMA PrefixesOfFront ==
    ASSUME NEW S, NEW path \in Seq(S), path # <<>>
    PROVE  /\ Front(path) \in Prefijos(path)
           /\ Prefijos(Front(path)) \subseteq Prefijos(path)
<1>1. /\ Len(path) \in Nat \ {0}
      /\ Front(path) \in Seq(S) /\ Len(Front(path)) = Len(path) - 1
      /\ \A k \in 1..(Len(path) - 1) : Front(path)[k] = path[k]
  BY FrontOf
<1>2. Front(path) \in Prefijos(path)
  <2>1. Len(path) - 1 \in 0..(Len(path) - 1)
    BY <1>1
  <2> QED BY <2>1 DEF Front, Prefijos
<1>3. ASSUME NEW n \in 0..(Len(Front(path)) - 1)
      PROVE  n \in 0..(Len(path) - 1) /\ SubSeq(Front(path), 1, n) = SubSeq(path, 1, n)
  <2>1. n \in 0..(Len(path) - 1) /\ n <= Len(path) - 1
    BY <1>1
  <2>2. \A k \in 1..n : k \in 1..(Len(path) - 1)
    BY <1>1, <2>1
  <2>3. SubSeq(Front(path), 1, n) = [k \in 1..n |-> Front(path)[k]]
    BY <1>1, <2>1
  <2>4. SubSeq(path, 1, n) = [k \in 1..n |-> path[k]]
    BY <1>1, <2>1
  <2> QED BY <1>1, <2>1, <2>2, <2>3, <2>4
<1>4. ASSUME NEW q \in Prefijos(Front(path)) PROVE q \in Prefijos(path)
  <2>1. PICK n \in 0..(Len(Front(path)) - 1) : q = SubSeq(Front(path), 1, n)
    BY <1>4 DEF Prefijos
  <2>2. n \in 0..(Len(path) - 1) /\ q = SubSeq(path, 1, n)
    BY <1>3, <2>1
  <2> QED BY <2>2 DEF Prefijos
<1> QED BY <1>2, <1>4

LEMMA SearchOfRoot == BuscarInode(<<>>) = raiz
<1>1. Len(<<>>) \in Nat /\ Len(<<>>) = 0
  OBVIOUS
<1>2. PICK f : /\ EsCamino(f, inodo, raiz, <<>>, Len(<<>>))
               /\ BuscarDesde(inodo, raiz, <<>>) = f[Len(<<>>)]
  BY <1>1, WalkIsTaken
<1> QED BY <1>1, <1>2 DEF EsCamino, BuscarInode

Uno(n) == IF n = NULL THEN {} ELSE {n}

(* The children of that name are one or none, as the search says.            *)
LEMMA OneOfThatName ==
    ASSUME ArbolInv, NEW d \in DOMAIN inodo, inodo[d].es_directorio, NEW x \in Nombres
    PROVE  HijosDeNombre(inodo, {d}, x) = Uno(Hijo(inodo, d, x))
<1>1. inodo[d].hijos \in Seq(Inodes) /\ ToSet(inodo[d].hijos) \subseteq DOMAIN inodo
  BY HeapIsSane DEF NodosSanos
<1>2. HijosDeNombre(inodo, {d}, x) = {h \in ToSet(inodo[d].hijos) : inodo[h].nombre = x}
  BY DEF HijosDeNombre
<1> PICK c : c = Hijo(inodo, d, x)
  OBVIOUS
<1>3. /\ c \in ToSet(inodo[d].hijos) \union {NULL}
      /\ c = NULL => \A j \in ToSet(inodo[d].hijos) : inodo[j].nombre # x
      /\ c # NULL => inodo[c].nombre = x
  BY <1>1, HijoAnswers
<1>4. CASE c = NULL
  BY <1>2, <1>3, <1>4 DEF Uno
<1>5. CASE c # NULL
  <2>1. c \in ToSet(inodo[d].hijos) /\ inodo[c].nombre = x
    BY <1>3, <1>5
  <2>2. ASSUME NEW h \in ToSet(inodo[d].hijos), inodo[h].nombre = x PROVE h = c
    <3>1. PICK j \in DOMAIN inodo[d].hijos : h = inodo[d].hijos[j]
      BY <2>2 DEF ToSet
    <3>2. PICK k \in DOMAIN inodo[d].hijos : c = inodo[d].hijos[k]
      BY <2>1 DEF ToSet
    <3>3. x # Basura
      BY FisopfsAssumption
    <3>4. \A m, n \in DOMAIN inodo[d].hijos :
             inodo[inodo[d].hijos[m]].nombre = inodo[inodo[d].hijos[n]].nombre =>
                m = n \/ inodo[inodo[d].hijos[m]].nombre = Basura
      BY DEF ArbolInv, NombresDistintos
    <3>5. j = k
      BY <2>1, <2>2, <3>1, <3>2, <3>3, <3>4
    <3> QED BY <3>1, <3>2, <3>5
  <2> QED BY <1>2, <1>5, <2>1, <2>2 DEF Uno
<1> QED BY <1>4, <1>5

LEMMA MapIsSearch ==
    ASSUME ArbolInv, raiz # NULL, NEW en, EsMapa(en, inodo, raiz, MaxDepth),
           NEW path \in Paths, Transitable(path)
    PROVE  en[path] = Uno(BuscarInode(path))
<1> DEFINE S == {k \in Nat : \A p \in Paths :
                    Len(p) = k /\ Transitable(p) => en[p] = Uno(BuscarInode(p))}
<1>1. 0 \in S
  <2> SUFFICES ASSUME NEW p \in Paths, Len(p) = 0 PROVE en[p] = Uno(BuscarInode(p))
    OBVIOUS
  <2>1. p = <<>>
    BY PathsAreSequences
  <2> QED BY <2>1, SearchOfRoot DEF EsMapa, Uno
<1>2. ASSUME NEW k \in Nat, k \in S PROVE k + 1 \in S
  <2> SUFFICES ASSUME NEW p \in Paths, Len(p) = k + 1, Transitable(p)
               PROVE  en[p] = Uno(BuscarInode(p))
    OBVIOUS
  <2>1. p \in Seq(Nombres) /\ Len(p) <= MaxDepth /\ p \in TodosPaths /\ p # <<>>
    <3>1. Len(<<>>) # k + 1
      OBVIOUS
    <3> QED BY <3>1, PathsAreSequences
  <2>2. Front(p) \in Seq(Nombres) /\ Len(Front(p)) = k /\ Last(p) \in Nombres
    BY <2>1, FrontOf
  <2>3. Front(p) \in Paths
    <3>1. k <= MaxDepth
      BY <2>1, PathsAreSequences
    <3> QED BY <2>2, <3>1, PathsAreSequences
  <2>4. EsDirectorio(BuscarInode(Front(p))) /\ Transitable(Front(p))
    BY <2>1, PrefixesOfFront DEF Transitable
  <2> PICK d : d = BuscarInode(Front(p))
    OBVIOUS
  <2>5. d \in DOMAIN inodo /\ inodo[d].es_directorio /\ d # NULL
    BY <2>3, <2>4, SearchFinds DEF EsDirectorio
  <2>6. en[Front(p)] = {d}
    BY <1>2, <2>2, <2>3, <2>4, <2>5 DEF Uno
  <2>7. en[p] = HijosDeNombre(inodo, {d}, Last(p))
    BY <2>1, <2>6 DEF EsMapa
  <2>8. BuscarInode(p) = Baja(inodo, d, Last(p))
    BY <2>1, SearchEndsInParent DEF BuscarInode
  <2>9. BuscarInode(p) = Hijo(inodo, d, Last(p))
    BY <2>5, <2>8 DEF Baja
  <2> QED BY <2>2, <2>5, <2>7, <2>9, OneOfThatName
<1>3. Nat \subseteq S
  <2> HIDE DEF S
  <2> QED BY <1>1, <1>2, Induction
<1>4. Len(path) \in Nat
  BY PathsAreSequences
<1> QED BY <1>3, <1>4

LEMMA AppendedPath ==
    ASSUME NEW p \in Paths, Len(p) < MaxDepth, NEW x \in Nombres \union {Basura}
    PROVE  /\ Append(p, x) \in TodosPaths /\ Append(p, x) # <<>>
           /\ Front(Append(p, x)) = p /\ Last(Append(p, x)) = x
           /\ Len(Append(p, x)) <= MaxDepth
<1>1. p \in Seq(Nombres \union {Basura}) /\ Len(p) \in Nat /\ MaxDepth \in Nat
  <2>1. p \in Seq(Nombres)
    BY PathsAreSequences
  <2> QED BY <2>1, PathsAreSequences
<1> PICK q : q = Append(p, x)
  OBVIOUS
<1>2. /\ q \in Seq(Nombres \union {Basura}) /\ Len(q) = Len(p) + 1
      /\ \A k \in 1..Len(p) : q[k] = p[k]
      /\ q[Len(p) + 1] = x
  BY <1>1
<1>3. q # <<>> /\ Len(q) <= MaxDepth
  BY <1>1, <1>2
<1>4. Front(q) = p
  <2>1. Front(q) \in Seq(Nombres \union {Basura}) /\ Len(Front(q)) = Len(p)
        /\ \A k \in 1..Len(p) : Front(q)[k] = q[k]
    <3>1. /\ Front(q) \in Seq(Nombres \union {Basura}) /\ Len(Front(q)) = Len(q) - 1
          /\ \A k \in 1..(Len(q) - 1) : Front(q)[k] = q[k]
      BY <1>2, <1>3, FrontOf
    <3>2. Len(q) - 1 = Len(p)
      BY <1>1, <1>2
    <3> QED BY <3>1, <3>2
  <2> QED BY <1>1, <1>2, <2>1
<1>5. Last(q) = x
  BY <1>2 DEF Last
<1> QED BY <1>2, <1>3, <1>4, <1>5, PathsAreSequences

LEMMA SliceOf ==
    ASSUME NEW S, NEW c \in Seq(S), NEW n \in Nat, NEW m \in Nat, n + m <= Len(c)
    PROVE  SubSeq(c, n + 1, n + m) = [k \in 1..m |-> c[n + k]]
<1>1. /\ n + 1 \in Int /\ n + m \in Int /\ (n + m) - (n + 1) + 1 = m
      /\ n + 1 <= n + m \/ m = 0
      /\ \A k \in 1..m : (n + 1) + k - 1 = n + k
  OBVIOUS
<1>2. \A k \in (n + 1)..(n + m) : c[k] \in S
  OBVIOUS
<1>3. /\ SubSeq(c, n + 1, n + m) \in Seq(S)
      /\ Len(SubSeq(c, n + 1, n + m)) = IF n + 1 <= n + m THEN (n + m) - (n + 1) + 1 ELSE 0
      /\ \A k \in 1..((n + m) - (n + 1) + 1) : SubSeq(c, n + 1, n + m)[k] = c[(n + 1) + k - 1]
  BY <1>1, <1>2, SubSeqProperties
<1>4. PICK t : t = SubSeq(c, n + 1, n + m)
  OBVIOUS
<1>5. t \in Seq(S) /\ Len(t) = m /\ \A k \in 1..m : t[k] = c[n + k]
  BY <1>1, <1>3, <1>4
<1>6. t = [k \in 1..m |-> c[n + k]]
  BY <1>5
<1> QED BY <1>4, <1>6

LEMMA LesserOfTwo ==
    ASSUME NEW a \in Int, NEW b \in Int
    PROVE  Min({a, b}) = IF a <= b THEN a ELSE b
<1>1. \E x \in {a, b} : \A y \in {a, b} : x =< y
  OBVIOUS
<1>2. Min({a, b}) \in {a, b} /\ \A y \in {a, b} : Min({a, b}) =< y
  BY <1>1, Zenon DEF Min
<1> QED BY <1>2

(* What the handler takes of a content, and the bytes there are from n on.   *)
Recorte(c, n, l) ==
    IF n < Len(c) THEN SubSeq(c, n + 1, Min({n + l, Len(c)})) ELSE <<>>
Disponible(c, n, l) == [k \in 1..Max({0, Min({l, Len(c) - n})}) |-> c[n + k]]

(* A read answers the bytes there are from its offset on.                    *)
LEMMA ReadAnswers ==
    ASSUME NEW S, NEW c \in Seq(S), NEW n \in Nat, NEW l \in Nat
    PROVE  Recorte(c, n, l) = Disponible(c, n, l)
<1> USE DEF Recorte, Disponible
<1>1. Len(c) \in Nat /\ n + l \in Int /\ l \in Int /\ Len(c) - n \in Int
  OBVIOUS
<1>2. Min({n + l, Len(c)}) = IF n + l <= Len(c) THEN n + l ELSE Len(c)
  BY <1>1, LesserOfTwo
<1>3. Min({l, Len(c) - n}) = IF l <= Len(c) - n THEN l ELSE Len(c) - n
  BY <1>1, LesserOfTwo
<1>4. CASE n < Len(c)
  <2>1. PICK m \in Nat : m = IF l <= Len(c) - n THEN l ELSE Len(c) - n
    BY <1>1, <1>4
  <2>2. n + m <= Len(c) /\ n + m = IF n + l <= Len(c) THEN n + l ELSE Len(c)
    BY <1>1, <1>4, <2>1
  <2>3. Min({n + l, Len(c)}) = n + m /\ Min({l, Len(c) - n}) = m
    BY <1>2, <1>3, <2>1, <2>2, Zenon
  <2>4. Max({0, m}) = m
    BY MaxOfTwo
  <2>5. SubSeq(c, n + 1, n + m) = [k \in 1..m |-> c[n + k]]
    BY <2>2, SliceOf
  <2> QED BY <1>4, <2>3, <2>4, <2>5, Zenon
<1>5. CASE ~(n < Len(c))
  <2>1. PICK w \in Int : w = IF l <= Len(c) - n THEN l ELSE Len(c) - n
    BY <1>1
  <2>2. w <= 0
    BY <1>1, <1>5, <2>1
  <2>3. Max({0, w}) = 0
    <3>1. \E x \in {0, w} : \A y \in {0, w} : x >= y
      BY <2>2
    <3>2. Max({0, w}) \in {0, w} /\ \A y \in {0, w} : Max({0, w}) >= y
      BY <3>1, Zenon DEF Max
    <3> QED BY <2>2, <3>2
  <2>4. Min({l, Len(c) - n}) = w
    BY <1>3, <2>1, Zenon
  <2>5. [k \in 1..0 |-> c[n + k]] = <<>>
    OBVIOUS
  <2> QED BY <1>5, <2>3, <2>4, <2>5, Zenon
<1> QED BY <1>4, <1>5

LEMMA QueriesAreTrue ==
    ASSUME ArbolInv
    PROVE  ConsultasFieles
<1> SUFFICES ASSUME NEW p \in Paths, Pedible(p)
             PROVE  LET a == Arbol IN
                    /\ (Getattr(p) # <<"ENOENT">>) <=> p \in DOMAIN a
                    /\ p \in DOMAIN a =>
                          /\ Getattr(p) = <<a[p].dir, a[p].modo, Len(a[p].contenido)>>
                          /\ a[p].dir /\ Len(p) < MaxDepth =>
                                Readdir(p) = {".", ".."} \union {x \in Nombres \union {Basura} : Append(p, x) \in DOMAIN a}
                          /\ ~a[p].dir =>
                                \A n, l \in 0..MaxSize :
                                   Read(p, n, l) = [k \in 1..Max({0, Min({l, Len(a[p].contenido) - n})})
                                                      |-> a[p].contenido[n + k]]
  BY Zenon DEF ConsultasFieles
<1> DEFINE a == Arbol
<1>1. Transitable(p) /\ raiz # NULL /\ a = ArbolDe(inodo, raiz)
  <2>1. Transitable(p) /\ pc = "listo" /\ (p = <<>> => EsDirectorio(raiz))
    BY DEF Pedible, Transitable
  <2>2. raiz # NULL
    <3>1. CASE p = <<>>
      BY <2>1, <3>1 DEF EsDirectorio
    <3>2. CASE p # <<>>
      <4>1. p \in Seq(Nombres)
        BY PathsAreSequences
      <4>2. <<>> \in Prefijos(p)
        <5>1. Len(p) \in Nat \ {0} /\ 0 \in 0..(Len(p) - 1) /\ SubSeq(p, 1, 0) = <<>>
          BY <3>2, <4>1
        <5> QED BY <5>1 DEF Prefijos
      <4> QED BY <2>1, <4>2, SearchOfRoot DEF Transitable, EsDirectorio
    <3> QED BY <3>1, <3>2
  <2> QED BY <2>1, <2>2 DEF Arbol
<1>2. PICK en : EsMapa(en, inodo, raiz, MaxDepth) /\ a = LoQueNombra(en, inodo)
  BY <1>1, MapIsRead
<1>2a. a = [q \in {r \in TodosPaths : en[r] # {}} |->
             CHOOSE v \in {Vista(inodo, h) : h \in en[q]} : TRUE]
  BY <1>2 DEF LoQueNombra
<1> PICK n : n = BuscarInode(p)
  OBVIOUS
<1>3. en[p] = Uno(n) /\ n \in DOMAIN inodo \union {NULL}
  BY <1>1, <1>2, MapIsSearch, SearchFinds
<1>4. p \in TodosPaths
  BY PathsAreSequences
<1>5. p \in DOMAIN a <=> n # NULL
  BY <1>2a, <1>3, <1>4 DEF Uno
<1>6. ASSUME n # NULL
      PROVE  /\ n \in DOMAIN inodo /\ inodo[n] \in Nodo
             /\ a[p].dir = inodo[n].es_directorio /\ a[p].modo = inodo[n].modo
             /\ a[p].contenido = inodo[n].contenido
             /\ inodo[n].contenido \in Seq(Celdas)
  <2>1. n \in DOMAIN inodo /\ inodo[n] \in Nodo
    BY <1>3, <1>6 DEF ArbolInv, MontonOK
  <2>2. {Vista(inodo, h) : h \in en[p]} = {Vista(inodo, n)}
    BY <1>3, <1>6 DEF Uno
  <2>3. a[p] = CHOOSE v \in {Vista(inodo, n)} : TRUE
    BY <1>2a, <1>5, <1>6, <2>2
  <2>4. a[p] = Vista(inodo, n)
    BY <2>3
  <2>5. inodo[n].contenido \in Seq(Celdas)
    BY <2>1, BoundedIsSeq, FisopfsAssumption DEF Nodo
  <2> QED BY <2>1, <2>4, <2>5 DEF Vista
<1>7. Getattr(p) = IF n = NULL THEN <<"ENOENT">>
                   ELSE <<inodo[n].es_directorio, inodo[n].modo, Len(inodo[n].contenido)>>
  BY DEF Getattr
<1>8. (Getattr(p) # <<"ENOENT">>) <=> p \in DOMAIN a
  <2>1. \A x, y, z : <<x, y, z>> # <<"ENOENT">>
    OBVIOUS
  <2> QED BY <1>5, <1>7, <2>1
<1>9. p \in DOMAIN a => Getattr(p) = <<a[p].dir, a[p].modo, Len(a[p].contenido)>>
  BY <1>5, <1>6, <1>7
<1>10. ASSUME p \in DOMAIN a, a[p].dir, Len(p) < MaxDepth
       PROVE  Readdir(p) = {".", ".."} \union {x \in Nombres \union {Basura} : Append(p, x) \in DOMAIN a}
  <2>1. n # NULL /\ n \in DOMAIN inodo /\ inodo[n].es_directorio
    BY <1>5, <1>6, <1>10
  <2>2. Readdir(p) = {".", ".."} \union {inodo[h].nombre : h \in ToSet(inodo[n].hijos)}
    BY <2>1 DEF Readdir, EsDirectorio
  <2>3. ASSUME NEW x \in Nombres \union {Basura}
        PROVE  Append(p, x) \in DOMAIN a <=> \E h \in ToSet(inodo[n].hijos) : inodo[h].nombre = x
    <3>1. /\ Append(p, x) \in TodosPaths /\ Append(p, x) # <<>>
          /\ Front(Append(p, x)) = p /\ Last(Append(p, x)) = x
          /\ Len(Append(p, x)) <= MaxDepth
      BY <1>10, AppendedPath
    <3>2. en[Append(p, x)] = HijosDeNombre(inodo, en[p], x)
      BY <1>2, <3>1 DEF EsMapa
    <3>3. en[p] = {n}
      BY <1>3, <2>1 DEF Uno
    <3>4. HijosDeNombre(inodo, {n}, x) = {h \in ToSet(inodo[n].hijos) : inodo[h].nombre = x}
      BY <2>1 DEF HijosDeNombre
    <3>5. Append(p, x) \in DOMAIN a <=> en[Append(p, x)] # {}
      BY <1>2a, <3>1
    <3>6. en[Append(p, x)] = {h \in ToSet(inodo[n].hijos) : inodo[h].nombre = x}
      BY <3>2, <3>3, <3>4
    <3> QED BY <3>5, <3>6
  <2>4. ASSUME NEW h \in ToSet(inodo[n].hijos) PROVE inodo[h].nombre \in Nombres \union {Basura}
    <3>1. h \in DOMAIN inodo /\ h # raiz
      BY <2>1 DEF ArbolInv, UnSoloLugar, SinPadre
    <3>2. inodo[h].nombre \in Nombres \union {"/", Basura} /\ inodo[h].nombre # "/"
      BY <3>1 DEF ArbolInv, MontonOK, Nodo
    <3> QED BY <3>2
  <2>5. {inodo[h].nombre : h \in ToSet(inodo[n].hijos)} =
           {x \in Nombres \union {Basura} : Append(p, x) \in DOMAIN a}
    BY <2>3, <2>4
  <2> QED BY <2>2, <2>5
<1>11. ASSUME p \in DOMAIN a, ~a[p].dir, NEW o \in 0..MaxSize, NEW l \in 0..MaxSize
       PROVE  Read(p, o, l) = [k \in 1..Max({0, Min({l, Len(a[p].contenido) - o})})
                                 |-> a[p].contenido[o + k]]
  <2>1. n # NULL /\ ~inodo[n].es_directorio
    BY <1>5, <1>6, <1>11
  <2> PICK c : c = inodo[n].contenido
    OBVIOUS
  <2>2. c \in Seq(Celdas) /\ c = a[p].contenido
    BY <1>6, <2>1
  <2>3. Read(p, o, l) = IF o < Len(c) THEN SubSeq(c, o + 1, Min({o + l, Len(c)})) ELSE <<>>
    BY <2>1 DEF Read, EsArchivo
  <2>4. o \in Nat /\ l \in Nat
    BY FisopfsAssumption
  <2>5. (IF o < Len(c) THEN SubSeq(c, o + 1, Min({o + l, Len(c)})) ELSE <<>>) =
           [k \in 1..Max({0, Min({l, Len(c) - o})}) |-> c[o + k]]
    <3>1. c \in Seq(Celdas)
      BY <2>2
    <3>2. Recorte(c, o, l) = Disponible(c, o, l)
      BY <2>4, <3>1, ReadAnswers
    <3> QED BY <3>2, Zenon DEF Recorte, Disponible
  <2> QED BY <2>2, <2>3, <2>5, Zenon
<1> QED BY <1>8, <1>9, <1>10, <1>11, Zenon

-----------------------------------------------------------------------------
(* What the paths name, and when two heaps show the same tree.               *)

(* Induction over the paths, for a set S that has the root and every path    *)
(* whose directory it has.                                                   *)
LEMMA PathInduction ==
    ASSUME NEW S, <<>> \in S,
           \A p \in TodosPaths : p # <<>> /\ Front(p) \in TodosPaths /\ Front(p) \in S => p \in S
    PROVE  TodosPaths \subseteq S
<1> DEFINE T == {k \in Nat : \A p \in TodosPaths : Len(p) = k => p \in S}
<1>1. 0 \in T
  <2>1. \A p \in TodosPaths : Len(p) = 0 => p = <<>>
    BY FrontIsShorter
  <2> QED BY <2>1
<1>2. ASSUME NEW k \in Nat, k \in T PROVE k + 1 \in T
  <2> SUFFICES ASSUME NEW p \in TodosPaths, Len(p) = k + 1 PROVE p \in S
    OBVIOUS
  <2>1. p # <<>>
    <3>1. Len(<<>>) # k + 1
      OBVIOUS
    <3> QED BY <3>1
  <2>2. Front(p) \in TodosPaths /\ Len(Front(p)) = Len(p) - 1
    BY <2>1, FrontIsShorter
  <2>3. Front(p) \in S
    BY <1>2, <2>2
  <2> QED BY <2>1, <2>2, <2>3
<1>3. Nat \subseteq T
  <2> HIDE DEF T
  <2> QED BY <1>1, <1>2, Induction
<1>4. \A p \in TodosPaths : Len(p) \in Nat
  BY PathsAreSequences
<1> QED BY <1>3, <1>4

(* What a path names, from what the path of its directory names.             *)
LEMMA MapAt ==
    ASSUME NEW en, NEW nodos, NEW i, EsMapa(en, nodos, i, MaxDepth)
    PROVE  /\ en[<<>>] = {i}
           /\ \A p \in TodosPaths : p # <<>> => en[p] = HijosDeNombre(nodos, en[Front(p)], Last(p))
<1>1. \A p \in TodosPaths : Len(p) <= MaxDepth
  BY PathsAreSequences
<1> QED BY <1>1 DEF EsMapa

LEMMA ChildOfName ==
    ASSUME NEW nodos, NEW D, NEW x
    PROVE  \A h : h \in HijosDeNombre(nodos, D, x) <=>
              \E d \in D : /\ nodos[d].es_directorio /\ h \in ToSet(nodos[d].hijos)
                           /\ nodos[h].nombre = x
BY DEF HijosDeNombre

(* One heap is the image of another: the same names and contents, and the    *)
(* children of the image are the images of the children.                     *)
Espejo(n1, i1, n2, i2, phi, D) ==
    /\ i2 \in D /\ phi[i2] = i1
    /\ \A j \in D : /\ Vista(n2, j) = Vista(n1, phi[j])
                    /\ n2[j].nombre = n1[phi[j]].nombre
                    /\ n2[j].es_directorio = n1[phi[j]].es_directorio
                    /\ \A k \in ToSet(n2[j].hijos) : k \in D /\ phi[k] \in ToSet(n1[phi[j]].hijos)
                    /\ \A h \in ToSet(n1[phi[j]].hijos) : \E k \in ToSet(n2[j].hijos) : phi[k] = h

LEMMA MirrorTree ==
    ASSUME NEW n1, NEW i1, NEW n2, NEW i2, NEW phi, NEW D, Espejo(n1, i1, n2, i2, phi, D)
    PROVE  ArbolDe(n1, i1) = ArbolDe(n2, i2)
<1>1. PICK en1 : EsMapa(en1, n1, i1, MaxDepth) /\ ArbolDe(n1, i1) = LoQueNombra(en1, n1)
  BY MapIsRead
<1>2. PICK en2 : EsMapa(en2, n2, i2, MaxDepth) /\ ArbolDe(n2, i2) = LoQueNombra(en2, n2)
  BY MapIsRead
<1>3. /\ en1[<<>>] = {i1} /\ en2[<<>>] = {i2}
      /\ \A p \in TodosPaths : p # <<>> =>
            /\ en1[p] = HijosDeNombre(n1, en1[Front(p)], Last(p))
            /\ en2[p] = HijosDeNombre(n2, en2[Front(p)], Last(p))
  BY <1>1, <1>2, MapAt
<1> DEFINE S == {p \in TodosPaths : en2[p] \subseteq D /\ en1[p] = {phi[j] : j \in en2[p]}}
<1>4. <<>> \in S
  BY <1>3, RootIsPath DEF Espejo
<1>5. ASSUME NEW p \in TodosPaths, p # <<>>, Front(p) \in S PROVE p \in S
  <2>1. PICK A : A = en2[Front(p)]
    OBVIOUS
  <2>2. PICK B : B = en1[Front(p)]
    OBVIOUS
  <2>3. PICK x : x = Last(p)
    OBVIOUS
  <2>4. A \subseteq D /\ B = {phi[j] : j \in A}
    BY <1>5, <2>1, <2>2
  <2>5. en1[p] = HijosDeNombre(n1, B, x) /\ en2[p] = HijosDeNombre(n2, A, x)
    BY <1>3, <1>5, <2>1, <2>2, <2>3
  <2>6. ASSUME NEW k \in HijosDeNombre(n2, A, x)
        PROVE  k \in D /\ phi[k] \in HijosDeNombre(n1, B, x)
    <3>1. PICK d \in A : n2[d].es_directorio /\ k \in ToSet(n2[d].hijos) /\ n2[k].nombre = x
      BY <2>6, ChildOfName
    <3>2. d \in D /\ phi[d] \in B
      BY <2>4
    <3>3. k \in D /\ phi[k] \in ToSet(n1[phi[d]].hijos) /\ n1[phi[d]].es_directorio
      BY <3>1, <3>2 DEF Espejo
    <3>4. n1[phi[k]].nombre = x
      BY <3>1, <3>3 DEF Espejo
    <3> QED BY <3>2, <3>3, <3>4, ChildOfName
  <2>7. ASSUME NEW h \in HijosDeNombre(n1, B, x)
        PROVE  \E k \in HijosDeNombre(n2, A, x) : phi[k] = h
    <3>1. PICK e \in B : n1[e].es_directorio /\ h \in ToSet(n1[e].hijos) /\ n1[h].nombre = x
      BY <2>7, ChildOfName
    <3>2. PICK d \in A : e = phi[d] /\ d \in D
      BY <2>4
    <3>3. PICK k \in ToSet(n2[d].hijos) : phi[k] = h
      BY <3>1, <3>2 DEF Espejo
    <3>4. k \in D /\ n2[k].nombre = x /\ n2[d].es_directorio
      BY <3>1, <3>2, <3>3 DEF Espejo
    <3>5. k \in HijosDeNombre(n2, A, x)
      BY <3>3, <3>4, ChildOfName
    <3> QED BY <3>3, <3>5
  <2> QED BY <2>5, <2>6, <2>7
<1>6. TodosPaths \subseteq S
  <2> HIDE DEF S
  <2> QED BY <1>4, <1>5, PathInduction
<1>7. ASSUME NEW p \in TodosPaths
      PROVE  /\ en1[p] # {} <=> en2[p] # {}
             /\ {Vista(n1, h) : h \in en1[p]} = {Vista(n2, j) : j \in en2[p]}
  <2>1. en2[p] \subseteq D /\ en1[p] = {phi[j] : j \in en2[p]}
    BY <1>6
  <2>2. \A j \in en2[p] : Vista(n2, j) = Vista(n1, phi[j])
    BY <2>1 DEF Espejo
  <2> QED BY <2>1, <2>2
<1> HIDE DEF S
<1>8. LoQueNombra(en1, n1) = LoQueNombra(en2, n2)
  <2>1. {q \in TodosPaths : en1[q] # {}} = {q \in TodosPaths : en2[q] # {}}
    BY <1>7
  <2>2. \A p \in TodosPaths : (CHOOSE v \in {Vista(n1, h) : h \in en1[p]} : TRUE)
                            = (CHOOSE v \in {Vista(n2, h) : h \in en2[p]} : TRUE)
    BY <1>7, Zenon
  <2> QED BY <2>1, <2>2, Zenon DEF LoQueNombra
<1> QED BY <1>1, <1>2, <1>8

-----------------------------------------------------------------------------
(* What a path names is in one place.                                        *)

(* What was not in the file never becomes a directory.                       *)
Sobras == \A i \in DOMAIN inodo : inodo[i].nombre = Basura => ~inodo[i].es_directorio

(* What hangs from nothing yet, besides what the tree asks of it.            *)
ParaColgar ==
    Pendiente => /\ nuevo.padre # nuevo.hijo
                 /\ inodo[nuevo.hijo].contenido = <<>>
                 /\ inodo[nuevo.hijo].nombre \in Nombres
                 /\ inodo[nuevo.hijo].modo \in Modos

(* What the paths name in the tree in memory.                                *)
EnArbol(en) == ArbolInv /\ raiz \in DOMAIN inodo /\ EsMapa(en, inodo, raiz, MaxDepth)

(* An inode that a path names is the root, or hangs from a directory that    *)
(* the path of its directory names.                                          *)
LEMMA NamedHangs ==
    ASSUME NEW en, EnArbol(en), NEW p \in TodosPaths, p # <<>>, NEW i \in en[p]
    PROVE  \E d \in en[Front(p)] : /\ inodo[d].es_directorio /\ i \in ToSet(inodo[d].hijos)
                                   /\ inodo[i].nombre = Last(p)
<1>1. en[p] = HijosDeNombre(inodo, en[Front(p)], Last(p))
  BY MapAt DEF EnArbol
<1> QED BY <1>1, ChildOfName

LEMMA NamedInHeap ==
    ASSUME NEW en, EnArbol(en)
    PROVE  \A p \in TodosPaths : /\ en[p] \subseteq DOMAIN inodo
                                 /\ p # <<>> => en[p] \subseteq DOMAIN inodo \ SinPadre
<1>0. en[<<>>] = {raiz} /\ raiz \in DOMAIN inodo /\ ArbolInv
  BY MapAt DEF EnArbol
<1> DEFINE S == {p \in TodosPaths : /\ en[p] \subseteq DOMAIN inodo
                                    /\ p # <<>> => en[p] \subseteq DOMAIN inodo \ SinPadre}
<1>1. <<>> \in S
  BY <1>0, RootIsPath
<1>2. ASSUME NEW p \in TodosPaths, p # <<>>, Front(p) \in S PROVE p \in S
  <2>1. ASSUME NEW i \in en[p] PROVE i \in DOMAIN inodo \ SinPadre
    <3>1. PICK d \in en[Front(p)] : i \in ToSet(inodo[d].hijos)
      BY <1>2, <2>1, NamedHangs
    <3>2. d \in DOMAIN inodo
      BY <1>2
    <3> QED BY <1>0, <3>1, <3>2 DEF ArbolInv, UnSoloLugar
  <2> QED BY <1>2, <2>1
<1>3. TodosPaths \subseteq S
  <2> HIDE DEF S
  <2> QED BY <1>1, <1>2, PathInduction
<1> QED BY <1>3

(* A path is its front and its last name.                                    *)
LEMMA SameFrontLast ==
    ASSUME NEW p \in TodosPaths, NEW q \in TodosPaths, p # <<>>, q # <<>>,
           Front(p) = Front(q), Last(p) = Last(q)
    PROVE  p = q
<1>1. PICK T : T = Nombres \union {Basura}
  OBVIOUS
<1>2. p \in Seq(T) /\ q \in Seq(T)
  BY <1>1, PathsAreSequences
<1>3. /\ Len(p) \in Nat \ {0} /\ Len(Front(p)) = Len(p) - 1
      /\ \A k \in 1..(Len(p) - 1) : Front(p)[k] = p[k]
      /\ Last(p) = p[Len(p)]
  BY <1>2, FrontOf
<1>4. /\ Len(q) \in Nat \ {0} /\ Len(Front(q)) = Len(q) - 1
      /\ \A k \in 1..(Len(q) - 1) : Front(q)[k] = q[k]
      /\ Last(q) = q[Len(q)]
  BY <1>2, FrontOf
<1>5. Len(p) = Len(q)
  <2>1. \A a, b \in Nat \ {0} : a - 1 = b - 1 => a = b
    OBVIOUS
  <2>2. Len(p) - 1 = Len(q) - 1
    BY <1>3, <1>4, Zenon
  <2> QED BY <1>3, <1>4, <2>1, <2>2
<1>6. ASSUME NEW k \in 1..Len(p) PROVE p[k] = q[k]
  <2>1. PICK f : f = Front(p)
    OBVIOUS
  <2>2. /\ \A j \in 1..(Len(p) - 1) : f[j] = p[j] /\ f[j] = q[j]
        /\ p[Len(p)] = q[Len(p)]
    BY <1>3, <1>4, <1>5, <2>1, Zenon
  <2>3. k \in 1..(Len(p) - 1) \/ k = Len(p)
    BY <1>3
  <2> QED BY <2>2, <2>3
<1> QED BY <1>2, <1>5, <1>6

(* Two paths never name the same inode.                                      *)
LEMMA PathUnique ==
    ASSUME NEW en, EnArbol(en)
    PROVE  \A p, q \in TodosPaths : \A i : i \in en[p] /\ i \in en[q] => p = q
<1>0. en[<<>>] = {raiz} /\ raiz \in SinPadre /\ ArbolInv
  BY MapAt DEF EnArbol, SinPadre
<1> DEFINE S == {p \in TodosPaths : \A q \in TodosPaths : \A i : i \in en[p] /\ i \in en[q] => p = q}
<1>1. <<>> \in S
  <2>1. ASSUME NEW q \in TodosPaths, NEW i, i \in en[<<>>], i \in en[q] PROVE <<>> = q
    BY <1>0, <2>1, NamedInHeap
  <2> QED BY <2>1, RootIsPath
<1>2. ASSUME NEW p \in TodosPaths, p # <<>>, Front(p) \in TodosPaths, Front(p) \in S PROVE p \in S
  <2>1. ASSUME NEW q \in TodosPaths, NEW i, i \in en[p], i \in en[q] PROVE p = q
    <3>1. q # <<>>
      BY <1>0, <1>2, <2>1, NamedInHeap
    <3>2. PICK d \in en[Front(p)] : i \in ToSet(inodo[d].hijos) /\ inodo[i].nombre = Last(p)
      BY <1>2, <2>1, NamedHangs
    <3>3. PICK e \in en[Front(q)] : i \in ToSet(inodo[e].hijos) /\ inodo[i].nombre = Last(q)
      BY <2>1, <3>1, NamedHangs
    <3>4. Front(q) \in TodosPaths
      BY <3>1, FrontIsShorter
    <3>5. d \in DOMAIN inodo /\ e \in DOMAIN inodo
      BY <1>2, <3>4, NamedInHeap
    <3>6. d = e
      BY <1>0, <3>2, <3>3, <3>5 DEF ArbolInv, UnSoloLugar, ToSet
    <3>7. Front(p) = Front(q)
      BY <1>2, <3>4, <3>6
    <3> QED BY <1>2, <3>1, <3>2, <3>3, <3>7, SameFrontLast
  <2> QED BY <1>2, <2>1
<1>3. TodosPaths \subseteq S
  <2> HIDE DEF S
  <2> QED BY <1>1, <1>2, PathInduction
<1> QED BY <1>3

(* And a path that names a directory names nothing else.                     *)
LEMMA DirAlone ==
    ASSUME NEW en, EnArbol(en), Sobras
    PROVE  \A p \in TodosPaths : \A d, e \in en[p] :
              inodo[d].es_directorio => d = e
<1>0. en[<<>>] = {raiz} /\ ArbolInv
  BY MapAt DEF EnArbol
<1> DEFINE S == {p \in TodosPaths : \A d, e \in en[p] :
                    inodo[d].es_directorio => d = e}
<1>1. <<>> \in S
  BY <1>0, RootIsPath
<1>2. ASSUME NEW p \in TodosPaths, p # <<>>, Front(p) \in TodosPaths, Front(p) \in S PROVE p \in S
  <2>1. ASSUME NEW d \in en[p], NEW e \in en[p], inodo[d].es_directorio
        PROVE  d = e
    <3>1. PICK a \in en[Front(p)] : /\ inodo[a].es_directorio /\ d \in ToSet(inodo[a].hijos)
                                    /\ inodo[d].nombre = Last(p)
      BY <1>2, NamedHangs
    <3>2. PICK b \in en[Front(p)] : /\ inodo[b].es_directorio /\ e \in ToSet(inodo[b].hijos)
                                    /\ inodo[e].nombre = Last(p)
      BY <1>2, NamedHangs
    <3>3. a = b /\ a \in DOMAIN inodo /\ d \in DOMAIN inodo
      BY <1>2, <3>1, <3>2, NamedInHeap
    <3>4. PICK j \in DOMAIN inodo[a].hijos : d = inodo[a].hijos[j]
      BY <3>1 DEF ToSet
    <3>5. PICK k \in DOMAIN inodo[a].hijos : e = inodo[a].hijos[k]
      BY <3>2, <3>3 DEF ToSet
    <3>6. inodo[d].nombre # Basura
      BY <2>1, <3>3 DEF Sobras
    <3>7. inodo[d].nombre = inodo[e].nombre => j = k \/ inodo[d].nombre = Basura
      BY <1>0, <3>3, <3>4, <3>5 DEF ArbolInv, NombresDistintos
    <3> QED BY <3>1, <3>2, <3>4, <3>5, <3>6, <3>7
  <2> QED BY <1>2, <2>1
<1>3. TodosPaths \subseteq S
  <2> HIDE DEF S
  <2> QED BY <1>1, <1>2, PathInduction
<1> QED BY <1>3

-----------------------------------------------------------------------------
(* What agregar_hijo() shows.                                                *)

(* What agregar_hijo() makes a path name: the new inode, besides whatever    *)
(* the path named, if the path is that of its directory and its name.        *)
Nombra(en, q) ==
    q # <<>> /\ nuevo.padre \in en[Front(q)] /\ Last(q) = inodo[nuevo.hijo].nombre
ConElNuevo(en, q) == IF Nombra(en, q) THEN en[q] \union {nuevo.hijo} ELSE en[q]

LEMMA AddedHeap ==
    ASSUME ArbolInv, Pendiente, ParaColgar, NEW mas, mas = AgregarHijo(nuevo.padre, nuevo.hijo)
    PROVE  /\ nuevo.hijo \in DOMAIN inodo /\ nuevo.padre \in DOMAIN inodo
           /\ nuevo.hijo # raiz /\ nuevo.hijo # nuevo.padre
           /\ inodo[nuevo.padre].es_directorio /\ mas[nuevo.hijo].hijos = <<>>
           /\ \A d \in DOMAIN inodo : /\ mas[d].es_directorio = inodo[d].es_directorio
                                      /\ mas[d].nombre = inodo[d].nombre
                                      /\ Vista(mas, d) = Vista(inodo, d)
           /\ \A d \in DOMAIN inodo : d # nuevo.padre => mas[d].hijos = inodo[d].hijos
           /\ ToSet(mas[nuevo.padre].hijos) = ToSet(inodo[nuevo.padre].hijos) \union {nuevo.hijo}
<1>0. PICK p : p = nuevo.padre
  OBVIOUS
<1>1. PICK h : h = nuevo.hijo
  OBVIOUS
<1>2. /\ h \in DOMAIN inodo /\ h # raiz /\ inodo[h].hijos = <<>>
      /\ p \in DOMAIN inodo /\ p # h /\ inodo[p].es_directorio
  BY <1>0, <1>1 DEF ArbolInv, PendienteSano, ParaColgar
<1>3. /\ inodo[p] \in Nodo /\ inodo[p].hijos \in Seq(Inodes) /\ h \in Inodes
  BY <1>2 DEF ArbolInv, MontonOK, Nodo
<1>4. mas = [inodo EXCEPT ![p].hijos = Append(@, h)]
  BY <1>0, <1>1 DEF AgregarHijo
<1>5. /\ mas[p] = [inodo[p] EXCEPT !.hijos = Append(inodo[p].hijos, h)]
      /\ \A d \in DOMAIN inodo : d # p => mas[d] = inodo[d]
  BY <1>2, <1>4
<1>6. /\ mas[p].hijos = Append(inodo[p].hijos, h)
      /\ mas[p].nombre = inodo[p].nombre
      /\ mas[p].es_directorio = inodo[p].es_directorio
      /\ mas[p].modo = inodo[p].modo
      /\ mas[p].contenido = inodo[p].contenido
  BY <1>3, <1>5 DEF Nodo
<1>7. ToSet(mas[p].hijos) = ToSet(inodo[p].hijos) \union {h}
  <2>1. PICK x \in Seq(Inodes) : x = inodo[p].hijos
    BY <1>3
  <2>2. /\ Len(x) \in Nat /\ DOMAIN x = 1..Len(x) /\ DOMAIN Append(x, h) = 1..(Len(x) + 1)
        /\ \A k \in 1..Len(x) : Append(x, h)[k] = x[k]
        /\ Append(x, h)[Len(x) + 1] = h
    BY <1>3, <2>1
  <2>3. \A k \in 1..(Len(x) + 1) : k \in 1..Len(x) \/ k = Len(x) + 1
    BY <2>2
  <2>4. \A k \in 1..Len(x) : k \in 1..(Len(x) + 1)
    BY <2>2
  <2>5. Len(x) + 1 \in 1..(Len(x) + 1)
    BY <2>2
  <2>6. ToSet(Append(x, h)) = ToSet(x) \union {h}
    BY <2>2, <2>3, <2>4, <2>5 DEF ToSet
  <2> QED BY <1>6, <2>1, <2>6
<1>8. ASSUME NEW d \in DOMAIN inodo
      PROVE  /\ mas[d].es_directorio = inodo[d].es_directorio
             /\ mas[d].nombre = inodo[d].nombre
             /\ Vista(mas, d) = Vista(inodo, d)
  <2>1. CASE d = p
    BY <1>6, <2>1 DEF Vista
  <2>2. CASE d # p
    BY <1>5, <2>2 DEF Vista
  <2> QED BY <2>1, <2>2
<1> QED BY <1>0, <1>1, <1>2, <1>5, <1>7, <1>8

LEMMA AddedChild ==
    ASSUME ArbolInv, Pendiente, ParaColgar, NEW mas, mas = AgregarHijo(nuevo.padre, nuevo.hijo),
           NEW D, D \subseteq DOMAIN inodo, NEW x
    PROVE  HijosDeNombre(mas, D, x) =
              IF nuevo.padre \in D /\ x = inodo[nuevo.hijo].nombre
              THEN HijosDeNombre(inodo, D, x) \union {nuevo.hijo} ELSE HijosDeNombre(inodo, D, x)
<1>0. PICK p : p = nuevo.padre
  OBVIOUS
<1>1. PICK h : h = nuevo.hijo
  OBVIOUS
<1>2. /\ h \in DOMAIN inodo /\ p \in DOMAIN inodo /\ inodo[p].es_directorio
      /\ \A d \in DOMAIN inodo : /\ mas[d].es_directorio = inodo[d].es_directorio
                                 /\ mas[d].nombre = inodo[d].nombre
      /\ \A d \in DOMAIN inodo : d # p => mas[d].hijos = inodo[d].hijos
      /\ ToSet(mas[p].hijos) = ToSet(inodo[p].hijos) \union {h}
  BY <1>0, <1>1, AddedHeap
<1>3. \A d \in DOMAIN inodo : ToSet(inodo[d].hijos) \subseteq DOMAIN inodo
  BY DEF ArbolInv, UnSoloLugar
<1>4. ASSUME NEW c \in HijosDeNombre(mas, D, x)
      PROVE  c \in HijosDeNombre(inodo, D, x) \/ (c = h /\ p \in D /\ x = inodo[h].nombre)
  <2>1. PICK d \in D : mas[d].es_directorio /\ c \in ToSet(mas[d].hijos) /\ mas[c].nombre = x
    BY <1>4, ChildOfName
  <2>2. CASE c \in ToSet(inodo[d].hijos)
    <3>1. inodo[d].es_directorio /\ inodo[c].nombre = x
      BY <1>2, <1>3, <2>1, <2>2
    <3> QED BY <2>2, <3>1, ChildOfName
  <2>3. CASE c \notin ToSet(inodo[d].hijos)
    <3>1. d = p /\ c = h
      BY <1>2, <2>1, <2>3
    <3> QED BY <1>2, <2>1, <3>1
  <2> QED BY <2>2, <2>3
<1>5. ASSUME NEW c \in HijosDeNombre(inodo, D, x) PROVE c \in HijosDeNombre(mas, D, x)
  <2>1. PICK d \in D : inodo[d].es_directorio /\ c \in ToSet(inodo[d].hijos) /\ inodo[c].nombre = x
    BY <1>5, ChildOfName
  <2>2. mas[d].es_directorio /\ c \in ToSet(mas[d].hijos) /\ mas[c].nombre = x
    <3>1. c \in DOMAIN inodo /\ d \in DOMAIN inodo
      BY <1>3, <2>1
    <3> QED BY <1>2, <2>1, <3>1
  <2> QED BY <2>2, ChildOfName
<1>6. ASSUME p \in D, x = inodo[h].nombre PROVE h \in HijosDeNombre(mas, D, x)
  <2>1. mas[p].es_directorio /\ h \in ToSet(mas[p].hijos) /\ mas[h].nombre = x
    BY <1>2, <1>6
  <2> QED BY <1>6, <2>1, ChildOfName
<1> QED BY <1>0, <1>1, <1>4, <1>5, <1>6

LEMMA AddNames ==
    ASSUME NEW en, EnArbol(en), Pendiente, ParaColgar, Sobras,
           NEW mas, mas = AgregarHijo(nuevo.padre, nuevo.hijo),
           NEW g, EsMapa(g, mas, raiz, MaxDepth)
    PROVE  /\ \A q \in TodosPaths : g[q] = ConElNuevo(en, q)
           /\ \A q \in TodosPaths : Nombra(en, q) => en[q] = {}
           /\ \A q, r \in TodosPaths : Nombra(en, q) /\ Nombra(en, r) => q = r
<1>0. PICK p : p = nuevo.padre
  OBVIOUS
<1>1. PICK h : h = nuevo.hijo
  OBVIOUS
<1>2. ArbolInv /\ EsMapa(en, inodo, raiz, MaxDepth)
  BY DEF EnArbol
<1>3. /\ en[<<>>] = {raiz} /\ g[<<>>] = {raiz}
      /\ \A q \in TodosPaths : q # <<>> =>
            /\ en[q] = HijosDeNombre(inodo, en[Front(q)], Last(q))
            /\ g[q] = HijosDeNombre(mas, g[Front(q)], Last(q))
  BY <1>2, MapAt
<1>4. /\ h \in DOMAIN inodo /\ p \in DOMAIN inodo /\ h # p /\ inodo[p].es_directorio
      /\ mas[h].hijos = <<>>
  BY <1>0, <1>1, <1>2, AddedHeap
<1> DEFINE S == {q \in TodosPaths : g[q] = ConElNuevo(en, q)}
<1>5. <<>> \in S
  BY <1>3, RootIsPath DEF ConElNuevo, Nombra
<1>6. ASSUME NEW q \in TodosPaths, q # <<>>, Front(q) \in TodosPaths, Front(q) \in S PROVE q \in S
  <2>1. PICK A : A = en[Front(q)]
    OBVIOUS
  <2>2. PICK B : B = g[Front(q)]
    OBVIOUS
  <2>3. PICK x : x = Last(q)
    OBVIOUS
  <2>4. A \subseteq DOMAIN inodo
    BY <1>6, <2>1, NamedInHeap
  <2>5. B = A \/ B = A \union {h}
    BY <1>1, <1>6, <2>1, <2>2 DEF ConElNuevo
  <2>6. HijosDeNombre(mas, B, x) = HijosDeNombre(mas, A, x)
    <3>1. \A c : c \notin ToSet(mas[h].hijos)
      BY <1>4 DEF ToSet
    <3>2. \A c : c \in HijosDeNombre(mas, B, x) <=> c \in HijosDeNombre(mas, A, x)
      BY <2>5, <3>1, ChildOfName
    <3> QED BY <3>2
  <2>7. HijosDeNombre(mas, A, x) =
           IF p \in A /\ x = inodo[h].nombre
           THEN HijosDeNombre(inodo, A, x) \union {h} ELSE HijosDeNombre(inodo, A, x)
    BY <1>0, <1>1, <1>2, <2>4, AddedChild
  <2>8. g[q] = HijosDeNombre(mas, B, x) /\ en[q] = HijosDeNombre(inodo, A, x)
    BY <1>3, <1>6, <2>1, <2>2, <2>3
  <2>9. g[q] = ConElNuevo(en, q)
    BY <1>0, <1>1, <1>6, <2>1, <2>3, <2>6, <2>7, <2>8 DEF ConElNuevo, Nombra
  <2> QED BY <2>9
<1>7. TodosPaths \subseteq S
  <2> HIDE DEF S
  <2> QED BY <1>5, <1>6, PathInduction
<1>8. ASSUME NEW q \in TodosPaths, Nombra(en, q), NEW c \in en[q] PROVE FALSE
  <2>1. q # <<>> /\ p \in en[Front(q)] /\ Last(q) = inodo[h].nombre /\ Front(q) \in TodosPaths
    BY <1>0, <1>1, <1>8, FrontIsShorter DEF Nombra
  <2>2. PICK d \in en[Front(q)] : /\ inodo[d].es_directorio /\ c \in ToSet(inodo[d].hijos)
                                  /\ inodo[c].nombre = Last(q)
    BY <2>1, NamedHangs
  <2>3. d = p
    BY <1>4, <2>1, <2>2, DirAlone
  <2>4. \A j \in ToSet(inodo[p].hijos) : inodo[j].nombre # inodo[h].nombre
    BY <1>0, <1>1, <1>2 DEF ArbolInv, PendienteSano
  <2> QED BY <2>1, <2>2, <2>3, <2>4
<1>9. ASSUME NEW q \in TodosPaths, NEW r \in TodosPaths, Nombra(en, q), Nombra(en, r) PROVE q = r
  <2>1. /\ q # <<>> /\ r # <<>> /\ Last(q) = Last(r)
        /\ p \in en[Front(q)] /\ p \in en[Front(r)]
    BY <1>0, <1>9 DEF Nombra
  <2>2. Front(q) \in TodosPaths /\ Front(r) \in TodosPaths
    BY <2>1, FrontIsShorter
  <2>3. Front(q) = Front(r)
    BY <2>1, <2>2, PathUnique
  <2> QED BY <2>1, <2>3, SameFrontLast
<1>10. \A q \in TodosPaths : g[q] = ConElNuevo(en, q)
  BY <1>7
<1>11. \A q \in TodosPaths : Nombra(en, q) => en[q] = {}
  BY <1>8
<1> QED BY <1>9, <1>10, <1>11

(* What the tree shows at a path, from what the path names.                  *)
Muestra(a, en, nodos) ==
    /\ a = [q \in DOMAIN a |-> a[q]] /\ DOMAIN a = {q \in TodosPaths : en[q] # {}}
    /\ \A q \in TodosPaths : \A i : en[q] = {i} => a[q] = Vista(nodos, i)
    /\ \A q \in DOMAIN a : a[q] = (CHOOSE v \in {Vista(nodos, h) : h \in en[q]} : TRUE)

LEMMA Shown ==
    ASSUME NEW en, NEW nodos, NEW a, a = LoQueNombra(en, nodos)
    PROVE  Muestra(a, en, nodos)
<1>2. /\ a = [q \in DOMAIN a |-> a[q]] /\ DOMAIN a = {q \in TodosPaths : en[q] # {}}
      /\ \A q \in DOMAIN a : a[q] = (CHOOSE v \in {Vista(nodos, h) : h \in en[q]} : TRUE)
  BY Zenon DEF LoQueNombra
<1>3. ASSUME NEW q \in TodosPaths, NEW i, en[q] = {i} PROVE a[q] = Vista(nodos, i)
  <2>1. {Vista(nodos, h) : h \in en[q]} = {Vista(nodos, i)} /\ q \in DOMAIN a
    BY <1>2, <1>3
  <2>2. (CHOOSE v \in {Vista(nodos, i)} : TRUE) = Vista(nodos, i)
    OBVIOUS
  <2> QED BY <1>2, <2>1, <2>2, Zenon
<1> QED BY <1>2, <1>3, Zenon DEF Muestra

LEMMA ShownAlike ==
    ASSUME NEW en, NEW n1, NEW a, Muestra(a, en, n1),
           NEW g, NEW n2, NEW b, Muestra(b, g, n2),
           NEW q \in DOMAIN a, g[q] = en[q],
           \A i \in en[q] : Vista(n2, i) = Vista(n1, i)
    PROVE  q \in DOMAIN b /\ b[q] = a[q]
<1>1. q \in TodosPaths /\ en[q] # {}
  BY DEF Muestra
<1>2. q \in DOMAIN b
  BY <1>1 DEF Muestra
<1>3. /\ a[q] = (CHOOSE v \in {Vista(n1, h) : h \in en[q]} : TRUE)
      /\ b[q] = (CHOOSE v \in {Vista(n2, h) : h \in g[q]} : TRUE)
  BY <1>2, Zenon DEF Muestra
<1>4. {Vista(n2, h) : h \in g[q]} = {Vista(n1, h) : h \in en[q]}
  OBVIOUS
<1> QED BY <1>2, <1>3, <1>4, Zenon

(* One tree is the other with one more path, which hangs from a directory.   *)
Colgado(a, b, p, v) ==
    /\ p \in TodosPaths \ DOMAIN a /\ p # <<>>
    /\ Front(p) \in DOMAIN a /\ a[Front(p)].dir
    /\ a = [q \in DOMAIN a |-> a[q]]
    /\ b = [q \in DOMAIN a \union {p} |-> IF q = p THEN v ELSE a[q]]

LEMMA AddShows ==
    ASSUME ArbolInv, Pendiente, ParaColgar, Sobras, raiz \in DOMAIN inodo,
           NEW mas, mas = AgregarHijo(nuevo.padre, nuevo.hijo)
    PROVE  \/ ArbolDe(mas, raiz) = ArbolDe(inodo, raiz)
           \/ \E p : Colgado(ArbolDe(inodo, raiz), ArbolDe(mas, raiz), p, Vista(inodo, nuevo.hijo))
<1>0. PICK h : h = nuevo.hijo
  OBVIOUS
<1>1. PICK en : EsMapa(en, inodo, raiz, MaxDepth) /\ ArbolDe(inodo, raiz) = LoQueNombra(en, inodo)
  BY MapIsRead
<1>2. PICK g : EsMapa(g, mas, raiz, MaxDepth) /\ ArbolDe(mas, raiz) = LoQueNombra(g, mas)
  BY MapIsRead
<1>3. EnArbol(en)
  BY <1>1 DEF EnArbol
<1>4. /\ \A q \in TodosPaths : g[q] = ConElNuevo(en, q)
      /\ \A q \in TodosPaths : Nombra(en, q) => en[q] = {}
      /\ \A q, r \in TodosPaths : Nombra(en, q) /\ Nombra(en, r) => q = r
  BY <1>2, <1>3, AddNames
<1>5. h \in DOMAIN inodo /\ \A d \in DOMAIN inodo : Vista(mas, d) = Vista(inodo, d)
  BY <1>0, AddedHeap
<1>6. PICK a : a = LoQueNombra(en, inodo)
  OBVIOUS
<1>7. PICK b : b = LoQueNombra(g, mas)
  OBVIOUS
<1>8. Muestra(a, en, inodo) /\ Muestra(b, g, mas)
  BY <1>6, <1>7, Shown
<1>9. /\ a = [q \in DOMAIN a |-> a[q]] /\ DOMAIN a = {q \in TodosPaths : en[q] # {}}
      /\ b = [q \in DOMAIN b |-> b[q]] /\ DOMAIN b = {q \in TodosPaths : g[q] # {}}
  BY <1>8, Zenon DEF Muestra
<1>10. ASSUME NEW q \in TodosPaths, ~Nombra(en, q)
       PROVE  g[q] = en[q] /\ (q \in DOMAIN b <=> q \in DOMAIN a)
  BY <1>4, <1>9, <1>10 DEF ConElNuevo
<1>11. ASSUME NEW q \in DOMAIN a PROVE b[q] = a[q]
  <2>1. q \in TodosPaths /\ en[q] # {}
    BY <1>9
  <2>2. g[q] = en[q]
    BY <1>4, <1>10, <2>1
  <2>3. \A i \in en[q] : Vista(mas, i) = Vista(inodo, i)
    BY <1>3, <1>5, <2>1, NamedInHeap
  <2> QED BY <1>8, <2>2, <2>3, ShownAlike
<1>12. CASE \A q \in TodosPaths : ~Nombra(en, q)
  <2>1. DOMAIN b = DOMAIN a
    BY <1>9, <1>10, <1>12
  <2>2. b = a
    BY <1>9, <1>11, <2>1
  <2> QED BY <1>1, <1>2, <1>6, <1>7, <2>2
<1>13. ASSUME NEW p \in TodosPaths, Nombra(en, p) PROVE Colgado(a, b, p, Vista(inodo, h))
  <2>1. g[p] = {h} /\ en[p] = {}
    BY <1>0, <1>4, <1>13 DEF ConElNuevo
  <2>2. b[p] = Vista(inodo, h)
    <3>1. b[p] = Vista(mas, h)
      BY <1>8, <2>1, Zenon DEF Muestra
    <3> QED BY <1>5, <3>1
  <2>3. p \in DOMAIN b /\ p \notin DOMAIN a
    BY <1>9, <2>1
  <2>4. \A q \in TodosPaths : q # p => (q \in DOMAIN b <=> q \in DOMAIN a)
    BY <1>4, <1>10, <1>13
  <2>5. DOMAIN b = DOMAIN a \union {p}
    BY <1>9, <2>3, <2>4
  <2>6. b = [q \in DOMAIN a \union {p} |-> IF q = p THEN Vista(inodo, h) ELSE a[q]]
    BY <1>9, <1>11, <2>2, <2>5
  <2>7. p # <<>> /\ nuevo.padre \in en[Front(p)] /\ Front(p) \in TodosPaths
    BY <1>13, FrontIsShorter DEF Nombra
  <2>8. PICK d : d = nuevo.padre
    OBVIOUS
  <2>9. inodo[d].es_directorio
    BY <2>8, AddedHeap
  <2>10. en[Front(p)] = {d}
    BY <1>3, <2>7, <2>8, <2>9, DirAlone
  <2>11. Front(p) \in DOMAIN a
    BY <1>9, <2>7
  <2>12. a[Front(p)] = Vista(inodo, d)
    BY <1>8, <2>7, <2>10, Zenon DEF Muestra
  <2>13. a[Front(p)].dir
    BY <2>9, <2>12 DEF Vista
  <2> QED BY <1>9, <2>3, <2>6, <2>7, <2>11, <2>13 DEF Colgado
<1>14. CASE \E p \in TodosPaths : Nombra(en, p)
  <2>1. \E p : Colgado(a, b, p, Vista(inodo, h))
    BY <1>13, <1>14
  <2> QED BY <1>0, <1>1, <1>2, <1>6, <1>7, <2>1
<1> QED BY <1>12, <1>14

-----------------------------------------------------------------------------
(* What the requests show.                                                   *)

(* A path that a request may name is that of what the search finds.          *)
LEMMA RequestedPath ==
    ASSUME NEW en, EnArbol(en), NEW path \in Paths, Pedible(path), BuscarInode(path) # NULL
    PROVE  path \in TodosPaths /\ en[path] = {BuscarInode(path)} /\ BuscarInode(path) \in DOMAIN inodo
<1>1. Transitable(path)
  BY DEF Pedible, Transitable
<1>2. raiz # NULL /\ ArbolInv /\ EsMapa(en, inodo, raiz, MaxDepth)
  BY FisopfsAssumption DEF EnArbol, ArbolInv, MontonOK
<1>3. en[path] = Uno(BuscarInode(path))
  BY <1>1, <1>2, MapIsSearch
<1> QED BY <1>2, <1>3, PathsAreSequences, SearchFinds DEF Uno

(* The same inodes in the same places are the same names.                    *)
LEMMA SameChildren ==
    ASSUME ArbolInv, NEW mas, NEW D, D \subseteq DOMAIN inodo, NEW x,
           \A j \in DOMAIN inodo : /\ mas[j].hijos = inodo[j].hijos
                                   /\ mas[j].nombre = inodo[j].nombre
                                   /\ mas[j].es_directorio = inodo[j].es_directorio
    PROVE  HijosDeNombre(mas, D, x) = HijosDeNombre(inodo, D, x)
<1>1. \A d \in DOMAIN inodo : ToSet(inodo[d].hijos) \subseteq DOMAIN inodo
  BY DEF ArbolInv, UnSoloLugar
<1>2. \A c : c \in HijosDeNombre(mas, D, x) <=> c \in HijosDeNombre(inodo, D, x)
  BY <1>1, ChildOfName
<1> QED BY <1>2

LEMMA SameNames ==
    ASSUME NEW en, EnArbol(en), NEW mas, NEW g, EsMapa(g, mas, raiz, MaxDepth),
           \A j \in DOMAIN inodo : /\ mas[j].hijos = inodo[j].hijos
                                   /\ mas[j].nombre = inodo[j].nombre
                                   /\ mas[j].es_directorio = inodo[j].es_directorio
    PROVE  \A q \in TodosPaths : g[q] = en[q]
<1>1. ArbolInv /\ EsMapa(en, inodo, raiz, MaxDepth)
  BY DEF EnArbol
<1>2. /\ en[<<>>] = {raiz} /\ g[<<>>] = {raiz}
      /\ \A q \in TodosPaths : q # <<>> =>
            /\ en[q] = HijosDeNombre(inodo, en[Front(q)], Last(q))
            /\ g[q] = HijosDeNombre(mas, g[Front(q)], Last(q))
  BY <1>1, MapAt
<1> DEFINE S == {q \in TodosPaths : g[q] = en[q]}
<1>3. <<>> \in S
  BY <1>2, RootIsPath
<1>4. ASSUME NEW q \in TodosPaths, q # <<>>, Front(q) \in TodosPaths, Front(q) \in S PROVE q \in S
  <2>1. PICK A : A = en[Front(q)]
    OBVIOUS
  <2>2. A \subseteq DOMAIN inodo /\ g[Front(q)] = A
    BY <1>4, <2>1, NamedInHeap
  <2>3. HijosDeNombre(mas, A, Last(q)) = HijosDeNombre(inodo, A, Last(q))
    BY <1>1, <2>2, SameChildren
  <2> QED BY <1>2, <1>4, <2>1, <2>2, <2>3
<1>5. TodosPaths \subseteq S
  <2> HIDE DEF S
  <2> QED BY <1>3, <1>4, PathInduction
<1> QED BY <1>5

(* An inode that hangs from nowhere shows nowhere.                           *)
LEMMA SameTree ==
    ASSUME ArbolInv, raiz \in DOMAIN inodo, NEW mas, \A j \in DOMAIN inodo : mas[j] = inodo[j]
    PROVE  ArbolDe(mas, raiz) = ArbolDe(inodo, raiz)
<1>1. PICK phi : phi = [j \in DOMAIN inodo |-> j]
  OBVIOUS
<1>2. \A j \in DOMAIN inodo : phi[j] = j
  BY <1>1
<1>3. \A d \in DOMAIN inodo : ToSet(inodo[d].hijos) \subseteq DOMAIN inodo
  BY DEF ArbolInv, UnSoloLugar
<1>4. Espejo(inodo, raiz, mas, raiz, phi, DOMAIN inodo)
  BY <1>2, <1>3 DEF Espejo, Vista
<1> QED BY <1>4, MirrorTree

(* New bytes for a file change what the path of that file shows, and nothing *)
(* else.                                                                     *)
Cambiado(a, b, p, v, c) ==
    /\ a = [q \in DOMAIN a |-> a[q]] /\ b = [q \in DOMAIN a |-> b[q]]
    /\ p \in DOMAIN a /\ a[p] = v
    /\ b[p] = [dir |-> v.dir, modo |-> v.modo, contenido |-> c]
    /\ \A q \in DOMAIN a : q # p => b[q] = a[q]

LEMMA ContentsShow ==
    ASSUME ArbolInv, raiz \in DOMAIN inodo, NEW path \in Paths, Pedible(path),
           BuscarInode(path) # NULL, NEW c, NEW mas, mas = ConContenido(BuscarInode(path), c)
    PROVE  Cambiado(ArbolDe(inodo, raiz), ArbolDe(mas, raiz), path, Vista(inodo, BuscarInode(path)), c)
<1>0. PICK n : n = BuscarInode(path)
  OBVIOUS
<1>1. PICK en : EsMapa(en, inodo, raiz, MaxDepth) /\ ArbolDe(inodo, raiz) = LoQueNombra(en, inodo)
  BY MapIsRead
<1>2. PICK g : EsMapa(g, mas, raiz, MaxDepth) /\ ArbolDe(mas, raiz) = LoQueNombra(g, mas)
  BY MapIsRead
<1>3. EnArbol(en)
  BY <1>1 DEF EnArbol
<1>4. path \in TodosPaths /\ en[path] = {n} /\ n \in DOMAIN inodo
  BY <1>0, <1>3, RequestedPath
<1>5. mas = [inodo EXCEPT ![n].contenido = c]
  BY <1>0 DEF ConContenido
<1>6. mas[n] = [inodo[n] EXCEPT !.contenido = c] /\ inodo[n] \in Nodo
  BY <1>4, <1>5 DEF ArbolInv, MontonOK
<1>7. /\ mas[n].hijos = inodo[n].hijos /\ mas[n].nombre = inodo[n].nombre
      /\ mas[n].es_directorio = inodo[n].es_directorio
      /\ mas[n].modo = inodo[n].modo /\ mas[n].contenido = c
  BY <1>6 DEF Nodo
<1>8. \A j \in DOMAIN inodo : j # n => mas[j] = inodo[j]
  BY <1>5
<1>9. \A j \in DOMAIN inodo : /\ mas[j].hijos = inodo[j].hijos
                              /\ mas[j].nombre = inodo[j].nombre
                              /\ mas[j].es_directorio = inodo[j].es_directorio
  BY <1>7, <1>8
<1>10. \A q \in TodosPaths : g[q] = en[q]
  BY <1>2, <1>3, <1>9, SameNames
<1>11. PICK a : a = LoQueNombra(en, inodo)
  OBVIOUS
<1>12. PICK b : b = LoQueNombra(g, mas)
  OBVIOUS
<1>13. Muestra(a, en, inodo) /\ Muestra(b, g, mas)
  BY <1>11, <1>12, Shown
<1>14. /\ a = [q \in DOMAIN a |-> a[q]] /\ DOMAIN a = {q \in TodosPaths : en[q] # {}}
       /\ a[path] = Vista(inodo, n)
  BY <1>4, <1>13, Zenon DEF Muestra
<1>15. /\ b = [q \in DOMAIN b |-> b[q]] /\ DOMAIN b = {q \in TodosPaths : g[q] # {}}
       /\ b[path] = Vista(mas, n)
  BY <1>4, <1>10, <1>13, Zenon DEF Muestra
<1>16. DOMAIN b = DOMAIN a /\ path \in DOMAIN a
  BY <1>4, <1>10, <1>14, <1>15
<1>17. ASSUME NEW q \in DOMAIN a, q # path PROVE b[q] = a[q]
  <2>1. q \in TodosPaths /\ en[q] # {} /\ g[q] = en[q]
    BY <1>10, <1>14
  <2>2. n \notin en[q]
    BY <1>3, <1>4, <1>17, <2>1, PathUnique
  <2>3. \A i \in en[q] : Vista(mas, i) = Vista(inodo, i)
    BY <1>3, <1>8, <2>1, <2>2, NamedInHeap DEF Vista
  <2> QED BY <1>17, <1>13, <2>1, <2>3, ShownAlike
<1>18. Vista(mas, n) = [dir |-> Vista(inodo, n).dir, modo |-> Vista(inodo, n).modo, contenido |-> c]
  BY <1>7 DEF Vista
<1>19. Cambiado(a, b, path, Vista(inodo, n), c)
  BY <1>14, <1>15, <1>16, <1>17, <1>18 DEF Cambiado
<1> QED BY <1>0, <1>1, <1>2, <1>11, <1>12, <1>19

(* What unlink and rmdir take out of the heap: one inode without children.   *)
SinEl(mas, n) ==
    /\ DOMAIN mas = DOMAIN inodo \ {n}
    /\ \A d \in DOMAIN mas : /\ mas[d].nombre = inodo[d].nombre
                             /\ mas[d].es_directorio = inodo[d].es_directorio
                             /\ Vista(mas, d) = Vista(inodo, d)
                             /\ ToSet(mas[d].hijos) = ToSet(inodo[d].hijos) \ {n}

LEMMA RemovedHeap ==
    ASSUME ArbolInv, NEW padre \in DOMAIN inodo \union {NULL}, NEW n,
           EsDirectorio(padre), Contains(inodo[padre].hijos, n), inodo[n].hijos = <<>>,
           NEW mas, mas = EliminarInode(padre, n)
    PROVE  SinEl(mas, n) /\ n \in DOMAIN inodo /\ n # raiz
<1>1. padre \in DOMAIN inodo /\ inodo[padre] \in Nodo /\ inodo[padre].hijos \in Seq(Inodes)
  BY DEF EsDirectorio, ArbolInv, MontonOK, Nodo
<1>2. PICK s : s = inodo[padre].hijos
  OBVIOUS
<1>3. s \in Seq(Inodes) /\ Contains(s, n) /\ DOMAIN s = 1..Len(s) /\ Len(s) \in Nat
  BY <1>1, <1>2
<1>4. n \in ToSet(s)
  BY <1>3 DEF Contains, ToSet
<1>5. n \in DOMAIN inodo /\ n # raiz
  BY <1>1, <1>2, <1>4 DEF ArbolInv, UnSoloLugar, SinPadre
<1>6. n # padre
  <2>1. ToSet(<<>>) = {}
    BY DEF ToSet
  <2> QED BY <1>2, <1>4, <2>1
<1>7. PICK hs : hs = RemoveFirst(s, n)
  OBVIOUS
<1>8. PICK j \in 1..Len(s) :
         /\ s[j] = n
         /\ hs \in Seq(Inodes)
         /\ Len(hs) = Len(s) - 1
         /\ \A k \in 1..(Len(s) - 1) : hs[k] = s[IF k < j THEN k ELSE k + 1]
  <2>1. s \in Seq(Inodes) /\ Contains(s, n)
    BY <1>3
  <2>2. \E j \in 1..Len(s) :
           /\ s[j] = n
           /\ RemoveFirst(s, n) \in Seq(Inodes)
           /\ Len(RemoveFirst(s, n)) = Len(s) - 1
           /\ \A k \in 1..(Len(s) - 1) :
                 RemoveFirst(s, n)[k] = s[IF k < j THEN k ELSE k + 1]
    BY <2>1, RemovedFirst
  <2> QED BY <1>7, <2>2
<1>9. \A k, l \in 1..Len(s) : s[k] = s[l] => k = l
  BY <1>1, <1>2, <1>3 DEF ArbolInv, UnSoloLugar
<1>10. ToSet(hs) = ToSet(s) \ {n}
  <2>0. DOMAIN hs = 1..(Len(s) - 1)
    BY <1>3, <1>8
  <2>1. ASSUME NEW c \in ToSet(hs) PROVE c \in ToSet(s) \ {n}
    <3>1. PICK k \in 1..(Len(s) - 1) : c = hs[k]
      BY <2>0, <2>1 DEF ToSet
    <3>2. PICK l : l = IF k < j THEN k ELSE k + 1
      OBVIOUS
    <3>3. l \in 1..Len(s) /\ l # j
      BY <1>3, <1>8, <3>1, <3>2
    <3>4. c = s[l]
      BY <1>8, <3>1, <3>2
    <3> QED BY <1>3, <1>8, <1>9, <3>3, <3>4 DEF ToSet
  <2>2. ASSUME NEW c \in ToSet(s), c # n PROVE c \in ToSet(hs)
    <3>1. PICK l \in 1..Len(s) : c = s[l]
      BY <1>3, <2>2 DEF ToSet
    <3>2. l # j
      BY <1>8, <2>2, <3>1
    <3>3. PICK k : k = IF l < j THEN l ELSE l - 1
      OBVIOUS
    <3>4. k \in 1..(Len(s) - 1) /\ l = IF k < j THEN k ELSE k + 1
      BY <1>3, <1>8, <3>1, <3>2, <3>3
    <3>5. c = hs[k]
      BY <1>8, <3>1, <3>4
    <3> QED BY <2>0, <3>4, <3>5 DEF ToSet
  <2> QED BY <2>1, <2>2
<1>11. mas = [i \in DOMAIN inodo \ {n} |->
                 IF i = padre THEN [inodo[i] EXCEPT !.hijos = hs] ELSE inodo[i]]
  BY <1>2, <1>7 DEF EliminarInode
<1>12. /\ DOMAIN mas = DOMAIN inodo \ {n}
       /\ mas[padre] = [inodo[padre] EXCEPT !.hijos = hs]
       /\ \A d \in DOMAIN mas : d # padre => mas[d] = inodo[d]
  BY <1>1, <1>6, <1>11
<1>13. /\ mas[padre].hijos = hs /\ mas[padre].nombre = inodo[padre].nombre
       /\ mas[padre].es_directorio = inodo[padre].es_directorio
       /\ mas[padre].modo = inodo[padre].modo
       /\ mas[padre].contenido = inodo[padre].contenido
  BY <1>1, <1>12 DEF Nodo
<1>14. ASSUME NEW d \in DOMAIN mas
       PROVE  /\ mas[d].nombre = inodo[d].nombre
              /\ mas[d].es_directorio = inodo[d].es_directorio
              /\ Vista(mas, d) = Vista(inodo, d)
              /\ ToSet(mas[d].hijos) = ToSet(inodo[d].hijos) \ {n}
  <2>1. CASE d = padre
    BY <1>2, <1>10, <1>13, <2>1 DEF Vista
  <2>2. CASE d # padre
    <3>1. mas[d] = inodo[d] /\ d \in DOMAIN inodo
      BY <1>12, <2>2
    <3>2. n \notin ToSet(inodo[d].hijos)
      BY <1>1, <1>2, <1>4, <2>2, <3>1 DEF ArbolInv, UnSoloLugar, ToSet
    <3> QED BY <3>1, <3>2 DEF Vista
  <2> QED BY <2>1, <2>2
<1> QED BY <1>5, <1>12, <1>14 DEF SinEl

LEMMA RemovedChild ==
    ASSUME ArbolInv, NEW n \in DOMAIN inodo, inodo[n].hijos = <<>>, NEW mas, SinEl(mas, n),
           NEW A, A \subseteq DOMAIN inodo, NEW x
    PROVE  HijosDeNombre(mas, A \ {n}, x) = HijosDeNombre(inodo, A, x) \ {n}
<1>1. \A d \in DOMAIN inodo : ToSet(inodo[d].hijos) \subseteq DOMAIN inodo
  BY DEF ArbolInv, UnSoloLugar
<1>2. ToSet(inodo[n].hijos) = {}
  BY DEF ToSet
<1>3. ASSUME NEW c \in HijosDeNombre(mas, A \ {n}, x)
      PROVE  c \in HijosDeNombre(inodo, A, x) /\ c # n
  <2>1. PICK d \in A \ {n} : mas[d].es_directorio /\ c \in ToSet(mas[d].hijos) /\ mas[c].nombre = x
    BY <1>3, ChildOfName
  <2>2. inodo[d].es_directorio /\ c \in ToSet(inodo[d].hijos) /\ c # n
    BY <2>1 DEF SinEl
  <2>3. inodo[c].nombre = x
    BY <1>1, <2>1, <2>2 DEF SinEl
  <2> QED BY <2>1, <2>2, <2>3, ChildOfName
<1>4. ASSUME NEW c \in HijosDeNombre(inodo, A, x), c # n
      PROVE  c \in HijosDeNombre(mas, A \ {n}, x)
  <2>1. PICK d \in A : inodo[d].es_directorio /\ c \in ToSet(inodo[d].hijos) /\ inodo[c].nombre = x
    BY <1>4, ChildOfName
  <2>2. d # n /\ d \in DOMAIN mas /\ c \in DOMAIN mas
    BY <1>1, <1>2, <1>4, <2>1 DEF SinEl
  <2>3. mas[d].es_directorio /\ c \in ToSet(mas[d].hijos) /\ mas[c].nombre = x
    BY <1>4, <2>1, <2>2 DEF SinEl
  <2> QED BY <2>2, <2>3, ChildOfName
<1> QED BY <1>3, <1>4

LEMMA RemovedNames ==
    ASSUME NEW en, EnArbol(en), NEW n \in DOMAIN inodo, n # raiz, inodo[n].hijos = <<>>,
           NEW mas, SinEl(mas, n), NEW g, EsMapa(g, mas, raiz, MaxDepth)
    PROVE  \A q \in TodosPaths : g[q] = en[q] \ {n}
<1>1. ArbolInv /\ EsMapa(en, inodo, raiz, MaxDepth)
  BY DEF EnArbol
<1>2. /\ en[<<>>] = {raiz} /\ g[<<>>] = {raiz}
      /\ \A q \in TodosPaths : q # <<>> =>
            /\ en[q] = HijosDeNombre(inodo, en[Front(q)], Last(q))
            /\ g[q] = HijosDeNombre(mas, g[Front(q)], Last(q))
  BY <1>1, MapAt
<1> DEFINE S == {q \in TodosPaths : g[q] = en[q] \ {n}}
<1>3. <<>> \in S
  BY <1>2, RootIsPath
<1>4. ASSUME NEW q \in TodosPaths, q # <<>>, Front(q) \in TodosPaths, Front(q) \in S PROVE q \in S
  <2>1. PICK A : A = en[Front(q)]
    OBVIOUS
  <2>2. A \subseteq DOMAIN inodo /\ g[Front(q)] = A \ {n}
    BY <1>4, <2>1, NamedInHeap
  <2>3. HijosDeNombre(mas, A \ {n}, Last(q)) = HijosDeNombre(inodo, A, Last(q)) \ {n}
    BY <1>1, <2>2, RemovedChild
  <2> QED BY <1>2, <1>4, <2>1, <2>2, <2>3
<1>5. TodosPaths \subseteq S
  <2> HIDE DEF S
  <2> QED BY <1>3, <1>4, PathInduction
<1> QED BY <1>5

(* What was there shows no more, and nothing hung from it.                   *)
Sacado(a, b, p) ==
    /\ a = [q \in DOMAIN a |-> a[q]] /\ b = [q \in DOMAIN a \ {p} |-> b[q]]
    /\ p \in DOMAIN a
    /\ \A q \in DOMAIN a : (q # <<>> => Front(q) # p) /\ (q # p => b[q] = a[q])

LEMMA RemovalShows ==
    ASSUME ArbolInv, raiz \in DOMAIN inodo, NEW path \in Paths, Pedible(path),
           NEW n, n = BuscarInode(path), n # NULL, inodo[n].hijos = <<>>,
           NEW padre \in DOMAIN inodo \union {NULL}, EsDirectorio(padre),
           Contains(inodo[padre].hijos, n), NEW mas, mas = EliminarInode(padre, n)
    PROVE  Sacado(ArbolDe(inodo, raiz), ArbolDe(mas, raiz), path)
<1>1. PICK en : EsMapa(en, inodo, raiz, MaxDepth) /\ ArbolDe(inodo, raiz) = LoQueNombra(en, inodo)
  BY MapIsRead
<1>2. PICK g : EsMapa(g, mas, raiz, MaxDepth) /\ ArbolDe(mas, raiz) = LoQueNombra(g, mas)
  BY MapIsRead
<1>3. EnArbol(en)
  BY <1>1 DEF EnArbol
<1>4. path \in TodosPaths /\ en[path] = {n} /\ n \in DOMAIN inodo
  BY <1>3, RequestedPath
<1>5. SinEl(mas, n) /\ n # raiz
  BY RemovedHeap
<1>6. \A q \in TodosPaths : g[q] = en[q] \ {n}
  BY <1>2, <1>3, <1>4, <1>5, RemovedNames
<1>7. ASSUME NEW q \in TodosPaths, q # path PROVE n \notin en[q] /\ g[q] = en[q]
  <2>1. n \notin en[q]
    BY <1>3, <1>4, <1>7, PathUnique
  <2> QED BY <1>6, <2>1
<1>8. g[path] = {}
  BY <1>4, <1>6
<1>9. PICK a : a = LoQueNombra(en, inodo)
  OBVIOUS
<1>10. PICK b : b = LoQueNombra(g, mas)
  OBVIOUS
<1>11. Muestra(a, en, inodo) /\ Muestra(b, g, mas)
  BY <1>9, <1>10, Shown
<1>12. /\ a = [q \in DOMAIN a |-> a[q]] /\ DOMAIN a = {q \in TodosPaths : en[q] # {}}
       /\ b = [q \in DOMAIN b |-> b[q]] /\ DOMAIN b = {q \in TodosPaths : g[q] # {}}
  BY <1>11, Zenon DEF Muestra
<1>13. path \in DOMAIN a /\ DOMAIN b = DOMAIN a \ {path}
  BY <1>4, <1>7, <1>8, <1>12
<1>14. ASSUME NEW q \in DOMAIN a, q # path PROVE b[q] = a[q]
  <2>1. q \in TodosPaths /\ g[q] = en[q] /\ n \notin en[q]
    BY <1>7, <1>12, <1>14
  <2>2. \A i \in en[q] : Vista(mas, i) = Vista(inodo, i)
    BY <1>3, <1>5, <2>1, NamedInHeap DEF SinEl
  <2> QED BY <1>11, <1>14, <2>1, <2>2, ShownAlike
<1>15. ASSUME NEW q \in DOMAIN a, q # <<>>, Front(q) = path PROVE FALSE
  <2>1. q \in TodosPaths /\ en[q] # {}
    BY <1>12
  <2>2. PICK i \in en[q] : TRUE
    BY <2>1
  <2>3. PICK d \in en[Front(q)] : i \in ToSet(inodo[d].hijos)
    BY <1>3, <1>15, <2>1, NamedHangs
  <2>4. d = n
    BY <1>4, <1>15
  <2>5. ToSet(<<>>) = {}
    BY DEF ToSet
  <2> QED BY <2>3, <2>4, <2>5
<1>16. Sacado(a, b, path)
  BY <1>12, <1>13, <1>14, <1>15 DEF Sacado
<1> QED BY <1>1, <1>2, <1>9, <1>10, <1>16
=============================================================================
