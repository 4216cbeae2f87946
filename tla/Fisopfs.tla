------------------------------ MODULE Fisopfs ------------------------------
(* fisopfs: the tree of inodes in memory, the requests of FUSE on it, and    *)
(* the file that keeps it between two mounts.  Requests come one at a time;  *)
(* the process may die between any two steps.                                *)
EXTENDS Integers, Sequences, SequencesExt, FiniteSetsExt, TLC

CONSTANTS Nombres,     \* names the requests use, shorter than MAX_FILENAME_LENGTH
          Inodes,      \* bound: addresses calloc() may hand out
          MaxDepth,    \* bound: components of a path
          MaxSize,     \* bound: bytes of a file
          Bytes,       \* values of a byte that a write may put
          Modos,       \* permissions of a new inode: S_IRUSR is "r", S_IWUSR is "w"
          Basura,      \* the name of a node read past the end of the disk file
          NULL, Ausente, Roto, NoMontado

ASSUME FisopfsAssumption == /\ MaxDepth \in Nat \ {0} /\ MaxSize \in Nat
                            /\ Inodes \subseteq Nat \ {0} /\ IsFiniteSet(Inodes)
                            /\ "/" \notin Nombres /\ Basura \notin Nombres \union {"/"}
                            /\ NULL \notin Inodes /\ Modos \subseteq SUBSET {"r", "w"}

VARIABLES inodo,       \* the heap: address -> inode_t
          raiz,        \* fs.raiz
          archivo,     \* fs.archivo_disco: the records in it, or Ausente
          pc,          \* where the process is
          nuevo,       \* the argument of a pending agregar_hijo()
          fallo        \* history: the last fopen() to save failed

vars == <<inodo, raiz, archivo, pc, nuevo, fallo>>

Paths == BoundedSeq(Nombres, MaxDepth)
Celdas == Bytes \union {"0", "?"}                \* "?": memory nobody wrote
Ninguno == [padre |-> NULL, hijo |-> NULL]

----------------------------------------------------------------------------
(* The tree. *)

CrearInode(nombre, modo, esDir) ==
    [nombre |-> nombre, modo |-> modo, es_directorio |-> esDir,
     contenido |-> <<>>, hijos |-> <<>>]

Libres == Inodes \ DOMAIN inodo

(* The first child of that name, or NULL. *)
Hijo(nodos, i, nombre) ==
    LET h == nodos[i].hijos
        s == SelectInSeq(h, LAMBDA j : nodos[j].nombre = nombre)
    IN  IF s = 0 THEN NULL ELSE h[s]

(* The walk stops at an inode that is not a directory and answers it. *)
Baja(nodos, a, nombre) ==
    IF a # NULL /\ nodos[a].es_directorio THEN Hijo(nodos, a, nombre) ELSE a
BuscarDesde(nodos, i, path) ==
    LET actual[k \in 0..Len(path)] ==
          IF k = 0 THEN i ELSE Baja(nodos, actual[k-1], path[k])
    IN  actual[Len(path)]
BuscarInode(path) == BuscarDesde(inodo, raiz, path)

BuscarPadre(path) == IF path = <<>> THEN NULL ELSE BuscarInode(Front(path))

EsDirectorio(i) == i # NULL /\ inodo[i].es_directorio
EsArchivo(i) == i # NULL /\ ~inodo[i].es_directorio

(* Mutant: the hole is not closed. *)
EliminarInodeSinCompactar(padre, target) ==
    IF ~EsDirectorio(padre) \/ ~Contains(inodo[padre].hijos, target) THEN inodo
    ELSE [i \in DOMAIN inodo \ {target} |-> inodo[i]]

(* Frees the child and closes the hole it leaves in the array. *)
EliminarInode(padre, target) ==
    IF ~EsDirectorio(padre) \/ ~Contains(inodo[padre].hijos, target) THEN inodo
    ELSE [i \in DOMAIN inodo \ {target} |->
            IF i = padre THEN [inodo[i] EXCEPT !.hijos = RemoveFirst(@, target)]
            ELSE inodo[i]]

AgregarHijo(padre, hijo) ==
    [inodo EXCEPT ![padre].hijos = Append(@, hijo)]

ConNuevo(i, nodo) ==
    [j \in DOMAIN inodo \union {i} |-> IF j = i THEN nodo ELSE inodo[j]]

----------------------------------------------------------------------------
(* The file on disk: the inodes in preorder, each with its number of children. *)

Registros == [nombre : Nombres \union {"/", Basura}, modo : SUBSET {"r", "w"},
              es_directorio : BOOLEAN, contenido : BoundedSeq(Celdas, MaxSize),
              cantidad_hijos : Nat]
ASSUME AusenteAssumption == Ausente \notin Seq(Registros)

Registro(i) ==
    [nombre |-> inodo[i].nombre, modo |-> inodo[i].modo,
     es_directorio |-> inodo[i].es_directorio, contenido |-> inodo[i].contenido,
     cantidad_hijos |-> Len(inodo[i].hijos)]

GuardarInode[d \in 0..(MaxDepth+1)] ==
    [i \in DOMAIN inodo |->
        <<Registro(i)>> \o
        (IF d = 0 THEN <<>>
         ELSE FlattenSeq([k \in DOMAIN inodo[i].hijos |->
                            GuardarInode[d-1][inodo[i].hijos[k]]]))]
Volcado == GuardarInode[MaxDepth][raiz]

(* How many inodes the first k records leave to read.  The k-th one goes     *)
(* into the last directory before it that still waits for children.          *)
Faltan(s) == LET f[k \in 0..Len(s)] == IF k = 0 THEN 1
                                       ELSE f[k-1] + s[k].cantidad_hijos - 1
             IN  f
Espera(s, j, k) ==
    s[j].cantidad_hijos > 0
    /\ \A m \in j..(k-1) : Faltan(s)[m] >= Faltan(s)[j-1]
PadreDe(s, k) == Max({j \in 1..(k-1) : Espera(s, j, k)})
HijosDe(s, j) == LET h[k \in j..Len(s)] ==
                       IF k = j THEN <<>>
                       ELSE IF PadreDe(s, k) = j THEN Append(h[k-1], k) ELSE h[k-1]
                 IN  h[Len(s)]
Leido(s) == [j \in DOMAIN s |->
                [nombre |-> s[j].nombre, modo |-> s[j].modo,
                 es_directorio |-> s[j].es_directorio, contenido |-> s[j].contenido,
                 hijos |-> HijosDe(s, j)]]
Entero(s) == Faltan(s)[Len(s)] = 0

(* Past the end fread() leaves calloc()'s zeros: a file with no permissions  *)
(* whose name has whatever length the stack held.                            *)
RegistroBasura == [nombre |-> Basura, modo |-> {}, es_directorio |-> FALSE,
                   contenido |-> <<>>, cantidad_hijos |-> 0]

CargarInode(s) == Leido(s \o [k \in 1..(Faltan(s)[Len(s)]) |-> RegistroBasura])

RaizNueva == <<CrearInode("/", {"r", "w"}, TRUE)>>
CargarFs == IF archivo = Ausente THEN RaizNueva ELSE CargarInode(archivo)

----------------------------------------------------------------------------
(* The kernel asks for a path only after it looked up, with getattr, every   *)
(* directory above it.                                                       *)
Prefijos(path) == {SubSeq(path, 1, n) : n \in 0..(Len(path) - 1)}
Pedible(path) == /\ pc = "listo"
                 /\ \A p \in Prefijos(path) : EsDirectorio(BuscarInode(p))
                 /\ path = <<>> => EsDirectorio(raiz)

Init == /\ inodo = <<>> /\ raiz = NULL /\ archivo = Ausente
        /\ pc = "desmontado" /\ nuevo = Ninguno /\ fallo = FALSE

(* fisopfs_init(): a file that ends early may also kill the process. *)
FisopfsInit ==
    /\ pc = "desmontado"
    /\ 1..Len(CargarFs) \subseteq Inodes         \* bound: calloc() never fails
    /\ inodo' = CargarFs /\ raiz' = 1
    /\ pc' = "listo"
    /\ UNCHANGED <<archivo, nuevo, fallo>>

(* The handlers that only read: what they answer. *)

Getattr(path) ==
    LET n == BuscarInode(path)
    IN  IF n = NULL THEN <<"ENOENT">>
        ELSE <<inodo[n].es_directorio, inodo[n].modo, Len(inodo[n].contenido)>>

Readdir(path) ==
    LET dir == BuscarInode(path)
    IN  IF ~EsDirectorio(dir) THEN {"ENOENT"}
        ELSE {".", ".."} \union {inodo[h].nombre : h \in ToSet(inodo[dir].hijos)}

(* Mutant: a read that reaches past the end gets nothing. *)
ReadEntero(path, offset, size) ==
    LET n == BuscarInode(path)
        c == inodo[n].contenido
    IN  IF ~EsArchivo(n) THEN <<"EISDIR">>
        ELSE IF offset + size <= Len(c) THEN SubSeq(c, offset + 1, offset + size)
        ELSE <<>>

Read(path, offset, size) ==
    LET n == BuscarInode(path)
        c == inodo[n].contenido
    IN  IF ~EsArchivo(n) THEN <<"EISDIR">>
        ELSE IF offset < Len(c) THEN SubSeq(c, offset + 1, Min({offset + size, Len(c)}))
        ELSE <<>>

PuedeAbrir(n, acceso) ==
    /\ EsArchivo(n)
    /\ acceso \in {"wr", "rdwr"} => "w" \in inodo[n].modo
    /\ acceso = "rd" => "r" \in inodo[n].modo

(* The handlers that change something.  One that returns an error does not.  *)
Error == UNCHANGED vars

(* Mutant: a handler that does not save. *)
GuardarNunca(h, pendiente) ==
    /\ inodo' = h /\ nuevo' = pendiente
    /\ pc' = "responder"
    /\ UNCHANGED <<raiz, archivo, fallo>>

(* A handler changes the heap, saves, and only then adds the new child. *)
GuardarTras(h, pendiente) ==
    /\ inodo' = h /\ nuevo' = pendiente
    /\ pc' = "abrir"
    /\ UNCHANGED <<raiz, archivo, fallo>>

(* mkdir and create differ in the kind of the inode. *)
Crear(path, modo, esDir) ==
    LET padre == BuscarPadre(path)
    IN  IF ~EsDirectorio(padre) \/ BuscarInode(path) # NULL THEN Error
        ELSE /\ Libres # {}                     \* bound: calloc() never fails
             /\ LET i == Min(Libres)
                IN  GuardarTras(ConNuevo(i, CrearInode(Last(path), modo, esDir)),
                                [padre |-> padre, hijo |-> i])
Mkdir(path, modo) == Crear(path, modo, TRUE)
Create(path, modo) == Crear(path, modo, FALSE)

ConContenido(n, c) == [inodo EXCEPT ![n].contenido = c]

(* Mutant: the new size is one byte too large. *)
EscritoDeMas(c, datos, offset) ==
    [k \in 1..Max({Len(c), offset + Len(datos) + 1}) |->
        IF k \in (offset+1)..(offset + Len(datos)) THEN datos[k - offset]
        ELSE IF k <= Len(c) THEN c[k] ELSE "?"]

(* realloc() does not clear: bytes between the old end and offset are "?". *)
Escrito(c, datos, offset) ==
    [k \in 1..Max({Len(c), offset + Len(datos)}) |->
        IF k \in (offset+1)..(offset + Len(datos)) THEN datos[k - offset]
        ELSE IF k <= Len(c) THEN c[k] ELSE "?"]

Write(path, datos, offset) ==
    LET n == BuscarInode(path)
    IN  IF ~EsArchivo(n) THEN Error
        ELSE GuardarTras(ConContenido(n, Escrito(inodo[n].contenido, datos, offset)), Ninguno)

Unlink(path) ==
    LET n == BuscarInode(path)
    IN  IF ~EsArchivo(n) THEN Error
        ELSE GuardarTras(EliminarInode(BuscarPadre(path), n), Ninguno)

Rmdir(path) ==
    LET n == BuscarInode(path)
    IN  IF ~EsDirectorio(n) \/ inodo[n].hijos # <<>> THEN Error
        ELSE GuardarTras(EliminarInode(BuscarPadre(path), n), Ninguno)

Open(path, acceso, trunc) ==
    LET n == BuscarInode(path)
    IN  IF ~PuedeAbrir(n, acceso) \/ ~trunc THEN UNCHANGED vars
        ELSE GuardarTras(ConContenido(n, <<>>), Ninguno)

(* Mutant: the new bytes are not cleared. *)
TruncadoSinCeros(c, size) == [k \in 1..size |-> IF k <= Len(c) THEN c[k] ELSE "?"]
Truncado(c, size) == [k \in 1..size |-> IF k <= Len(c) THEN c[k] ELSE "0"]
Truncate(path, size) ==
    LET n == BuscarInode(path)
    IN  IF ~EsArchivo(n) THEN Error
        ELSE GuardarTras(ConContenido(n, Truncado(inodo[n].contenido, size)), Ninguno)

(* The times themselves are left out. *)
Utimens(path) ==
    IF BuscarInode(path) = NULL THEN Error ELSE GuardarTras(inodo, Ninguno)

(* fisopfs_destroy(), on umount: saves, then frees the tree and ends. *)
Destroy ==
    /\ pc = "listo"
    /\ pc' = "abrir" /\ nuevo' = [padre |-> NULL, hijo |-> raiz]
    /\ UNCHANGED <<inodo, raiz, archivo, fallo>>
Desmontando == nuevo.padre = NULL /\ nuevo.hijo # NULL

----------------------------------------------------------------------------
(* guardar_fs() *)

(* fopen("wb") truncates the only copy; a failure is printed and ignored. *)
AbrirDisco ==
    /\ pc = "abrir"
    /\ \/ archivo' = <<>> /\ pc' = "escribir" /\ fallo' = FALSE
       \/ ~fallo                        \* bound: no two failures in a row
          /\ archivo' = archivo /\ pc' = "responder" /\ fallo' = TRUE
    /\ UNCHANGED <<inodo, raiz, nuevo>>

(* The buffer of stdio spills whenever it is full. *)
VolcarBuffer ==
    /\ pc = "escribir"
    /\ \E n \in (Len(archivo)+1)..(Len(Volcado)-1) : archivo' = SubSeq(Volcado, 1, n)
    /\ UNCHANGED <<inodo, raiz, pc, nuevo, fallo>>

CerrarDisco ==
    /\ pc = "escribir"
    /\ archivo' = Volcado /\ pc' = "responder"
    /\ UNCHANGED <<inodo, raiz, nuevo, fallo>>

Apagado == /\ inodo' = <<>> /\ raiz' = NULL /\ nuevo' = Ninguno
           /\ pc' = "desmontado" /\ UNCHANGED <<archivo, fallo>>

Responder ==
    /\ pc = "responder"
    /\ IF Desmontando THEN Apagado
       ELSE /\ inodo' = IF nuevo = Ninguno THEN inodo ELSE AgregarHijo(nuevo.padre, nuevo.hijo)
            /\ pc' = "listo" /\ nuevo' = Ninguno
            /\ UNCHANGED <<raiz, archivo, fallo>>

(* The process is killed. *)
Muere == pc # "desmontado" /\ Apagado

Cambio(path) ==
    \/ path # <<>> /\ \E m \in Modos : Mkdir(path, m) \/ Create(path, m)
    \/ \E n \in 0..(MaxSize-1) : \E d \in BoundedSeq(Bytes, MaxSize - n) :
          d # <<>> /\ Write(path, d, n)
    \/ Unlink(path)
    \/ path # <<>> /\ Rmdir(path)
    \/ \E a \in {"rd", "wr", "rdwr"}, t \in BOOLEAN : Open(path, a, t)
    \/ \E n \in 0..MaxSize : Truncate(path, n)
    \/ Utimens(path)
Pedido == \E path \in Paths : Pedible(path) /\ Cambio(path)

Next == FisopfsInit \/ Pedido \/ Destroy
        \/ AbrirDisco \/ VolcarBuffer \/ CerrarDisco \/ Responder \/ Muere

Spec == Init /\ [][Next]_vars

----------------------------------------------------------------------------
(* Properties. *)

Nodo == [nombre : Nombres \union {"/", Basura}, modo : SUBSET {"r", "w"}, es_directorio : BOOLEAN,
         contenido : BoundedSeq(Celdas, MaxSize), hijos : Seq(Inodes)]

Encargo == [padre : Inodes \union {NULL}, hijo : Inodes \union {NULL}]
MontonOK == DOMAIN inodo \subseteq Inodes /\ \A i \in DOMAIN inodo : inodo[i] \in Nodo

(* The types of the variables; a file holds at most MaxSize bytes. *)
TypeOK ==
    /\ MontonOK
    /\ raiz \in Inodes \union {NULL} /\ nuevo \in Encargo
    /\ pc \in {"desmontado", "listo", "abrir", "escribir", "responder"}
    /\ archivo = Ausente \/ archivo \in Seq(Registros)
    /\ fallo \in BOOLEAN

NombresDistintos ==
    \A i \in DOMAIN inodo : \A j, k \in DOMAIN inodo[i].hijos :
        LET n(x) == inodo[inodo[i].hijos[x]].nombre
        IN  n(j) = n(k) => j = k \/ n(j) = Basura

(* Every inode in the heap hangs from exactly one directory, once, or is the *)
(* root, or waits for agregar_hijo(); two children of a directory never have *)
(* the same name.  So nothing is freed while it is reachable, and nothing    *)
(* reachable is lost, whatever the sequence of requests, crashes and mounts. *)
Lugares == UNION {{d} \X DOMAIN inodo[d].hijos : d \in DOMAIN inodo}
Apariciones(i) == {x \in Lugares : inodo[x[1]].hijos[x[2]] = i}
ArbolBienFormado ==
    /\ \A i \in DOMAIN inodo :
          /\ ToSet(inodo[i].hijos) \subseteq DOMAIN inodo
          /\ inodo[i].hijos # <<>> => inodo[i].es_directorio
          /\ Cardinality(Apariciones(i)) =
                (IF i = raiz \/ (i = nuevo.hijo /\ nuevo.padre # NULL) THEN 0 ELSE 1)
    /\ NombresDistintos
    /\ nuevo.padre # NULL => EsDirectorio(nuevo.padre) /\ nuevo.hijo \in DOMAIN inodo

(* What every step keeps: the inode that waits for agregar_hijo() is empty,  *)
(* hangs from nowhere yet, and brings a name its directory does not have.    *)
Pendiente == nuevo.padre # NULL
SinPadre == {i \in DOMAIN inodo : i = raiz \/ (Pendiente /\ i = nuevo.hijo)}
UnSoloLugar ==
    /\ \A d, e \in DOMAIN inodo :
          \A k \in DOMAIN inodo[d].hijos, l \in DOMAIN inodo[e].hijos :
             inodo[d].hijos[k] = inodo[e].hijos[l] => d = e /\ k = l
    /\ \A d \in DOMAIN inodo : ToSet(inodo[d].hijos) \subseteq DOMAIN inodo \ SinPadre
    /\ \A i \in DOMAIN inodo \ SinPadre :
          \E d \in DOMAIN inodo : i \in ToSet(inodo[d].hijos)
PendienteSano ==
    LET p == nuevo.padre  h == nuevo.hijo IN
    /\ h \in DOMAIN inodo /\ h # raiz /\ inodo[h].hijos = <<>>
    /\ p \in DOMAIN inodo /\ inodo[p].es_directorio
    /\ \A j \in ToSet(inodo[p].hijos) : inodo[j].nombre # inodo[h].nombre
ArbolInv ==
    /\ MontonOK /\ UnSoloLugar /\ NombresDistintos
    /\ raiz \in DOMAIN inodo \union {NULL} /\ nuevo \in Encargo
    /\ \A i \in DOMAIN inodo : inodo[i].hijos # <<>> => inodo[i].es_directorio
    /\ \A i \in DOMAIN inodo \ {raiz} : inodo[i].nombre # "/"
    /\ Pendiente => PendienteSano
    /\ pc \in {"desmontado", "listo"} => nuevo = Ninguno

(* The tree as its user sees it: what each path names. *)
TodosPaths == BoundedSeq(Nombres \union {Basura}, MaxDepth)
HijosDeNombre(nodos, D, nombre) ==
    {h \in UNION {ToSet(nodos[d].hijos) : d \in {x \in D : nodos[x].es_directorio}} :
        nodos[h].nombre = nombre}
Vista(nodos, h) == [dir |-> nodos[h].es_directorio, modo |-> nodos[h].modo,
                    contenido |-> nodos[h].contenido]
ArbolDe(nodos, i) ==
    LET en[p \in TodosPaths] ==            \* the inodes that p names: at most one,
          IF p = <<>> THEN {i}             \* or equal ones called Basura
          ELSE HijosDeNombre(nodos, en[Front(p)], Last(p))
    IN  [p \in {q \in TodosPaths : en[q] # {}} |->
            CHOOSE v \in {Vista(nodos, h) : h \in en[p]} : TRUE]
Vistas == [dir : BOOLEAN, modo : SUBSET {"r", "w"}, contenido : BoundedSeq(Celdas, MaxSize)]
ASSUME NoMontadoAssumption == \A S \in SUBSET TodosPaths : NoMontado \notin [S -> Vistas]
Arbol == IF pc = "desmontado" THEN NoMontado ELSE ArbolDe(inodo, raiz)
(* The set is there for TLC to read the file only once. *)
Durable == IF archivo = Ausente THEN ArbolDe(RaizNueva, 1)
           ELSE IF Entero(archivo)
             THEN CHOOSE t \in {ArbolDe(n, 1) : n \in {CargarInode(archivo)}} : TRUE
           ELSE Roto

(* fisopfs keeps its promise: a request changes the one path it names and    *)
(* nothing else, a save stores the tree, and a mount finds exactly what the  *)
(* last complete save stored.                                                *)
P == INSTANCE FsPromise WITH arbol <- Arbol, durable <- Durable, Paths <- TodosPaths
Promesa == P!Spec

(* Between two requests, if the last save could open the file, the disk      *)
(* holds the tree except for the inode that the last mkdir or create added   *)
(* after saving: what a crash between requests loses is that one empty inode.*)
AtrasoDeUno ==
    pc = "listo" /\ ~fallo /\ Durable # Roto =>
        /\ DOMAIN Durable \subseteq DOMAIN Arbol
        /\ \A p \in DOMAIN Durable : Durable[p] = Arbol[p]
        /\ Cardinality(DOMAIN Arbol \ DOMAIN Durable) <= 1
        /\ \A p \in DOMAIN Arbol \ DOMAIN Durable : Arbol[p].contenido = <<>>

(* Whoever asks sees that tree: attributes, names and bytes are those of the *)
(* path, and a directory lists exactly the paths that can be found in it.    *)
ConsultasFieles ==
    \A p \in Paths : Pedible(p) =>
        LET a == Arbol IN
        /\ (Getattr(p) # <<"ENOENT">>) <=> p \in DOMAIN a
        /\ p \in DOMAIN a =>
              /\ Getattr(p) = <<a[p].dir, a[p].modo, Len(a[p].contenido)>>
              /\ a[p].dir /\ Len(p) < MaxDepth =>
                    Readdir(p) = {".", ".."} \union {x \in Nombres \union {Basura} : Append(p, x) \in DOMAIN a}
              /\ ~a[p].dir =>
                    \A n, l \in 0..MaxSize :
                       Read(p, n, l) = [k \in 1..Max({0, Min({l, Len(a[p].contenido) - n})})
                                          |-> a[p].contenido[n + k]]
=============================================================================
