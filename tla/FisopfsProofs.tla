--------------------------- MODULE FisopfsProofs ---------------------------
(* Proofs about Fisopfs: the file of the last save, whole or cut anywhere,   *)
(* what a mount makes of it, what every step keeps; and that Fisopfs keeps   *)
(* what FsPromise promises.                                                  *)
EXTENDS FisopfsLemmas

(* f counts what the first k records leave to read.                          *)
EsCuenta(f, s, n) ==
    /\ f = [k \in 0..n |-> f[k]]
    /\ f[0] = 1
    /\ \A k \in 1..n : f[k] = f[k - 1] + s[k].cantidad_hijos - 1

LEMMA CountDefined ==
    ASSUME NEW s, NEW n \in Nat
    PROVE  \E f : EsCuenta(f, s, n)
<1> DEFINE S == {k \in Nat : \E f : EsCuenta(f, s, k)}
<1>1. 0 \in S
  <2> DEFINE f == [k \in 0..0 |-> 1]
  <2>1. EsCuenta(f, s, 0)
    BY DEF EsCuenta
  <2> QED BY <2>1, Zenon
<1>2. ASSUME NEW k \in Nat, k \in S PROVE k + 1 \in S
  <2>1. PICK f : EsCuenta(f, s, k)
    BY <1>2
  <2>2. \E g : EsCuenta(g, s, k + 1)
    <3>0. PICK x : x = f[k] + s[k + 1].cantidad_hijos - 1
      OBVIOUS
    <3> DEFINE g == [j \in 0..(k + 1) |-> IF j = k + 1 THEN x ELSE f[j]]
    <3>1. \A j \in 0..k : g[j] = f[j]
      OBVIOUS
    <3>2. g[k + 1] = x /\ g = [j \in 0..(k + 1) |-> g[j]]
      OBVIOUS
    <3> HIDE DEF g
    <3>3. ASSUME NEW j \in 1..(k + 1) PROVE g[j] = g[j - 1] + s[j].cantidad_hijos - 1
      <4>1. CASE j = k + 1
        <5>1. g[j - 1] = f[k]
          BY <3>1, <4>1
        <5> QED BY <3>0, <3>2, <4>1, <5>1
      <4>2. CASE j # k + 1
        <5>1. j \in 1..k /\ j \in 0..k /\ j - 1 \in 0..k
          BY <4>2
        <5>2. f[j] = f[j - 1] + s[j].cantidad_hijos - 1
          BY <2>1, <5>1, Zenon DEF EsCuenta
        <5> QED BY <3>1, <5>1, <5>2
      <4> QED BY <4>1, <4>2
    <3>4. g[0] = 1
      <4>1. 0 \in 0..k
        OBVIOUS
      <4> QED BY <2>1, <3>1, <4>1, Zenon DEF EsCuenta
    <3>5. EsCuenta(g, s, k + 1)
      BY <3>2, <3>3, <3>4, Zenon DEF EsCuenta
    <3> QED BY <3>5
  <2> QED BY <2>2
<1>3. Nat \subseteq S
  <2> HIDE DEF S
  <2> QED BY <1>1, <1>2, Induction
<1> QED BY <1>3

LEMMA LeftToRead ==
    ASSUME NEW s \in Seq(Registros)
    PROVE  /\ Faltan(s)[0] = 1
           /\ \A k \in 1..Len(s) : Faltan(s)[k] = Faltan(s)[k - 1] + s[k].cantidad_hijos - 1
           /\ \A k \in 0..Len(s) : Faltan(s)[k] \in Int
<1>0. PICK n \in Nat : n = Len(s)
  OBVIOUS
<1>1. \E g : g = [k \in 0..n |-> IF k = 0 THEN 1 ELSE g[k - 1] + s[k].cantidad_hijos - 1]
  <2>1. PICK g : EsCuenta(g, s, n)
    BY CountDefined
  <2>2. ASSUME NEW k \in 0..n
        PROVE  g[k] = IF k = 0 THEN 1 ELSE g[k - 1] + s[k].cantidad_hijos - 1
    <3>1. CASE k = 0
      BY <2>1, <3>1, Zenon DEF EsCuenta
    <3>2. CASE k # 0
      <4>1. k \in 1..n
        BY <3>2
      <4> QED BY <2>1, <3>2, <4>1, Zenon DEF EsCuenta
    <3> QED BY <3>1, <3>2
  <2>3. g = [k \in 0..n |-> g[k]]
    BY <2>1, Zenon DEF EsCuenta
  <2>4. g = [k \in 0..n |-> IF k = 0 THEN 1 ELSE g[k - 1] + s[k].cantidad_hijos - 1]
    BY <2>2, <2>3, Zenon
  <2> QED BY <2>4, Zenon
<1> DEFINE f[k \in 0..n] == IF k = 0 THEN 1 ELSE f[k - 1] + s[k].cantidad_hijos - 1
<1>2. Faltan(s) = f
  BY <1>0, Zenon DEF Faltan
<1>3. f = [k \in 0..n |-> IF k = 0 THEN 1 ELSE f[k - 1] + s[k].cantidad_hijos - 1]
  BY <1>1, Zenon
<1> HIDE DEF f
<1>4. \A k \in 0..n : f[k] = IF k = 0 THEN 1 ELSE f[k - 1] + s[k].cantidad_hijos - 1
  BY <1>3, Zenon
<1>5. f[0] = 1 /\ \A k \in 1..n : f[k] = f[k - 1] + s[k].cantidad_hijos - 1
  BY <1>4
<1>6. \A k \in 1..n : s[k].cantidad_hijos \in Nat
  <2>1. \A k \in 1..n : s[k] \in Registros
    BY <1>0
  <2> QED BY <2>1 DEF Registros
<1>7. \A k \in 0..n : f[k] \in Int
  <2> DEFINE S == {k \in Nat : k <= n => f[k] \in Int}
  <2>1. 0 \in S
    BY <1>5
  <2>2. ASSUME NEW k \in Nat, k \in S PROVE k + 1 \in S
    <3>1. CASE k + 1 <= n
      <4>1. k + 1 \in 1..n /\ (k + 1) - 1 = k /\ k <= n
        BY <3>1
      <4>2. f[k + 1] = f[(k + 1) - 1] + s[k + 1].cantidad_hijos - 1
        BY <1>5, <4>1, Zenon
      <4>3. f[k] \in Int /\ s[k + 1].cantidad_hijos \in Nat
        BY <2>2, <4>1, <1>6
      <4>4. f[k + 1] \in Int
        BY <4>1, <4>2, <4>3
      <4> QED BY <4>4
    <3> QED BY <3>1
  <2>3. Nat \subseteq S
    <3> HIDE DEF S
    <3> QED BY <2>1, <2>2, Induction
  <2> QED BY <2>3
<1> QED BY <1>0, <1>2, <1>5, <1>7, Zenon

(* Two files that begin alike leave the same to read,                        *)
LEMMA LeftOfPrefix ==
    ASSUME NEW s \in Seq(Registros), NEW t \in Seq(Registros),
           NEW n \in Nat, n <= Len(s), n <= Len(t), \A k \in 1..n : s[k] = t[k]
    PROVE  \A k \in 0..n : Faltan(s)[k] = Faltan(t)[k]
<1> DEFINE S == {k \in Nat : k <= n => Faltan(s)[k] = Faltan(t)[k]}
<1>1. 0 \in S
  BY LeftToRead
<1>2. ASSUME NEW k \in Nat, k \in S PROVE k + 1 \in S
  <2>1. CASE k + 1 <= n
    <3>1. k + 1 \in 1..Len(s) /\ k + 1 \in 1..Len(t) /\ k + 1 \in 1..n /\ (k + 1) - 1 = k /\ k <= n
      BY <2>1
    <3>2. Faltan(s)[k + 1] = Faltan(s)[(k + 1) - 1] + s[k + 1].cantidad_hijos - 1
      BY <3>1, LeftToRead, Zenon
    <3>3. Faltan(t)[k + 1] = Faltan(t)[(k + 1) - 1] + t[k + 1].cantidad_hijos - 1
      BY <3>1, LeftToRead, Zenon
    <3>4. Faltan(s)[k] = Faltan(t)[k] /\ s[k + 1] = t[k + 1]
      BY <1>2, <3>1
    <3>5. Faltan(s)[k + 1] = Faltan(t)[k + 1]
      BY <3>1, <3>2, <3>3, <3>4
    <3> QED BY <3>5
  <2> QED BY <2>1
<1>3. Nat \subseteq S
  <2> HIDE DEF S
  <2> QED BY <1>1, <1>2, Induction
<1> QED BY <1>3

(* and one after the other leave what the first did and the second has more. *)
LEMMA LeftOfBlock ==
    ASSUME NEW s \in Seq(Registros), NEW t \in Seq(Registros)
    PROVE  \A m \in 0..Len(t) :
              Faltan(s \o t)[Len(s) + m] = Faltan(s)[Len(s)] + Faltan(t)[m] - 1
<1>0. /\ s \o t \in Seq(Registros) /\ Len(s \o t) = Len(s) + Len(t)
      /\ \A k \in 1..(Len(s) + Len(t)) : (s \o t)[k] = IF k <= Len(s) THEN s[k] ELSE t[k - Len(s)]
      /\ Len(s) \in Nat /\ Len(t) \in Nat
  BY ConcatProperties
<1> DEFINE u == s \o t
           S == {m \in Nat : m <= Len(t) =>
                   Faltan(u)[Len(s) + m] = Faltan(s)[Len(s)] + Faltan(t)[m] - 1}
<1> HIDE DEF u
<1>1. 0 \in S
  <2>1. \A k \in 0..Len(s) : Faltan(s)[k] = Faltan(u)[k]
    <3>1. Len(s) <= Len(u) /\ \A k \in 1..Len(s) : s[k] = u[k]
      BY <1>0 DEF u
    <3>2. u \in Seq(Registros) /\ Len(s) <= Len(s)
      BY <1>0 DEF u
    <3> QED BY <1>0, <3>1, <3>2, LeftOfPrefix
  <2>2. Faltan(u)[Len(s) + 0] = Faltan(s)[Len(s)] /\ Faltan(t)[0] = 1 /\ Faltan(s)[Len(s)] \in Int
    BY <2>1, <1>0, LeftToRead
  <2> QED BY <2>2
<1>2. ASSUME NEW m \in Nat, m \in S PROVE m + 1 \in S
  <2>1. CASE m + 1 <= Len(t)
    <3>1. /\ m + 1 \in 1..Len(t) /\ m \in 0..Len(t) /\ (m + 1) - 1 = m
          /\ Len(s) + (m + 1) \in 1..Len(u) /\ (Len(s) + (m + 1)) - 1 = Len(s) + m
          /\ ~(Len(s) + (m + 1) <= Len(s)) /\ (Len(s) + (m + 1)) - Len(s) = m + 1
          /\ Len(s) + (m + 1) \in 1..(Len(s) + Len(t)) /\ Len(s) \in 0..Len(s)
      BY <2>1, <1>0 DEF u
    <3>2. Faltan(u)[Len(s) + (m + 1)] = Faltan(u)[(Len(s) + (m + 1)) - 1]
                                          + u[Len(s) + (m + 1)].cantidad_hijos - 1
      BY <3>1, <1>0, LeftToRead, Zenon DEF u
    <3>3. Faltan(t)[m + 1] = Faltan(t)[(m + 1) - 1] + t[m + 1].cantidad_hijos - 1
      BY <3>1, LeftToRead, Zenon
    <3>4. u[Len(s) + (m + 1)] = t[m + 1]
      BY <3>1, <1>0 DEF u
    <3>5. /\ Faltan(s)[Len(s)] \in Int /\ Faltan(t)[m] \in Int
          /\ t[m + 1].cantidad_hijos \in Nat
      <4>1. t[m + 1] \in Registros
        BY <3>1
      <4> QED BY <3>1, <4>1, LeftToRead DEF Registros
    <3>6. Faltan(u)[Len(s) + m] = Faltan(s)[Len(s)] + Faltan(t)[m] - 1
      BY <1>2, <2>1
    <3>7. Faltan(u)[Len(s) + (m + 1)] = Faltan(s)[Len(s)] + Faltan(t)[m + 1] - 1
      <4>1. Faltan(u)[Len(s) + (m + 1)] = Faltan(u)[Len(s) + m] + t[m + 1].cantidad_hijos - 1
        BY <3>1, <3>2, <3>4, Zenon
      <4>2. Faltan(t)[m + 1] = Faltan(t)[m] + t[m + 1].cantidad_hijos - 1
        BY <3>1, <3>3, Zenon
      <4>3. \A a, b \in Int, c \in Nat : (a + b - 1) + c - 1 = a + (b + c - 1) - 1
        OBVIOUS
      <4> QED BY <3>5, <3>6, <4>1, <4>2, <4>3, ZenonT(30)
    <3> QED BY <3>7
  <2> QED BY <2>1
<1>3. Nat \subseteq S
  <2> HIDE DEF S
  <2> QED BY <1>1, <1>2, Induction
<1>4. \A m \in 0..Len(t) : m \in S
  BY <1>3
<1> QED BY <1>4 DEF u

(* The directory that a record goes into.                                    *)
EsPadre(s, j, k) ==
    /\ j \in 1..(k - 1) /\ Espera(s, j, k)
    /\ \A m \in (j + 1)..(k - 1) : ~Espera(s, m, k)

LEMMA MaxIsGreatest ==
    ASSUME NEW n \in Nat, NEW S \in SUBSET (1..n), S # {}
    PROVE  Max(S) \in S /\ \A k \in S : Max(S) >= k
<1> DEFINE T == {n - k : k \in S}
<1>1. T \in SUBSET Nat /\ T # {}
  <2>1. \A k \in S : k \in 1..n
    OBVIOUS
  <2>2. \A k \in S : n - k \in Nat
    BY <2>1
  <2> QED BY <2>2
<1>2. Min(T) \in T /\ \A k \in T : Min(T) <= k
  BY <1>1, MinIsLeast
<1>3. PICK m \in S : Min(T) = n - m
  BY <1>2
<1>4. \A k \in S : n - k \in T
  OBVIOUS
<1>5. \A k \in S : m >= k
  <2> HIDE DEF T
  <2>1. \A k \in S : k \in 1..n
    OBVIOUS
  <2>2. \A k \in S : n - m <= n - k
    BY <1>2, <1>3, <1>4
  <2> QED BY <2>1, <2>2
<1> QED BY <1>5, Zenon DEF Max

LEMMA ParentIs ==
    ASSUME NEW s, NEW k \in Nat, NEW j, EsPadre(s, j, k)
    PROVE  PadreDe(s, k) = j
<1> DEFINE S == {m \in 1..(k - 1) : Espera(s, m, k)}
<1>1. k - 1 \in Nat /\ j \in S /\ S \in SUBSET (1..(k - 1)) /\ S # {}
  BY DEF EsPadre
<1>2. Max(S) \in S /\ Max(S) >= j
  <2> HIDE DEF S
  <2> QED BY <1>1, MaxIsGreatest
<1>3. Max(S) = j
  BY <1>1, <1>2 DEF EsPadre
<1> QED BY <1>3 DEF PadreDe

LEMMA ParentThere ==
    ASSUME NEW s \in Seq(Registros), NEW k \in 2..Len(s),
           \A m \in 1..(k - 1) : Faltan(s)[m] >= 1
    PROVE  EsPadre(s, PadreDe(s, k), k)
<1> DEFINE S == {m \in 1..(k - 1) : Espera(s, m, k)}
<1>1. /\ k \in Nat /\ k - 1 \in Nat /\ 1 \in 1..(k - 1) /\ 1 \in 1..Len(s) /\ 1 - 1 = 0
      /\ \A m \in 1..(k - 1) : m \in 0..Len(s)
  OBVIOUS
<1>2. Espera(s, 1, k)
  <2>1. Faltan(s)[1] = Faltan(s)[1 - 1] + s[1].cantidad_hijos - 1 /\ Faltan(s)[0] = 1
    BY <1>1, LeftToRead, Zenon
  <2>2. s[1] \in Registros
    BY <1>1
  <2>3. Faltan(s)[1] >= 1
    BY <1>1
  <2>4. s[1].cantidad_hijos > 0
    BY <1>1, <2>1, <2>2, <2>3 DEF Registros
  <2>5. \A m \in 1..(k - 1) : Faltan(s)[m] >= Faltan(s)[1 - 1]
    BY <1>1, <2>1
  <2> QED BY <2>4, <2>5 DEF Espera
<1>3. S \in SUBSET (1..(k - 1)) /\ S # {} /\ PadreDe(s, k) = Max(S)
  BY <1>1, <1>2 DEF PadreDe
<1>4. Max(S) \in S /\ \A m \in S : Max(S) >= m
  <2> HIDE DEF S
  <2> QED BY <1>1, <1>3, MaxIsGreatest
<1>5. ASSUME NEW m \in (Max(S) + 1)..(k - 1) PROVE ~Espera(s, m, k)
  <2>1. Max(S) \in 1..(k - 1)
    BY <1>4
  <2>2. m \in 1..(k - 1) /\ ~(Max(S) >= m)
    <3> HIDE DEF S
    <3> QED BY <2>1
  <2> QED BY <1>4, <2>2
<1>6. Max(S) \in 1..(k - 1) /\ Espera(s, Max(S), k)
  BY <1>4
<1> HIDE DEF S
<1> QED BY <1>3, <1>5, <1>6 DEF EsPadre

(* It depends on what comes before the record only.                          *)
LEMMA ParentOfPrefix ==
    ASSUME NEW s \in Seq(Registros), NEW t \in Seq(Registros), NEW k \in Nat,
           k - 1 <= Len(s), k - 1 <= Len(t), \A m \in 1..(k - 1) : s[m] = t[m]
    PROVE  PadreDe(s, k) = PadreDe(t, k)
<1>1. CASE k = 0
  <2>1. \A m \in 1..(k - 1) : FALSE
    BY <1>1
  <2> QED BY <2>1 DEF PadreDe
<1>2. CASE k # 0
  <2>1. k - 1 \in Nat
    BY <1>2
  <2>2. \A m \in 0..(k - 1) : Faltan(s)[m] = Faltan(t)[m]
    BY <2>1, LeftOfPrefix
  <2>3. ASSUME NEW j \in 1..(k - 1) PROVE Espera(s, j, k) <=> Espera(t, j, k)
    <3>1. j - 1 \in 0..(k - 1) /\ \A m \in j..(k - 1) : m \in 0..(k - 1)
      BY <2>1
    <3>2. Faltan(s)[j - 1] = Faltan(t)[j - 1] /\ \A m \in j..(k - 1) : Faltan(s)[m] = Faltan(t)[m]
      BY <2>2, <3>1
    <3>3. s[j] = t[j]
      OBVIOUS
    <3> QED BY <3>2, <3>3 DEF Espera
  <2>4. {m \in 1..(k - 1) : Espera(s, m, k)} = {m \in 1..(k - 1) : Espera(t, m, k)}
    BY <2>3
  <2> QED BY <2>4 DEF PadreDe
<1> QED BY <1>1, <1>2

(* What is left to read: r more blocks, after one that has been read so far; *)
(* nothing, after a whole one.                                               *)
Abierto(s, r) ==
    /\ s \in Seq(Registros) /\ Len(s) >= 1
    /\ Faltan(s)[Len(s)] = r
    /\ \A m \in 1..(Len(s) - 1) : Faltan(s)[m] >= r + 1

(* A whole block after what has been read is one more child of the first     *)
(* record, and keeps its own parents.                                        *)
Sigue(u, G, D, N, r) ==
    /\ u \in Seq(Registros) /\ Len(u) = N + Len(D)
    /\ \A k \in 1..N : u[k] = G[k]
    /\ \A k \in 1..Len(D) : u[N + k] = D[k]
    /\ \A m \in 0..N : Faltan(u)[m] = Faltan(G)[m]
    /\ \A m \in 0..Len(D) : Faltan(u)[N + m] = r + Faltan(D)[m] - 1
    /\ Abierto(u, r - 1)

LEMMA BlockCount ==
    ASSUME NEW G, NEW D, NEW r \in Nat \ {0}, Abierto(G, r), Abierto(D, 0),
           NEW u, u = G \o D, NEW N, N = Len(G)
    PROVE  Sigue(u, G, D, N, r)
<1>0. /\ G \in Seq(Registros) /\ D \in Seq(Registros) /\ N \in Nat /\ Len(D) \in Nat
      /\ N >= 1 /\ Len(D) >= 1 /\ Faltan(G)[N] = r /\ Faltan(D)[Len(D)] = 0
      /\ \A m \in 1..(N - 1) : Faltan(G)[m] >= r + 1
      /\ \A m \in 1..(Len(D) - 1) : Faltan(D)[m] >= 1
  BY DEF Abierto
<1>1. /\ u \in Seq(Registros) /\ Len(u) = N + Len(D)
      /\ \A k \in 1..(N + Len(D)) : u[k] = IF k <= N THEN G[k] ELSE D[k - N]
  BY <1>0, ConcatProperties
<1>2. \A k \in 1..N : u[k] = G[k]
  BY <1>0, <1>1
<1>3. ASSUME NEW k \in 1..Len(D) PROVE u[N + k] = D[k]
  <2>1. N + k \in 1..(N + Len(D)) /\ ~(N + k <= N) /\ (N + k) - N = k
    BY <1>0
  <2> QED BY <1>1, <2>1
<1>4. \A m \in 0..N : Faltan(u)[m] = Faltan(G)[m]
  <2>1. N <= Len(u) /\ N <= Len(G) /\ \A k \in 1..N : G[k] = u[k]
    BY <1>0, <1>1, <1>2
  <2>2. \A m \in 0..N : Faltan(G)[m] = Faltan(u)[m]
    <3>1. G \in Seq(Registros) /\ u \in Seq(Registros) /\ N \in Nat
      BY <1>0, <1>1
    <3> QED BY <3>1, <2>1, LeftOfPrefix, Zenon
  <2> QED BY <2>2
<1>5. \A m \in 0..Len(D) : Faltan(u)[N + m] = r + Faltan(D)[m] - 1
  BY <1>0, LeftOfBlock
<1>6. Abierto(u, r - 1)
  <2>1. Faltan(u)[Len(u)] = r - 1
    <3>1. Len(D) \in 0..Len(D)
      BY <1>0
    <3> QED BY <1>0, <1>1, <1>5, <3>1
  <2>2. ASSUME NEW m \in 1..(Len(u) - 1) PROVE Faltan(u)[m] >= r
    <3>1. CASE m <= N
      <4>1. m \in 0..N /\ (m # N => m \in 1..(N - 1))
        BY <1>0, <1>1, <3>1
      <4>2. CASE m = N
        BY <1>0, <1>4, <4>1, <4>2
      <4>3. CASE m # N
        <5>1. Faltan(G)[m] >= r + 1 /\ Faltan(G)[m] \in Int
          BY <1>0, <4>1, <4>3, LeftToRead
        <5> QED BY <5>1, <1>4, <4>1
      <4> QED BY <4>2, <4>3
    <3>2. CASE m > N
      <4>0. PICK k \in 1..(Len(D) - 1) : m = N + k
        <5>1. m - N \in 1..(Len(D) - 1) /\ m = N + (m - N)
          BY <1>0, <1>1, <3>2
        <5> QED BY <5>1
      <4>1. k \in 0..Len(D)
        BY <1>0
      <4>2. Faltan(u)[N + k] = r + Faltan(D)[k] - 1 /\ Faltan(D)[k] >= 1 /\ Faltan(D)[k] \in Int
        BY <1>0, <1>5, <4>1, LeftToRead
      <4> QED BY <4>0, <4>2
    <3> QED BY <1>0, <1>1, <3>1, <3>2
  <2>3. \A m \in 1..(Len(u) - 1) : Faltan(u)[m] >= (r - 1) + 1
    BY <2>2
  <2>4. Len(u) >= 1
    BY <1>0, <1>1
  <2> QED BY <1>1, <2>1, <2>3, <2>4 DEF Abierto
<1> QED BY <1>1, <1>2, <1>3, <1>4, <1>5, <1>6 DEF Sigue

HeredaPadres(u, G, D, N) ==
    /\ \A k \in 2..N : PadreDe(u, k) = PadreDe(G, k)
    /\ PadreDe(u, N + 1) = 1
    /\ \A k \in 2..Len(D) : PadreDe(u, N + k) = N + PadreDe(D, k)
    /\ \A k \in 2..Len(D) : PadreDe(D, k) \in 1..(k - 1)

LEMMA BlockParents ==
    ASSUME NEW G, NEW D, NEW r \in Nat \ {0}, Abierto(G, r), Abierto(D, 0),
           NEW u, u = G \o D, NEW N, N = Len(G)
    PROVE  HeredaPadres(u, G, D, N)
<1>0. /\ G \in Seq(Registros) /\ N = Len(G) /\ D \in Seq(Registros) /\ N \in Nat /\ Len(D) \in Nat
      /\ N >= 1 /\ Len(D) >= 1 /\ Faltan(G)[N] = r /\ Faltan(D)[Len(D)] = 0
      /\ \A m \in 1..(N - 1) : Faltan(G)[m] >= r + 1
      /\ \A m \in 1..(Len(D) - 1) : Faltan(D)[m] >= 1
  BY DEF Abierto
<1>1. /\ u \in Seq(Registros) /\ Len(u) = N + Len(D)
      /\ \A k \in 1..N : u[k] = G[k]
      /\ \A k \in 1..Len(D) : u[N + k] = D[k]
      /\ \A m \in 0..N : Faltan(u)[m] = Faltan(G)[m]
      /\ \A m \in 0..Len(D) : Faltan(u)[N + m] = r + Faltan(D)[m] - 1
  <2>1. Sigue(u, G, D, N, r)
    BY BlockCount
  <2> QED BY <2>1 DEF Sigue
<1>2. ASSUME NEW k \in 2..N PROVE PadreDe(u, k) = PadreDe(G, k)
  <2>1. k \in Nat /\ k - 1 <= N /\ k - 1 <= Len(u) /\ \A m \in 1..(k - 1) : u[m] = G[m]
    BY <1>0, <1>1
  <2> QED BY <1>0, <1>1, <2>1, ParentOfPrefix
<1>3. PadreDe(u, N + 1) = 1
  <2>1. /\ \A m \in 1..N : Faltan(u)[m] >= 1
        /\ Faltan(u)[0] = 1 /\ Faltan(u)[N] = r
        /\ \A m \in 1..(N - 1) : Faltan(u)[m] >= r + 1
        /\ \A m \in 0..N : Faltan(u)[m] \in Int
    <3>1. \A m \in 0..N : Faltan(u)[m] = Faltan(G)[m] /\ Faltan(G)[m] \in Int
      BY <1>0, <1>1, LeftToRead
    <3>2. ASSUME NEW m \in 1..(N - 1) PROVE Faltan(u)[m] >= r + 1
      <4>1. m \in 0..N
        OBVIOUS
      <4> QED BY <1>0, <3>1, <4>1
    <3>3. Faltan(u)[N] = r
      <4>1. N \in 0..N
        OBVIOUS
      <4> QED BY <1>0, <3>1, <4>1
    <3>4. ASSUME NEW m \in 1..N PROVE Faltan(u)[m] >= 1
      <4>1. m \in 0..N /\ (m = N \/ m \in 1..(N - 1))
        OBVIOUS
      <4> QED BY <3>1, <3>2, <3>3, <4>1
    <3>5. Faltan(u)[0] = 1
      BY <1>1, LeftToRead
    <3> QED BY <3>1, <3>2, <3>3, <3>4, <3>5
  <2>2. Espera(u, 1, N + 1)
    <3>1. 1 \in 1..Len(u) /\ 1 - 1 = 0 /\ 1 \in 1..N
      BY <1>0, <1>1
    <3>2. Faltan(u)[1] = Faltan(u)[1 - 1] + u[1].cantidad_hijos - 1
      BY <1>1, <3>1, LeftToRead, Zenon
    <3>3. u[1] \in Registros
      BY <1>1, <3>1
    <3>4. u[1].cantidad_hijos > 0
      BY <2>1, <3>1, <3>2, <3>3 DEF Registros
    <3>5. \A m \in 1..((N + 1) - 1) : Faltan(u)[m] >= Faltan(u)[1 - 1]
      BY <2>1, <3>1
    <3> QED BY <3>4, <3>5 DEF Espera
  <2>3. ASSUME NEW j \in 2..N PROVE ~Espera(u, j, N + 1)
    <3>1. j - 1 \in 1..(N - 1) /\ N \in j..((N + 1) - 1) /\ j - 1 \in 0..N
      OBVIOUS
    <3>2. Faltan(u)[j - 1] >= r + 1 /\ Faltan(u)[N] = r /\ Faltan(u)[j - 1] \in Int
      BY <2>1, <3>1
    <3>3. ~(Faltan(u)[N] >= Faltan(u)[j - 1])
      BY <3>2
    <3> QED BY <3>1, <3>3 DEF Espera
  <2>4. EsPadre(u, 1, N + 1)
    <3>1. 1 \in 1..((N + 1) - 1) /\ (1 + 1)..((N + 1) - 1) = 2..N
      BY <1>0
    <3> QED BY <2>2, <2>3, <3>1 DEF EsPadre
  <2>5. N + 1 \in Nat
    OBVIOUS
  <2> QED BY <2>4, <2>5, ParentIs
<1>4. ASSUME NEW k \in 2..Len(D)
      PROVE  PadreDe(u, N + k) = N + PadreDe(D, k) /\ PadreDe(D, k) \in 1..(k - 1)
  <2> PICK p : p = PadreDe(D, k)
    OBVIOUS
  <2>1. EsPadre(D, p, k)
    <3>1. \A m \in 1..(k - 1) : Faltan(D)[m] >= 1
      BY <1>0
    <3> QED BY <1>0, <3>1, ParentThere
  <2>2. p \in 1..(k - 1) /\ k \in Nat /\ k - 1 \in Nat
    BY <2>1 DEF EsPadre
  <2>3. \A m \in 0..(k - 1) : Faltan(u)[N + m] = r + Faltan(D)[m] - 1 /\ Faltan(D)[m] \in Int
    <3>1. \A m \in 0..(k - 1) : m \in 0..Len(D)
      OBVIOUS
    <3> QED BY <1>0, <1>1, <3>1, LeftToRead
  <2>4. ASSUME NEW j \in 1..(k - 1) PROVE Espera(u, N + j, N + k) <=> Espera(D, j, k)
    <3>1. u[N + j] = D[j]
      BY <1>1
    <3>2. (N + j) - 1 = N + (j - 1) /\ j - 1 \in 0..(k - 1)
      OBVIOUS
    <3>3. ASSUME NEW m \in j..(k - 1)
          PROVE  Faltan(u)[N + m] >= Faltan(u)[(N + j) - 1] <=> Faltan(D)[m] >= Faltan(D)[j - 1]
      <4>1. m \in 0..(k - 1)
        OBVIOUS
      <4>2. /\ Faltan(u)[N + m] = r + Faltan(D)[m] - 1 /\ Faltan(D)[m] \in Int
            /\ Faltan(u)[(N + j) - 1] = r + Faltan(D)[j - 1] - 1 /\ Faltan(D)[j - 1] \in Int
        BY <2>3, <3>2, <4>1
      <4> QED BY <4>2, SMTT(20)
    <3>4. \A m \in (N + j)..((N + k) - 1) : m - N \in j..(k - 1) /\ m = N + (m - N)
      BY <2>2
    <3>5. \A m \in j..(k - 1) : N + m \in (N + j)..((N + k) - 1)
      BY <2>2
    <3>6. (\A m \in (N + j)..((N + k) - 1) : Faltan(u)[m] >= Faltan(u)[(N + j) - 1])
            <=> (\A m \in j..(k - 1) : Faltan(D)[m] >= Faltan(D)[j - 1])
      BY <3>3, <3>4, <3>5
    <3> QED BY <3>1, <3>6 DEF Espera
  <2>5. EsPadre(u, N + p, N + k)
    <3>1. N + p \in 1..((N + k) - 1)
      BY <2>2
    <3>2. Espera(u, N + p, N + k)
      BY <2>1, <2>2, <2>4 DEF EsPadre
    <3>3. ASSUME NEW m \in ((N + p) + 1)..((N + k) - 1) PROVE ~Espera(u, m, N + k)
      <4>1. PICK j \in (p + 1)..(k - 1) : m = N + j
        <5>1. m - N \in (p + 1)..(k - 1) /\ m = N + (m - N)
          BY <2>2
        <5> QED BY <5>1
      <4>2. j \in 1..(k - 1) /\ ~Espera(D, j, k)
        BY <2>1, <2>2 DEF EsPadre
      <4> QED BY <2>4, <4>1, <4>2
    <3> QED BY <3>1, <3>2, <3>3 DEF EsPadre
  <2>6. N + k \in Nat
    OBVIOUS
  <2> QED BY <2>2, <2>5, <2>6, ParentIs
<1> QED BY <1>2, <1>3, <1>4 DEF HeredaPadres

-----------------------------------------------------------------------------
(* The dump of the heap.  phi says of which inode each record is.            *)
Imagen(G, phi, i) ==
    /\ phi \in [1..Len(G) -> DOMAIN inodo] /\ phi[1] = i
    /\ \A k \in 1..Len(G) : G[k] = Registro(phi[k])
    /\ \A k \in 2..Len(G) : /\ PadreDe(G, k) \in 1..(k - 1)
                            /\ phi[k] \in ToSet(inodo[phi[PadreDe(G, k)]].hijos)
    /\ \A l \in 2..Len(G) : \A k \in 2..(l - 1) :
          PadreDe(G, k) = PadreDe(G, l) => phi[k] # phi[l]

(* The children of the record j are in it, from its place a on.              *)
Llenos(G, phi, a) ==
    \A j \in a..Len(G) : \A h \in ToSet(inodo[phi[j]].hijos) :
        \E k \in 2..Len(G) : PadreDe(G, k) = j /\ phi[k] = h

Primeros(G, phi, n, i) ==
    /\ \A t \in 1..n : \E k \in 2..Len(G) : PadreDe(G, k) = 1 /\ phi[k] = inodo[i].hijos[t]
    /\ \A k \in 2..Len(G) : PadreDe(G, k) = 1 => \E t \in 1..n : phi[k] = inodo[i].hijos[t]

(* A dump with the first n children of i, and a whole one.                   *)
Parcial(G, phi, n, i) ==
    /\ Abierto(G, Len(inodo[i].hijos) - n)
    /\ Imagen(G, phi, i) /\ Llenos(G, phi, 2) /\ Primeros(G, phi, n, i)
Completo(G, phi, i) == Abierto(G, 0) /\ Imagen(G, phi, i) /\ Llenos(G, phi, 1)

LEMMA ChildrenOnce ==
    ASSUME ArbolInv, NEW i \in DOMAIN inodo
    PROVE  /\ inodo[i].hijos \in Seq(Inodes) /\ Len(inodo[i].hijos) \in Nat
           /\ \A s, t \in 1..Len(inodo[i].hijos) : inodo[i].hijos[s] = inodo[i].hijos[t] => s = t
           /\ \A t \in 1..Len(inodo[i].hijos) :
                 inodo[i].hijos[t] \in DOMAIN inodo /\ inodo[i].hijos[t] \in ToSet(inodo[i].hijos)
<1>1. inodo[i].hijos \in Seq(Inodes)
  BY DEF ArbolInv, MontonOK, Nodo
<1>2. DOMAIN inodo[i].hijos = 1..Len(inodo[i].hijos) /\ Len(inodo[i].hijos) \in Nat
  BY <1>1
<1>3. \A s, t \in DOMAIN inodo[i].hijos : inodo[i].hijos[s] = inodo[i].hijos[t] => s = t
  BY Zenon DEF ArbolInv, UnSoloLugar
<1>4. ToSet(inodo[i].hijos) \subseteq DOMAIN inodo
  BY HeapIsSane DEF NodosSanos
<1>5. \A t \in DOMAIN inodo[i].hijos : inodo[i].hijos[t] \in ToSet(inodo[i].hijos)
  BY Zenon DEF ToSet
<1> QED BY <1>1, <1>2, <1>3, <1>4, <1>5

Unidas(chi, phi, psi, N, M) ==
    /\ chi = [k \in 1..(N + M) |-> chi[k]]
    /\ \A k \in 1..N : chi[k] = phi[k]
    /\ \A k \in 1..M : chi[N + k] = psi[k]

LEMMA ImagesJoin ==
    ASSUME NEW phi, NEW psi, NEW N \in Nat, NEW M \in Nat
    PROVE  \E chi : Unidas(chi, phi, psi, N, M)
<1> DEFINE chi == [k \in 1..(N + M) |-> IF k <= N THEN phi[k] ELSE psi[k - N]]
<1>1. chi = [k \in 1..(N + M) |-> chi[k]]
  OBVIOUS
<1>2. \A k \in 1..N : chi[k] = phi[k]
  OBVIOUS
<1>3. ASSUME NEW k \in 1..M PROVE chi[N + k] = psi[k]
  <2>1. N + k \in 1..(N + M) /\ ~(N + k <= N) /\ (N + k) - N = k
    OBVIOUS
  <2> QED BY <2>1
<1> HIDE DEF chi
<1>4. Unidas(chi, phi, psi, N, M)
  BY <1>1, <1>2, <1>3 DEF Unidas
<1> QED BY <1>4

(* A record of what was there, the first of the block or another of it.      *)
LEMMA WhereInBlock ==
    ASSUME NEW N \in Nat, NEW M \in Nat, NEW k \in 2..(N + M)
    PROVE  k \in 2..N \/ k = N + 1 \/ \E m \in 2..M : k = N + m
<1>1. CASE k > N + 1
  <2>1. k - N \in 2..M /\ k = N + (k - N)
    BY <1>1
  <2> QED BY <2>1
<1> QED BY <1>1

LEMMA BlockAdds ==
    ASSUME ArbolInv, NEW i \in DOMAIN inodo, NEW n \in Nat, n < Len(inodo[i].hijos),
           NEW h, h = inodo[i].hijos[n + 1],
           NEW G, NEW phi, Parcial(G, phi, n, i), NEW D, NEW psi, Completo(D, psi, h),
           NEW u, u = G \o D
    PROVE  \E chi : Parcial(u, chi, n + 1, i)
<1>0. PICK r : r = Len(inodo[i].hijos) - n
  OBVIOUS
<1>1. r \in Nat \ {0} /\ r - 1 = Len(inodo[i].hijos) - (n + 1)
  BY <1>0, ChildrenOnce
<1>2. Abierto(G, r) /\ Abierto(D, 0)
  BY <1>0 DEF Parcial, Completo
<1>3. PICK N \in Nat : N = Len(G)
  BY <1>2 DEF Abierto
<1>4. PICK M \in Nat : M = Len(D)
  BY <1>2 DEF Abierto
<1>5. /\ u \in Seq(Registros) /\ Len(u) = N + M /\ N >= 1 /\ M >= 1
      /\ \A k \in 1..N : u[k] = G[k]
      /\ \A k \in 1..M : u[N + k] = D[k]
      /\ Abierto(u, r - 1)
  <2>1. Sigue(u, G, D, N, r)
    BY <1>1, <1>2, <1>3, BlockCount
  <2> QED BY <2>1, <1>2, <1>3, <1>4 DEF Sigue, Abierto
<1>6. /\ \A k \in 2..N : PadreDe(u, k) = PadreDe(G, k)
      /\ PadreDe(u, N + 1) = 1
      /\ \A k \in 2..M : PadreDe(u, N + k) = N + PadreDe(D, k)
      /\ \A k \in 2..M : PadreDe(D, k) \in 1..(k - 1)
  <2>1. HeredaPadres(u, G, D, N)
    BY <1>1, <1>2, <1>3, BlockParents
  <2> QED BY <2>1, <1>4 DEF HeredaPadres
<1>7. /\ phi \in [1..N -> DOMAIN inodo] /\ phi[1] = i
      /\ \A k \in 1..N : G[k] = Registro(phi[k])
      /\ \A k \in 2..N : /\ PadreDe(G, k) \in 1..(k - 1)
                         /\ phi[k] \in ToSet(inodo[phi[PadreDe(G, k)]].hijos)
      /\ \A l \in 2..N : \A k \in 2..(l - 1) : PadreDe(G, k) = PadreDe(G, l) => phi[k] # phi[l]
  BY <1>3 DEF Parcial, Imagen
<1>8. /\ psi \in [1..M -> DOMAIN inodo] /\ psi[1] = h
      /\ \A k \in 1..M : D[k] = Registro(psi[k])
      /\ \A k \in 2..M : psi[k] \in ToSet(inodo[psi[PadreDe(D, k)]].hijos)
      /\ \A l \in 2..M : \A k \in 2..(l - 1) : PadreDe(D, k) = PadreDe(D, l) => psi[k] # psi[l]
  BY <1>4 DEF Completo, Imagen
<1>9. PICK chi : Unidas(chi, phi, psi, N, M)
  BY ImagesJoin
<1>10. /\ chi = [k \in 1..(N + M) |-> chi[k]]
       /\ \A k \in 1..N : chi[k] = phi[k]
       /\ \A k \in 1..M : chi[N + k] = psi[k]
       /\ chi[1] = i /\ chi[N + 1] = h
  <2>1. /\ chi = [k \in 1..(N + M) |-> chi[k]]
        /\ \A k \in 1..N : chi[k] = phi[k]
        /\ \A k \in 1..M : chi[N + k] = psi[k]
    BY <1>9 DEF Unidas
  <2>2. 1 \in 1..N /\ 1 \in 1..M
    BY <1>5
  <2>3. chi[1] = phi[1] /\ chi[N + 1] = psi[1]
    BY <2>1, <2>2
  <2> QED BY <2>1, <2>3, <1>7, <1>8
<1>11. n + 1 \in 1..Len(inodo[i].hijos) /\ h \in ToSet(inodo[i].hijos) /\ h \in DOMAIN inodo
  BY ChildrenOnce
<1>12. ASSUME NEW k \in 1..(N + M)
       PROVE  chi[k] \in DOMAIN inodo /\ u[k] = Registro(chi[k])
  <2>1. CASE k \in 1..N
    BY <2>1, <1>5, <1>7, <1>10
  <2>2. CASE k \notin 1..N
    <3>1. PICK m \in 1..M : k = N + m
      <4>1. k - N \in 1..M /\ k = N + (k - N)
        BY <2>2
      <4> QED BY <4>1
    <3>2. chi[k] = psi[m] /\ u[k] = D[m]
      BY <3>1, <1>5, <1>10
    <3>3. psi[m] \in DOMAIN inodo /\ D[m] = Registro(psi[m])
      BY <1>8
    <3> QED BY <3>2, <3>3
  <2> QED BY <2>1, <2>2
<1>13. ASSUME NEW k \in 2..(N + M)
       PROVE  /\ PadreDe(u, k) \in 1..(k - 1)
              /\ chi[k] \in ToSet(inodo[chi[PadreDe(u, k)]].hijos)
  <2>1. CASE k \in 2..N
    <3>0. PadreDe(G, k) \in 1..(k - 1)
      BY <2>1, <1>7
    <3>1. k \in 1..N /\ PadreDe(G, k) \in 1..(k - 1) /\ PadreDe(G, k) \in 1..N
      BY <2>1, <3>0
    <3>2. PadreDe(u, k) = PadreDe(G, k)
      BY <2>1, <1>6
    <3>3. chi[k] = phi[k] /\ chi[PadreDe(G, k)] = phi[PadreDe(G, k)]
      BY <3>1, <1>10
    <3>4. phi[k] \in ToSet(inodo[phi[PadreDe(G, k)]].hijos)
      BY <2>1, <1>7
    <3> QED BY <3>0, <3>2, <3>3, <3>4
  <2>2. CASE k = N + 1
    BY <2>2, <1>5, <1>6, <1>10, <1>11
  <2>3. CASE \E m \in 2..M : k = N + m
    <3>1. PICK m \in 2..M : k = N + m
      BY <2>3
    <3>2. /\ PadreDe(u, k) = N + PadreDe(D, m) /\ PadreDe(D, m) \in 1..(m - 1)
          /\ PadreDe(D, m) \in 1..M /\ m \in 1..M
      BY <3>1, <1>6
    <3>3. chi[k] = psi[m] /\ chi[PadreDe(u, k)] = psi[PadreDe(D, m)]
      BY <3>1, <3>2, <1>10
    <3>4. PadreDe(u, k) \in 1..(k - 1)
      BY <3>1, <3>2
    <3> QED BY <3>3, <3>4, <1>8
  <2> QED BY <2>1, <2>2, <2>3, WhereInBlock
<1>14. ASSUME NEW k \in 2..(N + M), PadreDe(u, k) = 1
       PROVE  \/ k \in 2..N /\ \E t \in 1..n : chi[k] = inodo[i].hijos[t]
              \/ k = N + 1
  <2>1. CASE k \in 2..N
    <3>0. k \in 1..N
      BY <2>1
    <3>1. PadreDe(G, k) = 1 /\ chi[k] = phi[k]
      BY <2>1, <3>0, <1>6, <1>10, <1>14
    <3>2. \E t \in 1..n : phi[k] = inodo[i].hijos[t]
      BY <2>1, <3>1, <1>3 DEF Parcial, Primeros
    <3> QED BY <2>1, <3>1, <3>2
  <2>2. CASE \E m \in 2..M : k = N + m
    <3>1. PICK m \in 2..M : k = N + m
      BY <2>2
    <3>2. PadreDe(u, k) = N + PadreDe(D, m) /\ PadreDe(D, m) \in 1..(m - 1)
      BY <3>1, <1>6
    <3> QED BY <3>2, <1>5, <1>14
  <2> QED BY <2>1, <2>2, WhereInBlock
<1>15. ASSUME NEW l \in 2..(N + M), NEW k \in 2..(l - 1), PadreDe(u, k) = PadreDe(u, l),
              chi[k] = chi[l]
       PROVE  FALSE
  <2>0. k \in 2..(N + M)
    OBVIOUS
  <2>1. CASE l \in 2..N
    <3>1. k \in 2..N /\ k \in 1..N /\ l \in 1..N
      BY <2>1
    <3>2. PadreDe(G, k) = PadreDe(G, l) /\ phi[k] = phi[l]
      BY <2>1, <3>1, <1>6, <1>10, <1>15
    <3> QED BY <2>1, <3>2, <1>7
  <2>2. CASE l = N + 1
    <3>1. PadreDe(u, k) = 1 /\ k # N + 1
      BY <2>2, <1>6, <1>15
    <3>2. PICK t \in 1..n : chi[k] = inodo[i].hijos[t]
      BY <2>0, <3>1, <1>14
    <3>3. inodo[i].hijos[t] = inodo[i].hijos[n + 1]
      BY <2>2, <3>2, <1>10, <1>15
    <3>4. t \in 1..Len(inodo[i].hijos) /\ t # n + 1
      BY ChildrenOnce
    <3> QED BY <3>3, <3>4, <1>11, ChildrenOnce
  <2>3. CASE \E m \in 2..M : l = N + m
    <3>1. PICK m \in 2..M : l = N + m
      BY <2>3
    <3>2. PadreDe(u, l) = N + PadreDe(D, m) /\ PadreDe(D, m) \in 1..(m - 1)
      BY <3>1, <1>6
    <3>3. CASE k \in 2..N
      <4>1. PadreDe(u, k) \in 1..(k - 1)
        BY <2>0, <1>13
      <4> QED BY <3>2, <3>3, <4>1, <1>15
    <3>4. CASE k = N + 1
      BY <3>2, <3>4, <1>5, <1>6, <1>15
    <3>5. CASE \E q \in 2..M : k = N + q
      <4>1. PICK q \in 2..M : k = N + q
        BY <3>5
      <4>2. /\ PadreDe(u, k) = N + PadreDe(D, q) /\ PadreDe(D, q) \in 1..(q - 1)
            /\ q \in 2..(m - 1) /\ q \in 1..M /\ m \in 1..M
        BY <3>1, <4>1, <1>6
      <4>3. PadreDe(D, q) = PadreDe(D, m)
        BY <3>2, <4>2, <1>15
      <4>4. psi[q] = psi[m]
        BY <3>1, <4>1, <4>2, <1>10, <1>15
      <4> QED BY <4>2, <4>3, <4>4, <1>8
    <3> QED BY <2>0, <3>3, <3>4, <3>5, WhereInBlock
  <2> QED BY <2>1, <2>2, <2>3, WhereInBlock
<1>16. Imagen(u, chi, i)
  <2>1. chi \in [1..(N + M) -> DOMAIN inodo]
    BY <1>10, <1>12
  <2> QED BY <2>1, <1>5, <1>10, <1>12, <1>13, <1>15 DEF Imagen
<1>17. ASSUME NEW j \in 2..(N + M), NEW g \in ToSet(inodo[chi[j]].hijos)
       PROVE  \E k \in 2..(N + M) : PadreDe(u, k) = j /\ chi[k] = g
  <2>1. CASE j \in 2..N
    <3>0. j \in 1..N
      BY <2>1
    <3>1. g \in ToSet(inodo[phi[j]].hijos)
      BY <3>0, <1>10
    <3>2. PICK k \in 2..N : PadreDe(G, k) = j /\ phi[k] = g
      BY <2>1, <3>1, <1>3 DEF Parcial, Llenos
    <3>3. k \in 2..(N + M) /\ k \in 1..N
      OBVIOUS
    <3>4. PadreDe(u, k) = j /\ chi[k] = g
      BY <3>2, <3>3, <1>6, <1>10
    <3> QED BY <3>3, <3>4
  <2>2. CASE j \notin 2..N
    <3>1. PICK m \in 1..M : j = N + m
      <4>1. j - N \in 1..M /\ j = N + (j - N)
        BY <2>2
      <4> QED BY <4>1
    <3>2. g \in ToSet(inodo[psi[m]].hijos)
      BY <3>1, <1>10
    <3>3. PICK k \in 2..M : PadreDe(D, k) = m /\ psi[k] = g
      BY <3>1, <3>2, <1>4 DEF Completo, Llenos
    <3>4. N + k \in 2..(N + M) /\ k \in 1..M
      OBVIOUS
    <3>5. PadreDe(u, N + k) = N + PadreDe(D, k) /\ chi[N + k] = psi[k]
      BY <3>4, <1>6, <1>10
    <3> QED BY <3>1, <3>3, <3>4, <3>5
  <2> QED BY <2>1, <2>2
<1>18. Llenos(u, chi, 2)
  <2>1. Len(u) = N + M
    BY <1>5
  <2> QED BY <2>1, <1>17 DEF Llenos
<1>19. ASSUME NEW t \in 1..(n + 1)
       PROVE  \E k \in 2..(N + M) : PadreDe(u, k) = 1 /\ chi[k] = inodo[i].hijos[t]
  <2>1. CASE t = n + 1
    <3>1. N + 1 \in 2..(N + M)
      BY <1>5
    <3> QED BY <2>1, <3>1, <1>6, <1>10
  <2>2. CASE t # n + 1
    <3>1. t \in 1..n
      BY <2>2
    <3>2. PICK k \in 2..N : PadreDe(G, k) = 1 /\ phi[k] = inodo[i].hijos[t]
      BY <3>1, <1>3 DEF Parcial, Primeros
    <3>3. k \in 2..(N + M) /\ k \in 1..N
      OBVIOUS
    <3>4. PadreDe(u, k) = 1 /\ chi[k] = inodo[i].hijos[t]
      BY <3>2, <3>3, <1>6, <1>10
    <3> QED BY <3>3, <3>4
  <2> QED BY <2>1, <2>2
<1>20. ASSUME NEW k \in 2..(N + M), PadreDe(u, k) = 1
       PROVE  \E t \in 1..(n + 1) : chi[k] = inodo[i].hijos[t]
  <2>1. \A t \in 1..n : t \in 1..(n + 1)
    OBVIOUS
  <2>2. n + 1 \in 1..(n + 1)
    OBVIOUS
  <2> QED BY <2>1, <2>2, <1>10, <1>14, <1>20
<1>21. Primeros(u, chi, n + 1, i)
  BY <1>5, <1>19, <1>20 DEF Primeros
<1>22. Parcial(u, chi, n + 1, i)
  BY <1>1, <1>5, <1>16, <1>18, <1>21 DEF Parcial
<1> QED BY <1>22

(* FlattenSeq() puts one after the other.                                    *)
EsAplanado(f, ss, n) ==
    /\ f = [k \in 1..n |-> f[k]]
    /\ \A k \in 1..n : f[k] = IF k = 1 THEN ss[k] ELSE f[k - 1] \o ss[k]

LEMMA FlatDefined ==
    ASSUME NEW ss, NEW n \in Nat
    PROVE  \E f : EsAplanado(f, ss, n)
<1> DEFINE S == {k \in Nat : \E f : EsAplanado(f, ss, k)}
<1>1. 0 \in S
  <2> DEFINE f == [k \in 1..0 |-> ss]
  <2>1. EsAplanado(f, ss, 0)
    BY DEF EsAplanado
  <2> QED BY <2>1, Zenon
<1>2. ASSUME NEW k \in Nat, k \in S PROVE k + 1 \in S
  <2>1. PICK f : EsAplanado(f, ss, k)
    BY <1>2
  <2>2. \E g : EsAplanado(g, ss, k + 1)
    <3>0. PICK x : x = IF k + 1 = 1 THEN ss[k + 1] ELSE f[k] \o ss[k + 1]
      OBVIOUS
    <3> DEFINE g == [j \in 1..(k + 1) |-> IF j = k + 1 THEN x ELSE f[j]]
    <3>1. \A j \in 1..k : g[j] = f[j]
      OBVIOUS
    <3>2. g[k + 1] = x /\ g = [j \in 1..(k + 1) |-> g[j]]
      OBVIOUS
    <3> HIDE DEF g
    <3>3. ASSUME NEW j \in 1..(k + 1)
          PROVE  g[j] = IF j = 1 THEN ss[j] ELSE g[j - 1] \o ss[j]
      <4>1. CASE j = k + 1
        <5>1. CASE j = 1
          BY <3>0, <3>2, <4>1, <5>1
        <5>2. CASE j # 1
          <6>1. j - 1 = k /\ k \in 1..k
            BY <4>1, <5>2
          <6>2. g[j - 1] = f[k]
            BY <3>1, <6>1
          <6>3. g[j] = f[k] \o ss[k + 1]
            BY <3>0, <3>2, <4>1, <5>2
          <6> QED BY <4>1, <5>2, <6>2, <6>3, Zenon
        <5> QED BY <5>1, <5>2
      <4>2. CASE j # k + 1
        <5>1. j \in 1..k /\ (j # 1 => j - 1 \in 1..k)
          BY <4>2
        <5>2. f[j] = IF j = 1 THEN ss[j] ELSE f[j - 1] \o ss[j]
          BY <2>1, <5>1, Zenon DEF EsAplanado
        <5>3. g[j] = f[j] /\ (j # 1 => g[j - 1] = f[j - 1])
          BY <3>1, <5>1
        <5> QED BY <5>2, <5>3, Zenon
      <4> QED BY <4>1, <4>2
    <3>4. EsAplanado(g, ss, k + 1)
      BY <3>2, <3>3, Zenon DEF EsAplanado
    <3> QED BY <3>4
  <2> QED BY <2>2
<1>3. Nat \subseteq S
  <2> HIDE DEF S
  <2> QED BY <1>1, <1>2, Induction
<1> QED BY <1>3

LEMMA FlatIsRead ==
    ASSUME NEW ss, NEW n \in Nat \ {0}, Len(ss) = n
    PROVE  \E f : EsAplanado(f, ss, n) /\ FlattenSeq(ss) = f[n]
<1>1. \E g : g = [k \in 1..n |-> IF k = 1 THEN ss[k] ELSE g[k - 1] \o ss[k]]
  <2>1. PICK g : EsAplanado(g, ss, n)
    BY FlatDefined
  <2>2. g = [k \in 1..n |-> IF k = 1 THEN ss[k] ELSE g[k - 1] \o ss[k]]
    BY <2>1, Zenon DEF EsAplanado
  <2> QED BY <2>2, Zenon
<1> DEFINE f[k \in 1..n] == IF k = 1 THEN ss[k] ELSE f[k - 1] \o ss[k]
<1>2. FlattenSeq(ss) = f[n]
  <2>1. ~(Len(ss) = 0) /\ Len(ss) = n
    OBVIOUS
  <2> QED BY <2>1, Zenon DEF FlattenSeq
<1>3. f = [k \in 1..n |-> IF k = 1 THEN ss[k] ELSE f[k - 1] \o ss[k]]
  BY <1>1, Zenon
<1> HIDE DEF f
<1>4. \A k \in 1..n : f[k] = IF k = 1 THEN ss[k] ELSE f[k - 1] \o ss[k]
  BY <1>3, Zenon
<1>5. f = [k \in 1..n |-> f[k]]
  BY <1>3, <1>4, Zenon
<1>6. EsAplanado(f, ss, n)
  BY <1>4, <1>5, Zenon DEF EsAplanado
<1> QED BY <1>2, <1>6, Zenon

(* guardar_inode() writes the inode and then its children, one level less    *)
(* of them.                                                                  *)
ConHijos(i, d, g) ==
    <<Registro(i)>> \o
    (IF d = 0 THEN <<>>
     ELSE FlattenSeq([k \in DOMAIN inodo[i].hijos |-> g[inodo[i].hijos[k]]]))
Nivel(d, g) == [i \in DOMAIN inodo |-> ConHijos(i, d, g)]

EsVolcado(f, n) ==
    /\ f = [d \in 0..n |-> f[d]]
    /\ \A d \in 0..n : f[d] = Nivel(d, f[d - 1])

LEMMA FirstLevel ==
    ASSUME NEW g, NEW h
    PROVE  Nivel(0, g) = Nivel(0, h)
BY DEF Nivel, ConHijos

LEMMA DumpDefined ==
    ASSUME NEW n \in Nat
    PROVE  \E f : EsVolcado(f, n)
<1> DEFINE S == {k \in Nat : \E f : EsVolcado(f, k)}
<1>1. 0 \in S
  <2> DEFINE f == [k \in 0..0 |-> Nivel(0, 0)]
  <2>1. f = [d \in 0..0 |-> f[d]]
    OBVIOUS
  <2>2. ASSUME NEW d \in 0..0 PROVE f[d] = Nivel(d, f[d - 1])
    <3>1. d = 0 /\ f[d] = Nivel(0, 0)
      OBVIOUS
    <3>2. Nivel(0, 0) = Nivel(0, f[d - 1])
      BY FirstLevel
    <3> QED BY <3>1, <3>2
  <2>3. EsVolcado(f, 0)
    <3> HIDE DEF f
    <3> QED BY <2>1, <2>2 DEF EsVolcado
  <2> QED BY <2>3, Zenon
<1>2. ASSUME NEW k \in Nat, k \in S PROVE k + 1 \in S
  <2>1. PICK f : EsVolcado(f, k)
    BY <1>2
  <2>2. \E g : EsVolcado(g, k + 1)
    <3>0. PICK x : x = Nivel(k + 1, f[k])
      OBVIOUS
    <3> DEFINE g == [j \in 0..(k + 1) |-> IF j = k + 1 THEN x ELSE f[j]]
    <3>1. \A j \in 0..k : g[j] = f[j]
      OBVIOUS
    <3>2. g[k + 1] = x /\ g = [j \in 0..(k + 1) |-> g[j]]
      OBVIOUS
    <3> HIDE DEF g
    <3>3. ASSUME NEW j \in 0..(k + 1) PROVE g[j] = Nivel(j, g[j - 1])
      <4>1. CASE j = k + 1
        <5>1. j - 1 = k /\ k \in 0..k
          BY <4>1
        <5>2. g[j - 1] = f[k]
          BY <3>1, <5>1
        <5> QED BY <3>0, <3>2, <4>1, <5>2, Zenon
      <4>2. CASE j # k + 1
        <5>1. j \in 0..k /\ (j # 0 => j - 1 \in 0..k)
          BY <4>2
        <5>2. f[j] = Nivel(j, f[j - 1])
          BY <2>1, <5>1, Zenon DEF EsVolcado
        <5>3. g[j] = f[j] /\ (j # 0 => g[j - 1] = f[j - 1])
          BY <3>1, <5>1
        <5>4. CASE j = 0
          BY <5>2, <5>3, <5>4, FirstLevel, Zenon
        <5> QED BY <5>2, <5>3, <5>4, Zenon
      <4> QED BY <4>1, <4>2
    <3>4. EsVolcado(g, k + 1)
      BY <3>2, <3>3, Zenon DEF EsVolcado
    <3> QED BY <3>4
  <2> QED BY <2>2
<1>3. Nat \subseteq S
  <2> HIDE DEF S
  <2> QED BY <1>1, <1>2, Induction
<1> QED BY <1>3

LEMMA DumpIsRead == EsVolcado(GuardarInode, MaxDepth + 1)
<1>0. MaxDepth + 1 \in Nat
  BY FisopfsAssumption
<1>1. \E g : g = [d \in 0..(MaxDepth + 1) |-> Nivel(d, g[d - 1])]
  <2>1. PICK g : EsVolcado(g, MaxDepth + 1)
    BY <1>0, DumpDefined
  <2>2. g = [d \in 0..(MaxDepth + 1) |-> Nivel(d, g[d - 1])]
    BY <2>1, Zenon DEF EsVolcado
  <2> QED BY <2>2, Zenon
<1>2. GuardarInode = CHOOSE g : g = [d \in 0..(MaxDepth + 1) |-> Nivel(d, g[d - 1])]
  BY Zenon DEF GuardarInode, Nivel, ConHijos
<1>3. GuardarInode = [d \in 0..(MaxDepth + 1) |-> Nivel(d, GuardarInode[d - 1])]
  BY <1>1, <1>2, Zenon
<1>4. \A d \in 0..(MaxDepth + 1) : GuardarInode[d] = Nivel(d, GuardarInode[d - 1])
  BY <1>3, Zenon
<1>5. GuardarInode = [d \in 0..(MaxDepth + 1) |-> GuardarInode[d]]
  BY <1>3, <1>4, Zenon
<1> QED BY <1>4, <1>5, Zenon DEF EsVolcado

LEMMA RecordType ==
    ASSUME ArbolInv, NEW i \in DOMAIN inodo
    PROVE  /\ Registro(i) \in Registros
           /\ Registro(i).cantidad_hijos = Len(inodo[i].hijos)
           /\ Registro(i).nombre = inodo[i].nombre
           /\ Registro(i).es_directorio = inodo[i].es_directorio
<1>1. inodo[i] \in Nodo
  BY DEF ArbolInv, MontonOK
<1>2. /\ inodo[i].nombre \in Nombres \union {"/", Basura} /\ inodo[i].modo \in SUBSET {"r", "w"}
      /\ inodo[i].es_directorio \in BOOLEAN /\ inodo[i].contenido \in BoundedSeq(Celdas, MaxSize)
      /\ Len(inodo[i].hijos) \in Nat
  BY <1>1 DEF Nodo
<1> QED BY <1>2 DEF Registro, Registros

(* One record is the dump of its inode without the children.                 *)
LEMMA RecordAlone ==
    ASSUME ArbolInv, NEW i \in DOMAIN inodo
    PROVE  \E phi : Parcial(<<Registro(i)>>, phi, 0, i)
<1> DEFINE G == <<Registro(i)>>
           phi == [k \in 1..1 |-> i]
<1>1. G \in Seq(Registros) /\ Len(G) = 1 /\ G[1] = Registro(i)
  BY RecordType
<1>2. Faltan(G)[1] = Len(inodo[i].hijos)
  <2>1. 1 \in 1..Len(G) /\ 1 - 1 = 0
    BY <1>1
  <2>2. Faltan(G)[0] = 1 /\ Faltan(G)[1] = Faltan(G)[1 - 1] + G[1].cantidad_hijos - 1
    BY <1>1, <2>1, LeftToRead, Zenon
  <2>3. G[1].cantidad_hijos = Len(inodo[i].hijos) /\ Len(inodo[i].hijos) \in Nat
    BY <1>1, RecordType, ChildrenOnce
  <2> HIDE DEF G
  <2> QED BY <2>1, <2>2, <2>3
<1>3. Abierto(G, Len(inodo[i].hijos) - 0)
  <2>1. Len(inodo[i].hijos) - 0 = Len(inodo[i].hijos)
    BY ChildrenOnce
  <2> HIDE DEF G
  <2>2. \A m \in 1..(Len(G) - 1) : FALSE
    BY <1>1
  <2> QED BY <1>1, <1>2, <2>1, <2>2 DEF Abierto
<1>4. phi \in [1..1 -> DOMAIN inodo] /\ phi[1] = i
  OBVIOUS
<1> HIDE DEF G, phi
<1>5. \A k \in 2..Len(G) : FALSE
  BY <1>1
<1>6. Imagen(G, phi, i)
  <2>1. \A k \in 1..Len(G) : G[k] = Registro(phi[k])
    BY <1>1, <1>4
  <2> QED BY <1>1, <1>4, <1>5, <2>1 DEF Imagen
<1>7. Llenos(G, phi, 2)
  BY <1>5 DEF Llenos
<1>8. Primeros(G, phi, 0, i)
  <2>1. \A t \in 1..0 : FALSE
    OBVIOUS
  <2> QED BY <1>5, <2>1, Zenon DEF Primeros
<1>9. Parcial(G, phi, 0, i)
  BY <1>3, <1>6, <1>7, <1>8 DEF Parcial
<1> QED BY <1>9 DEF G

LEMMA AllChildren ==
    ASSUME ArbolInv, NEW i \in DOMAIN inodo, NEW G, NEW phi,
           Parcial(G, phi, Len(inodo[i].hijos), i)
    PROVE  Completo(G, phi, i)
<1>1. Len(inodo[i].hijos) - Len(inodo[i].hijos) = 0
  BY ChildrenOnce
<1>2. Abierto(G, 0) /\ Imagen(G, phi, i)
  BY <1>1 DEF Parcial
<1>3. Llenos(G, phi, 1)
  <2>1. ASSUME NEW j \in 1..Len(G), NEW h \in ToSet(inodo[phi[j]].hijos)
        PROVE  \E k \in 2..Len(G) : PadreDe(G, k) = j /\ phi[k] = h
    <3>1. CASE j = 1
      <4>1. h \in ToSet(inodo[i].hijos)
        BY <1>2, <3>1 DEF Imagen
      <4>2. PICK t \in 1..Len(inodo[i].hijos) : h = inodo[i].hijos[t]
        BY <4>1, ChildrenOnce DEF ToSet
      <4> QED BY <3>1, <4>2 DEF Parcial, Primeros
    <3>2. CASE j # 1
      <4>1. j \in 2..Len(G)
        BY <1>2, <3>2 DEF Abierto
      <4> QED BY <4>1 DEF Parcial, Llenos
    <3> QED BY <3>1, <3>2
  <2> QED BY <2>1 DEF Llenos
<1> QED BY <1>2, <1>3 DEF Completo

LEMMA OneAfterTheOther ==
    ASSUME NEW s \in Seq(Registros), NEW t \in Seq(Registros), NEW u \in Seq(Registros)
    PROVE  (s \o t) \o u = s \o (t \o u)
<1>1. PICK a : a = s \o t
  OBVIOUS
<1>2. PICK b : b = t \o u
  OBVIOUS
<1>3. /\ a \in Seq(Registros) /\ Len(a) = Len(s) + Len(t)
      /\ \A i \in 1..(Len(s) + Len(t)) : a[i] = IF i <= Len(s) THEN s[i] ELSE t[i - Len(s)]
  BY <1>1, ConcatProperties
<1>4. /\ b \in Seq(Registros) /\ Len(b) = Len(t) + Len(u)
      /\ \A i \in 1..(Len(t) + Len(u)) : b[i] = IF i <= Len(t) THEN t[i] ELSE u[i - Len(t)]
  BY <1>2, ConcatProperties
<1>5. PICK l : l = a \o u
  OBVIOUS
<1>6. PICK m : m = s \o b
  OBVIOUS
<1>7. /\ l \in Seq(Registros) /\ Len(l) = Len(a) + Len(u)
      /\ \A i \in 1..(Len(a) + Len(u)) : l[i] = IF i <= Len(a) THEN a[i] ELSE u[i - Len(a)]
  <2>1. a \in Seq(Registros)
    BY <1>3
  <2> QED BY <2>1, <1>5, ConcatProperties
<1>8. /\ m \in Seq(Registros) /\ Len(m) = Len(s) + Len(b)
      /\ \A i \in 1..(Len(s) + Len(b)) : m[i] = IF i <= Len(s) THEN s[i] ELSE b[i - Len(s)]
  <2>1. b \in Seq(Registros)
    BY <1>4
  <2> QED BY <2>1, <1>6, ConcatProperties
<1>9. Len(s) \in Nat /\ Len(t) \in Nat /\ Len(u) \in Nat
  OBVIOUS
<1>10. Len(l) = Len(m)
  BY <1>3, <1>4, <1>7, <1>8, <1>9
<1>11. ASSUME NEW i \in 1..Len(l) PROVE l[i] = m[i]
  <2>1. i \in 1..(Len(a) + Len(u)) /\ i \in 1..(Len(s) + Len(b))
    BY <1>7, <1>8, <1>10
  <2>2. l[i] = IF i <= Len(a) THEN a[i] ELSE u[i - Len(a)]
    BY <1>7, <2>1
  <2>3. m[i] = IF i <= Len(s) THEN s[i] ELSE b[i - Len(s)]
    BY <1>8, <2>1
  <2>4. CASE i <= Len(s)
    <3>1. i <= Len(a) /\ i \in 1..(Len(s) + Len(t))
      BY <1>3, <1>9, <2>4
    <3> QED BY <1>3, <2>2, <2>3, <2>4, <3>1
  <2>5. CASE ~(i <= Len(s)) /\ i <= Len(a)
    <3>1. /\ i \in 1..(Len(s) + Len(t)) /\ i - Len(s) \in 1..(Len(t) + Len(u))
          /\ i - Len(s) <= Len(t)
      BY <1>3, <1>9, <2>5
    <3> QED BY <1>3, <1>4, <2>2, <2>3, <2>5, <3>1
  <2>6. CASE ~(i <= Len(a))
    <3>1. /\ ~(i <= Len(s)) /\ i - Len(s) \in 1..(Len(t) + Len(u))
          /\ ~(i - Len(s) <= Len(t)) /\ (i - Len(s)) - Len(t) = i - Len(a)
      BY <1>3, <1>4, <1>9, <2>1, <2>6
    <3> QED BY <1>4, <2>2, <2>3, <2>6, <3>1
  <2> QED BY <2>4, <2>5, <2>6
<1>12. l = m
  BY <1>7, <1>8, <1>10, <1>11, SeqEqual
<1> QED BY <1>1, <1>2, <1>5, <1>6, <1>12

(* A record followed by the dumps of its children, in their order.           *)
LEMMA LevelIsTree ==
    ASSUME ArbolInv, NEW i \in DOMAIN inodo,
           NEW ss, ss = [k \in DOMAIN inodo[i].hijos |-> ss[k]],
           \A t \in 1..Len(inodo[i].hijos) : \E psi : Completo(ss[t], psi, inodo[i].hijos[t])
    PROVE  \E phi : Completo(<<Registro(i)>> \o FlattenSeq(ss), phi, i)
<1>1. PICK L \in Nat : L = Len(inodo[i].hijos)
  BY ChildrenOnce
<1>2. DOMAIN inodo[i].hijos = 1..L
  BY <1>1, ChildrenOnce
<1>3. \A t \in 1..L : ss[t] \in Seq(Registros)
  BY <1>1 DEF Completo, Abierto
<1>4. ss \in Seq(Seq(Registros)) /\ Len(ss) = L
  <2>1. ss = [k \in 1..L |-> ss[k]]
    BY <1>2
  <2>2. ss \in [1..L -> Seq(Registros)]
    BY <1>3, <2>1
  <2> QED BY <2>2
<1>5. PICK R : R = <<Registro(i)>>
  OBVIOUS
<1>6. R \in Seq(Registros) /\ \E phi : Parcial(R, phi, 0, i)
  BY <1>5, RecordType, RecordAlone
<1>7. CASE L = 0
  <2>1. FlattenSeq(ss) = <<>>
    BY <1>4, <1>7 DEF FlattenSeq
  <2>2. R \o <<>> = R
    BY <1>6, ConcatEmptySeq
  <2>3. PICK phi : Parcial(R, phi, Len(inodo[i].hijos), i)
    BY <1>1, <1>6, <1>7
  <2>4. Completo(R, phi, i)
    BY <2>3, AllChildren
  <2> QED BY <1>5, <2>1, <2>2, <2>4
<1>8. CASE L # 0
  <2>1. L \in Nat \ {0}
    BY <1>8
  <2>2. PICK f : EsAplanado(f, ss, L) /\ FlattenSeq(ss) = f[L]
    BY <1>4, <2>1, FlatIsRead
  <2> DEFINE Va(n) == f[n] \in Seq(Registros) /\ \E phi : Parcial(R \o f[n], phi, n, i)
             S == {n \in Nat : n + 1 <= L => Va(n + 1)}
  <2>3. ASSUME NEW n \in Nat, n < L, NEW G, G \in Seq(Registros),
               \E phi : Parcial(G, phi, n, i)
        PROVE  \E phi : Parcial(G \o ss[n + 1], phi, n + 1, i)
    <3>1. n + 1 \in 1..L
      BY <2>3
    <3>2. PICK psi : Completo(ss[n + 1], psi, inodo[i].hijos[n + 1])
      BY <1>1, <3>1
    <3>3. PICK phi : Parcial(G, phi, n, i)
      BY <2>3
    <3>4. n < Len(inodo[i].hijos)
      BY <1>1, <2>3
    <3> QED BY <3>2, <3>3, <3>4, BlockAdds
  <2>4. 0 \in S
    <3>1. 1 \in 1..L /\ 0 < L /\ 0 + 1 = 1
      BY <2>1
    <3>2. f[1] = ss[1]
      BY <2>2, <3>1, Zenon DEF EsAplanado
    <3>3. \E phi : Parcial(R \o ss[0 + 1], phi, 0 + 1, i)
      BY <1>6, <2>3, <3>1
    <3>4. Va(1)
      BY <1>3, <3>1, <3>2, <3>3
    <3> QED BY <3>1, <3>4, Zenon
  <2>5. ASSUME NEW n \in Nat, n \in S PROVE n + 1 \in S
    <3>1. CASE (n + 1) + 1 <= L
      <4>1. /\ (n + 1) + 1 \in 1..L /\ (n + 1) + 1 # 1 /\ ((n + 1) + 1) - 1 = n + 1
            /\ n + 1 < L /\ n + 1 \in Nat /\ n + 1 <= L
        BY <3>1
      <4>2. Va(n + 1)
        BY <2>5, <4>1
      <4>3. f[(n + 1) + 1] = f[((n + 1) + 1) - 1] \o ss[(n + 1) + 1]
        BY <2>2, <4>1, Zenon DEF EsAplanado
      <4>4. f[(n + 1) + 1] = f[n + 1] \o ss[(n + 1) + 1]
        BY <4>1, <4>3
      <4>5. f[n + 1] \in Seq(Registros) /\ ss[(n + 1) + 1] \in Seq(Registros)
        BY <1>3, <4>1, <4>2
      <4>6. f[(n + 1) + 1] \in Seq(Registros)
        BY <4>4, <4>5, ConcatProperties
      <4>7. R \o f[(n + 1) + 1] = (R \o f[n + 1]) \o ss[(n + 1) + 1]
        <5>1. (R \o f[n + 1]) \o ss[(n + 1) + 1] = R \o (f[n + 1] \o ss[(n + 1) + 1])
          BY <1>6, <4>5, OneAfterTheOther
        <5> QED BY <4>4, <5>1, Zenon
      <4>8. R \o f[n + 1] \in Seq(Registros)
        BY <1>6, <4>5, ConcatProperties
      <4>9. \E phi : Parcial((R \o f[n + 1]) \o ss[(n + 1) + 1], phi, (n + 1) + 1, i)
        BY <2>3, <4>1, <4>2, <4>8
      <4>10. Va((n + 1) + 1)
        BY <4>6, <4>7, <4>9
      <4> QED BY <4>1, <4>10, Zenon
    <3> QED BY <3>1
  <2>6. Nat \subseteq S
    <3> HIDE DEF S
    <3> QED BY <2>4, <2>5, Induction
  <2>7. Va(L)
    <3>1. L - 1 \in S /\ (L - 1) + 1 = L /\ L <= L
      BY <2>1, <2>6
    <3> QED BY <3>1
  <2>8. PICK phi : Parcial(R \o f[L], phi, Len(inodo[i].hijos), i)
    BY <1>1, <2>7
  <2>9. Completo(R \o f[L], phi, i)
    BY <2>8, AllChildren
  <2> QED BY <1>5, <2>2, <2>9
<1> QED BY <1>7, <1>8

(* The depth of each inode, which the length of the paths bounds.            *)
Hondo(prof) ==
    /\ prof \in [DOMAIN inodo -> 0..MaxDepth]
    /\ raiz \in DOMAIN inodo => prof[raiz] = 0
    /\ \A d \in DOMAIN inodo : \A c \in ToSet(inodo[d].hijos) : prof[c] = prof[d] + 1

LEMMA DumpIsTree ==
    ASSUME ArbolInv, NEW prof, Hondo(prof)
    PROVE  \A d \in 0..MaxDepth : \A i \in DOMAIN inodo :
              prof[i] + d >= MaxDepth => \E phi : Completo(GuardarInode[d][i], phi, i)
<1>0. MaxDepth \in Nat
  BY FisopfsAssumption
<1>1. \A d \in 0..MaxDepth : \A i \in DOMAIN inodo :
         GuardarInode[d][i] = ConHijos(i, d, GuardarInode[d - 1])
  <2>1. ASSUME NEW d \in 0..MaxDepth
        PROVE  GuardarInode[d] = Nivel(d, GuardarInode[d - 1])
    <3>1. d \in 0..(MaxDepth + 1)
      BY <1>0
    <3> QED BY <3>1, DumpIsRead, Zenon DEF EsVolcado
  <2> QED BY <2>1 DEF Nivel
<1> DEFINE Bien(d) == \A i \in DOMAIN inodo :
              prof[i] + d >= MaxDepth => \E phi : Completo(GuardarInode[d][i], phi, i)
           S == {d \in Nat : d <= MaxDepth => Bien(d)}
<1>2. 0 \in S
  <2>1. ASSUME NEW i \in DOMAIN inodo, prof[i] + 0 >= MaxDepth
        PROVE  \E phi : Completo(GuardarInode[0][i], phi, i)
    <3>1. prof[i] \in 0..MaxDepth
      BY DEF Hondo
    <3>2. prof[i] = MaxDepth
      BY <1>0, <2>1, <3>1
    <3>3. Len(inodo[i].hijos) = 0
      <4>1. SUFFICES ASSUME Len(inodo[i].hijos) # 0 PROVE FALSE
        OBVIOUS
      <4>2. 1 \in 1..Len(inodo[i].hijos)
        BY <4>1, ChildrenOnce
      <4>3. /\ inodo[i].hijos[1] \in DOMAIN inodo
            /\ inodo[i].hijos[1] \in ToSet(inodo[i].hijos)
        BY <4>2, ChildrenOnce
      <4>4. prof[inodo[i].hijos[1]] = MaxDepth + 1 /\ prof[inodo[i].hijos[1]] \in 0..MaxDepth
        BY <3>2, <4>3 DEF Hondo
      <4> QED BY <1>0, <4>4
    <3>4. GuardarInode[0][i] = <<Registro(i)>>
      <4>1. 0 \in 0..MaxDepth
        BY <1>0
      <4>2. GuardarInode[0][i] = <<Registro(i)>> \o <<>>
        BY <1>1, <4>1 DEF ConHijos
      <4>3. <<Registro(i)>> \in Seq(Registros)
        BY RecordType
      <4> QED BY <4>2, <4>3, ConcatEmptySeq
    <3>5. PICK phi : Parcial(<<Registro(i)>>, phi, Len(inodo[i].hijos), i)
      BY <3>3, RecordAlone
    <3>6. Completo(<<Registro(i)>>, phi, i)
      BY <3>5, AllChildren
    <3> QED BY <3>4, <3>6
  <2> QED BY <2>1
<1>3. ASSUME NEW d \in Nat, d \in S PROVE d + 1 \in S
  <2>1. ASSUME d + 1 <= MaxDepth, NEW i \in DOMAIN inodo, prof[i] + (d + 1) >= MaxDepth
        PROVE  \E phi : Completo(GuardarInode[d + 1][i], phi, i)
    <3>1. PICK ss : ss = [k \in DOMAIN inodo[i].hijos |-> GuardarInode[d][inodo[i].hijos[k]]]
      OBVIOUS
    <3>2. ASSUME NEW t \in 1..Len(inodo[i].hijos)
          PROVE  \E psi : Completo(ss[t], psi, inodo[i].hijos[t])
      <4>1. PICK h \in DOMAIN inodo : h = inodo[i].hijos[t]
        BY ChildrenOnce
      <4>2. prof[h] = prof[i] + 1 /\ prof[i] \in 0..MaxDepth
        BY <4>1, ChildrenOnce DEF Hondo
      <4>3. prof[h] + d >= MaxDepth
        BY <1>0, <2>1, <4>2
      <4>4. d <= MaxDepth
        BY <1>0, <2>1
      <4>5. \E psi : Completo(GuardarInode[d][h], psi, h)
        BY <1>3, <4>3, <4>4
      <4>6. ss[t] = GuardarInode[d][h]
        BY <3>1, <4>1, ChildrenOnce
      <4> QED BY <4>1, <4>5, <4>6
    <3>3. ss = [k \in DOMAIN inodo[i].hijos |-> ss[k]]
      BY <3>1
    <3>4. \E phi : Completo(<<Registro(i)>> \o FlattenSeq(ss), phi, i)
      BY <3>2, <3>3, LevelIsTree
    <3>5. GuardarInode[d + 1][i] = <<Registro(i)>> \o FlattenSeq(ss)
      <4>1. d + 1 \in 0..MaxDepth /\ d + 1 # 0 /\ (d + 1) - 1 = d
        BY <1>0, <2>1
      <4>2. GuardarInode[d + 1][i] = ConHijos(i, d + 1, GuardarInode[(d + 1) - 1])
        BY <1>1, <4>1
      <4> QED BY <3>1, <4>1, <4>2 DEF ConHijos
    <3> QED BY <3>4, <3>5
  <2>2. d + 1 <= MaxDepth => Bien(d + 1)
    BY <2>1
  <2>3. d + 1 \in Nat
    OBVIOUS
  <2> QED BY <2>2, <2>3, Zenon
<1>4. Nat \subseteq S
  <2> HIDE DEF S
  <2> QED BY <1>2, <1>3, Induction
<1>5. \A d \in 0..MaxDepth : d \in Nat /\ d <= MaxDepth
  BY <1>0
<1> QED BY <1>4, <1>5

-----------------------------------------------------------------------------
(* What a file may hold, whole or cut anywhere.                              *)

(* A file that a mount can read: every record but the first goes into a      *)
(* directory before it, under a name of its own, no deeper than the paths.   *)
Honda(s, q) ==
    /\ q \in [1..Len(s) -> 0..MaxDepth]
    /\ 1 \in 1..Len(s) => q[1] = 0
    /\ \A k \in 2..Len(s) : q[k] = q[PadreDe(s, k)] + 1
    /\ \A k \in 1..Len(s) : s[k].cantidad_hijos > 0 => q[k] < MaxDepth
SinRepetir(s) ==
    \A l \in 2..Len(s) : \A k \in 2..(l - 1) :
        PadreDe(s, k) = PadreDe(s, l) => s[k].nombre # s[l].nombre \/ s[k].nombre = Basura
Sano(s) ==
    /\ s \in Seq(Registros)
    /\ \A m \in 1..(Len(s) - 1) : Faltan(s)[m] >= 1
    /\ \A k \in 1..Len(s) : s[k].cantidad_hijos > 0 => s[k].es_directorio
    /\ \A k \in 2..Len(s) : s[k].nombre # "/"
    /\ \A k \in 1..Len(s) : s[k].nombre = Basura => ~s[k].es_directorio
    /\ SinRepetir(s)
    /\ \E q : Honda(s, q)

(* What a save writes is one,                                                *)
LEMMA DumpIsSound ==
    ASSUME ArbolInv, Sobras, raiz \in DOMAIN inodo, NEW prof, Hondo(prof)
    PROVE  Sano(Volcado)
<1>0. MaxDepth \in Nat /\ MaxDepth \in 0..MaxDepth
  BY FisopfsAssumption
<1>1. \E phi : Completo(Volcado, phi, raiz)
  <2>1. prof[raiz] + MaxDepth >= MaxDepth
    BY <1>0 DEF Hondo
  <2> QED BY <1>0, <2>1, DumpIsTree DEF Volcado
<1>2. PICK s : s = Volcado
  OBVIOUS
<1>3. PICK phi : Completo(s, phi, raiz)
  BY <1>1, <1>2
<1>4. /\ s \in Seq(Registros) /\ Len(s) \in Nat /\ Len(s) >= 1
      /\ \A m \in 1..(Len(s) - 1) : Faltan(s)[m] >= 1
  BY <1>3 DEF Completo, Abierto
<1>5. /\ phi \in [1..Len(s) -> DOMAIN inodo] /\ phi[1] = raiz
      /\ \A k \in 1..Len(s) : s[k] = Registro(phi[k])
      /\ \A k \in 2..Len(s) : /\ PadreDe(s, k) \in 1..(k - 1)
                              /\ phi[k] \in ToSet(inodo[phi[PadreDe(s, k)]].hijos)
      /\ \A l \in 2..Len(s) : \A k \in 2..(l - 1) :
            PadreDe(s, k) = PadreDe(s, l) => phi[k] # phi[l]
  BY <1>3 DEF Completo, Imagen
<1>6. ASSUME NEW k \in 1..Len(s)
      PROVE  /\ phi[k] \in DOMAIN inodo
             /\ s[k].cantidad_hijos = Len(inodo[phi[k]].hijos)
             /\ s[k].nombre = inodo[phi[k]].nombre
             /\ s[k].es_directorio = inodo[phi[k]].es_directorio
  <2>1. phi[k] \in DOMAIN inodo /\ s[k] = Registro(phi[k])
    BY <1>5
  <2> QED BY <2>1, RecordType
<1>7. ASSUME NEW k \in 1..Len(s), s[k].cantidad_hijos > 0
      PROVE  s[k].es_directorio /\ prof[phi[k]] < MaxDepth
  <2>1. PICK i \in DOMAIN inodo : i = phi[k]
    BY <1>6
  <2>2. Len(inodo[i].hijos) > 0 /\ s[k].es_directorio = inodo[i].es_directorio
    BY <1>6, <1>7, <2>1
  <2>3. 1 \in 1..Len(inodo[i].hijos) /\ inodo[i].hijos # <<>>
    BY <2>2, ChildrenOnce
  <2>4. inodo[i].hijos[1] \in DOMAIN inodo /\ inodo[i].hijos[1] \in ToSet(inodo[i].hijos)
    BY <2>3, ChildrenOnce
  <2>5. /\ prof[inodo[i].hijos[1]] = prof[i] + 1 /\ prof[inodo[i].hijos[1]] \in 0..MaxDepth
        /\ prof[i] \in 0..MaxDepth
    BY <2>4 DEF Hondo
  <2>6. prof[i] < MaxDepth
    BY <1>0, <2>5
  <2>7. inodo[i].es_directorio
    BY <2>3 DEF ArbolInv
  <2> QED BY <2>1, <2>2, <2>6, <2>7
<1>8. ASSUME NEW k \in 2..Len(s)
      PROVE  s[k].nombre # "/" /\ prof[phi[k]] = prof[phi[PadreDe(s, k)]] + 1
  <2>1. /\ k \in 1..Len(s) /\ PadreDe(s, k) \in 1..Len(s)
        /\ phi[k] \in ToSet(inodo[phi[PadreDe(s, k)]].hijos)
    <3>1. PadreDe(s, k) \in 1..(k - 1)
      BY <1>5
    <3> QED BY <1>5, <3>1
  <2>2. PICK d \in DOMAIN inodo : d = phi[PadreDe(s, k)]
    BY <1>6, <2>1
  <2>3. phi[k] \in ToSet(inodo[d].hijos)
    BY <2>1, <2>2
  <2>4. phi[k] \in DOMAIN inodo /\ phi[k] # raiz
    BY <2>3 DEF ArbolInv, UnSoloLugar, SinPadre
  <2>5. inodo[phi[k]].nombre # "/"
    BY <2>4 DEF ArbolInv
  <2>6. prof[phi[k]] = prof[d] + 1
    BY <2>3 DEF Hondo
  <2> QED BY <1>6, <2>1, <2>2, <2>5, <2>6
<1>9. SinRepetir(s)
  <2> SUFFICES ASSUME NEW l \in 2..Len(s), NEW k \in 2..(l - 1), PadreDe(s, k) = PadreDe(s, l)
               PROVE  s[k].nombre # s[l].nombre \/ s[k].nombre = Basura
    BY DEF SinRepetir
  <2>1. /\ k \in 1..Len(s) /\ k \in 2..Len(s) /\ l \in 1..Len(s)
        /\ PadreDe(s, k) \in 1..(k - 1) /\ PadreDe(s, k) \in 1..Len(s)
    <3>1. k \in 2..Len(s) /\ l \in 1..Len(s) /\ k \in 1..Len(s)
      BY <1>4
    <3>2. PadreDe(s, k) \in 1..(k - 1)
      BY <1>5, <3>1
    <3> QED BY <3>1, <3>2
  <2>2. PICK d \in DOMAIN inodo : d = phi[PadreDe(s, k)]
    BY <1>6, <2>1
  <2>3. phi[k] \in ToSet(inodo[d].hijos) /\ phi[l] \in ToSet(inodo[d].hijos) /\ phi[k] # phi[l]
    BY <1>5, <2>1, <2>2
  <2>4. PICK x \in DOMAIN inodo[d].hijos : phi[k] = inodo[d].hijos[x]
    BY <2>3 DEF ToSet
  <2>5. PICK y \in DOMAIN inodo[d].hijos : phi[l] = inodo[d].hijos[y]
    BY <2>3 DEF ToSet
  <2>6. \A a, b \in DOMAIN inodo[d].hijos :
           inodo[inodo[d].hijos[a]].nombre = inodo[inodo[d].hijos[b]].nombre =>
              a = b \/ inodo[inodo[d].hijos[a]].nombre = Basura
    BY DEF ArbolInv, NombresDistintos
  <2>7. inodo[phi[k]].nombre # inodo[phi[l]].nombre \/ inodo[phi[k]].nombre = Basura
    BY <2>3, <2>4, <2>5, <2>6
  <2> QED BY <1>6, <2>1, <2>7
<1>10. \E q : Honda(s, q)
  <2> DEFINE q == [k \in 1..Len(s) |-> prof[phi[k]]]
  <2>1. ASSUME NEW k \in 1..Len(s) PROVE prof[phi[k]] \in 0..MaxDepth
    BY <1>6 DEF Hondo
  <2>2. q \in [1..Len(s) -> 0..MaxDepth] /\ \A k \in 1..Len(s) : q[k] = prof[phi[k]]
    BY <2>1
  <2> HIDE DEF q
  <2>3. q[1] = 0
    <3>1. 1 \in 1..Len(s)
      BY <1>4
    <3> QED BY <1>5, <2>2, <3>1 DEF Hondo
  <2>4. ASSUME NEW k \in 2..Len(s) PROVE q[k] = q[PadreDe(s, k)] + 1
    <3>1. PadreDe(s, k) \in 1..(k - 1)
      BY <1>5
    <3>2. k \in 1..Len(s) /\ PadreDe(s, k) \in 1..Len(s)
      BY <1>4, <3>1
    <3> QED BY <1>8, <2>2, <3>2
  <2>5. \A k \in 1..Len(s) : s[k].cantidad_hijos > 0 => q[k] < MaxDepth
    BY <1>7, <2>2
  <2>6. Honda(s, q)
    BY <2>2, <2>3, <2>4, <2>5 DEF Honda
  <2> QED BY <2>6
<1>11. \A k \in 1..Len(s) : s[k].cantidad_hijos > 0 => s[k].es_directorio
  BY <1>7
<1>12. \A k \in 2..Len(s) : s[k].nombre # "/"
  BY <1>8
<1>13. \A k \in 1..Len(s) : s[k].nombre = Basura => ~s[k].es_directorio
  BY <1>6 DEF Sobras
<1>14. Sano(s)
  BY <1>4, <1>9, <1>10, <1>11, <1>12, <1>13 DEF Sano
<1> QED BY <1>2, <1>14

(* what it has written when it is cut short is one too,                      *)
LEMMA CutIsSound ==
    ASSUME NEW s, Sano(s), NEW t \in Seq(Registros), Len(t) <= Len(s),
           \A k \in 1..Len(t) : t[k] = s[k]
    PROVE  Sano(t)
<1>1. PICK N \in Nat : N = Len(s)
  BY DEF Sano
<1>2. PICK M \in Nat : M = Len(t)
  OBVIOUS
<1>3. /\ s \in Seq(Registros) /\ M <= N /\ \A k \in 1..M : t[k] = s[k] /\ k \in 1..N
      /\ \A k \in 2..M : k \in 2..N /\ k \in 1..M
  BY <1>1, <1>2 DEF Sano
<1>4. \A m \in 0..M : Faltan(t)[m] = Faltan(s)[m]
  BY <1>1, <1>2, <1>3, LeftOfPrefix
<1>5. ASSUME NEW k \in 2..M PROVE PadreDe(t, k) = PadreDe(s, k)
  <2>1. k \in Nat /\ k - 1 <= Len(s) /\ k - 1 <= Len(t) /\ \A m \in 1..(k - 1) : t[m] = s[m]
    BY <1>1, <1>2, <1>3
  <2> QED BY <1>3, <2>1, ParentOfPrefix
<1>6. \A m \in 1..(M - 1) : Faltan(t)[m] >= 1
  <2>1. \A m \in 1..(M - 1) : m \in 1..(N - 1) /\ m \in 0..M
    BY <1>3
  <2> QED BY <1>1, <1>4, <2>1 DEF Sano
<1>7. /\ \A k \in 1..M : t[k].cantidad_hijos > 0 => t[k].es_directorio
      /\ \A k \in 2..M : t[k].nombre # "/"
      /\ \A k \in 1..M : t[k].nombre = Basura => ~t[k].es_directorio
  BY <1>1, <1>3 DEF Sano
<1>8. ASSUME NEW k \in 2..M PROVE PadreDe(t, k) \in 1..(k - 1)
  <2>1. EsPadre(t, PadreDe(t, k), k)
    <3>1. \A m \in 1..(k - 1) : Faltan(t)[m] >= 1
      BY <1>6
    <3> QED BY <1>2, <3>1, ParentThere
  <2> QED BY <2>1 DEF EsPadre
<1>9. SinRepetir(t)
  <2> SUFFICES ASSUME NEW l \in 2..M, NEW k \in 2..(l - 1), PadreDe(t, k) = PadreDe(t, l)
               PROVE  t[k].nombre # t[l].nombre \/ t[k].nombre = Basura
    BY <1>2 DEF SinRepetir
  <2>1. l \in 2..N /\ k \in 2..M /\ l \in 1..M /\ k \in 1..M
    BY <1>3
  <2>2. PadreDe(s, k) = PadreDe(s, l) /\ t[k] = s[k] /\ t[l] = s[l]
    BY <1>3, <1>5, <2>1
  <2> QED BY <1>1, <2>1, <2>2 DEF Sano, SinRepetir
<1>10. \E q : Honda(t, q)
  <2>1. PICK q : Honda(s, q)
    BY DEF Sano
  <2>2. /\ q \in [1..N -> 0..MaxDepth]
        /\ 1 \in 1..N => q[1] = 0
        /\ \A k \in 2..N : q[k] = q[PadreDe(s, k)] + 1
        /\ \A k \in 1..N : s[k].cantidad_hijos > 0 => q[k] < MaxDepth
    BY <1>1, <2>1 DEF Honda
  <2> DEFINE p == [k \in 1..M |-> q[k]]
  <2>3. p \in [1..M -> 0..MaxDepth] /\ \A k \in 1..M : p[k] = q[k]
    BY <1>3, <2>2
  <2> HIDE DEF p
  <2>4. ASSUME NEW k \in 2..M PROVE p[k] = p[PadreDe(t, k)] + 1
    <3>1. PadreDe(t, k) \in 1..M /\ k \in 1..M /\ k \in 2..N
      BY <1>3, <1>8
    <3> QED BY <1>5, <2>2, <2>3, <3>1
  <2>5. Honda(t, p)
    BY <1>2, <1>3, <2>2, <2>3, <2>4 DEF Honda
  <2> QED BY <2>5
<1> QED BY <1>2, <1>6, <1>7, <1>9, <1>10 DEF Sano

(* It never asks for less than nothing.                                      *)
LEMMA NothingOwed ==
    ASSUME NEW s, Sano(s)
    PROVE  Faltan(s)[Len(s)] \in Nat /\ (Len(s) = 0 => Faltan(s)[Len(s)] = 1)
<1>0. s \in Seq(Registros)
  BY DEF Sano
<1>1. PICK N \in Nat : N = Len(s)
  BY <1>0
<1>2. CASE N = 0
  BY <1>0, <1>1, <1>2, LeftToRead
<1>3. CASE N # 0
  <2>1. N \in 1..Len(s) /\ N - 1 \in 0..Len(s) /\ (N - 1 = 0 \/ N - 1 \in 1..(Len(s) - 1))
    BY <1>1, <1>3
  <2>2. Faltan(s)[N] = Faltan(s)[N - 1] + s[N].cantidad_hijos - 1 /\ Faltan(s)[N - 1] \in Int
    BY <1>0, <2>1, LeftToRead
  <2>3. Faltan(s)[N - 1] >= 1
    <3>1. CASE N - 1 = 0
      BY <1>0, <3>1, LeftToRead
    <3>2. CASE N - 1 \in 1..(Len(s) - 1)
      BY <3>2 DEF Sano
    <3> QED BY <2>1, <3>1, <3>2
  <2>4. s[N].cantidad_hijos \in Nat
    <3>1. s[N] \in Registros
      BY <1>0, <2>1
    <3> QED BY <3>1 DEF Registros
  <2>5. Faltan(s)[N] \in Nat
    BY <2>2, <2>3, <2>4
  <2> QED BY <1>1, <1>3, <2>5
<1> QED BY <1>2, <1>3

(* and so is what the mount makes up for the rest.                           *)
Relleno(t, s, n) ==
    /\ t \in Seq(Registros) /\ Len(t) = Len(s) + n
    /\ \A k \in 1..Len(s) : t[k] = s[k]
    /\ \A k \in (Len(s) + 1)..(Len(s) + n) : t[k] = RegistroBasura

LEMMA MadeUpRecord ==
    /\ RegistroBasura \in Registros /\ RegistroBasura.cantidad_hijos = 0
    /\ RegistroBasura.nombre = Basura /\ Basura # "/" /\ ~RegistroBasura.es_directorio
<1>1. <<>> \in BoundedSeq(Celdas, MaxSize)
  <2>1. 0 \in 0..MaxSize /\ <<>> \in [1..0 -> Celdas]
    BY FisopfsAssumption
  <2> QED BY <2>1, SeqIsBounded, FisopfsAssumption
<1>2. \A c \in BoundedSeq(Celdas, MaxSize) :
         [nombre |-> Basura, modo |-> {}, es_directorio |-> FALSE,
          contenido |-> c, cantidad_hijos |-> 0] \in Registros
  BY DEF Registros
<1>3. RegistroBasura \in Registros
  BY <1>1, <1>2, Zenon DEF RegistroBasura
<1> QED BY <1>3, FisopfsAssumption DEF RegistroBasura

LEMMA MadeUpRest ==
    ASSUME NEW s \in Seq(Registros), NEW n \in Nat
    PROVE  Relleno(s \o [k \in 1..n |-> RegistroBasura], s, n)
<1>1. PICK g : g = [k \in 1..n |-> RegistroBasura]
  OBVIOUS
<1>2. g \in Seq(Registros) /\ Len(g) = n /\ \A k \in 1..n : g[k] = RegistroBasura
  <2>1. g \in [1..n -> Registros]
    BY <1>1, MadeUpRecord
  <2> QED BY <1>1, <2>1
<1>3. PICK t : t = s \o g
  OBVIOUS
<1>4. /\ t \in Seq(Registros) /\ Len(t) = Len(s) + Len(g)
      /\ \A k \in 1..(Len(s) + Len(g)) : t[k] = IF k <= Len(s) THEN s[k] ELSE g[k - Len(s)]
  <2>1. g \in Seq(Registros)
    BY <1>2
  <2> QED BY <1>3, <2>1, ConcatProperties
<1>5. PICK N \in Nat : N = Len(s)
  OBVIOUS
<1>6. t \in Seq(Registros) /\ Len(t) = N + n
  BY <1>2, <1>4, <1>5
<1>7. \A k \in 1..(N + n) : t[k] = IF k <= N THEN s[k] ELSE g[k - N]
  BY <1>2, <1>4, <1>5
<1>8. \A k \in 1..N : t[k] = s[k]
  <2>1. \A k \in 1..N : k \in 1..(N + n) /\ k <= N
    OBVIOUS
  <2> QED BY <1>7, <2>1
<1>9. ASSUME NEW k \in (N + 1)..(N + n) PROVE t[k] = RegistroBasura
  <2>1. k \in 1..(N + n) /\ ~(k <= N) /\ k - N \in 1..n
    OBVIOUS
  <2> QED BY <1>2, <1>7, <2>1
<1>10. Relleno(t, s, n)
  BY <1>5, <1>6, <1>8, <1>9 DEF Relleno
<1> QED BY <1>1, <1>3, <1>10

LEMMA PaddedIsSound ==
    ASSUME NEW s, Sano(s), NEW t, Relleno(t, s, Faltan(s)[Len(s)])
    PROVE  Sano(t) /\ Len(t) >= 1
<1>0. MaxDepth \in Nat /\ s \in Seq(Registros)
  BY FisopfsAssumption DEF Sano
<1>1. PICK N \in Nat : N = Len(s)
  BY <1>0
<1>2. PICK R \in Nat : R = Faltan(s)[N] /\ (N = 0 => R = 1)
  BY <1>0, <1>1, NothingOwed
<1>5. /\ RegistroBasura \in Registros /\ RegistroBasura.cantidad_hijos = 0
      /\ RegistroBasura.nombre = Basura /\ Basura # "/" /\ ~RegistroBasura.es_directorio
  BY MadeUpRecord
<1>7. t \in Seq(Registros) /\ Len(t) = N + R
  BY <1>1, <1>2 DEF Relleno
<1>8. /\ \A k \in 1..N : t[k] = s[k]
      /\ \A k \in (N + 1)..(N + R) : t[k] = RegistroBasura
  BY <1>1, <1>2 DEF Relleno
<1>9. \A m \in 0..N : Faltan(t)[m] = Faltan(s)[m]
  <2>1. N <= Len(t) /\ N <= Len(s)
    BY <1>1, <1>7
  <2>2. t \in Seq(Registros)
    BY <1>7
  <2> QED BY <1>0, <1>8, <2>1, <2>2, LeftOfPrefix
<1>10. \A m \in 0..R : Faltan(t)[N + m] = R - m
  <2> DEFINE S == {m \in Nat : m <= R => Faltan(t)[N + m] = R - m}
  <2>1. 0 \in S
    BY <1>2, <1>9
  <2>2. ASSUME NEW m \in Nat, m \in S PROVE m + 1 \in S
    <3>1. CASE m + 1 <= R
      <4>1. /\ N + (m + 1) \in 1..Len(t) /\ (N + (m + 1)) - 1 = N + m
            /\ N + (m + 1) \in (N + 1)..(N + R) /\ m <= R
        BY <1>7, <3>1
      <4>2. Faltan(t)[N + (m + 1)] = Faltan(t)[(N + (m + 1)) - 1] + t[N + (m + 1)].cantidad_hijos - 1
        BY <1>7, <4>1, LeftToRead
      <4>3. t[N + (m + 1)].cantidad_hijos = 0
        BY <1>5, <1>8, <4>1
      <4>4. Faltan(t)[N + (m + 1)] = Faltan(t)[N + m] + 0 - 1
        BY <4>1, <4>2, <4>3
      <4>5. Faltan(t)[N + m] = R - m
        BY <2>2, <4>1
      <4>6. Faltan(t)[N + (m + 1)] = R - (m + 1)
        BY <4>4, <4>5
      <4> QED BY <4>6
    <3> QED BY <3>1
  <2>3. Nat \subseteq S
    <3> HIDE DEF S
    <3> QED BY <2>1, <2>2, Induction
  <2> QED BY <2>3
<1>11. \A m \in 1..(Len(t) - 1) : Faltan(t)[m] >= 1
  <2> SUFFICES ASSUME NEW m \in 1..(Len(t) - 1) PROVE Faltan(t)[m] >= 1
    OBVIOUS
  <2>1. CASE m < N
    <3>1. m \in 1..(Len(s) - 1) /\ m \in 0..N
      BY <1>1, <2>1
    <3> QED BY <1>9, <3>1 DEF Sano
  <2>2. CASE ~(m < N)
    <3>1. PICK j \in 0..R : m = N + j /\ R - j >= 1
      <4>1. m - N \in 0..R /\ m = N + (m - N) /\ R - (m - N) >= 1
        BY <1>7, <2>2
      <4> QED BY <4>1
    <3> QED BY <1>10, <3>1
  <2> QED BY <2>1, <2>2
<1>12. \A k \in 1..Len(t) : t[k].cantidad_hijos > 0 => t[k].es_directorio /\ k \in 1..N
  <2> SUFFICES ASSUME NEW k \in 1..Len(t), t[k].cantidad_hijos > 0
               PROVE  t[k].es_directorio /\ k \in 1..N
    OBVIOUS
  <2>1. k \in 1..N \/ k \in (N + 1)..(N + R)
    BY <1>7
  <2>2. CASE k \in 1..N
    BY <1>1, <1>8, <2>2 DEF Sano
  <2>3. CASE k \in (N + 1)..(N + R)
    BY <1>5, <1>8, <2>3
  <2> QED BY <2>1, <2>2, <2>3
<1>13. \A k \in 2..Len(t) : t[k].nombre # "/"
  <2> SUFFICES ASSUME NEW k \in 2..Len(t) PROVE t[k].nombre # "/"
    OBVIOUS
  <2>1. (k \in 2..N /\ k \in 1..N) \/ k \in (N + 1)..(N + R)
    BY <1>7
  <2> QED BY <1>1, <1>5, <1>8, <2>1 DEF Sano
<1>14. ASSUME NEW k \in 2..N PROVE PadreDe(t, k) = PadreDe(s, k)
  <2>1. k \in Nat /\ k - 1 <= Len(s) /\ k - 1 <= Len(t) /\ \A m \in 1..(k - 1) : t[m] = s[m]
    BY <1>1, <1>7, <1>8
  <2>2. t \in Seq(Registros)
    BY <1>7
  <2> QED BY <1>0, <2>1, <2>2, ParentOfPrefix
<1>15. ASSUME NEW k \in 2..Len(t) PROVE PadreDe(t, k) \in 1..(k - 1) /\ PadreDe(t, k) \in 1..N
  <2>1. EsPadre(t, PadreDe(t, k), k)
    <3>1. t \in Seq(Registros) /\ \A m \in 1..(k - 1) : Faltan(t)[m] >= 1
      BY <1>7, <1>11
    <3> QED BY <3>1, ParentThere
  <2>2. PadreDe(t, k) \in 1..(k - 1) /\ t[PadreDe(t, k)].cantidad_hijos > 0
    BY <2>1 DEF EsPadre, Espera
  <2>3. PadreDe(t, k) \in 1..Len(t)
    BY <1>7, <2>2
  <2> QED BY <1>12, <2>2, <2>3
<1>16. SinRepetir(t)
  <2> SUFFICES ASSUME NEW l \in 2..Len(t), NEW k \in 2..(l - 1), PadreDe(t, k) = PadreDe(t, l)
               PROVE  t[k].nombre # t[l].nombre \/ t[k].nombre = Basura
    BY DEF SinRepetir
  <2>1. CASE l <= N
    <3>1. l \in 2..N /\ k \in 2..N /\ k \in 1..N /\ l \in 1..N
      BY <2>1
    <3>2. PadreDe(s, k) = PadreDe(s, l) /\ t[k] = s[k] /\ t[l] = s[l]
      BY <1>8, <1>14, <3>1
    <3> QED BY <1>1, <3>1, <3>2 DEF Sano, SinRepetir
  <2>2. CASE ~(l <= N)
    <3>1. l \in (N + 1)..(N + R)
      BY <1>7, <2>2
    <3>2. t[l].nombre = Basura
      BY <1>5, <1>8, <3>1
    <3> QED BY <3>2
  <2> QED BY <2>1, <2>2
<1>17. \E q : Honda(t, q)
  <2>1. PICK q : Honda(s, q)
    BY DEF Sano
  <2>2. /\ q \in [1..N -> 0..MaxDepth]
        /\ 1 \in 1..N => q[1] = 0
        /\ \A k \in 2..N : q[k] = q[PadreDe(s, k)] + 1
        /\ \A k \in 1..N : s[k].cantidad_hijos > 0 => q[k] < MaxDepth
    BY <1>1, <2>1 DEF Honda
  <2> DEFINE p == [k \in 1..(N + R) |-> IF k <= N THEN q[k]
                                        ELSE IF k = 1 THEN 0 ELSE q[PadreDe(t, k)] + 1]
  <2>3. /\ p = [k \in 1..(N + R) |-> p[k]]
        /\ \A k \in 1..N : p[k] = q[k]
        /\ \A k \in (N + 1)..(N + R) : p[k] = IF k = 1 THEN 0 ELSE q[PadreDe(t, k)] + 1
    OBVIOUS
  <2> HIDE DEF p
  <2>4. ASSUME NEW k \in 2..(N + R) PROVE p[k] = p[PadreDe(t, k)] + 1
    <3>1. k \in 2..Len(t) /\ PadreDe(t, k) \in 1..N
      BY <1>7, <1>15
    <3>2. p[PadreDe(t, k)] = q[PadreDe(t, k)]
      BY <2>3, <3>1
    <3>3. CASE k <= N
      <4>1. k \in 2..N /\ k \in 1..N
        BY <3>3
      <4> QED BY <1>14, <2>2, <2>3, <3>2, <4>1
    <3>4. CASE ~(k <= N)
      <4>1. k \in (N + 1)..(N + R) /\ k # 1
        BY <3>4
      <4> QED BY <2>3, <3>2, <4>1
    <3> QED BY <3>3, <3>4
  <2>5. ASSUME NEW k \in 1..(N + R) PROVE p[k] \in 0..MaxDepth
    <3>1. CASE k <= N
      <4>1. k \in 1..N
        BY <3>1
      <4> QED BY <2>2, <2>3, <4>1
    <3>2. CASE ~(k <= N) /\ k = 1
      <4>1. k \in (N + 1)..(N + R)
        BY <3>2
      <4>2. p[k] = 0
        BY <2>3, <3>2, <4>1
      <4> QED BY <1>0, <4>2
    <3>3. CASE ~(k <= N) /\ k # 1
      <4>1. k \in (N + 1)..(N + R) /\ k \in 2..Len(t)
        BY <1>7, <3>3
      <4>2. EsPadre(t, PadreDe(t, k), k)
        <5>1. t \in Seq(Registros) /\ \A m \in 1..(k - 1) : Faltan(t)[m] >= 1
          BY <1>7, <1>11, <4>1
        <5> QED BY <4>1, <5>1, ParentThere
      <4>3. PICK j \in 1..N : j = PadreDe(t, k)
        BY <1>15, <4>1
      <4>4. s[j].cantidad_hijos > 0
        BY <1>8, <4>2, <4>3 DEF EsPadre, Espera
      <4>5. q[j] < MaxDepth /\ q[j] \in 0..MaxDepth /\ p[k] = q[j] + 1
        BY <2>2, <2>3, <3>3, <4>1, <4>3, <4>4
      <4> QED BY <1>0, <4>5
    <3> QED BY <3>1, <3>2, <3>3
  <2>6. p \in [1..(N + R) -> 0..MaxDepth]
    BY <2>3, <2>5
  <2>7. 1 \in 1..(N + R) => p[1] = 0
    <3>1. 1 \in 1..(N + R) => 1 \in 1..N \/ 1 \in (N + 1)..(N + R)
      OBVIOUS
    <3> QED BY <2>2, <2>3, <3>1
  <2>8. \A k \in 1..(N + R) : t[k].cantidad_hijos > 0 => p[k] < MaxDepth
    BY <1>7, <1>8, <1>12, <2>2, <2>3
  <2>9. Honda(t, p)
    BY <1>7, <2>4, <2>6, <2>7, <2>8 DEF Honda
  <2> QED BY <2>9
<1>18. Len(t) >= 1
  BY <1>2, <1>7
<1>19. \A k \in 1..Len(t) : t[k].nombre = Basura => ~t[k].es_directorio
  <2> SUFFICES ASSUME NEW k \in 1..Len(t), t[k].nombre = Basura PROVE ~t[k].es_directorio
    OBVIOUS
  <2>1. k \in 1..N \/ k \in (N + 1)..(N + R)
    BY <1>7
  <2> QED BY <1>1, <1>5, <1>8, <2>1 DEF Sano
<1> QED BY <1>7, <1>11, <1>12, <1>13, <1>16, <1>17, <1>18, <1>19 DEF Sano

-----------------------------------------------------------------------------
(* What a mount reads from it.                                               *)

(* The children that a mount gives to a record: each one that goes into it,  *)
(* once.                                                                     *)
Suma(h, s, j, k) == IF PadreDe(s, k) = j THEN Append(h, k) ELSE h
EsLista(h, s, j, n) ==
    /\ h = [k \in j..n |-> h[k]]
    /\ h[j] = <<>>
    /\ \A k \in (j + 1)..n : h[k] = Suma(h[k - 1], s, j, k)
Hijas(x, s, j, k) ==
    /\ x \in Seq(Nat)
    /\ \A a \in 1..Len(x) : x[a] \in (j + 1)..k /\ PadreDe(s, x[a]) = j
    /\ \A m \in (j + 1)..k : PadreDe(s, m) = j => \E a \in 1..Len(x) : x[a] = m
    /\ \A a, b \in 1..Len(x) : x[a] = x[b] => a = b

LEMMA ListDefined ==
    ASSUME NEW s, NEW j \in Nat, NEW n \in Nat
    PROVE  \E h : EsLista(h, s, j, j + n)
<1> DEFINE S == {m \in Nat : \E h : EsLista(h, s, j, j + m)}
<1>1. 0 \in S
  <2> DEFINE h == [k \in j..j |-> <<>>]
  <2>1. h = [k \in j..j |-> h[k]] /\ h[j] = <<>>
    OBVIOUS
  <2>2. j + 0 = j /\ \A k \in (j + 1)..j : FALSE
    OBVIOUS
  <2> HIDE DEF h
  <2>3. EsLista(h, s, j, j)
    BY <2>1, <2>2 DEF EsLista
  <2>4. EsLista(h, s, j, j + 0)
    BY <2>2, <2>3, Zenon
  <2> QED BY <2>4, Zenon
<1>2. ASSUME NEW m \in Nat, m \in S PROVE m + 1 \in S
  <2>1. PICK f : EsLista(f, s, j, j + m)
    BY <1>2
  <2>2. PICK N \in Nat : N = j + m
    OBVIOUS
  <2>3. PICK x : x = Suma(f[N], s, j, N + 1)
    OBVIOUS
  <2> DEFINE g == [k \in j..(N + 1) |-> IF k = N + 1 THEN x ELSE f[k]]
  <2>4. /\ g = [k \in j..(N + 1) |-> g[k]] /\ g[N + 1] = x
        /\ \A k \in j..N : g[k] = f[k]
    BY <2>2
  <2> HIDE DEF g
  <2>5. ASSUME NEW k \in (j + 1)..(N + 1) PROVE g[k] = Suma(g[k - 1], s, j, k)
    <3>1. CASE k = N + 1
      <4>1. k - 1 = N /\ N \in j..N
        BY <2>2, <3>1
      <4>2. g[k - 1] = f[N]
        BY <2>4, <4>1
      <4> QED BY <2>3, <2>4, <3>1, <4>2, Zenon
    <3>2. CASE k # N + 1
      <4>1. k \in (j + 1)..N /\ k \in j..N /\ k - 1 \in j..N
        BY <2>2, <3>2
      <4>2. f[k] = Suma(f[k - 1], s, j, k)
        BY <2>1, <2>2, <4>1, Zenon DEF EsLista
      <4>3. g[k] = f[k] /\ g[k - 1] = f[k - 1]
        BY <2>4, <4>1
      <4> QED BY <4>2, <4>3, Zenon
    <3> QED BY <3>1, <3>2
  <2>6. g[j] = <<>>
    <3>1. j \in j..N
      BY <2>2
    <3> QED BY <2>1, <2>4, <3>1, Zenon DEF EsLista
  <2>7. EsLista(g, s, j, N + 1)
    BY <2>4, <2>5, <2>6, Zenon DEF EsLista
  <2>8. N + 1 = j + (m + 1) /\ m + 1 \in Nat
    BY <2>2
  <2>9. \E h : EsLista(h, s, j, j + (m + 1))
    BY <2>7, <2>8, Zenon
  <2> QED BY <2>8, <2>9, Zenon
<1>3. Nat \subseteq S
  <2> HIDE DEF S
  <2> QED BY <1>1, <1>2, Induction
<1> QED BY <1>3

LEMMA ListIsRead ==
    ASSUME NEW s \in Seq(Registros), NEW j \in 1..Len(s)
    PROVE  \E h : EsLista(h, s, j, Len(s)) /\ HijosDe(s, j) = h[Len(s)]
<1>0. PICK n \in Nat : n = Len(s)
  OBVIOUS
<1>1. \E g : g = [k \in j..n |-> IF k = j THEN <<>>
                                 ELSE IF PadreDe(s, k) = j THEN Append(g[k - 1], k) ELSE g[k - 1]]
  <2>1. PICK g : EsLista(g, s, j, n)
    <3>1. j \in Nat /\ n - j \in Nat /\ j + (n - j) = n
      BY <1>0
    <3>2. \E h : EsLista(h, s, j, j + (n - j))
      BY <3>1, ListDefined
    <3> QED BY <3>1, <3>2, Zenon
  <2>2. ASSUME NEW k \in j..n
        PROVE  g[k] = IF k = j THEN <<>>
                      ELSE IF PadreDe(s, k) = j THEN Append(g[k - 1], k) ELSE g[k - 1]
    <3>1. CASE k = j
      BY <2>1, <3>1, Zenon DEF EsLista
    <3>2. CASE k # j
      <4>1. k \in (j + 1)..n
        BY <1>0, <3>2
      <4> QED BY <2>1, <3>2, <4>1, Zenon DEF EsLista, Suma
    <3> QED BY <3>1, <3>2
  <2>3. g = [k \in j..n |-> g[k]]
    BY <2>1, Zenon DEF EsLista
  <2>4. g = [k \in j..n |-> IF k = j THEN <<>>
                            ELSE IF PadreDe(s, k) = j THEN Append(g[k - 1], k) ELSE g[k - 1]]
    BY <2>2, <2>3, Zenon
  <2> QED BY <2>4, Zenon
<1> DEFINE h[k \in j..n] == IF k = j THEN <<>>
                            ELSE IF PadreDe(s, k) = j THEN Append(h[k - 1], k) ELSE h[k - 1]
<1>2. HijosDe(s, j) = h[n]
  BY <1>0, Zenon DEF HijosDe
<1>3. h = [k \in j..n |-> IF k = j THEN <<>>
                          ELSE IF PadreDe(s, k) = j THEN Append(h[k - 1], k) ELSE h[k - 1]]
  BY <1>1, Zenon
<1> HIDE DEF h
<1>4. \A k \in j..n : h[k] = IF k = j THEN <<>>
                             ELSE IF PadreDe(s, k) = j THEN Append(h[k - 1], k) ELSE h[k - 1]
  BY <1>3, Zenon
<1>5. h = [k \in j..n |-> h[k]]
  BY <1>3, <1>4, Zenon
<1>6. j \in j..n /\ \A k \in (j + 1)..n : k \in j..n /\ k # j
  BY <1>0
<1>7. EsLista(h, s, j, n)
  BY <1>4, <1>5, <1>6, Zenon DEF EsLista, Suma
<1> QED BY <1>0, <1>2, <1>7, Zenon

LEMMA ListGrows ==
    ASSUME NEW s, NEW j \in Nat, NEW k \in Nat, j <= k, NEW x, Hijas(x, s, j, k)
    PROVE  Hijas(Suma(x, s, j, k + 1), s, j, k + 1)
<1>0. /\ x \in Seq(Nat)
      /\ \A a \in 1..Len(x) : x[a] \in (j + 1)..k /\ PadreDe(s, x[a]) = j
      /\ \A m \in (j + 1)..k : PadreDe(s, m) = j => \E a \in 1..Len(x) : x[a] = m
      /\ \A a, b \in 1..Len(x) : x[a] = x[b] => a = b
  BY DEF Hijas
<1>1. /\ \A m \in (j + 1)..(k + 1) : m \in (j + 1)..k \/ m = k + 1
      /\ \A m \in (j + 1)..k : m \in (j + 1)..(k + 1) /\ m # k + 1
      /\ k + 1 \in (j + 1)..(k + 1)
  OBVIOUS
<1>2. CASE PadreDe(s, k + 1) # j
  <2>1. Suma(x, s, j, k + 1) = x
    BY <1>2 DEF Suma
  <2>2. Hijas(x, s, j, k + 1)
    BY <1>0, <1>1, <1>2, Zenon DEF Hijas
  <2> QED BY <2>1, <2>2
<1>3. CASE PadreDe(s, k + 1) = j
  <2>1. PICK y : y = Append(x, k + 1)
    OBVIOUS
  <2>2. PICK n \in Nat : n = Len(x)
    BY <1>0
  <2>3. y \in Seq(Nat) /\ Len(y) = n + 1 /\ y[n + 1] = k + 1 /\ \A a \in 1..n : y[a] = x[a]
    BY <1>0, <2>1, <2>2
  <2>4. /\ \A a \in 1..(n + 1) : a \in 1..n \/ a = n + 1
        /\ \A a \in 1..n : a \in 1..(n + 1)
        /\ n + 1 \in 1..(n + 1)
    OBVIOUS
  <2>5. \A a \in 1..(n + 1) : y[a] \in (j + 1)..(k + 1) /\ PadreDe(s, y[a]) = j
    BY <1>0, <1>1, <1>3, <2>2, <2>3, <2>4, Zenon
  <2>6. \A m \in (j + 1)..(k + 1) : PadreDe(s, m) = j => \E a \in 1..(n + 1) : y[a] = m
    BY <1>0, <1>1, <2>2, <2>3, <2>4, Zenon
  <2>7. ASSUME NEW a \in 1..(n + 1), NEW b \in 1..(n + 1), y[a] = y[b] PROVE a = b
    <3>1. CASE a \in 1..n /\ b \in 1..n
      BY <1>0, <2>2, <2>3, <2>7, <3>1, Zenon
    <3>2. CASE a \in 1..n /\ b = n + 1
      <4>1. y[a] # k + 1
        BY <1>0, <1>1, <2>2, <2>3, <3>2, Zenon
      <4> QED BY <2>3, <2>7, <3>2, <4>1, Zenon
    <3>3. CASE a = n + 1 /\ b \in 1..n
      <4>1. y[b] # k + 1
        BY <1>0, <1>1, <2>2, <2>3, <3>3, Zenon
      <4> QED BY <2>3, <2>7, <3>3, <4>1, Zenon
    <3> QED BY <2>4, <3>1, <3>2, <3>3
  <2>8. Hijas(y, s, j, k + 1)
    BY <2>3, <2>5, <2>6, <2>7, Zenon DEF Hijas
  <2>9. Suma(x, s, j, k + 1) = y
    BY <1>3, <2>1 DEF Suma
  <2> QED BY <2>8, <2>9
<1> QED BY <1>2, <1>3

LEMMA ChildrenRead ==
    ASSUME NEW s \in Seq(Registros), NEW j \in 1..Len(s)
    PROVE  Hijas(HijosDe(s, j), s, j, Len(s))
<1>0. PICK n \in Nat : n = Len(s)
  OBVIOUS
<1>1. PICK h : EsLista(h, s, j, n) /\ HijosDe(s, j) = h[n]
  BY <1>0, ListIsRead
<1> DEFINE S == {m \in Nat : j + m <= n => Hijas(h[j + m], s, j, j + m)}
<1>2. 0 \in S
  <2>1. h[j] = <<>> /\ j + 0 = j /\ \A m \in (j + 1)..j : FALSE
    BY <1>1 DEF EsLista
  <2>2. <<>> \in Seq(Nat) /\ \A a \in 1..Len(<<>>) : FALSE
    OBVIOUS
  <2>3. Hijas(<<>>, s, j, j)
    BY <2>1, <2>2, Zenon DEF Hijas
  <2>4. Hijas(h[j + 0], s, j, j + 0)
    BY <2>1, <2>3, Zenon
  <2> QED BY <2>4
<1>3. ASSUME NEW m \in Nat, m \in S PROVE m + 1 \in S
  <2>1. CASE j + (m + 1) <= n
    <3>1. PICK k \in Nat : k = j + m
      OBVIOUS
    <3>2. /\ k + 1 = j + (m + 1) /\ k + 1 \in (j + 1)..n /\ (k + 1) - 1 = k /\ k <= n
          /\ j <= k
      BY <2>1, <3>1
    <3>3. h[k + 1] = Suma(h[(k + 1) - 1], s, j, k + 1)
      BY <1>1, <3>2, Zenon DEF EsLista
    <3>4. PICK x : x = h[k]
      OBVIOUS
    <3>5. h[k + 1] = Suma(x, s, j, k + 1)
      BY <3>2, <3>3, <3>4, Zenon
    <3>6. Hijas(x, s, j, k)
      BY <1>3, <3>1, <3>2, <3>4
    <3>7. Hijas(Suma(x, s, j, k + 1), s, j, k + 1)
      BY <3>2, <3>6, ListGrows
    <3>8. Hijas(h[j + (m + 1)], s, j, j + (m + 1))
      BY <3>2, <3>5, <3>7, Zenon
    <3> QED BY <3>8
  <2> QED BY <2>1
<1>4. Nat \subseteq S
  <2> HIDE DEF S
  <2> QED BY <1>2, <1>3, Induction
<1>5. n - j \in S /\ j + (n - j) = n /\ j + (n - j) <= n
  <2>1. n - j \in Nat /\ j + (n - j) = n /\ j + (n - j) <= n
    BY <1>0
  <2> HIDE DEF S
  <2> QED BY <1>4, <2>1
<1>6. Hijas(h[n], s, j, n)
  BY <1>5
<1> QED BY <1>0, <1>1, <1>6

-----------------------------------------------------------------------------
(* And the tree it builds.                                                   *)

(* What a mount reads from such a file is a tree.                            *)
LEMMA MountedTree ==
    ASSUME NEW t, Sano(t), Len(t) >= 1, 1..Len(t) \subseteq Inodes,
           inodo' = Leido(t), raiz' = 1, nuevo' = Ninguno
    PROVE  ArbolInv' /\ Sobras' /\ raiz' \in DOMAIN inodo' /\ \E prof : Hondo(prof)'
<1>0. t \in Seq(Registros) /\ \A m \in 1..(Len(t) - 1) : Faltan(t)[m] >= 1
  BY DEF Sano
<1>1. PICK N \in Nat : N = Len(t)
  BY <1>0
<1>2. N >= 1 /\ 1 \in 1..N /\ 1..N \subseteq Inodes /\ DOMAIN t = 1..N
  BY <1>0, <1>1
<1>3. ASSUME NEW j \in 1..N
      PROVE  /\ t[j] \in Registros
             /\ Hijas(HijosDe(t, j), t, j, N)
  BY <1>0, <1>1, ChildrenRead
<1>4. /\ DOMAIN inodo' = 1..N
      /\ \A j \in 1..N : inodo'[j] =
            [nombre |-> t[j].nombre, modo |-> t[j].modo,
             es_directorio |-> t[j].es_directorio, contenido |-> t[j].contenido,
             hijos |-> HijosDe(t, j)]
  BY <1>2 DEF Leido
<1>5. \A j \in 1..N : /\ inodo'[j].nombre = t[j].nombre
                      /\ inodo'[j].es_directorio = t[j].es_directorio
                      /\ inodo'[j].hijos = HijosDe(t, j)
  BY <1>4
<1>6. ASSUME NEW j \in 1..N
      PROVE  /\ inodo'[j].hijos \in Seq(Nat)
             /\ \A a \in DOMAIN inodo'[j].hijos :
                   inodo'[j].hijos[a] \in (j + 1)..N /\ PadreDe(t, inodo'[j].hijos[a]) = j
             /\ \A k \in (j + 1)..N : PadreDe(t, k) = j => k \in ToSet(inodo'[j].hijos)
             /\ \A a, b \in DOMAIN inodo'[j].hijos :
                   inodo'[j].hijos[a] = inodo'[j].hijos[b] => a = b
  <2>1. PICK x : x = HijosDe(t, j)
    OBVIOUS
  <2>2. Hijas(x, t, j, N)
    BY <1>3, <2>1
  <2>3. /\ x \in Seq(Nat)
        /\ \A a \in 1..Len(x) : x[a] \in (j + 1)..N /\ PadreDe(t, x[a]) = j
        /\ \A m \in (j + 1)..N : PadreDe(t, m) = j => \E a \in 1..Len(x) : x[a] = m
        /\ \A a, b \in 1..Len(x) : x[a] = x[b] => a = b
    BY <2>2 DEF Hijas
  <2>4. DOMAIN x = 1..Len(x)
    BY <2>3
  <2>5. \A k \in (j + 1)..N : PadreDe(t, k) = j => k \in ToSet(x)
    BY <2>3, <2>4, Zenon DEF ToSet
  <2>6. inodo'[j].hijos = x
    BY <1>5, <2>1
  <2>7. /\ x \in Seq(Nat)
        /\ \A a \in DOMAIN x : x[a] \in (j + 1)..N /\ PadreDe(t, x[a]) = j
        /\ \A a, b \in DOMAIN x : x[a] = x[b] => a = b
    BY <2>3, <2>4
  <2> QED BY <2>5, <2>6, <2>7, Zenon
<1>7. ASSUME NEW j \in 1..N, NEW c \in ToSet(inodo'[j].hijos)
      PROVE  c \in (j + 1)..N /\ c \in 2..N /\ PadreDe(t, c) = j
  <2>1. PICK a \in DOMAIN inodo'[j].hijos : c = inodo'[j].hijos[a]
    BY <1>7 DEF ToSet
  <2>2. c \in (j + 1)..N /\ PadreDe(t, c) = j
    BY <1>6, <2>1
  <2> QED BY <2>2
<1>8. ASSUME NEW k \in 2..N
      PROVE  /\ k \in 1..N /\ PadreDe(t, k) \in 1..N
             /\ k \in ToSet(inodo'[PadreDe(t, k)].hijos)
             /\ t[PadreDe(t, k)].cantidad_hijos > 0
  <2>1. EsPadre(t, PadreDe(t, k), k)
    <3>1. k \in 2..Len(t) /\ \A m \in 1..(k - 1) : Faltan(t)[m] >= 1
      BY <1>0, <1>1
    <3> QED BY <1>0, <3>1, ParentThere
  <2>2. PICK j \in 1..(k - 1) : j = PadreDe(t, k)
    BY <2>1 DEF EsPadre
  <2>3. j \in 1..N /\ k \in (j + 1)..N
    BY <2>2
  <2>4. k \in ToSet(inodo'[j].hijos)
    BY <1>6, <2>2, <2>3
  <2>5. t[j].cantidad_hijos > 0
    BY <2>1, <2>2 DEF EsPadre, Espera
  <2> QED BY <2>2, <2>3, <2>4, <2>5
<1>9. MontonOK'
  <2>1. ASSUME NEW j \in 1..N PROVE inodo'[j] \in Nodo
    <3>1. t[j] \in Registros
      BY <1>3
    <3>2. HijosDe(t, j) \in Seq(Inodes)
      <4>1. inodo'[j].hijos \in Seq(Nat) /\ inodo'[j].hijos = HijosDe(t, j)
        BY <1>5, <1>6
      <4>2. PICK x : x = HijosDe(t, j)
        OBVIOUS
      <4>3. x \in Seq(Nat) /\ \A a \in DOMAIN x : x[a] \in (j + 1)..N
        BY <1>6, <4>1, <4>2
      <4>4. \A a \in 1..Len(x) : x[a] \in Inodes
        <5>1. \A c \in (j + 1)..N : c \in 1..N
          OBVIOUS
        <5>2. DOMAIN x = 1..Len(x)
          BY <4>3
        <5> QED BY <1>2, <4>3, <5>1, <5>2
      <4>5. x \in Seq(Inodes)
        BY <4>3, <4>4
      <4> QED BY <4>2, <4>5
    <3>3. /\ t[j].nombre \in Nombres \union {"/", Basura} /\ t[j].modo \in SUBSET {"r", "w"}
          /\ t[j].es_directorio \in BOOLEAN /\ t[j].contenido \in BoundedSeq(Celdas, MaxSize)
      BY <3>1 DEF Registros
    <3> QED BY <1>4, <3>2, <3>3 DEF Nodo
  <2> QED BY <1>2, <1>4, <2>1 DEF MontonOK
<1>10. ~Pendiente' /\ SinPadre' = {1}
  <2>1. ~Pendiente'
    BY DEF Pendiente, Ninguno
  <2> QED BY <1>2, <1>4, <2>1 DEF SinPadre
<1>11. UnSoloLugar'
  <2>1. ASSUME NEW d \in DOMAIN inodo', NEW e \in DOMAIN inodo',
               NEW k \in DOMAIN inodo'[d].hijos, NEW l \in DOMAIN inodo'[e].hijos,
               inodo'[d].hijos[k] = inodo'[e].hijos[l]
        PROVE  d = e /\ k = l
    <3>1. d \in 1..N /\ e \in 1..N
      BY <1>4
    <3>2. d = e
      BY <1>6, <2>1, <3>1
    <3> QED BY <1>6, <2>1, <3>1, <3>2
  <2>2. \A d \in DOMAIN inodo' : ToSet(inodo'[d].hijos) \subseteq DOMAIN inodo' \ SinPadre'
    <3>1. \A c \in 2..N : c \in 1..N \ {1}
      OBVIOUS
    <3> QED BY <1>4, <1>7, <1>10, <3>1
  <2>3. ASSUME NEW i \in DOMAIN inodo' \ SinPadre'
        PROVE  \E d \in DOMAIN inodo' : i \in ToSet(inodo'[d].hijos)
    <3>1. i \in 2..N
      BY <1>4, <1>10
    <3> QED BY <1>4, <1>8, <3>1
  <2> QED BY <2>1, <2>2, <2>3 DEF UnSoloLugar
<1>12. NombresDistintos'
  <2> SUFFICES ASSUME NEW i \in DOMAIN inodo', NEW j \in DOMAIN inodo'[i].hijos,
                      NEW k \in DOMAIN inodo'[i].hijos,
                      inodo'[inodo'[i].hijos[j]].nombre = inodo'[inodo'[i].hijos[k]].nombre
               PROVE  j = k \/ inodo'[inodo'[i].hijos[j]].nombre = Basura
    BY DEF NombresDistintos
  <2>1. i \in 1..N
    BY <1>4
  <2>2. PICK c : c = inodo'[i].hijos[j]
    OBVIOUS
  <2>3. PICK e : e = inodo'[i].hijos[k]
    OBVIOUS
  <2>4. /\ c \in (i + 1)..N /\ PadreDe(t, c) = i
        /\ e \in (i + 1)..N /\ PadreDe(t, e) = i
        /\ c = e => j = k
    BY <1>6, <2>1, <2>2, <2>3
  <2>5. c \in 2..N /\ e \in 2..N /\ c \in 1..N /\ e \in 1..N
    BY <2>1, <2>4
  <2>6. t[c].nombre = t[e].nombre /\ inodo'[c].nombre = t[c].nombre
    BY <1>5, <2>2, <2>3, <2>5
  <2>7. \A l \in 2..N : \A m \in 2..(l - 1) :
           PadreDe(t, m) = PadreDe(t, l) => t[m].nombre # t[l].nombre \/ t[m].nombre = Basura
    BY <1>1 DEF Sano, SinRepetir
  <2>8. c = e \/ c \in 2..(e - 1) \/ e \in 2..(c - 1)
    BY <2>5
  <2>9. c = e \/ t[c].nombre = Basura
    <3>1. CASE c \in 2..(e - 1)
      BY <2>4, <2>5, <2>6, <2>7, <3>1
    <3>2. CASE e \in 2..(c - 1)
      BY <2>4, <2>5, <2>6, <2>7, <3>2
    <3> QED BY <2>8, <3>1, <3>2
  <2> QED BY <2>2, <2>4, <2>6, <2>9
<1>13. ASSUME NEW i \in DOMAIN inodo', inodo'[i].hijos # <<>> PROVE inodo'[i].es_directorio
  <2>1. i \in 1..N
    BY <1>4
  <2>2. PICK x \in Seq(Nat) : x = inodo'[i].hijos
    BY <1>6, <2>1
  <2>3. 1 \in DOMAIN x
    BY <1>13, <2>2
  <2>4. x[1] \in ToSet(inodo'[i].hijos)
    BY <2>2, <2>3 DEF ToSet
  <2>5. x[1] \in 2..N /\ PadreDe(t, x[1]) = i
    BY <1>7, <2>1, <2>4
  <2>6. t[i].cantidad_hijos > 0
    BY <1>8, <2>5
  <2>7. t[i].es_directorio
    BY <1>1, <2>1, <2>6 DEF Sano
  <2> QED BY <1>5, <2>1, <2>7
<1>14. ASSUME NEW i \in DOMAIN inodo' \ {raiz'} PROVE inodo'[i].nombre # "/"
  <2>1. i \in 2..N /\ i \in 1..N
    BY <1>4
  <2>2. t[i].nombre # "/"
    BY <1>1, <2>1 DEF Sano
  <2> QED BY <1>5, <2>1, <2>2
<1>15. \E prof : Hondo(prof)'
  <2>1. PICK q : Honda(t, q)
    BY DEF Sano
  <2>2. q \in [1..N -> 0..MaxDepth] /\ q[1] = 0 /\ \A k \in 2..N : q[k] = q[PadreDe(t, k)] + 1
    BY <1>1, <1>2, <2>1 DEF Honda
  <2>3. \A d \in DOMAIN inodo' : \A c \in ToSet(inodo'[d].hijos) : q[c] = q[d] + 1
    BY <1>4, <1>7, <2>2
  <2>4. Hondo(q)'
    BY <1>4, <2>2, <2>3 DEF Hondo
  <2> QED BY <2>4
<1>16. raiz' \in DOMAIN inodo'
  BY <1>2, <1>4
<1>17. ArbolInv'
  BY <1>9, <1>10, <1>11, <1>12, <1>13, <1>14, <1>16, NingunoIsEncargo DEF ArbolInv
<1>18. Sobras'
  BY <1>1, <1>4, <1>5 DEF Sobras, Sano
<1> QED BY <1>15, <1>16, <1>17, <1>18

(* What a mount reads of a whole dump is the tree that was dumped.           *)
LEMMA DumpIsMirror ==
    ASSUME ArbolInv, raiz \in DOMAIN inodo, NEW s, NEW phi, Completo(s, phi, raiz)
    PROVE  /\ Entero(s)
           /\ ArbolDe(CargarInode(s), 1) = ArbolDe(inodo, raiz)
<1>0. /\ s \in Seq(Registros) /\ Len(s) >= 1 /\ Faltan(s)[Len(s)] = 0
      /\ \A m \in 1..(Len(s) - 1) : Faltan(s)[m] >= 1
  BY DEF Completo, Abierto
<1>1. PICK N \in Nat : N = Len(s)
  BY <1>0
<1>2. N >= 1 /\ 1 \in 1..N /\ DOMAIN s = 1..N
  BY <1>0, <1>1
<1>3. CargarInode(s) = Leido(s)
  <2>0. PICK n \in Nat : n = Faltan(s)[Len(s)] /\ n = 0
    BY <1>0
  <2>1. PICK t : t = s \o [k \in 1..n |-> RegistroBasura]
    OBVIOUS
  <2>2. Relleno(t, s, n)
    BY <1>0, <2>1, MadeUpRest
  <2>3. t \in Seq(Registros) /\ Len(t) = Len(s) + 0 /\ \A k \in 1..Len(s) : t[k] = s[k]
    BY <2>0, <2>2 DEF Relleno
  <2>4. t = s
    BY <1>0, <2>3
  <2>5. CargarInode(s) = Leido(s \o [k \in 1..(Faltan(s)[Len(s)]) |-> RegistroBasura])
    BY DEF CargarInode
  <2> QED BY <2>0, <2>1, <2>4, <2>5, Zenon
<1>4. /\ phi \in [1..N -> DOMAIN inodo] /\ phi[1] = raiz
      /\ \A k \in 1..N : s[k] = Registro(phi[k])
      /\ \A k \in 2..N : /\ PadreDe(s, k) \in 1..(k - 1)
                         /\ phi[k] \in ToSet(inodo[phi[PadreDe(s, k)]].hijos)
      /\ \A j \in 1..N : \A h \in ToSet(inodo[phi[j]].hijos) :
            \E k \in 2..N : PadreDe(s, k) = j /\ phi[k] = h
  BY <1>1 DEF Completo, Imagen, Llenos
<1>5. PICK n2 : n2 = Leido(s)
  OBVIOUS
<1>6. ASSUME NEW j \in 1..N
      PROVE  /\ Vista(n2, j) = Vista(inodo, phi[j])
             /\ n2[j].nombre = inodo[phi[j]].nombre
             /\ n2[j].es_directorio = inodo[phi[j]].es_directorio
             /\ n2[j].hijos = HijosDe(s, j)
  <2>1. n2[j] = [nombre |-> s[j].nombre, modo |-> s[j].modo,
                 es_directorio |-> s[j].es_directorio, contenido |-> s[j].contenido,
                 hijos |-> HijosDe(s, j)]
    BY <1>2, <1>5 DEF Leido
  <2>2. s[j] = [nombre |-> inodo[phi[j]].nombre, modo |-> inodo[phi[j]].modo,
                es_directorio |-> inodo[phi[j]].es_directorio,
                contenido |-> inodo[phi[j]].contenido,
                cantidad_hijos |-> Len(inodo[phi[j]].hijos)]
    BY <1>4 DEF Registro
  <2> QED BY <2>1, <2>2 DEF Vista
<1>7. ASSUME NEW j \in 1..N
      PROVE  /\ \A k \in ToSet(n2[j].hijos) : k \in (j + 1)..N /\ PadreDe(s, k) = j
             /\ \A k \in (j + 1)..N : PadreDe(s, k) = j => k \in ToSet(n2[j].hijos)
  <2>1. PICK x : x = HijosDe(s, j)
    OBVIOUS
  <2>2. Hijas(x, s, j, N)
    BY <1>0, <1>1, <2>1, ChildrenRead
  <2>3. /\ x \in Seq(Nat)
        /\ \A a \in 1..Len(x) : x[a] \in (j + 1)..N /\ PadreDe(s, x[a]) = j
        /\ \A m \in (j + 1)..N : PadreDe(s, m) = j => \E a \in 1..Len(x) : x[a] = m
    BY <2>2 DEF Hijas
  <2>4. DOMAIN x = 1..Len(x)
    BY <2>3
  <2>5. n2[j].hijos = x
    BY <1>6, <2>1
  <2>6. \A k \in ToSet(x) : k \in (j + 1)..N /\ PadreDe(s, k) = j
    BY <2>3, <2>4, Zenon DEF ToSet
  <2>7. \A k \in (j + 1)..N : PadreDe(s, k) = j => k \in ToSet(x)
    BY <2>3, <2>4, Zenon DEF ToSet
  <2> QED BY <2>5, <2>6, <2>7, Zenon
<1>8. Espejo(inodo, raiz, n2, 1, phi, 1..N)
  <2>1. ASSUME NEW j \in 1..N, NEW k \in ToSet(n2[j].hijos)
        PROVE  k \in 1..N /\ phi[k] \in ToSet(inodo[phi[j]].hijos)
    <3>1. k \in (j + 1)..N /\ PadreDe(s, k) = j
      BY <1>7, <2>1
    <3>2. k \in 2..N /\ k \in 1..N
      BY <3>1
    <3> QED BY <1>4, <3>1, <3>2
  <2>2. ASSUME NEW j \in 1..N, NEW h \in ToSet(inodo[phi[j]].hijos)
        PROVE  \E k \in ToSet(n2[j].hijos) : phi[k] = h
    <3>1. PICK k \in 2..N : PadreDe(s, k) = j /\ phi[k] = h
      BY <1>4, <2>2
    <3>2. k \in (j + 1)..N
      BY <1>4, <3>1
    <3> QED BY <1>7, <3>1, <3>2
  <2> QED BY <1>2, <1>4, <1>6, <2>1, <2>2 DEF Espejo
<1>9. ArbolDe(inodo, raiz) = ArbolDe(n2, 1)
  BY <1>8, MirrorTree
<1>10. Entero(s)
  BY <1>0 DEF Entero
<1> QED BY <1>3, <1>5, <1>9, <1>10

(* A mount of a new disk makes the root.                                     *)
LEMMA NewTree ==
    ASSUME 1 \in Inodes, inodo' = RaizNueva, raiz' = 1, nuevo' = Ninguno
    PROVE  ArbolInv' /\ Sobras' /\ raiz' \in DOMAIN inodo' /\ \E prof : Hondo(prof)'
<1>1. DOMAIN inodo' = {1} /\ inodo'[1] = CrearInode("/", {"r", "w"}, TRUE)
  BY DEF RaizNueva
<1>2. inodo'[1].hijos = <<>> /\ inodo'[1] \in Nodo
  <2>1. <<>> \in BoundedSeq(Celdas, MaxSize) /\ <<>> \in Seq(Inodes)
    <3>1. 0 \in 0..MaxSize /\ <<>> \in [1..0 -> Celdas] /\ MaxSize \in Nat
      BY FisopfsAssumption
    <3>2. <<>> \in BoundedSeq(Celdas, MaxSize)
      BY <3>1, SeqIsBounded
    <3>3. <<>> \in Seq(Inodes)
      OBVIOUS
    <3> QED BY <3>2, <3>3
  <2>2. ASSUME NEW c \in BoundedSeq(Celdas, MaxSize), NEW hs \in Seq(Inodes)
        PROVE  [nombre |-> "/", modo |-> {"r", "w"}, es_directorio |-> TRUE,
                contenido |-> c, hijos |-> hs] \in Nodo
    BY DEF Nodo
  <2>3. CrearInode("/", {"r", "w"}, TRUE) \in Nodo
    BY <2>1, <2>2, Zenon DEF CrearInode
  <2> QED BY <1>1, <2>3 DEF CrearInode
<1>3. MontonOK'
  BY <1>1, <1>2 DEF MontonOK
<1>4. ~Pendiente' /\ SinPadre' = {1}
  <2>1. ~Pendiente'
    BY DEF Pendiente, Ninguno
  <2> QED BY <1>1, <2>1 DEF SinPadre
<1>5. \A d \in DOMAIN inodo' : ToSet(inodo'[d].hijos) = {} /\ DOMAIN inodo'[d].hijos = {}
  <2>1. DOMAIN inodo'[1].hijos = {}
    BY <1>2
  <2> QED BY <1>1, <2>1 DEF ToSet
<1>6. UnSoloLugar' /\ NombresDistintos'
  BY <1>1, <1>4, <1>5 DEF UnSoloLugar, NombresDistintos
<1>7. \E prof : Hondo(prof)'
  <2> DEFINE q == [i \in {1} |-> 0]
  <2>1. q \in [{1} -> 0..MaxDepth] /\ q[1] = 0
    BY FisopfsAssumption
  <2> HIDE DEF q
  <2>2. Hondo(q)'
    BY <1>1, <1>5, <2>1 DEF Hondo
  <2> QED BY <2>2
<1>8. ArbolInv'
  BY <1>1, <1>2, <1>3, <1>4, <1>6, NingunoIsEncargo DEF ArbolInv
<1>9. Sobras'
  <2>1. inodo'[1].nombre = "/" /\ Basura # "/"
    BY <1>1, FisopfsAssumption DEF CrearInode
  <2> QED BY <1>1, <2>1 DEF Sobras
<1> QED BY <1>1, <1>7, <1>8, <1>9

LEMMA MountKeepsTree ==
    ASSUME FisopfsInit, nuevo = Ninguno, archivo = Ausente \/ Sano(archivo)
    PROVE  ArbolInv' /\ Sobras' /\ raiz' \in DOMAIN inodo' /\ \E prof : Hondo(prof)'
<1>1. /\ 1..Len(CargarFs) \subseteq Inodes
      /\ inodo' = CargarFs /\ raiz' = 1 /\ nuevo' = Ninguno
  BY DEF FisopfsInit
<1>2. CASE archivo = Ausente
  <2>1. CargarFs = RaizNueva
    BY <1>2 DEF CargarFs
  <2>2. Len(RaizNueva) = 1
    BY DEF RaizNueva
  <2>3. 1 \in Inodes
    BY <1>1, <2>1, <2>2
  <2> QED BY <1>1, <2>1, <2>3, NewTree
<1>3. CASE archivo # Ausente
  <2>1. PICK s : s = archivo
    OBVIOUS
  <2>2. Sano(s)
    BY <1>3, <2>1
  <2>3. PICK n \in Nat : n = Faltan(s)[Len(s)]
    BY <2>2, NothingOwed
  <2>4. PICK t : t = s \o [k \in 1..n |-> RegistroBasura]
    OBVIOUS
  <2>5. Relleno(t, s, Faltan(s)[Len(s)])
    <3>1. s \in Seq(Registros)
      BY <2>2 DEF Sano
    <3>2. Relleno(t, s, n)
      BY <2>4, <3>1, MadeUpRest
    <3> QED BY <2>3, <3>2
  <2>6. Sano(t) /\ Len(t) >= 1
    BY <2>2, <2>5, PaddedIsSound
  <2>7. CargarFs = Leido(t)
    <3>1. CargarFs = CargarInode(s)
      BY <1>3, <2>1 DEF CargarFs
    <3>2. CargarInode(s) = Leido(s \o [k \in 1..(Faltan(s)[Len(s)]) |-> RegistroBasura])
      BY DEF CargarInode
    <3> QED BY <2>3, <2>4, <3>1, <3>2, Zenon
  <2>8. Len(Leido(t)) = Len(t)
    <3>1. t \in Seq(Registros)
      BY <2>6 DEF Sano
    <3>2. DOMAIN Leido(t) = 1..Len(t) /\ Len(t) \in Nat
      BY <3>1 DEF Leido
    <3>3. Leido(t) = [j \in 1..Len(t) |-> Leido(t)[j]]
      BY <3>1, <3>2 DEF Leido
    <3> QED BY <3>2, <3>3
  <2>9. inodo' = Leido(t) /\ 1..Len(t) \subseteq Inodes
    BY <1>1, <2>7, <2>8
  <2> QED BY <1>1, <2>6, <2>9, MountedTree
<1> QED BY <1>2, <1>3

-----------------------------------------------------------------------------
(* Where the inodes stand.                                                   *)

(* How deep the walk down a path has gone when it stands on a directory.     *)
LEMMA WalkDepth ==
    ASSUME ArbolInv, raiz \in DOMAIN inodo, NEW prof, Hondo(prof),
           NEW path, Len(path) \in Nat, EsDirectorio(BuscarDesde(inodo, raiz, path))
    PROVE  /\ BuscarDesde(inodo, raiz, path) \in DOMAIN inodo
           /\ prof[BuscarDesde(inodo, raiz, path)] = Len(path)
<1>1. PICK n \in Nat : n = Len(path)
  OBVIOUS
<1>2. PICK f : EsCamino(f, inodo, raiz, path, n) /\ BuscarDesde(inodo, raiz, path) = f[n]
  BY <1>1, WalkIsTaken
<1>3. \A k \in 0..n : f[k] \in DOMAIN inodo \union {NULL}
  <2>1. NodosSanos(inodo) /\ raiz \in DOMAIN inodo \union {NULL}
    BY HeapIsSane
  <2> QED BY <1>2, <2>1, WalkStaysIn
<1> DEFINE S == {k \in Nat : k <= n /\ EsDirectorio(f[k]) => prof[f[k]] = k}
<1>4. 0 \in S
  <2>1. f[0] = raiz /\ prof[raiz] = 0
    BY <1>2 DEF EsCamino, Hondo
  <2> QED BY <2>1
<1>5. ASSUME NEW k \in Nat, k \in S PROVE k + 1 \in S
  <2>1. CASE k + 1 <= n /\ EsDirectorio(f[k + 1])
    <3>1. k + 1 \in 1..n /\ (k + 1) - 1 = k /\ k <= n /\ k \in 0..n /\ k + 1 \in 0..n
      BY <2>1
    <3>2. f[k + 1] = Baja(inodo, f[(k + 1) - 1], path[k + 1])
      BY <1>2, <3>1, Zenon DEF EsCamino
    <3>3. PICK d : d = f[k]
      OBVIOUS
    <3>4. f[k + 1] = Baja(inodo, d, path[k + 1])
      BY <3>1, <3>2, <3>3
    <3>5. d # NULL /\ inodo[d].es_directorio
      <4>1. SUFFICES ASSUME ~(d # NULL /\ inodo[d].es_directorio) PROVE FALSE
        OBVIOUS
      <4>2. f[k + 1] = d
        BY <3>4, <4>1 DEF Baja
      <4> QED BY <2>1, <4>1, <4>2 DEF EsDirectorio
    <3>6. d \in DOMAIN inodo /\ f[k + 1] = Hijo(inodo, d, path[k + 1])
      BY <1>3, <3>1, <3>3, <3>4, <3>5 DEF Baja
    <3>7. f[k + 1] \in ToSet(inodo[d].hijos)
      <4>1. inodo[d].hijos \in Seq(Inodes)
        BY <3>6, HeapIsSane DEF NodosSanos
      <4>2. Hijo(inodo, d, path[k + 1]) \in ToSet(inodo[d].hijos) \union {NULL}
        BY <4>1, HijoAnswers
      <4> QED BY <2>1, <3>6, <4>2 DEF EsDirectorio
    <3>8. prof[f[k + 1]] = prof[d] + 1
      BY <3>6, <3>7 DEF Hondo
    <3>9. prof[d] = k
      BY <1>5, <3>1, <3>3, <3>5 DEF EsDirectorio
    <3> QED BY <3>8, <3>9
  <2> QED BY <2>1
<1>6. Nat \subseteq S
  <2> HIDE DEF S
  <2> QED BY <1>4, <1>5, Induction
<1>7. prof[f[n]] = n
  BY <1>2, <1>6
<1>8. n \in 0..n /\ f[n] \in DOMAIN inodo
  BY <1>2, <1>3 DEF EsDirectorio
<1> QED BY <1>1, <1>2, <1>7, <1>8

-----------------------------------------------------------------------------
(* The inductive invariant: besides the tree, where every inode stands below *)
(* the root, what hangs from nothing yet, and what is on disk.               *)
Puesto(prof) ==
    Pendiente => prof[nuevo.padre] < MaxDepth
EnMemoria ==
    /\ pc # "desmontado" => raiz \in DOMAIN inodo
    /\ \E prof : Hondo(prof) /\ Puesto(prof)
    /\ ParaColgar /\ Sobras
EnDisco ==
    /\ archivo = Ausente \/ Sano(archivo)
    /\ pc = "escribir" => Sano(archivo)
    /\ pc = "responder" /\ ~fallo => archivo = Volcado
Tipos ==
    /\ pc \in {"desmontado", "listo", "abrir", "escribir", "responder"}
    /\ fallo \in BOOLEAN
FisopfsInv == ArbolInv /\ EnMemoria /\ EnDisco /\ Tipos

(* A step that leaves every inode where it was.                              *)
LEMMA KeepsPlaces ==
    ASSUME EnMemoria, DOMAIN inodo' = DOMAIN inodo,
           \A i \in DOMAIN inodo : /\ inodo'[i].hijos = inodo[i].hijos
                                   /\ inodo'[i].nombre = inodo[i].nombre
                                   /\ inodo'[i].es_directorio = inodo[i].es_directorio,
           raiz' = raiz, pc # "desmontado" \/ pc' = pc,
           ~Pendiente' \/ (nuevo' = nuevo /\ inodo' = inodo)
    PROVE  EnMemoria'
<1>1. pc' # "desmontado" => raiz' \in DOMAIN inodo'
  BY DEF EnMemoria
<1>2. PICK prof : Hondo(prof) /\ Puesto(prof)
  BY DEF EnMemoria
<1>3. Hondo(prof)'
  BY <1>2 DEF Hondo
<1>4. Puesto(prof)' /\ ParaColgar'
  <2>1. CASE ~Pendiente'
    BY <2>1 DEF Puesto, ParaColgar
  <2>2. CASE nuevo' = nuevo /\ inodo' = inodo
    BY <1>2, <2>2 DEF Puesto, ParaColgar, Pendiente, EnMemoria
  <2> QED BY <2>1, <2>2
<1>5. Sobras'
  BY DEF EnMemoria, Sobras
<1> QED BY <1>1, <1>3, <1>4, <1>5 DEF EnMemoria

LEMMA ContentsKeepPlaces ==
    ASSUME EnMemoria, pc = "listo", NEW n \in DOMAIN inodo, NEW c,
           MontonOK, inodo' = ConContenido(n, c), raiz' = raiz, nuevo' = Ninguno
    PROVE  EnMemoria'
<1>1. inodo' = [inodo EXCEPT ![n].contenido = c]
  BY DEF ConContenido
<1>2. DOMAIN inodo' = DOMAIN inodo
  BY <1>1
<1>3. ASSUME NEW i \in DOMAIN inodo
      PROVE  /\ inodo'[i].hijos = inodo[i].hijos
             /\ inodo'[i].nombre = inodo[i].nombre
             /\ inodo'[i].es_directorio = inodo[i].es_directorio
  <2>1. CASE i = n
    <3>1. inodo'[i] = [inodo[i] EXCEPT !.contenido = c]
      BY <1>1, <2>1
    <3>2. inodo[i] \in Nodo
      BY DEF MontonOK
    <3> QED BY <3>1, <3>2 DEF Nodo
  <2>2. CASE i # n
    BY <1>1, <2>2
  <2> QED BY <2>1, <2>2
<1>4. ~Pendiente'
  BY DEF Pendiente, Ninguno
<1> QED BY <1>2, <1>3, <1>4, KeepsPlaces

LEMMA CreateKeepsPlaces ==
    ASSUME ArbolInv, EnMemoria, pc = "listo", NEW path \in Paths, path # <<>>,
           NEW modo \in Modos, NEW esDir \in BOOLEAN,
           EsDirectorio(BuscarPadre(path)), NEW i \in Libres,
           inodo' = ConNuevo(i, CrearInode(Last(path), modo, esDir)),
           nuevo' = [padre |-> BuscarPadre(path), hijo |-> i], raiz' = raiz
    PROVE  EnMemoria'
<1>1. PICK padre : padre = BuscarPadre(path)
  OBVIOUS
<1>2. PICK prof : Hondo(prof) /\ Puesto(prof)
  BY DEF EnMemoria
<1>3. raiz \in DOMAIN inodo
  BY DEF EnMemoria
<1>4. padre \in DOMAIN inodo /\ prof[padre] < MaxDepth
  <2>1. path \in Seq(Nombres) /\ Len(path) <= MaxDepth /\ MaxDepth \in Nat
    BY BoundedIsSeq, FisopfsAssumption DEF Paths
  <2>2. Len(Front(path)) = Len(path) - 1 /\ Len(path) \in Nat /\ Len(Front(path)) \in Nat
    <3>1. path \in Seq(Nombres) /\ path # <<>>
      BY <2>1
    <3>2. Front(path) \in Seq(Nombres) /\ Len(Front(path)) = Len(path) - 1
      BY <3>1, FrontOf
    <3> QED BY <2>1, <3>2
  <2>3. padre = BuscarDesde(inodo, raiz, Front(path))
    BY <1>1 DEF BuscarPadre, BuscarInode
  <2>4. padre \in DOMAIN inodo /\ prof[padre] = Len(Front(path))
    BY <1>1, <1>2, <1>3, <2>2, <2>3, WalkDepth
  <2> QED BY <2>1, <2>2, <2>4
<1>5. i \in Inodes /\ i \notin DOMAIN inodo /\ i # padre /\ i # raiz
  BY <1>3, <1>4 DEF Libres
<1>6. /\ DOMAIN inodo' = DOMAIN inodo \union {i}
      /\ \A j \in DOMAIN inodo : inodo'[j] = inodo[j]
      /\ inodo'[i] = CrearInode(Last(path), modo, esDir)
  BY <1>5 DEF ConNuevo
<1>7. /\ inodo'[i].hijos = <<>> /\ inodo'[i].contenido = <<>> /\ inodo'[i].nombre = Last(path)
      /\ inodo'[i].modo = modo
  BY <1>6 DEF CrearInode
<1>8. Last(path) \in Nombres /\ Last(path) # Basura
  BY SearchFinds, FisopfsAssumption
<1>9. pc' # "desmontado" => raiz' \in DOMAIN inodo'
  BY <1>3, <1>6
<1>10. \E q : Hondo(q)' /\ Puesto(q)'
  <2>0. PICK q : q = [j \in DOMAIN inodo' |-> IF j = i THEN 0 ELSE prof[j]]
    OBVIOUS
  <2>1. /\ q = [j \in DOMAIN inodo' |-> q[j]] /\ q[i] = 0
        /\ \A j \in DOMAIN inodo : q[j] = prof[j]
    BY <1>5, <1>6, <2>0
  <2>2. q \in [DOMAIN inodo' -> 0..MaxDepth]
    <3>1. \A j \in DOMAIN inodo : prof[j] \in 0..MaxDepth
      BY <1>2 DEF Hondo
    <3>2. 0 \in 0..MaxDepth
      BY FisopfsAssumption
    <3>3. \A j \in DOMAIN inodo' : q[j] \in 0..MaxDepth
      BY <1>6, <2>1, <3>1, <3>2
    <3> QED BY <2>1, <3>3
  <2>3. q[raiz'] = 0
    BY <1>2, <1>3, <2>1 DEF Hondo
  <2>4. ASSUME NEW d \in DOMAIN inodo', NEW c \in ToSet(inodo'[d].hijos)
        PROVE  q[c] = q[d] + 1
    <3>1. d # i
      <4>1. ToSet(<<>>) = {}
        BY DEF ToSet
      <4> QED BY <1>7, <2>4, <4>1
    <3>2. d \in DOMAIN inodo /\ c \in ToSet(inodo[d].hijos)
      BY <1>6, <2>4, <3>1
    <3>3. c \in DOMAIN inodo
      BY <3>2, HeapIsSane DEF NodosSanos
    <3>4. prof[c] = prof[d] + 1
      BY <1>2, <3>2 DEF Hondo
    <3> QED BY <2>1, <3>2, <3>3, <3>4
  <2>5. Hondo(q)'
    BY <2>2, <2>3, <2>4 DEF Hondo
  <2>6. Puesto(q)'
    <3>1. nuevo'.padre = padre
      BY <1>1
    <3> QED BY <1>4, <2>1, <3>1 DEF Puesto
  <2> QED BY <2>5, <2>6
<1>11. ParaColgar'
  BY <1>1, <1>5, <1>7, <1>8 DEF ParaColgar
<1>12. Sobras'
  BY <1>6, <1>7, <1>8 DEF EnMemoria, Sobras
<1> QED BY <1>9, <1>10, <1>11, <1>12 DEF EnMemoria

LEMMA AddKeepsPlaces ==
    ASSUME ArbolInv, EnMemoria, Pendiente, pc # "desmontado",
           inodo' = AgregarHijo(nuevo.padre, nuevo.hijo), nuevo' = Ninguno, raiz' = raiz
    PROVE  EnMemoria'
<1>0. PICK p : p = nuevo.padre
  OBVIOUS
<1>1. PICK h : h = nuevo.hijo
  OBVIOUS
<1>2. /\ h \in DOMAIN inodo /\ h # raiz /\ inodo[h].hijos = <<>>
      /\ p \in DOMAIN inodo /\ p # h
  BY <1>0, <1>1 DEF ArbolInv, PendienteSano, EnMemoria, ParaColgar
<1>3. PICK prof : Hondo(prof) /\ Puesto(prof)
  BY DEF EnMemoria
<1>4. /\ prof \in [DOMAIN inodo -> 0..MaxDepth] /\ prof[raiz] = 0
      /\ \A d \in DOMAIN inodo : \A c \in ToSet(inodo[d].hijos) : prof[c] = prof[d] + 1
      /\ prof[p] < MaxDepth
  BY <1>0, <1>3 DEF Hondo, Puesto, EnMemoria
<1>5. inodo' = [inodo EXCEPT ![p].hijos = Append(@, h)]
  BY <1>0, <1>1 DEF AgregarHijo
<1>6. /\ inodo[p] \in Nodo /\ inodo[p].hijos \in Seq(Inodes) /\ h \in Inodes
  BY <1>2 DEF ArbolInv, MontonOK, Nodo
<1>7. /\ DOMAIN inodo' = DOMAIN inodo
      /\ inodo'[p] = [inodo[p] EXCEPT !.hijos = Append(inodo[p].hijos, h)]
      /\ \A d \in DOMAIN inodo : d # p => inodo'[d] = inodo[d]
  BY <1>2, <1>5
<1>8. /\ inodo'[p].hijos = Append(inodo[p].hijos, h)
      /\ inodo'[p].nombre = inodo[p].nombre
      /\ inodo'[p].es_directorio = inodo[p].es_directorio
  BY <1>6, <1>7 DEF Nodo
<1>9. ASSUME NEW d \in DOMAIN inodo', NEW c \in ToSet(inodo'[d].hijos)
      PROVE  (d = p /\ c = h) \/ (d \in DOMAIN inodo /\ c \in ToSet(inodo[d].hijos))
  <2>1. CASE d = p
    <3>1. PICK x : x = inodo[p].hijos
      OBVIOUS
    <3>2. PICK k \in DOMAIN Append(x, h) : c = Append(x, h)[k]
      BY <1>8, <1>9, <2>1, <3>1 DEF ToSet
    <3>3. x \in Seq(Inodes)
      BY <1>6, <3>1
    <3>4. c = h \/ (k \in DOMAIN x /\ c = x[k])
      BY <1>6, <3>2, <3>3
    <3> QED BY <1>2, <2>1, <3>1, <3>4 DEF ToSet
  <2>2. CASE d # p
    BY <1>7, <1>9, <2>2
  <2> QED BY <2>1, <2>2
<1>10. ASSUME NEW d \in DOMAIN inodo, NEW c \in ToSet(inodo[d].hijos)
       PROVE  c # h /\ d # h /\ c \in DOMAIN inodo
  <2>1. h \in SinPadre
    BY <1>1, <1>2 DEF SinPadre
  <2>2. c \in DOMAIN inodo \ SinPadre
    BY <1>10 DEF ArbolInv, UnSoloLugar
  <2>3. ToSet(<<>>) = {}
    BY DEF ToSet
  <2> QED BY <1>2, <1>10, <2>1, <2>2, <2>3
<1>11. \E q : Hondo(q)' /\ Puesto(q)'
  <2>0. PICK q : q = [j \in DOMAIN inodo |-> IF j = h THEN prof[p] + 1 ELSE prof[j]]
    OBVIOUS
  <2>1. /\ q = [j \in DOMAIN inodo |-> q[j]] /\ q[h] = prof[p] + 1
        /\ \A j \in DOMAIN inodo : j # h => q[j] = prof[j]
    BY <1>2, <2>0
  <2>2. q \in [DOMAIN inodo' -> 0..MaxDepth]
    <3>1. \A j \in DOMAIN inodo : prof[j] \in 0..MaxDepth
      BY <1>4
    <3>2. MaxDepth \in Nat
      BY FisopfsAssumption
    <3>3. prof[p] + 1 \in 0..MaxDepth
      BY <1>2, <1>4, <3>1, <3>2
    <3>4. \A j \in DOMAIN inodo' : q[j] \in 0..MaxDepth
      BY <1>7, <2>1, <3>1, <3>3
    <3> QED BY <1>7, <2>1, <3>4
  <2>3. raiz' \in DOMAIN inodo' => q[raiz'] = 0
    BY <1>2, <1>4, <1>7, <2>1
  <2>4. ASSUME NEW d \in DOMAIN inodo', NEW c \in ToSet(inodo'[d].hijos)
        PROVE  q[c] = q[d] + 1
    <3>1. CASE d = p /\ c = h
      BY <1>2, <2>1, <3>1
    <3>2. CASE d \in DOMAIN inodo /\ c \in ToSet(inodo[d].hijos)
      BY <1>4, <1>10, <2>1, <3>2
    <3> QED BY <1>9, <3>1, <3>2
  <2>5. Hondo(q)'
    BY <2>2, <2>3, <2>4 DEF Hondo
  <2>6. Puesto(q)'
    BY DEF Puesto, Pendiente, Ninguno
  <2> QED BY <2>5, <2>6
<1>12. ParaColgar'
  BY DEF ParaColgar, Pendiente, Ninguno
<1>13. Sobras'
  <2>1. \A i \in DOMAIN inodo' : /\ inodo'[i].nombre = inodo[i].nombre
                                /\ inodo'[i].es_directorio = inodo[i].es_directorio
    BY <1>7, <1>8
  <2> QED BY <1>7, <2>1 DEF EnMemoria, Sobras
<1>14. pc' # "desmontado" => raiz' \in DOMAIN inodo'
  BY <1>7 DEF EnMemoria
<1> QED BY <1>11, <1>12, <1>13, <1>14 DEF EnMemoria

LEMMA RemoveKeepsPlaces ==
    ASSUME ArbolInv, EnMemoria, pc = "listo", NEW padre \in DOMAIN inodo \union {NULL}, NEW target,
           inodo' = EliminarInode(padre, target), nuevo' = Ninguno, raiz' = raiz, ArbolInv'
    PROVE  EnMemoria'
<1>0. ~Pendiente'
  BY DEF Pendiente, Ninguno
<1>1. CASE ~EsDirectorio(padre) \/ ~Contains(inodo[padre].hijos, target)
  <2>1. inodo' = inodo
    BY <1>1 DEF EliminarInode
  <2> QED BY <1>0, <2>1, KeepsPlaces
<1>2. CASE EsDirectorio(padre) /\ Contains(inodo[padre].hijos, target)
  <2>1. padre \in DOMAIN inodo
    BY <1>2 DEF EsDirectorio
  <2>2. inodo[padre] \in Nodo /\ inodo[padre].hijos \in Seq(Inodes)
    BY <2>1 DEF ArbolInv, MontonOK, Nodo
  <2>3. target \in ToSet(inodo[padre].hijos)
    BY <1>2, <2>2 DEF Contains, ToSet
  <2>4. target \in DOMAIN inodo /\ target # raiz
    BY <2>1, <2>3 DEF ArbolInv, UnSoloLugar, SinPadre
  <2>5. PICK hs : hs = RemoveFirst(inodo[padre].hijos, target)
    OBVIOUS
  <2>6. /\ DOMAIN inodo' = DOMAIN inodo \ {target}
        /\ \A d \in DOMAIN inodo' : d # padre => inodo'[d] = inodo[d]
        /\ padre \in DOMAIN inodo' =>
              /\ inodo'[padre].hijos = hs
              /\ inodo'[padre].nombre = inodo[padre].nombre
              /\ inodo'[padre].es_directorio = inodo[padre].es_directorio
    <3>1. inodo' = [i \in DOMAIN inodo \ {target} |->
                     IF i = padre THEN [inodo[i] EXCEPT !.hijos = hs] ELSE inodo[i]]
      BY <1>2, <2>5 DEF EliminarInode
    <3>2. padre \in DOMAIN inodo' => inodo'[padre] = [inodo[padre] EXCEPT !.hijos = hs]
      BY <3>1
    <3> QED BY <2>2, <3>1, <3>2 DEF Nodo
  <2>7. ToSet(hs) \subseteq ToSet(inodo[padre].hijos)
    <3>1. PICK x : x = inodo[padre].hijos
      OBVIOUS
    <3>2. x \in Seq(Inodes) /\ Contains(x, target) /\ hs = RemoveFirst(x, target)
      BY <1>2, <2>2, <2>5, <3>1
    <3>3. PICK j \in 1..Len(x) :
             /\ x[j] = target
             /\ hs \in Seq(Inodes) /\ Len(hs) = Len(x) - 1
             /\ \A k \in 1..(Len(x) - 1) : hs[k] = x[IF k < j THEN k ELSE k + 1]
      BY <3>2, RemovedFirst
    <3>4. ASSUME NEW c \in ToSet(hs) PROVE c \in ToSet(x)
      <4>1. PICK k \in 1..(Len(x) - 1) : c = hs[k]
        BY <3>3, <3>4 DEF ToSet
      <4>2. PICK l \in 1..Len(x) : c = x[l]
        <5>1. (IF k < j THEN k ELSE k + 1) \in 1..Len(x)
          BY <3>2
        <5> QED BY <3>3, <4>1, <5>1
      <4> QED BY <3>2, <4>2 DEF ToSet
    <3> QED BY <3>1, <3>4
  <2>8. \A d \in DOMAIN inodo' : d \in DOMAIN inodo /\ ToSet(inodo'[d].hijos) \subseteq ToSet(inodo[d].hijos)
    BY <2>6, <2>7
  <2>9. PICK prof : Hondo(prof)
    BY DEF EnMemoria
  <2>10. PICK q : q = [j \in DOMAIN inodo' |-> prof[j]]
    OBVIOUS
  <2>11. q \in [DOMAIN inodo' -> 0..MaxDepth]
    <3>1. \A j \in DOMAIN inodo' : prof[j] \in 0..MaxDepth
      BY <2>8, <2>9 DEF Hondo
    <3> QED BY <2>10, <3>1
  <2>12. raiz' \in DOMAIN inodo' /\ q[raiz'] = 0
    BY <2>4, <2>6, <2>9, <2>10 DEF EnMemoria, Hondo
  <2>13. ASSUME NEW d \in DOMAIN inodo', NEW c \in ToSet(inodo'[d].hijos)
         PROVE  q[c] = q[d] + 1
    <3>1. d \in DOMAIN inodo /\ c \in ToSet(inodo[d].hijos)
      BY <2>8, <2>13
    <3>2. prof[c] = prof[d] + 1
      BY <2>9, <3>1 DEF Hondo
    <3>4. c \in DOMAIN inodo'
      BY <2>13 DEF ArbolInv, UnSoloLugar
    <3> QED BY <2>10, <3>2, <3>4
  <2>14. Hondo(q)'
    BY <2>11, <2>12, <2>13 DEF Hondo
  <2>15. Puesto(q)' /\ ParaColgar'
    BY <1>0 DEF Puesto, ParaColgar
  <2>16. Sobras'
    BY <2>6, <2>8 DEF EnMemoria, Sobras
  <2> QED BY <2>12, <2>14, <2>15, <2>16 DEF EnMemoria
<1> QED BY <1>1, <1>2

-----------------------------------------------------------------------------
(* The steps, and the theorems.                                              *)

(* The dump depends on nothing but the heap.                                 *)
LEMMA SameDump ==
    ASSUME inodo' = inodo, raiz' = raiz
    PROVE  Volcado' = Volcado
BY DEF Volcado, GuardarInode, Registro

(* What is written now, and nothing at all, are sound.                       *)
LEMMA DumpNowIsSound ==
    ASSUME ArbolInv, EnMemoria, pc # "desmontado"
    PROVE  Sano(Volcado)
<1>1. PICK prof : Hondo(prof)
  BY DEF EnMemoria
<1> QED BY <1>1, DumpIsSound DEF EnMemoria

LEMMA EmptyIsSound == Sano(<<>>)
<1>1. <<>> \in Seq(Registros) /\ Len(<<>>) = 0
  OBVIOUS
<1>2. PICK q : q = [k \in {} |-> 0]
  OBVIOUS
<1>3. 1..0 = {} /\ q \in [{} -> 0..MaxDepth]
  BY <1>2
<1>4. Honda(<<>>, q)
  BY <1>1, <1>3 DEF Honda
<1>5. SinRepetir(<<>>)
  BY <1>1 DEF SinRepetir
<1> QED BY <1>1, <1>4, <1>5 DEF Sano

(* A request.                                                                *)
LEMMA RequestKeepsPlaces ==
    ASSUME ArbolInv, EnMemoria, Pedido, ArbolInv'
    PROVE  EnMemoria' /\ pc' \in {"listo", "abrir"} /\ archivo' = archivo /\ fallo' = fallo
<1>1. PICK path \in Paths : Pedible(path) /\ Cambio(path)
  BY DEF Pedido
<1>2. pc = "listo"
  BY <1>1 DEF Pedible
<1> DEFINE n == BuscarInode(path)
           Bien == EnMemoria' /\ pc' \in {"listo", "abrir"} /\ archivo' = archivo /\ fallo' = fallo
<1>0. SUFFICES Bien
  OBVIOUS
<1>3. n \in DOMAIN inodo \union {NULL} /\ BuscarPadre(path) \in DOMAIN inodo \union {NULL}
  BY SearchFinds
<1>4. ASSUME UNCHANGED vars PROVE Bien
  <2>1. inodo' = inodo /\ raiz' = raiz /\ nuevo' = nuevo /\ pc' = pc /\ archivo' = archivo /\ fallo' = fallo
    BY <1>4 DEF vars
  <2> QED BY <1>2, <2>1, KeepsPlaces
<1>5. ASSUME NEW h, GuardarTras(h, Ninguno)
      PROVE  /\ inodo' = h /\ nuevo' = Ninguno /\ raiz' = raiz /\ pc' = "abrir"
             /\ archivo' = archivo /\ fallo' = fallo
  BY <1>5 DEF GuardarTras
<1>6. ASSUME NEW modo \in Modos, NEW esDir \in BOOLEAN, path # <<>>, Crear(path, modo, esDir)
      PROVE  Bien
  <2>1. CASE ~EsDirectorio(BuscarPadre(path)) \/ n # NULL
    BY <1>4, <1>6, <2>1 DEF Crear, Error
  <2>2. CASE EsDirectorio(BuscarPadre(path)) /\ n = NULL
    <3>1. /\ Libres # {}
          /\ GuardarTras(ConNuevo(Min(Libres), CrearInode(Last(path), modo, esDir)),
                         [padre |-> BuscarPadre(path), hijo |-> Min(Libres)])
      BY <1>6, <2>2 DEF Crear
    <3>2. Min(Libres) \in Libres
      BY <3>1, MinIsLeast, FisopfsAssumption DEF Libres
    <3> QED BY <1>2, <1>6, <2>2, <3>1, <3>2, CreateKeepsPlaces DEF GuardarTras
  <2> QED BY <2>1, <2>2
<1>7. ASSUME NEW c, EsArchivo(n), GuardarTras(ConContenido(n, c), Ninguno)
      PROVE  Bien
  <2>1. n \in DOMAIN inodo /\ MontonOK
    BY <1>3, <1>7 DEF EsArchivo, ArbolInv
  <2> QED BY <1>2, <1>5, <1>7, <2>1, ContentsKeepPlaces
<1>8. ASSUME GuardarTras(EliminarInode(BuscarPadre(path), n), Ninguno)
      PROVE  Bien
  BY <1>2, <1>3, <1>5, <1>8, RemoveKeepsPlaces
<1>9. ASSUME NEW k, NEW d, Write(path, d, k) PROVE Bien
  BY <1>4, <1>7, <1>9 DEF Write, Error
<1>10. ASSUME Unlink(path) PROVE Bien
  BY <1>4, <1>8, <1>10 DEF Unlink, Error
<1>11. ASSUME Rmdir(path) PROVE Bien
  BY <1>4, <1>8, <1>11 DEF Rmdir, Error
<1>12. ASSUME NEW a, NEW t, Open(path, a, t) PROVE Bien
  BY <1>4, <1>7, <1>12 DEF Open, PuedeAbrir
<1>13. ASSUME NEW k, Truncate(path, k) PROVE Bien
  BY <1>4, <1>7, <1>13 DEF Truncate, Error
<1>14. ASSUME Utimens(path) PROVE Bien
  <2>1. CASE n = NULL
    BY <1>4, <1>14, <2>1 DEF Utimens, Error
  <2>2. CASE n # NULL
    <3>1. GuardarTras(inodo, Ninguno)
      BY <1>14, <2>2 DEF Utimens
    <3>2. ~Pendiente'
      BY <1>5, <3>1 DEF Pendiente, Ninguno
    <3> QED BY <1>2, <1>5, <3>1, <3>2, KeepsPlaces
  <2> QED BY <2>1, <2>2
<1> HIDE DEF n, Bien
<1>15. CASE path # <<>> /\ \E m \in Modos : Mkdir(path, m) \/ Create(path, m)
  BY <1>6, <1>15 DEF Mkdir, Create
<1>16. CASE \E k \in 0..(MaxSize-1) : \E d \in BoundedSeq(Bytes, MaxSize - k) :
              d # <<>> /\ Write(path, d, k)
  BY <1>9, <1>16
<1>17. CASE \E a \in {"rd", "wr", "rdwr"}, t \in BOOLEAN : Open(path, a, t)
  BY <1>12, <1>17
<1>18. CASE \E k \in 0..MaxSize : Truncate(path, k)
  BY <1>13, <1>18
<1> QED BY <1>1, <1>10, <1>11, <1>14, <1>15, <1>16, <1>17, <1>18, Zenon DEF Cambio

(* The end of the process.                                                   *)
LEMMA EndKeepsPlaces ==
    ASSUME Apagado
    PROVE  EnMemoria'
<1>1. inodo' = <<>> /\ DOMAIN inodo' = {} /\ raiz' = NULL /\ ~Pendiente' /\ pc' = "desmontado"
  BY DEF Apagado, Pendiente, Ninguno
<1>2. PICK prof : prof = [i \in {} |-> 0]
  OBVIOUS
<1>3. prof \in [{} -> 0..MaxDepth]
  BY <1>2
<1>4. Hondo(prof)' /\ Puesto(prof)'
  BY <1>1, <1>3 DEF Hondo, Puesto
<1> QED BY <1>1, <1>4 DEF EnMemoria, ParaColgar, Sobras

(* The last step of a request, or of the umount.                             *)
LEMMA AnswerKeepsPlaces ==
    ASSUME ArbolInv, EnMemoria, Responder
    PROVE  EnMemoria'
<1>1. CASE Desmontando
  BY <1>1, EndKeepsPlaces DEF Responder
<1>2. CASE ~Desmontando
  <2>1. /\ inodo' = IF nuevo = Ninguno THEN inodo ELSE AgregarHijo(nuevo.padre, nuevo.hijo)
        /\ nuevo' = Ninguno /\ raiz' = raiz /\ pc = "responder"
    BY <1>2 DEF Responder
  <2>2. CASE nuevo = Ninguno
    <3>1. inodo' = inodo /\ ~Pendiente'
      BY <2>1, <2>2 DEF Pendiente, Ninguno
    <3> QED BY <2>1, <3>1, KeepsPlaces
  <2>3. CASE nuevo # Ninguno
    <3>1. Pendiente
      BY <1>2, <2>3 DEF Pendiente, Desmontando, ArbolInv, Encargo, Ninguno
    <3> QED BY <2>1, <2>3, <3>1, AddKeepsPlaces
  <2> QED BY <2>2, <2>3
<1> QED BY <1>1, <1>2

(* The steps of a save.                                                      *)
LEMMA OpenKeepsFile ==
    ASSUME EnDisco, AbrirDisco
    PROVE  EnDisco' /\ Tipos'
<1>1. CASE archivo' = <<>> /\ pc' = "escribir" /\ fallo' = FALSE
  BY <1>1, EmptyIsSound DEF EnDisco, Tipos
<1>2. CASE archivo' = archivo /\ pc' = "responder" /\ fallo' = TRUE
  BY <1>2 DEF EnDisco, Tipos
<1> QED BY <1>1, <1>2 DEF AbrirDisco

LEMMA SpillKeepsFile ==
    ASSUME ArbolInv, EnMemoria, EnDisco, Tipos, VolcarBuffer
    PROVE  EnDisco' /\ Tipos'
<1>1. pc' = "escribir" /\ pc = "escribir" /\ fallo' = fallo
  BY DEF VolcarBuffer
<1>2. PICK n \in (Len(archivo)+1)..(Len(Volcado)-1) : archivo' = SubSeq(Volcado, 1, n)
  BY DEF VolcarBuffer
<1>3. Sano(Volcado) /\ Sano(archivo)
  BY <1>1, DumpNowIsSound DEF EnDisco
<1>4. Sano(archivo')
  <2>1. PICK s : s = Volcado
    OBVIOUS
  <2>2. s \in Seq(Registros) /\ archivo \in Seq(Registros) /\ Sano(s)
    BY <1>3, <2>1 DEF Sano
  <2>3. n \in Nat /\ n <= Len(s)
    BY <1>2, <2>1, <2>2
  <2>4. /\ SubSeq(s, 1, n) \in Seq(Registros) /\ Len(SubSeq(s, 1, n)) = n
        /\ \A k \in 1..n : SubSeq(s, 1, n)[k] = s[k]
    BY <2>2, <2>3
  <2>5. Sano(SubSeq(s, 1, n))
    BY <2>2, <2>3, <2>4, CutIsSound
  <2> QED BY <1>2, <2>1, <2>5
<1> QED BY <1>1, <1>4 DEF EnDisco, Tipos

(* The file is not touched before the save, and holds the dump after it.     *)
LEMMA CloseKeepsFile ==
    ASSUME ArbolInv, EnMemoria, CerrarDisco
    PROVE  EnDisco' /\ archivo' = Volcado /\ pc' = "responder" /\ fallo' = fallo
<1>1. /\ archivo' = Volcado /\ pc' = "responder" /\ fallo' = fallo /\ pc = "escribir"
      /\ inodo' = inodo /\ raiz' = raiz
  BY DEF CerrarDisco
<1>2. Sano(Volcado)
  BY <1>1, DumpNowIsSound
<1>3. Volcado' = Volcado
  BY <1>1, SameDump
<1> QED BY <1>1, <1>2, <1>3 DEF EnDisco

LEMMA FileKept ==
    ASSUME EnDisco, archivo' = archivo, pc' \notin {"escribir", "responder"}
    PROVE  EnDisco'
BY DEF EnDisco

(* The inductive step, for each action.                                      *)
LEMMA StepKeepsAll ==
    ASSUME FisopfsInv, [Next]_vars
    PROVE  FisopfsInv'
<1>0. ArbolInv /\ EnMemoria /\ EnDisco /\ Tipos
  BY DEF FisopfsInv
<1>1. CASE UNCHANGED vars
  <2>1. /\ inodo' = inodo /\ raiz' = raiz /\ archivo' = archivo /\ pc' = pc
        /\ nuevo' = nuevo /\ fallo' = fallo
    BY <1>1 DEF vars
  <2>2. MontonOK' /\ (pc' \in {"desmontado", "listo"} => nuevo' = Ninguno)
    BY <1>0, <2>1 DEF ArbolInv, MontonOK
  <2>3. ArbolInv'
    BY <1>0, <2>1, <2>2, KeepsShape
  <2>4. EnMemoria'
    BY <1>0, <2>1, KeepsPlaces
  <2>5. EnDisco' /\ Tipos'
    <3>1. Volcado' = Volcado
      BY <2>1, SameDump
    <3> QED BY <1>0, <2>1, <3>1 DEF EnDisco, Tipos
  <2> QED BY <2>3, <2>4, <2>5 DEF FisopfsInv
<1>2. CASE FisopfsInit
  <2>1. /\ pc = "desmontado" /\ pc' = "listo" /\ archivo' = archivo
        /\ nuevo' = nuevo /\ fallo' = fallo
    BY <1>2 DEF FisopfsInit
  <2>2. nuevo = Ninguno /\ (archivo = Ausente \/ Sano(archivo))
    BY <1>0, <2>1 DEF ArbolInv, EnDisco
  <2>3. ArbolInv' /\ Sobras' /\ raiz' \in DOMAIN inodo' /\ \E prof : Hondo(prof)'
    BY <1>2, <2>2, MountKeepsTree
  <2>4. ~Pendiente'
    BY <2>1, <2>2 DEF Pendiente, Ninguno
  <2>5. EnMemoria'
    BY <2>3, <2>4 DEF EnMemoria, Puesto, ParaColgar
  <2> QED BY <1>0, <2>1, <2>3, <2>5, FileKept DEF FisopfsInv, Tipos
<1>3. CASE Pedido
  <2>1. ArbolInv'
    BY <1>0, <1>3, RequestKeepsTree
  <2>2. EnMemoria' /\ pc' \in {"listo", "abrir"} /\ archivo' = archivo /\ fallo' = fallo
    BY <1>0, <1>3, <2>1, RequestKeepsPlaces
  <2> QED BY <1>0, <2>1, <2>2, FileKept DEF FisopfsInv, Tipos
<1>4. CASE Destroy
  <2>1. /\ inodo' = inodo /\ raiz' = raiz /\ pc' = "abrir" /\ pc = "listo"
        /\ nuevo' = [padre |-> NULL, hijo |-> raiz]
        /\ archivo' = archivo /\ fallo' = fallo
    BY <1>4 DEF Destroy
  <2>2. ~Pendiente /\ ~Pendiente' /\ nuevo' \in Encargo /\ MontonOK'
    BY <1>0, <2>1 DEF ArbolInv, MontonOK, Pendiente, Ninguno, Encargo
  <2>3. ArbolInv'
    BY <1>0, <2>1, <2>2, KeepsShape
  <2>4. EnMemoria'
    BY <1>0, <2>1, <2>2, KeepsPlaces
  <2> QED BY <1>0, <2>1, <2>3, <2>4, FileKept DEF FisopfsInv, Tipos
<1>5. CASE AbrirDisco \/ VolcarBuffer \/ CerrarDisco
  <2>1. /\ inodo' = inodo /\ raiz' = raiz /\ nuevo' = nuevo
        /\ pc \in {"abrir", "escribir"} /\ pc' \in {"escribir", "responder"}
    BY <1>5 DEF AbrirDisco, VolcarBuffer, CerrarDisco
  <2>2. MontonOK'
    BY <1>0, <2>1 DEF ArbolInv, MontonOK
  <2>3. ArbolInv'
    BY <1>0, <2>1, <2>2, KeepsShape
  <2>4. EnMemoria'
    BY <1>0, <2>1, KeepsPlaces
  <2>5. EnDisco' /\ Tipos'
    BY <1>0, <1>5, OpenKeepsFile, SpillKeepsFile, CloseKeepsFile DEF Tipos
  <2> QED BY <2>3, <2>4, <2>5 DEF FisopfsInv
<1>6. CASE Responder
  <2>1. ArbolInv' /\ EnMemoria'
    BY <1>0, <1>6, AnswerKeepsTree, AnswerKeepsPlaces
  <2>2. pc' \in {"listo", "desmontado"} /\ archivo' = archivo /\ fallo' = fallo
    BY <1>6 DEF Responder, Apagado
  <2> QED BY <1>0, <2>1, <2>2, FileKept DEF FisopfsInv, Tipos
<1>7. CASE Muere
  <2>1. ArbolInv' /\ EnMemoria'
    BY <1>7, EndKeepsTree, EndKeepsPlaces DEF Muere
  <2>2. pc' = "desmontado" /\ archivo' = archivo /\ fallo' = fallo
    BY <1>7 DEF Muere, Apagado
  <2> QED BY <1>0, <2>1, <2>2, FileKept DEF FisopfsInv, Tipos
<1> QED BY <1>1, <1>2, <1>3, <1>4, <1>5, <1>6, <1>7 DEF Next

LEMMA StartKeepsAll ==
    ASSUME Init
    PROVE  FisopfsInv
<1>1. /\ inodo = <<>> /\ DOMAIN inodo = {} /\ raiz = NULL /\ nuevo = Ninguno /\ ~Pendiente
      /\ archivo = Ausente /\ pc = "desmontado" /\ fallo = FALSE
  BY DEF Init, Pendiente, Ninguno
<1>2. PICK prof : prof = [i \in {} |-> 0]
  OBVIOUS
<1>3. prof \in [{} -> 0..MaxDepth]
  BY <1>2
<1>4. Hondo(prof) /\ Puesto(prof)
  BY <1>1, <1>3 DEF Hondo, Puesto
<1>5. EnMemoria
  BY <1>1, <1>4 DEF EnMemoria, ParaColgar, Sobras
<1> QED BY <1>1, <1>5, StartIsTree DEF FisopfsInv, EnDisco, Tipos

(* The inductive invariant: a tree in memory, no deeper than the paths; and  *)
(* on disk a file that a mount makes a tree of, wherever the last save or    *)
(* the process ended.                                                        *)
THEOREM FisopfsInvariant == Spec => []FisopfsInv
<1>1. Init => FisopfsInv
  BY StartKeepsAll
<1>2. FisopfsInv /\ [Next]_vars => FisopfsInv'
  BY StepKeepsAll
<1> QED BY <1>1, <1>2, PTL DEF Spec

(* The variables keep their types; no file grows beyond MaxSize.             *)
THEOREM TypeCorrect == Spec => []TypeOK
<1>1. FisopfsInv => TypeOK
  <2> SUFFICES ASSUME FisopfsInv PROVE TypeOK
    OBVIOUS
  <2>1. ArbolInv /\ EnDisco /\ Tipos
    BY DEF FisopfsInv
  <2>2. MontonOK /\ nuevo \in Encargo /\ raiz \in Inodes \union {NULL}
    BY <2>1 DEF ArbolInv, MontonOK
  <2>3. archivo = Ausente \/ archivo \in Seq(Registros)
    BY <2>1 DEF EnDisco, Sano
  <2> QED BY <2>1, <2>2, <2>3 DEF Tipos, TypeOK
<1> QED BY <1>1, FisopfsInvariant, PTL

(* The tree stays one whatever the requests, the saves that fail, the        *)
(* crashes at any moment and the mounts of what they left: no inode is lost,  *)
(* freed while it is reachable, or in two places, and no directory has two   *)
(* children of one name.                                                     *)
THEOREM TreeStaysATree == Spec => []ArbolBienFormado
<1>1. FisopfsInv => ArbolBienFormado
  BY TreeIsWellFormed DEF FisopfsInv
<1> QED BY <1>1, FisopfsInvariant, PTL

(* And then whoever asks sees that tree: a lookup, a listing and a read      *)
(* answer what the paths name.                                               *)
THEOREM QueriesStayTrue == Spec => []ConsultasFieles
<1>1. FisopfsInv => ConsultasFieles
  BY QueriesAreTrue DEF FisopfsInv
<1> QED BY <1>1, FisopfsInvariant, PTL

-----------------------------------------------------------------------------
(* What the disk holds between two requests.                                 *)

(* One tree is the other, but for one more inode at most, which is empty.    *)
UnoMas(a, b) ==
    /\ DOMAIN a \subseteq DOMAIN b
    /\ \A p \in DOMAIN a : a[p] = b[p]
    /\ Cardinality(DOMAIN b \ DOMAIN a) <= 1
    /\ \A p \in DOMAIN b \ DOMAIN a : b[p].contenido = <<>>

LEMMA NoneMore ==
    ASSUME NEW a
    PROVE  UnoMas(a, a)
<1>1. DOMAIN a \ DOMAIN a = {}
  OBVIOUS
<1> QED BY <1>1, FS_EmptySet DEF UnoMas

LEMMA OneMore ==
    ASSUME NEW a, NEW b, NEW p, NEW v, Colgado(a, b, p, v), v.contenido = <<>>
    PROVE  UnoMas(a, b)
<1>1. /\ DOMAIN b = DOMAIN a \union {p} /\ p \notin DOMAIN a /\ b[p] = v
      /\ \A q \in DOMAIN a : b[q] = a[q]
  BY DEF Colgado
<1>2. DOMAIN b \ DOMAIN a = {p}
  BY <1>1
<1> QED BY <1>1, <1>2, FS_Singleton DEF UnoMas

LEMMA DurableIs ==
    /\ archivo = Ausente => Durable = ArbolDe(RaizNueva, 1)
    /\ archivo # Ausente /\ Entero(archivo) => Durable = ArbolDe(CargarInode(archivo), 1)
    /\ archivo # Ausente /\ ~Entero(archivo) => Durable = Roto
<1>1. ASSUME NEW x PROVE (CHOOSE t \in {x} : TRUE) = x
  OBVIOUS
<1>2. {ArbolDe(n, 1) : n \in {CargarInode(archivo)}} = {ArbolDe(CargarInode(archivo), 1)}
  OBVIOUS
<1> QED BY <1>1, <1>2, Zenon DEF Durable

(* What the file is read as depends on nothing else.                         *)
LEMMA SameFile ==
    ASSUME archivo' = archivo
    PROVE  Durable' = Durable
BY DEF Durable

(* What a complete save leaves on disk is the tree in memory.                *)
LEMMA DumpReads ==
    ASSUME ArbolInv, EnMemoria, pc # "desmontado", NEW s, s = Volcado
    PROVE  s # Ausente /\ Entero(s) /\ ArbolDe(CargarInode(s), 1) = ArbolDe(inodo, raiz)
<1>1. PICK prof : Hondo(prof)
  BY DEF EnMemoria
<1>2. raiz \in DOMAIN inodo
  BY DEF EnMemoria
<1>3. \E phi : Completo(Volcado, phi, raiz)
  <2>1. MaxDepth \in Nat /\ MaxDepth \in 0..MaxDepth
    BY FisopfsAssumption
  <2>2. prof[raiz] + MaxDepth >= MaxDepth
    BY <1>1, <1>2, <2>1 DEF Hondo
  <2> QED BY <1>1, <1>2, <2>1, <2>2, DumpIsTree DEF Volcado
<1>4. PICK phi : Completo(s, phi, raiz)
  BY <1>3
<1>5. Entero(s) /\ ArbolDe(CargarInode(s), 1) = ArbolDe(inodo, raiz)
  BY <1>2, <1>4, DumpIsMirror
<1>6. s # Ausente
  BY <1>4, AusenteAssumption DEF Completo, Abierto
<1> QED BY <1>5, <1>6

(* The inode that a request adds after its save is all that a crash loses.   *)
LEMMA StepKeepsLag ==
    ASSUME FisopfsInv, AtrasoDeUno, [Next]_vars
    PROVE  AtrasoDeUno'
<1>0. ArbolInv /\ EnMemoria /\ EnDisco
  BY DEF FisopfsInv
<1> SUFFICES ASSUME pc' = "listo", ~fallo', Durable' # Roto PROVE UnoMas(Durable, Arbol)'
  BY DEF AtrasoDeUno, UnoMas
<1>1. Arbol' = ArbolDe(inodo', raiz')
  BY DEF Arbol
<1>2. CASE UNCHANGED vars
  <2>1. Durable' = Durable /\ Arbol' = Arbol /\ pc = "listo" /\ ~fallo
    BY <1>2, SameFile DEF vars, Arbol
  <2>2. UnoMas(Durable, Arbol)
    BY <2>1 DEF AtrasoDeUno, UnoMas
  <2> QED BY <2>1, <2>2 DEF UnoMas
<1>3. CASE FisopfsInit
  <2>1. inodo' = CargarFs /\ raiz' = 1 /\ archivo' = archivo
    BY <1>3 DEF FisopfsInit
  <2>2. Durable' = Durable /\ Durable # Roto
    BY <2>1, SameFile
  <2>3. Durable = ArbolDe(CargarFs, 1)
    BY <2>2, DurableIs DEF CargarFs
  <2>4. Arbol' = Durable'
    BY <1>1, <2>1, <2>2, <2>3
  <2> QED BY <2>4, NoneMore DEF UnoMas
<1>4. CASE Pedido
  <2>1. pc = "listo"
    BY <1>4 DEF Pedido, Pedible
  <2>2. UNCHANGED vars
    BY <1>4, <2>1 DEF Pedido, Cambio, Mkdir, Create, Crear, Write, Unlink, Rmdir, Open, Truncate,
                      Utimens, GuardarTras, Error
  <2> QED BY <1>2, <2>2
<1>5. CASE Responder
  <2>1. /\ pc = "responder" /\ archivo' = archivo /\ raiz' = raiz /\ ~fallo
        /\ inodo' = IF nuevo = Ninguno THEN inodo ELSE AgregarHijo(nuevo.padre, nuevo.hijo)
        /\ ~Desmontando
    BY <1>5 DEF Responder, Apagado
  <2>2. archivo = Volcado /\ Durable' = Durable
    BY <1>0, <2>1, SameFile DEF EnDisco
  <2>3. Durable = ArbolDe(inodo, raiz)
    BY <1>0, <2>1, <2>2, DumpReads, DurableIs
  <2>4. CASE nuevo = Ninguno
    <3>1. Arbol' = Durable'
      BY <1>1, <2>1, <2>2, <2>3, <2>4
    <3> QED BY <3>1, NoneMore DEF UnoMas
  <2>5. CASE nuevo # Ninguno
    <3>1. Pendiente
      BY <1>0, <2>1, <2>5 DEF Pendiente, Desmontando, ArbolInv, Encargo, Ninguno
    <3>2. PICK mas : mas = AgregarHijo(nuevo.padre, nuevo.hijo)
      OBVIOUS
    <3>3. UnoMas(ArbolDe(inodo, raiz), ArbolDe(mas, raiz))
      <4>1. ParaColgar /\ Sobras /\ raiz \in DOMAIN inodo
        BY <1>0, <2>1 DEF EnMemoria
      <4>2. \/ ArbolDe(mas, raiz) = ArbolDe(inodo, raiz)
            \/ \E p : Colgado(ArbolDe(inodo, raiz), ArbolDe(mas, raiz), p, Vista(inodo, nuevo.hijo))
        BY <1>0, <3>1, <3>2, <4>1, AddShows
      <4>3. Vista(inodo, nuevo.hijo).contenido = <<>>
        BY <3>1, <4>1 DEF Vista, ParaColgar
      <4> QED BY <4>2, <4>3, OneMore, NoneMore
    <3>4. Durable' = ArbolDe(inodo, raiz) /\ Arbol' = ArbolDe(mas, raiz)
      BY <1>1, <2>1, <2>2, <2>3, <2>5, <3>2
    <3> QED BY <3>3, <3>4 DEF UnoMas
  <2> QED BY <2>4, <2>5
<1>6. CASE Destroy \/ AbrirDisco \/ VolcarBuffer \/ CerrarDisco \/ Muere
  BY <1>6 DEF Destroy, AbrirDisco, VolcarBuffer, CerrarDisco, Muere, Apagado
<1> QED BY <1>2, <1>3, <1>4, <1>5, <1>6 DEF Next

(* Between two requests the disk holds the tree, but for the one empty inode *)
(* that the last mkdir or create added after saving: a crash loses no more.  *)
THEOREM LagsByOne == Spec => []AtrasoDeUno
<1>1. Init => FisopfsInv /\ AtrasoDeUno
  BY StartKeepsAll DEF Init, AtrasoDeUno
<1>2. FisopfsInv /\ AtrasoDeUno /\ [Next]_vars => (FisopfsInv /\ AtrasoDeUno)'
  BY StepKeepsAll, StepKeepsLag
<1> QED BY <1>1, <1>2, PTL DEF Spec

-----------------------------------------------------------------------------
(* Fisopfs implements FsPromise.                                             *)

(* FsPromise reads the same operators on sequences.                          *)
LEMMA PromiseFront == \A p : P!Front(p) = Front(p)
BY DEF P!Front, Front

LEMMA PromiseSeqs == \A S, n : P!BoundedSeq(S, n) = BoundedSeq(S, n)
BY DEF P!BoundedSeq, BoundedSeq, P!SeqOf, SeqOf

(* A mounted tree is never taken for none.                                   *)
LEMMA TreeOfPaths ==
    ASSUME ArbolInv, raiz \in DOMAIN inodo
    PROVE  ArbolDe(inodo, raiz) # NoMontado
<1>1. PICK en : EsMapa(en, inodo, raiz, MaxDepth) /\ ArbolDe(inodo, raiz) = LoQueNombra(en, inodo)
  BY MapIsRead
<1>2. EnArbol(en)
  BY <1>1 DEF EnArbol
<1>3. PICK a : a = LoQueNombra(en, inodo)
  OBVIOUS
<1>4. Muestra(a, en, inodo)
  BY <1>3, Shown
<1>5. /\ a = [q \in DOMAIN a |-> a[q]] /\ DOMAIN a = {q \in TodosPaths : en[q] # {}}
      /\ \A q \in DOMAIN a : a[q] = (CHOOSE v \in {Vista(inodo, h) : h \in en[q]} : TRUE)
  BY <1>4, Zenon DEF Muestra
<1>6. ASSUME NEW q \in DOMAIN a PROVE a[q] \in Vistas
  <2>1. q \in TodosPaths /\ en[q] # {} /\ en[q] \subseteq DOMAIN inodo
    BY <1>2, <1>5, NamedInHeap
  <2>2. \A h \in en[q] : Vista(inodo, h) \in Vistas
    BY <2>1 DEF ArbolInv, MontonOK, Nodo, Vista, Vistas
  <2>3. {Vista(inodo, h) : h \in en[q]} # {}
    BY <2>1
  <2>4. a[q] \in {Vista(inodo, h) : h \in en[q]}
    BY <1>5, <2>3, Zenon
  <2> QED BY <2>2, <2>4
<1>7. DOMAIN a \in SUBSET TodosPaths /\ a \in [DOMAIN a -> Vistas]
  BY <1>5, <1>6
<1>8. a # NoMontado
  BY <1>7, NoMontadoAssumption
<1> QED BY <1>1, <1>3, <1>8

LEMMA MountedIsTree == FisopfsInv => (pc # "desmontado" => Arbol # NoMontado)
<1> SUFFICES ASSUME FisopfsInv, pc # "desmontado" PROVE Arbol # NoMontado
  OBVIOUS
<1>1. ArbolInv /\ raiz \in DOMAIN inodo
  BY DEF FisopfsInv, EnMemoria
<1> QED BY <1>1, TreeOfPaths DEF Arbol

(* The tree of a disk that was never written.                                *)
LEMMA NewTreeShows ==
    ArbolDe(RaizNueva, 1) = [p \in {<<>>} |-> [dir |-> TRUE, modo |-> {"r", "w"}, contenido |-> <<>>]]
<1>1. PICK n : n = RaizNueva
  OBVIOUS
<1>2. n[1].hijos = <<>> /\ Vista(n, 1) = [dir |-> TRUE, modo |-> {"r", "w"}, contenido |-> <<>>]
  BY <1>1 DEF RaizNueva, CrearInode, Vista
<1>3. PICK en : EsMapa(en, n, 1, MaxDepth) /\ ArbolDe(n, 1) = LoQueNombra(en, n)
  BY MapIsRead
<1>4. /\ en[<<>>] = {1}
      /\ \A q \in TodosPaths : q # <<>> => en[q] = HijosDeNombre(n, en[Front(q)], Last(q))
  BY <1>3, MapAt
<1> DEFINE S == {q \in TodosPaths : en[q] = IF q = <<>> THEN {1} ELSE {}}
<1>5. <<>> \in S
  BY <1>4, RootIsPath
<1>6. ASSUME NEW q \in TodosPaths, q # <<>>, Front(q) \in TodosPaths, Front(q) \in S PROVE q \in S
  <2>1. PICK A : A = en[Front(q)]
    OBVIOUS
  <2>2. \A d \in A : d = 1
    BY <1>6, <2>1
  <2>3. ToSet(<<>>) = {}
    BY DEF ToSet
  <2>4. \A c : c \notin HijosDeNombre(n, A, Last(q))
    BY <1>2, <2>2, <2>3, ChildOfName
  <2>5. en[q] = HijosDeNombre(n, A, Last(q))
    BY <1>4, <1>6, <2>1
  <2> QED BY <1>6, <2>4, <2>5
<1>7. \A q \in TodosPaths : en[q] = IF q = <<>> THEN {1} ELSE {}
  <2>1. TodosPaths \subseteq S
    <3> HIDE DEF S
    <3> QED BY <1>5, <1>6, PathInduction
  <2> QED BY <2>1
<1>8. PICK a : a = LoQueNombra(en, n)
  OBVIOUS
<1>9. Muestra(a, en, n)
  BY <1>8, Shown
<1>10. /\ a = [q \in DOMAIN a |-> a[q]] /\ DOMAIN a = {q \in TodosPaths : en[q] # {}}
       /\ a[<<>>] = Vista(n, 1)
  BY <1>4, <1>9, RootIsPath, Zenon DEF Muestra
<1>11. DOMAIN a = {<<>>}
  BY <1>7, <1>10, RootIsPath
<1>12. a = [p \in {<<>>} |-> Vista(n, 1)]
  BY <1>10, <1>11
<1> QED BY <1>1, <1>2, <1>3, <1>8, <1>12

LEMMA InitMaps == Init => P!Init
<1> SUFFICES ASSUME Init PROVE P!Init
  OBVIOUS
<1>1. archivo = Ausente /\ pc = "desmontado"
  BY DEF Init
<1>2. Durable = ArbolDe(RaizNueva, 1)
  BY <1>1, DurableIs
<1>3. Arbol = NoMontado
  BY <1>1 DEF Arbol
<1> QED BY <1>2, <1>3, NewTreeShows DEF P!Init, P!Vacio, P!Nodo

-----------------------------------------------------------------------------
(* How a request may change the tree.                                        *)

LEMMA HungMaps ==
    ASSUME NEW a, NEW b, NEW p, NEW v, Colgado(a, b, p, v),
           NEW esDir \in BOOLEAN, NEW m \in Modos,
           v = [dir |-> esDir, modo |-> m, contenido |-> <<>>]
    PROVE  P!Agregado(a, b)
<1>1. /\ p \in TodosPaths \ DOMAIN a
      /\ P!Front(p) \in DOMAIN a /\ a[P!Front(p)].dir
      /\ b = [q \in DOMAIN a \union {p} |-> IF q = p THEN v ELSE a[q]]
  BY PromiseFront DEF Colgado
<1>2. DOMAIN b = DOMAIN a \union {p}
  BY <1>1
<1>3. p \in (TodosPaths \intersect DOMAIN b) \ DOMAIN a
  BY <1>1, <1>2
<1>4. P!Nodo(esDir, m) = v
  BY DEF P!Nodo
<1>5. b = [q \in (DOMAIN a) \union {p} |-> IF q = p THEN P!Nodo(esDir, m) ELSE a[q]]
  BY <1>1, <1>4
<1> QED BY <1>1, <1>3, <1>5, Zenon DEF P!Agregado

LEMMA RemovedMaps ==
    ASSUME NEW a, NEW b, NEW p, Sacado(a, b, p)
    PROVE  P!Quitado(a, b)
<1>1. /\ b = [q \in DOMAIN a \ {p} |-> b[q]] /\ p \in DOMAIN a
      /\ \A q \in DOMAIN a : (q # <<>> => Front(q) # p) /\ (q # p => b[q] = a[q])
  BY DEF Sacado
<1>2. DOMAIN b = DOMAIN a \ {p}
  BY <1>1
<1>3. b = [q \in (DOMAIN a) \ {p} |-> a[q]]
  BY <1>1
<1>4. P!Hijos(a, p) = {}
  BY <1>1, PromiseFront DEF P!Hijos
<1>5. p \in (DOMAIN a) \ DOMAIN b
  BY <1>1, <1>2
<1> QED BY <1>3, <1>4, <1>5, Zenon DEF P!Quitado

LEMMA ChangedMaps ==
    ASSUME NEW a, NEW b, NEW p, NEW nodos, NEW n, NEW c, Cambiado(a, b, p, Vista(nodos, n), c),
           ~nodos[n].es_directorio,
           P!Escrito(nodos[n].contenido, c) \/ P!Truncado(nodos[n].contenido, c)
    PROVE  P!Reemplazado(a, b)
<1>1. /\ a = [q \in DOMAIN a |-> a[q]] /\ b = [q \in DOMAIN a |-> b[q]]
      /\ p \in DOMAIN a /\ a[p] = Vista(nodos, n)
      /\ b[p] = [dir |-> nodos[n].es_directorio, modo |-> nodos[n].modo, contenido |-> c]
      /\ \A q \in DOMAIN a : q # p => b[q] = a[q]
  BY DEF Cambiado, Vista
<1>2. /\ a[p] = [dir |-> nodos[n].es_directorio, modo |-> nodos[n].modo,
                 contenido |-> nodos[n].contenido]
  BY <1>1 DEF Vista
<1>3. ~a[p].dir /\ a[p].contenido = nodos[n].contenido /\ b[p].contenido = c
  BY <1>1, <1>2
<1>4. b[p] = [a[p] EXCEPT !.contenido = c]
  BY <1>1, <1>2
<1>5. b = [a EXCEPT ![p].contenido = b[p].contenido]
  <2>1. PICK w : w = [a[p] EXCEPT !.contenido = c]
    OBVIOUS
  <2>2. b = [a EXCEPT ![p] = w]
    BY <1>1, <1>4, <2>1
  <2> QED BY <1>3, <2>1, <2>2
<1>6. DOMAIN a = DOMAIN b
  BY <1>1
<1>7. P!Escrito(a[p].contenido, b[p].contenido) \/ P!Truncado(a[p].contenido, b[p].contenido)
  BY <1>3
<1> QED BY <1>1, <1>3, <1>5, <1>6, <1>7, Zenon DEF P!Reemplazado

LEMMA WriteMaps ==
    ASSUME NEW c \in BoundedSeq(Celdas, MaxSize), NEW n \in 0..(MaxSize - 1),
           NEW datos \in BoundedSeq(Bytes, MaxSize - n), datos # <<>>
    PROVE  P!Escrito(c, Escrito(c, datos, n))
<1>1. MaxSize \in Nat /\ MaxSize - n \in Nat /\ n \in Nat /\ n \in 0..MaxSize
  BY FisopfsAssumption
<1>2. c \in Seq(Celdas) /\ Len(c) <= MaxSize /\ Len(c) \in Nat
  BY <1>1, BoundedIsSeq
<1>3. datos \in Seq(Bytes) /\ Len(datos) <= MaxSize - n /\ Len(datos) \in Nat
  BY <1>1, BoundedIsSeq
<1>4. datos \in P!BoundedSeq(Bytes, MaxSize) \ {<<>>}
  <2>1. Len(datos) \in 0..MaxSize /\ datos \in [1..Len(datos) -> Bytes]
    BY <1>1, <1>3
  <2>2. datos \in BoundedSeq(Bytes, MaxSize)
    BY <1>1, <2>1, SeqIsBounded
  <2> QED BY <2>2, PromiseSeqs
<1>5. PICK m : m = Max({Len(c), n + Len(datos)})
  OBVIOUS
<1>6. m \in Nat /\ m = (IF Len(c) < n + Len(datos) THEN n + Len(datos) ELSE Len(c))
  <2>1. n + Len(datos) \in Nat
    BY <1>1, <1>3
  <2>2. m = IF Len(c) >= n + Len(datos) THEN Len(c) ELSE n + Len(datos)
    BY <1>2, <1>5, <2>1, MaxOfTwo
  <2> QED BY <1>2, <2>1, <2>2
<1>7. PICK c2 : c2 = [k \in 1..m |->
                        IF k \in (n+1)..(n + Len(datos)) THEN datos[k - n]
                        ELSE IF k <= Len(c) THEN c[k] ELSE "?"]
  OBVIOUS
<1>8. Escrito(c, datos, n) = c2
  BY <1>5, <1>7 DEF Escrito
<1>9. Len(c2) = P!Mayor(Len(c), n + Len(datos))
  <2>1. Len(c2) = m
    BY <1>6, <1>7
  <2> QED BY <1>6, <2>1 DEF P!Mayor
<1>10. \A k \in 1..Len(datos) : c2[n + k] = datos[k]
  <2> SUFFICES ASSUME NEW k \in 1..Len(datos) PROVE c2[n + k] = datos[k]
    OBVIOUS
  <2>1. n + k \in 1..m /\ n + k \in (n+1)..(n + Len(datos)) /\ (n + k) - n = k
    BY <1>1, <1>2, <1>3, <1>6
  <2> QED BY <1>7, <2>1
<1>11. \A k \in 1..Len(c) : k \in (n+1)..(n + Len(datos)) \/ c2[k] = c[k]
  <2> SUFFICES ASSUME NEW k \in 1..Len(c), k \notin (n+1)..(n + Len(datos)) PROVE c2[k] = c[k]
    OBVIOUS
  <2>1. k \in 1..m /\ k <= Len(c)
    BY <1>1, <1>2, <1>3, <1>6
  <2> QED BY <1>7, <2>1
<1> QED BY <1>1, <1>4, <1>8, <1>9, <1>10, <1>11, Zenon DEF P!Escrito

LEMMA TruncateMaps ==
    ASSUME NEW c, NEW n \in 0..MaxSize
    PROVE  P!Truncado(c, Truncado(c, n))
<1>1. PICK c2 : c2 = [k \in 1..n |-> IF k <= Len(c) THEN c[k] ELSE "0"]
  OBVIOUS
<1>2. Len(c2) = n /\ \A k \in 1..n : c2[k] = IF k <= Len(c) THEN c[k] ELSE "0"
  BY <1>1
<1>3. Truncado(c, n) = c2
  BY <1>1 DEF Truncado
<1> QED BY <1>2, <1>3 DEF P!Truncado

Cambios(a, b) == a = b \/ P!Agregado(a, b) \/ P!Quitado(a, b) \/ P!Reemplazado(a, b)

(* A request changes one path, or nothing yet.                               *)
LEMMA RequestMaps ==
    ASSUME FisopfsInv, Pedido
    PROVE  pc = "listo" /\ archivo' = archivo /\ Cambios(Arbol, Arbol')
<1>0. ArbolInv /\ EnMemoria
  BY DEF FisopfsInv
<1>1. PICK path \in Paths : Pedible(path) /\ Cambio(path)
  BY DEF Pedido
<1>2. pc = "listo" /\ raiz \in DOMAIN inodo
  BY <1>0, <1>1 DEF Pedible, EnMemoria
<1> DEFINE n == BuscarInode(path)
           Bien == archivo' = archivo /\ Cambios(Arbol, Arbol')
<1>3. Arbol = ArbolDe(inodo, raiz) /\ n \in DOMAIN inodo \union {NULL}
  BY <1>0, <1>2, SearchFinds DEF Arbol
<1>4. ASSUME UNCHANGED vars PROVE Bien
  <2>1. Arbol' = Arbol /\ archivo' = archivo
    BY <1>4 DEF vars, Arbol
  <2> QED BY <2>1 DEF Cambios
<1>5. ASSUME NEW h, NEW x, GuardarTras(h, x)
      PROVE  archivo' = archivo /\ Arbol' = ArbolDe(h, raiz)
  <2>1. inodo' = h /\ raiz' = raiz /\ pc' = "abrir" /\ archivo' = archivo
    BY <1>5 DEF GuardarTras
  <2> QED BY <2>1 DEF Arbol
<1>6. ASSUME NEW modo \in Modos, NEW esDir \in BOOLEAN, Crear(path, modo, esDir) PROVE Bien
  <2>1. CASE ~EsDirectorio(BuscarPadre(path)) \/ n # NULL
    BY <1>4, <1>6, <2>1 DEF Crear, Error
  <2>2. CASE EsDirectorio(BuscarPadre(path)) /\ n = NULL
    <3>1. PICK i : i = Min(Libres)
      OBVIOUS
    <3>2. PICK h : h = ConNuevo(i, CrearInode(Last(path), modo, esDir))
      OBVIOUS
    <3>3. Libres # {} /\ GuardarTras(h, [padre |-> BuscarPadre(path), hijo |-> i])
      BY <1>6, <2>2, <3>1, <3>2 DEF Crear
    <3>4. i \notin DOMAIN inodo
      BY <3>1, <3>3, MinIsLeast, FisopfsAssumption DEF Libres
    <3>5. \A j \in DOMAIN inodo : h[j] = inodo[j]
      BY <3>2, <3>4 DEF ConNuevo
    <3>6. ArbolDe(h, raiz) = Arbol
      BY <1>0, <1>2, <1>3, <3>5, SameTree
    <3> QED BY <1>5, <3>3, <3>6 DEF Cambios
  <2> QED BY <2>1, <2>2
<1>7. ASSUME NEW c, EsArchivo(n), GuardarTras(ConContenido(n, c), Ninguno),
             P!Escrito(inodo[n].contenido, c) \/ P!Truncado(inodo[n].contenido, c)
      PROVE  Bien
  <2>1. PICK mas : mas = ConContenido(n, c)
    OBVIOUS
  <2>2. n # NULL /\ ~inodo[n].es_directorio
    BY <1>7 DEF EsArchivo
  <2>3. Cambiado(ArbolDe(inodo, raiz), ArbolDe(mas, raiz), path, Vista(inodo, n), c)
    BY <1>0, <1>1, <1>2, <2>1, <2>2, ContentsShow
  <2>4. P!Reemplazado(ArbolDe(inodo, raiz), ArbolDe(mas, raiz))
    BY <1>7, <2>2, <2>3, ChangedMaps
  <2> QED BY <1>3, <1>5, <1>7, <2>1, <2>4 DEF Cambios
<1>8. ASSUME n # NULL, inodo[n].hijos = <<>>, GuardarTras(EliminarInode(BuscarPadre(path), n), Ninguno)
      PROVE  Bien
  <2>1. PICK padre : padre = BuscarPadre(path)
    OBVIOUS
  <2>2. PICK mas : mas = EliminarInode(padre, n)
    OBVIOUS
  <2>3. padre \in DOMAIN inodo \union {NULL}
    BY <1>0, <2>1, SearchFinds
  <2>4. CASE ~EsDirectorio(padre) \/ ~Contains(inodo[padre].hijos, n)
    <3>1. mas = inodo
      BY <2>2, <2>4 DEF EliminarInode
    <3> QED BY <1>3, <1>5, <1>8, <2>1, <2>2, <3>1 DEF Cambios
  <2>5. CASE EsDirectorio(padre) /\ Contains(inodo[padre].hijos, n)
    <3>1. Sacado(ArbolDe(inodo, raiz), ArbolDe(mas, raiz), path)
      BY <1>0, <1>1, <1>2, <1>8, <2>2, <2>3, <2>5, RemovalShows
    <3>2. P!Quitado(ArbolDe(inodo, raiz), ArbolDe(mas, raiz))
      BY <3>1, RemovedMaps
    <3> QED BY <1>3, <1>5, <1>8, <2>1, <2>2, <3>2 DEF Cambios
  <2> QED BY <2>4, <2>5
<1>9. ASSUME EsArchivo(n)
      PROVE  /\ n \in DOMAIN inodo /\ n # NULL /\ inodo[n].hijos = <<>>
             /\ inodo[n].contenido \in BoundedSeq(Celdas, MaxSize)
  BY <1>0, <1>3, <1>9 DEF EsArchivo, ArbolInv, MontonOK, Nodo
<1>10. ASSUME NEW k \in 0..(MaxSize - 1), NEW d \in BoundedSeq(Bytes, MaxSize - k), d # <<>>,
              Write(path, d, k)
       PROVE  Bien
  <2>1. CASE ~EsArchivo(n)
    BY <1>4, <1>10, <2>1 DEF Write, Error
  <2>2. CASE EsArchivo(n)
    <3>1. GuardarTras(ConContenido(n, Escrito(inodo[n].contenido, d, k)), Ninguno)
      BY <1>10, <2>2 DEF Write
    <3>2. P!Escrito(inodo[n].contenido, Escrito(inodo[n].contenido, d, k))
      BY <1>9, <1>10, <2>2, WriteMaps
    <3> QED BY <1>7, <2>2, <3>1, <3>2
  <2> QED BY <2>1, <2>2
<1>11. ASSUME Unlink(path) PROVE Bien
  <2>1. CASE ~EsArchivo(n)
    BY <1>4, <1>11, <2>1 DEF Unlink, Error
  <2>2. CASE EsArchivo(n)
    BY <1>8, <1>9, <1>11, <2>2 DEF Unlink
  <2> QED BY <2>1, <2>2
<1>12. ASSUME Rmdir(path) PROVE Bien
  <2>1. CASE ~EsDirectorio(n) \/ inodo[n].hijos # <<>>
    BY <1>4, <1>12, <2>1 DEF Rmdir, Error
  <2>2. CASE EsDirectorio(n) /\ inodo[n].hijos = <<>>
    BY <1>8, <1>12, <2>2 DEF Rmdir, EsDirectorio
  <2> QED BY <2>1, <2>2
<1>13. ASSUME NEW acceso, NEW t, Open(path, acceso, t) PROVE Bien
  <2>1. CASE ~PuedeAbrir(n, acceso) \/ ~t
    BY <1>4, <1>13, <2>1 DEF Open
  <2>2. CASE PuedeAbrir(n, acceso) /\ t
    <3>1. EsArchivo(n) /\ GuardarTras(ConContenido(n, <<>>), Ninguno)
      BY <1>13, <2>2 DEF Open, PuedeAbrir
    <3>2. P!Truncado(inodo[n].contenido, <<>>)
      BY DEF P!Truncado
    <3> QED BY <1>7, <3>1, <3>2
  <2> QED BY <2>1, <2>2
<1>14. ASSUME NEW k \in 0..MaxSize, Truncate(path, k) PROVE Bien
  <2>1. CASE ~EsArchivo(n)
    BY <1>4, <1>14, <2>1 DEF Truncate, Error
  <2>2. CASE EsArchivo(n)
    <3>1. GuardarTras(ConContenido(n, Truncado(inodo[n].contenido, k)), Ninguno)
      BY <1>14, <2>2 DEF Truncate
    <3>2. P!Truncado(inodo[n].contenido, Truncado(inodo[n].contenido, k))
      BY TruncateMaps
    <3> QED BY <1>7, <2>2, <3>1, <3>2
  <2> QED BY <2>1, <2>2
<1>15. ASSUME Utimens(path) PROVE Bien
  <2>1. CASE n = NULL
    BY <1>4, <1>15, <2>1 DEF Utimens, Error
  <2>2. CASE n # NULL
    <3>1. GuardarTras(inodo, Ninguno)
      BY <1>15, <2>2 DEF Utimens
    <3> QED BY <1>3, <1>5, <3>1 DEF Cambios
  <2> QED BY <2>1, <2>2
<1> HIDE DEF n, Bien
<1>16. CASE path # <<>> /\ \E m \in Modos : Mkdir(path, m) \/ Create(path, m)
  <2>1. Bien
    BY <1>6, <1>16 DEF Mkdir, Create
  <2> QED BY <1>2, <2>1 DEF Bien
<1>17. CASE \E k \in 0..(MaxSize-1) : \E d \in BoundedSeq(Bytes, MaxSize - k) :
              d # <<>> /\ Write(path, d, k)
  <2>1. Bien
    BY <1>10, <1>17
  <2> QED BY <1>2, <2>1 DEF Bien
<1>18. CASE Unlink(path) \/ Rmdir(path) \/ Utimens(path)
  BY <1>2, <1>11, <1>12, <1>15, <1>18 DEF Bien
<1>19. CASE \E acceso \in {"rd", "wr", "rdwr"}, t \in BOOLEAN : Open(path, acceso, t)
  <2>1. Bien
    BY <1>13, <1>19
  <2> QED BY <1>2, <2>1 DEF Bien
<1>20. CASE \E k \in 0..MaxSize : Truncate(path, k)
  <2>1. Bien
    BY <1>14, <1>20
  <2> QED BY <1>2, <2>1 DEF Bien
<1> QED BY <1>1, <1>16, <1>17, <1>18, <1>19, <1>20, Zenon DEF Cambio

-----------------------------------------------------------------------------
(* The steps of a save, as what the disk holds.                              *)

LEMMA CutMaps ==
    ASSUME NEW s \in Seq(Registros), archivo' = s, Faltan(s)[Len(s)] # 0
    PROVE  Durable' = Roto
<1>1. s # Ausente /\ ~Entero(s)
  BY AusenteAssumption DEF Entero
<1>2. archivo' # Ausente /\ ~Entero(archivo')
  BY <1>1
<1>3. (archivo # Ausente /\ ~Entero(archivo) => Durable = Roto)'
  BY DurableIs, PTL
<1> QED BY <1>2, <1>3

LEMMA OpenMaps ==
    ASSUME AbrirDisco
    PROVE  Durable' \in {Durable, Roto}
<1>1. CASE archivo' = <<>>
  <2>1. PICK s : s = <<>>
    OBVIOUS
  <2>2. s \in Seq(Registros) /\ Len(s) = 0
    BY <2>1
  <2>3. Faltan(s)[Len(s)] # 0
    <3>1. Faltan(s)[0] = 1
      BY <2>2, LeftToRead
    <3>2. 1 # 0
      OBVIOUS
    <3> QED BY <2>2, <3>1, <3>2, Zenon
  <2> QED BY <1>1, <2>1, <2>2, <2>3, CutMaps
<1>2. CASE archivo' = archivo
  BY <1>2, SameFile
<1> QED BY <1>1, <1>2 DEF AbrirDisco

LEMMA SpillMaps ==
    ASSUME FisopfsInv, VolcarBuffer
    PROVE  Durable' = Roto
<1>0. ArbolInv /\ EnMemoria /\ EnDisco /\ pc = "escribir"
  BY DEF FisopfsInv, VolcarBuffer
<1>1. PICK s : s = Volcado
  OBVIOUS
<1>2. PICK n \in (Len(archivo)+1)..(Len(s)-1) : archivo' = SubSeq(s, 1, n)
  BY <1>1 DEF VolcarBuffer
<1>3. Sano(s) /\ Sano(archivo)
  BY <1>0, <1>1, DumpNowIsSound DEF EnDisco
<1>4. /\ s \in Seq(Registros) /\ archivo \in Seq(Registros)
      /\ \A m \in 1..(Len(s) - 1) : Faltan(s)[m] >= 1
  BY <1>3 DEF Sano
<1>5. n \in Nat /\ n <= Len(s) /\ n \in 1..(Len(s) - 1)
  BY <1>2, <1>4
<1>6. PICK t : t = SubSeq(s, 1, n)
  OBVIOUS
<1>7. /\ t \in Seq(Registros) /\ Len(t) = n
      /\ \A k \in 1..n : t[k] = s[k]
  BY <1>4, <1>5, <1>6
<1>8. Faltan(t)[n] = Faltan(s)[n]
  <2>1. \A k \in 0..n : Faltan(t)[k] = Faltan(s)[k]
    <3>1. n <= Len(t) /\ t \in Seq(Registros) /\ s \in Seq(Registros)
      BY <1>4, <1>5, <1>7
    <3> QED BY <1>5, <1>7, <3>1, LeftOfPrefix
  <2> QED BY <1>5, <2>1
<1>9. Faltan(t)[Len(t)] # 0
  <2>1. Faltan(s)[n] >= 1 /\ Faltan(s)[n] \in Int
    <3>1. n \in 0..Len(s)
      BY <1>4, <1>5
    <3> QED BY <1>4, <1>5, <3>1, LeftToRead
  <2>2. \A x \in Int : x >= 1 => x # 0
    OBVIOUS
  <2> QED BY <1>7, <1>8, <2>1, <2>2
<1> QED BY <1>2, <1>6, <1>7, <1>9, CutMaps

LEMMA CloseMaps ==
    ASSUME FisopfsInv, CerrarDisco
    PROVE  Durable' = Arbol
<1>0. ArbolInv /\ EnMemoria /\ pc = "escribir"
  BY DEF FisopfsInv, CerrarDisco
<1>1. PICK s : s = Volcado
  OBVIOUS
<1>2. s # Ausente /\ Entero(s) /\ ArbolDe(CargarInode(s), 1) = ArbolDe(inodo, raiz)
  BY <1>0, <1>1, DumpReads
<1>3. archivo' = s
  BY <1>1 DEF CerrarDisco
<1>4. (archivo # Ausente /\ Entero(archivo) => Durable = ArbolDe(CargarInode(archivo), 1))'
  BY DurableIs, PTL
<1>5. Durable' = ArbolDe(CargarInode(s), 1)
  BY <1>2, <1>3, <1>4
<1>6. Arbol = ArbolDe(inodo, raiz)
  BY <1>0 DEF Arbol
<1> QED BY <1>2, <1>5, <1>6

LEMMA MountMaps ==
    ASSUME FisopfsInit
    PROVE  Durable' = Durable /\ (Durable = Roto \/ Arbol' = Durable) /\ Arbol = NoMontado
<1>1. /\ inodo' = CargarFs /\ raiz' = 1 /\ archivo' = archivo
      /\ pc = "desmontado" /\ pc' = "listo"
  BY DEF FisopfsInit
<1>2. Durable' = Durable
  BY <1>1, SameFile
<1>3. Arbol' = ArbolDe(CargarFs, 1)
  BY <1>1 DEF Arbol
<1>4. Durable # Roto => Durable = ArbolDe(CargarFs, 1)
  BY DurableIs DEF CargarFs
<1>5. Arbol = NoMontado
  BY <1>1 DEF Arbol
<1> QED BY <1>2, <1>3, <1>4, <1>5

LEMMA EndMaps ==
    ASSUME Apagado
    PROVE  Arbol' = NoMontado /\ Durable' = Durable
<1>1. pc' = "desmontado" /\ archivo' = archivo
  BY DEF Apagado
<1> QED BY <1>1, SameFile DEF Arbol

LEMMA AnswerMaps ==
    ASSUME FisopfsInv, Responder
    PROVE  /\ Durable' = Durable
           /\ Arbol' = NoMontado \/ Cambios(Arbol, Arbol')
<1>0. ArbolInv /\ EnMemoria
  BY DEF FisopfsInv
<1>1. CASE Desmontando
  BY <1>1, EndMaps DEF Responder
<1>2. CASE ~Desmontando
  <2>1. /\ pc = "responder" /\ archivo' = archivo /\ raiz' = raiz /\ pc' = "listo"
        /\ inodo' = IF nuevo = Ninguno THEN inodo ELSE AgregarHijo(nuevo.padre, nuevo.hijo)
    BY <1>2 DEF Responder
  <2>2. Durable' = Durable
    BY <2>1, SameFile
  <2>3. Arbol = ArbolDe(inodo, raiz) /\ Arbol' = ArbolDe(inodo', raiz)
    BY <2>1 DEF Arbol
  <2>4. CASE nuevo = Ninguno
    <3>1. Arbol' = Arbol
      BY <2>1, <2>3, <2>4
    <3> QED BY <2>2, <3>1 DEF Cambios
  <2>5. CASE nuevo # Ninguno
    <3>1. Pendiente
      BY <1>0, <1>2, <2>5 DEF Pendiente, Desmontando, ArbolInv, Encargo, Ninguno
    <3>2. ParaColgar /\ Sobras /\ raiz \in DOMAIN inodo
      BY <1>0, <2>1 DEF EnMemoria
    <3>3. PICK mas : mas = AgregarHijo(nuevo.padre, nuevo.hijo)
      OBVIOUS
    <3>4. Arbol' = ArbolDe(mas, raiz)
      BY <2>1, <2>3, <2>5, <3>3
    <3>5. \/ ArbolDe(mas, raiz) = ArbolDe(inodo, raiz)
          \/ \E p : Colgado(ArbolDe(inodo, raiz), ArbolDe(mas, raiz), p, Vista(inodo, nuevo.hijo))
      BY <1>0, <3>1, <3>2, <3>3, AddShows
    <3>6. PICK h : h = nuevo.hijo
      OBVIOUS
    <3>7. /\ inodo[h].es_directorio \in BOOLEAN /\ inodo[h].modo \in Modos
          /\ Vista(inodo, h) = [dir |-> inodo[h].es_directorio, modo |-> inodo[h].modo,
                                contenido |-> <<>>]
      <4>1. h \in DOMAIN inodo
        BY <1>0, <3>1, <3>6 DEF ArbolInv, PendienteSano
      <4>2. inodo[h] \in Nodo
        BY <1>0, <4>1 DEF ArbolInv, MontonOK
      <4>3. inodo[h].modo \in Modos /\ inodo[h].contenido = <<>>
        BY <3>1, <3>2, <3>6 DEF ParaColgar
      <4> QED BY <4>2, <4>3 DEF Nodo, Vista
    <3>8. ASSUME NEW p, Colgado(Arbol, Arbol', p, Vista(inodo, h))
          PROVE  P!Agregado(Arbol, Arbol')
      BY <3>7, <3>8, HungMaps
    <3>9. Arbol' = Arbol \/ P!Agregado(Arbol, Arbol')
      BY <2>3, <3>4, <3>5, <3>6, <3>8
    <3> QED BY <2>2, <3>9 DEF Cambios
  <2> QED BY <2>4, <2>5
<1> QED BY <1>1, <1>2

(* Every step is a step of FsPromise or nothing to it.                       *)
LEMMA StepMaps == FisopfsInv /\ FisopfsInv' /\ [Next]_vars => [P!Next]_P!vars
<1> SUFFICES ASSUME FisopfsInv, FisopfsInv', [Next]_vars
             PROVE  P!Next \/ (Arbol' = Arbol /\ Durable' = Durable)
  BY DEF P!vars
<1>1. /\ pc # "desmontado" => Arbol # NoMontado
      /\ pc' # "desmontado" => Arbol' # NoMontado
  <2>1. (FisopfsInv => (pc # "desmontado" => Arbol # NoMontado))'
    BY MountedIsTree, PTL
  <2> QED BY <2>1, MountedIsTree
<1>2. CASE UNCHANGED vars
  BY <1>2, SameFile DEF vars, Arbol
<1>3. ASSUME Arbol # NoMontado, Arbol' # NoMontado, Durable' = Durable, Cambios(Arbol, Arbol')
      PROVE  P!Next \/ (Arbol' = Arbol /\ Durable' = Durable)
  BY <1>3 DEF P!Next, P!Cambia, Cambios
<1>4. ASSUME Arbol' = NoMontado, Durable' = Durable
      PROVE  P!Next \/ (Arbol' = Arbol /\ Durable' = Durable)
  BY <1>4 DEF P!Next, P!Termina
<1>5. ASSUME Arbol' = Arbol, Arbol # NoMontado, Durable' \in {Arbol, Roto} \/ Durable' = Durable
      PROVE  P!Next \/ (Arbol' = Arbol /\ Durable' = Durable)
  BY <1>5 DEF P!Next, P!Guarda
<1>6. CASE FisopfsInit
  BY <1>6, MountMaps DEF P!Next, P!Monta
<1>7. CASE Pedido
  <2>1. pc = "listo" /\ archivo' = archivo /\ Cambios(Arbol, Arbol')
    BY <1>7, RequestMaps
  <2>2. pc' # "desmontado"
    BY <1>7, RequestKeepsPlaces DEF FisopfsInv
  <2>3. Durable' = Durable
    BY <2>1, SameFile
  <2> QED BY <1>1, <1>3, <2>1, <2>2, <2>3
<1>8. CASE Destroy
  <2>1. /\ inodo' = inodo /\ raiz' = raiz /\ pc' = "abrir" /\ pc = "listo" /\ archivo' = archivo
    BY <1>8 DEF Destroy
  <2> QED BY <2>1, SameFile DEF Arbol
<1>9. CASE AbrirDisco \/ VolcarBuffer \/ CerrarDisco
  <2>1. /\ inodo' = inodo /\ raiz' = raiz
        /\ pc \in {"abrir", "escribir"} /\ pc' \in {"escribir", "responder"}
    BY <1>9 DEF AbrirDisco, VolcarBuffer, CerrarDisco
  <2>2. Arbol' = Arbol
    BY <2>1 DEF Arbol
  <2>3. Durable' \in {Arbol, Roto} \/ Durable' = Durable
    BY <1>9, OpenMaps, SpillMaps, CloseMaps
  <2> QED BY <1>1, <1>5, <2>1, <2>2, <2>3
<1>10. CASE Responder
  <2>1. Durable' = Durable /\ (Arbol' = NoMontado \/ Cambios(Arbol, Arbol'))
    BY <1>10, AnswerMaps
  <2>2. pc # "desmontado"
    BY <1>10 DEF Responder
  <2> QED BY <1>1, <1>3, <1>4, <2>1, <2>2
<1>11. CASE Muere
  BY <1>4, <1>11, EndMaps DEF Muere
<1> QED BY <1>2, <1>6, <1>7, <1>8, <1>9, <1>10, <1>11 DEF Next

(* fisopfs keeps what FsPromise promises.                                    *)
THEOREM KeepsPromise == Spec => Promesa
<1>1. Init => P!Init
  BY InitMaps
<1>2. FisopfsInv /\ FisopfsInv' /\ [Next]_vars => [P!Next]_P!vars
  BY StepMaps
<1> QED BY <1>1, <1>2, FisopfsInvariant, PTL DEF Spec, Promesa, P!Spec
=============================================================================
