----------------------------- MODULE ShellProofs -----------------------------
(* Proofs about Shell, for any lines, any number of them and any pids.       *)
EXTENDS Shell, FiniteSetTheorems, SequenceTheorems, WellFoundedInduction, TLAPS

(* What waitpid() may report of a process.                                   *)
IsRaw(raw) == raw \in Nat /\ raw <= 65535

Fields == {"pc", "parent", "group", "cmd", "flow", "in", "out", "ends", "kids", "raw"}

(* The processes that run a pipe.                                            *)
Helpers == {p \in DOMAIN procs : Helps(p)}

(* Every process is a record of the table, its parent another process of the *)
(* machine, and only those that run a pipe have children and signals to handle.    *)
Processes ==
    /\ DOMAIN procs \subseteq Pids
    /\ \A p \in DOMAIN procs :
          /\ DOMAIN procs[p] = Fields
          /\ IsRaw(procs[p].raw)
          /\ procs[p].parent \in (Pids \ {p}) \union {Sh, Nobody}
    /\ pending \subseteq Helpers \union {Sh}

(* What the shell has allocated is its command, and what nobody kept.        *)
MemoryHeld ==
    IF pc \in {"fork", "wait"}
    THEN heap = lost + Freed(tree) /\ \E l \in Lines : tree = ParseLine(l)
    ELSE heap = lost

(* The command in the foreground, until the shell waits for it.              *)
Foreground ==
    /\ pc \in {"prompt", "fork"} => child = 0 /\ expected \subseteq {status}
    /\ pc = "wait" /\ ChildOf(child, Sh) =>
          /\ procs[child].pc = "born" => procs[child].cmd = tree
          /\ procs[child].pc # "born" /\ procs[child].group = Sh =>
                procs[child].pc = "zombie" /\ expected = {}
          /\ procs[child].pc = "zombie" => expected \subseteq {Reported(tree, procs[child].raw)}
    /\ pc = "wait" => TypeOf(tree) # "BACK" /\ (ChildOf(child, Sh) \/ expected = {})

(* The inductive invariant.                                                  *)
ShellInv == TypeOK /\ Processes /\ MemoryHeld /\ Foreground

-----------------------------------------------------------------------------
(* Sums.  Sum is a recursive function, so what it returns is reached by      *)
(* induction on the sequence.                                                *)

(* Induction over the naturals, for a set S that has 0 and every successor.  *)
LEMMA Induction ==
    ASSUME NEW S, 0 \in S, \A n \in Nat : n \in S => n + 1 \in S
    PROVE  Nat \subseteq S
<1> DEFINE T == {n \in Nat : n \notin S}
<1> SUFFICES ASSUME T # {} PROVE FALSE
  OBVIOUS
<1>1. \E m \in T : \A k \in T : ~(k < m)
  <2>1. PICK m \in T : \A k \in T : <<k, m>> \notin OpToRel(<, Nat)
    BY WFMin, NatLessThanWellFounded, Zenon
  <2>2. \A k \in T : ~(k < m)
    BY <2>1, Zenon DEF OpToRel
  <2> QED BY <2>2, Zenon
<1>2. PICK m \in T : \A k \in T : ~(k < m)
  BY <1>1
<1>3. m \in Nat /\ m # 0 /\ m - 1 \in Nat /\ m - 1 < m
  OBVIOUS
<1>4. m - 1 \in S
  BY <1>2, <1>3
<1> QED BY <1>3, <1>4

(* sum holds the sums of the first elements of s, up to k of them.           *)
IsSum(s, sum, k) ==
    /\ sum = [n \in 0..k |-> sum[n]]
    /\ sum[0] = 0
    /\ \A n \in 1..k : sum[n] = sum[n - 1] + s[n]

(* Any sequence has such sums.                                               *)
LEMMA SumIsDefined ==
    ASSUME NEW s, NEW m \in Nat
    PROVE  \E g : IsSum(s, g, m)
<1> DEFINE S == {k \in Nat : \E g : IsSum(s, g, k)}
<1>1. 0 \in S
  <2> DEFINE g == [n \in 0..0 |-> 0]
  <2>1. IsSum(s, g, 0)
    BY DEF IsSum
  <2> QED BY <2>1, Zenon
<1>2. ASSUME NEW k \in Nat, k \in S PROVE k + 1 \in S
  <2>1. PICK g : IsSum(s, g, k)
    BY <1>2
  <2>2. \E h : IsSum(s, h, k + 1)
    <3> PICK x : x = g[k] + s[k + 1]
      OBVIOUS
    <3> DEFINE h == [n \in 0..(k + 1) |-> IF n = k + 1 THEN x ELSE g[n]]
    <3>1. \A n \in 0..k : h[n] = g[n]
      OBVIOUS
    <3>2. h[k + 1] = x /\ h = [n \in 0..(k + 1) |-> h[n]]
      OBVIOUS
    <3> HIDE DEF h
    <3>3. ASSUME NEW n \in 1..(k + 1) PROVE h[n] = h[n - 1] + s[n]
      <4>1. CASE n = k + 1
        <5>1. h[n - 1] = g[k]
          BY <3>1, <4>1
        <5> QED BY <3>2, <4>1, <5>1
      <4>2. CASE n # k + 1
        <5>1. n \in 1..k /\ n \in 0..k /\ n - 1 \in 0..k
          BY <4>2
        <5>2. g[n] = g[n - 1] + s[n]
          BY <2>1, <5>1 DEF IsSum
        <5> QED BY <3>1, <5>1, <5>2
      <4> QED BY <4>1, <4>2
    <3>4. h[0] = 0
      <4>1. g[0] = 0 /\ 0 \in 0..k
        BY <2>1 DEF IsSum
      <4> QED BY <3>1, <4>1
    <3>5. IsSum(s, h, k + 1)
      BY <3>2, <3>3, <3>4, Zenon DEF IsSum
    <3> QED BY <3>5, Zenon
  <2> QED BY <2>2
<1>3. Nat \subseteq S
  <2> HIDE DEF S
  <2> QED BY <1>1, <1>2, Induction
<1> QED BY <1>3

(* Sum(s) is the last of them.                                               *)
LEMMA SumIsLast ==
    ASSUME NEW s, Len(s) \in Nat
    PROVE  \E g : IsSum(s, g, Len(s)) /\ Sum(s) = g[Len(s)]
<1> PICK m \in Nat : m = Len(s)
  OBVIOUS
<1>1. \E g : g = [n \in 0..Len(s) |-> IF n = 0 THEN 0 ELSE g[n - 1] + s[n]]
  <2>1. PICK g : IsSum(s, g, Len(s))
    BY SumIsDefined
  <2>2. ASSUME NEW n \in 0..Len(s)
        PROVE  g[n] = IF n = 0 THEN 0 ELSE g[n - 1] + s[n]
    <3>1. CASE n = 0
      BY <2>1, <3>1, Zenon DEF IsSum
    <3>2. CASE n # 0
      <4>1. n \in 1..Len(s)
        BY <3>2
      <4> QED BY <2>1, <3>2, <4>1, Zenon DEF IsSum
    <3> QED BY <3>1, <3>2
  <2>3. g = [n \in 0..Len(s) |-> g[n]]
    BY <2>1, Zenon DEF IsSum
  <2>4. g = [n \in 0..Len(s) |-> IF n = 0 THEN 0 ELSE g[n - 1] + s[n]]
    BY <2>2, <2>3, Zenon
  <2> QED BY <2>4, Zenon
<1> DEFINE sum[n \in 0..Len(s)] == IF n = 0 THEN 0 ELSE sum[n - 1] + s[n]
<1>2. Sum(s) = sum[Len(s)]
  BY DEF Sum
<1>3. sum = [n \in 0..Len(s) |-> IF n = 0 THEN 0 ELSE sum[n - 1] + s[n]]
  BY <1>1, Zenon
<1> HIDE DEF sum
<1>4. \A n \in 0..Len(s) : sum[n] = IF n = 0 THEN 0 ELSE sum[n - 1] + s[n]
  BY <1>3, Zenon
<1>5. sum = [n \in 0..Len(s) |-> sum[n]]
  BY <1>3, <1>4, Zenon
<1>6. sum[0] = 0 /\ \A n \in 1..Len(s) : sum[n] = sum[n - 1] + s[n]
  BY <1>4
<1>7. IsSum(s, sum, Len(s))
  BY <1>5, <1>6, Zenon DEF IsSum
<1> QED BY <1>2, <1>7, Zenon

(* A sum of naturals is a natural.                                           *)
LEMMA SumIsNat ==
    ASSUME NEW m \in Nat, NEW f \in [1..m -> Nat]
    PROVE  Sum(f) \in Nat
<1>1. Len(f) = m
  OBVIOUS
<1>2. PICK g : IsSum(f, g, m) /\ Sum(f) = g[m]
  BY <1>1, SumIsLast
<1> DEFINE S == {n \in Nat : n <= m => g[n] \in Nat}
<1>3. 0 \in S
  BY <1>2 DEF IsSum
<1>4. ASSUME NEW n \in Nat, n \in S PROVE n + 1 \in S
  <2> SUFFICES ASSUME n + 1 <= m PROVE g[n + 1] \in Nat
    OBVIOUS
  <2> PICK k : k = n + 1
    OBVIOUS
  <2>1. k \in 1..m /\ k - 1 = n /\ g[n] \in Nat
    BY <1>4
  <2>2. g[k] = g[k - 1] + f[k]
    BY <1>2, <2>1, Zenon DEF IsSum
  <2>3. f[k] \in Nat
    BY <2>1
  <2> QED BY <2>1, <2>2, <2>3
<1>5. Nat \subseteq S
  <2> HIDE DEF S
  <2> QED BY <1>3, <1>4, Induction
<1> QED BY <1>2, <1>5

(* The sum of sums is the sum of both.                                       *)
LEMMA SumAdds ==
    ASSUME NEW m \in Nat, NEW f \in [1..m -> Nat], NEW g \in [1..m -> Nat], NEW h \in [1..m -> Nat],
           \A i \in 1..m : f[i] = g[i] + h[i]
    PROVE  Sum(f) = Sum(g) + Sum(h)
<1>1. Len(f) = m /\ Len(g) = m /\ Len(h) = m
  OBVIOUS
<1>2. PICK sf : IsSum(f, sf, m) /\ Sum(f) = sf[m]
  BY <1>1, SumIsLast
<1>3. PICK sg : IsSum(g, sg, m) /\ Sum(g) = sg[m]
  BY <1>1, SumIsLast
<1>4. PICK sh : IsSum(h, sh, m) /\ Sum(h) = sh[m]
  BY <1>1, SumIsLast
<1> DEFINE S == {n \in Nat : n <= m => sg[n] \in Nat /\ sh[n] \in Nat /\ sf[n] = sg[n] + sh[n]}
<1>5. 0 \in S
  BY <1>2, <1>3, <1>4 DEF IsSum
<1>6. ASSUME NEW n \in Nat, n \in S PROVE n + 1 \in S
  <2> SUFFICES ASSUME n + 1 <= m
               PROVE  sg[n + 1] \in Nat /\ sh[n + 1] \in Nat /\ sf[n + 1] = sg[n + 1] + sh[n + 1]
    OBVIOUS
  <2> PICK k : k = n + 1
    OBVIOUS
  <2>1. k \in 1..m /\ k - 1 = n /\ sg[n] \in Nat /\ sh[n] \in Nat /\ sf[n] = sg[n] + sh[n]
    BY <1>6
  <2>2. /\ sf[k] = sf[k - 1] + f[k]
        /\ sg[k] = sg[k - 1] + g[k]
        /\ sh[k] = sh[k - 1] + h[k]
    BY <1>2, <1>3, <1>4, <2>1, Zenon DEF IsSum
  <2>3. g[k] \in Nat /\ h[k] \in Nat /\ f[k] = g[k] + h[k]
    BY <2>1
  <2>4. sf[k] = sf[n] + f[k] /\ sg[k] = sg[n] + g[k] /\ sh[k] = sh[n] + h[k]
    BY <2>1, <2>2
  <2>5. sg[k] \in Nat /\ sh[k] \in Nat /\ sf[k] = sg[k] + sh[k]
    <3> PICK a \in Nat, b \in Nat, c \in Nat, d \in Nat : a = sg[n] /\ b = sh[n] /\ c = g[k] /\ d = h[k]
      BY <2>1, <2>3
    <3>1. sg[k] = a + c /\ sh[k] = b + d /\ sf[k] = (a + b) + (c + d)
      BY <2>1, <2>3, <2>4, Zenon
    <3> QED BY ONLY <3>1, a \in Nat, b \in Nat, c \in Nat, d \in Nat
  <2> QED BY <2>5
<1>7. Nat \subseteq S
  <2> HIDE DEF S
  <2> QED BY <1>5, <1>6, Induction
<1> QED BY <1>2, <1>3, <1>4, <1>7

-----------------------------------------------------------------------------
(* Memory: what free_command() frees is what parse_line() allocated, except  *)
(* for the tokens that nobody kept.                                          *)

(* The tokens of two disjoint kinds are counted apart.                       *)
LEMMA CountAdds ==
    ASSUME NEW part \in Seq(Tokens), NEW A, NEW B, A \cap B = {}
    PROVE  /\ Count(part, A) \in Nat /\ Count(part, B) \in Nat
           /\ Count(part, A \union B) = Count(part, A) + Count(part, B)
<1> DEFINE I(K) == {i \in DOMAIN part : part[i] \in K}
<1>1. IsFiniteSet(DOMAIN part)
  <2>1. DOMAIN part = 1..Len(part) /\ Len(part) \in Nat
    OBVIOUS
  <2> QED BY <2>1, FS_Interval
<1>2. IsFiniteSet(I(A)) /\ IsFiniteSet(I(B))
  BY <1>1, FS_Subset
<1>3. I(A) \cap I(B) = {} /\ I(A \union B) = I(A) \union I(B)
  OBVIOUS
<1>4. Cardinality(I(A)) \in Nat /\ Cardinality(I(B)) \in Nat
  BY <1>2, FS_CardinalityType
<1>5. Cardinality(I(A) \union I(B)) = Cardinality(I(A)) + Cardinality(I(B))
  <2>1. Cardinality(I(A) \cap I(B)) = 0
    BY <1>3, FS_EmptySet
  <2>2. Cardinality(I(A) \union I(B)) = Cardinality(I(A)) + Cardinality(I(B)) - Cardinality(I(A) \cap I(B))
    BY <1>2, FS_Union
  <2> HIDE DEF I
  <2> QED BY <1>4, <2>1, <2>2
<1> QED BY <1>3, <1>4, <1>5 DEF Count

(* What parse_back() leaves of a part is a part.                             *)
LEMMA ParsedIsPart ==
    ASSUME NEW part \in Seq(Tokens)
    PROVE  Parsed(part) \in Seq(Tokens)
<1>1. CASE IsBack(part)
  <2> PICK i : i = CHOOSE j \in Ampersand(part) : TRUE
    OBVIOUS
  <2>1. i \in Ampersand(part)
    BY <1>1 DEF IsBack
  <2>2. i \in 1..Len(part) /\ Len(part) \in Nat
    BY <2>1 DEF Ampersand
  <2>3. SubSeq(part, 1, i - 1) \in Seq(Tokens)
    <3>1. i - 1 \in Int /\ \A j \in 1..(i - 1) : part[j] \in Tokens
      <4>1. \A j \in 1..Len(part) : part[j] \in Tokens
        OBVIOUS
      <4>2. i - 1 \in Int /\ \A j \in 1..(i - 1) : j \in 1..Len(part)
        BY ONLY <2>2
      <4> QED BY <4>1, <4>2, Zenon
    <3> QED BY <3>1, SubSeqProperties
  <2> QED BY <1>1, <2>3 DEF Parsed
<1>2. CASE ~IsBack(part)
  BY <1>2 DEF Parsed
<1> QED BY <1>1, <1>2

(* One command: the blocks it holds and those it lost are those allocated.   *)
LEMMA CommandFreed ==
    ASSUME NEW part \in Seq(Tokens)
    PROVE  /\ Blocks(ParseCmd(part)) \in Nat /\ Count(Parsed(part), Empty) \in Nat
           /\ 1 + (IF IsBack(part) THEN 1 ELSE 0)
                + Count(Parsed(part), Arguments \union Empty \union {"var"})
              = Blocks(ParseCmd(part)) + Count(Parsed(part), Empty)
<1> DEFINE p == Parsed(part)
<1>0. p \in Seq(Tokens)
  BY ParsedIsPart
<1> HIDE DEF p
<1>1. /\ Count(p, Arguments) \in Nat /\ Count(p, Empty) \in Nat /\ Count(p, {"var"}) \in Nat
      /\ Count(p, Arguments \union Empty \union {"var"})
         = Count(p, Arguments) + Count(p, Empty) + Count(p, {"var"})
  <2>1. Arguments \cap Empty = {} /\ (Arguments \union Empty) \cap {"var"} = {}
    BY DEF Arguments, Empty
  <2>2. /\ Count(p, Arguments) \in Nat /\ Count(p, Empty) \in Nat
        /\ Count(p, Arguments \union Empty) = Count(p, Arguments) + Count(p, Empty)
    BY <1>0, <2>1, CountAdds
  <2>3. /\ Count(p, {"var"}) \in Nat
        /\ Count(p, (Arguments \union Empty) \union {"var"}) = Count(p, Arguments \union Empty) + Count(p, {"var"})
    BY <1>0, <2>1, CountAdds
  <2> QED BY <2>2, <2>3
<1>2. CASE IsBack(part)
  <2>1. Blocks(ParseCmd(part)) = Count(p, Arguments) + Count(p, {"var"}) + 2
    BY <1>2 DEF Blocks, ParseCmd, ParseBack, ParseExec, p
  <2> QED BY <1>1, <1>2, <2>1 DEF p
<1>3. CASE ~IsBack(part)
  <2>1. p = part
    BY <1>3 DEF Parsed, p
  <2>2. ParseCmd(part).type # "BACK"
    BY <1>3 DEF ParseCmd, ParseExec
  <2>3. Blocks(ParseCmd(part)) = Count(p, Arguments) + Count(p, {"var"}) + 1
    BY <1>3, <2>1, <2>2 DEF Blocks, ParseCmd, ParseExec
  <2> QED BY <1>1, <1>3, <2>3 DEF p
<1> QED BY <1>2, <1>3

(* A whole line.                                                             *)
LEMMA LineFreed ==
    ASSUME NEW l \in Lines
    PROVE  /\ ParseLine(l) # NULL
           /\ Freed(ParseLine(l)) \in Nat /\ Lost(l) \in Nat
           /\ Allocated(l) = Freed(ParseLine(l)) + Lost(l)
<1> DEFINE m == Commands(l)
           A == [i \in 1..m |-> 1 + (IF IsBack(l[i]) THEN 1 ELSE 0)
                                  + Count(Parsed(l[i]), Arguments \union Empty \union {"var"})]
           F == [i \in 1..m |-> Blocks(ParseCmd(l[i]))]
           L == [i \in 1..m |-> Count(Parsed(l[i]), Empty)]
<1>1. /\ l \in Seq(Seq(Tokens)) /\ m \in Nat /\ m >= 1
      /\ \A i \in 1..m : l[i] \in Seq(Tokens)
  <2>1. l \in Seq(Seq(Tokens)) /\ m > 0
    BY ShellAssumption DEF IsLine
  <2>2. Len(l) \in Nat /\ (m = Len(l) \/ m = Len(l) - 1)
    BY <2>1 DEF Commands
  <2> QED BY <2>1, <2>2
<1> HIDE DEF m
<1>2. /\ A \in [1..m -> Nat] /\ F \in [1..m -> Nat] /\ L \in [1..m -> Nat]
      /\ \A i \in 1..m : A[i] = F[i] + L[i]
  <2>1. ASSUME NEW i \in 1..m
        PROVE  F[i] \in Nat /\ L[i] \in Nat /\ A[i] = F[i] + L[i]
    BY <1>1, CommandFreed
  <2>2. /\ A = [i \in 1..m |-> A[i]] /\ F = [i \in 1..m |-> F[i]] /\ L = [i \in 1..m |-> L[i]]
    OBVIOUS
  <2> HIDE DEF A, F, L
  <2> QED BY <2>1, <2>2
<1>3. Sum(A) = Sum(F) + Sum(L) /\ Sum(F) \in Nat /\ Sum(L) \in Nat
  <2> HIDE DEF A, F, L
  <2> QED BY <1>1, <1>2, SumAdds, SumIsNat
<1>4. /\ Len(ParseLine(l)) = m
      /\ \A i \in 1..m : ParseLine(l)[i] = ParseCmd(l[i])
  BY <1>1 DEF ParseLine, m
<1>5. Freed(ParseLine(l)) = Sum(F) + m - 1
  <2>1. [i \in 1..Len(ParseLine(l)) |-> Blocks(ParseLine(l)[i])] = F
    BY <1>4
  <2> QED BY <1>4, <2>1 DEF Freed
<1>6. Lost(l) = Sum(L) /\ Allocated(l) = Sum(A) + m - 1
  BY DEF Lost, Allocated, m
<1>7. ParseLine(l) # NULL
  BY <1>1, <1>4 DEF NULL
<1> HIDE DEF A, F, L
<1> QED BY <1>1, <1>3, <1>5, <1>6, <1>7

-----------------------------------------------------------------------------
(* Processes.  What TypeOK says of them, and what it says of the shell.      *)
ProcType ==
    /\ DOMAIN procs \subseteq Pids
    /\ pending \subseteq DOMAIN procs \union {Sh}
    /\ \A p \in DOMAIN procs :
          /\ Zombie(p) => procs[p].in = 0 /\ procs[p].out = 0 /\ procs[p].ends = {}
          /\ procs[p].parent \in Pids => procs[p].parent \in Helpers
          /\ procs[p].ends # {} => procs[p].pc \in {"left", "right", "fork1", "fork2", "close"}

(* The places of Helps.                                                      *)
Helping == {"fork1", "fork2", "close", "wait1", "wait2"}

ShellType ==
    /\ pc \in {"prompt", "fork", "wait", "exited"}
    /\ tree = NULL <=> pc \notin {"fork", "wait"}
    /\ child \in Pids \union {0, -1}
    /\ status \in Int /\ -255 <= status /\ status <= 65535
    /\ heap \in Nat /\ lost \in Nat /\ typed \in 0..MaxLines

(* TypeOK in these two parts.                                                *)
LEMMA TypeParts == TypeOK <=> ShellType /\ ProcType
BY DEF TypeOK, ShellType, ProcType, Helpers, Helps

(* Pids are neither the group of the shell nor the parent of orphans.        *)
LEMMA PidFacts == \A p \in Pids : p \in Nat /\ p # Sh /\ p # Nobody /\ p # 0 /\ p # -1
BY ShellAssumption DEF Sh, Nobody

(* A process that is not the child of a pipe takes a step, and perhaps waits *)
(* for the zombies Z.                                                        *)
LEMMA StepKeeps ==
    ASSUME ProcType, Processes, NEW p \in DOMAIN procs, NEW r, NEW Z,
           \A q \in Z : q \in DOMAIN procs => Zombie(q),
           ~Zombie(p),
           procs' = [q \in (DOMAIN procs) \ Z |-> IF q = p THEN r ELSE procs[q]],
           pending' = pending,
           DOMAIN r = Fields, IsRaw(r.raw), r.parent = procs[p].parent,
           r.pc # "zombie", Helps(p) => r.pc \in Helping,
           r.ends # {} => r.pc \in {"left", "right", "fork1", "fork2", "close"}
    PROVE  ProcType' /\ Processes'
<1>1. p \notin Z /\ DOMAIN procs' = (DOMAIN procs) \ Z /\ procs'[p] = r
      /\ \A q \in (DOMAIN procs) \ Z : q # p => procs'[q] = procs[q]
  OBVIOUS
<1>2. Helpers \subseteq Helpers'
  BY <1>1 DEF Helpers, Helps, Helping, Zombie, At
<1>3. ProcType'
  <2>1. DOMAIN procs' \subseteq Pids
    BY <1>1 DEF ProcType
  <2>2. pending' \subseteq DOMAIN procs' \union {Sh}
    BY <1>2 DEF Processes, Helpers
  <2>3. ASSUME NEW q \in DOMAIN procs'
        PROVE  /\ procs'[q].pc = "zombie" => procs'[q].in = 0 /\ procs'[q].out = 0 /\ procs'[q].ends = {}
               /\ procs'[q].parent \in Pids => procs'[q].parent \in Helpers'
               /\ procs'[q].ends # {} => procs'[q].pc \in {"left", "right", "fork1", "fork2", "close"}
    <3>1. CASE q = p
      <4>1. r.parent \in Pids => r.parent \in Helpers'
        BY <1>2 DEF ProcType
      <4> QED BY <1>1, <3>1, <4>1
    <3>2. CASE q # p
      <4>1. q \in DOMAIN procs /\ procs'[q] = procs[q]
        BY <1>1, <2>3, <3>2
      <4>2. procs[q].parent \in Pids => procs[q].parent \in Helpers'
        BY <1>2, <4>1 DEF ProcType
      <4> QED BY <4>1, <4>2 DEF ProcType, Zombie, At
    <3> QED BY <3>1, <3>2
  <2> QED BY <2>1, <2>2, <2>3 DEF ProcType, Zombie, At
<1>4. Processes'
  <2>1. ASSUME NEW q \in DOMAIN procs'
        PROVE  /\ DOMAIN procs'[q] = Fields
               /\ IsRaw(procs'[q].raw)
               /\ procs'[q].parent \in (Pids \ {q}) \union {Sh, Nobody}
    <3>1. CASE q = p
      BY <1>1, <3>1 DEF Processes
    <3>2. CASE q # p
      BY <1>1, <2>1, <3>2 DEF Processes
    <3> QED BY <3>1, <3>2
  <2> QED BY <1>1, <1>2, <2>1 DEF Processes
<1> QED BY <1>3, <1>4

(* Zombies are reaped.                                                       *)
LEMMA ReapKeeps ==
    ASSUME ProcType, Processes, NEW Z, \A q \in Z : q \in DOMAIN procs => Zombie(q),
           procs' = Without(procs, Z), pending' \subseteq pending
    PROVE  ProcType' /\ Processes'
<1>1. DOMAIN procs' = (DOMAIN procs) \ Z
      /\ \A q \in (DOMAIN procs) \ Z : procs'[q] = procs[q]
  BY DEF Without
<1>2. Helpers \subseteq Helpers'
  BY <1>1 DEF Helpers, Helps, Zombie, At
<1>3. ProcType'
  <2>1. DOMAIN procs' \subseteq Pids
    BY <1>1 DEF ProcType
  <2>2. pending' \subseteq DOMAIN procs' \union {Sh}
    BY <1>2 DEF Processes, Helpers
  <2> QED BY <1>1, <1>2, <2>1, <2>2 DEF ProcType, Zombie, At
<1>4. Processes'
  BY <1>1, <1>2 DEF Processes
<1> QED BY <1>3, <1>4

(* The process n that fork() makes is new, and is not a parent; another one, *)
(* p, may be the one that forks it.                                          *)
LEMMA ForkKeeps ==
    ASSUME ProcType, Processes, NEW n \in Pids, n \notin DOMAIN procs,
           NEW r, NEW p \in (DOMAIN procs) \union {n}, NEW me,
           procs' = [q \in (DOMAIN procs) \union {n} |->
                        IF q = n THEN r ELSE IF q = p THEN me ELSE procs[q]],
           pending' = pending,
           DOMAIN r = Fields, IsRaw(r.raw),
           r.parent = Sh \/ r.parent \in Helpers, r.pc \in {"born", "left", "right"},
           r.ends # {} => r.pc # "born",
           p # n => /\ DOMAIN me = Fields /\ IsRaw(me.raw)
                    /\ me.parent = procs[p].parent
                    /\ me.pc \in Helping
                    /\ me.ends # {} => me.pc \in {"fork1", "fork2", "close"}
    PROVE  ProcType' /\ Processes'
<1>1. DOMAIN procs' = (DOMAIN procs) \union {n}
      /\ \A q \in DOMAIN procs : q # n /\ procs'[q] = IF q = p THEN me ELSE procs[q]
  OBVIOUS
<1>2. procs'[n] = r
  OBVIOUS
<1>3. Helpers \subseteq Helpers'
  BY <1>1 DEF Helpers, Helps, Helping
<1>4. r.parent \in (Pids \ {n}) \union {Sh, Nobody}
  BY DEF Helpers, ProcType
<1>5. ProcType'
  <2>1. DOMAIN procs' \subseteq Pids /\ pending' \subseteq DOMAIN procs' \union {Sh}
    BY <1>1 DEF ProcType
  <2>2. ASSUME NEW q \in DOMAIN procs'
        PROVE  /\ procs'[q].pc = "zombie" => procs'[q].in = 0 /\ procs'[q].out = 0 /\ procs'[q].ends = {}
               /\ procs'[q].parent \in Pids => procs'[q].parent \in Helpers'
               /\ procs'[q].ends # {} => procs'[q].pc \in {"left", "right", "fork1", "fork2", "close"}
    <3>1. CASE q = n
      <4>1. r.parent \in Pids => r.parent \in Helpers'
        BY <1>3, PidFacts
      <4> QED BY <1>2, <3>1, <4>1
    <3>2. CASE q # n /\ q = p
      <4>1. me.parent \in Pids => me.parent \in Helpers'
        BY <1>1, <1>3, <3>2 DEF ProcType
      <4>2. p \in DOMAIN procs /\ procs'[q] = me
        BY <1>1, <3>2
      <4> QED BY <3>2, <4>1, <4>2 DEF Helping
    <3>3. CASE q # n /\ q # p
      <4>1. q \in DOMAIN procs /\ procs'[q] = procs[q]
        BY <1>1, <2>2, <3>3
      <4>2. procs[q].parent \in Pids => procs[q].parent \in Helpers'
        BY <1>3, <4>1 DEF ProcType
      <4> QED BY <4>1, <4>2 DEF ProcType, Zombie, At
    <3> QED BY <3>1, <3>2, <3>3
  <2> QED BY <2>1, <2>2 DEF ProcType, Zombie, At
<1>6. Processes'
  <2>1. ASSUME NEW q \in DOMAIN procs'
        PROVE  /\ DOMAIN procs'[q] = Fields
               /\ IsRaw(procs'[q].raw)
               /\ procs'[q].parent \in (Pids \ {q}) \union {Sh, Nobody}
    <3>1. CASE q = n
      BY <1>2, <1>4, <3>1
    <3>2. CASE q # n /\ q = p
      BY <1>1, <2>1, <3>2 DEF Processes
    <3>3. CASE q # n /\ q # p
      BY <1>1, <2>1, <3>3 DEF Processes
    <3> QED BY <3>1, <3>2, <3>3
  <2>2. DOMAIN procs' \subseteq Pids
    BY <1>1 DEF ProcType
  <2> QED BY <1>3, <2>1, <2>2 DEF Processes
<1> QED BY <1>5, <1>6

(* What the end of a process changes: it is a zombie, its children are       *)
(* orphans, and whoever is an orphan and a zombie is not there any more.     *)
LEMMA EndsEffect ==
    ASSUME Processes, NEW p \in DOMAIN procs, NEW raw, Ends(p, raw)
    PROVE  /\ DOMAIN procs' \subseteq DOMAIN procs
           /\ \A q \in DOMAIN procs' : DOMAIN procs'[q] = Fields
           /\ \A q \in DOMAIN procs' \ {p} :
                 /\ procs'[q].pc = procs[q].pc /\ procs'[q].raw = procs[q].raw
                 /\ procs'[q].in = procs[q].in /\ procs'[q].out = procs[q].out
                 /\ procs'[q].ends = procs[q].ends /\ procs'[q].cmd = procs[q].cmd
                 /\ procs'[q].group = procs[q].group
                 /\ procs'[q].parent = IF procs[q].parent = p THEN Nobody ELSE procs[q].parent
           /\ p \in DOMAIN procs' =>
                 /\ procs'[p].pc = "zombie" /\ procs'[p].raw = raw
                 /\ procs'[p].in = 0 /\ procs'[p].out = 0 /\ procs'[p].ends = {}
                 /\ procs'[p].group = procs[p].group /\ procs'[p].parent = procs[p].parent
           /\ procs[p].parent # Nobody => p \in DOMAIN procs'
           /\ \A q \in DOMAIN procs \ {p} :
                 procs[q].pc # "zombie" \/ procs[q].parent \notin {p, Nobody} => q \in DOMAIN procs'
<1> DEFINE dead == [procs[p] EXCEPT !.pc = "zombie", !.in = 0, !.out = 0,
                                    !.ends = {}, !.kids = <<>>, !.raw = raw]
           orphan(q) == [procs[q] EXCEPT !.parent = Nobody]
           adopted == [q \in DOMAIN procs |-> IF q = p THEN dead
                                              ELSE IF procs[q].parent = p THEN orphan(q)
                                              ELSE procs[q]]
           Z == {q \in DOMAIN adopted : adopted[q].parent = Nobody /\ adopted[q].pc = "zombie"}
<1>1. procs' = Without(adopted, Z)
  BY DEF Ends
<1>2. \A q \in DOMAIN procs : DOMAIN procs[q] = Fields
  BY DEF Processes
<1>3. /\ DOMAIN dead = Fields
      /\ dead.pc = "zombie" /\ dead.raw = raw /\ dead.in = 0 /\ dead.out = 0 /\ dead.ends = {}
      /\ dead.group = procs[p].group /\ dead.parent = procs[p].parent
  BY <1>2 DEF Fields
<1>4. ASSUME NEW q \in DOMAIN procs
      PROVE  /\ DOMAIN orphan(q) = Fields
             /\ orphan(q).pc = procs[q].pc /\ orphan(q).raw = procs[q].raw
             /\ orphan(q).in = procs[q].in /\ orphan(q).out = procs[q].out
             /\ orphan(q).ends = procs[q].ends /\ orphan(q).cmd = procs[q].cmd
             /\ orphan(q).group = procs[q].group /\ orphan(q).parent = Nobody
  BY <1>2 DEF Fields
<1>5. /\ DOMAIN adopted = DOMAIN procs /\ adopted[p] = dead
      /\ \A q \in DOMAIN procs \ {p} :
            adopted[q] = IF procs[q].parent = p THEN orphan(q) ELSE procs[q]
  OBVIOUS
<1> HIDE DEF dead, orphan, adopted
<1>6. /\ DOMAIN procs' = (DOMAIN procs) \ Z
      /\ \A q \in (DOMAIN procs) \ Z : procs'[q] = adopted[q]
  BY <1>1, <1>5 DEF Without
<1>7. \A q \in DOMAIN procs \ {p} :
         /\ DOMAIN adopted[q] = Fields
         /\ adopted[q].pc = procs[q].pc /\ adopted[q].raw = procs[q].raw
         /\ adopted[q].in = procs[q].in /\ adopted[q].out = procs[q].out
         /\ adopted[q].ends = procs[q].ends /\ adopted[q].cmd = procs[q].cmd
         /\ adopted[q].group = procs[q].group
         /\ adopted[q].parent = IF procs[q].parent = p THEN Nobody ELSE procs[q].parent
  BY <1>2, <1>4, <1>5
<1>8. \A q \in DOMAIN procs : q \in Z <=> adopted[q].parent = Nobody /\ adopted[q].pc = "zombie"
  BY <1>5
<1> HIDE DEF Z
<1>9. /\ procs[p].parent # Nobody => p \in DOMAIN procs'
      /\ \A q \in DOMAIN procs \ {p} :
            procs[q].pc # "zombie" \/ procs[q].parent \notin {p, Nobody} => q \in DOMAIN procs'
  BY <1>3, <1>5, <1>6, <1>7, <1>8
<1> QED BY <1>3, <1>5, <1>6, <1>7, <1>9

(* The end of a process keeps the table of processes.                        *)
LEMMA EndsKeeps ==
    ASSUME ProcType, Processes, NEW p \in DOMAIN procs, NEW raw, IsRaw(raw), Ends(p, raw)
    PROVE  ProcType' /\ Processes'
<1>1. /\ DOMAIN procs' \subseteq DOMAIN procs
      /\ \A q \in DOMAIN procs' : DOMAIN procs'[q] = Fields
      /\ \A q \in DOMAIN procs' \ {p} :
            /\ procs'[q].pc = procs[q].pc /\ procs'[q].raw = procs[q].raw
            /\ procs'[q].in = procs[q].in /\ procs'[q].out = procs[q].out
            /\ procs'[q].ends = procs[q].ends
            /\ procs'[q].parent = IF procs[q].parent = p THEN Nobody ELSE procs[q].parent
      /\ p \in DOMAIN procs' =>
            /\ procs'[p].pc = "zombie" /\ procs'[p].raw = raw
            /\ procs'[p].in = 0 /\ procs'[p].out = 0 /\ procs'[p].ends = {}
            /\ procs'[p].parent = procs[p].parent
      /\ \A q \in DOMAIN procs \ {p} : procs[q].pc # "zombie" => q \in DOMAIN procs'
  BY EndsEffect
<1>2. Helpers \ {p} \subseteq Helpers'
  BY <1>1 DEF Helpers, Helps
<1>3. \A q \in DOMAIN procs :
         /\ IsRaw(procs[q].raw) /\ procs[q].parent \in (Pids \ {q}) \union {Sh, Nobody}
         /\ procs[q].parent \in Pids => procs[q].parent \in Helpers
  BY DEF Processes, ProcType
<1>4. pending' \subseteq Helpers' \union {Sh}
  <2>1. pending' = (pending \ {p}) \union ({procs[p].parent} \ {Nobody})
    BY DEF Ends
  <2>2. procs[p].parent \in (Helpers \ {p}) \union {Sh, Nobody}
    BY <1>3
  <2>3. pending \subseteq Helpers \union {Sh}
    BY DEF Processes
  <2> QED BY <1>2, <2>1, <2>2, <2>3
<1>5. ProcType'
  <2>1. DOMAIN procs' \subseteq Pids
    BY <1>1 DEF ProcType
  <2>2. pending' \subseteq DOMAIN procs' \union {Sh}
    BY <1>4 DEF Helpers
  <2>3. ASSUME NEW q \in DOMAIN procs'
        PROVE  /\ procs'[q].pc = "zombie" => procs'[q].in = 0 /\ procs'[q].out = 0 /\ procs'[q].ends = {}
               /\ procs'[q].parent \in Pids => procs'[q].parent \in Helpers'
               /\ procs'[q].ends # {} => procs'[q].pc \in {"left", "right", "fork1", "fork2", "close"}
    <3>1. CASE q = p
      <4>1. procs[p].parent \in Pids => procs[p].parent \in Helpers'
        BY <1>2, <1>3, PidFacts
      <4> QED BY <1>1, <2>3, <3>1, <4>1
    <3>2. CASE q # p
      <4>1. q \in DOMAIN procs \ {p}
        BY <1>1, <2>3, <3>2
      <4>2. procs'[q].parent \in Pids => procs'[q].parent \in Helpers'
        BY <1>1, <1>2, <1>3, <2>3, <4>1, PidFacts
      <4>3. /\ procs[q].pc = "zombie" => procs[q].in = 0 /\ procs[q].out = 0 /\ procs[q].ends = {}
            /\ procs[q].ends # {} => procs[q].pc \in {"left", "right", "fork1", "fork2", "close"}
        BY <4>1 DEF ProcType, Zombie, At
      <4> QED BY <1>1, <2>3, <4>1, <4>2, <4>3
    <3> QED BY <3>1, <3>2
  <2> QED BY <2>1, <2>2, <2>3 DEF ProcType, Zombie, At
<1>6. Processes'
  <2>1. ASSUME NEW q \in DOMAIN procs'
        PROVE  /\ DOMAIN procs'[q] = Fields
               /\ IsRaw(procs'[q].raw)
               /\ procs'[q].parent \in (Pids \ {q}) \union {Sh, Nobody}
    BY <1>1, <1>3, <2>1
  <2>2. DOMAIN procs' \subseteq Pids
    BY <1>1 DEF ProcType
  <2> QED BY <1>4, <2>1, <2>2 DEF Processes
<1> QED BY <1>5, <1>6

-----------------------------------------------------------------------------
(* Steps of the processes.  The shell is left alone, and so are its command  *)
(* in the foreground and what is expected of it.                             *)

(* What the invariant is made of, in the two parts of TypeOK.                *)
LEMMA InvParts ==
    ShellInv <=> ShellType /\ ProcType /\ Processes /\ MemoryHeld /\ Foreground
BY TypeParts DEF ShellInv

(* And after a step.                                                         *)
LEMMA InvPartsNext ==
    ShellType' /\ ProcType' /\ Processes' /\ MemoryHeld' /\ Foreground' => ShellInv'
BY InvParts, PTL

(* If the shell is left alone, so are its types and its memory.              *)
LEMMA ShellAlone ==
    ASSUME ShellType, MemoryHeld, UNCHANGED shell
    PROVE  ShellType' /\ MemoryHeld'
BY DEF ShellType, MemoryHeld, shell

(* A process takes a step and waits for the zombies Z, not of the shell.     *)
LEMMA ProcessStep ==
    ASSUME ShellInv, NEW p \in DOMAIN procs, NEW r, NEW Z,
           \A q \in Z : q \in DOMAIN procs => Zombie(q) /\ ~ChildOf(q, Sh),
           procs[p].pc # "zombie",
           procs' = [q \in (DOMAIN procs) \ Z |-> IF q = p THEN r ELSE procs[q]],
           UNCHANGED <<shell, pending, expected>>,
           DOMAIN r = Fields, r.raw = procs[p].raw, r.parent = procs[p].parent,
           r.pc \notin {"zombie", "born"}, Helps(p) => r.pc \in Helping,
           r.ends # {} => r.pc \in {"left", "right", "fork1", "fork2", "close"},
           pc = "wait" /\ p = child /\ procs[p].parent = Sh => r.group # Sh
    PROVE  ShellInv'
<1>1. ShellType /\ ProcType /\ Processes /\ MemoryHeld /\ Foreground
  BY InvParts
<1>2. ShellType' /\ MemoryHeld'
  BY <1>1, ShellAlone
<1>3. ProcType' /\ Processes'
  <2>1. IsRaw(r.raw) /\ ~Zombie(p) /\ pending' = pending
    BY <1>1 DEF Processes, Zombie, At
  <2>2. \A q \in Z : q \in DOMAIN procs => Zombie(q)
    OBVIOUS
  <2> QED BY <1>1, <2>1, <2>2, StepKeeps
<1>4. Foreground'
  <2>1. p \notin Z /\ DOMAIN procs' = (DOMAIN procs) \ Z /\ procs'[p] = r
        /\ \A q \in (DOMAIN procs) \ Z : q # p => procs'[q] = procs[q]
    BY DEF Zombie, At
  <2>2. pc' = pc /\ tree' = tree /\ child' = child /\ status' = status /\ expected' = expected
    BY DEF shell
  <2>3. ChildOf(child, Sh)' <=> ChildOf(child, Sh)
    BY <2>1, <2>2 DEF ChildOf
  <2>4. CASE child # p
    <3>1. ChildOf(child, Sh) => procs'[child] = procs[child]
      BY <2>1, <2>4 DEF ChildOf
    <3> QED BY <1>1, <2>2, <2>3, <3>1 DEF Foreground
  <2>5. CASE child = p
    <3>1. pc = "wait" /\ ChildOf(child, Sh) =>
             procs'[child].pc \notin {"zombie", "born"} /\ procs'[child].group # Sh
      BY <2>1, <2>5 DEF ChildOf
    <3> QED BY <1>1, <2>2, <2>3, <3>1 DEF Foreground
  <2> QED BY <2>4, <2>5
<1> QED BY <1>2, <1>3, <1>4, InvPartsNext

(* The command in the foreground that is neither born nor a zombie has a     *)
(* group of its own.                                                         *)
LEMMA ForegroundGroup ==
    ASSUME ShellInv, NEW p \in DOMAIN procs, procs[p].pc \notin {"born", "zombie"},
           pc = "wait", p = child, procs[p].parent = Sh
    PROVE  procs[p].group # Sh
BY DEF ShellInv, Foreground, ChildOf

(* A process ends.  It is the one in the foreground exactly if it is the     *)
(* child that the shell waits for, and then that is what status should be.   *)
LEMMA EndsStep ==
    ASSUME ShellInv, NEW p \in DOMAIN procs, procs[p].pc # "zombie",
           NEW raw, IsRaw(raw), Ends(p, raw)
    PROVE  ShellInv'
<1>1. ShellType /\ ProcType /\ Processes /\ MemoryHeld /\ Foreground /\ p \in Pids
  BY InvParts DEF ProcType
<1>2. ShellType' /\ MemoryHeld'
  BY <1>1, ShellAlone DEF Ends
<1>3. ProcType' /\ Processes'
  BY <1>1, EndsKeeps
<1>4. Foreground'
  <2>1. pc' = pc /\ tree' = tree /\ child' = child /\ status' = status
    BY DEF Ends, shell
  <2>2. /\ DOMAIN procs' \subseteq DOMAIN procs
        /\ \A q \in DOMAIN procs' \ {p} :
              /\ procs'[q].pc = procs[q].pc /\ procs'[q].raw = procs[q].raw
              /\ procs'[q].cmd = procs[q].cmd /\ procs'[q].group = procs[q].group
              /\ procs'[q].parent = IF procs[q].parent = p THEN Nobody ELSE procs[q].parent
        /\ p \in DOMAIN procs' =>
              /\ procs'[p].pc = "zombie" /\ procs'[p].raw = raw
              /\ procs'[p].group = procs[p].group /\ procs'[p].parent = procs[p].parent
        /\ procs[p].parent # Nobody => p \in DOMAIN procs'
        /\ \A q \in DOMAIN procs \ {p} : procs[q].parent \notin {p, Nobody} => q \in DOMAIN procs'
    BY <1>1, EndsEffect
  <2>3. p # Sh /\ p # 0 /\ Sh # Nobody
    BY <1>1, PidFacts DEF Sh, Nobody
  <2>4. ChildOf(child, Sh)' <=> ChildOf(child, Sh)
    BY <2>1, <2>2, <2>3 DEF ChildOf
  <2>5. CASE child = p /\ procs[p].parent = Sh
    <3>1. pc \notin {"prompt", "fork"}
      BY <1>1, <2>3, <2>5 DEF Foreground
    <3>2. ChildOf(child, Sh) /\ procs'[child].pc = "zombie" /\ procs'[child].raw = raw
          /\ procs'[child].group = procs[p].group
      BY <2>2, <2>3, <2>5 DEF ChildOf
    <3>3. expected' = IF procs[p].pc = "born" THEN {} ELSE {Reported(tree, raw)}
      BY <2>5 DEF Ends
    <3>4. pc = "wait" /\ procs[p].pc # "born" => procs[p].group # Sh
      BY <2>5, ForegroundGroup
    <3> QED BY <1>1, <2>1, <2>4, <3>1, <3>2, <3>3, <3>4 DEF Foreground
  <2>6. CASE ~(child = p /\ procs[p].parent = Sh)
    <3>1. expected' = expected
      BY <2>6 DEF Ends
    <3>2. ChildOf(child, Sh) =>
             /\ procs'[child].pc = procs[child].pc /\ procs'[child].raw = procs[child].raw
             /\ procs'[child].cmd = procs[child].cmd /\ procs'[child].group = procs[child].group
      BY <2>2, <2>3, <2>6 DEF ChildOf
    <3> QED BY <1>1, <2>1, <2>4, <3>1, <3>2 DEF Foreground
  <2> QED BY <2>5, <2>6
<1> QED BY <1>2, <1>3, <1>4, InvPartsNext

(* Zombies that are not the command in the foreground are reaped.            *)
LEMMA ReapStep ==
    ASSUME ShellInv, NEW Z, \A q \in Z : q \in DOMAIN procs => Zombie(q),
           procs' = Without(procs, Z), pending' \subseteq pending, UNCHANGED <<shell, expected>>,
           pc = "wait" /\ ChildOf(child, Sh) /\ child \in Z => expected = {}
    PROVE  ShellInv'
<1>1. ShellType /\ ProcType /\ Processes /\ MemoryHeld /\ Foreground
  BY InvParts
<1>2. ShellType' /\ MemoryHeld'
  BY <1>1, ShellAlone
<1>3. ProcType' /\ Processes'
  BY <1>1, ReapKeeps
<1>4. Foreground'
  <2>1. DOMAIN procs' = (DOMAIN procs) \ Z /\ \A q \in (DOMAIN procs) \ Z : procs'[q] = procs[q]
    BY DEF Without
  <2>2. pc' = pc /\ tree' = tree /\ child' = child /\ status' = status /\ expected' = expected
    BY DEF shell
  <2>3. ChildOf(child, Sh)' <=> ChildOf(child, Sh) /\ child \notin Z
    BY <2>1, <2>2 DEF ChildOf
  <2>4. ChildOf(child, Sh)' => procs'[child] = procs[child]
    BY <2>1, <2>2 DEF ChildOf
  <2> QED BY <1>1, <2>2, <2>3, <2>4 DEF Foreground
<1> QED BY <1>2, <1>3, <1>4, InvPartsNext

(* A step of one process that leaves the others alone.                       *)
LEMMA LoneStep ==
    ASSUME ShellInv, NEW p \in DOMAIN procs, NEW r, procs[p].pc # "zombie", Steps(p, r),
           DOMAIN r = Fields, r.raw = procs[p].raw, r.parent = procs[p].parent,
           r.pc \notin {"zombie", "born"}, Helps(p) => r.pc \in Helping,
           r.ends # {} => r.pc \in {"left", "right", "fork1", "fork2", "close"},
           pc = "wait" /\ p = child /\ procs[p].parent = Sh => r.group # Sh
    PROVE  ShellInv'
<1>1. procs' = [q \in (DOMAIN procs) \ {} |-> IF q = p THEN r ELSE procs[q]]
  <2>1. procs' = [q \in (DOMAIN procs) \union {p} |-> IF q = p THEN r ELSE procs[q]]
    BY DEF Steps, Update
  <2>2. (DOMAIN procs) \union {p} = (DOMAIN procs) \ {}
    OBVIOUS
  <2> QED BY <2>1, <2>2, Zenon
<1>2. UNCHANGED <<shell, pending, expected>>
  BY DEF Steps
<1> PICK Z : Z = {}
  OBVIOUS
<1>3. \A q \in Z : q \in DOMAIN procs => Zombie(q) /\ ~ChildOf(q, Sh)
  OBVIOUS
<1>4. procs' = [q \in (DOMAIN procs) \ Z |-> IF q = p THEN r ELSE procs[q]]
  BY <1>1
<1> QED BY <1>2, <1>3, <1>4, ProcessStep

(* The process that a side of a pipe becomes holds no end of it.             *)
LEMMA ReadyFacts ==
    ASSUME ShellInv, NEW p \in DOMAIN procs, procs[p].pc \in {"exec", "left", "right"}
    PROVE  /\ DOMAIN Ready(p) = Fields /\ Ready(p).ends = {}
           /\ Ready(p).raw = procs[p].raw /\ Ready(p).parent = procs[p].parent
           /\ Ready(p).group = procs[p].group
<1>1. ProcType /\ Processes
  BY InvParts
<1>2. DOMAIN procs[p] = Fields
  BY <1>1 DEF Processes
<1>3. CASE procs[p].pc = "exec"
  <2>1. Ready(p) = procs[p]
    BY <1>3 DEF Ready
  <2>2. procs[p].ends = {}
    BY <1>1, <1>3 DEF ProcType
  <2> QED BY <1>2, <2>1, <2>2
<1>4. CASE procs[p].pc = "left"
  <2>1. Ready(p) = [procs[p] EXCEPT !.out = Pipe(p), !.ends = {}]
    BY <1>4 DEF Ready
  <2> QED BY <1>2, <2>1 DEF Fields
<1>5. CASE procs[p].pc = "right"
  <2>1. Ready(p) = [procs[p] EXCEPT !.in = Pipe(p), !.ends = {}]
    BY <1>5 DEF Ready
  <2> QED BY <1>2, <2>1 DEF Fields
<1> QED BY <1>3, <1>4, <1>5

(* setpgid(): the command in the foreground gets a group of its own.         *)
LEMMA BornKeeps ==
    ASSUME ShellInv, NEW p, Born(p)
    PROVE  ShellInv'
<1> DEFINE r == [procs[p] EXCEPT !.pc = "exec", !.group = OwnGroup(p)]
<1>1. p \in DOMAIN procs /\ procs[p].pc = "born" /\ Steps(p, r)
  BY DEF Born, At
<1>2. ProcType /\ Processes /\ Foreground /\ p \in Pids
  BY <1>1, InvParts DEF ProcType
<1>3. DOMAIN procs[p] = Fields
  BY <1>1, <1>2 DEF Processes
<1>4. /\ DOMAIN r = Fields /\ r.pc = "exec" /\ r.group = OwnGroup(p)
      /\ r.raw = procs[p].raw /\ r.parent = procs[p].parent /\ r.ends = procs[p].ends
  BY <1>3 DEF Fields
<1>5. procs[p].ends = {} /\ ~Helps(p)
  BY <1>1, <1>2 DEF ProcType, Helps
<1>6. pc = "wait" /\ p = child /\ procs[p].parent = Sh => r.group # Sh
  <2>1. pc = "wait" /\ p = child /\ procs[p].parent = Sh => procs[p].cmd = tree /\ TypeOf(tree) # "BACK"
    BY <1>1, <1>2 DEF Foreground, ChildOf
  <2>2. p # Sh
    BY <1>2, PidFacts
  <2> QED BY <1>4, <2>1, <2>2 DEF OwnGroup
<1> HIDE DEF r
<1> QED BY <1>1, <1>4, <1>5, <1>6, LoneStep

(* execvp() of a program.                                                    *)
LEMMA ExecProgramKeeps ==
    ASSUME ShellInv, NEW p, ExecProgram(p)
    PROVE  ShellInv'
<1> DEFINE r == [Ready(p) EXCEPT !.pc = "running", !.cmd = NULL,
                                 !.out = IF Command(p).out THEN 0 ELSE @,
                                 !.in = IF Command(p).in THEN 0 ELSE @]
<1>1. p \in DOMAIN procs /\ procs[p].pc \in {"exec", "left", "right"} /\ Steps(p, r)
  BY DEF ExecProgram, Execs
<1>2. /\ DOMAIN Ready(p) = Fields /\ Ready(p).ends = {}
      /\ Ready(p).raw = procs[p].raw /\ Ready(p).parent = procs[p].parent
      /\ Ready(p).group = procs[p].group
  BY <1>1, ReadyFacts
<1>3. /\ DOMAIN r = Fields /\ r.pc = "running" /\ r.ends = {} /\ r.group = procs[p].group
      /\ r.raw = procs[p].raw /\ r.parent = procs[p].parent
  BY <1>2 DEF Fields
<1>4. ~Helps(p) /\ procs[p].pc # "zombie"
  BY <1>1 DEF Helps
<1>5. pc = "wait" /\ p = child /\ procs[p].parent = Sh => r.group # Sh
  BY <1>1, <1>3, ForegroundGroup
<1> HIDE DEF r
<1> QED BY <1>1, <1>3, <1>4, <1>5, LoneStep

(* pipe().                                                                   *)
LEMMA ExecPipeKeeps ==
    ASSUME ShellInv, NEW p, ExecPipe(p)
    PROVE  ShellInv'
<1> DEFINE r == [Ready(p) EXCEPT !.pc = "fork1", !.ends = {<<p, "r">>, <<p, "w">>}]
<1>1. p \in DOMAIN procs /\ procs[p].pc \in {"exec", "left", "right"} /\ Steps(p, r)
  BY DEF ExecPipe, Execs
<1>2. /\ DOMAIN Ready(p) = Fields
      /\ Ready(p).raw = procs[p].raw /\ Ready(p).parent = procs[p].parent
      /\ Ready(p).group = procs[p].group
  BY <1>1, ReadyFacts
<1>3. /\ DOMAIN r = Fields /\ r.pc = "fork1" /\ r.group = procs[p].group
      /\ r.raw = procs[p].raw /\ r.parent = procs[p].parent
  BY <1>2 DEF Fields
<1>4. procs[p].pc # "zombie" /\ r.pc \in Helping
  BY <1>1, <1>3 DEF Helping
<1>5. pc = "wait" /\ p = child /\ procs[p].parent = Sh => r.group # Sh
  BY <1>1, <1>3, ForegroundGroup
<1> HIDE DEF r
<1> QED BY <1>1, <1>3, <1>4, <1>5, LoneStep

(* The parent of both sides closes the pipe.                                 *)
LEMMA ClosePipeKeeps ==
    ASSUME ShellInv, NEW p, ClosePipe(p)
    PROVE  ShellInv'
<1> DEFINE r == [procs[p] EXCEPT !.pc = "wait1", !.ends = StillOpen(p)]
<1>1. p \in DOMAIN procs /\ procs[p].pc = "close" /\ Steps(p, r)
  BY DEF ClosePipe, At
<1>2. DOMAIN procs[p] = Fields
  BY <1>1, InvParts DEF Processes
<1>3. /\ DOMAIN r = Fields /\ r.pc = "wait1" /\ r.ends = {} /\ r.group = procs[p].group
      /\ r.raw = procs[p].raw /\ r.parent = procs[p].parent
  BY <1>2 DEF Fields, StillOpen
<1>4. r.pc \in Helping /\ procs[p].pc \notin {"born", "zombie"}
  BY <1>1, <1>3 DEF Helping
<1>5. pc = "wait" /\ p = child /\ procs[p].parent = Sh => r.group # Sh
  BY <1>1, <1>3, <1>4, ForegroundGroup
<1> HIDE DEF r
<1> QED BY <1>1, <1>3, <1>4, <1>5, LoneStep

(* waitpid() of the left side.                                               *)
LEMMA WaitLeftKeeps ==
    ASSUME ShellInv, NEW p, WaitLeft(p)
    PROVE  ShellInv'
<1> DEFINE r == [procs[p] EXCEPT !.pc = "wait2"]
           Z == Reaped(p, 1)
<1>1. p \in DOMAIN procs /\ procs[p].pc = "wait1" /\ UNCHANGED <<shell, pending, expected>>
  BY DEF WaitLeft, WaitSide, At
<1>2. ProcType /\ Processes /\ p \in Pids
  BY <1>1, InvParts DEF ProcType
<1>3. DOMAIN procs[p] = Fields
  BY <1>1, <1>2 DEF Processes
<1>4. /\ DOMAIN r = Fields /\ r.pc = "wait2" /\ r.ends = procs[p].ends /\ r.group = procs[p].group
      /\ r.raw = procs[p].raw /\ r.parent = procs[p].parent
  BY <1>3 DEF Fields
<1>5. r.pc \in Helping /\ procs[p].pc \notin {"born", "zombie"} /\ procs[p].ends = {}
  BY <1>1, <1>2, <1>4 DEF Helping, ProcType
<1>6. pc = "wait" /\ p = child /\ procs[p].parent = Sh => r.group # Sh
  BY <1>1, <1>4, <1>5, ForegroundGroup
<1>7. procs' = [q \in (DOMAIN procs) \ Z |-> IF q = p THEN r ELSE procs[q]]
  <2>1. procs' = Without([procs EXCEPT ![p] = r], Z)
    BY DEF WaitLeft
  <2> HIDE DEF r, Z
  <2> QED BY <2>1 DEF Without
<1>8. \A q \in Z : q \in DOMAIN procs => Zombie(q) /\ ~ChildOf(q, Sh)
  <2>1. p # Sh
    BY <1>2, PidFacts
  <2> QED BY <2>1 DEF Reaped, WaitLeft, WaitSide, ChildOf
<1> HIDE DEF r, Z
<1> QED BY <1>1, <1>4, <1>5, <1>6, <1>7, <1>8, ProcessStep

(* fork() of a side of a pipe, in the process that runs it.  The pid of the  *)
(* new process may be that of the command in the foreground only if the      *)
(* shell has nothing to expect of it any more.                               *)
LEMMA ForkSideKeeps ==
    ASSUME ShellInv, NEW p, NEW here, NEW where, NEW side, NEW next,
           ForkSide(p, here, where, side, next),
           here \in Helping, where \in {"left", "right"}, next \in {"fork1", "fork2", "close"}
    PROVE  ShellInv'
<1> PICK n : n = NewPid
  OBVIOUS
<1> DEFINE new == Process(p, procs[p].group, where, side, procs[p].flow, procs[p].ends)
           kid == [new EXCEPT !.in = procs[p].in, !.out = procs[p].out]
           me == [procs[p] EXCEPT !.pc = next, !.kids = Append(@, n)]
<1>1. /\ p \in DOMAIN procs /\ procs[p].pc = here /\ UNCHANGED <<shell, pending, expected>>
      /\ procs' = [q \in (DOMAIN procs) \union {n} |->
                        CASE q = n -> kid [] q = p -> me [] OTHER -> procs[q]]
  BY DEF ForkSide, At
<1>2. n \in Pids /\ n \notin DOMAIN procs
  BY DEF ForkSide, NewPid, NewPids
<1>3. ShellType /\ ProcType /\ Processes /\ MemoryHeld /\ Foreground
  BY InvParts
<1>4. DOMAIN procs[p] = Fields /\ IsRaw(procs[p].raw)
  BY <1>1, <1>3 DEF Processes
<1>5. /\ DOMAIN me = Fields /\ me.pc = next /\ me.raw = procs[p].raw
      /\ me.parent = procs[p].parent /\ me.group = procs[p].group
  BY <1>4 DEF Fields
<1>6. DOMAIN kid = Fields /\ kid.parent = p /\ kid.pc = where /\ kid.raw = 0
  <2>1. DOMAIN new = Fields /\ new.parent = p /\ new.pc = where /\ new.raw = 0
    BY DEF Process, Fields
  <2> HIDE DEF new
  <2> QED BY <2>1 DEF Fields
<1> HIDE DEF me, kid
<1>7. p \in Helpers /\ p # Sh /\ p # n /\ procs[p].pc \notin {"born", "zombie"}
  <2>1. p \in Pids
    BY <1>1, <1>3 DEF ProcType
  <2> QED BY <1>1, <1>2, <2>1, PidFacts DEF Helpers, Helps, Helping
<1>8. procs' = [q \in (DOMAIN procs) \union {n} |->
                   IF q = n THEN kid ELSE IF q = p THEN me ELSE procs[q]]
  BY <1>1, <1>7
<1>9. ProcType' /\ Processes'
  <2>1. IsRaw(kid.raw) /\ kid.parent \in Helpers /\ kid.pc \in {"born", "left", "right"}
        /\ kid.pc # "born"
    BY <1>6, <1>7 DEF IsRaw
  <2>2. /\ DOMAIN me = Fields /\ IsRaw(me.raw) /\ me.parent = procs[p].parent
        /\ me.pc \in Helping /\ me.pc \in {"fork1", "fork2", "close"}
    BY <1>4, <1>5 DEF Helping
  <2>3. p \in (DOMAIN procs) \union {n} /\ pending' = pending
    BY <1>1
  <2> QED BY <1>2, <1>3, <1>6, <1>8, <2>1, <2>2, <2>3, ForkKeeps
<1>10. ShellType' /\ MemoryHeld'
  BY <1>1, <1>3, ShellAlone
<1>11. Foreground'
  <2>1. pc' = pc /\ tree' = tree /\ child' = child /\ status' = status /\ expected' = expected
    BY <1>1 DEF shell
  <2>2. /\ DOMAIN procs' = (DOMAIN procs) \union {n} /\ procs'[n] = kid /\ procs'[p] = me
        /\ \A q \in DOMAIN procs : q # p => procs'[q] = procs[q]
    BY <1>1, <1>2, <1>7, <1>8
  <2>3. ChildOf(child, Sh)' <=> ChildOf(child, Sh)
    BY <1>2, <1>5, <1>6, <1>7, <2>1, <2>2 DEF ChildOf
  <2>4. CASE child # p
    <3>1. ChildOf(child, Sh) => procs'[child] = procs[child]
      BY <2>2, <2>4 DEF ChildOf
    <3> QED BY <1>3, <2>1, <2>3, <3>1 DEF Foreground
  <2>5. CASE child = p
    <3>1. pc = "wait" /\ ChildOf(child, Sh) =>
             procs'[child].pc \notin {"zombie", "born"} /\ procs'[child].group # Sh
      <4>1. pc = "wait" /\ ChildOf(child, Sh) => procs[p].group # Sh
        BY <1>1, <1>7, <2>5, ForegroundGroup DEF ChildOf
      <4> QED BY <1>5, <2>2, <2>5, <4>1
    <3> QED BY <1>3, <2>1, <2>3, <3>1 DEF Foreground
  <2> QED BY <2>4, <2>5
<1> QED BY <1>3, <1>9, <1>10, <1>11, InvPartsNext

(* What may become of a process is what waitpid() may report.                *)
LEMMA RawFacts ==
    /\ IsRaw(Exited(0)) /\ IsRaw(Exited(1)) /\ IsRaw(Exited(255)) /\ IsRaw(KilledBy(9))
    /\ \A p : \A raw \in Raws(p) : IsRaw(raw)
BY DEF IsRaw, Exited, KilledBy, Raws

(* The ways in which a process ends.                                         *)
LEMMA EndKeeps ==
    ASSUME ShellInv, NEW p, KilledEarly(p) \/ ExecFails(p) \/ WaitRight(p) \/ ProgramEnds(p)
    PROVE  ShellInv'
<1>1. CASE KilledEarly(p)
  <2>1. p \in DOMAIN procs /\ procs[p].pc # "zombie" /\ Ends(p, KilledBy(9))
    BY <1>1 DEF KilledEarly, At
  <2> QED BY <2>1, RawFacts, EndsStep
<1>2. CASE ExecFails(p)
  <2>1. p \in DOMAIN procs /\ procs[p].pc # "zombie" /\ Ends(p, Exited(255))
    BY <1>2 DEF ExecFails, Execs, At
  <2> QED BY <2>1, RawFacts, EndsStep
<1>3. CASE WaitRight(p)
  <2>1. p \in DOMAIN procs /\ procs[p].pc # "zombie" /\ Ends(p, Exited(0))
    BY <1>3 DEF WaitRight, WaitSide, At
  <2> QED BY <2>1, RawFacts, EndsStep
<1>4. CASE ProgramEnds(p)
  <2>1. PICK raw \in Raws(p) : Ends(p, raw)
    BY <1>4 DEF ProgramEnds
  <2>2. p \in DOMAIN procs /\ procs[p].pc # "zombie" /\ IsRaw(raw)
    BY <1>4, RawFacts DEF ProgramEnds, At
  <2> QED BY <2>1, <2>2, EndsStep
<1> QED BY <1>1, <1>2, <1>3, <1>4

(* The handler of SIGCHLD, in the shell: the command in the foreground is    *)
(* not in its group, or nothing is expected of it.                           *)
LEMMA ShellHandlerKeeps ==
    ASSUME ShellInv, Handler(Sh)
    PROVE  ShellInv'
<1> PICK Z : Z = {q \in DOMAIN procs : ChildOf(q, Sh) /\ Zombie(q) /\ procs[q].group = Sh}
  OBVIOUS
<1>1. procs' = Without(procs, Z) /\ pending' \subseteq pending /\ UNCHANGED <<shell, expected>>
  BY DEF Handler, GroupOf
<1>2. \A q \in Z : q \in DOMAIN procs => Zombie(q)
  OBVIOUS
<1>3. pc = "wait" /\ ChildOf(child, Sh) /\ child \in Z => expected = {}
  <2>1. Foreground
    BY InvParts
  <2> QED BY <2>1 DEF Foreground, Zombie, At
<1> QED BY <1>1, <1>2, <1>3, ReapStep

(* And in whoever runs a pipe: its children are not those of the shell.      *)
LEMMA HandlerKeeps ==
    ASSUME ShellInv, NEW p, Helps(p), Handler(p)
    PROVE  ShellInv'
<1> PICK Z : Z = {q \in DOMAIN procs : ChildOf(q, p) /\ Zombie(q) /\ procs[q].group = GroupOf(p)}
  OBVIOUS
<1>1. procs' = Without(procs, Z) /\ pending' \subseteq pending /\ UNCHANGED <<shell, expected>>
  BY DEF Handler
<1>2. \A q \in Z : q \in DOMAIN procs => Zombie(q)
  OBVIOUS
<1>3. pc = "wait" /\ ChildOf(child, Sh) /\ child \in Z => expected = {}
  <2>1. p \in Pids
    BY InvParts DEF ProcType, Helps
  <2>2. p # Sh
    BY <2>1, PidFacts
  <2> QED BY <2>2 DEF ChildOf
<1> QED BY <1>1, <1>2, <1>3, ReapStep

-----------------------------------------------------------------------------
(* Steps of the shell.                                                       *)

(* print_status_info() makes $? of a status.                                 *)
LEMMA ReportedType ==
    ASSUME NEW c, NEW s \in Int, -255 <= s, s <= 65535
    PROVE  Reported(c, s) \in Int /\ -255 <= Reported(c, s) /\ Reported(c, s) <= 65535
<1>1. s % 128 \in Nat /\ s % 128 < 128
  OBVIOUS
<1>2. (s \div 256) % 256 \in Nat /\ (s \div 256) % 256 < 256
  OBVIOUS
<1>3. \A a \in Nat, b \in Nat :
         a < 128 /\ b < 256 => /\ -a \in Int /\ -255 <= -a /\ -a <= 65535
                               /\ -b \in Int /\ -255 <= -b /\ -b <= 65535
                               /\ b \in Int /\ -255 <= b /\ b <= 65535
  OBVIOUS
<1> PICK a \in Nat, b \in Nat : a = s % 128 /\ b = (s \div 256) % 256 /\ a < 128 /\ b < 256
  BY <1>1, <1>2
<1>4. Reported(c, s) = IF TypeOf(c) = "PIPE" THEN s
                       ELSE IF a = 0 THEN b ELSE IF a # 127 THEN -a ELSE -b
  BY DEF Reported
<1> QED BY <1>3, <1>4

(* cd, pwd and empty lines.                                                  *)
LEMMA TypeBuiltInKeeps ==
    ASSUME ShellInv, TypeBuiltIn
    PROVE  ShellInv'
<1>1. ShellType /\ ProcType /\ Processes /\ MemoryHeld /\ Foreground
  BY InvParts
<1>2. typed' \in 0..MaxLines
  BY <1>1, ShellAssumption DEF TypeBuiltIn, ShellType
<1>3. ShellType' /\ MemoryHeld'
  BY <1>1, <1>2 DEF TypeBuiltIn, ShellType, MemoryHeld
<1>4. ProcType' /\ Processes'
  BY <1>1 DEF TypeBuiltIn, ProcType, Processes, Helpers, Helps, Zombie, At
<1>5. Foreground'
  BY <1>1 DEF TypeBuiltIn, Foreground, ChildOf
<1> QED BY <1>3, <1>4, <1>5, InvPartsNext

(* A line to run.                                                            *)
LEMMA TypeLineKeeps ==
    ASSUME ShellInv, TypeLine
    PROVE  ShellInv'
<1>1. ShellType /\ ProcType /\ Processes /\ MemoryHeld /\ Foreground
  BY InvParts
<1>2. PICK l \in Lines : /\ tree' = ParseLine(l)
                         /\ heap' = heap + Allocated(l) /\ lost' = lost + Lost(l)
  BY DEF TypeLine
<1>3. /\ ParseLine(l) # NULL
      /\ Freed(ParseLine(l)) \in Nat /\ Lost(l) \in Nat
      /\ Allocated(l) = Freed(ParseLine(l)) + Lost(l)
  BY LineFreed
<1>4. pc = "prompt" /\ pc' = "fork" /\ UNCHANGED <<child, status, procs, pending, expected>>
  BY DEF TypeLine
<1>5. heap = lost /\ lost \in Nat
  BY <1>1, <1>4 DEF ShellType, MemoryHeld
<1>6. heap' \in Nat /\ lost' \in Nat /\ heap' = lost' + Freed(tree')
  BY <1>2, <1>3, <1>5
<1>7. typed' \in 0..MaxLines
  BY <1>1, ShellAssumption DEF TypeLine, ShellType
<1>8. ShellType' /\ MemoryHeld'
  BY <1>1, <1>2, <1>3, <1>4, <1>6, <1>7 DEF ShellType, MemoryHeld
<1>9. ProcType' /\ Processes'
  BY <1>1, <1>4 DEF ProcType, Processes, Helpers, Helps, Zombie, At
<1>10. Foreground'
  BY <1>1, <1>4 DEF Foreground
<1> QED BY <1>8, <1>9, <1>10, InvPartsNext

(* exit: init reaps the children that have ended and adopts the others.      *)
LEMMA TypeExitKeeps ==
    ASSUME ShellInv, TypeExit
    PROVE  ShellInv'
<1>1. ShellType /\ ProcType /\ Processes /\ MemoryHeld /\ Foreground
  BY InvParts
<1> DEFINE Z == {q \in DOMAIN procs : ChildOf(q, Sh) /\ Zombie(q)}
           orphan(q) == [procs[q] EXCEPT !.parent = Nobody]
<1>2. procs' = [p \in (DOMAIN procs) \ Z |-> IF ChildOf(p, Sh) THEN orphan(p) ELSE procs[p]]
  <2>1. {q \in DOMAIN procs : ~(ChildOf(q, Sh) /\ Zombie(q))} = (DOMAIN procs) \ Z
    OBVIOUS
  <2> QED BY <2>1 DEF TypeExit
<1>3. ASSUME NEW q \in DOMAIN procs
      PROVE  /\ DOMAIN orphan(q) = Fields
             /\ orphan(q).pc = procs[q].pc /\ orphan(q).raw = procs[q].raw
             /\ orphan(q).in = procs[q].in /\ orphan(q).out = procs[q].out
             /\ orphan(q).ends = procs[q].ends /\ orphan(q).parent = Nobody
  <2>1. DOMAIN procs[q] = Fields
    BY <1>1 DEF Processes
  <2> QED BY <2>1 DEF Fields
<1> HIDE DEF orphan
<1>4. DOMAIN procs' = (DOMAIN procs) \ Z
      /\ \A q \in (DOMAIN procs) \ Z :
            /\ DOMAIN procs'[q] = Fields
            /\ procs'[q].pc = procs[q].pc /\ procs'[q].raw = procs[q].raw
            /\ procs'[q].in = procs[q].in /\ procs'[q].out = procs[q].out
            /\ procs'[q].ends = procs[q].ends
            /\ procs'[q].parent \in {procs[q].parent, Nobody}
  BY <1>1, <1>2, <1>3 DEF Processes
<1>5. Helpers \subseteq Helpers'
  BY <1>4 DEF Helpers, Helps, Zombie, At
<1>6. ASSUME NEW q \in DOMAIN procs'
      PROVE  /\ procs'[q].pc = "zombie" => procs'[q].in = 0 /\ procs'[q].out = 0 /\ procs'[q].ends = {}
             /\ procs'[q].parent \in Pids => procs'[q].parent \in Helpers'
             /\ procs'[q].ends # {} => procs'[q].pc \in {"left", "right", "fork1", "fork2", "close"}
  <2>1. q \in (DOMAIN procs) \ Z
    BY <1>4
  <2>2. /\ procs[q].pc = "zombie" => procs[q].in = 0 /\ procs[q].out = 0 /\ procs[q].ends = {}
        /\ procs[q].parent \in Pids => procs[q].parent \in Helpers
        /\ procs[q].ends # {} => procs[q].pc \in {"left", "right", "fork1", "fork2", "close"}
    BY <1>1, <2>1 DEF ProcType, Zombie, At
  <2> HIDE DEF Z
  <2>3. procs'[q].parent \in Pids => procs'[q].parent \in Helpers'
    BY <1>4, <1>5, <2>1, <2>2, PidFacts
  <2> QED BY <1>4, <2>1, <2>2, <2>3
<1>7. pending' \subseteq pending /\ pc' = "exited"
      /\ UNCHANGED <<tree, child, status, heap, typed, lost, expected>>
  BY DEF TypeExit
<1>8. ProcType'
  <2>1. DOMAIN procs' \subseteq Pids
    BY <1>1, <1>4 DEF ProcType
  <2>2. pending' \subseteq DOMAIN procs' \union {Sh}
    BY <1>1, <1>5, <1>7 DEF Processes, Helpers
  <2> QED BY <1>6, <2>1, <2>2 DEF ProcType, Zombie, At
<1>9. Processes'
  <2>1. ASSUME NEW q \in DOMAIN procs'
        PROVE  /\ DOMAIN procs'[q] = Fields
               /\ IsRaw(procs'[q].raw)
               /\ procs'[q].parent \in (Pids \ {q}) \union {Sh, Nobody}
    <3> HIDE DEF Z
    <3> QED BY <1>1, <1>4 DEF Processes
  <2>2. DOMAIN procs' \subseteq Pids
    BY <1>8 DEF ProcType
  <2> QED BY <1>1, <1>5, <1>7, <2>1, <2>2 DEF Processes
<1>10. pc = "prompt"
  BY DEF TypeExit
<1>11. ShellType' /\ MemoryHeld' /\ Foreground'
  BY <1>1, <1>7, <1>10 DEF ShellType, MemoryHeld, Foreground
<1> QED BY <1>8, <1>9, <1>11, InvPartsNext

(* The command is over: the memory that it held is freed.                    *)
LEMMA FinishKeeps ==
    ASSUME ShellType, MemoryHeld, pc \in {"fork", "wait"}, FinishLine,
           status' \in Int, -255 <= status', status' <= 65535
    PROVE  ShellType' /\ MemoryHeld'
<1>1. PICK l \in Lines : tree = ParseLine(l)
  BY DEF MemoryHeld
<1>2. Freed(tree) \in Nat
  BY <1>1, LineFreed
<1>3. heap = lost + Freed(tree) /\ lost \in Nat
  BY DEF MemoryHeld, ShellType
<1>4. /\ pc' = "prompt" /\ tree' = NULL /\ child' = 0 /\ heap' = heap - Freed(tree)
      /\ typed' = typed /\ lost' = lost
  BY DEF FinishLine
<1>5. heap' = lost' /\ lost' \in Nat
  BY <1>2, <1>3, <1>4
<1>6. MemoryHeld'
  BY <1>4, <1>5 DEF MemoryHeld
<1> QED BY <1>4, <1>5, <1>6 DEF ShellType

(* fork() of a command, which is not waited for if it has a &.               *)
LEMMA ForkCommandKeeps ==
    ASSUME ShellInv, ForkCommand
    PROVE  ShellInv'
<1>1. ShellType /\ ProcType /\ Processes /\ MemoryHeld /\ Foreground
  BY InvParts
<1> PICK n : n = NewPid
  OBVIOUS
<1>2. n \in Pids /\ n \notin DOMAIN procs
  BY DEF ForkCommand, NewPid, NewPids
<1>3. PICK flow \in Flows : Update(n, Process(Sh, Sh, "born", tree, flow, {}))
  BY DEF ForkCommand
<1> DEFINE r == Process(Sh, Sh, "born", tree, flow, {})
<1>4. /\ DOMAIN r = Fields /\ r.parent = Sh /\ r.pc = "born" /\ r.raw = 0
      /\ r.ends = {} /\ r.cmd = tree
  BY DEF Process, Fields
<1>5. procs' = [q \in (DOMAIN procs) \union {n} |->
                   IF q = n THEN r ELSE IF q = n THEN r ELSE procs[q]]
  BY <1>3 DEF Update
<1> HIDE DEF r
<1>6. pc = "fork" /\ UNCHANGED <<status, pending, expected>>
  BY DEF ForkCommand
<1>7. ProcType' /\ Processes'
  <2>1. IsRaw(r.raw) /\ (r.parent = Sh \/ r.parent \in Helpers)
        /\ r.pc \in {"born", "left", "right"} /\ (r.ends # {} => r.pc # "born")
    BY <1>4 DEF IsRaw
  <2>2. n \in (DOMAIN procs) \union {n} /\ pending' = pending
    BY <1>6
  <2> QED BY <1>1, <1>2, <1>4, <1>5, <2>1, <2>2, ForkKeeps
<1>8. CASE TypeOf(tree) = "BACK"
  <2>1. FinishLine
    BY <1>8 DEF ForkCommand
  <2>2. ShellType' /\ MemoryHeld'
    <3>1. status' \in Int /\ -255 <= status' /\ status' <= 65535
      BY <1>1, <1>6 DEF ShellType
    <3> QED BY <1>1, <1>6, <2>1, <3>1, FinishKeeps
  <2>3. Foreground'
    BY <1>1, <1>6, <2>1 DEF Foreground, FinishLine
  <2> QED BY <1>7, <2>2, <2>3, InvPartsNext
<1>9. CASE TypeOf(tree) # "BACK"
  <2>1. pc' = "wait" /\ child' = n /\ UNCHANGED <<tree, heap, typed, lost>>
    BY <1>9 DEF ForkCommand
  <2>2. ShellType' /\ MemoryHeld'
    BY <1>1, <1>2, <1>6, <2>1 DEF ShellType, MemoryHeld
  <2>3. Foreground'
    <3>1. n \in DOMAIN procs' /\ procs'[n] = r
      BY <1>5
    <3> QED BY <1>4, <1>9, <2>1, <3>1 DEF Foreground, ChildOf
  <2> QED BY <1>7, <2>2, <2>3, InvPartsNext
<1> QED BY <1>8, <1>9

(* fork() fails: run_cmd() goes on with the child -1.                        *)
LEMMA ForkFailsKeeps ==
    ASSUME ShellInv, ForkFails
    PROVE  ShellInv'
<1>1. ShellType /\ ProcType /\ Processes /\ MemoryHeld /\ Foreground
  BY InvParts
<1>2. pc = "fork" /\ UNCHANGED <<status, procs, pending>>
  BY DEF ForkFails
<1>3. ProcType' /\ Processes'
  BY <1>1, <1>2 DEF ProcType, Processes, Helpers, Helps, Zombie, At
<1>4. CASE TypeOf(tree) = "BACK"
  <2>1. FinishLine /\ UNCHANGED expected
    BY <1>4 DEF ForkFails
  <2>2. ShellType' /\ MemoryHeld'
    <3>1. status' \in Int /\ -255 <= status' /\ status' <= 65535
      BY <1>1, <1>2 DEF ShellType
    <3> QED BY <1>1, <1>2, <2>1, <3>1, FinishKeeps
  <2>3. Foreground'
    BY <1>1, <1>2, <2>1 DEF Foreground, FinishLine
  <2> QED BY <1>3, <2>2, <2>3, InvPartsNext
<1>5. CASE TypeOf(tree) # "BACK"
  <2>1. pc' = "wait" /\ child' = -1 /\ expected' = {} /\ UNCHANGED <<tree, heap, typed, lost>>
    BY <1>5 DEF ForkFails
  <2>2. ShellType' /\ MemoryHeld'
    BY <1>1, <1>2, <2>1 DEF ShellType, MemoryHeld
  <2>3. Foreground'
    <3>1. ~ChildOf(child, Sh)'
      <4>1. \A p \in DOMAIN procs' : p # -1
        BY <1>3, PidFacts DEF ProcType
      <4> QED BY <2>1, <4>1 DEF ChildOf
    <3> QED BY <1>5, <2>1, <3>1 DEF Foreground
  <2> QED BY <1>3, <2>2, <2>3, InvPartsNext
<1> QED BY <1>4, <1>5

(* waitpid() gives the status of the command in the foreground.              *)
LEMMA WaitCommandKeeps ==
    ASSUME ShellInv, WaitCommand
    PROVE  ShellInv'
<1>1. ShellType /\ ProcType /\ Processes /\ MemoryHeld /\ Foreground
  BY InvParts
<1>2. PICK p \in Waited : /\ Zombie(p)
                          /\ status' = Reported(tree, procs[p].raw)
                          /\ procs' = Without(procs, {p})
  BY DEF WaitCommand
<1>3. pc = "wait" /\ FinishLine /\ pending' = pending /\ expected' = expected
  BY DEF WaitCommand
<1>4. p \in DOMAIN procs /\ ChildOf(p, Sh) /\ (child # -1 => p = child)
  BY <1>2 DEF Waited
<1>5. ProcType' /\ Processes'
  <2> PICK Z : Z = {p}
    OBVIOUS
  <2>1. procs' = Without(procs, Z) /\ pending' \subseteq pending
        /\ \A q \in Z : q \in DOMAIN procs => Zombie(q)
    BY <1>2, <1>3
  <2> QED BY <1>1, <2>1, ReapKeeps
<1>6. status' \in Int /\ -255 <= status' /\ status' <= 65535
  <2>1. IsRaw(procs[p].raw)
    BY <1>1, <1>4 DEF Processes
  <2>2. procs[p].raw \in Int /\ -255 <= procs[p].raw /\ procs[p].raw <= 65535
    BY <2>1 DEF IsRaw
  <2> QED BY <1>2, <2>2, ReportedType
<1>7. ShellType' /\ MemoryHeld'
  BY <1>1, <1>3, <1>6, FinishKeeps
<1>8. expected \subseteq {status'}
  <2>1. CASE child = -1
    <3>1. ~ChildOf(child, Sh)
      BY <1>1, <2>1, PidFacts DEF ChildOf, ProcType
    <3> QED BY <1>1, <1>3, <3>1 DEF Foreground
  <2>2. CASE child # -1
    BY <1>1, <1>2, <1>3, <1>4, <2>2 DEF Foreground, Zombie, At
  <2> QED BY <2>1, <2>2
<1>9. Foreground'
  BY <1>3, <1>8 DEF Foreground, FinishLine
<1> QED BY <1>5, <1>7, <1>9, InvPartsNext

(* ECHILD: nothing is expected of status.                                    *)
LEMMA WaitNobodyKeeps ==
    ASSUME ShellInv, WaitNobody
    PROVE  ShellInv'
<1>1. ShellType /\ ProcType /\ Processes /\ MemoryHeld /\ Foreground
  BY InvParts
<1>2. /\ pc = "wait" /\ FinishLine /\ Waited = {} /\ status' = Reported(tree, status)
      /\ UNCHANGED <<procs, pending, expected>>
  BY DEF WaitNobody
<1>3. ProcType' /\ Processes'
  BY <1>1, <1>2 DEF ProcType, Processes, Helpers, Helps, Zombie, At
<1>4. status' \in Int /\ -255 <= status' /\ status' <= 65535
  <2>1. status \in Int /\ -255 <= status /\ status <= 65535
    BY <1>1 DEF ShellType
  <2> QED BY <1>2, <2>1, ReportedType
<1>5. ShellType' /\ MemoryHeld'
  BY <1>1, <1>2, <1>4, FinishKeeps
<1>6. expected = {}
  <2>1. ~ChildOf(child, Sh)
    <3>1. CASE child = -1
      BY <1>1, <3>1, PidFacts DEF ChildOf, ProcType
    <3>2. CASE child # -1
      BY <1>2, <3>2 DEF Waited, ChildOf
    <3> QED BY <3>1, <3>2
  <2> QED BY <1>1, <1>2, <2>1 DEF Foreground
<1>7. Foreground'
  BY <1>2, <1>6 DEF Foreground, FinishLine
<1> QED BY <1>3, <1>5, <1>7, InvPartsNext

-----------------------------------------------------------------------------
(* Theorems.                                                                 *)

(* Nothing runs, and nothing is held, before the first prompt.               *)
LEMMA InitKeeps == Init => ShellInv
<1> SUFFICES ASSUME Init PROVE ShellInv
  OBVIOUS
<1>1. DOMAIN procs = {} /\ pending = {} /\ child = 0 /\ pc = "prompt" /\ tree = NULL
      /\ status = 0 /\ expected = {0} /\ heap = 0 /\ lost = 0 /\ typed = 0
  BY DEF Init
<1>2. TypeOK
  BY <1>1, ShellAssumption DEF TypeOK
<1>3. Processes /\ MemoryHeld /\ Foreground
  BY <1>1 DEF Processes, MemoryHeld, Foreground
<1> QED BY <1>2, <1>3 DEF ShellInv

(* Every step keeps the invariant.                                           *)
LEMMA NextKeeps == ShellInv /\ [Next]_vars => ShellInv'
<1> SUFFICES ASSUME ShellInv, [Next]_vars PROVE ShellInv'
  OBVIOUS
<1>1. CASE UNCHANGED vars
  BY <1>1 DEF vars, ShellInv, TypeOK, Processes, MemoryHeld, Foreground, Helpers, Helps,
              Zombie, ChildOf, At
<1>2. CASE TypeBuiltIn
  BY <1>2, TypeBuiltInKeeps
<1>3. CASE TypeExit
  BY <1>3, TypeExitKeeps
<1>4. CASE TypeLine
  BY <1>4, TypeLineKeeps
<1>5. CASE Shell
  BY <1>5, ForkCommandKeeps, ForkFailsKeeps, WaitCommandKeeps, WaitNobodyKeeps, ShellHandlerKeeps
     DEF Shell
<1>6. ASSUME NEW p \in Pids, ExecCmd(p) PROVE ShellInv'
  <2>1. CASE ForkLeft(p)
    <3>1. ForkSide(p, "fork1", "left", <<Head(procs[p].cmd)>>, "fork2")
      BY <2>1 DEF ForkLeft
    <3>2. "fork1" \in Helping
      BY DEF Helping
    <3> QED BY <3>1, <3>2, ForkSideKeeps
  <2>2. CASE ForkRight(p)
    <3>1. ForkSide(p, "fork2", "right", Tail(procs[p].cmd), "close")
      BY <2>2 DEF ForkRight
    <3>2. "fork2" \in Helping
      BY DEF Helping
    <3> QED BY <3>1, <3>2, ForkSideKeeps
  <2>3. CASE Born(p) \/ ExecProgram(p) \/ ExecPipe(p) \/ ClosePipe(p) \/ WaitLeft(p)
    BY <2>3, BornKeeps, ExecProgramKeeps, ExecPipeKeeps, ClosePipeKeeps, WaitLeftKeeps
  <2>4. CASE ExecFails(p) \/ WaitRight(p)
    BY <2>4, EndKeeps
  <2>5. CASE Helps(p) /\ Handler(p)
    BY <2>5, HandlerKeeps
  <2> QED BY <1>6, <2>1, <2>2, <2>3, <2>4, <2>5 DEF ExecCmd
<1>7. ASSUME NEW p \in Pids, KilledEarly(p) \/ ProgramEnds(p) PROVE ShellInv'
  BY <1>7, EndKeeps
<1> QED BY <1>1, <1>2, <1>3, <1>4, <1>5, <1>6, <1>7 DEF Next

(* The table of processes, the memory that the shell holds and the command   *)
(* in the foreground, at every step of every process.                        *)
THEOREM ShellInvariant == Spec => []ShellInv
BY InitKeeps, NextKeeps, PTL DEF Spec

(* Whoever has ended holds no pipe, and every other process has a parent     *)
(* that runs: exec_cmd() closes what it opened, wherever a process ends.     *)
THEOREM TypeCorrect == Spec => []TypeOK
<1>1. ShellInv => TypeOK
  BY DEF ShellInv
<1> QED BY <1>1, ShellInvariant, PTL

(* At the prompt $? tells how the last command in the foreground ended: the  *)
(* handler of SIGCHLD never reaps it before run_cmd() does.                  *)
THEOREM StatusLast == Spec => []StatusIsLast
<1>1. ShellInv => StatusIsLast
  BY DEF ShellInv, Foreground, StatusIsLast
<1> QED BY <1>1, ShellInvariant, PTL

(* Whatever the lines typed, free_command() has freed at the prompt all that *)
(* parse_line() allocated, but for the tokens that parse_exec() drops.       *)
THEOREM MemoryExact == Spec => []HeapExact
<1>1. ShellInv => HeapExact
  BY DEF ShellInv, MemoryHeld, HeapExact
<1> QED BY <1>1, ShellInvariant, PTL
=============================================================================
