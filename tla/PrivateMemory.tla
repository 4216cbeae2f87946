--------------------------- MODULE PrivateMemory ---------------------------
(* What fork() promises to programs: every environment has a memory of its   *)
(* own; a child gets each page of its parent as it is at some moment of the  *)
(* fork, and from then on neither sees what the other writes.                *)
EXTENDS Integers

CONSTANTS Envs, Vas, Values,
          First        \* the environment the kernel created

VARIABLES state,       \* env -> "free", "embryo", "alive"
          memory,      \* env -> address -> value, for what it has mapped
          forking      \* env -> the child it is making, if any

vars == <<state, memory, forking>>

Nothing == [va \in {} |-> 0]

Init == /\ state = [e \in Envs |-> IF e = First THEN "alive" ELSE "free"]
        /\ \E m \in [Vas -> Values] : memory = [e \in Envs |-> IF e = First THEN m ELSE Nothing]
        /\ forking = [e \in Envs |-> {}]

Write(e, va, v) ==
    /\ state[e] = "alive" /\ va \in DOMAIN memory[e]
    /\ memory' = [memory EXCEPT ![e][va] = v]
    /\ UNCHANGED <<state, forking>>

Begin(e, c) ==
    /\ state[e] = "alive" /\ forking[e] = {} /\ state[c] = "free"
    /\ state' = [state EXCEPT ![c] = "embryo"]
    /\ forking' = [forking EXCEPT ![e] = {c}]
    /\ UNCHANGED memory

Copy(e, c, va) ==
    /\ state[e] = "alive" /\ c \in forking[e]
    /\ va \in (DOMAIN memory[e]) \ DOMAIN memory[c]
    /\ memory' = [memory EXCEPT ![c] = [a \in (DOMAIN @) \union {va} |->
                                          IF a = va THEN memory[e][va] ELSE @[a]]]
    /\ UNCHANGED <<state, forking>>

(* The child runs with all the pages of its parent. *)
Start(e, c) ==
    /\ state[e] = "alive" /\ c \in forking[e]
    /\ DOMAIN memory[c] = DOMAIN memory[e]
    /\ state' = [state EXCEPT ![c] = "alive"]
    /\ forking' = [forking EXCEPT ![e] = {}]
    /\ UNCHANGED memory

(* A child whose parent dies before starting it never runs. *)
Exit(e) ==
    /\ state[e] = "alive"
    /\ state' = [state EXCEPT ![e] = "free"]
    /\ memory' = [c \in Envs |-> IF c = e \/ c \in forking[e] THEN Nothing ELSE memory[c]]
    /\ forking' = [forking EXCEPT ![e] = {}]

Next == \E e \in Envs :
           \/ Exit(e)
           \/ \E va \in Vas, v \in Values : Write(e, va, v)
           \/ \E c \in Envs : \/ Begin(e, c) \/ Start(e, c)
                              \/ \E va \in Vas : Copy(e, c, va)

Spec == Init /\ [][Next]_vars
=============================================================================
