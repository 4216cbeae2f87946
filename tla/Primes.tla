------------------------------- MODULE Primes -------------------------------
(* fork/primes: main() writes the numbers below N to a pipe; each process of *)
(* imprimir_numeros_primos_con_procesos() prints the first number it reads,  *)
(* a prime, and writes those that it does not divide to the next, which it   *)
(* has forked.  Process 0 is main(); pipe i is what process i reads.         *)
EXTENDS Integers, Sequences, SequencesExt, FiniteSets

CONSTANTS N,           \* argv[1]
          Processes,   \* bound: processes that can be made, 0..k
          Capacity     \* bound: numbers that fit in a pipe

ASSUME PrimesAssumption == N \in Nat /\ Processes = 0..(Cardinality(Processes) - 1) /\ Capacity > 0

VARIABLES pc,          \* process -> where it is; "none" before its fork()
          fds,         \* process -> the ends of pipes it holds: <<pipe, "r" or "w">>
          p,           \* process -> its prime
          a,           \* process -> the number it has to write, 0 for none
          data,        \* pipe -> numbers in it
          printed,     \* the output, on a terminal
          failed       \* has some pipe() or fork() failed?

vars == <<pc, fds, p, a, data, printed, failed>>

Pipes == Processes \ {0}
Holders(i, end) == {q \in Processes : <<i, end>> \in fds[q]}
Goto(i, to) == pc' = [pc EXCEPT ![i] = to]
At(i, where) == pc[i] = where

Init ==
    /\ pc = [i \in Processes |-> IF i = 0 THEN "fork" ELSE "none"]
    /\ fds = [i \in Processes |-> {}]
    /\ p = [i \in Processes |-> 0]
    /\ a = [i \in Processes |-> IF i = 0 THEN 2 ELSE 0]
    /\ data = [i \in Pipes |-> <<>>]
    /\ printed = <<>> /\ failed = FALSE

(* The end of a process closes what it has open. *)
Ends(i) == Goto(i, "end") /\ fds' = [fds EXCEPT ![i] = {}]
Closes(i, ends, to) == Goto(i, to) /\ fds' = [fds EXCEPT ![i] = @ \ ends]

----------------------------------------------------------------------------
(* pipe() and fork(): the child has all that its parent has. *)
Fork(i) ==
    /\ At(i, "fork") /\ i + 1 \in Processes
    /\ LET both == fds[i] \union {<<i + 1, "r">>, <<i + 1, "w">>}
       IN  fds' = [fds EXCEPT ![i] = both, ![i + 1] = both]
    /\ pc' = [pc EXCEPT ![i] = "parent", ![i + 1] = "child"]
    /\ UNCHANGED <<p, a, data, printed, failed>>

ForkFails(i) ==
    /\ At(i, "fork") /\ Ends(i) /\ failed' = TRUE
    /\ UNCHANGED <<p, a, data, printed>>

(* Mutant: the child keeps the end that writes to itself. *)
ChildClosesOne(i) ==
    /\ At(i, "child") /\ Closes(i, {<<i - 1, "r">>}, "first")
    /\ UNCHANGED <<p, a, data, printed, failed>>

(* The child closes what its parent reads, and what its parent writes. *)
ChildCloses(i) ==
    /\ At(i, "child") /\ Closes(i, {<<i - 1, "r">>, <<i, "w">>}, "first")
    /\ UNCHANGED <<p, a, data, printed, failed>>

(* The parent closes what its child reads, and prints its prime. *)
ParentCloses(i) ==
    /\ At(i, "parent") /\ Closes(i, {<<i + 1, "r">>}, IF i = 0 THEN "write" ELSE "read")
    /\ printed' = IF i = 0 THEN printed ELSE Append(printed, p[i])
    /\ UNCHANGED <<p, a, data, failed>>

----------------------------------------------------------------------------
(* read() and write(). *)

EndOfFile(i) == data[i] = <<>> /\ Holders(i, "w") = {}

ReadFirst(i) ==
    /\ At(i, "first") /\ data[i] # <<>>
    /\ p' = [p EXCEPT ![i] = Head(data[i])] /\ data' = [data EXCEPT ![i] = Tail(@)]
    /\ Goto(i, "fork")
    /\ UNCHANGED <<fds, a, printed, failed>>
ReadNone(i) ==
    /\ At(i, "first") /\ EndOfFile(i) /\ Ends(i)
    /\ UNCHANGED <<p, a, data, printed, failed>>

Read(i) ==
    /\ At(i, "read") /\ data[i] # <<>>
    /\ data' = [data EXCEPT ![i] = Tail(@)]
    /\ IF Head(data[i]) % p[i] # 0
         THEN Goto(i, "write") /\ a' = [a EXCEPT ![i] = Head(data[i])]
         ELSE UNCHANGED <<pc, a>>
    /\ UNCHANGED <<fds, p, printed, failed>>
ReadEnd(i) ==
    /\ At(i, "read") /\ EndOfFile(i) /\ Goto(i, "close")
    /\ UNCHANGED <<fds, p, a, data, printed, failed>>

(* main() goes on to the next number; it has written all of them at N. *)
Write(i) ==
    /\ At(i, "write") /\ (i = 0 => a[0] < N)
    /\ Holders(i + 1, "r") # {} /\ Len(data[i + 1]) < Capacity
    /\ data' = [data EXCEPT ![i + 1] = Append(@, a[i])]
    /\ a' = [a EXCEPT ![i] = IF i = 0 THEN @ + 1 ELSE 0]
    /\ IF i = 0 THEN UNCHANGED pc ELSE Goto(i, "read")
    /\ UNCHANGED <<fds, p, printed, failed>>
WrittenAll ==
    /\ At(0, "write") /\ a[0] >= N /\ Goto(0, "close")
    /\ UNCHANGED <<fds, p, a, data, printed, failed>>

(* SIGPIPE: nobody will read, and it ends without waiting for its child. *)
Broken(i) ==
    /\ At(i, "write") /\ (i = 0 => a[0] < N)
    /\ Holders(i + 1, "r") = {} /\ Ends(i)
    /\ UNCHANGED <<p, a, data, printed, failed>>

Close(i) ==
    /\ At(i, "close") /\ Closes(i, {<<i, "r">>, <<i + 1, "w">>}, "wait")
    /\ UNCHANGED <<p, a, data, printed, failed>>

Wait(i) ==
    /\ At(i, "wait") /\ At(i + 1, "end") /\ Ends(i)
    /\ UNCHANGED <<p, a, data, printed, failed>>

Step(i) == \/ Fork(i) \/ ForkFails(i) \/ ChildCloses(i) \/ ParentCloses(i) \/ ReadFirst(i) \/ ReadNone(i)
           \/ Read(i) \/ ReadEnd(i) \/ Write(i) \/ Broken(i) \/ Close(i) \/ Wait(i)

Next == WrittenAll \/ \E i \in Processes : Step(i)

(* Nothing is ever done twice: it is enough that the system does not stop    *)
(* while somebody can run.                                                   *)
Spec == Init /\ [][Next]_vars /\ WF_vars(Next)

----------------------------------------------------------------------------
IsPrime(n) == n > 1 /\ \A d \in 2..(n - 1) : n % d # 0
PrimesBelowN == SelectSeq([i \in 1..(N - 2) |-> i + 1], IsPrime)

(* Everybody ends, whoever fails to fork: no process waits for the end of a  *)
(* pipe whose other end it, or a process that waits for it, holds.  And the  *)
(* output is the primes below N in order, or the first of them if pipe() or  *)
(* fork() has failed on the way.                                             *)
SieveEnds ==
    <>[](/\ \A i \in Processes : pc[i] \in {"none", "end"}
         /\ IF failed THEN IsPrefix(printed, PrimesBelowN) ELSE printed = PrimesBelowN)
=============================================================================
