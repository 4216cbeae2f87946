------------------------------ MODULE MCPrimes ------------------------------
(* Instance of Primes: the eight primes below 20, and a process that has nothing. *)
EXTENDS Primes

MCProcesses == 0..9
=============================================================================
