------------------------------ MODULE MCKernel ------------------------------
(* Small instances of Kernel for TLC. *)
EXTENDS Kernel, TLC

CONSTANTS c0, c1     \* processors

AllTraps == {"yield", "other", "breakpoint", "exofork", "destroy",
             "set_status", "set_upcall", "recv", "send", "lower_priority",
             "fault", "bad"}
AllMisuse == {"restart", "rekill", "bad_recv", "underflow", "overflow"}
MinusOne == -1
=============================================================================
