------------------------------- MODULE MCIpc -------------------------------
(* Instance of Ipc. *)
EXTENDS Ipc
=============================================================================
