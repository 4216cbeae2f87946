----------------------------- MODULE MCFisopfs -----------------------------
(* A small file system for TLC. *)
EXTENDS Fisopfs

Direcciones == 1..3
SoloEscritura == {{"w"}}
=============================================================================
