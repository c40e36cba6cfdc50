----------------------------- MODULE MCInputPath -----------------------------
(***************************************************************************)
(* InputPath for TLC, by itself, without a fault.                          *)
(***************************************************************************)
EXTENDS InputPath
=============================================================================
