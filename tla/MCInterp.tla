-------------------------------- MODULE MCInterp -------------------------------
(* A small instance of Interp for TLC. *)
EXTENDS Interp
================================================================================
