-------------------------------- MODULE MCShades -------------------------------
(* Small instances of Shades for TLC. *)
EXTENDS Shades
================================================================================
