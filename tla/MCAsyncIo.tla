------------------------------- MODULE MCAsyncIo -------------------------------
(* A small instance of AsyncIo for TLC. *)
EXTENDS AsyncIo
================================================================================
