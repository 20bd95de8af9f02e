------------------------------ MODULE MCAsyncPosix -----------------------------
(* AsyncPosix with two requests at a time on one file.                     *)
EXTENDS AsyncPosix
================================================================================
