-------------------------------- MODULE MCCopyGc -------------------------------
(* CopyGc with one root and one smart pointer: three commits are enough    *)
(* for two major collections, the second of two generations.               *)
EXTENDS CopyGc
================================================================================
