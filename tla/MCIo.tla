---------------------------------- MODULE MCIo ---------------------------------
(* Io on small databases.  Two files: a file may be full while the other   *)
(* is not.  One long file: the binary search meets root blocks of several  *)
(* rounds.  Two small files: the cursors come round within two root blocks.*)
EXTENDS Io

Database(f, p, r, c) == [files |-> f, pages |-> p, maxRoots |-> r, maxCrashes |-> c]
MCDatabases == {Database(2, 3, 5, 1), Database(1, 5, 7, 2)}
MCLoadDatabases == {Database(2, 2, 2, 1)}
================================================================================
