------------------------------ MODULE WriteBehind ------------------------------
(***************************************************************************)
(* What the asynchronous I/O layer of HiBase (asyncio.h, io.h) promises to *)
(* the storage manager: writes of one page reach the disk in the order in  *)
(* which they were requested, with the contents the page had when the      *)
(* write was requested, and the root block is only written when no page    *)
(* write is outstanding.                                                   *)
(***************************************************************************)
EXTENDS Naturals, Sequences

CONSTANTS Files,      \* the database files (disks)
          Pages,      \* data page numbers within a file
          Contents    \* what a page can hold

VARIABLES queue,      \* writes requested and not yet on disk, per file
          disk,       \* the data pages on disk
          root        \* the data pages as the durable root block sees them

vars == <<queue, disk, root>>

Write == [page : Pages, content : Contents]

TypeOK ==
  /\ queue \in [Files -> Seq(Write)]
  /\ disk \in [Files -> [Pages -> Contents]]
  /\ root \in [Files -> [Pages -> Contents]]

Init ==
  /\ queue = [f \in Files |-> <<>>]
  /\ disk \in [Files -> [Pages -> Contents]]
  /\ root = disk

\* A page write is requested; the caller does not wait for it.
Submit(f, p, c) ==
  /\ queue' = [queue EXCEPT ![f] = Append(@, [page |-> p, content |-> c])]
  /\ UNCHANGED <<disk, root>>

\* An outstanding write, the oldest of its page, reaches the disk.
Land(f, i) ==
  LET w == queue[f][i] IN
  /\ \A j \in 1 .. i - 1 : queue[f][j].page # w.page
  /\ disk' = [disk EXCEPT ![f][w.page] = w.content]
  /\ queue' = [queue EXCEPT ![f] = SubSeq(@, 1, i - 1) \o SubSeq(@, i + 1, Len(@))]
  /\ UNCHANGED root

\* The root block is written: a group commit.
Commit ==
  /\ \A f \in Files : queue[f] = <<>>
  /\ root' = disk
  /\ UNCHANGED <<queue, disk>>

Next ==
  \/ \E f \in Files, p \in Pages, c \in Contents : Submit(f, p, c)
  \/ \E f \in Files : \E i \in 1 .. Len(queue[f]) : Land(f, i)
  \/ Commit

Spec == Init /\ [][Next]_vars
================================================================================
