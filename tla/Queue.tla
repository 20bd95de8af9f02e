--------------------------------- MODULE Queue ---------------------------------
(***************************************************************************)
(* The real time queue of queue.c.  A queue is two lists, the head and the *)
(* tail in reverse; when both are equally long they are transferred into   *)
(* one list, two items per operation, while the queue stays in use.        *)
(* Lists of CELL_list are sequences; WCAR, WCDR and WCONS are Head, Tail   *)
(* and a step of Reverse.                                                  *)
(***************************************************************************)
EXTENDS Integers, SequencesExt

CONSTANTS MaxInserts       \* bound on the number of items inserted
ASSUME MaxInsertsAssumption == MaxInserts \in Nat

VARIABLES
  queue,       \* the queue, or QueueEmpty
  queueItems,  \* history: the items it should hold, first one first
  inserts      \* the number of items inserted so far
queueVars == <<queue, queueItems, inserts>>

QueueEmpty == [type |-> "NULL_PTR"]

(* CELL_queue: head p[1], tail p[2] and their numbers of keys p[3], p[4].  *)
CellQueue(head, tail, nhead, ntail) ==
  [type |-> "CELL_queue", head |-> head, tail |-> tail, nhead |-> nhead, ntail |-> ntail]

(* CELL_queue_rev: also the unreversed and the reversed part of the old    *)
(* head and of the old tail, p[5] to p[8], the number of keys moved in the *)
(* second phase p[9], and the length of the head at the start p[10].       *)
CellQueueRev(head, nhead, oldTail, newHead) ==
  [type |-> "CELL_queue_rev", head |-> head, tail |-> <<>>, nhead |-> nhead, ntail |-> 0,
   oldHead |-> head, revHead |-> <<>>, oldTail |-> oldTail, newHead |-> newHead,
   moved |-> 0, started |-> nhead]

(* First phase, k times: the next key of the old head goes to the reversed *)
(* head, the next one of the old tail to the front of the new head.        *)
ReverseBoth(q, k) ==
  [q EXCEPT !.revHead = Reverse(SubSeq(q.oldHead, 1, k)) \o @,
            !.oldHead = SubSeq(@, k + 1, Len(@)),
            !.newHead = Reverse(SubSeq(q.oldTail, 1, k)) \o @,
            !.oldTail = SubSeq(@, k + 1, Len(@))]

(* Second phase, k times: the next key of the reversed head goes to the    *)
(* front of the new head.                                                  *)
MoveHead(q, k) ==
  [q EXCEPT !.newHead = Reverse(SubSeq(q.revHead, 1, k)) \o @,
            !.revHead = SubSeq(@, k + 1, Len(@)),
            !.moved = @ + k]

(* Mutant: the key that started the transfer is not counted.               *)
TransferredUncounted(q) == CellQueue(q.newHead, q.tail, q.nhead + q.started, q.ntail)
Transferred(q) == CellQueue(q.newHead, q.tail, q.nhead + q.started + 1, q.ntail)

(* How many keys the second phase moves: two, or what is left, and one     *)
(* more in its first step if the head has an odd number of keys.           *)
StepsToMove(q) ==
  LET odd == IF q.moved = 0 THEN q.nhead % 2 ELSE 0
      left == q.nhead - (q.moved + odd) IN
  odd + (IF left < 0 THEN 0 ELSE IF left < 2 THEN left ELSE 2)

(* What every operation does for a transfer that is under way.             *)
Transfer(q) ==
  IF q.oldHead = <<>>
  THEN LET m == MoveHead(q, StepsToMove(q)) IN
       IF m.nhead = m.moved THEN Transferred(m) ELSE m
  ELSE ReverseBoth(q, 2)

StartTransfer(q) == ReverseBoth(q, 2 + (q.nhead % 2))

queue_insert_last(q, data) ==
  CASE q = QueueEmpty ->
         CellQueue(<<data>>, <<>>, 1, 0)
    [] q.type = "CELL_queue" /\ q.nhead = q.ntail /\ q.nhead = 1 ->
         CellQueue(<<Head(q.head), Head(q.tail), data>>, <<>>, 3, 0)
    [] q.type = "CELL_queue" /\ q.nhead = q.ntail /\ q.nhead # 1 ->
         StartTransfer(CellQueueRev(q.head, q.nhead, q.tail, <<data>>))
    [] q.type = "CELL_queue" /\ q.nhead # q.ntail ->
         CellQueue(q.head, <<data>> \o q.tail, q.nhead, q.ntail + 1)
    [] q.type = "CELL_queue_rev" ->
         Transfer([q EXCEPT !.tail = <<data>> \o @, !.ntail = @ + 1])

queue_remove_first(q) ==
  CASE q.type = "CELL_queue" /\ q.nhead = q.ntail /\ q.nhead = 1 ->
         CellQueue(q.tail, <<>>, 1, 0)
    [] q.type = "CELL_queue" /\ q.nhead = q.ntail /\ q.nhead = 2 ->
         CellQueue(<<q.head[2], q.tail[2], q.tail[1]>>, <<>>, 3, 0)
    [] q.type = "CELL_queue" /\ q.nhead = q.ntail /\ q.nhead > 2 ->
         StartTransfer(CellQueueRev(Tail(q.head), q.nhead - 1, Tail(q.tail), <<Head(q.tail)>>))
    [] q.type = "CELL_queue" /\ q.nhead # q.ntail ->
         IF q.nhead = 1 /\ q.ntail = 0 THEN QueueEmpty
         ELSE CellQueue(Tail(q.head), q.tail, q.nhead - 1, q.ntail)
    [] q.type = "CELL_queue_rev" ->
         Transfer([q EXCEPT !.head = Tail(@), !.nhead = @ - 1])

QUEUE_GET_FIRST(q) == Head(q.head)

--------------------------------------------------------------------------------
(* A client inserts the numbers from 1 on, and removes when it likes.      *)
QueueInit == queue = QueueEmpty /\ queueItems = <<>> /\ inserts = 0

QueueInsert(data) ==
  /\ inserts < MaxInserts
  /\ inserts' = inserts + 1
  /\ queue' = queue_insert_last(queue, data)
  /\ queueItems' = Append(queueItems, data)

QueueRemove ==
  /\ queue # QueueEmpty
  /\ queue' = queue_remove_first(queue)
  /\ queueItems' = Tail(queueItems)
  /\ UNCHANGED inserts

QueueNext == QueueInsert(inserts + 1) \/ QueueRemove
QueueSpec == QueueInit /\ [][QueueNext]_queueVars

--------------------------------------------------------------------------------
(* What the head will be when the transfer is done: the keys of the old    *)
(* head that were not removed since, the old tail in order, and the key    *)
(* that started it.                                                        *)
TransferTarget(q) ==
  IF q.type = "CELL_queue" THEN q.head
  ELSE LET notMoved == SubSeq(Reverse(q.oldHead) \o q.revHead, 1, q.nhead - q.moved) IN
       Reverse(notMoved) \o Reverse(q.oldTail) \o q.newHead

(* The transfer is in time: it ends before the head in use is empty and    *)
(* before the tail is longer than the head was at its start, so the tail   *)
(* is never longer than the head and the next transfer is never missed     *)
(* (it starts only when both lengths are equal).                           *)
TransferInTime ==
  queue # QueueEmpty =>
    IF queue.type = "CELL_queue" THEN queue.ntail <= queue.nhead
    ELSE queue.ntail <= queue.started /\ queue.nhead > 0

(* The queue is a queue: in every phase of a transfer, with removals and   *)
(* insertions between its steps, it holds the items in order, the first    *)
(* one is at hand in the head that is in use (QUEUE_GET_FIRST asserts that *)
(* there is one), the list under construction will continue that head, and *)
(* the counters that drive the transfer are the lengths they stand for;    *)
(* and the transfer is in time.                                            *)
QueueIsQueue ==
  /\ TransferInTime
  /\ IF queue = QueueEmpty THEN queueItems = <<>>
     ELSE /\ queueItems = TransferTarget(queue) \o Reverse(queue.tail)
          /\ queueItems # <<>> /\ queue.head # <<>>
          /\ QUEUE_GET_FIRST(queue) = Head(queueItems)
          /\ IsPrefix(queue.head, queueItems)
          /\ queue.nhead = Len(queue.head) /\ queue.ntail = Len(queue.tail)
================================================================================
