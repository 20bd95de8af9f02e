---------------------------------- MODULE Lq -----------------------------------
(***************************************************************************)
(* The logarithmic queue of lq.c: head and tail are lists of trees.  In a  *)
(* tree the root is the newest item, then come the left and the right son. *)
(* An insertion links the first two trees of the tail under the new item   *)
(* when they are of one height; a removal unpacks the first tree of the    *)
(* head, or of the reversed tail, along its right sons.                    *)
(*                                                                         *)
(* The cell types CELL_lq_item00, 01, 10, 11 say whether a tree has sons   *)
(* and whether it has a successor in its list; here that is whether sons   *)
(* is empty and the position in a sequence.  The son field of a cell points*)
(* to the right son, whose successor is the left one.                      *)
(***************************************************************************)
EXTENDS Integers, SequencesExt

CONSTANTS MaxLqInserts     \* bound on the number of items inserted
ASSUME MaxLqInsertsAssumption == MaxLqInserts \in Nat

VARIABLES
  lq,         \* the queue, or LqEmpty
  lqItems,    \* history: the items it should hold, first one first
  lqInserts   \* the number of items inserted so far
lqVars == <<lq, lqItems, lqInserts>>

LqEmpty == [type |-> "NULL_PTR"]
EntryPoint(head, tail) == [type |-> "CELL_lq_entry_point", head |-> head, tail |-> tail]

Tree(height, item, sons) == [height |-> height, item |-> item, sons |-> sons]
Single(item) == Tree(0, item, <<>>)
IsSingle(tree) == tree.sons = <<>>
RightSon(tree) == tree.sons[1]
LeftSon(tree) == tree.sons[2]

(* The first two trees of the tail are linked if both are single, or both  *)
(* are trees of one height.                                                *)
MustLink(tail) ==
  /\ Len(tail) > 1
  /\ IsSingle(tail[1]) <=> IsSingle(tail[2])
  /\ tail[1].height = tail[2].height

lq_insert_last(q, data) ==
  IF q = LqEmpty THEN EntryPoint(<<Single(data)>>, <<>>)
  ELSE IF MustLink(q.tail)
  THEN LET first == q.tail[1]
           second == q.tail[2] IN
       EntryPoint(q.head, <<Tree(first.height + 1, data, <<second, first>>)>>
                          \o SubSeq(q.tail, 3, Len(q.tail)))
  ELSE EntryPoint(q.head, <<Single(data)>> \o q.tail)

(* unpack: the left son and the root go to the front of the list for every *)
(* tree from this right son down; the last right son is the item removed.  *)
RECURSIVE UnpackLosing(_, _)
(* Mutant: the root of a right son is forgotten.                           *)
UnpackLosing(tree, list) ==
  LET right == RightSon(tree)
      more == <<LeftSon(tree)>> \o list IN
  IF IsSingle(right) THEN more ELSE UnpackLosing(right, more)
RECURSIVE Unpack(_, _)
Unpack(tree, list) ==
  LET right == RightSon(tree)
      more == <<LeftSon(tree)>> \o list IN
  IF IsSingle(right) THEN more ELSE Unpack(right, <<Single(right.item)>> \o more)

(* The first item of tree, which is followed by list, is removed.          *)
RemoveFrom(tree, list, tail) ==
  IF IsSingle(tree)
  THEN IF list = <<>> /\ tail = <<>> THEN LqEmpty ELSE EntryPoint(list, tail)
  ELSE EntryPoint(Unpack(tree, <<Single(tree.item)>> \o list), tail)

lq_remove_first(q) ==
  IF q = LqEmpty THEN LqEmpty
  ELSE IF q.head # <<>> THEN RemoveFrom(Head(q.head), Tail(q.head), q.tail)
  ELSE RemoveFrom(Last(q.tail), Reverse(Front(q.tail)), <<>>)

(* lq_get_first looks for the rightmost item of the first tree of the      *)
(* tail, whatever the head holds, and asserts that there is a tail.  The   *)
(* failing assertion is NoFirst, which is no item.                         *)
NoFirst == 0
RECURSIVE Rightmost(_)
Rightmost(tree) == IF IsSingle(tree) THEN tree.item ELSE Rightmost(RightSon(tree))
lq_get_first(q) == IF q.tail = <<>> THEN NoFirst ELSE Rightmost(Head(q.tail))

--------------------------------------------------------------------------------
(* A client inserts the numbers from 1 on, and removes when it likes.      *)
LqInit == lq = LqEmpty /\ lqItems = <<>> /\ lqInserts = 0

LqInsert(data) ==
  /\ lqInserts < MaxLqInserts
  /\ lqInserts' = lqInserts + 1
  /\ lq' = lq_insert_last(lq, data)
  /\ lqItems' = Append(lqItems, data)

LqRemove ==
  /\ lq # LqEmpty
  /\ lq' = lq_remove_first(lq)
  /\ lqItems' = Tail(lqItems)
  /\ UNCHANGED lqInserts

LqNext == LqInsert(lqInserts + 1) \/ LqRemove
LqSpec == LqInit /\ [][LqNext]_lqVars

--------------------------------------------------------------------------------
(* The items of a tree, oldest first.                                      *)
RECURSIVE ItemsOf(_)
ItemsOf(tree) ==
  IF IsSingle(tree) THEN <<tree.item>>
  ELSE ItemsOf(RightSon(tree)) \o ItemsOf(LeftSon(tree)) \o <<tree.item>>
ItemsOfAll(trees) == FlattenSeq([i \in 1 .. Len(trees) |-> ItemsOf(trees[i])])

(* All trees are full, so that a tree of height h holds 2^(h+1) - 1 items. *)
RECURSIVE Full(_)
Full(tree) ==
  IF tree.height = 0 THEN tree.sons = <<>>
  ELSE /\ Len(tree.sons) = 2
       /\ \A i \in 1 .. 2 : tree.sons[i].height = tree.height - 1 /\ Full(tree.sons[i])

(* What makes the queue logarithmic, and what the assertions on heights in *)
(* lq.c rely on: trees are full, also after unpacking, and in the tail the *)
(* heights do not decrease and only the first two may be equal.            *)
LqIsLogarithmic ==
  lq # LqEmpty =>
    /\ \A i \in 1 .. Len(lq.tail) :
         /\ Full(lq.tail[i])
         /\ i > 1 => lq.tail[i].height >= lq.tail[i - 1].height
         /\ i > 2 => lq.tail[i].height > lq.tail[i - 1].height
    /\ \A i \in 1 .. Len(lq.head) : Full(lq.head[i])

(* The queue is a queue: whatever was linked and unpacked, the trees of    *)
(* the head and then those of the reversed tail hold the items in order,   *)
(* in trees that keep it logarithmic.                                      *)
LqIsQueue ==
  /\ LqIsLogarithmic
  /\ IF lq = LqEmpty THEN lqItems = <<>>
     ELSE lqItems # <<>> /\ lqItems = ItemsOfAll(lq.head) \o ItemsOfAll(Reverse(lq.tail))

(* "Return the first item in the given queue."                             *)
GetFirstReturnsFirst == lq # LqEmpty => lq_get_first(lq) = Head(lqItems)
================================================================================
