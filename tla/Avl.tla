---------------------------------- MODULE Avl ----------------------------------
(***************************************************************************)
(* The AVL tree of avl.c.  Data is in the leaves; an internal node has the *)
(* greatest key its left subtree had when it was made, and its height in   *)
(* the header.  Operations copy the path from the root to a leaf, change   *)
(* the copies and rebalance them from the leaf up; those of the byte code  *)
(* get the path as a history and build the copies on the way up.           *)
(*                                                                         *)
(* The data stored is what update_fun or delete_fun returned, if given;    *)
(* after a failing comparison an operation returns the tree it was given.  *)
(***************************************************************************)
EXTENDS Integers, SequencesExt

CONSTANTS Keys,      \* numbers, in the order of item_cmp
          Updated    \* those whose data may change (a bound)
ASSUME AvlAssumption == Keys \subseteq Nat /\ Updated \subseteq Keys

VARIABLES
  avl,       \* the tree
  avlMap     \* history: the data of each key, or NoData
avlVars == <<avl, avlMap>>

NoData == 0          \* NULL_PTR
DataValues(key) == IF key \in Updated THEN {1, 2} ELSE {1}

NoTree == [type |-> "NULL_PTR"]
AvlLeaf(key, data) == [type |-> "CELL_avl_leaf", height |-> 0, key |-> key, data |-> data]
AvlInternal(height, key, left, right) ==
  [type |-> "CELL_avl_internal", height |-> height, key |-> key, left |-> left, right |-> right]
IS_INTERNAL_NODE(p) == p.type = "CELL_avl_internal"

HEIGHT(p) == (IF p.left.height > p.right.height THEN p.left.height ELSE p.right.height) + 1
BALANCE(p) == p.right.height - p.left.height
WithHeight(p) == [p EXCEPT !.height = HEIGHT(p)]
NewInternal(key, left, right) == WithHeight(AvlInternal(0, key, left, right))

simple_rotate_right(p) ==
  LET q == p.left IN NewInternal(q.key, q.left, NewInternal(p.key, q.right, p.right))
simple_rotate_left(p) ==
  LET q == p.right IN NewInternal(q.key, NewInternal(p.key, p.left, q.left), q.right)
double_rotate_right(p) ==
  LET q == p.left
      r == q.right IN
  NewInternal(r.key, NewInternal(q.key, q.left, r.left), NewInternal(p.key, r.right, p.right))
double_rotate_left(p) ==
  LET q == p.right
      r == q.left IN
  NewInternal(r.key, NewInternal(p.key, p.left, r.left), NewInternal(q.key, r.right, q.right))

Unbalanced(p) == BALANCE(p) < -1 \/ BALANCE(p) > 1

(* After an insertion the higher son leans to a side.                      *)
RotateAfterInsert(p) ==
  IF BALANCE(p) < -1
  THEN CASE BALANCE(p.left) = -1 -> simple_rotate_right(p)
         [] BALANCE(p.left) = 1  -> double_rotate_right(p)
         [] OTHER                -> p
  ELSE CASE BALANCE(p.right) = 1  -> simple_rotate_left(p)
         [] BALANCE(p.right) = -1 -> double_rotate_left(p)
         [] OTHER                 -> p

(* Mutant: as after an insertion, a son in balance is not expected.        *)
RotateAfterDeleteAsInsert(p) == RotateAfterInsert(p)
(* After a deletion it may be in balance.                                  *)
RotateAfterDelete(p) ==
  IF BALANCE(p) < -1
  THEN IF BALANCE(p.left) = 1 THEN double_rotate_right(p) ELSE simple_rotate_right(p)
  ELSE IF BALANCE(p.right) = -1 THEN double_rotate_left(p) ELSE simple_rotate_left(p)

(* A rotation changes the node it is given, which ends up as a son.        *)
Demoted(p, rotated) == IF BALANCE(p) < -1 THEN rotated.right ELSE rotated.left

--------------------------------------------------------------------------------
(* The nodes from the root down to the leaf for key, each with the way     *)
(* taken; path and history in avl.c.                                       *)
Way(p, key) == IF key <= p.key THEN "left" ELSE "right"
Son(p, way) == IF way = "left" THEN p.left ELSE p.right
OtherSon(p, way) == IF way = "left" THEN p.right ELSE p.left
WithSon(p, way, t) == IF way = "left" THEN [p EXCEPT !.left = t] ELSE [p EXCEPT !.right = t]

RECURSIVE PathTo(_, _)
PathTo(p, key) ==
  IF IS_INTERNAL_NODE(p)
  THEN <<[node |-> p, way |-> Way(p, key)]>> \o PathTo(Son(p, Way(p, key)), key)
  ELSE <<>>

RECURSIVE LeafFor(_, _)
LeafFor(p, key) == IF IS_INTERNAL_NODE(p) THEN LeafFor(Son(p, Way(p, key)), key) ELSE p

avl_find(root, key) ==
  IF root = NoTree THEN NoData
  ELSE LET leaf == LeafFor(root, key) IN IF leaf.key = key THEN leaf.data ELSE NoData

(* The data of the leftmost leaf.                                          *)
RECURSIVE avl_find_min(_)
avl_find_min(p) ==
  IF p = NoTree THEN NoData ELSE IF IS_INTERNAL_NODE(p) THEN avl_find_min(p.left) ELSE p.data

(* The copies of the path, with t below; their heights stay as they were.  *)
RECURSIVE Chained(_, _)
Chained(path, t) ==
  IF path = <<>> THEN t
  ELSE Chained(Front(path), WithSon(Last(path).node, Last(path).way, t))

(* Mutant: the separator is always the key of the leaf found.              *)
SplitLeafOldKey(leaf, key, data) ==
  IF key < leaf.key THEN AvlInternal(1, leaf.key, AvlLeaf(key, data), leaf)
                    ELSE AvlInternal(1, leaf.key, leaf, AvlLeaf(key, data))
(* A new internal node for the leaf found and the new one.                 *)
SplitLeaf(leaf, key, data) ==
  IF key < leaf.key THEN AvlInternal(1, key, AvlLeaf(key, data), leaf)
                    ELSE AvlInternal(1, leaf.key, leaf, AvlLeaf(key, data))

(* Upwards after an insertion, until one rotation was made.                *)
RECURSIVE UpAfterInsert(_, _)
UpAfterInsert(path, t) ==
  IF path = <<>> THEN t
  ELSE LET p == WithSon(Last(path).node, Last(path).way, t) IN
       IF Unbalanced(p) THEN Chained(Front(path), RotateAfterInsert(p))
       ELSE UpAfterInsert(Front(path), WithHeight(p))

avl_insert(root, key, data) ==
  IF root = NoTree THEN AvlLeaf(key, data)
  ELSE LET leaf == LeafFor(root, key)
           path == PathTo(root, key) IN
       IF leaf.key = key THEN Chained(path, AvlLeaf(key, data))
       ELSE UpAfterInsert(path, SplitLeaf(leaf, key, data))

(* Upwards after a deletion, to the root.  A rotation there is made, but   *)
(* path[0].node is returned, which has become a son.                       *)
RECURSIVE UpAfterDelete(_, _)
UpAfterDelete(path, t) ==
  IF path = <<>> THEN t
  ELSE LET p == WithSon(Last(path).node, Last(path).way, t)
           rotated == RotateAfterDelete(p) IN
       IF ~ Unbalanced(p) THEN UpAfterDelete(Front(path), WithHeight(p))
       ELSE IF Len(path) > 1 THEN UpAfterDelete(Front(path), rotated)
       ELSE Demoted(p, rotated)

avl_delete(root, key) ==
  IF root = NoTree \/ LeafFor(root, key).key # key THEN root
  ELSE LET path == PathTo(root, key) IN
       IF path = <<>> THEN NoTree
       ELSE UpAfterDelete(Front(path), OtherSon(Last(path).node, Last(path).way))

(* avl_delete with a delete_fun: the data is replaced.                     *)
avl_delete_fun(root, key, data) ==
  IF root = NoTree \/ LeafFor(root, key).key # key THEN root
  ELSE Chained(PathTo(root, key), AvlLeaf(key, data))

--------------------------------------------------------------------------------
(* The operations of the byte code: every node on the way up is made anew  *)
(* with its height, and rotated if need be.                                *)
RECURSIVE BcUpAfterInsert(_, _)
BcUpAfterInsert(path, t) ==
  IF path = <<>> THEN t
  ELSE LET p == WithHeight(WithSon(Last(path).node, Last(path).way, t)) IN
       BcUpAfterInsert(Front(path), IF Unbalanced(p) THEN RotateAfterInsert(p) ELSE p)

avl_bc_insert(root, key, data) ==
  IF root = NoTree THEN AvlLeaf(key, data)
  ELSE LET leaf == LeafFor(root, key) IN
       BcUpAfterInsert(PathTo(root, key),
         IF leaf.key = key THEN AvlLeaf(key, data) ELSE SplitLeaf(leaf, key, data))

RECURSIVE BcUpAfterDelete(_, _)
BcUpAfterDelete(path, t) ==
  IF path = <<>> THEN t
  ELSE LET p == WithHeight(WithSon(Last(path).node, Last(path).way, t)) IN
       BcUpAfterDelete(Front(path), IF Unbalanced(p) THEN RotateAfterDelete(p) ELSE p)

avl_bc_delete(root, key) ==
  LET path == PathTo(root, key) IN
  IF path = <<>> THEN NoTree
  ELSE BcUpAfterDelete(Front(path), OtherSon(Last(path).node, Last(path).way))

--------------------------------------------------------------------------------
AvlInit == avl = NoTree /\ avlMap = [k \in Keys |-> NoData]

AvlInsert(key, data) ==
  /\ avl' = avl_insert(avl, key, data)
  /\ avlMap' = [avlMap EXCEPT ![key] = data]

AvlBcInsert(key, data) ==
  /\ avl' = avl_bc_insert(avl, key, data)
  /\ avlMap' = [avlMap EXCEPT ![key] = data]

AvlDelete(key) ==
  /\ avl' = avl_delete(avl, key)
  /\ avlMap' = [avlMap EXCEPT ![key] = NoData]

AvlDeleteFun(key, data) ==
  /\ avl' = avl_delete_fun(avl, key, data)
  /\ avlMap' = [avlMap EXCEPT ![key] = IF @ = NoData THEN @ ELSE data]

(* The byte code deletes keys it has found.                                *)
AvlBcDelete(key) ==
  /\ avlMap[key] # NoData
  /\ avl' = avl_bc_delete(avl, key)
  /\ avlMap' = [avlMap EXCEPT ![key] = NoData]

(* Whether avl_delete would rotate the root.                               *)
RotatesRoot(key) ==
  LET path == PathTo(avl, key) IN
  /\ avlMap[key] # NoData /\ Len(path) > 1
  /\ LET son == BcUpAfterDelete(Tail(Front(path)), OtherSon(Last(path).node, Last(path).way)) IN
     Unbalanced(WithSon(path[1].node, path[1].way, son))

AvlUpdates ==
  \/ \E key \in Keys : \E data \in DataValues(key) :
       AvlInsert(key, data) \/ AvlBcInsert(key, data) \/ AvlDeleteFun(key, data)
  \/ \E key \in Keys : AvlBcDelete(key)

(* Only deletions that do not rotate the root use avl_delete.              *)
AvlNext == AvlUpdates \/ \E key \in Keys : ~ RotatesRoot(key) /\ AvlDelete(key)
AvlSpec == AvlInit /\ [][AvlNext]_avlVars

(* All deletions may.                                                      *)
AvlAnyDelete == AvlUpdates \/ \E key \in Keys : AvlDelete(key)

--------------------------------------------------------------------------------
(* The keys in the leaves from left to right.                              *)
RECURSIVE KeysOf(_)
KeysOf(p) == IF IS_INTERNAL_NODE(p) THEN KeysOf(p.left) \o KeysOf(p.right) ELSE <<p.key>>

(* The tree is a map: every key is found with its data, through whatever   *)
(* separators are left of deleted keys, there is no other leaf, and the    *)
(* leftmost one has the least key.                                         *)
AvlIsMap ==
  /\ \A key \in Keys : avl_find(avl, key) = avlMap[key]
  /\ LET present == {key \in Keys : avlMap[key] # NoData} IN
     IF avl = NoTree THEN present = {}
     ELSE /\ Len(KeysOf(avl)) = Cardinality(present) /\ ToSet(KeysOf(avl)) = present
          /\ avl_find_min(avl) = avlMap[Min(present)]

RECURSIVE Balanced(_)
Balanced(p) ==
  IF IS_INTERNAL_NODE(p)
  THEN /\ Balanced(p.left) /\ Balanced(p.right)
       /\ p.height = HEIGHT(p)
       /\ ~ Unbalanced(p)
  ELSE p.height = 0

(* The operations of the byte code build the trees that the others build.  *)
BcAgrees ==
  /\ \A key \in Keys : \A data \in DataValues(key) :
       avl_bc_insert(avl, key, data) = avl_insert(avl, key, data)
  /\ \A key \in Keys :
       avlMap[key] # NoData /\ ~ RotatesRoot(key) => avl_bc_delete(avl, key) = avl_delete(avl, key)

(* avl_make_assertions: the heights in the headers are right, also in the  *)
(* ancestors that an insertion leaves alone after its rotation, and every  *)
(* node is in balance; the byte code, in which an operation may stop at a  *)
(* comparison, would build the same trees.                                 *)
AvlBalanced == (avl = NoTree \/ Balanced(avl)) /\ BcAgrees
================================================================================
