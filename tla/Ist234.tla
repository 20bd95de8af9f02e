--------------------------------- MODULE Ist234 --------------------------------
(***************************************************************************)
(* The 2-3-4 tree of ist234.c.  A node has n items (a key and its data)    *)
(* and n + 1 sons, n = 1, 2, 3.  ist234_insert finds its place first and   *)
(* copies nodes on its way back; ist234_delete goes down once, copying and *)
(* transforming nodes so that the next one is no 2-node, and assigns to    *)
(* the copies (through pp, key and data) while it goes on.  Which nodes    *)
(* are copies is all in is_not_copied_yet; an assignment to any other node *)
(* would change older versions of the tree.  Cells are therefore modelled  *)
(* one by one: a heap is a sequence of nodes, 0 the null pointer.          *)
(*                                                                         *)
(* The data stored is what update_fun or delete_fun returned, if given;    *)
(* after a failing comparison an operation returns the tree it was given.  *)
(***************************************************************************)
EXTENDS Integers, SequencesExt

CONSTANTS IstKeys,       \* numbers, in the order of item_cmp
          IstSharers     \* the keys that may share data (a bound)
ASSUME IstAssumption == IstKeys \subseteq 1 .. 99 /\ IstSharers \subseteq IstKeys

VARIABLES
  ist,       \* the tree: the cells reachable from it, the root the last of them
  istMap     \* history: the data of each key, or IstNoData
istVars == <<ist, istMap>>

IstNoData == 0                        \* NULL_PTR
IstShared == 100
IstData(key) ==                       \* data of its own, or shared with other keys
  {IstShared + key} \cup IF key \in IstSharers THEN {IstShared} ELSE {}

IstNode(items, sons) == [items |-> items, sons |-> sons]
IstItem(key, data) == [key |-> key, data |-> data]
NODE_TYPE(p) == Len(p.sons)
LEAF(p) == p.sons[1] = 0

(* The first item of p that is not less than key, or one behind the last.  *)
IstPlace(p, key) == 1 + Cardinality({i \in DOMAIN p.items : p.items[i].key < key})
IstAt(p, key) == \E i \in DOMAIN p.items : p.items[i].key = key

RECURSIVE ist234_find(_, _, _)
ist234_find(h, p, key) ==
  IF p = 0 THEN IstNoData
  ELSE LET i == IstPlace(h[p], key) IN
       IF IstAt(h[p], key) THEN h[p].items[i].data ELSE ist234_find(h, h[p].sons[i], key)

RECURSIVE ist234_find_min(_, _)
ist234_find_min(h, p) ==
  IF p = 0 THEN IstNoData
  ELSE IF LEAF(h[p]) THEN h[p].items[1].data ELSE ist234_find_min(h, h[p].sons[1])

--------------------------------------------------------------------------------
(* Insertion.  What the nodes below return to the one above: a new node,   *)
(* or an item to be inserted there between two new nodes.                  *)
IstUpdated(h, new_p) == [h |-> Append(h, new_p), what |-> "update", p |-> Len(h) + 1]
IstPassedUp(h, item, new_p_1, new_p_2) ==
  [h |-> h \o <<new_p_1, new_p_2>>, what |-> "insert", item |-> item,
   p_1 |-> Len(h) + 1, p_2 |-> Len(h) + 2]

(* Mutant: a 4-node is split in the middle of the old node.                *)
InsertItemSplitsBefore(h, p, i, r) ==
  LET items == InsertAt(p.items, i, r.item)
      sons == SubSeq(p.sons, 1, i - 1) \o <<r.p_1, r.p_2>> \o SubSeq(p.sons, i + 1, Len(p.sons)) IN
  IF NODE_TYPE(p) < 4 THEN IstUpdated(h, IstNode(items, sons))
  ELSE IstPassedUp(h, p.items[2], IstNode(SubSeq(items, 1, 2), SubSeq(sons, 1, 3)),
                                  IstNode(SubSeq(items, 4, 4), SubSeq(sons, 4, 5)))
(* The label insert: an item and two sons take the place of son i of p; if *)
(* that makes p too big, it is split and its third item passed up.         *)
InsertItem(h, p, i, r) ==
  LET items == InsertAt(p.items, i, r.item)
      sons == SubSeq(p.sons, 1, i - 1) \o <<r.p_1, r.p_2>> \o SubSeq(p.sons, i + 1, Len(p.sons)) IN
  IF NODE_TYPE(p) < 4 THEN IstUpdated(h, IstNode(items, sons))
  ELSE IstPassedUp(h, items[3], IstNode(SubSeq(items, 1, 2), SubSeq(sons, 1, 3)),
                                IstNode(SubSeq(items, 4, 4), SubSeq(sons, 4, 5)))

(* Whether the insertion is taken to be nilpotent.  For the second key the *)
(* data of the first is compared.                                          *)
IstNilpotent(p, i, data) == p.items[IF i = 2 THEN 1 ELSE i].data = data

RECURSIVE IstInsertBelow(_, _, _, _)
IstInsertBelow(h, p, key, data) ==
  IF p = 0
  THEN [h |-> h, what |-> "insert", item |-> IstItem(key, data), p_1 |-> 0, p_2 |-> 0]
  ELSE LET i == IstPlace(h[p], key)
           below == IstInsertBelow(h, h[p].sons[i], key, data) IN
       IF IstAt(h[p], key)
       THEN IF IstNilpotent(h[p], i, data) THEN [h |-> h, what |-> "nothing"]
            ELSE IstUpdated(h, [h[p] EXCEPT !.items[i].data = data])
       ELSE CASE below.what = "nothing" -> below
              [] below.what = "update"  -> IstUpdated(below.h, [h[p] EXCEPT !.sons[i] = below.p])
              [] OTHER                  -> InsertItem(below.h, h[p], i, below)

ist234_insert(h, root, key, data) ==
  LET r == IstInsertBelow(h, root, key, data) IN
  CASE r.what = "nothing" -> [h |-> h, root |-> root]
    [] r.what = "update"  -> [h |-> r.h, root |-> r.p]
    [] OTHER -> [h |-> Append(r.h, IstNode(<<r.item>>, <<r.p_1, r.p_2>>)), root |-> Len(r.h) + 1]

--------------------------------------------------------------------------------
(* Deletion.  The locals of ist234_delete: fresh is ~ is_not_copied_yet,   *)
(* pp the place <<node, son>> that points to p.                            *)
IstStart(h, root) ==
  [h |-> h, p |-> root, new_root |-> 0, pp |-> <<0, 0>>, fresh |-> FALSE]

IstAlloc(s, node) == [s EXCEPT !.h = Append(@, node)]
IstNew(s) == Len(s.h) + 1
IstP(s) == s.h[s.p]

(* *pp = new_p *)
StoreInPp(s, new_p) == [s EXCEPT !.h[s.pp[1]].sons[s.pp[2]] = new_p]
(* new_p takes the place of p in the new tree.                             *)
PutInPlace(s, new_p) ==
  IF s.new_root = 0 \/ s.new_root = s.p THEN [s EXCEPT !.new_root = new_p] ELSE StoreInPp(s, new_p)

(* p becomes a copy, unless it is one.                                     *)
Own(s) ==
  IF s.fresh THEN [s EXCEPT !.fresh = FALSE]
  ELSE [PutInPlace(IstAlloc(s, IstP(s)), IstNew(s)) EXCEPT !.p = IstNew(s)]

StepDown(s, i) == [s EXCEPT !.pp = <<s.p, i>>, !.p = IstP(s).sons[i]]

(* p with the separator and the first son of its right brother.            *)
TakeFromRight(p, sep, brother) == IstNode(Append(p.items, sep), Append(p.sons, brother.sons[1]))

(* p with the separator and the last son of its left brother.              *)
TakeFromLeft(p, sep, brother) == IstNode(<<sep>> \o p.items, <<Last(brother.sons)>> \o p.sons)
(* Two 2-nodes and the item between them in one, and their father then.    *)
Joined(left, sep, right) ==
  IstNode(left.items \o <<sep>> \o right.items, left.sons \o right.sons)
WithJoined(node, l, joined) ==
  IstNode(RemoveAt(node.items, l), RemoveAt([node.sons EXCEPT ![l] = joined], l + 1))

(* Son ix of node is a 2-node: it gets an item from node, and node one     *)
(* from a brother, or it is joined with the brother and the item between   *)
(* them.  i_of_key is where the item of the 2-node has gone.               *)
copy_and_transform(h, node, ix) ==
  LET l == IF ix = 1 THEN 1 ELSE ix - 1                \* the left one of the two sons
      left == h[node.sons[l]]
      right == h[node.sons[l + 1]]
      brother == IF ix = 1 THEN right ELSE left
      sep == node.items[l]
      n == Len(h)
      With(leftSon, item, rightSon) ==
        [node EXCEPT !.items[l] = item, !.sons[l] = leftSon, !.sons[l + 1] = rightSon] IN
  IF NODE_TYPE(brother) = 2
  THEN LET k == IF ix = 1 THEN 1 ELSE 3 IN
       IF NODE_TYPE(node) = 2
       THEN [h |-> Append(h, Joined(left, sep, right)), new_p |-> n + 1, ix |-> ix, i_of_key |-> k, levels |-> 1]
       ELSE [h |-> h \o <<Joined(left, sep, right), WithJoined(node, l, n + 1)>>,
             new_p |-> n + 2, ix |-> l, i_of_key |-> k, levels |-> 2]
  ELSE IF ix = 1
  THEN [h |-> h \o <<TakeFromRight(left, sep, right),
                     IstNode(Tail(right.items), Tail(right.sons)),
                     With(n + 1, right.items[1], n + 2)>>,
        new_p |-> n + 3, ix |-> ix, i_of_key |-> 1, levels |-> 2]
  ELSE [h |-> h \o <<IstNode(Front(left.items), Front(left.sons)),
                     TakeFromLeft(right, sep, left),
                     With(n + 1, Last(left.items), n + 2)>>,
        new_p |-> n + 3, ix |-> ix, i_of_key |-> 2, levels |-> 2]

(* A 2-node below p has been made bigger; p becomes that node.             *)
Transform(s, t) ==
  LET s1 == [PutInPlace([s EXCEPT !.h = t.h], t.new_p) EXCEPT !.p = t.new_p, !.fresh = TRUE] IN
  IF t.levels = 1 THEN s1 ELSE StepDown(s1, t.ix)

(* The label delete_leaf.  "assert" is the result when an assertion fails. *)
DeleteLeaf(s, k) ==
  LET node == IstNode(RemoveAt(IstP(s).items, k), Tail(IstP(s).sons)) IN
  IF NODE_TYPE(IstP(s)) > 2
  THEN LET s1 == PutInPlace(IstAlloc(s, node), IstNew(s)) IN
       [h |-> s1.h, root |-> s1.new_root, assert |-> TRUE]
  ELSE [h |-> s.h, root |-> 0, assert |-> s.new_root = 0]

(* To the leaf at the left or the right end of the subtree p, which is no  *)
(* 2-node and stays none.                                                  *)
RECURSIVE ToTheEnd(_, _)
ToTheEnd(s, side) ==
  LET ix == IF side = "left" THEN 1 ELSE NODE_TYPE(IstP(s)) IN
  IF LEAF(IstP(s)) THEN s
  ELSE IF NODE_TYPE(s.h[IstP(s).sons[ix]]) = 2 
       THEN ToTheEnd(Transform(s, copy_and_transform(s.h, IstP(s), ix)), side)
  ELSE ToTheEnd(StepDown(Own(s), ix), side)

(* Item k of p is replaced by the next greater or next smaller one, which  *)
(* is deleted in its leaf.                                                 *)
ReplaceBy(s, p, k, i) ==
  LET s1 == [s EXCEPT !.h[p].items[k] = IstP(s).items[i]] IN
  IF NODE_TYPE(IstP(s)) > 2 THEN DeleteLeaf(s1, i)
  ELSE [h |-> s1.h, root |-> s1.new_root, assert |-> FALSE]
ReplaceByEnd(s, p, k, side) == ReplaceBy(s, p, k, IF side = "left" THEN 1 ELSE Len(IstP(s).items))
ReplaceInOwn(s, k, side) ==
  ReplaceByEnd(ToTheEnd(StepDown(s, IF side = "left" THEN k + 1 ELSE k), side), s.p, k, side)
ReplaceItem(s, k, side) == ReplaceInOwn(Own(s), k, side)

(* The item between the 2-nodes left and right is gone: they are joined,   *)
(* and so are their inner sons, until some are no 2-nodes or leaves.       *)
RECURSIVE Join(_, _, _), DeleteInternal(_, _)
Join(s, left, right) ==
  LET l == s.h[left]
      r == s.h[right]
      both2 == NODE_TYPE(s.h[l.sons[2]]) = 2 /\ NODE_TYPE(s.h[r.sons[1]]) = 2
      Placed(joint) == LET s1 == IstAlloc(s, joint) IN
        [IF s.new_root = 0 THEN [s1 EXCEPT !.new_root = IstNew(s)] ELSE StoreInPp(s1, IstNew(s))
           EXCEPT !.p = IstNew(s), !.pp = <<IstNew(s), 2>>]
      small == Placed(IstNode(l.items \o r.items, <<l.sons[1], 0, r.sons[2]>>))
      big == Placed(IstNode(l.items \o <<IstItem(0, 0)>> \o r.items, l.sons \o r.sons)) IN
  IF LEAF(l) THEN [h |-> small.h, root |-> small.new_root, assert |-> TRUE]
  ELSE IF both2 THEN Join(small, l.sons[2], r.sons[1])
  ELSE DeleteInternal([big EXCEPT !.fresh = TRUE], 2)

(* The label delete_internal_node: item k of p.                            *)
DeleteInternal(s, k) ==
  LET p == IstP(s)
      left == p.sons[k]
      right == p.sons[k + 1]
      less == IstNode(RemoveAt(p.items, k), RemoveAt([p.sons EXCEPT ![k] = 0], k + 1)) IN
  IF NODE_TYPE(s.h[right]) > 2 THEN ReplaceItem(s, k, "left")
  ELSE IF NODE_TYPE(s.h[left]) > 2 THEN ReplaceItem(s, k, "right")
  ELSE IF NODE_TYPE(p) = 2 THEN Join(s, left, right)
  ELSE Join([PutInPlace(IstAlloc(s, less), IstNew(s))
               EXCEPT !.p = IstNew(s), !.pp = <<IstNew(s), k>>], left, right)

(* The label delete_key; with a delete_fun the data is replaced.           *)
DeleteKey(s, k, h, root, data) ==
  LET s1 == Own(s) IN
  CASE data # IstNoData /\ IstP(s).items[k].data = data ->
         [h |-> h, root |-> root, assert |-> TRUE]
    [] data # IstNoData /\ IstP(s).items[k].data # data ->
         [h |-> [s1.h EXCEPT ![s1.p].items[k].data = data], root |-> s1.new_root, assert |-> TRUE]
    [] data = IstNoData /\ LEAF(IstP(s)) -> DeleteLeaf(s, k)
    [] OTHER -> IF s.new_root = 0 \/ NODE_TYPE(IstP(s)) > 2 THEN DeleteInternal(s, k)
                ELSE [h |-> h, root |-> root, assert |-> FALSE]

(* The labels find and copy.  A key that is not there: the allocation      *)
(* point is restored.                                                      *)
RECURSIVE DeleteFind(_, _, _, _, _), DeleteCopy(_, _, _, _, _, _)
DeleteFind(s, key, h, root, data) ==
  IF s.p = 0 THEN [h |-> h, root |-> root, assert |-> TRUE]
  ELSE IF IstAt(IstP(s), key) THEN DeleteKey(s, IstPlace(IstP(s), key), h, root, data)
  ELSE DeleteCopy(s, IstPlace(IstP(s), key), key, h, root, data)
(* On from the bigger node p, item k of which was the 2-node's.            *)
DeleteTransformed(s, k, key, h, root, data) ==
  LET at == IstP(s).items[k].key IN
  IF key = at THEN DeleteKey(s, k, h, root, data)
  ELSE DeleteCopy(s, IF key < at THEN k ELSE k + 1, key, h, root, data)
DeleteTransforming(s, t, key, h, root, data) ==
  DeleteTransformed(Transform(s, t), t.i_of_key, key, h, root, data)
DeleteCopy(s, ix, key, h, root, data) ==
  IF IstP(s).sons[ix] = 0 THEN [h |-> h, root |-> root, assert |-> TRUE]
  ELSE IF NODE_TYPE(s.h[IstP(s).sons[ix]]) > 2
  THEN DeleteFind(StepDown(Own(s), ix), key, h, root, data)
  ELSE DeleteTransforming(s, copy_and_transform(s.h, IstP(s), ix), key, h, root, data)

ist234_delete(h, root, key, data) == DeleteFind(IstStart(h, root), key, h, root, data)

--------------------------------------------------------------------------------
(* The cells reachable from p, sons before their father.                   *)
RECURSIVE IstCells(_, _, _)
IstCells(h, p, done) ==
  IF p = 0 THEN done
  ELSE LET d[i \in 0 .. Len(h[p].sons)] ==
             IF i = 0 THEN [cells |-> done, at |-> <<>>]
             ELSE LET c == IstCells(h, h[p].sons[i], d[i - 1].cells) IN
                  [cells |-> c, at |-> Append(d[i - 1].at, IF h[p].sons[i] = 0 THEN 0 ELSE Len(c))]
           all == d[Len(h[p].sons)] IN
       Append(all.cells, IstNode(h[p].items, all.at))

(* The client keeps the result; a collection moves it.                     *)
Becomes(r) == ist' = IstCells(r.h, r.root, <<>>)

IstInit == ist = <<>> /\ istMap = [k \in IstKeys |-> IstNoData]

(* Whether an update would be lost (see IstNilpotent).                     *)
LosesUpdate(key, data) ==
  \E p \in DOMAIN ist : /\ NODE_TYPE(ist[p]) > 2 /\ ist[p].items[2].key = key
                        /\ ist[p].items[1].data = data

IstInsert(key, data) ==
  /\ Becomes(ist234_insert(ist, Len(ist), key, data))
  /\ istMap' = [istMap EXCEPT ![key] = data]

(* data is what delete_fun returned, IstNoData without one.                *)
IstDelete(key, data) ==
  /\ Becomes(ist234_delete(ist, Len(ist), key, data))
  /\ istMap' = [istMap EXCEPT ![key] = IF @ = IstNoData THEN @ ELSE data]

IstNext ==
  \/ \E key \in IstKeys : \E data \in IstData(key) :
       ~ LosesUpdate(key, data) /\ IstInsert(key, data)
  \/ \E key \in IstKeys : \E data \in IstData(key) \cup {IstNoData} : IstDelete(key, data)
IstSpec == IstInit /\ [][IstNext]_istVars

(* Insertions that lose updates too.                                       *)
IstAnyInsert == \E key \in IstKeys : \E data \in IstData(key) : IstInsert(key, data)

--------------------------------------------------------------------------------
RECURSIVE IstItems(_), IstDepth(_)
IstItems(p) ==
  IF p = 0 THEN <<>>
  ELSE LET s[i \in 0 .. Len(ist[p].items)] ==
             IF i = 0 THEN IstItems(ist[p].sons[1])
             ELSE s[i - 1] \o <<ist[p].items[i].key>> \o IstItems(ist[p].sons[i + 1]) IN
       s[Len(ist[p].items)]
IstDepth(p) == IF p = 0 THEN 0 ELSE 1 + IstDepth(ist[p].sons[1])

(* A deletion assigns to nodes it has made itself only, so that the tree   *)
(* it was given stays as it is, and meets its own assertions.              *)
IstPersists ==
  ist # <<>> => \A key \in IstKeys : \A data \in IstData(key) \cup {IstNoData} :
    LET r == ist234_delete(ist, Len(ist), key, data) IN
    r.assert /\ IsPrefix(ist, r.h)

(* Every key is found with the data it was given last, be it by an         *)
(* ist234_insert of a key that is there.                                   *)
IstFinds == \A key \in IstKeys : ist234_find(ist, Len(ist), key) = istMap[key]

(* What ist234.h says of ist234_find_min: it returns the smallest key.     *)
(* (It returns the data of the smallest key.)                              *)
MinIsSmallestKey ==
  LET present == {k \in IstKeys : istMap[k] # IstNoData} IN
  present # {} => ist234_find_min(ist, Len(ist)) = Min(present)

(* The tree is a map: every key is found with its data, there are no       *)
(* other items, they are in order, ist234_find_min gives the data of the   *)
(* first, and all leaves are at one depth, whatever was joined or split on *)
(* the way (ist234_make_assertions), and older versions of it stay.        *)
IstIsMap ==
  LET present == {k \in IstKeys : istMap[k] # IstNoData} IN
  /\ IstPersists
  /\ IstFinds
  /\ LET items == IstItems(Len(ist)) IN
     ToSet(items) = present /\ \A i \in 2 .. Len(items) : items[i - 1] < items[i]
  /\ present # {} => ist234_find_min(ist, Len(ist)) = istMap[Min(present)]
  /\ \A p \in DOMAIN ist :
       /\ NODE_TYPE(ist[p]) \in 2 .. 4
       /\ \A i, j \in DOMAIN ist[p].sons : IstDepth(ist[p].sons[i]) = IstDepth(ist[p].sons[j])
================================================================================
