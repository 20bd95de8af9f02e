------------------------------------ MODULE Dh ---------------------------------
(***************************************************************************)
(* Dynamic hashing, dh.c: a tree of internal nodes that branch by the next *)
(* digit of the key, with leaves of up to MAX_KEYS_IN_LEAF keys in the     *)
(* order they came.  A full leaf is replaced by internal nodes, one below  *)
(* the other for as long as all its keys and the new one take the same     *)
(* branch.  Nodes are never assigned to once they are linked, so a tree is *)
(* a value.  data is what f returned, where f is called: it is not when    *)
(* the leaf has room for the key.                                          *)
(***************************************************************************)
EXTENDS Integers, SequencesExt

CONSTANTS DhKeys,               \* the keys used, sequences of DhDigits digits
          DhDigits,             \* 16 in dh.c
          INTERNAL_NODE_SIZE,   \* 4 in dh.h
          MAX_KEYS_IN_LEAF      \* 32 in dh.h
ASSUME DhAssumption ==
  /\ MAX_KEYS_IN_LEAF \in Nat \ {0}
  /\ \A k \in DhKeys : Len(k) = DhDigits /\ Range(k) \subseteq 0 .. INTERNAL_NODE_SIZE - 1

VARIABLES
  dh,          \* the tree
  dhMap,       \* history: the data of each key, or DhNoData
  dhAllocated  \* the words the last operation allocated
dhVars == <<dh, dhMap, dhAllocated>>

DhNoData == 0
DhData == {1, 2}
DhDigit == 0 .. INTERNAL_NODE_SIZE - 1

DhLeaf(items) == [cell |-> "leaf", items |-> items]
DhInternal(sons) == [cell |-> "internal", sons |-> sons]
DhNull == [cell |-> "null"]
DhItem(key, data) == [key |-> key, data |-> data]

(* bits_compared is counted in digits.                                     *)
DhBranch(key, bits_compared) == key[bits_compared + 1]

RECURSIVE DhFindFrom(_, _, _)
DhFindFrom(p, key, bits_compared) ==
  CASE p.cell = "null" -> DhNoData
    [] p.cell = "leaf" ->
         LET at == {i \in DOMAIN p.items : p.items[i].key = key} IN
         IF at = {} THEN DhNoData ELSE p.items[Min(at)].data
    [] p.cell = "internal" -> DhFindFrom(p.sons[DhBranch(key, bits_compared)], key, bits_compared + 1)
dh_find(root, key) == DhFindFrom(root, key, 0)

--------------------------------------------------------------------------------
LeafWords(n) == 2 * n + 1
InternalWords == INTERNAL_NODE_SIZE + 1

(* Mutant: the new key is taken to branch like the first one of the leaf.  *)
NewOverflowOfLeaf(p, key, bits_compared) ==
  \A item \in ToSet(p.items) : DhBranch(item.key, bits_compared) = DhBranch(p.items[1].key, bits_compared)
(* Whether all items of a full leaf and the new one take the same branch.  *)
NewOverflow(p, key, bits_compared) ==
  \A item \in ToSet(p.items) : DhBranch(item.key, bits_compared) = DhBranch(key, bits_compared)

(* The leaves of a new internal node: the new item comes first in its.     *)
DhSplitLeaf(p, item, bits_compared) ==
  DhInternal([d \in DhDigit |->
    LET items == SelectSeq(<<item>> \o p.items, LAMBDA i : DhBranch(i.key, bits_compared) = d) IN
    IF items = <<>> THEN DhNull ELSE DhLeaf(items)])
SplitWords(q) ==
  InternalWords +
  FoldFunction(LAMBDA son, n : n + IF son.cell = "null" THEN 0 ELSE LeafWords(Len(son.items)), 0, q.sons)

(* The new node for p, and the words allocated for it and those below.     *)
DhMade(p, words) == [p |-> p, words |-> words]
RECURSIVE DhInsertFrom(_, _, _, _)
DhInsertFrom(p, key, data, bits_compared) ==
  CASE p.cell = "null" -> DhMade(DhLeaf(<<DhItem(key, data)>>), LeafWords(1))
    [] p.cell = "internal" ->
         LET d == DhBranch(key, bits_compared)
             son == DhInsertFrom(p.sons[d], key, data, bits_compared + 1) IN
         DhMade(DhInternal([p.sons EXCEPT ![d] = son.p]), InternalWords + son.words)
    [] p.cell = "leaf" ->
         LET at == {i \in DOMAIN p.items : p.items[i].key = key}
             n == Len(p.items) IN
         IF at # {} THEN DhMade(DhLeaf([p.items EXCEPT ![Min(at)].data = data]), LeafWords(n))
         ELSE IF n < MAX_KEYS_IN_LEAF
         THEN DhMade(DhLeaf(Append(p.items, DhItem(key, data))), LeafWords(n + 1))
         ELSE IF NewOverflow(p, key, bits_compared)
         THEN LET d == DhBranch(key, bits_compared)
                  son == DhInsertFrom(p, key, data, bits_compared + 1) IN
              DhMade(DhInternal([e \in DhDigit |-> IF e = d THEN son.p ELSE DhNull]),
                     InternalWords + son.words)
         ELSE LET q == DhSplitLeaf(p, DhItem(key, data), bits_compared) IN DhMade(q, SplitWords(q))

(* A nilpotent insertion gives back what it allocated.                     *)
dh_insert(root, key, data) ==
  IF dh_find(root, key) = data THEN DhMade(root, 0) ELSE DhInsertFrom(root, key, data, 0)

(* dh_delete is a stub that returns the null pointer.                      *)
dh_delete(root, key) == DhNull

--------------------------------------------------------------------------------
DhInit == dh = DhNull /\ dhMap = [k \in DhKeys |-> DhNoData] /\ dhAllocated = 0

DhInsert(key, data) ==
  LET r == dh_insert(dh, key, data) IN
  /\ dh' = r.p
  /\ dhAllocated' = r.words
  /\ dhMap' = [dhMap EXCEPT ![key] = data]

(* What should be gone is the key only.                                    *)
DhDelete(key) ==
  /\ dh' = dh_delete(dh, key)
  /\ dhAllocated' = 0
  /\ dhMap' = [dhMap EXCEPT ![key] = DhNoData]

(* Whether dh_delete would lose other keys.                                *)
DhLosesOthers(key) == \E k \in DhKeys \ {key} : dhMap[k] # DhNoData

DhInserts == \E key \in DhKeys, data \in DhData : DhInsert(key, data)
DhNext == DhInserts \/ \E key \in DhKeys : ~ DhLosesOthers(key) /\ DhDelete(key)
DhSpec == DhInit /\ [][DhNext]_dhVars

(* Deletions that lose other keys too.                                     *)
DhAnyDelete == DhInserts \/ \E key \in DhKeys : DhDelete(key)

(* A client that inserts the keys in their order, as numbers.              *)
DhLess(a, b) == \E i \in 1 .. Len(a) : a[i] < b[i] /\ \A j \in 1 .. i - 1 : a[j] = b[j]
DhFill ==
  \E key \in DhKeys :
    /\ dhMap[key] = DhNoData /\ \A k \in DhKeys : DhLess(k, key) => dhMap[k] # DhNoData
    /\ DhInsert(key, 1)

--------------------------------------------------------------------------------
(* The leaves below p, which was reached by the digits of prefix: every    *)
(* key starts with them (dh_make_assertions).                              *)
RECURSIVE DhInPlace(_, _)
DhInPlace(p, prefix) ==
  CASE p.cell = "null" -> TRUE
    [] p.cell = "leaf" -> /\ Len(p.items) \in 1 .. MAX_KEYS_IN_LEAF
                          /\ \A item \in ToSet(p.items) : IsPrefix(prefix, item.key)
    [] p.cell = "internal" -> \A d \in DhDigit : DhInPlace(p.sons[d], Append(prefix, d))

(* The tree is a map: every key is found with the data last given to it,   *)
(* unless it was deleted, and is in its place, however often leaves        *)
(* overflowed.                                                             *)
DhIsMap ==
  /\ \A key \in DhKeys : dh_find(dh, key) = dhMap[key]
  /\ DhInPlace(dh, <<>>)

(* No operation allocates more than DH_MAX_ALLOCATION, which clients       *)
(* reserve before it.                                                      *)
DhAllocationBounded == dhAllocated <= InternalWords * DhDigits + 4 * 2 + 1
================================================================================
