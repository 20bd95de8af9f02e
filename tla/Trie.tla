---------------------------------- MODULE Trie ---------------------------------
(***************************************************************************)
(* The quad trie of trie.c.  A key is a sequence of digits (two bits each, *)
(* the highest first); a node has a prefix of up to MaxPrefix digits that  *)
(* all keys below it share and a son for each next digit, the data itself  *)
(* when no digits are left.  key_length is counted in digits.              *)
(*                                                                         *)
(* trie_insert and trie_delete make a new path to the key; the loops back  *)
(* upwards are returns from a recursion here.  trie_insert_set and         *)
(* trie_delete_set work on a sorted vector of keys, keep the new path in   *)
(* an array and, from one key to the next, climb only to the node where    *)
(* the paths cross; they assign to nodes all the time, so cells are        *)
(* modelled one by one: a heap is a sequence of nodes, 0 is NULL_WORD.     *)
(***************************************************************************)
EXTENDS Integers, SequencesExt

CONSTANTS TrieKeys,     \* the keys used, sequences of KeyDigits digits
          KeyDigits,    \* 16 in trie.c
          MaxPrefix,    \* 10 in trie.c
          TrieSharers,  \* the keys that may have other data (a bound)
          MaxKeySet     \* size of the vectors given to the set operations (a bound)
ASSUME TrieAssumption ==
  /\ MaxPrefix \in Nat \ {0} /\ KeyDigits > MaxPrefix + 1
  /\ \A k \in TrieKeys : Len(k) = KeyDigits /\ Range(k) \subseteq 0 .. 3

VARIABLES
  trie,     \* the trie: the cells reachable from it, the root the last of them
  trieMap   \* history: the data of each key, or TrieNoData
trieVars == <<trie, trieMap>>

TrieNoData == 0                  \* NULL_PTR
TrieDatas == {1001, 1002}        \* pointers to data, told from nodes
TrieData(key) == IF key \in TrieSharers THEN TrieDatas ELSE {1001}

Digits == 0 .. 3
QuadTrie(prefix, sons) == [prefix |-> prefix, sons |-> sons]
NoSons == [d \in Digits |-> 0]
Sons(p) == {d \in Digits : p.sons[d] # 0}
Rest(key, n) == SubSeq(key, Len(key) - n + 1, Len(key))     \* the last n digits
Used(p) == Len(p.prefix) + 1                                 \* digits compared in p
Matches(p, key) == IsPrefix(p.prefix, key)
Branch(p, key) == key[Used(p)]

(* The order of the keys as numbers.                                       *)
KeyLess(a, b) == \E i \in 1 .. Len(a) : a[i] < b[i] /\ \A j \in 1 .. i - 1 : a[j] = b[j]

RECURSIVE trie_find(_, _, _)
trie_find(h, p, key) ==
  IF p = 0 \/ key = <<>> THEN p
  ELSE IF Matches(h[p], key)
  THEN trie_find(h, h[p].sons[Branch(h[p], key)], Rest(key, Len(key) - Used(h[p])))
  ELSE TrieNoData

(* Digits gathered on the way are in key.                                  *)
RECURSIVE TrieFindMin(_, _, _)
TrieFindMin(h, p, key) ==
  IF Len(key) = KeyDigits THEN [key |-> key, data |-> p]
  ELSE LET d == Min(Sons(h[p])) IN TrieFindMin(h, h[p].sons[d], key \o h[p].prefix \o <<d>>)

NotFound == [key |-> <<>>, data |-> TrieNoData]

(* The data of the least key not below the given one, from node p; final   *)
(* has the digits above it (final_key).                                    *)
RECURSIVE AtLeastBelow(_, _, _, _)
AtLeastBelow(h, p, key, final) ==
  IF key = <<>> THEN [key |-> final, data |-> p]
  ELSE IF p = 0 THEN NotFound
  ELSE IF ~ Matches(h[p], key)
  THEN IF KeyLess(SubSeq(key, 1, Len(h[p].prefix)), h[p].prefix)
       THEN TrieFindMin(h, p, final) ELSE NotFound
  ELSE LET d == Branch(h[p], key)
           above == final \o h[p].prefix
           here == IF h[p].sons[d] = 0 THEN NotFound
                   ELSE AtLeastBelow(h, h[p].sons[d], Rest(key, Len(key) - Used(h[p])), Append(above, d))
           right == {e \in Sons(h[p]) : e > d} IN
       IF here # NotFound THEN here
       ELSE IF right = {} THEN NotFound
       ELSE TrieFindMin(h, h[p].sons[Min(right)], Append(above, Min(right)))
trie_find_at_least(h, root, key) == AtLeastBelow(h, root, key, <<>>)

--------------------------------------------------------------------------------
TrieNew(h) == Len(h) + 1

(* The label insert_to_level: what new_p becomes for p, key having the     *)
(* digits not compared yet.  If the prefixes differ, new_p branches where  *)
(* they do, and new_old_p has the rest of p.                               *)
InsertToLevel(h, p, key) ==
  IF p = 0
  THEN [h |-> h, node |-> QuadTrie(SubSeq(key, 1, IF Len(key) > MaxPrefix + 1 THEN MaxPrefix
                                                  ELSE Len(key) - 1), NoSons)]
  ELSE IF Matches(h[p], key) THEN [h |-> h, node |-> h[p]]
  ELSE LET c == Len(LongestCommonPrefix({h[p].prefix, key}))
           new_old_p == QuadTrie(SubSeq(h[p].prefix, c + 2, Len(h[p].prefix)), h[p].sons) IN
       [h |-> Append(h, new_old_p),
        node |-> QuadTrie(SubSeq(key, 1, c), [NoSons EXCEPT ![h[p].prefix[c + 1]] = TrieNew(h)])]

RECURSIVE TrieInsertBelow(_, _, _, _)
TrieInsertBelow(h, p, key, data) ==
  IF key = <<>> THEN [h |-> h, p |-> data]
  ELSE LET new == InsertToLevel(h, p, key)
           i == Branch(new.node, key)
           son == TrieInsertBelow(new.h, new.node.sons[i], Rest(key, Len(key) - Used(new.node)), data) IN
       [h |-> Append(son.h, [new.node EXCEPT !.sons[i] = son.p]), p |-> TrieNew(son.h)]

(* data is what f returned, if given.                                      *)
trie_insert(h, root, key, data) ==
  IF trie_find(h, root, key) = data THEN [h |-> h, root |-> root]
  ELSE LET r == TrieInsertBelow(h, root, key, data) IN [h |-> r.h, root |-> r.p]

--------------------------------------------------------------------------------
(* A node with one son takes over the son if the prefixes fit.             *)
Combined(h, p) ==
  LET i == CHOOSE d \in Digits : p.sons[d] # 0
      son == h[p.sons[i]] IN
  IF Cardinality(Sons(p)) = 1 /\ Len(p.prefix) + Len(son.prefix) <= MaxPrefix - 1
  THEN QuadTrie(p.prefix \o <<i>> \o son.prefix, son.sons)
  ELSE p

(* Deletes below p.  What is left to do above: nothing ("done"), or to     *)
(* look for useless nodes ("clean").                                       *)
RECURSIVE TrieDeleteBelow(_, _, _, _)
TrieDeleteBelow(h, p, key, data) ==
  IF key = <<>> THEN [h |-> h, p |-> data, todo |-> IF data = 0 THEN "clean" ELSE "done"]
  ELSE LET i == Branch(h[p], key)
           son == TrieDeleteBelow(h, h[p].sons[i], Rest(key, Len(key) - Used(h[p])), data)
           new_p == [h[p] EXCEPT !.sons[i] = son.p]
           holdsData == Len(key) = Used(h[p])
           Becomes1(node, todo) == [h |-> Append(son.h, node), p |-> TrieNew(son.h), todo |-> todo] IN
       IF son.todo = "done" \/ Cardinality(Sons(new_p)) > 1 THEN Becomes1(new_p, "done")
       ELSE IF Sons(new_p) = {} THEN [h |-> son.h, p |-> 0, todo |-> "clean"]
       ELSE IF holdsData THEN Becomes1(new_p, "done")
       ELSE Becomes1(Combined(son.h, new_p), "clean")

(* Whether there is a place for the data of key, filled or not.            *)
RECURSIVE HasSlot(_, _, _)
HasSlot(h, p, key) ==
  \/ key = <<>>
  \/ /\ p # 0 /\ Matches(h[p], key)
     /\ HasSlot(h, h[p].sons[Branch(h[p], key)], Rest(key, Len(key) - Used(h[p])))

(* With an f, data is what it returned: the slot is filled with it, even   *)
(* if it was empty.                                                        *)
trie_delete(h, root, key, data) ==
  IF root = 0 \/ ~ HasSlot(h, root, key) \/ (data = TrieNoData /\ trie_find(h, root, key) = TrieNoData)
  THEN [h |-> h, root |-> root]
  ELSE LET r == TrieDeleteBelow(h, root, key, data) IN [h |-> r.h, root |-> r.p]

--------------------------------------------------------------------------------
(* The locals of the set operations.  path has the entries below level; at *)
(* is path[level].node, if it is set.                                      *)
TrieStart(h, root) ==
  [h |-> h, p |-> root, at |-> root, path |-> <<>>, key_length |-> KeyDigits,
   reuse |-> FALSE, changed |-> FALSE, key_exists |-> TRUE]
TP(s) == s.h[s.p]
Above(s) == Last(s.path)
(* path[level].node[path[level].ix] = w, for the entry above *)
Link(s, w) ==
  IF s.path = <<>> THEN s ELSE [s EXCEPT !.h[Above(s).node].sons[Above(s).ix] = w]
(* path[level].ix = the next digit; level++; p = p[ix] *)
Deeper(s, node, key) ==
  LET d == Branch(s.h[node], Rest(key, s.key_length)) IN
  [s EXCEPT !.path = Append(@, [node |-> node, ix |-> d]),
            !.key_length = @ - Used(s.h[node]),
            !.p = s.h[s.p].sons[d]]
(* level--; p = path[level].node; and the digits of p are open again.      *)
Higher(s) ==
  [s EXCEPT !.p = Above(s).node, !.at = Above(s).node, !.path = Front(@), !.key_length = @ + Used(s.h[Above(s).node])]
(* Digits from the first one on in which a and b differ (different_bits).  *)
DifferentDigits(a, b) == KeyDigits - Len(LongestCommonPrefix({a, b}))

(* The node for p, new and chained to the one above, unless p is new.      *)
InsertSetNode(s, key) ==
  LET new == InsertToLevel(s.h, s.p, Rest(key, s.key_length)) IN
  IF s.reuse
  THEN [s EXCEPT !.h = [new.h EXCEPT ![s.p] = new.node], !.reuse = FALSE]
  ELSE Link([s EXCEPT !.h = Append(new.h, new.node), !.p = TrieNew(new.h)], TrieNew(new.h))

(* The inner loop of trie_insert_set: down to the data of key.             *)
RECURSIVE InsertSetDown(_, _)
InsertSetDown(s, key) ==
  IF s.key_length = 0 THEN s
  ELSE LET s1 == InsertSetNode(s, key) IN InsertSetDown(Deeper(s1, s1.p, key), key)

RECURSIVE ClimbTo(_, _)
ClimbTo(s, different) == IF s.key_length < different THEN ClimbTo(Higher(s), different) ELSE s

(* Mutant: the cross node is copied once more and not chained.             *)
FromCrossNodeAlways(s, key) == Deeper(s, s.p, key)
(* From the cross node p: deeper, or p has to be split, in place.          *)
FromCrossNode(s, key) ==
  IF Matches(TP(s), Rest(key, s.key_length)) THEN Deeper(s, s.p, key) ELSE [s EXCEPT !.reuse = TRUE]

(* The data is stored above s.p, the data of the key before.               *)
InsertSetData(s, data) ==
  [s EXCEPT !.h[Above(s).node].sons[Above(s).ix] = data, !.changed = @ \/ s.p # data]

RECURSIVE InsertSetFrom(_, _, _, _)
InsertSetOn(s, i, keys, data) ==
  IF i = Len(keys) THEN s
  ELSE InsertSetFrom(FromCrossNode(ClimbTo(Higher(s), DifferentDigits(keys[i], keys[i + 1])), keys[i + 1]),
                     i + 1, keys, data)
InsertSetFrom(s, i, keys, data) ==
  InsertSetOn(InsertSetData(InsertSetDown(s, keys[i]), data[i]), i, keys, data)

trie_insert_set(h, root, keys, data) ==
  LET s == InsertSetFrom(TrieStart(h, root), 1, keys, data) IN
  IF s.changed THEN [h |-> s.h, root |-> s.path[1].node] ELSE [h |-> h, root |-> root]

--------------------------------------------------------------------------------
(* The first inner loop of trie_delete_set.  At a prefix that does not     *)
(* agree p stays the old node, while path[level].node is its copy.         *)
RECURSIVE DeleteSetDown(_, _)
DeleteSetDown(s, key) ==
  LET new_p == TrieNew(s.h)
      s1 == Link([s EXCEPT !.h = Append(@, TP(s))], new_p)
      s2 == Deeper(s1, new_p, key) IN
  IF s.key_length = 0 \/ ~ s.key_exists THEN s
  ELSE IF ~ Matches(TP(s), Rest(key, s.key_length)) THEN [s1 EXCEPT !.at = new_p, !.key_exists = FALSE]
  ELSE DeleteSetDown([s2 EXCEPT !.key_exists = s2.p # 0], key)

TrieResult(s, root) == [h |-> s.h, root |-> root]
NewRoot(s) == IF s.path = <<>> THEN s.p ELSE s.path[1].node

(* p is looked after: without sons it is unlinked, with one son combined.  *)
CleanNode(s) ==
  IF Sons(TP(s)) = {} THEN Link(s, 0) ELSE [s EXCEPT !.h[s.p] = Combined(s.h, TP(s))]

(* The loop upwards after the last key.                                    *)
RECURSIVE CleanUp(_)
CleanUp(s) ==
  IF s.path = <<>>
  THEN IF Sons(TP(s)) = {} THEN TrieResult(s, 0) ELSE TrieResult(CleanNode(s), s.p)
  ELSE IF Cardinality(Sons(TP(s))) > 1 THEN TrieResult(s, NewRoot(s))
  ELSE CleanUp(Higher(CleanNode(s)))

(* A node of data pointers, which must not be combined with a "son".       *)
HoldsData(s) == s.key_length = Used(TP(s))
UnlinkIfUseless(s) == IF Sons(TP(s)) = {} THEN Link(s, 0) ELSE s

(* The last key: s.p is its data, or where the search for it ended.        *)
DeleteLast(s, h, root) ==
  IF ~ s.changed /\ (s.key_length > 0 \/ s.p = 0) THEN TrieResult([s EXCEPT !.h = h], root)
  ELSE IF s.key_length = 0
  THEN CleanUp(Higher(UnlinkIfUseless(Higher(Link(s, 0)))))
  ELSE IF s.p = 0 THEN CleanUp(Higher(s))
  ELSE IF HoldsData(s) THEN CleanUp(Higher(UnlinkIfUseless(s)))
  ELSE CleanUp(s)

(* The loop upwards between two keys.                                      *)
RECURSIVE CleanUpTo(_, _)
CleanUpTo(s, different) ==
  IF s.key_length >= different THEN s ELSE CleanUpTo(Higher(CleanNode(s)), different)

(* Up, if p is not the cross node; a node of data is not looked after.     *)
LeaveDataNode(s, different) == IF s.key_length < different THEN Higher(s) ELSE s

(* A key that is not the last one is deleted if it is there, and the climb *)
(* to the cross node begun.                                                *)
DeleteOne(s, key, different) ==
  IF s.key_length = 0
  THEN LET s1 == [Higher(Link(s, 0)) EXCEPT !.changed = @ \/ s.p # 0] IN
       IF s.p # 0 /\ Sons(TP(s1)) = {} THEN Higher(Link(s1, 0)) ELSE LeaveDataNode(s1, different)
  ELSE IF s.p = 0 THEN Higher(s)
  ELSE IF KeyLess(TP(s).prefix, SubSeq(Rest(key, s.key_length), 1, Len(TP(s).prefix))) THEN Higher(s)
  ELSE IF HoldsData(s) THEN LeaveDataNode(s, different)
  ELSE s

(* All keys of the trie are smaller than this one and the ones to come.    *)
AllSmaller(s, key) ==
  /\ s.key_length > 0 /\ s.p # 0 /\ s.path = <<>>
  /\ KeyLess(TP(s).prefix, SubSeq(Rest(key, s.key_length), 1, Len(TP(s).prefix)))

(* From the cross node p to where the search for the next key starts.      *)
ToNextKey(s, next) ==
  IF Matches(TP(s), Rest(next, s.key_length))
  THEN [Deeper(s, s.at, next) EXCEPT !.key_exists = Deeper(s, s.at, next).p # 0]
  ELSE [s EXCEPT !.key_exists = FALSE]

RECURSIVE DeleteSetFrom(_, _, _, _, _)
DeleteSetAt(s, i, keys, h, root) ==
  IF i = Len(keys) THEN DeleteLast(s, h, root)
  ELSE IF AllSmaller(s, keys[i])
  THEN TrieResult(IF s.changed THEN s ELSE [s EXCEPT !.h = h], IF s.changed THEN s.at ELSE root)
  ELSE LET different == DifferentDigits(keys[i], keys[i + 1]) IN
       DeleteSetFrom(ToNextKey(CleanUpTo(DeleteOne(s, keys[i], different), different), keys[i + 1]),
                     i + 1, keys, h, root)
DeleteSetFrom(s, i, keys, h, root) == DeleteSetAt(DeleteSetDown(s, keys[i]), i, keys, h, root)

trie_delete_set(h, root, keys) ==
  IF root = 0 THEN [h |-> h, root |-> root] ELSE DeleteSetFrom(TrieStart(h, root), 1, keys, h, root)

--------------------------------------------------------------------------------
(* The cells reachable from p, which has n digits left, sons before their  *)
(* father.                                                                 *)
RECURSIVE TrieCells(_, _, _, _)
TrieCells(h, p, n, done) ==
  IF p = 0 \/ n = 0 THEN done
  ELSE LET left == n - Used(h[p])
           c[d \in -1 .. 3] ==
             IF d = -1 THEN done ELSE TrieCells(h, h[p].sons[d], left, c[d - 1])
           at == [d \in Digits |-> IF h[p].sons[d] = 0 \/ left = 0 THEN h[p].sons[d] ELSE Len(c[d])] IN
       Append(c[3], QuadTrie(h[p].prefix, at))

(* The client keeps the result; a collection moves it.                     *)
TrieCollected(r) == TrieCells(r.h, r.root, KeyDigits, <<>>)
TrieBecomes(r) == trie' = TrieCollected(r)

TrieInit == trie = <<>> /\ trieMap = [k \in TrieKeys |-> TrieNoData]

TrieInsert(key, data) ==
  /\ TrieBecomes(trie_insert(trie, Len(trie), key, data))
  /\ trieMap' = [trieMap EXCEPT ![key] = data]

TrieDelete(key) ==
  /\ TrieBecomes(trie_delete(trie, Len(trie), key, TrieNoData))
  /\ trieMap' = [trieMap EXCEPT ![key] = TrieNoData]

(* With an f; only if there is data to give it.                            *)
TrieDeleteFun(key, data) ==
  /\ trieMap[key] # TrieNoData
  /\ TrieBecomes(trie_delete(trie, Len(trie), key, data))
  /\ trieMap' = [trieMap EXCEPT ![key] = data]

(* Sorted vectors of keys, as the set operations assert.                   *)
RECURSIVE SortedKeys(_)
SortedKeys(keys) ==
  IF keys = {} THEN <<>>
  ELSE LET k == CHOOSE k \in keys : \A l \in keys \ {k} : KeyLess(k, l) IN
       <<k>> \o SortedKeys(keys \ {k})
KeySets == {keys \in SUBSET TrieKeys : Cardinality(keys) \in 1 .. MaxKeySet}

(* The data for a key when data is given to all that take it.              *)
DataFor(key, data) == IF data \in TrieData(key) THEN data ELSE 1001
DataVector(keys, data) == [i \in DOMAIN keys |-> DataFor(keys[i], data)]

TrieInsertSet(keys, data) ==
  LET vector == SortedKeys(keys) IN
  /\ TrieBecomes(trie_insert_set(trie, Len(trie), vector, DataVector(vector, data)))
  /\ trieMap' = [k \in TrieKeys |-> IF k \in keys THEN DataFor(k, data) ELSE trieMap[k]]

(* The result, unless a node is left in it from which no key can be        *)
(* reached: the climb from a key that is not there passes such nodes by.   *)
TrieDeleteSetTo(cells, keys) ==
  /\ \A i \in DOMAIN cells : Sons(cells[i]) # {}
  /\ trie' = cells
  /\ trieMap' = [k \in TrieKeys |-> IF k \in keys THEN TrieNoData ELSE trieMap[k]]
TrieDeleteSet(keys) ==
  TrieDeleteSetTo(TrieCollected(trie_delete_set(trie, Len(trie), SortedKeys(keys))), keys)

TrieNext ==
  \/ \E key \in TrieKeys : \E data \in TrieData(key) : TrieInsert(key, data) \/ TrieDeleteFun(key, data)
  \/ \E key \in TrieKeys : TrieDelete(key)
  \/ \E keys \in KeySets : \/ TrieDeleteSet(keys)
                           \/ \E data \in TrieDatas : TrieInsertSet(keys, data)
TrieSpec == TrieInit /\ [][TrieNext]_trieVars

--------------------------------------------------------------------------------
(* The trie given to a set operation keeps its keys and their data, though *)
(* trie_delete_set may combine a node of it with its only son in place;    *)
(* trie_insert_set does not assign to its nodes at all.                    *)
TriePersists ==
  trie # <<>> => \A keys \in KeySets :
    LET vector == SortedKeys(keys) IN
    /\ \A key \in TrieKeys :
         trie_find(trie_delete_set(trie, Len(trie), vector).h, Len(trie), key) = trieMap[key]
    /\ \A data \in TrieDatas :
         IsPrefix(trie, trie_insert_set(trie, Len(trie), vector, DataVector(vector, data)).h)

(* The trie is a map: trie_find finds every key with its data and          *)
(* trie_find_at_least the next present key of every key; and the tries     *)
(* that set operations were given stay maps.                               *)
TrieIsMap ==
  LET present == {k \in TrieKeys : trieMap[k] # TrieNoData} IN
  /\ TriePersists
  /\ \A key \in TrieKeys :
       /\ trie_find(trie, Len(trie), key) = trieMap[key]
       /\ LET next == {k \in present : ~ KeyLess(k, key)} IN
          trie_find_at_least(trie, Len(trie), key) =
            IF next = {} THEN NotFound
            ELSE [key |-> SortedKeys(next)[1], data |-> trieMap[SortedKeys(next)[1]]]
================================================================================
