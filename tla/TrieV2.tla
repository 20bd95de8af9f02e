--------------------------------- MODULE TrieV2 --------------------------------
(***************************************************************************)
(* The width and path compressed trie of triev2.c.  A node has a prefix,   *)
(* its cell type names the digits it has sons for, and only those sons are *)
(* stored, one after the other: the tables offset, deoffset,               *)
(* greatest_non_null and cell_type_without translate between a digit and   *)
(* the place of its son.  Here a cell type is the set of digits.           *)
(*                                                                         *)
(* All operations build new nodes and assign to no other, so a trie is a   *)
(* value; that a nilpotent update returns the old root makes no            *)
(* difference.  A key is a sequence of digits, the highest first, and      *)
(* key_length is counted in digits.                                        *)
(***************************************************************************)
EXTENDS Integers, SequencesExt

CONSTANTS V2Keys,         \* sequences of V2KeyDigits digits
          V2Probes,       \* keys to look for, in addition
          V2KeyDigits,    \* 1 to 16 in triev2.c
          V2MaxPrefix,    \* 10 in triev2.c
          V2Way           \* 4 in triev2.c
ASSUME TrieV2Assumption ==
  /\ V2Way \in Nat \ {0, 1} /\ V2MaxPrefix \in Nat \ {0} /\ V2KeyDigits \in Nat \ {0, 1}
  /\ \A k \in V2Keys \cup V2Probes : Len(k) = V2KeyDigits /\ Range(k) \subseteq 0 .. V2Way - 1

VARIABLES
  triev2,   \* the trie
  v2Map     \* history: the data of each key, or V2NoData
v2Vars == <<triev2, v2Map>>

V2NoData == 0                     \* NULL_WORD
V2Data == {1, 2}
V2Digits == 0 .. V2Way - 1

V2Node(prefix, ct, words) == [prefix |-> prefix, ct |-> ct, words |-> words]
V2Null == V2Node(<<>>, {}, <<>>)  \* NULL_PTR

(* The tables.                                                             *)
greatest_non_null(ct, d) == Cardinality({e \in ct : e < d})
offset(ct, d) == IF d \in ct THEN greatest_non_null(ct, d) + 1 ELSE 0
deoffset(ct, i) == CHOOSE d \in ct : offset(ct, d) = i
first_nonexistent_key(ct) == Min(V2Digits \ ct)

V2Rest(key, p) == SubSeq(key, Len(p.prefix) + 2, Len(key))
V2Branch(key, p) == key[Len(p.prefix) + 1]
V2Matches(p, key) == IsPrefix(p.prefix, key)
V2Below(p, key) == p.words[offset(p.ct, V2Branch(key, p))]
V2Less(a, b) == \E i \in 1 .. Len(a) : a[i] < b[i] /\ \A j \in 1 .. i - 1 : a[j] = b[j]

--------------------------------------------------------------------------------
RECURSIVE V2Find(_, _)
V2Find(p, key) ==
  IF key = <<>> THEN p
  ELSE IF ~ V2Matches(p, key) \/ offset(p.ct, V2Branch(key, p)) = 0 THEN V2NoData
  ELSE V2Find(V2Below(p, key), V2Rest(key, p))
triev2_find(p, key) == IF p = V2Null THEN V2NoData ELSE V2Find(p, key)

RECURSIVE triev2_contains(_, _)
triev2_contains(p, key) ==
  \/ key = <<>>
  \/ /\ p # V2Null /\ V2Matches(p, key) /\ offset(p.ct, V2Branch(key, p)) # 0
     /\ triev2_contains(V2Below(p, key), V2Rest(key, p))

(* Prefixes are skipped, the key being known to be there.                  *)
RECURSIVE triev2_find_quick(_, _)
triev2_find_quick(p, key) ==
  IF key = <<>> THEN p ELSE triev2_find_quick(V2Below(p, key), V2Rest(key, p))

V2Found(key, data) == [key |-> key, data |-> data]
V2NotFound == V2Found(<<>>, V2NoData)

(* The label find_max; final has the digits so far.                        *)
RECURSIVE V2FindMax(_, _)
V2FindMax(p, final) ==
  IF Len(final) = V2KeyDigits THEN V2Found(final, p)
  ELSE LET i == greatest_non_null(p.ct, V2Way) IN
       V2FindMax(p.words[i], final \o p.prefix \o <<deoffset(p.ct, i)>>)
triev2_find_max(p) == IF p = V2Null THEN <<>> ELSE V2FindMax(p, <<>>).key

(* The label find_smaller, in a node on the path in which digit d was      *)
(* looked for: the son before it, whose keys are all less.                 *)
FindSmaller(p, d, final) ==
  LET i == (IF offset(p.ct, d) # 0 THEN offset(p.ct, d) ELSE greatest_non_null(p.ct, d) + 1) - 1 IN
  IF i < 1 THEN V2NotFound
  ELSE V2FindMax(p.words[i], final \o p.prefix \o <<deoffset(p.ct, i)>>)

(* Nothing in p is to be found if all its keys are greater.                *)
RECURSIVE V2AtMost(_, _, _)
V2AtMost(p, key, final) ==
  IF key = <<>> THEN V2Found(final, p)
  ELSE IF ~ V2Matches(p, key)
  THEN IF V2Less(p.prefix, SubSeq(key, 1, Len(p.prefix))) THEN V2FindMax(p, final) ELSE V2NotFound
  ELSE LET d == V2Branch(key, p)
           here == IF offset(p.ct, d) = 0 THEN V2NotFound
                   ELSE V2AtMost(V2Below(p, key), V2Rest(key, p), final \o p.prefix \o <<d>>) IN
       IF here # V2NotFound THEN here ELSE FindSmaller(p, d, final)
triev2_find_at_most(p, key) == IF p = V2Null THEN V2NotFound ELSE V2AtMost(p, key, <<>>)

--------------------------------------------------------------------------------
(* The leaf of key and the node above it.                                  *)
RECURSIVE V2Leaf(_, _, _)
V2Leaf(up, p, key) ==
  IF Len(key) = Len(p.prefix) + 1 THEN [up |-> up, p |-> p]
  ELSE V2Leaf(p, V2Below(p, key), V2Rest(key, p))

V2NoKey == <<>>                   \* 0xFFFFFFFF
V2LastTwo(key, c, d) == SubSeq(key, 1, Len(key) - 2) \o <<c, d>>

(* The leaves from the c'th son of up on: the first key not there.         *)
RECURSIVE V2InNextLeaves(_, _, _)
V2InNextLeaves(up, c, key) ==
  IF c = V2Way THEN V2NoKey
  ELSE IF offset(up.ct, c) = 0 THEN V2LastTwo(key, c, 0)
  ELSE LET p == up.words[offset(up.ct, c)] IN
       IF p.ct # V2Digits THEN V2LastTwo(key, c, first_nonexistent_key(p.ct))
       ELSE V2InNextLeaves(up, c + 1, key)

(* A key not in the trie among those which differ from key in the last two *)
(* digits; these are 0 in key.                                             *)
triev2_find_nonexistent_key(p, key) ==
  IF ~ triev2_contains(p, key) THEN key
  ELSE LET leaf == V2Leaf(V2Null, p, key) IN
       IF leaf.p.ct # V2Digits THEN V2LastTwo(key, 0, first_nonexistent_key(leaf.p.ct))
       ELSE IF leaf.p.prefix # <<>> THEN V2LastTwo(key, 1, 0)
       ELSE V2InNextLeaves(leaf.up, 1, key)

--------------------------------------------------------------------------------
(* The switch of triev2_insert and triev2_replace: p with w as the son for *)
(* digit d, which it may have had one for.                                 *)
V2WithSon(p, d, w) ==
  IF d \in p.ct THEN V2Node(p.prefix, p.ct, [p.words EXCEPT ![offset(p.ct, d)] = w])
  ELSE V2Node(p.prefix, p.ct \cup {d}, InsertAt(p.words, greatest_non_null(p.ct, d) + 1, w))

(* No old path: as much as possible becomes the prefix.                    *)
V2NewNode(key) ==
  V2Node(SubSeq(key, 1, IF Len(key) < V2MaxPrefix + 1 THEN Len(key) - 1 ELSE V2MaxPrefix), {}, <<>>)

(* The label split: p, with the rest of its prefix, becomes a son of a new *)
(* node with the digits in which the prefix and the key agree.             *)
V2Split(p, key) ==
  LET c == Len(LongestCommonPrefix({p.prefix, key}))
      old_p == V2Node(SubSeq(p.prefix, c + 2, Len(p.prefix)), p.ct, p.words) IN
  V2WithSon(V2Node(SubSeq(p.prefix, 1, c), {}, <<>>), p.prefix[c + 1], old_p)

(* data is what f returned, if given and the key was there.                *)
RECURSIVE triev2_insert(_, _, _)
triev2_insert(p, key, data) ==
  IF key = <<>> THEN data
  ELSE LET new_p == IF p = V2Null THEN V2NewNode(key)
                    ELSE IF V2Matches(p, key) THEN p ELSE V2Split(p, key)
           d == V2Branch(key, new_p)
           rest == V2Rest(key, new_p)
           old == IF d \in new_p.ct THEN V2Below(new_p, key)
                  ELSE IF rest = <<>> THEN V2NoData ELSE V2Null IN
       V2WithSon(new_p, d, triev2_insert(old, rest, data))

RECURSIVE triev2_replace(_, _, _)
triev2_replace(p, key, data) ==
  IF key = <<>> THEN data
  ELSE V2WithSon(p, V2Branch(key, p), triev2_replace(V2Below(p, key), V2Rest(key, p), data))

--------------------------------------------------------------------------------
(* p with the son of digit d taken out.                                    *)
V2Without(p, d) == V2Node(p.prefix, p.ct \ {d}, RemoveAt(p.words, offset(p.ct, d)))

(* Mutant: the digit of the deleted son is put between the prefixes.       *)
V2JoinDeleted(p, d) ==
  LET q == p.words[3 - offset(p.ct, d)] IN V2Node(p.prefix \o <<d>> \o q.prefix, q.ct, q.words)
(* A node p of two sons without the one of d: joined with the other, q.    *)
V2Join(p, d) ==
  LET q == p.words[3 - offset(p.ct, d)] IN
  V2Node(p.prefix \o <<deoffset(p.ct, 3 - offset(p.ct, d))>> \o q.prefix, q.ct, q.words)

(* What becomes of p when the data of key is replaced or (V2NoData)        *)
(* deleted; gone tells that there is nothing left of p.                    *)
RECURSIVE V2Delete(_, _, _)
V2Delete(p, key, data) ==
  IF key = <<>> THEN [gone |-> data = V2NoData, p |-> data]
  ELSE LET d == V2Branch(key, p)
           son == V2Delete(V2Below(p, key), V2Rest(key, p), data)
           q == p.words[3 - offset(p.ct, d)]
           merge == V2Rest(key, p) # <<>> /\ Len(p.prefix) + Len(q.prefix) <= V2MaxPrefix - 1 IN
       IF ~ son.gone THEN [gone |-> FALSE, p |-> V2WithSon(p, d, son.p)]
       ELSE CASE Len(p.words) = 1 -> [gone |-> TRUE, p |-> V2Null]
              [] Len(p.words) = 2 -> [gone |-> FALSE, p |-> IF merge THEN V2Join(p, d) ELSE V2Without(p, d)]
              [] OTHER -> [gone |-> FALSE, p |-> V2Without(p, d)]

triev2_delete(p, key, data) == IF triev2_contains(p, key) THEN V2Delete(p, key, data).p ELSE p

--------------------------------------------------------------------------------
V2Init == triev2 = V2Null /\ v2Map = [k \in V2Keys |-> V2NoData]

V2Present == {k \in V2Keys : v2Map[k] # V2NoData}

V2InsertKey(key, data) ==
  /\ triev2' = triev2_insert(triev2, key, data)
  /\ v2Map' = [v2Map EXCEPT ![key] = data]

(* Only for keys that are there.                                           *)
V2ReplaceKey(key, data) ==
  /\ key \in V2Present
  /\ triev2' = triev2_replace(triev2, key, data)
  /\ v2Map' = [v2Map EXCEPT ![key] = data]

(* With data the key is updated, if it is there.                           *)
V2DeleteKey(key, data) ==
  /\ triev2' = triev2_delete(triev2, key, data)
  /\ v2Map' = [v2Map EXCEPT ![key] = IF @ = V2NoData THEN @ ELSE data]

V2Next ==
  \/ \E key \in V2Keys, data \in V2Data : V2InsertKey(key, data) \/ V2ReplaceKey(key, data)
  \/ \E key \in V2Keys, data \in V2Data \cup {V2NoData} : V2DeleteKey(key, data)
V2Spec == V2Init /\ [][V2Next]_v2Vars

--------------------------------------------------------------------------------
(* What a map with the keys of v2Map should answer.                        *)
V2Greatest(keys) == CHOOSE k \in keys : \A l \in keys \ {k} : V2Less(l, k)
V2AtMostInMap(key) ==
  LET below == {k \in V2Present : ~ V2Less(key, k)} IN
  IF below = {} THEN V2NotFound ELSE V2Found(V2Greatest(below), v2Map[V2Greatest(below)])

(* The trie is a map, for all ways to look something up.                   *)
V2IsMap ==
  /\ \A key \in V2Keys :
       /\ triev2_find(triev2, key) = v2Map[key]
       /\ triev2_contains(triev2, key) = (key \in V2Present)
       /\ key \in V2Present => triev2_find_quick(triev2, key) = v2Map[key]
  /\ \A key \in V2Keys \cup V2Probes : triev2_find_at_most(triev2, key) = V2AtMostInMap(key)
  /\ V2Present # {} => triev2_find_max(triev2) = V2Greatest(V2Present)
================================================================================
