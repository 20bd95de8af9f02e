---------------------------------- MODULE Priq ---------------------------------
(***************************************************************************)
(* The priority queue of priq.c, a binomial heap.  The operations are      *)
(* meant to be non-destructive: every version stays valid after it was     *)
(* used to make another, although merge assigns to cells it has allocated. *)
(* So cells are modelled one by one, with allocation and assignment, and   *)
(* the client keeps every version it was given.                            *)
(***************************************************************************)
EXTENDS Integers, SequencesExt

CONSTANTS PriqItems,       \* the items, numbers in their order
          MaxPriqOps,      \* bound on the number of operations
          MaxPriqMerges,   \* bound on how many of them are priq_merge
          MaxComparisons   \* bound on the comparisons of one merge
ASSUME PriqItemsAssumption == PriqItems \subseteq Nat
ASSUME PriqBoundsAssumption ==
  MaxPriqOps \in Nat /\ MaxPriqMerges \in Nat /\ MaxComparisons \in Nat

VARIABLES
  cells,      \* the CELL_priq_items, in the order of their allocation
  versions,   \* history: the queues returned and the items they should hold
  merges      \* the number of priq_merge so far
priqVars == <<cells, versions, merges>>

(* A cell: HEIGHT, ITEM, SON and NEXT; 0 is NULL_PTR.                      *)
PriqItem(height, item, son, next) == [height |-> height, item |-> item, son |-> son, next |-> next]

(* The trees of the list that starts at p, in the cells c.                 *)
RECURSIVE TreesFrom(_, _)
TreesFrom(c, p) == IF p = 0 THEN <<>> ELSE <<p>> \o TreesFrom(c, c[p].next)

(* find_min: the first tree with the least root.                           *)
find_min(c, priq) ==
  LET trees == TreesFrom(c, priq)
      i == CHOOSE i \in DOMAIN trees :
             /\ \A j \in 1 .. i - 1 : c[trees[j]].item > c[trees[i]].item
             /\ \A j \in i .. Len(trees) : c[trees[j]].item >= c[trees[i]].item IN
  trees[i]

--------------------------------------------------------------------------------
(* merge.  m has the cells c, the rests p1 and p2 of the two queues, the   *)
(* queue p made so far with its last tree, and the number of comparisons   *)
(* that will succeed before item_cmp returns CMP_ERROR.                    *)

(* Two trees of one height at the front of p1: link them.                  *)
HasMemoryItem(m) ==
  LET next == m.c[m.p1].next IN
  next # 0 /\ m.c[m.p1].height = m.c[next].height

LinkFirstTwo(m) ==
  LET a == m.c[m.p1]
      second == a.next
      b == m.c[second]
      tmp == Len(m.c) + 1 IN
  IF a.item > b.item
  THEN [m EXCEPT !.c = Append([m.c EXCEPT ![m.p1].next = b.son],
                              PriqItem(b.height + 1, b.item, m.p1, b.next)),
                 !.p1 = tmp, !.good = @ - 1]
  ELSE [m EXCEPT !.c = Append([m.c EXCEPT ![m.p1] = PriqItem(a.height + 1, a.item, tmp, b.next)],
                              PriqItem(b.height, b.item, b.son, a.son)),
                 !.good = @ - 1]

(* A copy of the tree q goes to the end of the new queue.                  *)
AppendCopy(m, q) ==
  LET tmp == Len(m.c) + 1
      c == Append(m.c, m.c[q]) IN
  [m EXCEPT !.c = IF m.last = 0 THEN c ELSE [c EXCEPT ![m.last].next = tmp],
            !.p = IF m.last = 0 THEN tmp ELSE @,
            !.last = tmp]

(* Mutant: the tree with the greater root is not copied but becomes the    *)
(* son itself.                                                             *)
LinkEqualInPlace(m) ==
  LET swap == m.c[m.p1].item > m.c[m.p2].item
      q1 == IF swap THEN m.p2 ELSE m.p1
      q2 == IF swap THEN m.p1 ELSE m.p2
      a == m.c[q1]
      root == Len(m.c) + 1 IN
  [m EXCEPT !.c = Append([m.c EXCEPT ![q2].next = a.son], PriqItem(a.height + 1, a.item, q2, a.next)),
            !.p1 = root, !.p2 = m.c[q2].next, !.good = @ - 1]

(* The first trees of p1 and p2 have one height: link copies of them; the  *)
(* new tree stays at the front of p1, to be linked again if need be.       *)
LinkEqual(m) ==
  LET swap == m.c[m.p1].item > m.c[m.p2].item
      q1 == IF swap THEN m.p2 ELSE m.p1
      q2 == IF swap THEN m.p1 ELSE m.p2
      a == m.c[q1]
      b == m.c[q2]
      root == Len(m.c) + 1
      son == root + 1 IN
  [m EXCEPT !.c = @ \o <<PriqItem(a.height + 1, a.item, son, a.next),
                         PriqItem(b.height, b.item, b.son, a.son)>>,
            !.p1 = root, !.p2 = b.next, !.good = @ - 1]

Concluded(m, rest) ==
  [m EXCEPT !.c = IF m.last = 0 THEN @ ELSE [@ EXCEPT ![m.last].next = rest],
            !.p = IF m.last = 0 THEN rest ELSE @]

Failed(m) == [m EXCEPT !.p = 0]


RECURSIVE MergeLoop(_)
MergeLoop(m) ==
  IF m.p1 = 0 THEN Concluded(m, m.p2)
  ELSE IF HasMemoryItem(m) THEN IF m.good = 0 THEN Failed(m) ELSE MergeLoop(LinkFirstTwo(m))
  ELSE IF m.p2 = 0 THEN Concluded(m, m.p1)
  ELSE LET h1 == m.c[m.p1].height
           h2 == m.c[m.p2].height IN
       CASE h1 < h2 -> MergeLoop([AppendCopy(m, m.p1) EXCEPT !.p1 = m.c[m.p1].next])
         [] h1 > h2 -> MergeLoop([AppendCopy(m, m.p2) EXCEPT !.p2 = m.c[m.p2].next])
         [] OTHER   -> IF m.good = 0 THEN Failed(m) ELSE MergeLoop(LinkEqual(m))

Merging(c, pq1, pq2, good) == [c |-> c, p1 |-> pq1, p2 |-> pq2, p |-> 0, last |-> 0, good |-> good]

merge(c, pq1, pq2, good) ==
  IF pq1 = 0 THEN [Merging(c, 0, 0, good) EXCEPT !.p = pq2]
  ELSE IF pq2 = 0 THEN [Merging(c, 0, 0, good) EXCEPT !.p = pq1]
  ELSE MergeLoop(Merging(c, pq1, pq2, good))

(* The result m of merge, or after CMP_ERROR the value failed, with the    *)
(* allocation point restored to ap.                                        *)
Result(m, ap, failed) ==
  IF m.p = 0 THEN [c |-> SubSeq(m.c, 1, ap), p |-> failed, ok |-> FALSE]
  ELSE [c |-> m.c, p |-> m.p, ok |-> TRUE]

priq_insert(c, priq, item, good) ==
  LET new == Len(c) + 1 IN
  Result(merge(Append(c, PriqItem(0, item, 0, 0)), priq, new, good), Len(c), priq)

(* A list of copies of the trees ps, the last one followed by next.        *)
CopyList(c, ps, next) ==
  [c |-> c \o [i \in 1 .. Len(ps) |->
            [c[ps[i]] EXCEPT !.next = IF i < Len(ps) THEN Len(c) + i + 1 ELSE next]],
   p |-> IF ps = <<>> THEN next ELSE Len(c) + 1]

(* priq_delete: copies of the trees before the minimum, which is jumped    *)
(* over, merged with copies of its sons in reverse order.                  *)
priq_delete(c, priq, good) ==
  IF priq = 0 THEN [c |-> c, p |-> 0, ok |-> TRUE]
  ELSE LET min == find_min(c, priq)
           trees == TreesFrom(c, priq)
           before == SubSeq(trees, 1, SelectInSeq(trees, LAMBDA t : t = min) - 1)
           except == CopyList(c, before, c[min].next)
           rest == CopyList(except.c, Reverse(TreesFrom(c, c[min].son)), 0) IN
       IF except.p = 0 /\ rest.p = 0 THEN [c |-> rest.c, p |-> 0, ok |-> TRUE]
       ELSE Result(merge(rest.c, rest.p, except.p, good), Len(c), priq)

priq_merge(c, pq1, pq2, good) ==
  IF pq1 = 0 /\ pq2 = 0 THEN [c |-> c, p |-> 0, ok |-> TRUE]
  ELSE Result(merge(c, pq1, pq2, good), Len(c), 0)
--------------------------------------------------------------------------------
(* The client starts with an empty queue, works on the version it has got  *)
(* last, and keeps all of them.  A comparison may fail at any point.       *)
NoItems == [i \in PriqItems |-> 0]
PriqInit == cells = <<>> /\ versions = <<[root |-> 0, items |-> NoItems]>> /\ merges = 0

Current == Last(versions)

(* The result r is kept if the operation succeeded.                        *)
Keep(r, items) ==
  /\ cells' = r.c
  /\ versions' = IF r.ok THEN Append(versions, [root |-> r.p, items |-> items]) ELSE versions

PriqInsert(item, good) ==
  /\ Keep(priq_insert(cells, Current.root, item, good), [Current.items EXCEPT ![item] = @ + 1])
  /\ UNCHANGED merges

PriqDelete(good) ==
  /\ Current.root # 0
  /\ LET least == cells[find_min(cells, Current.root)].item IN   \* priq_find_min
     Keep(priq_delete(cells, Current.root, good), [Current.items EXCEPT ![least] = @ - 1])
  /\ UNCHANGED merges

PriqMerge(v, good) ==
  /\ merges < MaxPriqMerges
  /\ Keep(priq_merge(cells, Current.root, v.root, good),
          [i \in PriqItems |-> Current.items[i] + v.items[i]])
  /\ merges' = merges + 1

PriqNext ==
  /\ Len(versions) <= MaxPriqOps
  /\ \E good \in 0 .. MaxComparisons :
       \/ \E item \in PriqItems : PriqInsert(item, good)
       \/ PriqDelete(good)
       \/ \E v \in ToSet(versions) : PriqMerge(v, good)
PriqSpec == PriqInit /\ [][PriqNext]_priqVars

--------------------------------------------------------------------------------
(* The items of the trees in a list, and the number of those.              *)
RECURSIVE CountFrom(_, _)
CountFrom(p, i) ==
  IF p = 0 THEN 0
  ELSE (IF cells[p].item = i THEN 1 ELSE 0) + CountFrom(cells[p].son, i) + CountFrom(cells[p].next, i)

(* A binomial tree of height h: its sons have the heights h - 1 down to 0, *)
(* and none of them has a lesser root.                                     *)
RECURSIVE IsBinomial(_)
IsBinomial(p) ==
  LET sons == TreesFrom(cells, cells[p].son) IN
  /\ Len(sons) = cells[p].height
  /\ \A i \in 1 .. Len(sons) :
       /\ cells[sons[i]].height = cells[p].height - i
       /\ cells[sons[i]].item >= cells[p].item
       /\ IsBinomial(sons[i])

(* priq_make_assertions, and what the heights stand for: each version is a *)
(* list of binomial trees in heap order, of strictly increasing heights.   *)
PriqIsBinomialHeap ==
  \A v \in ToSet(versions) :
    LET trees == TreesFrom(cells, v.root) IN
    \A i \in 1 .. Len(trees) :
      /\ IsBinomial(trees[i])
      /\ i > 1 => cells[trees[i - 1]].height < cells[trees[i]].height

(* Every version ever returned still holds its items, however often its    *)
(* cells were shared with later versions, linked, or used by an operation  *)
(* that failed half way; the minimum found is the least of them, and the   *)
(* trees are still a binomial heap.                                        *)
VersionsPersist ==
  /\ PriqIsBinomialHeap
  /\ \A v \in ToSet(versions) :
       /\ \A i \in PriqItems : CountFrom(v.root, i) = v.items[i]
       /\ v.root # 0 => \A i \in PriqItems : v.items[i] > 0 => cells[find_min(cells, v.root)].item <= i
================================================================================
