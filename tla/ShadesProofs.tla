----------------------------- MODULE ShadesProofs ------------------------------
(***************************************************************************)
(* Commits and collections of the storage manager keep the accounts of     *)
(* memory and disk pages, the order of the generations, and what the last  *)
(* commit left on disk, whatever the sizes of memory, disk and             *)
(* generations.                                                            *)
(***************************************************************************)
EXTENDS Shades, Integers, FiniteSetTheorems, WellFoundedInduction, TLAPS

--------------------------------------------------------------------------------
(* The inductive invariant.  Its parts are about a generation table t, a   *)
(* list of generations o and an assignment of pages w, because they hold   *)
(* of the state and of what the last commit promised recovery.             *)

Distinct(s) == \A i, j \in 1 .. Len(s) : s[i] = s[j] => i = j

(* Generations on disk share no page, and a live generation remembers the  *)
(* generations it was collected from, which no other one was.              *)
TableOK(t) ==
  /\ t \in [Gens -> GenInfo]
  /\ \A g \in Gens : Distinct(t[g].page)
  /\ \A g, h \in Gens :
       g # h /\ t[g].status # "NONEXISTENT" /\ t[h].status # "NONEXISTENT"
         => ToSet(t[g].diskPage) \cap ToSet(t[h].diskPage) = {}
  /\ \A g \in Gens : t[g].status \in Live =>
       \A h \in t[g].from : t[h].status = "COLLECTED_ONCE"
  /\ \A g, h \in Gens :
       g # h /\ t[g].status \in Live /\ t[h].status \in Live => t[g].from \cap t[h].from = {}

(* The pages of live generations.                                          *)
OwnerOK(t, w) ==
  /\ w \in [Pages -> Gens \cup {NoGen}]
  /\ \A p \in Pages, g \in Gens :
       w[p] = g <=> t[g].status \in Live /\ p \in ToSet(t[g].page)

(* Exactly the live generations are listed, those to be collected last.    *)
OrderOK(t, o) ==
  /\ o \in Seq(Gens)
  /\ ToSet(o) = {g \in Gens : t[g].status \in Live}
  /\ Distinct(o)
  /\ \A i, j \in 1 .. Len(o) :
       i < j /\ t[o[i]].status = "TO_BE_COLLECTED" => t[o[j]].status = "TO_BE_COLLECTED"

(* The collector is busy while something is left, and stands before it.    *)
CollectorOK(t, o, p, busy) ==
  /\ busy \in BOOLEAN
  /\ busy <=> \E g \in Gens : t[g].status = "TO_BE_COLLECTED"
  /\ p \in Gens \cup {NoGen}
  /\ p # NoGen => \E i \in 1 .. Len(o) - 1 :
       /\ o[i] = p
       /\ t[o[i]].status = "NORMAL"
       /\ t[o[i + 1]].status = "TO_BE_COLLECTED"

(* The free list and its length.                                           *)
FreeOK ==
  /\ freePages \in Seq(Pages)
  /\ Distinct(freePages)
  /\ ToSet(freePages) = {p \in Pages : owner[p] = NoGen}
  /\ nfree = Len(freePages)

(* The allocation of disk pages and of generation numbers.                 *)
DiskOK ==
  /\ \A d \in DiskPages :
       diskStatus[d] = "ALLOCATED" <=> \E g \in Existing : d \in ToSet(gen[g].diskPage)
  /\ \A d \in DiskPages : diskStatus[d] # "UNKNOWN"
NumbersOK ==
  /\ ngens \in 1 .. MaxGenerations
  /\ \A g \in Gens : gen[g].status # "NONEXISTENT" => g < ngens

(* Pages being written belong to live generations, and are none when a     *)
(* step of the collector may change pages.                                 *)
WritesOK ==
  /\ unstable \subseteq Pages
  /\ \A p \in unstable : owner[p] # NoGen
  /\ phase \in {"step", "committed"} => unstable = {}
  /\ phase = "major" /\ ~stepped => unstable = {}

(* An announced collection has not started.                                *)
PhaseOK ==
  /\ wasStarted => prevTo = NoGen /\ phase \in {"mutator", "collected", "committed"}
  /\ phase = "step" => isCollecting /\ stepped
  /\ phase # "mutator" => order # <<>>

(* Of the generations collected at most once at the last commit, the disk  *)
(* pages are allocated; they are what recovery is promised.                *)
CoreOK ==
  \A x \in snap.core :
    /\ diskStatus[x[1]] = "ALLOCATED"
    /\ phase = "committed" =>
         \E g \in Existing \ Twice : x[1] \in ToSet(gen[g].diskPage)

RunningOK ==
  /\ TableOK(gen) /\ OwnerOK(gen, owner) /\ OrderOK(gen, order)
  /\ CollectorOK(gen, order, prevTo, isCollecting)
  /\ FreeOK /\ DiskOK /\ NumbersOK /\ WritesOK /\ PhaseOK
  /\ snap.exists => CoreOK

(* What is promised to recovery is a state with the same invariants.       *)
SnapOK ==
  /\ snap.order # <<>>
  /\ TableOK(snap.gen) /\ OwnerOK(snap.gen, snap.owner) /\ OrderOK(snap.gen, snap.order)
  /\ CollectorOK(snap.gen, snap.order, snap.prevTo, snap.isCollecting)
  /\ \A x \in snap.core :
       /\ x[1] \in DiskPages /\ disk[x[1]] = x[2]
       /\ \E g \in Gens : /\ snap.gen[g].status # "NONEXISTENT"
                          /\ x[1] \in ToSet(snap.gen[g].diskPage)

Recovering == phase \in {"rvy_batch", "rvy_return", "recovered"}

Inv ==
  /\ Running \/ Recovering
  /\ stepped \in BOOLEAN /\ wasStarted \in BOOLEAN
  /\ gnCursor \in Nat /\ diskCursor \in DiskPages
  /\ diskStatus \in [DiskPages -> {"FREE", "ALLOCATED", "UNKNOWN"}]
  /\ DOMAIN disk = DiskPages
  /\ Running => RunningOK
  /\ Recovering => unstable = {} /\ ~wasStarted /\ ~stepped /\ snap.exists
  /\ root.exists => snap.exists
  /\ snap.exists => SnapOK

--------------------------------------------------------------------------------
(* Numbers.                                                                *)

LEMMA SmallestNumber ==
  ASSUME NEW ns \in SUBSET Nat, ns # {}
  PROVE  \E n \in ns : \A m \in ns : n <= m
<1>1. PICK n \in ns : \A m \in ns : ~(<<m, n>> \in OpToRel(<, Nat))
  BY NatLessThanWellFounded, WFMin
<1>2. \A m \in ns : ~(m < n)
  BY <1>1 DEF OpToRel
<1>3. QED
  BY <1>2

LEMMA LargestNumber ==
  ASSUME NEW ns \in SUBSET Nat, ns # {}, NEW top \in Nat, \A n \in ns : n <= top
  PROVE  Max(ns) \in ns /\ \A m \in ns : m <= Max(ns)
<1> DEFINE above == {u \in Nat : \A n \in ns : n <= u}
<1>1. PICK u \in above : \A v \in above : u <= v
  <2>1. top \in above
    OBVIOUS
  <2>2. QED
    BY <2>1, SmallestNumber
<1>2. u \in ns
  <2>1. SUFFICES ASSUME u \notin ns PROVE FALSE
    OBVIOUS
  <2>2. PICK n \in ns : TRUE
    OBVIOUS
  <2>3. \A m \in ns : m < u
    BY <1>1, <2>1
  <2>4. u - 1 \in above
    BY <1>1, <2>2, <2>3
  <2>5. QED
    BY <1>1, <2>4
<1>3. \E x \in ns : \A y \in ns : x >= y
  BY <1>1, <1>2
<1>4. QED
  BY <1>3 DEF Max

(* A member of a finite set with a given number of members below it, where *)
(* below is by the distinct numbers key gives them.                        *)
LEMMA RankExists ==
  ASSUME NEW S, IsFiniteSet(S), NEW key \in [S -> Nat],
         \A x, y \in S : key[x] = key[y] => x = y,
         NEW k \in 1 .. Cardinality(S)
  PROVE  \E x \in S : Cardinality({y \in S : key[y] < key[x]}) = k - 1
<1> DEFINE below(x) == {y \in S : key[y] < key[x]}
           missed == {m \in 1 .. Cardinality(S) : \A x \in S : Cardinality(below(x)) # m - 1}
<1>0. Cardinality(S) \in Nat
  BY FS_CardinalityType
<1>1. SUFFICES ASSUME missed # {} PROVE FALSE
  OBVIOUS
<1>2. PICK m \in missed : \A l \in missed : m <= l
  <2>1. missed \in SUBSET Nat
    BY <1>0
  <2>2. QED
    BY <1>1, <2>1, SmallestNumber
<1>3. \A rest \in SUBSET S : rest # {} => \E x \in rest : \A y \in rest : key[x] <= key[y]
  <2>1. SUFFICES ASSUME NEW rest \in SUBSET S, rest # {}
                 PROVE  \E x \in rest : \A y \in rest : key[x] <= key[y]
    OBVIOUS
  <2> DEFINE ks == {key[x] : x \in rest}
  <2>2. PICK n \in ks : \A l \in ks : n <= l
    <3>1. ks \in SUBSET Nat /\ ks # {}
      BY <2>1
    <3>2. QED
      BY <3>1, SmallestNumber
  <2>3. QED
    BY <2>2
<1>4. CASE m = 1
  <2>1. S # {}
    BY <1>0, <1>2, FS_EmptySet
  <2>2. PICK x \in S : \A y \in S : key[x] <= key[y]
    BY <2>1, <1>3
  <2>3. below(x) = {}
    BY <2>2
  <2>4. QED
    BY <1>2, <1>4, <2>3, FS_EmptySet
<1>5. CASE m > 1
  <2>1. m - 1 \in 1 .. Cardinality(S) /\ m - 1 \notin missed
    BY <1>0, <1>2, <1>5
  <2>2. PICK x \in S : Cardinality(below(x)) = m - 2
    <3>1. PICK x \in S : Cardinality(below(x)) = (m - 1) - 1
      BY <2>1
    <3>2. (m - 1) - 1 = m - 2
      BY <1>0, <1>2
    <3>3. QED
      BY <3>1, <3>2
  <2> DEFINE upto == below(x) \cup {x}
             rest == S \ upto
  <2>3. IsFiniteSet(below(x)) /\ x \notin below(x)
    BY FS_Subset
  <2>4. IsFiniteSet(upto) /\ Cardinality(upto) = m - 1
    <3>1. Cardinality(upto) = Cardinality(below(x)) + 1 /\ IsFiniteSet(upto)
      BY <2>3, FS_AddElement
    <3>2. m \in Nat
      BY <1>0, <1>2
    <3> HIDE DEF below, upto
    <3>3. QED
      BY <3>1, <3>2, <2>2
  <2>5. rest # {}
    <3>1. upto \in SUBSET S
      OBVIOUS
    <3>2. SUFFICES ASSUME rest = {} PROVE FALSE
      OBVIOUS
    <3>3. upto = S
      BY <3>1, <3>2
    <3>4. QED
      BY <1>0, <1>2, <2>4, <3>3
  <2>6. PICK z \in rest : \A y \in rest : key[z] <= key[y]
    BY <2>5, <1>3
  <2>7. below(z) = upto
    <3>1. ASSUME NEW y \in S PROVE y \in below(z) <=> y \in upto
      <4>1. key[y] \in Nat /\ key[z] \in Nat /\ key[x] \in Nat
        OBVIOUS
      <4>2. y \in rest => key[z] <= key[y]
        BY <2>6
      <4>3. z \in S /\ ~(key[z] < key[x]) /\ key[z] # key[x]
        BY <2>6
      <4>4. y \in upto <=> key[y] <= key[x]
        BY <4>1
      <4>5. QED
        BY <4>1, <4>2, <4>3, <4>4
    <3>2. QED
      BY <3>1
  <2>8. QED
    BY <1>2, <2>4, <2>6, <2>7
<1>6. QED
  BY <1>0, <1>2, <1>4, <1>5

--------------------------------------------------------------------------------
(* Sequences without repetitions.                                          *)

LEMMA Members ==
  ASSUME NEW S, NEW s \in Seq(S)
  PROVE  /\ Len(s) \in Nat /\ DOMAIN s = 1 .. Len(s)
         /\ ToSet(s) = {s[i] : i \in 1 .. Len(s)}
         /\ ToSet(s) \subseteq S
         /\ \A i \in 1 .. Len(s) : s[i] \in ToSet(s)
BY DEF ToSet

LEMMA DistinctCount ==
  ASSUME NEW S, NEW s \in Seq(S), Distinct(s)
  PROVE  IsFiniteSet(ToSet(s)) /\ Cardinality(ToSet(s)) = Len(s)
<1>1. Len(s) \in Nat /\ IsFiniteSet(1 .. Len(s)) /\ Cardinality(1 .. Len(s)) = Len(s)
  <2>1. Len(s) \in Nat /\ 1 \in Int /\ Len(s) \in Int
    OBVIOUS
  <2>2. IsFiniteSet(1 .. Len(s)) /\ Cardinality(1 .. Len(s)) = IF 1 > Len(s) THEN 0 ELSE Len(s) - 1 + 1
    BY <2>1, FS_Interval
  <2>3. QED
    BY <2>1, <2>2
<1>2. s \in Bijection(1 .. Len(s), ToSet(s))
  BY Members DEF Bijection, Injection, Surjection, IsInjective, Distinct, ToSet
<1>3. QED
  BY <1>1, <1>2, FS_Bijection DEF ExistsBijection

LEMMA Joined ==
  ASSUME NEW S, NEW s \in Seq(S), NEW t \in Seq(S)
  PROVE  /\ s \o t \in Seq(S)
         /\ ToSet(s \o t) = ToSet(s) \cup ToSet(t)
         /\ Distinct(s) /\ Distinct(t) /\ ToSet(s) \cap ToSet(t) = {} => Distinct(s \o t)
<1> DEFINE u == s \o t
<1>1. /\ u \in Seq(S) /\ Len(u) = Len(s) + Len(t)
      /\ Len(s) \in Nat /\ Len(t) \in Nat
      /\ \A i \in 1 .. Len(u) : u[i] = IF i <= Len(s) THEN s[i] ELSE t[i - Len(s)]
  OBVIOUS
<1> HIDE DEF u
<1>2. ToSet(u) = ToSet(s) \cup ToSet(t)
  <2>1. ASSUME NEW i \in 1 .. Len(u) PROVE u[i] \in ToSet(s) \cup ToSet(t)
    <3>1. CASE i <= Len(s)
      BY <1>1, <3>1, Members
    <3>2. CASE i > Len(s)
      <4>1. i - Len(s) \in 1 .. Len(t) /\ u[i] = t[i - Len(s)]
        BY <1>1, <3>2
      <4>2. QED
        BY <4>1, Members
    <3>3. QED
      BY <1>1, <3>1, <3>2
  <2>2. ASSUME NEW i \in 1 .. Len(s) PROVE s[i] \in ToSet(u)
    <3>1. i \in 1 .. Len(u) /\ u[i] = s[i]
      BY <1>1
    <3>2. QED
      BY <1>1, <3>1, Members
  <2>3. ASSUME NEW i \in 1 .. Len(t) PROVE t[i] \in ToSet(u)
    <3>0. /\ i + Len(s) \in 1 .. Len(u) /\ ~(i + Len(s) <= Len(s))
          /\ (i + Len(s)) - Len(s) = i
      BY <1>1
    <3>1. i + Len(s) \in 1 .. Len(u) /\ u[i + Len(s)] = t[i]
      BY <1>1, <3>0
    <3>2. QED
      BY <1>1, <3>1, Members
  <2>4. ToSet(u) = {u[i] : i \in 1 .. Len(u)} /\ ToSet(s) = {s[i] : i \in 1 .. Len(s)}
        /\ ToSet(t) = {t[i] : i \in 1 .. Len(t)}
    BY <1>1, Members
  <2>5. QED
    BY <2>1, <2>2, <2>3, <2>4
<1>3. ASSUME Distinct(s), Distinct(t), ToSet(s) \cap ToSet(t) = {} PROVE Distinct(u)
  <2>1. SUFFICES ASSUME NEW i \in 1 .. Len(u), NEW j \in 1 .. Len(u), u[i] = u[j], i < j
                 PROVE  FALSE
    BY <1>1 DEF Distinct
  <2>2. CASE j <= Len(s)
    BY <1>1, <1>3, <2>1, <2>2 DEF Distinct
  <2>3. CASE i <= Len(s) /\ j > Len(s)
    <3>1. u[i] \in ToSet(s)
      BY <1>1, <2>3, Members
    <3>2. j - Len(s) \in 1 .. Len(t) /\ u[j] = t[j - Len(s)]
      BY <1>1, <2>3
    <3>3. u[j] \in ToSet(t)
      BY <3>2, Members
    <3>4. QED
      BY <1>3, <2>1, <3>1, <3>3
  <2>4. CASE i > Len(s)
    <3>1. i - Len(s) \in 1 .. Len(t) /\ j - Len(s) \in 1 .. Len(t)
      BY <1>1, <2>1, <2>4
    <3>2. t[i - Len(s)] = t[j - Len(s)]
      BY <1>1, <2>1, <2>4
    <3>3. i - Len(s) = j - Len(s)
      BY <1>3, <3>1, <3>2 DEF Distinct
    <3>4. QED
      BY <1>1, <2>1, <3>3
  <2>5. QED
    BY <1>1, <2>1, <2>2, <2>3, <2>4
<1>4. QED
  BY <1>1, <1>2, <1>3 DEF u

LEMMA Single ==
  ASSUME NEW S, NEW x \in S
  PROVE  <<x>> \in Seq(S) /\ ToSet(<<x>>) = {x} /\ Distinct(<<x>>)
BY DEF ToSet, Distinct

(* A sequence cut in two after n elements.                                 *)
LEMMA Cut ==
  ASSUME NEW S, NEW s \in Seq(S), NEW n \in 0 .. Len(s)
  PROVE  LET a == SubSeq(s, 1, n)
             b == SubSeq(s, n + 1, Len(s)) IN
         /\ a \in Seq(S) /\ Len(a) = n /\ \A i \in 1 .. n : a[i] = s[i]
         /\ b \in Seq(S) /\ Len(b) = Len(s) - n /\ \A i \in 1 .. Len(s) - n : b[i] = s[n + i]
         /\ ToSet(a) = {s[i] : i \in 1 .. n}
         /\ ToSet(b) = {s[i] : i \in n + 1 .. Len(s)}
         /\ ToSet(a) \cup ToSet(b) = ToSet(s)
         /\ Distinct(s) => Distinct(a) /\ Distinct(b) /\ ToSet(a) \cap ToSet(b) = {}
<1> DEFINE a == SubSeq(s, 1, n)
           b == SubSeq(s, n + 1, Len(s))
<1>1. Len(s) \in Nat /\ n \in Nat /\ n <= Len(s)
  OBVIOUS
<1>2. a \in Seq(S) /\ Len(a) = n /\ \A i \in 1 .. n : a[i] = s[i]
  BY <1>1
<1>3. b \in Seq(S) /\ Len(b) = Len(s) - n /\ \A i \in 1 .. Len(s) - n : b[i] = s[n + i]
  BY <1>1
<1> HIDE DEF a, b
<1>4. ToSet(a) = {s[i] : i \in 1 .. n}
  BY <1>2, Members, SMTT(40)
<1>5. ToSet(b) = {s[i] : i \in n + 1 .. Len(s)}
  <2>1. ToSet(b) = {b[i] : i \in 1 .. Len(s) - n}
    BY <1>3, Members
  <2>2. ASSUME NEW i \in n + 1 .. Len(s) PROVE i - n \in 1 .. Len(s) - n /\ b[i - n] = s[i]
    BY <1>1, <1>3
  <2>3. ASSUME NEW i \in 1 .. Len(s) - n PROVE n + i \in n + 1 .. Len(s) /\ b[i] = s[n + i]
    BY <1>1, <1>3
  <2>4. QED
    BY <2>1, <2>2, <2>3
<1>6. ToSet(a) \cup ToSet(b) = ToSet(s)
  <2>1. ToSet(s) = {s[i] : i \in 1 .. Len(s)}
    BY Members
  <2>2. \A i : i \in 1 .. Len(s) <=> i \in 1 .. n \/ i \in n + 1 .. Len(s)
    BY <1>1
  <2>3. QED
    BY <1>4, <1>5, <2>1, <2>2
<1>7. ASSUME Distinct(s) PROVE Distinct(a) /\ Distinct(b) /\ ToSet(a) \cap ToSet(b) = {}
  <2>1. Distinct(a)
    BY <1>1, <1>2, <1>7 DEF Distinct
  <2>2. Distinct(b)
    <3>1. SUFFICES ASSUME NEW i \in 1 .. Len(b), NEW j \in 1 .. Len(b), b[i] = b[j] PROVE i = j
      BY DEF Distinct
    <3>2. i \in Nat /\ j \in Nat /\ n + i \in 1 .. Len(s) /\ n + j \in 1 .. Len(s) /\ s[n + i] = s[n + j]
      BY <1>1, <1>3, <3>1
    <3>3. n + i = n + j
      BY <1>7, <3>2 DEF Distinct
    <3>4. QED
      BY <1>1, <3>2, <3>3
  <2>3. ToSet(a) \cap ToSet(b) = {}
    <3>1. SUFFICES ASSUME NEW i \in 1 .. n, NEW j \in n + 1 .. Len(s), s[i] = s[j] PROVE FALSE
      BY <1>4, <1>5
    <3>2. i \in 1 .. Len(s) /\ j \in 1 .. Len(s) /\ i # j
      BY <1>1
    <3>3. QED
      BY <1>7, <3>1, <3>2 DEF Distinct
  <2>4. QED
    BY <2>1, <2>2, <2>3
<1>8. QED
  BY <1>2, <1>3, <1>4, <1>5, <1>6, <1>7 DEF a, b

LEMMA CutBack ==
  ASSUME NEW S, NEW s \in Seq(S), Distinct(s), NEW n \in 0 .. Len(s)
  PROVE  LET b == SubSeq(s, n + 1, Len(s)) IN
         /\ b \in Seq(S) /\ Len(b) = Len(s) - n /\ \A i \in 1 .. Len(s) - n : b[i] = s[n + i]
         /\ ToSet(b) = {s[i] : i \in n + 1 .. Len(s)} /\ Distinct(b) /\ ToSet(b) \subseteq ToSet(s)
<1> DEFINE a == SubSeq(s, 1, n)
           c == SubSeq(s, n + 1, Len(s))
<1>1. /\ c \in Seq(S) /\ Len(c) = Len(s) - n /\ \A i \in 1 .. Len(s) - n : c[i] = s[n + i]
      /\ ToSet(c) = {s[i] : i \in n + 1 .. Len(s)}
      /\ ToSet(a) \cup ToSet(c) = ToSet(s)
      /\ Distinct(s) => Distinct(c)
  BY Cut
<1> HIDE DEF a, c
<1>2. Distinct(c) /\ ToSet(c) \subseteq ToSet(s)
  BY <1>1
<1>3. QED
  BY ONLY <1>1, <1>2 DEF c

LEMMA Reversed ==
  ASSUME NEW S, NEW s \in Seq(S)
  PROVE  /\ Reverse(s) \in Seq(S) /\ Len(Reverse(s)) = Len(s)
         /\ ToSet(Reverse(s)) = ToSet(s)
         /\ Distinct(s) => Distinct(Reverse(s))
<1> DEFINE n == Len(s)
           r == Reverse(s)
<1>1. n \in Nat /\ \A i \in 1 .. n : (n - i) + 1 \in 1 .. n /\ s[i] \in S
  OBVIOUS
<1>2. r = [i \in 1 .. n |-> s[(n - i) + 1]]
  BY DEF Reverse
<1>3. r \in Seq(S) /\ Len(r) = n
  <2> HIDE DEF r
  <2>1. r \in [1 .. n -> S]
    BY <1>1, <1>2
  <2>2. QED
    BY <1>1, <2>1
<1>4. ToSet(s) = {s[i] : i \in 1 .. n} /\ ToSet(r) = {r[i] : i \in 1 .. n}
  BY <1>3, Members
<1> HIDE DEF r, n
<1>5. ToSet(r) = ToSet(s)
  <2>1. ASSUME NEW i \in 1 .. n PROVE \E j \in 1 .. n : s[i] = r[j]
    <3>1. (n - i) + 1 \in 1 .. n /\ (n - ((n - i) + 1)) + 1 = i
      BY <1>1
    <3>2. QED
      BY <1>2, <3>1
  <2>2. ASSUME NEW i \in 1 .. n PROVE \E j \in 1 .. n : r[i] = s[j]
    <3>1. (n - i) + 1 \in 1 .. n
      BY <1>1
    <3>2. QED
      BY <1>2, <3>1
  <2>3. QED
    BY <1>4, <2>1, <2>2, ZenonT(60)
<1>6. ASSUME Distinct(s) PROVE Distinct(r)
  <2>1. SUFFICES ASSUME NEW i \in 1 .. n, NEW j \in 1 .. n, r[i] = r[j] PROVE i = j
    BY <1>3 DEF Distinct
  <2>2. s[(n - i) + 1] = s[(n - j) + 1]
    BY <1>2, <2>1
  <2>3. (n - i) + 1 = (n - j) + 1
    BY <1>1, <1>6, <2>2 DEF Distinct, n
  <2>4. QED
    BY <1>1, <2>3
<1>7. QED
  BY <1>3, <1>5, <1>6 DEF r, n

(* FlattenSeq joins sequences: its recursive function exists, and gives    *)
(* for every prefix of ss the members of its sequences, each once when     *)
(* they are without repetitions and share nothing.                         *)
LEMMA FlattenExists ==
  ASSUME NEW ss, Len(ss) \in Nat, NEW n \in Nat, n <= Len(ss)
  PROVE  \E f : f = [i \in 1 .. n |-> IF i = 1 THEN ss[i] ELSE f[i - 1] \o ss[i]]
<1> DEFINE Fits(f, m) == f = [i \in 1 .. m |-> IF i = 1 THEN ss[i] ELSE f[i - 1] \o ss[i]]
           bad == {m \in Nat : ~ \E f : Fits(f, m)}
<1>1. SUFFICES ASSUME bad # {} PROVE FALSE
  OBVIOUS
<1>2. PICK m \in bad : \A l \in bad : m <= l
  BY <1>1, SmallestNumber
<1>3. CASE m = 0
  <2> DEFINE f == [i \in {} |-> 0]
  <2>1. Fits(f, 0)
    OBVIOUS
  <2>2. QED
    BY <1>2, <1>3, <2>1
<1>4. CASE m > 0
  <2>1. m - 1 \in Nat /\ m - 1 \notin bad
    <3>1. m \in Nat
      BY <1>2
    <3> HIDE DEF bad
    <3>2. QED
      BY <1>2, <1>4, <3>1
  <2>2. PICK f : Fits(f, m - 1)
    BY <2>1
  <2> DEFINE e == [i \in 1 .. m |-> IF i < m THEN f[i]
                                     ELSE IF i = 1 THEN ss[i] ELSE f[i - 1] \o ss[i]]
             r == [i \in 1 .. m |-> IF i = 1 THEN ss[i] ELSE e[i - 1] \o ss[i]]
  <2>3. ASSUME NEW i \in 1 .. m PROVE e[i] = r[i]
    <3>1. CASE i = m
      <4>1. CASE i = 1
        BY <3>1, <4>1, SMTT(40)
      <4>2. CASE i # 1
        <5>1. i - 1 \in 1 .. m /\ i - 1 < m
          BY <4>2
        <5>2. e[i - 1] = f[i - 1]
          BY <5>1
        <5>3. e[i] = f[i - 1] \o ss[i]
          <6>1. ~(i < m) /\ i # 1
            BY <3>1, <4>2
          <6>2. QED
            BY <6>1
        <5>4. r[i] = e[i - 1] \o ss[i]
          BY <4>2
        <5>5. QED
          BY <5>2, <5>3, <5>4
      <4>3. QED
        BY <4>1, <4>2
    <3>2. CASE i # m
      <4>1. i < m /\ i \in 1 .. m - 1
        BY <3>2
      <4>2. e[i] = f[i] /\ f[i] = IF i = 1 THEN ss[i] ELSE f[i - 1] \o ss[i]
        BY <2>2, <4>1
      <4>3. CASE i = 1
        BY <4>2, <4>3
      <4>4. CASE i # 1
        <5>1. i - 1 \in 1 .. m /\ i - 1 < m
          BY <4>1, <4>4
        <5>2. e[i - 1] = f[i - 1]
          BY <5>1
        <5>3. QED
          BY <4>2, <4>4, <5>2
      <4>5. QED
        BY <4>3, <4>4
    <3>3. QED
      BY <3>1, <3>2
  <2>4. Fits(e, m)
    BY <2>3, ZenonT(60)
  <2>5. QED
    BY <1>2, <2>4
<1>5. QED
  BY <1>2, <1>3, <1>4

LEMMA Flattened ==
  ASSUME NEW S, NEW ss \in Seq(Seq(S))
  PROVE  /\ FlattenSeq(ss) \in Seq(S)
         /\ ToSet(FlattenSeq(ss)) = UNION {ToSet(ss[i]) : i \in 1 .. Len(ss)}
         /\ /\ \A i \in 1 .. Len(ss) : Distinct(ss[i])
            /\ \A i, j \in 1 .. Len(ss) : i # j => ToSet(ss[i]) \cap ToSet(ss[j]) = {}
            => Distinct(FlattenSeq(ss))
<1>1. Len(ss) \in Nat
  OBVIOUS
<1>0. \A i \in 1 .. Len(ss) : ss[i] \in Seq(S)
  OBVIOUS
<1>2. CASE Len(ss) = 0
  <2>1. ss = <<>> /\ FlattenSeq(ss) = ss
    BY <1>2 DEF FlattenSeq
  <2>2. ToSet(ss) = {} /\ Distinct(ss) /\ ss \in Seq(S)
    BY <2>1 DEF ToSet, Distinct
  <2>3. {ToSet(ss[i]) : i \in 1 .. Len(ss)} = {}
    BY <1>2
  <2>4. QED
    BY <2>1, <2>2, <2>3
<1>3. CASE Len(ss) > 0
  <2> DEFINE Fits(h) == h = [i \in 1 .. Len(ss) |-> IF i = 1 THEN ss[i] ELSE h[i - 1] \o ss[i]]
             f == CHOOSE h : Fits(h)
             disjoint == /\ \A i \in 1 .. Len(ss) : Distinct(ss[i])
                         /\ \A i, j \in 1 .. Len(ss) : i # j => ToSet(ss[i]) \cap ToSet(ss[j]) = {}
             Right(i) == /\ f[i] \in Seq(S)
                         /\ ToSet(f[i]) = UNION {ToSet(ss[j]) : j \in 1 .. i}
                         /\ disjoint => Distinct(f[i])
  <2>1. FlattenSeq(ss) = f[Len(ss)]
    BY <1>1, <1>3, SMTT(40) DEF FlattenSeq
  <2>2. Fits(f)
    <3>1. Len(ss) <= Len(ss)
      BY <1>1
    <3>2. \E h : Fits(h)
      BY <1>1, <3>1, FlattenExists
    <3>3. QED
      BY <3>2
  <2>3. \A i \in 1 .. Len(ss) : f[i] = IF i = 1 THEN ss[i] ELSE f[i - 1] \o ss[i]
    BY <2>2
  <2> HIDE DEF f, Fits
  <2> DEFINE bad == {i \in 1 .. Len(ss) : ~Right(i)}
  <2>4. SUFFICES ASSUME bad # {} PROVE FALSE
    <3>1. Len(ss) \in 1 .. Len(ss)
      BY <1>1, <1>3
    <3>2. bad = {} => Right(Len(ss))
      <4> HIDE DEF Right
      <4>1. QED
        BY <3>1
    <3>3. QED
      BY <2>1, <3>2
  <2>5. PICK i \in bad : \A l \in bad : i <= l
    <3>1. bad \in SUBSET Nat
      BY <1>1
    <3>2. QED
      BY <2>4, <3>1, SmallestNumber
  <2>6. CASE i = 1
    <3>0. 1 \in 1 .. Len(ss)
      BY <1>1, <1>3
    <3>1. f[1] = ss[1] /\ ss[1] \in Seq(S)
      <4>1. f[1] = ss[1]
        BY <2>3, <3>0
      <4>2. QED
        BY <1>0, <3>0, <4>1
    <3>2. 1 .. 1 = {1}
      OBVIOUS
    <3>3. ToSet(f[1]) = UNION {ToSet(ss[j]) : j \in 1 .. 1}
      BY <3>1, <3>2
    <3>4. Right(1)
      BY <3>0, <3>1, <3>3
    <3>5. QED
      BY <2>5, <2>6, <3>4
  <2>7. CASE i > 1
    <3>1. i - 1 \in 1 .. Len(ss) /\ i - 1 \notin bad /\ i \in 1 .. Len(ss)
      <4>1. i \in 1 .. Len(ss)
        BY <2>5
      <4> HIDE DEF bad
      <4>2. QED
        BY <1>1, <2>5, <2>7, <4>1
    <3>2. PICK h : h = i - 1
      OBVIOUS
    <3>3. Right(h) /\ f[i] = f[h] \o ss[i] /\ ss[i] \in Seq(S) /\ h \in Nat /\ i = h + 1
      <4>1. h \in 1 .. Len(ss) /\ h \notin bad /\ h \in Nat /\ i = h + 1
        <5> HIDE DEF bad
        <5>1. QED
          BY <1>1, <3>1, <3>2
      <4>2. Right(h)
        <5> HIDE DEF Right
        <5>1. QED
          BY <4>1
      <4>3. f[i] = f[h] \o ss[i] /\ ss[i] \in Seq(S)
        <5>1. i # 1
          BY <2>7
        <5>2. QED
          BY <1>0, <2>3, <3>1, <3>2, <5>1
      <4> HIDE DEF Right
      <4>4. QED
        BY <4>1, <4>2, <4>3
    <3>4. /\ f[i] \in Seq(S) /\ ToSet(f[i]) = ToSet(f[h]) \cup ToSet(ss[i])
          /\ Distinct(f[h]) /\ Distinct(ss[i]) /\ ToSet(f[h]) \cap ToSet(ss[i]) = {}
               => Distinct(f[i])
      BY <3>3, Joined, SMTT(40)
    <3>5. \A j : j \in 1 .. i <=> j \in 1 .. h \/ j = i
      BY <3>3
    <3>6. ToSet(f[i]) = UNION {ToSet(ss[j]) : j \in 1 .. i}
      BY <3>3, <3>4, <3>5
    <3>7. ASSUME disjoint PROVE Distinct(f[i])
      <4>1. ASSUME NEW j \in 1 .. h PROVE ToSet(ss[j]) \cap ToSet(ss[i]) = {}
        <5>1. j \in 1 .. Len(ss) /\ j # i
          <6>1. h \in Nat /\ i = h + 1 /\ i <= Len(ss)
            BY <3>1, <3>3
          <6>2. QED
            BY <1>1, <6>1
        <5>2. QED
          BY <3>1, <3>7, <5>1
      <4>2. ToSet(f[h]) \cap ToSet(ss[i]) = {}
        BY <3>3, <4>1
      <4>3. QED
        BY <3>1, <3>3, <3>4, <3>7, <4>2
    <3>8. QED
      BY <2>5, <3>4, <3>6, <3>7
  <2>8. QED
    BY <1>1, <2>5, <2>6, <2>7
<1>4. Len(ss) = 0 \/ Len(ss) > 0
  BY <1>1
<1>5. QED
  BY <1>2, <1>3, <1>4

--------------------------------------------------------------------------------
(* What the operations allocate.                                           *)

LEMMA ModCircle ==
  ASSUME NEW n \in Nat, n > 0, NEW c \in 0 .. n - 1, NEW d \in 0 .. n - 1
  PROVE  (d + n - c) % n = IF d < c THEN d + n - c ELSE d - c
<1>1. CASE d < c
  <2>1. d + n - c \in 0 .. n - 1
    BY <1>1
  <2>2. QED
    BY <1>1, <2>1
<1>2. CASE d >= c
  <2>1. d - c \in 0 .. n - 1 /\ d + n - c = (d - c) + n
    BY <1>2
  <2>2. ((d - c) + n) % n = d - c
    BY <2>1
  <2>3. QED
    BY <1>2, <2>1, <2>2
<1>3. QED
  BY <1>1, <1>2

LEMMA PutFunction ==
  ASSUME NEW f, NEW s, NEW values
  PROVE  /\ Put(f, s, values) = [x \in DOMAIN f |-> Put(f, s, values)[x]]
         /\ DOMAIN Put(f, s, values) = DOMAIN f
         /\ \A x \in DOMAIN f : x \notin ToSet(s) => Put(f, s, values)[x] = f[x]
BY DEF Put, ToSet

LEMMA PutSame ==
  ASSUME NEW f, NEW n \in Nat, NEW s, DOMAIN s = 1 .. n, NEW v,
         NEW x \in DOMAIN f, x \in ToSet(s)
  PROVE  Put(f, s, [i \in 1 .. n |-> v])[x] = v
<1>1. \E i \in DOMAIN s : s[i] = x
  BY DEF ToSet
<1>2. (CHOOSE i \in DOMAIN s : s[i] = x) \in 1 .. n
  BY <1>1
<1>3. QED
  BY <1>1, <1>2 DEF Put

(* io_write_page finds free disk pages.                                    *)
LEMMA NewDiskPagesFree ==
  ASSUME Inv, NEW n \in Nat, DiskHasRoomFor(n)
  PROVE  /\ NewDiskPages(n) \in Seq(DiskPages) /\ DOMAIN NewDiskPages(n) = 1 .. n
         /\ n > 0 => NewDiskPages(n)[n] \in DiskPages
         /\ ToSet(NewDiskPages(n)) \subseteq FreeDisk
<1> DEFINE N == NumberOfDiskPages
           key == [d \in FreeDisk |-> Distance(d)]
<1>1. N \in Nat /\ N > 0 /\ diskCursor \in 0 .. N - 1 /\ FreeDisk \subseteq 0 .. N - 1
      /\ FreeDisk \subseteq DiskPages
  BY PagesAssumption DEF Inv, DiskPages, FreeDisk
<1>2. \A d \in FreeDisk : Distance(d) = IF d < diskCursor THEN d + N - diskCursor
                                        ELSE d - diskCursor
  <2>1. TAKE d \in FreeDisk
  <2>2. d \in 0 .. N - 1
    BY <1>1
  <2>3. Distance(d) = (d + N - diskCursor) % N
    BY DEF Distance
  <2> HIDE DEF N
  <2>4. QED
    BY <1>1, <2>2, <2>3, ModCircle
<1>3. key \in [FreeDisk -> Nat] /\ \A x, y \in FreeDisk : key[x] = key[y] => x = y
  <2> HIDE DEF N
  <2>1. \A d \in FreeDisk : Distance(d) \in Nat
    BY <1>1, <1>2
  <2>2. \A x, y \in FreeDisk : Distance(x) = Distance(y) => x = y
    BY <1>1, <1>2
  <2>3. QED
    BY <2>1, <2>2
<1>4. IsFiniteSet(FreeDisk) /\ Cardinality(FreeDisk) \in Nat
  <2>1. IsFiniteSet(0 .. N - 1)
    <3>1. 0 \in Int /\ N - 1 \in Int
      BY <1>1
    <3>2. QED
      BY <3>1, FS_Interval
  <2>2. QED
    BY <1>1, <2>1, FS_Subset, FS_CardinalityType
<1>5. ASSUME NEW k \in 1 .. n PROVE NthFreeDisk(k) \in FreeDisk
  <2>1. k \in 1 .. Cardinality(FreeDisk)
    BY <1>4 DEF DiskHasRoomFor
  <2>2. \E x \in FreeDisk : Cardinality({y \in FreeDisk : key[y] < key[x]}) = k - 1
    <3> HIDE DEF key
    <3>1. PICK S : S = FreeDisk
      OBVIOUS
    <3>2. PICK f : f = key
      OBVIOUS
    <3>3. IsFiniteSet(S) /\ f \in [S -> Nat] /\ k \in 1 .. Cardinality(S)
          /\ \A x, y \in S : f[x] = f[y] => x = y
      BY <1>3, <1>4, <2>1, <3>1, <3>2
    <3>4. \E x \in S : Cardinality({y \in S : f[y] < f[x]}) = k - 1
      BY ONLY <3>3, RankExists
    <3>5. QED
      BY <3>1, <3>2, <3>4
  <2>3. \A x \in FreeDisk : {y \in FreeDisk : key[y] < key[x]}
                            = {y \in FreeDisk : Distance(y) < Distance(x)}
    OBVIOUS
  <2>4. \E x \in FreeDisk : Cardinality({y \in FreeDisk : Distance(y) < Distance(x)}) = k - 1
    BY <2>2, <2>3
  <2>5. QED
    BY <2>4 DEF NthFreeDisk
<1>6. NewDiskPages(n) \in [1 .. n -> FreeDisk]
  BY <1>5 DEF NewDiskPages
<1>7. NewDiskPages(n) \in [1 .. n -> DiskPages]
  BY <1>1, <1>6
<1>8. ToSet(NewDiskPages(n)) \subseteq FreeDisk
  BY <1>6 DEF ToSet
<1>9. QED
  BY <1>7, <1>8

(* allocate_generation finds a free number.                                *)
LEMMA AllocatedGenFree ==
  ASSUME Inv, Running, NGensFor <= MaxGenerations
  PROVE  /\ AllocatedGen \in Gens /\ gen[AllocatedGen].status = "NONEXISTENT"
         /\ AllocatedGen < NGensFor /\ ngens <= NGensFor /\ NGensFor \in Nat
<1> DEFINE n == NGensFor
           dist(g) == (g + n - gnCursor) % n
           candidates == {g \in 0 .. n - 1 : gen[g].status = "NONEXISTENT"}
           known == {g \in 0 .. ngens - 1 : gen[g].status = "NONEXISTENT"}
<1>1. /\ MaxGenerations \in Nat /\ Gens = 0 .. MaxGenerations - 1
      /\ ngens \in Nat /\ ngens > 0 /\ gnCursor \in Nat
      /\ \A g \in Gens : gen[g].status # "NONEXISTENT" => g < ngens
  BY GenerationsAssumption DEF Inv, RunningOK, NumbersOK, Gens
<1>2. n = (IF Cardinality(known) * 8 < ngens THEN 2 * ngens ELSE ngens)
  BY DEF NGensFor
<1> HIDE DEF n
<1>3. n \in Nat /\ n > 0 /\ ngens <= n /\ n <= MaxGenerations
  BY <1>1, <1>2 DEF n
<1>4. candidates # {}
  <2>1. CASE Cardinality(known) * 8 < ngens
    <3>1. ngens \in 0 .. n - 1 /\ ngens \in Gens
      BY <1>1, <1>2, <1>3, <2>1
    <3>2. ~(ngens < ngens)
      BY <1>1
    <3>3. ngens \in candidates
      BY <1>1, <3>1, <3>2
    <3>4. QED
      BY <3>3
  <2>2. CASE ~(Cardinality(known) * 8 < ngens)
    <3>1. known # {}
      <4>1. SUFFICES ASSUME known = {} PROVE FALSE
        OBVIOUS
      <4>2. Cardinality(known) = 0
        BY <4>1, FS_EmptySet
      <4>3. QED
        BY <1>1, <2>2, <4>2
    <3>2. n = ngens
      BY <1>2, <2>2
    <3>3. QED
      BY <3>1, <3>2
  <2>3. QED
    BY <2>1, <2>2
<1>5. \E g \in candidates : \A h \in candidates : dist(g) <= dist(h)
  <2> DEFINE ds == {dist(g) : g \in candidates}
  <2>1. \A g \in candidates : dist(g) \in Nat
    BY <1>1, <1>3
  <2>2. ds \in SUBSET Nat /\ ds # {}
    BY <1>4, <2>1
  <2>3. PICK d \in ds : \A e \in ds : d <= e
    BY <2>2, SmallestNumber
  <2> HIDE DEF dist
  <2>4. PICK g \in candidates : d = dist(g)
    BY <2>3
  <2>5. \A h \in candidates : dist(h) \in ds
    OBVIOUS
  <2>6. QED
    BY <2>3, <2>4, <2>5
<1>6. AllocatedGen \in candidates
  <2>1. AllocatedGen = CHOOSE g \in candidates : \A h \in candidates : dist(g) <= dist(h)
    BY DEF AllocatedGen, n
  <2> HIDE DEF dist, candidates
  <2>2. QED
    BY <1>5, <2>1
<1>7. AllocatedGen \in 0 .. n - 1 /\ gen[AllocatedGen].status = "NONEXISTENT"
  BY <1>6
<1>8. QED
  BY <1>1, <1>3, <1>7 DEF n

--------------------------------------------------------------------------------
(* What does not change keeps its invariants.                              *)

LEMMA SameHeap ==
  ASSUME RunningOK,
         gen' = gen, owner' = owner, order' = order, prevTo' = prevTo,
         isCollecting' = isCollecting, freePages' = freePages, nfree' = nfree,
         diskStatus' = diskStatus, ngens' = ngens
  PROVE  /\ TableOK(gen)' /\ OwnerOK(gen, owner)' /\ OrderOK(gen, order)'
         /\ CollectorOK(gen, order, prevTo, isCollecting)'
         /\ FreeOK' /\ DiskOK' /\ NumbersOK'
<1>1. TableOK(gen)'
  BY DEF RunningOK, TableOK
<1>2. OwnerOK(gen, owner)'
  BY DEF RunningOK, OwnerOK
<1>3. OrderOK(gen, order)'
  BY DEF RunningOK, OrderOK
<1>4. CollectorOK(gen, order, prevTo, isCollecting)'
  BY DEF RunningOK, CollectorOK
<1>5. FreeOK' /\ NumbersOK'
  BY DEF RunningOK, FreeOK, NumbersOK
<1>6. DiskOK'
  BY DEF RunningOK, DiskOK, Existing
<1>7. QED
  BY <1>1, <1>2, <1>3, <1>4, <1>5, <1>6

LEMMA SnapKept ==
  ASSUME SnapOK, snap' = snap, \A x \in snap.core : disk'[x[1]] = disk[x[1]]
  PROVE  SnapOK'
<1>1. TableOK(snap.gen)'
  BY DEF SnapOK, TableOK
<1>2. OwnerOK(snap.gen, snap.owner)'
  BY DEF SnapOK, OwnerOK
<1>3. OrderOK(snap.gen, snap.order)'
  BY DEF SnapOK, OrderOK
<1>4. CollectorOK(snap.gen, snap.order, snap.prevTo, snap.isCollecting)'
  BY DEF SnapOK, CollectorOK
<1>5. QED
  BY <1>1, <1>2, <1>3, <1>4 DEF SnapOK

LEMMA CoreKept ==
  ASSUME snap.exists => CoreOK, snap' = snap, phase' # "committed",
         \A x \in snap.core : diskStatus[x[1]] = "ALLOCATED" => diskStatus'[x[1]] = "ALLOCATED"
  PROVE  snap'.exists => CoreOK'
BY DEF CoreOK

LEMMA StutterKeepsInv ==
  ASSUME Inv, UNCHANGED vars
  PROVE  Inv'
<1>1. /\ phase' = phase /\ gen' = gen /\ owner' = owner /\ order' = order /\ prevTo' = prevTo
      /\ isCollecting' = isCollecting /\ freePages' = freePages /\ nfree' = nfree
      /\ diskStatus' = diskStatus /\ ngens' = ngens /\ gnCursor' = gnCursor
      /\ diskCursor' = diskCursor /\ disk' = disk /\ unstable' = unstable
      /\ wasStarted' = wasStarted /\ stepped' = stepped /\ snap' = snap /\ root' = root
  BY DEF vars, heapVars, gcVars, diskVars, ghostVars
<1>2. ASSUME Running PROVE RunningOK'
  <2>1. RunningOK
    BY <1>2 DEF Inv
  <2>2. WritesOK' /\ PhaseOK' /\ (snap'.exists => CoreOK')
    BY <1>1, <2>1 DEF RunningOK, WritesOK, PhaseOK, CoreOK, Existing, Twice
  <2>3. QED
    BY <1>1, <2>1, <2>2, SameHeap DEF RunningOK
<1>3. snap.exists => SnapOK'
  BY <1>1, SnapKept DEF Inv
<1>4. QED
  BY <1>1, <1>2, <1>3 DEF Inv, Running, Recovering

LEMMA InitKeepsInv == Init => Inv
<1> SUFFICES ASSUME Init PROVE Inv
  OBVIOUS
<1>1. /\ NumberOfPages \in Nat /\ NumberOfPages > 0
      /\ NumberOfDiskPages \in Nat /\ NumberOfDiskPages > 0
      /\ MaxGenerations \in Nat /\ InitialGenerations \in 1 .. MaxGenerations
      /\ InitialGenerations \in Nat
  BY PagesAssumption, GenerationsAssumption
<1>2. NoInfo \in GenInfo
  <2>1. <<>> \in Seq(Pages) /\ <<>> \in Seq(DiskPages) /\ {} \in SUBSET Gens
    OBVIOUS
  <2>2. QED
    BY <2>1 DEF NoInfo, GenInfo, GenStatus
<1>3. /\ gen \in [Gens -> GenInfo]
      /\ \A g \in Gens : gen[g].status = "NONEXISTENT" /\ gen[g].page = <<>>
  BY <1>2 DEF Init, NoInfo
<1>4. TableOK(gen)
  <2>1. \A g \in Gens : Distinct(gen[g].page)
    BY <1>3 DEF Distinct
  <2>2. QED
    BY <1>3, <2>1 DEF TableOK, Live
<1>5. NoGen \notin Gens
  BY <1>1 DEF NoGen, Gens
<1>6. OwnerOK(gen, owner)
  <2>1. owner = [p \in Pages |-> NoGen]
    BY DEF Init
  <2>2. QED
    BY <1>3, <1>5, <2>1 DEF OwnerOK, Live
<1>7. OrderOK(gen, order) /\ CollectorOK(gen, order, prevTo, isCollecting)
  <2>1. order = <<>> /\ isCollecting = FALSE /\ prevTo = NoGen
    BY DEF Init
  <2>2. ToSet(order) = {}
    BY <2>1 DEF ToSet
  <2>3. {g \in Gens : gen[g].status \in Live} = {}
    BY <1>3 DEF Live
  <2>4. OrderOK(gen, order)
    BY <2>1, <2>2, <2>3 DEF OrderOK, Distinct
  <2>5. CollectorOK(gen, order, prevTo, isCollecting)
    BY <1>3, <2>1 DEF CollectorOK
  <2>6. QED
    BY <2>4, <2>5
<1>8. FreeOK
  <2> DEFINE N == NumberOfPages
  <2>1. freePages = [i \in 1 .. N |-> N - i] /\ nfree = N /\ Pages = 0 .. N - 1
        /\ N \in Nat /\ N > 0 /\ owner = [p \in Pages |-> NoGen]
    BY <1>1 DEF Init, Pages
  <2> HIDE DEF N
  <2>2. freePages \in [1 .. N -> Pages]
    BY <2>1
  <2>3. freePages \in Seq(Pages) /\ Len(freePages) = N
    BY <2>1, <2>2
  <2>4. Distinct(freePages)
    BY <2>1, <2>3 DEF Distinct
  <2>5. ToSet(freePages) = Pages
    <3>1. ToSet(freePages) = {freePages[i] : i \in 1 .. N}
      BY <2>3, Members
    <3>2. ASSUME NEW p \in Pages PROVE N - p \in 1 .. N /\ freePages[N - p] = p
      BY <2>1
    <3>3. QED
      BY <2>2, <3>1, <3>2
  <2>6. QED
    BY <2>1, <2>3, <2>4, <2>5 DEF FreeOK
<1>9. DiskOK /\ NumbersOK
  BY <1>1, <1>3 DEF DiskOK, NumbersOK, Existing, Init
<1>10. WritesOK /\ PhaseOK /\ Running /\ ~Recovering /\ ~snap.exists /\ ~root.exists
  BY DEF WritesOK, PhaseOK, Running, Recovering, Init
<1>11. diskCursor \in DiskPages /\ gnCursor \in Nat
       /\ diskStatus \in [DiskPages -> {"FREE", "ALLOCATED", "UNKNOWN"}]
       /\ DOMAIN disk = DiskPages /\ stepped \in BOOLEAN /\ wasStarted \in BOOLEAN
  <2>1. 0 \in DiskPages
    BY <1>1 DEF DiskPages
  <2>2. QED
    BY <2>1 DEF Init
<1>12. QED
  BY <1>4, <1>6, <1>7, <1>8, <1>9, <1>10, <1>11 DEF Inv, RunningOK

--------------------------------------------------------------------------------
(* Steps that allocate nothing.                                            *)

LEMMA NoMajorGcKeepsInv ==
  ASSUME Inv, NoMajorGc
  PROVE  Inv'
<1>1. /\ phase = "major" /\ phase' = "mutator"
      /\ gen' = gen /\ owner' = owner /\ order' = order /\ prevTo' = prevTo
      /\ isCollecting' = isCollecting /\ freePages' = freePages /\ nfree' = nfree
      /\ diskStatus' = diskStatus /\ ngens' = ngens /\ gnCursor' = gnCursor
      /\ diskCursor' = diskCursor /\ disk' = disk /\ unstable' = unstable
      /\ wasStarted' = wasStarted /\ stepped' = stepped /\ snap' = snap /\ root' = root
  BY DEF NoMajorGc, heapVars, gcVars, diskVars, ghostVars
<1>2. RunningOK /\ Running' /\ ~Recovering'
  BY <1>1 DEF Inv, Running, Recovering
<1>3. WritesOK' /\ PhaseOK'
  BY <1>1, <1>2 DEF RunningOK, WritesOK, PhaseOK
<1>4. snap'.exists => CoreOK'
  BY <1>1, <1>2, CoreKept DEF RunningOK
<1>5. RunningOK'
  BY <1>1, <1>2, <1>3, <1>4, SameHeap DEF RunningOK
<1>6. snap.exists => SnapOK'
  BY <1>1, SnapKept DEF Inv
<1>7. QED
  BY <1>1, <1>2, <1>5, <1>6 DEF Inv

LEMMA PrepareStepKeepsInv ==
  ASSUME Inv, PrepareStep
  PROVE  Inv'
<1>1. /\ phase = "major" /\ phase' = "step" /\ isCollecting
      /\ gen' = gen /\ owner' = owner /\ order' = order /\ prevTo' = prevTo
      /\ isCollecting' = isCollecting /\ freePages' = freePages /\ nfree' = nfree
      /\ diskStatus' = diskStatus /\ ngens' = ngens /\ gnCursor' = gnCursor
      /\ diskCursor' = diskCursor /\ disk' = disk
      /\ unstable' = (IF stepped THEN {} ELSE unstable)
      /\ wasStarted' = wasStarted /\ stepped' = TRUE /\ snap' = snap /\ root' = root
  BY DEF PrepareStep, heapVars, diskVars, ghostVars
<1>2. RunningOK /\ Running' /\ ~Recovering'
  BY <1>1 DEF Inv, Running, Recovering
<1>3. WritesOK' /\ PhaseOK'
  BY <1>1, <1>2 DEF RunningOK, WritesOK, PhaseOK
<1>4. snap'.exists => CoreOK'
  BY <1>1, <1>2, CoreKept DEF RunningOK
<1>5. RunningOK'
  BY <1>1, <1>2, <1>3, <1>4, SameHeap DEF RunningOK
<1>6. snap.exists => SnapOK'
  BY <1>1, SnapKept DEF Inv
<1>7. QED
  BY <1>1, <1>2, <1>5, <1>6 DEF Inv

(* Live generations may change between NORMAL and TO_BE_COLLECTED.         *)
SameButMarks(t, u) ==
  /\ u \in [Gens -> GenInfo]
  /\ \A g \in Gens :
       /\ u[g].page = t[g].page /\ u[g].diskPage = t[g].diskPage /\ u[g].from = t[g].from
       /\ u[g].status = t[g].status \/ (u[g].status \in Live /\ t[g].status \in Live)

LEMMA MarksKeepTable ==
  ASSUME NEW t, NEW u, NEW w, TableOK(t), OwnerOK(t, w), SameButMarks(t, u)
  PROVE  TableOK(u) /\ OwnerOK(u, w)
<1>1. \A g \in Gens : /\ u[g].status \in Live <=> t[g].status \in Live
                      /\ u[g].status = "NONEXISTENT" <=> t[g].status = "NONEXISTENT"
                      /\ u[g].status = "COLLECTED_ONCE" <=> t[g].status = "COLLECTED_ONCE"
                      /\ u[g].page = t[g].page /\ u[g].diskPage = t[g].diskPage
                      /\ u[g].from = t[g].from /\ u[g].from \subseteq Gens
  BY DEF SameButMarks, Live, GenInfo
<1>2. u \in [Gens -> GenInfo]
  BY DEF SameButMarks
<1>3. TableOK(u)
  BY <1>1, <1>2 DEF TableOK
<1>4. OwnerOK(u, w)
  BY <1>1 DEF OwnerOK
<1>5. QED
  BY <1>3, <1>4

LEMMA MarkKeepsInv ==
  ASSUME Inv, mark_major_gc_generations
  PROVE  Inv'
<1>1. /\ phase = "major" /\ phase' = "mutator" /\ ~isCollecting
      /\ gen' = [g \in Gens |-> IF g \in ToSet(order)
                                THEN [gen[g] EXCEPT !.status = "TO_BE_COLLECTED"] ELSE gen[g]]
      /\ owner' = owner /\ order' = order /\ prevTo' = prevTo
      /\ isCollecting' = TRUE /\ freePages' = freePages /\ nfree' = nfree
      /\ diskStatus' = diskStatus /\ ngens' = ngens /\ gnCursor' = gnCursor
      /\ diskCursor' = diskCursor /\ disk' = disk /\ unstable' = unstable
      /\ wasStarted' = TRUE /\ stepped' = stepped /\ snap' = snap /\ root' = root
  BY DEF mark_major_gc_generations, diskVars, ghostVars
<1>2. RunningOK /\ Running' /\ ~Recovering'
  BY <1>1 DEF Inv, Running, Recovering
<1>3. /\ gen \in [Gens -> GenInfo] /\ order \in Seq(Gens) /\ order # <<>>
      /\ ToSet(order) = {g \in Gens : gen[g].status \in Live}
      /\ \A g \in Gens : gen[g].status # "TO_BE_COLLECTED"
      /\ prevTo = NoGen
  <2>1. \A g \in Gens : gen[g].status # "TO_BE_COLLECTED"
    BY <1>1, <1>2 DEF RunningOK, CollectorOK
  <2>2. gen \in [Gens -> GenInfo] /\ order \in Seq(Gens) /\ order # <<>>
        /\ ToSet(order) = {g \in Gens : gen[g].status \in Live}
    BY <1>1, <1>2 DEF RunningOK, TableOK, OrderOK, PhaseOK
  <2>3. prevTo = NoGen
    <3>1. SUFFICES ASSUME prevTo # NoGen PROVE FALSE
      OBVIOUS
    <3>2. PICK i \in 1 .. Len(order) - 1 : gen[order[i + 1]].status = "TO_BE_COLLECTED"
      BY <1>2, <3>1 DEF RunningOK, CollectorOK
    <3>3. i + 1 \in 1 .. Len(order)
      BY <2>2
    <3>4. order[i + 1] \in Gens
      BY <2>2, <3>3
    <3>5. QED
      BY <2>1, <3>2, <3>4
  <2>4. QED
    BY <2>1, <2>2, <2>3
<1>4. /\ \A g \in Gens : gen'[g] = IF gen[g].status \in Live
                                   THEN [gen[g] EXCEPT !.status = "TO_BE_COLLECTED"] ELSE gen[g]
      /\ DOMAIN gen' = Gens
  BY <1>1, <1>3
<1>5. SameButMarks(gen, gen')
  <2>1. ASSUME NEW g \in Gens
        PROVE  /\ gen'[g] \in GenInfo
               /\ gen'[g].page = gen[g].page /\ gen'[g].diskPage = gen[g].diskPage
               /\ gen'[g].from = gen[g].from
               /\ gen'[g].status = (IF gen[g].status \in Live THEN "TO_BE_COLLECTED"
                                    ELSE gen[g].status)
    <3>1. gen[g] \in GenInfo
      BY <1>3
    <3>2. QED
      BY <1>4, <3>1 DEF GenInfo, GenStatus
  <2>2. gen' \in [Gens -> GenInfo]
    BY <1>1, <2>1
  <2>3. QED
    BY <2>1, <2>2 DEF SameButMarks, Live
<1>6. \A g \in Gens : /\ gen'[g].status = (IF gen[g].status \in Live THEN "TO_BE_COLLECTED"
                                           ELSE gen[g].status)
                      /\ gen'[g].diskPage = gen[g].diskPage
  BY <1>3, <1>4 DEF GenInfo
<1>7. TableOK(gen)' /\ OwnerOK(gen, owner)'
  BY <1>1, <1>2, <1>5, MarksKeepTable DEF RunningOK
<1>8. OrderOK(gen, order)'
  <2>1. \A i \in 1 .. Len(order) : gen'[order[i]].status = "TO_BE_COLLECTED"
    <3>1. TAKE i \in 1 .. Len(order)
    <3>2. order[i] \in ToSet(order) /\ order[i] \in Gens
      BY <1>3, Members
    <3>3. gen[order[i]].status \in Live
      BY <1>3, <3>2
    <3>4. QED
      BY <1>6, <3>2, <3>3
  <2>2. {g \in Gens : gen'[g].status \in Live} = ToSet(order)
    BY <1>3, <1>6 DEF Live
  <2>3. Distinct(order)
    BY <1>2 DEF RunningOK, OrderOK
  <2>4. QED
    BY <1>1, <1>3, <2>1, <2>2, <2>3, ZenonT(60) DEF OrderOK
<1>9. CollectorOK(gen, order, prevTo, isCollecting)'
  <2>1. Len(order) \in Nat /\ Len(order) # 0
    BY <1>3
  <2>2. 1 \in 1 .. Len(order)
    BY <2>1
  <2>3. order[1] \in ToSet(order) /\ order[1] \in Gens
    BY <1>3, <2>2, Members
  <2>4. gen'[order[1]].status = "TO_BE_COLLECTED"
    BY <1>3, <1>6, <2>3
  <2>5. QED
    BY <1>1, <1>3, <2>3, <2>4 DEF CollectorOK
<1>10. FreeOK' /\ NumbersOK' /\ DiskOK'
  <2>1. FreeOK'
    BY <1>1, <1>2 DEF RunningOK, FreeOK
  <2>2. \A g \in Gens : gen'[g].status = "NONEXISTENT" <=> gen[g].status = "NONEXISTENT"
    BY <1>6 DEF Live
  <2>3. NumbersOK'
    BY <1>1, <1>2, <2>2 DEF RunningOK, NumbersOK
  <2>4. DiskOK'
    BY <1>1, <1>2, <1>6, <2>2 DEF RunningOK, DiskOK, Existing
  <2>5. QED
    BY <2>1, <2>3, <2>4
<1>11. WritesOK' /\ PhaseOK'
  BY <1>1, <1>2, <1>3 DEF RunningOK, WritesOK, PhaseOK
<1>12. snap'.exists => CoreOK'
  BY <1>1, <1>2, CoreKept DEF RunningOK
<1>13. RunningOK'
  BY <1>7, <1>8, <1>9, <1>10, <1>11, <1>12 DEF RunningOK
<1>14. snap.exists => SnapOK'
  BY <1>1, SnapKept DEF Inv
<1>15. QED
  BY <1>1, <1>2, <1>13, <1>14 DEF Inv

LEMMA StartGroupKeepsInv ==
  ASSUME Inv, StartGroup
  PROVE  Inv'
<1>1. /\ phase = "committed" /\ phase' = "major"
      /\ owner' = owner /\ order' = order /\ prevTo' = prevTo
      /\ isCollecting' = isCollecting /\ freePages' = freePages /\ nfree' = nfree
      /\ ngens' = ngens /\ gnCursor' = gnCursor
      /\ diskCursor' = diskCursor /\ disk' = disk /\ unstable' = unstable
      /\ wasStarted' = FALSE /\ stepped' = FALSE /\ snap' = snap /\ root' = root
      /\ IF wasStarted THEN gen' = Purged /\ FreeDiskPages(Twice)
                       ELSE gen' = gen /\ diskStatus' = diskStatus
  BY DEF StartGroup, ghostVars
<1>2. RunningOK /\ Running' /\ ~Recovering'
  BY <1>1 DEF Inv, Running, Recovering
<1>3. WritesOK' /\ PhaseOK'
  BY <1>1, <1>2 DEF RunningOK, WritesOK, PhaseOK
<1>4. snap.exists => SnapOK'
  BY <1>1, SnapKept DEF Inv
<1>5. CASE ~wasStarted
  <2>1. snap'.exists => CoreOK'
    BY <1>1, <1>2, <1>5, CoreKept DEF RunningOK
  <2>2. RunningOK'
    BY <1>1, <1>2, <1>3, <1>5, <2>1, SameHeap DEF RunningOK
  <2>3. QED
    BY <1>1, <1>2, <1>4, <1>5, <2>2 DEF Inv
<1>6. CASE wasStarted
  <2>1. gen \in [Gens -> GenInfo] /\ NoInfo \in GenInfo
    <3>1. <<>> \in Seq(Pages) /\ <<>> \in Seq(DiskPages) /\ {} \in SUBSET Gens
      OBVIOUS
    <3>2. QED
      BY <1>2, <3>1 DEF RunningOK, TableOK, NoInfo, GenInfo, GenStatus
  <2>2. /\ gen' \in [Gens -> GenInfo]
        /\ \A g \in Gens : gen'[g] = IF gen[g].status = "COLLECTED_TWICE" THEN NoInfo ELSE gen[g]
    BY <1>1, <1>6, <2>1 DEF Purged, Twice
  <2>3. \A g \in Gens :
          /\ gen[g].status \in Live \cup {"COLLECTED_ONCE"} => gen'[g] = gen[g]
          /\ gen'[g].status \in Live \cup {"COLLECTED_ONCE"} => gen'[g] = gen[g]
          /\ gen'[g].status = "TO_BE_COLLECTED" <=> gen[g].status = "TO_BE_COLLECTED"
          /\ gen'[g].status # "NONEXISTENT" => gen'[g] = gen[g] /\ gen[g].status # "NONEXISTENT"
          /\ gen'[g].status # "NONEXISTENT" <=>
               gen[g].status # "NONEXISTENT" /\ gen[g].status # "COLLECTED_TWICE"
    BY <2>1, <2>2 DEF Live, NoInfo
  <2>4. TableOK(gen)'
    <3>1. \A g \in Gens : Distinct(gen'[g].page)
      <4>1. TAKE g \in Gens
      <4>2. NoInfo.page = <<>> /\ Distinct(<<>>)
        BY DEF NoInfo, Distinct
      <4>3. Distinct(gen[g].page)
        BY <1>2 DEF RunningOK, TableOK
      <4>4. QED
        BY <2>2, <4>2, <4>3
    <3>2. \A g, h \in Gens :
            g # h /\ gen'[g].status # "NONEXISTENT" /\ gen'[h].status # "NONEXISTENT"
              => ToSet(gen'[g].diskPage) \cap ToSet(gen'[h].diskPage) = {}
      BY <1>2, <2>3 DEF RunningOK, TableOK
    <3>3. \A g \in Gens : gen'[g].status \in Live =>
            \A h \in gen'[g].from : gen'[h].status = "COLLECTED_ONCE"
      <4>1. TAKE g \in Gens
      <4>2. HAVE gen'[g].status \in Live
      <4>3. gen'[g] = gen[g] /\ gen[g].from \subseteq Gens
        BY <2>1, <2>3, <4>2 DEF GenInfo
      <4>4. \A h \in gen[g].from : gen[h].status = "COLLECTED_ONCE"
        BY <1>2, <4>2, <4>3 DEF RunningOK, TableOK
      <4>5. QED
        BY <2>3, <4>3, <4>4
    <3>4. \A g, h \in Gens : g # h /\ gen'[g].status \in Live /\ gen'[h].status \in Live
            => gen'[g].from \cap gen'[h].from = {}
      BY <1>2, <2>3 DEF RunningOK, TableOK
    <3>5. QED
      BY <2>2, <3>1, <3>2, <3>3, <3>4 DEF TableOK
  <2>5. OwnerOK(gen, owner)'
    BY <1>1, <1>2, <2>3 DEF RunningOK, OwnerOK
  <2>6. order \in Seq(Gens) /\ \A i \in 1 .. Len(order) : order[i] \in Gens
    BY <1>2 DEF RunningOK, OrderOK
  <2>7. OrderOK(gen, order)'
    <3>1. {g \in Gens : gen'[g].status \in Live} = {g \in Gens : gen[g].status \in Live}
      BY <2>3
    <3>2. QED
      BY <1>1, <1>2, <2>3, <2>6, <3>1 DEF RunningOK, OrderOK
  <2>8. CollectorOK(gen, order, prevTo, isCollecting)'
    <3>1. prevTo = NoGen
      BY <1>2, <1>6 DEF RunningOK, PhaseOK
    <3>2. QED
      BY <1>1, <1>2, <2>3, <3>1 DEF RunningOK, CollectorOK
  <2>9. FreeOK' /\ NumbersOK'
    BY <1>1, <1>2, <2>3 DEF RunningOK, FreeOK, NumbersOK
  <2>10. \A d \in DiskPages :
           /\ (\E g \in Twice : d \in ToSet(gen[g].diskPage)) => diskStatus'[d] = "FREE"
           /\ ~(\E g \in Twice : d \in ToSet(gen[g].diskPage)) => diskStatus'[d] = diskStatus[d]
    BY <1>1, <1>6 DEF FreeDiskPages
  <2>11. \A g \in Twice, h \in Gens :
           gen[h].status # "NONEXISTENT" /\ gen[h].status # "COLLECTED_TWICE"
             => ToSet(gen[g].diskPage) \cap ToSet(gen[h].diskPage) = {}
    <3>1. TAKE g \in Twice, h \in Gens
    <3>2. HAVE gen[h].status # "NONEXISTENT" /\ gen[h].status # "COLLECTED_TWICE"
    <3>3. g \in Gens /\ gen[g].status = "COLLECTED_TWICE"
      BY DEF Twice
    <3>4. QED
      BY <1>2, <3>2, <3>3 DEF RunningOK, TableOK
  <2>12. DiskOK'
    <3>1. ASSUME NEW d \in DiskPages
          PROVE  /\ diskStatus'[d] = "ALLOCATED" <=>
                      \E g \in Gens : gen'[g].status # "NONEXISTENT" /\ d \in ToSet(gen'[g].diskPage)
                 /\ diskStatus'[d] # "UNKNOWN"
      <4>1. /\ diskStatus[d] = "ALLOCATED" <=>
                 \E g \in Gens : gen[g].status # "NONEXISTENT" /\ d \in ToSet(gen[g].diskPage)
            /\ diskStatus[d] # "UNKNOWN"
        BY <1>2 DEF RunningOK, DiskOK, Existing
      <4>2. CASE \E g \in Twice : d \in ToSet(gen[g].diskPage)
        <5>1. diskStatus'[d] = "FREE"
          BY <2>10, <4>2
        <5>2. \A h \in Gens : gen'[h].status # "NONEXISTENT" => d \notin ToSet(gen'[h].diskPage)
          BY <2>3, <2>11, <4>2
        <5>3. QED
          BY <5>1, <5>2
      <4>3. CASE ~ \E g \in Twice : d \in ToSet(gen[g].diskPage)
        <5>1. diskStatus'[d] = diskStatus[d]
          BY <2>10, <4>3
        <5>2. \A g \in Gens : gen[g].status # "NONEXISTENT" /\ d \in ToSet(gen[g].diskPage)
                => gen'[g] = gen[g]
          BY <2>2, <4>3 DEF Twice
        <5>3. QED
          BY <2>3, <4>1, <5>1, <5>2
      <4>4. QED
        BY <4>2, <4>3
    <3>2. QED
      BY <3>1 DEF DiskOK, Existing
  <2>13. snap'.exists => CoreOK'
    <3>1. ASSUME snap.exists, NEW x \in snap.core PROVE diskStatus'[x[1]] = "ALLOCATED"
      <4>1. diskStatus[x[1]] = "ALLOCATED"
            /\ \E g \in Existing \ Twice : x[1] \in ToSet(gen[g].diskPage)
        BY <1>1, <1>2, <3>1 DEF RunningOK, CoreOK
      <4>2. x[1] \in DiskPages
        BY <3>1 DEF Inv, SnapOK
      <4>3. ~ \E g \in Twice : x[1] \in ToSet(gen[g].diskPage)
        BY <2>11, <4>1 DEF Existing, Twice
      <4>4. QED
        BY <2>10, <4>1, <4>2, <4>3
    <3>2. QED
      BY <1>1, <3>1 DEF CoreOK
  <2>14. RunningOK'
    BY <1>3, <2>4, <2>5, <2>7, <2>8, <2>9, <2>12, <2>13 DEF RunningOK
  <2>15. diskStatus' \in [DiskPages -> {"FREE", "ALLOCATED", "UNKNOWN"}]
    BY <1>1, <1>6 DEF Inv, FreeDiskPages
  <2>16. QED
    BY <1>1, <1>2, <1>4, <2>14, <2>15 DEF Inv
<1>7. QED
  BY <1>5, <1>6

(* The snapshot a root block promises to recovery.                         *)
LEMMA SnapshotOK ==
  ASSUME Inv, io_write_root
  PROVE  SnapOK'
<1> DEFINE t == Snapshot.gen
<1>1. phase = "collected" /\ snap' = Snapshot /\ disk' = disk /\ RunningOK
  BY DEF io_write_root, diskVars, Inv, Running
<1>2. /\ Snapshot.order = order /\ Snapshot.owner = owner /\ Snapshot.prevTo = prevTo
      /\ Snapshot.isCollecting = (isCollecting /\ ~wasStarted)
      /\ Snapshot.core = ContentsOf(Existing \ Twice)
      /\ t = [g \in Gens |-> [gen[g] EXCEPT !.status = Unmarked(@)]]
  BY DEF Snapshot
<1> HIDE DEF t
<1>3. gen \in [Gens -> GenInfo] /\ order \in Seq(Gens) /\ order # <<>>
      /\ \A i \in 1 .. Len(order) : order[i] \in Gens
  BY <1>1 DEF RunningOK, TableOK, OrderOK, PhaseOK
<1>4. \A g \in Gens : /\ t[g] \in GenInfo
                      /\ t[g].page = gen[g].page /\ t[g].diskPage = gen[g].diskPage
                      /\ t[g].from = gen[g].from /\ t[g].status = Unmarked(gen[g].status)
  <2>1. TAKE g \in Gens
  <2>2. gen[g] \in GenInfo
    BY <1>3
  <2>3. Unmarked(gen[g].status) \in GenStatus
    BY <2>2 DEF GenInfo, GenStatus, Unmarked
  <2>4. t[g] = [gen[g] EXCEPT !.status = Unmarked(gen[g].status)]
    BY <1>2
  <2>5. QED
    BY <2>2, <2>3, <2>4 DEF GenInfo
<1>5. SameButMarks(gen, t)
  <2>1. t \in [Gens -> GenInfo]
    BY <1>2, <1>4
  <2>2. QED
    BY <1>4, <2>1 DEF SameButMarks, Unmarked, Live
<1>6. TableOK(t) /\ OwnerOK(t, owner)
  BY <1>1, <1>5, MarksKeepTable DEF RunningOK
<1>7. OrderOK(t, order)
  <2>1. {g \in Gens : t[g].status \in Live} = {g \in Gens : gen[g].status \in Live}
    BY <1>4 DEF Unmarked, Live
  <2>2. ASSUME NEW i \in 1 .. Len(order), NEW j \in 1 .. Len(order), i < j,
               t[order[i]].status = "TO_BE_COLLECTED"
        PROVE  t[order[j]].status = "TO_BE_COLLECTED"
    <3>1. order[i] \in Gens /\ order[j] \in Gens
      BY <1>3
    <3>2. gen[order[i]].status = "TO_BE_COLLECTED" /\ ~wasStarted
      BY <1>4, <2>2, <3>1 DEF Unmarked
    <3>3. gen[order[j]].status = "TO_BE_COLLECTED"
      BY <1>1, <2>2, <3>2 DEF RunningOK, OrderOK
    <3>4. QED
      BY <1>4, <3>1, <3>2, <3>3 DEF Unmarked
  <2>3. QED
    BY <1>1, <2>1, <2>2 DEF RunningOK, OrderOK
<1>8. CollectorOK(t, order, prevTo, isCollecting /\ ~wasStarted)
  <2>1. CASE wasStarted
    <3>1. prevTo = NoGen /\ \A g \in Gens : t[g].status # "TO_BE_COLLECTED"
      BY <1>1, <1>4, <2>1 DEF RunningOK, PhaseOK, Unmarked
    <3>2. QED
      BY <2>1, <3>1 DEF CollectorOK
  <2>2. CASE ~wasStarted
    <3>1. \A g \in Gens : t[g].status = gen[g].status
      BY <1>4, <2>2 DEF Unmarked
    <3>2. \A i \in 1 .. Len(order) - 1 : i \in 1 .. Len(order) /\ i + 1 \in 1 .. Len(order)
      BY <1>3
    <3>3. (isCollecting /\ ~wasStarted) = isCollecting
      BY <1>1, <2>2 DEF RunningOK, CollectorOK
    <3>4. QED
      BY <1>1, <1>3, <3>1, <3>2, <3>3 DEF RunningOK, CollectorOK
  <2>3. QED
    BY <2>1, <2>2
<1>9. ASSUME NEW x \in ContentsOf(Existing \ Twice)
      PROVE  /\ x[1] \in DiskPages /\ disk[x[1]] = x[2]
             /\ \E g \in Gens : t[g].status # "NONEXISTENT" /\ x[1] \in ToSet(t[g].diskPage)
  <2>0. PICK g \in Existing \ Twice : \E i \in DOMAIN gen[g].diskPage :
          x = <<gen[g].diskPage[i], disk[gen[g].diskPage[i]]>>
    BY DEF ContentsOf
  <2>1. PICK i \in DOMAIN gen[g].diskPage : x = <<gen[g].diskPage[i], disk[gen[g].diskPage[i]]>>
    BY <2>0
  <2>2. g \in Gens /\ gen[g].status # "NONEXISTENT"
    BY DEF Existing
  <2>3. x[1] = gen[g].diskPage[i] /\ x[2] = disk[x[1]] /\ x[1] \in ToSet(gen[g].diskPage)
    BY <2>1 DEF ToSet
  <2>4. gen[g].diskPage \in Seq(DiskPages)
    BY <1>3, <2>2 DEF GenInfo
  <2>5. x[1] \in DiskPages
    BY <2>3, <2>4, Members
  <2>6. t[g].status # "NONEXISTENT" /\ t[g].diskPage = gen[g].diskPage
    BY <1>4, <2>2 DEF Unmarked
  <2>7. QED
    BY <2>2, <2>3, <2>5, <2>6
<1>10. /\ snap'.order = order /\ snap'.owner = owner /\ snap'.prevTo = prevTo
       /\ snap'.isCollecting = (isCollecting /\ ~wasStarted)
       /\ snap'.core = ContentsOf(Existing \ Twice) /\ snap'.gen = t
  BY <1>1, <1>2 DEF t
<1>11. TableOK(snap.gen)' /\ OwnerOK(snap.gen, snap.owner)' /\ OrderOK(snap.gen, snap.order)'
  BY <1>6, <1>7, <1>10
<1>12. CollectorOK(snap.gen, snap.order, snap.prevTo, snap.isCollecting)'
  BY <1>8, <1>10
<1>13. QED
  BY <1>1, <1>3, <1>9, <1>10, <1>11, <1>12 DEF SnapOK

LEMMA WriteRootKeepsInv ==
  ASSUME Inv, io_write_root
  PROVE  Inv'
<1>1. /\ phase = "collected" /\ phase' = "committed"
      /\ gen' = gen /\ owner' = owner /\ order' = order /\ prevTo' = prevTo
      /\ isCollecting' = isCollecting /\ freePages' = freePages /\ nfree' = nfree
      /\ diskStatus' = diskStatus /\ ngens' = ngens /\ gnCursor' = gnCursor
      /\ diskCursor' = diskCursor /\ disk' = disk /\ unstable' = {}
      /\ wasStarted' = wasStarted /\ stepped' = stepped /\ snap' = Snapshot
  BY DEF io_write_root, heapVars, gcVars, diskVars
<1>2. RunningOK /\ Running' /\ ~Recovering'
  BY <1>1 DEF Inv, Running, Recovering
<1>3. WritesOK' /\ PhaseOK'
  BY <1>1, <1>2 DEF RunningOK, WritesOK, PhaseOK
<1>4. snap'.exists /\ snap'.core = ContentsOf(Existing \ Twice)
  BY <1>1 DEF Snapshot
<1>5. CoreOK'
  <2>1. ASSUME NEW x \in ContentsOf(Existing \ Twice)
        PROVE  /\ diskStatus[x[1]] = "ALLOCATED"
               /\ \E g \in Existing \ Twice : x[1] \in ToSet(gen[g].diskPage)
    <3>0. PICK g \in Existing \ Twice : \E i \in DOMAIN gen[g].diskPage :
            x = <<gen[g].diskPage[i], disk[gen[g].diskPage[i]]>>
      BY DEF ContentsOf
    <3>1. PICK i \in DOMAIN gen[g].diskPage : x = <<gen[g].diskPage[i], disk[gen[g].diskPage[i]]>>
      BY <3>0
    <3>2. x[1] \in ToSet(gen[g].diskPage)
      BY <3>1 DEF ToSet
    <3>3. gen[g].diskPage \in Seq(DiskPages)
      BY <1>2 DEF RunningOK, TableOK, GenInfo, Existing
    <3>4. x[1] \in DiskPages
      BY <3>2, <3>3, Members
    <3>5. diskStatus[x[1]] = "ALLOCATED"
      BY <1>2, <3>2, <3>4 DEF RunningOK, DiskOK
    <3>6. QED
      BY <3>2, <3>5
  <2>2. Existing' = Existing /\ Twice' = Twice
    BY <1>1 DEF Existing, Twice
  <2>3. QED
    BY <1>1, <1>4, <2>1, <2>2 DEF CoreOK
<1>6. RunningOK'
  BY <1>1, <1>2, <1>3, <1>5, SameHeap DEF RunningOK
<1>7. SnapOK'
  BY SnapshotOK
<1>8. QED
  BY <1>1, <1>2, <1>4, <1>6, <1>7 DEF Inv

--------------------------------------------------------------------------------
(* Recovery: what it replays is checked against the snapshot at its end.   *)

LEMMA RecoveryFrame ==
  ASSUME Inv, Recovering, Recovering',
         unstable' = unstable, wasStarted' = wasStarted, stepped' = stepped, snap' = snap,
         root' = root, disk' = disk, gnCursor' = gnCursor, diskCursor' = diskCursor,
         diskStatus' \in [DiskPages -> {"FREE", "ALLOCATED", "UNKNOWN"}]
  PROVE  Inv'
<1>1. snap.exists => SnapOK'
  BY SnapKept DEF Inv
<1>2. ~Running'
  BY DEF Running, Recovering
<1>3. QED
  BY <1>1, <1>2 DEF Inv

LEMMA StatusReadType ==
  ASSUME Inv, NEW info
  PROVE  StatusRead(info) \in [DiskPages -> {"FREE", "ALLOCATED", "UNKNOWN"}]
BY DEF Inv, StatusRead

LEMMA RecoveryStepsKeepInv ==
  ASSUME Inv,
         \/ rvy_base_major_gc_round \/ rvy_base_done
         \/ rvy_batch_new \/ rvy_batch_collected
         \/ rvy_return_new \/ rvy_return_collected \/ rvy_batch_returned
  PROVE  Inv'
<1>1. CASE rvy_base_major_gc_round
  <2>1. diskStatus' = StatusRead(RvyPinfo) /\ Recovering /\ Recovering'
        /\ unstable' = unstable /\ wasStarted' = wasStarted /\ stepped' = stepped
        /\ snap' = snap /\ root' = root /\ disk' = disk /\ gnCursor' = gnCursor
        /\ diskCursor' = diskCursor
    BY <1>1 DEF rvy_base_major_gc_round, Recovering, gcVars, ghostVars
  <2>2. diskStatus' \in [DiskPages -> {"FREE", "ALLOCATED", "UNKNOWN"}]
    BY <2>1, StatusReadType
  <2>3. QED
    BY <2>1, <2>2, RecoveryFrame
<1>2. CASE rvy_base_done
  <2>1. diskStatus' = diskStatus /\ Recovering /\ Recovering'
        /\ unstable' = unstable /\ wasStarted' = wasStarted /\ stepped' = stepped
        /\ snap' = snap /\ root' = root /\ disk' = disk /\ gnCursor' = gnCursor
        /\ diskCursor' = diskCursor
    BY <1>2 DEF rvy_base_done, Recovering, gcVars, ghostVars, diskVars, heapVars
  <2>2. QED
    BY <2>1, RecoveryFrame DEF Inv
<1>3. CASE rvy_batch_new
  <2>1. diskStatus' = StatusRead(RvyPinfo) /\ Recovering /\ Recovering'
        /\ unstable' = unstable /\ wasStarted' = wasStarted /\ stepped' = stepped
        /\ snap' = snap /\ root' = root /\ disk' = disk /\ gnCursor' = gnCursor
        /\ diskCursor' = diskCursor
    BY <1>3 DEF rvy_batch_new, Recovering, gcVars, ghostVars
  <2>2. diskStatus' \in [DiskPages -> {"FREE", "ALLOCATED", "UNKNOWN"}]
    BY <2>1, StatusReadType
  <2>3. QED
    BY <2>1, <2>2, RecoveryFrame
<1>4. CASE rvy_batch_collected
  <2>1. diskStatus' = diskStatus /\ Recovering /\ Recovering'
        /\ unstable' = unstable /\ wasStarted' = wasStarted /\ stepped' = stepped
        /\ snap' = snap /\ root' = root /\ disk' = disk /\ gnCursor' = gnCursor
        /\ diskCursor' = diskCursor
    BY <1>4 DEF rvy_batch_collected, Recovering, gcVars, ghostVars, diskVars
  <2>2. QED
    BY <2>1, RecoveryFrame DEF Inv
<1>5. CASE rvy_return_new
  <2> DEFINE fr == Head(rvyStack)
  <2>1. /\ diskStatus' = [d \in DiskPages |->
             IF fr.first /\ \E g \in Twice : d \in ToSet(gen[g].diskPage) THEN "FREE"
             ELSE StatusRead(gen[fr.gn])[d]]
        /\ Recovering /\ Recovering'
        /\ unstable' = unstable /\ wasStarted' = wasStarted /\ stepped' = stepped
        /\ snap' = snap /\ root' = root /\ disk' = disk /\ gnCursor' = gnCursor
        /\ diskCursor' = diskCursor
    BY <1>5 DEF rvy_return_new, Recovering, ghostVars
  <2>2. diskStatus' \in [DiskPages -> {"FREE", "ALLOCATED", "UNKNOWN"}]
    <3>1. StatusRead(gen[fr.gn]) \in [DiskPages -> {"FREE", "ALLOCATED", "UNKNOWN"}]
      BY StatusReadType
    <3>2. QED
      BY <2>1, <3>1
  <2>3. QED
    BY <2>1, <2>2, RecoveryFrame
<1>6. CASE rvy_return_collected
  <2>1. diskStatus' = StatusRead(gen[Head(rvyStack).gn]) /\ Recovering /\ Recovering'
        /\ unstable' = unstable /\ wasStarted' = wasStarted /\ stepped' = stepped
        /\ snap' = snap /\ root' = root /\ disk' = disk /\ gnCursor' = gnCursor
        /\ diskCursor' = diskCursor
    BY <1>6 DEF rvy_return_collected, Recovering, ghostVars
  <2>2. diskStatus' \in [DiskPages -> {"FREE", "ALLOCATED", "UNKNOWN"}]
    BY <2>1, StatusReadType
  <2>3. QED
    BY <2>1, <2>2, RecoveryFrame
<1>7. CASE rvy_batch_returned
  <2>1. diskStatus' = StatusRead(gen[root.gn]) /\ Recovering /\ Recovering'
        /\ unstable' = unstable /\ wasStarted' = wasStarted /\ stepped' = stepped
        /\ snap' = snap /\ root' = root /\ disk' = disk /\ gnCursor' = gnCursor
        /\ diskCursor' = diskCursor
    BY <1>7 DEF rvy_batch_returned, Recovering, gcVars, ghostVars
  <2>2. diskStatus' \in [DiskPages -> {"FREE", "ALLOCATED", "UNKNOWN"}]
    BY <2>1, StatusReadType
  <2>3. QED
    BY <2>1, <2>2, RecoveryFrame
<1>8. QED
  BY <1>1, <1>2, <1>3, <1>4, <1>5, <1>6, <1>7

LEMMA RestartKeepsInv ==
  ASSUME Inv, Restart
  PROVE  Inv'
<1>1. /\ root.exists /\ phase' = "rvy_batch" /\ unstable' = {} /\ wasStarted' = FALSE
      /\ stepped' = FALSE /\ snap' = snap /\ root' = root /\ disk' = disk
      /\ gnCursor' = 0 /\ diskCursor' = 0
      /\ diskStatus' = [d \in DiskPages |-> IF d \in ToSet(root.diskPage)
                                            THEN "ALLOCATED" ELSE "UNKNOWN"]
  BY DEF Restart, ghostVars, InfoOf
<1>2. Recovering' /\ ~Running'
  BY <1>1 DEF Recovering, Running
<1>3. 0 \in DiskPages
  BY PagesAssumption DEF DiskPages
<1>4. snap.exists => SnapOK'
  BY <1>1, SnapKept DEF Inv
<1>5. QED
  BY <1>1, <1>2, <1>3, <1>4 DEF Inv

(* construct_page_freelist lists every free page once.                     *)
LEMMA FreelistComplete ==
  ASSUME NEW S \in SUBSET Pages
  PROVE  LET s == construct_page_freelist(S) IN
         /\ s \in Seq(Pages) /\ Len(s) = Cardinality(S)
         /\ Distinct(s) /\ ToSet(s) = S
<1> DEFINE s == construct_page_freelist(S)
           n == Cardinality(S)
           key == [p \in S |-> NumberOfPages - p]
           above(p) == {q \in S : q > p}
<1>1. NumberOfPages \in Nat /\ NumberOfPages > 0 /\ S \subseteq 0 .. NumberOfPages - 1
  BY PagesAssumption DEF Pages
<1>2. IsFiniteSet(S) /\ n \in Nat
  <2>1. 0 \in Int /\ NumberOfPages - 1 \in Int
    BY <1>1
  <2>2. IsFiniteSet(0 .. NumberOfPages - 1)
    BY <2>1, FS_Interval
  <2>3. QED
    BY <1>1, <2>2, FS_Subset, FS_CardinalityType
<1>3. key \in [S -> Nat] /\ \A x, y \in S : key[x] = key[y] => x = y
  BY <1>1
<1>4. \A p \in S : {q \in S : key[q] < key[p]} = above(p)
  <2>1. TAKE p \in S
  <2>2. ASSUME NEW q \in S PROVE key[q] < key[p] <=> q > p
    <3>1. key[q] = NumberOfPages - q /\ key[p] = NumberOfPages - p
      OBVIOUS
    <3>2. p \in Nat /\ q \in Nat
      BY <1>1
    <3> HIDE DEF key
    <3>3. QED
      BY <1>1, <3>1, <3>2
  <2>3. QED
    BY <2>2
<1>5. ASSUME NEW k \in 1 .. n PROVE \E p \in S : Cardinality(above(p)) = k - 1
  <2>1. \E x \in S : Cardinality({y \in S : key[y] < key[x]}) = k - 1
    <3> HIDE DEF key
    <3>1. QED
      BY <1>2, <1>3, RankExists
  <2>2. QED
    BY <1>4, <2>1
<1>6. s = [i \in 1 .. n |-> CHOOSE p \in S : Cardinality(above(p)) = i - 1]
  BY DEF construct_page_freelist
<1>7. \A i \in 1 .. n : s[i] \in S /\ Cardinality(above(s[i])) = i - 1
  <2>1. TAKE i \in 1 .. n
  <2>2. s[i] = CHOOSE p \in S : Cardinality(above(p)) = i - 1
    BY <1>6
  <2> HIDE DEF above, s
  <2>3. QED
    BY <1>5, <2>2
<1>8. s \in Seq(Pages) /\ Len(s) = n
  <2>1. s \in [1 .. n -> Pages]
    BY <1>6, <1>7
  <2> HIDE DEF s, n
  <2>2. QED
    BY <1>2, <2>1
<1>9. Distinct(s)
  <2> HIDE DEF s, n, above
  <2>1. SUFFICES ASSUME NEW i \in 1 .. n, NEW j \in 1 .. n, s[i] = s[j] PROVE i = j
    BY <1>8 DEF Distinct
  <2>2. i - 1 = j - 1
    BY <1>7, <2>1
  <2>3. QED
    BY <1>2, <2>2
<1>10. ToSet(s) = S
  <2>1. ToSet(s) \in SUBSET S
    <3> HIDE DEF s, n, above
    <3>1. ToSet(s) = {s[i] : i \in 1 .. n}
      BY <1>8, Members
    <3>2. QED
      BY <1>7, <3>1
  <2>2. Cardinality(ToSet(s)) = n
    <3> HIDE DEF s, n
    <3>1. QED
      BY <1>8, <1>9, DistinctCount
  <2>3. QED
    BY <1>2, <2>1, <2>2, FS_Subset
<1>11. QED
  BY <1>8, <1>9, <1>10

LEMMA FinishRecoveryKeepsInv ==
  ASSUME Inv, RecoveredFaithfully, FinishRecovery
  PROVE  Inv'
<1> DEFINE free == {p \in Pages : owner[p] = NoGen}
<1>1. /\ phase = "recovered" /\ phase' = "major"
      /\ freePages' = construct_page_freelist(free)
      /\ owner' = [p \in Pages |-> IF p \in free THEN NoGen ELSE owner[p]]
      /\ diskStatus' = [d \in DiskPages |-> IF diskStatus[d] = "UNKNOWN" THEN "FREE"
                                            ELSE diskStatus[d]]
      /\ gen' = gen /\ order' = order /\ prevTo' = prevTo
      /\ isCollecting' = isCollecting /\ nfree' = nfree
      /\ ngens' = ngens /\ gnCursor' = gnCursor
      /\ diskCursor' = diskCursor /\ disk' = disk /\ unstable' = unstable
      /\ wasStarted' = wasStarted /\ stepped' = stepped /\ snap' = snap /\ root' = root
  BY DEF FinishRecovery, gcVars, ghostVars
<1>2. /\ unstable = {} /\ ~wasStarted /\ ~stepped /\ snap.exists /\ SnapOK
      /\ diskStatus \in [DiskPages -> {"FREE", "ALLOCATED", "UNKNOWN"}]
  BY <1>1 DEF Inv, Recovering
<1>3. Running' /\ ~Recovering'
  BY <1>1 DEF Running, Recovering
<1>4. /\ gen = snap.gen /\ order = snap.order /\ prevTo = snap.prevTo
      /\ isCollecting = snap.isCollecting /\ owner = snap.owner
      /\ nfree = Cardinality(free)
      /\ {d \in DiskPages : diskStatus[d] = "ALLOCATED"}
           = UNION {ToSet(gen[g].diskPage) : g \in Existing}
      /\ ngens \in 1 .. MaxGenerations /\ Existing \subseteq 0 .. ngens - 1
  BY <1>1 DEF RecoveredFaithfully
<1>5. /\ TableOK(gen) /\ OwnerOK(gen, owner) /\ OrderOK(gen, order)
      /\ CollectorOK(gen, order, prevTo, isCollecting) /\ order # <<>>
  BY <1>2, <1>4 DEF SnapOK
<1>6. owner' = owner
  <2>1. owner \in [Pages -> Gens \cup {NoGen}]
    BY <1>5 DEF OwnerOK
  <2>2. QED
    BY <1>1, <2>1
<1>7. TableOK(gen)' /\ OwnerOK(gen, owner)' /\ OrderOK(gen, order)'
      /\ CollectorOK(gen, order, prevTo, isCollecting)'
  BY <1>1, <1>5, <1>6
<1>8. FreeOK'
  <2>1. free \in SUBSET Pages
    OBVIOUS
  <2>2. PICK S : S = free
    OBVIOUS
  <2>3. /\ construct_page_freelist(S) \in Seq(Pages) /\ Distinct(construct_page_freelist(S))
        /\ Len(construct_page_freelist(S)) = Cardinality(S) /\ ToSet(construct_page_freelist(S)) = S
    BY <2>1, <2>2, FreelistComplete
  <2>4. freePages' = construct_page_freelist(S)
    BY <1>1, <2>2
  <2>5. {p \in Pages : owner'[p] = NoGen} = S
    BY <1>6, <2>2
  <2>6. QED
    BY <1>1, <1>4, <2>2, <2>3, <2>4, <2>5 DEF FreeOK
<1>9. \A d \in DiskPages : /\ diskStatus'[d] = "ALLOCATED" <=> diskStatus[d] = "ALLOCATED"
                           /\ diskStatus'[d] # "UNKNOWN"
  BY <1>1
<1>10. DiskOK'
  <2>1. Existing' = Existing
    BY <1>1 DEF Existing
  <2>2. \A d \in DiskPages : diskStatus[d] = "ALLOCATED" <=>
          \E g \in Existing : d \in ToSet(gen[g].diskPage)
    BY <1>4
  <2>3. QED
    BY <1>1, <1>9, <2>1, <2>2 DEF DiskOK
<1>11. NumbersOK'
  <2>1. \A g \in Gens : gen[g].status # "NONEXISTENT" => g \in 0 .. ngens - 1
    BY <1>4 DEF Existing
  <2>2. \A g \in Gens : gen[g].status # "NONEXISTENT" => g < ngens
    BY <1>4, <2>1
  <2>3. QED
    BY <1>1, <1>4, <2>2 DEF NumbersOK
<1>12. WritesOK' /\ PhaseOK'
  BY <1>1, <1>2, <1>5 DEF WritesOK, PhaseOK
<1>13. CoreOK'
  <2>1. ASSUME NEW x \in snap.core PROVE diskStatus'[x[1]] = "ALLOCATED"
    <3>1. x[1] \in DiskPages /\ \E g \in Gens : /\ snap.gen[g].status # "NONEXISTENT"
                                                /\ x[1] \in ToSet(snap.gen[g].diskPage)
      BY <1>2, <2>1 DEF SnapOK
    <3>2. PICK g \in Existing : x[1] \in ToSet(gen[g].diskPage)
      BY <1>4, <3>1 DEF Existing
    <3>3. diskStatus[x[1]] = "ALLOCATED"
      BY <1>4, <3>1, <3>2
    <3>4. QED
      BY <1>9, <3>1, <3>3
  <2>2. QED
    BY <1>1, <2>1 DEF CoreOK
<1>14. RunningOK'
  BY <1>7, <1>8, <1>10, <1>11, <1>12, <1>13 DEF RunningOK
<1>15. SnapOK'
  BY <1>1, <1>2, SnapKept
<1>16. diskStatus' \in [DiskPages -> {"FREE", "ALLOCATED", "UNKNOWN"}]
  BY <1>1, <1>2
<1>17. QED
  BY <1>1, <1>3, <1>14, <1>15, <1>16 DEF Inv

--------------------------------------------------------------------------------
(* Steps that fill a new generation.                                       *)

LEMMA PagesWritten ==
  ASSUME Inv, NEW n \in Nat, NEW contents, DiskHasRoomFor(n), WritePages(n, contents)
  PROVE  /\ DOMAIN disk' = DiskPages /\ diskCursor' \in DiskPages
         /\ diskStatus' \in [DiskPages -> {"FREE", "ALLOCATED", "UNKNOWN"}]
         /\ \A d \in DiskPages :
              IF d \in ToSet(NewDiskPages(n))
              THEN diskStatus[d] = "FREE" /\ diskStatus'[d] = "ALLOCATED"
              ELSE diskStatus'[d] = diskStatus[d] /\ disk'[d] = disk[d]
<1> DEFINE dps == NewDiskPages(n)
<1>1. /\ disk' = Put(disk, dps, contents)
      /\ diskStatus' = Put(diskStatus, dps, [i \in 1 .. n |-> "ALLOCATED"])
      /\ diskCursor' = IF n = 0 THEN diskCursor ELSE (dps[n] + 1) % NumberOfDiskPages
  BY DEF WritePages
<1>2. /\ dps \in Seq(DiskPages) /\ DOMAIN dps = 1 .. n /\ ToSet(dps) \subseteq FreeDisk
      /\ n > 0 => dps[n] \in DiskPages
  BY NewDiskPagesFree
<1> HIDE DEF dps
<1>3. DOMAIN disk = DiskPages /\ diskCursor \in DiskPages
      /\ diskStatus \in [DiskPages -> {"FREE", "ALLOCATED", "UNKNOWN"}]
  BY DEF Inv
<1>4. DOMAIN disk' = DiskPages /\ DOMAIN diskStatus' = DiskPages
      /\ \A d \in DiskPages : d \notin ToSet(dps) => diskStatus'[d] = diskStatus[d]
                                                     /\ disk'[d] = disk[d]
  BY <1>1, <1>3, PutFunction
<1>5. ASSUME NEW d \in DiskPages, d \in ToSet(dps)
      PROVE  diskStatus[d] = "FREE" /\ diskStatus'[d] = "ALLOCATED"
  <2>1. diskStatus[d] = "FREE"
    BY <1>2, <1>5 DEF FreeDisk
  <2>2. d \in DOMAIN diskStatus
    BY <1>3
  <2>3. Put(diskStatus, dps, [i \in 1 .. n |-> "ALLOCATED"])[d] = "ALLOCATED"
    BY <1>2, <1>5, <2>2, PutSame
  <2>4. QED
    BY <1>1, <2>1, <2>3
<1>6. diskStatus' \in [DiskPages -> {"FREE", "ALLOCATED", "UNKNOWN"}]
  <2>1. diskStatus' = [d \in DiskPages |-> diskStatus'[d]]
    BY <1>1, <1>3, PutFunction, SMTT(40)
  <2>2. \A d \in DiskPages : diskStatus'[d] \in {"FREE", "ALLOCATED", "UNKNOWN"}
    BY <1>3, <1>4, <1>5
  <2>3. QED
    BY <2>1, <2>2
<1>7. diskCursor' \in DiskPages
  <2>1. NumberOfDiskPages \in Nat /\ NumberOfDiskPages > 0
    BY PagesAssumption
  <2>2. CASE n = 0
    BY <1>1, <1>3, <2>2
  <2>3. CASE n # 0
    <3>1. dps[n] \in Nat /\ diskCursor' = (dps[n] + 1) % NumberOfDiskPages
      BY <1>1, <1>2, <2>3 DEF DiskPages
    <3>2. QED
      BY <2>1, <3>1 DEF DiskPages
  <2>4. QED
    BY <2>2, <2>3
<1>8. QED
  BY <1>4, <1>5, <1>6, <1>7 DEF dps

(* The last commit's pages are allocated, so the writes leave them alone.  *)
LEMMA WrittenKeepsSnap ==
  ASSUME Inv, Running, NEW n \in Nat, NEW contents, DiskHasRoomFor(n), WritePages(n, contents),
         snap' = snap, phase' # "committed"
  PROVE  (snap.exists => SnapOK') /\ (snap'.exists => CoreOK')
<1>1. SUFFICES ASSUME snap.exists PROVE SnapOK' /\ CoreOK'
  OBVIOUS
<1>2. RunningOK /\ CoreOK /\ SnapOK
  BY <1>1 DEF Inv, RunningOK
<1>3. ASSUME NEW x \in snap.core
      PROVE  disk'[x[1]] = disk[x[1]] /\ diskStatus'[x[1]] = "ALLOCATED"
  <2>1. x[1] \in DiskPages /\ diskStatus[x[1]] = "ALLOCATED"
    BY <1>2 DEF SnapOK, CoreOK
  <2>2. QED
    BY <2>1, PagesWritten
<1>4. SnapOK'
  BY <1>2, <1>3, SnapKept
<1>5. CoreOK'
  BY <1>3 DEF CoreOK
<1>6. QED
  BY <1>4, <1>5

(* The first n free pages, and the free list without them.                 *)
LEMMA FreePagesTaken ==
  ASSUME FreeOK, NEW n \in Nat, n <= Len(freePages)
  PROVE  LET pages == NewPages(n)
             rest == SubSeq(freePages, n + 1, Len(freePages)) IN
         /\ pages \in Seq(Pages) /\ Len(pages) = n /\ DOMAIN pages = 1 .. n /\ Distinct(pages)
         /\ \A p \in ToSet(pages) : p \in Pages /\ owner[p] = NoGen
         /\ rest \in Seq(Pages) /\ Distinct(rest) /\ Len(rest) = Len(freePages) - n
         /\ ToSet(rest) = {p \in Pages : owner[p] = NoGen} \ ToSet(pages)
<1> DEFINE pages == NewPages(n)
           rest == SubSeq(freePages, n + 1, Len(freePages))
<1>1. /\ freePages \in Seq(Pages) /\ Distinct(freePages)
      /\ ToSet(freePages) = {p \in Pages : owner[p] = NoGen}
  BY DEF FreeOK
<1>2. n \in 0 .. Len(freePages)
  BY <1>1
<1>3. pages = SubSeq(freePages, 1, n)
  BY DEF NewPages
<1>4. /\ pages \in Seq(Pages) /\ Len(pages) = n
      /\ rest \in Seq(Pages) /\ Len(rest) = Len(freePages) - n
      /\ ToSet(pages) \cup ToSet(rest) = ToSet(freePages)
      /\ Distinct(pages) /\ Distinct(rest) /\ ToSet(pages) \cap ToSet(rest) = {}
  BY <1>1, <1>2, <1>3, Cut
<1> HIDE DEF pages, rest
<1>5. DOMAIN pages = 1 .. n
  BY <1>4, Members
<1>6. ToSet(rest) = {p \in Pages : owner[p] = NoGen} \ ToSet(pages)
  BY <1>1, <1>4
<1>7. \A p \in ToSet(pages) : p \in Pages /\ owner[p] = NoGen
  BY <1>1, <1>4
<1>8. QED
  BY <1>4, <1>5, <1>6, <1>7 DEF pages, rest

LEMMA CollectFirstKeepsInv ==
  ASSUME Inv, NEW n \in Nat, NEW holder, collect_first_generation(n, holder)
  PROVE  Inv'
<1> DEFINE a == AllocatedGen
           ps == NewPages(n)
           ds == NewDiskPages(n)
           info == [status |-> "NORMAL", page |-> ps, diskPage |-> ds, from |-> {}]
<1>1. /\ phase = "mutator" /\ phase' = "collected" /\ n <= Len(freePages) /\ DiskHasRoomFor(n)
      /\ NGensFor <= MaxGenerations /\ ngens' = NGensFor /\ gnCursor' = AllocatedGen
      /\ gen' = [gen EXCEPT ![a] = info]
      /\ order' = insert_generation_after(NoGen, a)
      /\ owner' = Put(owner, ps, [i \in 1 .. n |-> a])
      /\ freePages' = SubSeq(freePages, n + 1, Len(freePages))
      /\ nfree' = nfree - n
      /\ unstable' = unstable \cup ToSet(ps)
      /\ isCollecting' = isCollecting /\ wasStarted' = wasStarted /\ prevTo' = prevTo
      /\ stepped' = stepped /\ root' = root /\ snap' = snap
  BY DEF collect_first_generation, allocate_generation, gcVars, ghostVars
<1>2. \E contents : WritePages(n, contents)
  BY DEF collect_first_generation
<1>3. Running /\ RunningOK /\ Running' /\ ~Recovering'
  BY <1>1 DEF Inv, Running, Recovering
<1>4. /\ a \in Gens /\ gen[a].status = "NONEXISTENT" /\ a < NGensFor
      /\ ngens <= NGensFor /\ NGensFor \in Nat
  BY <1>1, <1>3, AllocatedGenFree
<1>5. PICK g : g = a
  OBVIOUS
<1>6. PICK pages : pages = ps
  OBVIOUS
<1>7. PICK dps : dps = ds
  OBVIOUS
<1>8. dps \in Seq(DiskPages) /\ \A d \in ToSet(dps) : d \in DiskPages /\ diskStatus[d] = "FREE"
  <2>1. ds \in Seq(DiskPages) /\ ToSet(ds) \subseteq FreeDisk
    BY <1>1, NewDiskPagesFree
  <2>2. QED
    BY <1>7, <2>1 DEF FreeDisk
<1>9. /\ DOMAIN disk' = DiskPages /\ diskCursor' \in DiskPages
      /\ diskStatus' \in [DiskPages -> {"FREE", "ALLOCATED", "UNKNOWN"}]
      /\ \A d \in DiskPages : IF d \in ToSet(dps) THEN diskStatus'[d] = "ALLOCATED"
                              ELSE diskStatus'[d] = diskStatus[d]
  BY <1>1, <1>2, <1>7, PagesWritten
<1>10. (snap.exists => SnapOK') /\ (snap'.exists => CoreOK')
  BY <1>1, <1>2, <1>3, WrittenKeepsSnap
<1>11. /\ pages \in Seq(Pages) /\ Len(pages) = n /\ DOMAIN pages = 1 .. n /\ Distinct(pages)
       /\ \A p \in ToSet(pages) : p \in Pages /\ owner[p] = NoGen
       /\ freePages' \in Seq(Pages) /\ Distinct(freePages') /\ Len(freePages') = Len(freePages) - n
       /\ ToSet(freePages') = {p \in Pages : owner[p] = NoGen} \ ToSet(pages)
  BY <1>1, <1>3, <1>6, FreePagesTaken DEF RunningOK
<1>12. /\ gen \in [Gens -> GenInfo] /\ g \in Gens /\ gen[g].status = "NONEXISTENT"
       /\ NoGen \notin Gens
  <2>1. NoGen \notin Gens
    BY GenerationsAssumption DEF NoGen, Gens
  <2>2. QED
    BY <1>3, <1>4, <1>5, <2>1 DEF RunningOK, TableOK
<1>13. /\ gen' \in [Gens -> GenInfo]
       /\ gen'[g].status = "NORMAL" /\ gen'[g].page = pages /\ gen'[g].diskPage = dps
       /\ gen'[g].from = {}
       /\ \A h \in Gens : h # g => gen'[h] = gen[h]
  <2>1. info \in GenInfo
    BY <1>6, <1>7, <1>8, <1>11 DEF GenInfo, GenStatus
  <2>2. gen' = [gen EXCEPT ![g] = info]
    BY <1>1, <1>5
  <2>3. gen'[g] = info
    BY <1>12, <2>2
  <2>4. QED
    BY <1>6, <1>7, <1>12, <2>1, <2>2, <2>3
<1> HIDE DEF a, ps, ds, info
<1>14. TableOK(gen)'
  <2>1. \A h \in Gens : Distinct(gen'[h].page)
    BY <1>3, <1>11, <1>13 DEF RunningOK, TableOK
  <2>2. \A h \in Gens : gen[h].status # "NONEXISTENT" =>
          ToSet(dps) \cap ToSet(gen[h].diskPage) = {}
    <3>1. SUFFICES ASSUME NEW h \in Gens, gen[h].status # "NONEXISTENT",
                          NEW d \in ToSet(dps), d \in ToSet(gen[h].diskPage)
                   PROVE  FALSE
      OBVIOUS
    <3>2. d \in DiskPages /\ diskStatus[d] = "FREE"
      BY <1>8
    <3>3. diskStatus[d] = "ALLOCATED"
      BY <1>3, <3>1, <3>2 DEF RunningOK, DiskOK, Existing
    <3>4. QED
      BY <3>2, <3>3
  <2>3. \A h, k \in Gens :
          h # k /\ gen'[h].status # "NONEXISTENT" /\ gen'[k].status # "NONEXISTENT"
            => ToSet(gen'[h].diskPage) \cap ToSet(gen'[k].diskPage) = {}
    BY <1>3, <1>13, <2>2, SMTT(40) DEF RunningOK, TableOK
  <2>4. \A h \in Gens : gen'[h].status \in Live =>
          \A k \in gen'[h].from : gen'[k].status = "COLLECTED_ONCE"
    <3>1. TAKE h \in Gens
    <3>2. HAVE gen'[h].status \in Live
    <3>3. CASE h = g
      BY <1>13, <3>3
    <3>4. CASE h # g
      <4>1. gen'[h] = gen[h] /\ gen[h].from \subseteq Gens
        BY <1>12, <1>13, <3>4 DEF GenInfo
      <4>2. \A k \in gen[h].from : gen[k].status = "COLLECTED_ONCE" /\ k \in Gens
        BY <1>3, <3>2, <4>1 DEF RunningOK, TableOK
      <4>3. QED
        BY <1>12, <1>13, <4>1, <4>2
    <3>5. QED
      BY <3>3, <3>4
  <2>5. \A h, k \in Gens : h # k /\ gen'[h].status \in Live /\ gen'[k].status \in Live
          => gen'[h].from \cap gen'[k].from = {}
    BY <1>3, <1>13 DEF RunningOK, TableOK
  <2>6. QED
    BY <1>13, <2>1, <2>3, <2>4, <2>5 DEF TableOK
<1>15. owner \in [Pages -> Gens \cup {NoGen}] /\ owner' \in [Pages -> Gens \cup {NoGen}]
       /\ \A p \in Pages : owner'[p] = IF p \in ToSet(pages) THEN g ELSE owner[p]
  <2>1. owner \in [Pages -> Gens \cup {NoGen}] /\ DOMAIN owner = Pages
    BY <1>3 DEF RunningOK, OwnerOK
  <2>2. owner' = Put(owner, pages, [i \in 1 .. n |-> g])
    BY <1>1, <1>5, <1>6
  <2>3. \A p \in Pages : owner'[p] = IF p \in ToSet(pages) THEN g ELSE owner[p]
    <3>1. TAKE p \in Pages
    <3>2. CASE p \in ToSet(pages)
      <4>1. Put(owner, pages, [i \in 1 .. n |-> g])[p] = g
        BY <1>11, <2>1, <3>2, PutSame
      <4>2. QED
        BY <2>2, <3>2, <4>1
    <3>3. CASE p \notin ToSet(pages)
      BY <2>1, <2>2, <3>3, PutFunction
    <3>4. QED
      BY <3>2, <3>3
  <2>4. owner' = [p \in Pages |-> owner'[p]]
    BY <2>1, <2>2, PutFunction
  <2>5. QED
    BY <1>12, <2>1, <2>3, <2>4
<1>16. OwnerOK(gen, owner)'
  <2>1. ASSUME NEW p \in Pages, NEW h \in Gens
        PROVE  owner'[p] = h <=> gen'[h].status \in Live /\ p \in ToSet(gen'[h].page)
    <3>1. owner[p] = h <=> gen[h].status \in Live /\ p \in ToSet(gen[h].page)
      BY <1>3 DEF RunningOK, OwnerOK
    <3>2. CASE h = g
      BY <1>12, <1>13, <1>15, <3>1, <3>2 DEF Live
    <3>3. CASE h # g
      BY <1>11, <1>12, <1>13, <1>15, <3>1, <3>3
    <3>4. QED
      BY <3>2, <3>3
  <2>2. QED
    BY <1>15, <2>1 DEF OwnerOK
<1>17. /\ order \in Seq(Gens) /\ Distinct(order) /\ Len(order) \in Nat
       /\ ToSet(order) = {h \in Gens : gen[h].status \in Live} /\ g \notin ToSet(order)
       /\ \A i \in 1 .. Len(order) : order[i] \in Gens /\ order[i] # g
  <2>1. order \in Seq(Gens) /\ Distinct(order)
        /\ ToSet(order) = {h \in Gens : gen[h].status \in Live}
    BY <1>3 DEF RunningOK, OrderOK
  <2>2. g \notin ToSet(order)
    BY <1>12, <2>1 DEF Live
  <2>3. QED
    BY <2>1, <2>2, Members
<1>18. /\ order' = <<g>> \o order
       /\ Len(order') = Len(order) + 1 /\ order'[1] = g
       /\ \A i \in 1 .. Len(order) : order'[i + 1] = order[i]
  <2>1. order' = <<g>> \o order
    BY <1>1, <1>5 DEF insert_generation_after
  <2>2. QED
    BY <1>17, <2>1
<1>19. order' \in Seq(Gens) /\ Distinct(order') /\ ToSet(order') = ToSet(order) \cup {g}
  <2>1. <<g>> \in Seq(Gens) /\ ToSet(<<g>>) = {g} /\ Distinct(<<g>>)
    BY <1>12, Single
  <2>2. /\ <<g>> \o order \in Seq(Gens)
        /\ ToSet(<<g>> \o order) = ToSet(<<g>>) \cup ToSet(order)
        /\ Distinct(<<g>>) /\ Distinct(order) /\ ToSet(<<g>>) \cap ToSet(order) = {}
             => Distinct(<<g>> \o order)
    BY <1>17, <2>1, Joined
  <2>3. QED
    BY <1>17, <1>18, <2>1, <2>2
<1>20. OrderOK(gen, order)'
  <2>1. ToSet(order') = {h \in Gens : gen'[h].status \in Live}
    BY <1>12, <1>13, <1>17, <1>19 DEF Live
  <2>2. ASSUME NEW i \in 1 .. Len(order'), NEW j \in 1 .. Len(order'), i < j,
               gen'[order'[i]].status = "TO_BE_COLLECTED"
        PROVE  gen'[order'[j]].status = "TO_BE_COLLECTED"
    <3>1. i # 1
      BY <1>13, <1>18, <2>2
    <3>2. PICK k, l : k = i - 1 /\ l = j - 1
      OBVIOUS
    <3>3. /\ k \in 1 .. Len(order) /\ l \in 1 .. Len(order) /\ k < l
          /\ k + 1 = i /\ l + 1 = j
      BY <1>17, <1>18, <2>2, <3>1, <3>2
    <3>4. order'[i] = order[k] /\ order'[j] = order[l]
      BY <1>18, <3>3
    <3>5. gen'[order[k]] = gen[order[k]] /\ gen'[order[l]] = gen[order[l]]
      BY <1>13, <1>17, <3>3
    <3>6. QED
      BY <1>3, <2>2, <3>3, <3>4, <3>5 DEF RunningOK, OrderOK
  <2>3. QED
    BY <1>19, <2>1, <2>2 DEF OrderOK
<1>21. CollectorOK(gen, order, prevTo, isCollecting)'
  <2>1. CollectorOK(gen, order, prevTo, isCollecting)
    BY <1>3 DEF RunningOK
  <2>2. \A h \in Gens : gen'[h].status = "TO_BE_COLLECTED" <=> gen[h].status = "TO_BE_COLLECTED"
    BY <1>12, <1>13
  <2>3. ASSUME prevTo # NoGen
        PROVE  \E i \in 1 .. Len(order') - 1 :
                 /\ order'[i] = prevTo /\ gen'[order'[i]].status = "NORMAL"
                 /\ gen'[order'[i + 1]].status = "TO_BE_COLLECTED"
    <3>1. PICK i \in 1 .. Len(order) - 1 :
            /\ order[i] = prevTo /\ gen[order[i]].status = "NORMAL"
            /\ gen[order[i + 1]].status = "TO_BE_COLLECTED"
      BY <2>1, <2>3 DEF CollectorOK
    <3>2. /\ i \in 1 .. Len(order) /\ i + 1 \in 1 .. Len(order)
          /\ i + 1 \in 1 .. Len(order') - 1
      BY <1>17, <1>18
    <3>3. order'[i + 1] = order[i] /\ order'[(i + 1) + 1] = order[i + 1]
      BY <1>18, <3>2
    <3>4. gen'[order[i]] = gen[order[i]] /\ gen'[order[i + 1]] = gen[order[i + 1]]
      BY <1>13, <1>17, <3>2
    <3>5. QED
      BY <3>1, <3>2, <3>3, <3>4
  <2>4. QED
    BY <1>1, <2>1, <2>2, <2>3 DEF CollectorOK
<1>22. FreeOK'
  <2>1. {p \in Pages : owner'[p] = NoGen} = {p \in Pages : owner[p] = NoGen} \ ToSet(pages)
    BY <1>12, <1>15
  <2>2. nfree' = Len(freePages')
    BY <1>1, <1>3, <1>11 DEF RunningOK, FreeOK
  <2>3. QED
    BY <1>11, <2>1, <2>2 DEF FreeOK
<1>23. DiskOK'
  <2>1. ASSUME NEW d \in DiskPages
        PROVE  /\ diskStatus'[d] = "ALLOCATED" <=>
                    \E h \in Gens : gen'[h].status # "NONEXISTENT" /\ d \in ToSet(gen'[h].diskPage)
               /\ diskStatus'[d] # "UNKNOWN"
    <3>1. /\ diskStatus[d] = "ALLOCATED" <=>
               \E h \in Gens : gen[h].status # "NONEXISTENT" /\ d \in ToSet(gen[h].diskPage)
          /\ diskStatus[d] # "UNKNOWN"
      BY <1>3 DEF RunningOK, DiskOK, Existing
    <3>2. QED
      BY <1>9, <1>12, <1>13, <3>1
  <2>2. QED
    BY <2>1 DEF DiskOK, Existing
<1>24. NumbersOK'
  <2>1. ngens \in 1 .. MaxGenerations /\ MaxGenerations \in Nat
        /\ \A h \in Gens : gen[h].status # "NONEXISTENT" => h < ngens
    BY <1>3, GenerationsAssumption DEF RunningOK, NumbersOK
  <2>2. ngens' \in 1 .. MaxGenerations /\ ngens <= ngens' /\ g < ngens'
    BY <1>1, <1>4, <1>5, <2>1 DEF a
  <2>3. \A h \in Gens : h \in Nat
    BY DEF Gens
  <2>4. ASSUME NEW h \in Gens, gen'[h].status # "NONEXISTENT" PROVE h < ngens'
    <3>1. CASE h = g
      BY <2>2, <3>1
    <3>2. CASE h # g
      <4>1. h < ngens
        BY <1>13, <2>1, <2>4, <3>2
      <4>2. QED
        BY <2>1, <2>2, <2>3, <4>1
    <3>3. QED
      BY <3>1, <3>2
  <2>5. QED
    BY <2>2, <2>4 DEF NumbersOK
<1>25. WritesOK'
  <2>1. WritesOK
    BY <1>3 DEF RunningOK
  <2>2. unstable' = unstable \cup ToSet(pages)
    BY <1>1, <1>6
  <2>3. QED
    BY <1>1, <1>11, <1>12, <1>15, <2>1, <2>2 DEF WritesOK
<1>26. PhaseOK'
  <2>1. order' # <<>>
    BY <1>17, <1>18
  <2>2. QED
    BY <1>1, <1>3, <2>1 DEF RunningOK, PhaseOK
<1>27. RunningOK'
  BY <1>10, <1>14, <1>16, <1>20, <1>21, <1>22, <1>23, <1>24, <1>25, <1>26 DEF RunningOK
<1>28. gnCursor' \in Nat
  BY <1>1, <1>4 DEF a, Gens
<1>29. QED
  BY <1>1, <1>3, <1>9, <1>10, <1>27, <1>28 DEF Inv

(* A step of the collector takes generations from the oldest ones, all of  *)
(* which are to be collected, and none before them is.                     *)
LEMMA StepRange ==
  ASSUME RunningOK, phase = "step"
  PROVE  /\ FirstFrom \in 1 .. Len(order)
         /\ FromCount(FirstFrom) \in 1 .. Len(order) - FirstFrom + 1
         /\ \A j \in FirstFrom .. Len(order) : gen[order[j]].status = "TO_BE_COLLECTED"
         /\ \A j \in 1 .. FirstFrom - 1 : gen[order[j]].status # "TO_BE_COLLECTED"
<1> DEFINE n == Len(order)
           Marked(j) == gen[order[j]].status = "TO_BE_COLLECTED"
           marked == {j \in 1 .. n : Marked(j)}
<1>1. /\ order \in Seq(Gens) /\ n \in Nat /\ isCollecting /\ Distinct(order)
      /\ ToSet(order) = {g \in Gens : gen[g].status \in Live}
      /\ \A i, j \in 1 .. n : i < j /\ Marked(i) => Marked(j)
      /\ CollectorOK(gen, order, prevTo, isCollecting)
  BY DEF RunningOK, OrderOK, PhaseOK
<1>2. \E i \in 1 .. n : Marked(i) /\ \A j \in 1 .. i - 1 : ~Marked(j)
  <2>1. PICK g \in Gens : gen[g].status = "TO_BE_COLLECTED"
    BY <1>1 DEF CollectorOK
  <2>2. g \in ToSet(order) /\ ToSet(order) = {order[j] : j \in 1 .. n}
    BY <1>1, <2>1, Members DEF Live
  <2>3. marked # {} /\ marked \in SUBSET Nat
    BY <1>1, <2>1, <2>2
  <2>4. PICK i \in marked : \A j \in marked : i <= j
    BY <2>3, SmallestNumber
  <2>5. i \in 1 .. n /\ Marked(i)
    BY <2>4
  <2>6. ASSUME NEW j \in 1 .. i - 1, Marked(j) PROVE FALSE
    <3>1. j \in marked /\ j < i /\ j \in Nat /\ i \in Nat
      BY <1>1, <2>5, <2>6
    <3> HIDE DEF marked
    <3>2. QED
      BY <2>4, <3>1
  <2>7. QED
    BY <2>5, <2>6
<1>3. FirstFrom \in 1 .. n /\ Marked(FirstFrom) /\ \A j \in 1 .. FirstFrom - 1 : ~Marked(j)
  <2>1. CASE prevTo = NoGen
    <3>1. FirstFrom = CHOOSE i \in 1 .. n : Marked(i) /\ \A j \in 1 .. i - 1 : ~Marked(j)
      BY <2>1 DEF FirstFrom
    <3> HIDE DEF Marked, n
    <3>2. QED
      BY <1>2, <3>1
  <2>2. CASE prevTo # NoGen
    <3>1. PICK i \in 1 .. n - 1 : /\ order[i] = prevTo /\ gen[order[i]].status = "NORMAL"
                                  /\ Marked(i + 1)
      BY <1>1, <2>2 DEF CollectorOK
    <3>2. i \in 1 .. n /\ i + 1 \in 1 .. n /\ i \in Nat
      BY <1>1
    <3>3. IndexOf(prevTo) \in 1 .. n /\ order[IndexOf(prevTo)] = prevTo
      BY <3>1, <3>2 DEF IndexOf
    <3>4. IndexOf(prevTo) = i
      BY <1>1, <3>1, <3>2, <3>3 DEF Distinct
    <3>5. FirstFrom = i + 1
      BY <2>2, <3>4 DEF FirstFrom
    <3>6. ~Marked(i)
      BY <3>1
    <3>7. ASSUME NEW j \in 1 .. FirstFrom - 1 PROVE ~Marked(j)
      <4>1. j \in 1 .. n /\ (j = i \/ j < i)
        BY <1>1, <3>2, <3>5
      <4> HIDE DEF Marked, n
      <4>2. QED
        BY <1>1, <3>2, <3>6, <4>1
    <3>8. QED
      BY <3>1, <3>2, <3>5, <3>7
  <2>3. QED
    BY <2>1, <2>2
<1>4. PICK i : i = FirstFrom
  OBVIOUS
<1>5. i \in 1 .. n /\ i \in Nat /\ n \in Nat
  BY <1>1, <1>3, <1>4
<1>6. FromCount(i) \in 1 .. n - i + 1
  <2> DEFINE ks == {k \in 1 .. n - i + 1 :
                      \A m \in 2 .. k : /\ gen[order[i + m - 1]].status = "TO_BE_COLLECTED"
                                        /\ PagesIn(i, m) < MatureLimit}
  <2>1. FromCount(i) = Max(ks)
    BY DEF FromCount
  <2>2. 1 \in ks
    <3>1. 1 \in 1 .. n - i + 1 /\ 2 .. 1 = {}
      BY <1>5
    <3>2. QED
      BY <3>1
  <2>3. ks \subseteq 1 .. n - i + 1
    OBVIOUS
  <2> HIDE DEF ks, n
  <2>4. n - i + 1 \in Nat /\ ks \in SUBSET Nat /\ ks # {} /\ \A k \in ks : k <= n - i + 1
    BY <1>5, <2>2, <2>3
  <2>5. Max(ks) \in ks
    BY <2>4, LargestNumber
  <2>6. QED
    BY <2>1, <2>3, <2>5
<1>7. ASSUME NEW j \in i .. n PROVE Marked(j)
  <2>1. j \in 1 .. n /\ (j = i \/ i < j)
    BY <1>5
  <2> HIDE DEF Marked, n
  <2>2. QED
    BY <1>1, <1>3, <1>4, <1>5, <2>1
<1>8. QED
  BY <1>3, <1>4, <1>6, <1>7

(* free_page is called once for every page of the generations collected.   *)
LEMMA PagesOfStep ==
  ASSUME gen \in [Gens -> GenInfo], order \in Seq(Gens), Distinct(order),
         NEW i \in Nat, NEW k \in Nat, i > 0, i + k - 1 <= Len(order),
         \A q \in i .. i + k - 1 : Distinct(gen[order[q]].page),
         \A q, s \in i .. i + k - 1 : q # s =>
           ToSet(gen[order[q]].page) \cap ToSet(gen[order[s]].page) = {}
  PROVE  /\ FromPages(i, k) \in Seq(Pages) /\ Distinct(FromPages(i, k))
         /\ \A p \in Pages : p \in ToSet(FromPages(i, k)) <=>
              \E j \in i .. i + k - 1 : p \in ToSet(gen[order[j]].page)
<1> DEFINE ss == [j \in 1 .. k |-> gen[order[i + j - 1]].page]
<1>1. Len(order) \in Nat
  OBVIOUS
<1>2. ASSUME NEW j \in 1 .. k
      PROVE  /\ i + j - 1 \in 1 .. Len(order) /\ i + j - 1 \in i .. i + k - 1
             /\ order[i + j - 1] \in Gens
             /\ ss[j] = gen[order[i + j - 1]].page
  <2>1. i + j - 1 \in 1 .. Len(order) /\ i + j - 1 \in i .. i + k - 1
    BY <1>1
  <2>2. QED
    BY <2>1
<1>3. \A j \in 1 .. k : ss[j] \in Seq(Pages) /\ Distinct(ss[j])
  BY <1>2 DEF GenInfo
<1>4. ss \in Seq(Seq(Pages)) /\ Len(ss) = k
  <2>1. ss \in [1 .. k -> Seq(Pages)]
    BY <1>3
  <2> HIDE DEF ss
  <2>2. QED
    BY <2>1
<1>5. ASSUME NEW j \in 1 .. k, NEW l \in 1 .. k, j # l
      PROVE  ToSet(ss[j]) \cap ToSet(ss[l]) = {}
  <2>1. i + j - 1 # i + l - 1
    BY <1>5
  <2>2. QED
    BY <1>2, <2>1
<1>6. FromPages(i, k) = FlattenSeq(ss)
  BY DEF FromPages
<1> HIDE DEF ss
<1>7. /\ FlattenSeq(ss) \in Seq(Pages) /\ Distinct(FlattenSeq(ss))
      /\ ToSet(FlattenSeq(ss)) = UNION {ToSet(ss[j]) : j \in 1 .. k}
  BY <1>3, <1>4, <1>5, Flattened
<1>8. ASSUME NEW p
      PROVE  p \in ToSet(FlattenSeq(ss)) <=> \E j \in i .. i + k - 1 : p \in ToSet(gen[order[j]].page)
  <2>1. p \in ToSet(FlattenSeq(ss)) <=> \E j \in 1 .. k : p \in ToSet(ss[j])
    BY <1>7
  <2>2. ASSUME NEW j \in i .. i + k - 1 PROVE j - i + 1 \in 1 .. k /\ i + (j - i + 1) - 1 = j
    OBVIOUS
  <2>3. ASSUME NEW j \in i .. i + k - 1, p \in ToSet(gen[order[j]].page)
        PROVE  \E l \in 1 .. k : p \in ToSet(ss[l])
    <3>1. PICK l : l = j - i + 1
      OBVIOUS
    <3>2. l \in 1 .. k /\ i + l - 1 = j
      BY <2>2, <3>1
    <3>3. ss[l] = gen[order[j]].page
      BY <1>2, <3>2
    <3>4. QED
      BY <2>3, <3>2, <3>3
  <2>4. QED
    BY <1>2, <2>1, <2>3
<1>9. QED
  BY <1>6, <1>7, <1>8

LEMMA CollectedPages ==
  ASSUME TableOK(gen), OwnerOK(gen, owner), OrderOK(gen, order),
         NEW i \in Nat, NEW k \in Nat, i > 0, i + k - 1 <= Len(order)
  PROVE  /\ FromPages(i, k) \in Seq(Pages) /\ Distinct(FromPages(i, k))
         /\ \A p \in Pages : p \in ToSet(FromPages(i, k)) <=>
              \E j \in i .. i + k - 1 : p \in ToSet(gen[order[j]].page)
<1>1. /\ order \in Seq(Gens) /\ Len(order) \in Nat /\ Distinct(order)
      /\ ToSet(order) = {g \in Gens : gen[g].status \in Live}
      /\ gen \in [Gens -> GenInfo]
  BY DEF OrderOK, TableOK
<1>2. ASSUME NEW j \in i .. i + k - 1
      PROVE  /\ Distinct(gen[order[j]].page)
             /\ \A p \in ToSet(gen[order[j]].page) : owner[p] = order[j]
  <2>1. j \in 1 .. Len(order)
    BY <1>1
  <2>2. order[j] \in Gens /\ gen[order[j]].status \in Live
    BY <1>1, <2>1, Members
  <2>3. Distinct(gen[order[j]].page) /\ gen[order[j]].page \in Seq(Pages)
    BY <1>1, <2>2 DEF TableOK, GenInfo
  <2>4. ToSet(gen[order[j]].page) \subseteq Pages
    BY <2>3, Members
  <2>5. QED
    BY <2>2, <2>3, <2>4, ZenonT(60) DEF OwnerOK
<1>3. \A q \in i .. i + k - 1 : Distinct(gen[order[q]].page)
  BY <1>2
<1>4. ASSUME NEW q \in i .. i + k - 1, NEW s \in i .. i + k - 1, q # s
      PROVE  ToSet(gen[order[q]].page) \cap ToSet(gen[order[s]].page) = {}
  <2>1. order[q] # order[s]
    BY <1>1, <1>4 DEF Distinct
  <2>2. QED
    BY <1>2, <2>1
<1>5. QED
  BY ONLY <1>1, <1>3, <1>4, i \in Nat, k \in Nat, i > 0, i + k - 1 <= Len(order), PagesOfStep

LEMMA JoinedAt ==
  ASSUME NEW S, NEW s \in Seq(S), NEW t \in Seq(S)
  PROVE  /\ s \o t \in Seq(S) /\ Len(s \o t) = Len(s) + Len(t)
         /\ Len(s) \in Nat /\ Len(t) \in Nat
         /\ \A j \in 1 .. Len(s) : (s \o t)[j] = s[j]
         /\ \A j \in Len(s) + 1 .. Len(s) + Len(t) : (s \o t)[j] = t[j - Len(s)]
<1>1. /\ s \o t \in Seq(S) /\ Len(s \o t) = Len(s) + Len(t)
      /\ Len(s) \in Nat /\ Len(t) \in Nat
      /\ \A i \in 1 .. Len(s) + Len(t) : (s \o t)[i] = IF i <= Len(s) THEN s[i] ELSE t[i - Len(s)]
  OBVIOUS
<1>2. QED
  BY <1>1

(* A sequence o with x in place of k elements from position i on.          *)
Splice(o, i, k, x) == SubSeq(o, 1, i - 1) \o <<x>> \o SubSeq(o, i + k, Len(o))

LEMMA Spliced ==
  ASSUME NEW S, NEW o \in Seq(S), Distinct(o), NEW i \in 1 .. Len(o),
         NEW k \in 1 .. Len(o) - i + 1, NEW x \in S, x \notin ToSet(o)
  PROVE  LET u == Splice(o, i, k, x) IN
         /\ u \in Seq(S) /\ Distinct(u) /\ Len(u) = Len(o) - k + 1
         /\ \A j \in 1 .. i - 1 : u[j] = o[j]
         /\ u[i] = x
         /\ \A j \in i + 1 .. Len(u) : u[j] = o[j + k - 1]
         /\ ToSet(u) = (ToSet(o) \ {o[j] : j \in i .. i + k - 1}) \cup {x}
<1> DEFINE a == SubSeq(o, 1, i - 1)
           b == SubSeq(o, i + k, Len(o))
           v == a \o <<x>>
           u == v \o b
<1>1. /\ Len(o) \in Nat /\ i \in Nat /\ k \in Nat /\ i >= 1 /\ k >= 1
      /\ i - 1 \in 0 .. Len(o) /\ i + k - 1 \in 0 .. Len(o) /\ (i + k - 1) + 1 = i + k
      /\ i - 1 \in Nat
  OBVIOUS
<1>2. /\ a \in Seq(S) /\ Len(a) = i - 1 /\ \A j \in 1 .. i - 1 : a[j] = o[j]
      /\ ToSet(a) = {o[j] : j \in 1 .. i - 1} /\ Distinct(a) /\ ToSet(a) \subseteq ToSet(o)
  BY <1>1, Cut
<1>3. /\ b \in Seq(S) /\ Len(b) = Len(o) - (i + k - 1)
      /\ \A j \in 1 .. Len(o) - (i + k - 1) : b[j] = o[(i + k - 1) + j]
      /\ ToSet(b) = {o[j] : j \in i + k .. Len(o)} /\ Distinct(b) /\ ToSet(b) \subseteq ToSet(o)
  <2>1. PICK m : m = i + k - 1
    OBVIOUS
  <2>2. m \in 0 .. Len(o) /\ b = SubSeq(o, m + 1, Len(o)) /\ m + 1 = i + k
    BY <1>1, <2>1
  <2>0. o \in Seq(S) /\ Distinct(o)
    OBVIOUS
  <2> HIDE DEF b
  <2>3. /\ b \in Seq(S) /\ Len(b) = Len(o) - m
        /\ \A j \in 1 .. Len(o) - m : b[j] = o[m + j]
        /\ ToSet(b) = {o[j] : j \in m + 1 .. Len(o)} /\ Distinct(b) /\ ToSet(b) \subseteq ToSet(o)
    <3>1. LET c == SubSeq(o, m + 1, Len(o)) IN
          /\ c \in Seq(S) /\ Len(c) = Len(o) - m /\ \A j \in 1 .. Len(o) - m : c[j] = o[m + j]
          /\ ToSet(c) = {o[j] : j \in m + 1 .. Len(o)} /\ Distinct(c) /\ ToSet(c) \subseteq ToSet(o)
      BY ONLY <2>0, <2>2, CutBack
    <3>2. QED
      BY ONLY <2>2, <3>1, Zenon
  <2>4. QED
    BY <2>1, <2>2, <2>3
<1> HIDE DEF a, b
<1>4. v \in Seq(S) /\ Len(v) = i /\ v[i] = x /\ \A j \in 1 .. i - 1 : v[j] = o[j]
  <2>1. <<x>> \in Seq(S) /\ Len(<<x>>) = 1 /\ <<x>>[1] = x
    OBVIOUS
  <2>2. PICK t : t = <<x>>
    OBVIOUS
  <2>3. /\ a \o t \in Seq(S) /\ Len(a \o t) = Len(a) + Len(t)
        /\ \A j \in 1 .. Len(a) : (a \o t)[j] = a[j]
        /\ \A j \in Len(a) + 1 .. Len(a) + Len(t) : (a \o t)[j] = t[j - Len(a)]
    <3>1. a \in Seq(S) /\ t \in Seq(S)
      BY <1>2, <2>1, <2>2
    <3>2. QED
      BY ONLY <3>1, JoinedAt
  <2>4. v = a \o t /\ Len(t) = 1 /\ t[1] = x
    BY <2>1, <2>2
  <2>5. /\ Len(a) + Len(t) = i /\ i \in Len(a) + 1 .. Len(a) + Len(t) /\ i - Len(a) = 1
    BY <1>1, <1>2, <2>4
  <2> HIDE DEF v
  <2>6. v[i] = t[i - Len(a)]
    BY <2>3, <2>4, <2>5
  <2>7. QED
    BY <1>2, <2>3, <2>4, <2>5, <2>6
<1>5. ToSet(v) = ToSet(a) \cup {x} /\ Distinct(v)
  <2>1. <<x>> \in Seq(S) /\ ToSet(<<x>>) = {x} /\ Distinct(<<x>>)
    BY Single
  <2>2. x \notin ToSet(a)
    BY <1>2
  <2>3. PICK t : t = <<x>>
    OBVIOUS
  <2>4. /\ ToSet(a \o t) = ToSet(a) \cup ToSet(t)
        /\ Distinct(a) /\ Distinct(t) /\ ToSet(a) \cap ToSet(t) = {} => Distinct(a \o t)
    <3>1. a \in Seq(S) /\ t \in Seq(S)
      BY <1>2, <2>1, <2>3
    <3>2. QED
      BY ONLY <3>1, Joined
  <2>5. QED
    BY <1>2, <2>1, <2>2, <2>3, <2>4
<1> HIDE DEF v
<1>6. /\ u \in Seq(S) /\ Len(u) = Len(v) + Len(b)
      /\ \A j \in 1 .. Len(v) : u[j] = v[j]
      /\ \A j \in Len(v) + 1 .. Len(u) : u[j] = b[j - Len(v)]
  <2>1. v \in Seq(S) /\ b \in Seq(S)
    BY <1>3, <1>4
  <2>2. /\ u \in Seq(S) /\ Len(u) = Len(v) + Len(b)
        /\ \A j \in 1 .. Len(v) : u[j] = v[j]
        /\ \A j \in Len(v) + 1 .. Len(v) + Len(b) : u[j] = b[j - Len(v)]
    BY ONLY <2>1, JoinedAt
  <2> HIDE DEF u
  <2>3. QED
    BY <2>2
<1>7. Len(u) = Len(o) - k + 1
  BY <1>1, <1>3, <1>4, <1>6
<1>8. \A j \in 1 .. i - 1 : u[j] = o[j]
  <2>1. \A j \in 1 .. i - 1 : j \in 1 .. i
    BY <1>1
  <2>2. QED
    BY <1>4, <1>6, <2>1
<1>9. u[i] = x
  BY <1>1, <1>4, <1>6
<1> HIDE DEF u
<1>10. ASSUME NEW j \in i + 1 .. Len(u) PROVE u[j] = o[j + k - 1]
  <2>1. u[j] = b[j - i]
    BY <1>4, <1>6
  <2>2. j - i \in 1 .. Len(o) - (i + k - 1) /\ (i + k - 1) + (j - i) = j + k - 1
    BY <1>1, <1>7
  <2>3. b[j - i] = o[(i + k - 1) + (j - i)]
    BY <1>3, <2>2
  <2>4. QED
    BY <2>1, <2>2, <2>3
<1>11. ASSUME NEW j \in 1 .. Len(o), NEW l \in 1 .. Len(o), o[j] = o[l] PROVE j = l
  BY <1>11 DEF Distinct
<1>12. ToSet(v) \cap ToSet(b) = {}
  <2>1. ToSet(a) \cap ToSet(b) = {}
    <3>1. SUFFICES ASSUME NEW j \in 1 .. i - 1, NEW l \in i + k .. Len(o), o[j] = o[l] PROVE FALSE
      BY <1>2, <1>3
    <3>2. j \in 1 .. Len(o) /\ l \in 1 .. Len(o) /\ j # l
      BY <1>1
    <3>3. QED
      BY <1>11, <3>1, <3>2
  <2>2. QED
    BY <1>3, <1>5, <2>1
<1>13. ToSet(u) = ToSet(v) \cup ToSet(b) /\ Distinct(u)
  BY <1>3, <1>4, <1>5, <1>12, Joined DEF u
<1>14. ToSet(u) = (ToSet(o) \ {o[j] : j \in i .. i + k - 1}) \cup {x}
  <2> DEFINE F == {o[j] : j \in i .. i + k - 1}
  <2>1. ToSet(o) = {o[j] : j \in 1 .. Len(o)}
    BY Members
  <2>2. ASSUME NEW j \in 1 .. Len(o)
        PROVE  o[j] \in ToSet(o) \ F <=> j \in 1 .. i - 1 \/ j \in i + k .. Len(o)
    <3>1. o[j] \in F <=> j \in i .. i + k - 1
      <4>1. ASSUME NEW l \in i .. i + k - 1, o[j] = o[l] PROVE j \in i .. i + k - 1
        <5>1. l \in 1 .. Len(o)
          BY <1>1
        <5>2. QED
          BY <1>11, <4>1, <5>1
      <4>2. QED
        BY <4>1
    <3>2. o[j] \in ToSet(o)
      BY <2>1
    <3>3. j \in i .. i + k - 1 <=> ~(j \in 1 .. i - 1 \/ j \in i + k .. Len(o))
      BY <1>1
    <3> HIDE DEF F
    <3>4. QED
      BY <3>1, <3>2, <3>3
  <2>3. \A j : j \in 1 .. i - 1 \/ j \in i + k .. Len(o) => j \in 1 .. Len(o)
    BY <1>1
  <2>4. ToSet(o) \ F = {o[j] : j \in 1 .. i - 1} \cup {o[j] : j \in i + k .. Len(o)}
    <3> HIDE DEF F
    <3>1. QED
      BY <2>1, <2>2, <2>3
  <2>5. QED
    BY <1>2, <1>3, <1>5, <1>13, <2>4
<1>15. Splice(o, i, k, x) = u
  BY DEF Splice, u, v, a, b
<1>16. QED
  BY <1>6, <1>7, <1>8, <1>9, <1>10, <1>13, <1>14, <1>15

LEMMA MajorStepKeepsInv ==
  ASSUME Inv, NEW n \in Nat, NEW again \in BOOLEAN, major_gc_step(n, again)
  PROVE  Inv'
<1> DEFINE a == AllocatedGen
           ps == NewPages(n)
           ds == NewDiskPages(n)
           table == [gen EXCEPT ![a] = [status |-> "NORMAL", page |-> ps,
                                        diskPage |-> ds, from |-> {}]]
<1>1. PICK i, k, gone : i = FirstFrom /\ k = FromCount(i) /\ gone = FromPages(i, k)
  OBVIOUS
<1>2. /\ phase = "step" /\ phase' = (IF again THEN "major" ELSE "mutator")
      /\ n <= Len(freePages) /\ DiskHasRoomFor(n)
      /\ NGensFor <= MaxGenerations /\ ngens' = NGensFor /\ gnCursor' = AllocatedGen
      /\ gen' = CollectedOnce(table, i, k, a)
      /\ order' = OrderAfterStep(i, k, a)
      /\ owner' = [p \in Pages |-> CASE p \in ToSet(ps) -> a
                                     [] p \in ToSet(gone) -> NoGen
                                     [] OTHER -> owner[p]]
      /\ freePages' = Reverse(gone) \o SubSeq(freePages, n + 1, Len(freePages))
      /\ nfree' = nfree - n + Len(gone)
      /\ unstable' = unstable \cup ToSet(ps)
      /\ prevTo' = (IF MoreToCollect(i, k) THEN a ELSE NoGen)
      /\ isCollecting' = MoreToCollect(i, k)
      /\ wasStarted' = wasStarted /\ stepped' = stepped /\ root' = root /\ snap' = snap
  BY <1>1 DEF major_gc_step, allocate_generation, ghostVars
<1>3. \E contents : WritePages(n, contents)
  BY DEF major_gc_step
<1>4. Running /\ RunningOK /\ Running' /\ ~Recovering'
  BY <1>2 DEF Inv, Running, Recovering
<1>5. /\ a \in Gens /\ gen[a].status = "NONEXISTENT" /\ a < NGensFor
      /\ ngens <= NGensFor /\ NGensFor \in Nat
  BY <1>2, <1>4, AllocatedGenFree
<1>6. PICK g, pages, dps : g = a /\ pages = ps /\ dps = ds
  OBVIOUS
<1>7. dps \in Seq(DiskPages) /\ \A d \in ToSet(dps) : d \in DiskPages /\ diskStatus[d] = "FREE"
  <2>1. ds \in Seq(DiskPages) /\ ToSet(ds) \subseteq FreeDisk
    BY <1>2, NewDiskPagesFree
  <2>2. QED
    BY <1>6, <2>1 DEF FreeDisk
<1>8. /\ DOMAIN disk' = DiskPages /\ diskCursor' \in DiskPages
      /\ diskStatus' \in [DiskPages -> {"FREE", "ALLOCATED", "UNKNOWN"}]
      /\ \A d \in DiskPages : IF d \in ToSet(dps) THEN diskStatus'[d] = "ALLOCATED"
                              ELSE diskStatus'[d] = diskStatus[d]
  BY <1>2, <1>3, <1>6, PagesWritten
<1>9. (snap.exists => SnapOK') /\ (snap'.exists => CoreOK')
  BY <1>2, <1>3, <1>4, WrittenKeepsSnap
<1>10. PICK rest : rest = SubSeq(freePages, n + 1, Len(freePages))
  OBVIOUS
<1>11. /\ pages \in Seq(Pages) /\ Len(pages) = n /\ Distinct(pages)
       /\ \A p \in ToSet(pages) : p \in Pages /\ owner[p] = NoGen
       /\ rest \in Seq(Pages) /\ Distinct(rest) /\ Len(rest) = Len(freePages) - n
       /\ ToSet(rest) = {p \in Pages : owner[p] = NoGen} \ ToSet(pages)
  BY <1>2, <1>4, <1>6, <1>10, FreePagesTaken DEF RunningOK
<1>12. /\ gen \in [Gens -> GenInfo] /\ g \in Gens /\ gen[g].status = "NONEXISTENT"
       /\ NoGen \notin Gens
  <2>1. NoGen \notin Gens
    BY GenerationsAssumption DEF NoGen, Gens
  <2>2. QED
    BY <1>4, <1>5, <1>6, <2>1 DEF RunningOK, TableOK
<1>13. /\ i \in 1 .. Len(order) /\ k \in 1 .. Len(order) - i + 1
       /\ \A j \in i .. Len(order) : gen[order[j]].status = "TO_BE_COLLECTED"
       /\ \A j \in 1 .. i - 1 : gen[order[j]].status # "TO_BE_COLLECTED"
  BY <1>1, <1>2, <1>4, StepRange
<1>14. /\ order \in Seq(Gens) /\ Distinct(order) /\ Len(order) \in Nat
       /\ ToSet(order) = {h \in Gens : gen[h].status \in Live} /\ g \notin ToSet(order)
       /\ \A j \in 1 .. Len(order) : order[j] \in Gens /\ order[j] \in ToSet(order)
  <2>1. order \in Seq(Gens) /\ Distinct(order)
        /\ ToSet(order) = {h \in Gens : gen[h].status \in Live}
    BY <1>4 DEF RunningOK, OrderOK
  <2>2. g \notin ToSet(order)
    BY <1>12, <2>1 DEF Live
  <2>3. QED
    BY <2>1, <2>2, Members
<1>15. /\ i \in Nat /\ k \in Nat /\ i >= 1 /\ k >= 1 /\ i + k - 1 <= Len(order)
       /\ \A j \in i .. i + k - 1 : j \in 1 .. Len(order) /\ j \in i .. Len(order)
  BY <1>13, <1>14
<1>16. PICK from : from = {order[j] : j \in i .. i + k - 1}
  OBVIOUS
<1>17. PICK older : older = UNION {gen[h].from : h \in from}
  OBVIOUS
<1>18. /\ \A h \in from : h \in Gens /\ gen[h].status = "TO_BE_COLLECTED" /\ h \in ToSet(order)
       /\ \A h \in older : h \in Gens /\ gen[h].status = "COLLECTED_ONCE"
       /\ g \notin from /\ g \notin older /\ from \cap older = {}
  <2>1. \A h \in from : h \in Gens /\ gen[h].status = "TO_BE_COLLECTED" /\ h \in ToSet(order)
    BY <1>13, <1>14, <1>15, <1>16
  <2>2. ASSUME NEW h \in older PROVE h \in Gens /\ gen[h].status = "COLLECTED_ONCE"
    <3>1. PICK f \in from : h \in gen[f].from
      BY <1>17, <2>2
    <3>2. f \in Gens /\ gen[f].status \in Live
      BY <2>1 DEF Live
    <3>3. h \in Gens
      BY <1>12, <3>1, <3>2 DEF GenInfo
    <3>4. QED
      BY <1>4, <3>1, <3>2, <3>3 DEF RunningOK, TableOK
  <2>3. QED
    BY <1>12, <2>1, <2>2
<1>19. /\ gen' \in [Gens -> GenInfo]
       /\ gen'[g].status = "NORMAL" /\ gen'[g].page = pages /\ gen'[g].diskPage = dps
       /\ gen'[g].from = from
       /\ \A h \in from : /\ gen'[h].status = "COLLECTED_ONCE" /\ gen'[h].page = <<>>
                          /\ gen'[h].diskPage = gen[h].diskPage /\ gen'[h].from = {}
       /\ \A h \in older : /\ gen'[h].status = "COLLECTED_TWICE" /\ gen'[h].page = gen[h].page
                           /\ gen'[h].diskPage = gen[h].diskPage /\ gen'[h].from = gen[h].from
       /\ \A h \in Gens : h # g /\ h \notin from /\ h \notin older => gen'[h] = gen[h]
  <2> DEFINE F == {order[j] : j \in i .. i + k - 1}
             O == UNION {gen[h].from : h \in F}
             tb == table
  <2>0. gen' = [h \in Gens |->
           CASE h = a    -> [tb[h] EXCEPT !.from = F]
             [] h \in F   -> [gen[h] EXCEPT !.status = "COLLECTED_ONCE", !.page = <<>>, !.from = {}]
             [] h \in O   -> [gen[h] EXCEPT !.status = "COLLECTED_TWICE"]
             [] OTHER    -> tb[h]]
    BY <1>2 DEF CollectedOnce
  <2>1. F = from /\ O = older
    BY <1>16, <1>17
  <2>2. /\ table[g] = [status |-> "NORMAL", page |-> pages, diskPage |-> dps, from |-> {}]
        /\ \A h \in Gens : h # g => table[h] = gen[h]
    BY <1>6, <1>12
  <2> HIDE DEF table, a, ps, ds
  <2> HIDE DEF F, O, tb
  <2>3. gen'[g] = [status |-> "NORMAL", page |-> pages, diskPage |-> dps, from |-> from]
    <3>1. gen'[g] = [tb[g] EXCEPT !.from = from]
      BY <1>6, <1>12, <1>18, <2>0, <2>1
    <3>2. QED
      BY <2>2, <3>1 DEF tb
  <2>4. \A h \in from : gen'[h] = [gen[h] EXCEPT !.status = "COLLECTED_ONCE", !.page = <<>>, !.from = {}]
    BY <1>6, <1>18, <2>0, <2>1
  <2>5. \A h \in older : gen'[h] = [gen[h] EXCEPT !.status = "COLLECTED_TWICE"]
    BY <1>6, <1>18, <2>0, <2>1
  <2>6. \A h \in Gens : h # g /\ h \notin from /\ h \notin older => gen'[h] = gen[h]
    <3>1. \A h \in Gens : h # g /\ h \notin from /\ h \notin older => gen'[h] = tb[h]
      BY <1>6, <2>0, <2>1
    <3>2. QED
      BY <2>2, <3>1 DEF tb
  <2>7. gen'[g] \in GenInfo
    <3>1. from \in SUBSET Gens
      BY <1>18
    <3>2. QED
      BY <1>7, <1>11, <2>3, <3>1 DEF GenInfo, GenStatus
  <2>8. ASSUME NEW h \in from
        PROVE  /\ gen'[h] \in GenInfo
               /\ gen'[h].status = "COLLECTED_ONCE" /\ gen'[h].page = <<>>
               /\ gen'[h].diskPage = gen[h].diskPage /\ gen'[h].from = {}
    <3>1. gen[h] \in GenInfo /\ <<>> \in Seq(Pages) /\ {} \in SUBSET Gens
      BY <1>12, <1>18
    <3>2. gen'[h] = [gen[h] EXCEPT !.status = "COLLECTED_ONCE", !.page = <<>>, !.from = {}]
      BY <2>4
    <3>3. QED
      BY <3>1, <3>2 DEF GenInfo, GenStatus
  <2>9. ASSUME NEW h \in older
        PROVE  /\ gen'[h] \in GenInfo
               /\ gen'[h].status = "COLLECTED_TWICE" /\ gen'[h].page = gen[h].page
               /\ gen'[h].diskPage = gen[h].diskPage /\ gen'[h].from = gen[h].from
    <3>1. gen[h] \in GenInfo
      BY <1>12, <1>18
    <3>2. gen'[h] = [gen[h] EXCEPT !.status = "COLLECTED_TWICE"]
      BY <2>5
    <3>3. QED
      BY <3>1, <3>2 DEF GenInfo, GenStatus
  <2>11. \A h \in Gens : gen'[h] \in GenInfo
    BY <1>12, <2>6, <2>7, <2>8, <2>9
  <2>12. gen' \in [Gens -> GenInfo]
    BY <2>0, <2>11
  <2>13. QED
    BY <2>3, <2>6, <2>8, <2>9, <2>12
<1>20. order' = Splice(order, i, k, g)
       /\ MoreToCollect(i, k) = (i + k <= Len(order))
       /\ prevTo' = (IF MoreToCollect(i, k) THEN g ELSE NoGen)
       /\ (g < NGensFor) /\ gnCursor' = g /\ unstable' = unstable \cup ToSet(pages)
  <2>1. MoreToCollect(i, k) = (i + k <= Len(order))
    <3>1. i + k <= Len(order) => i + k \in i .. Len(order)
      BY <1>14, <1>15
    <3>2. QED
      BY <1>13, <3>1 DEF MoreToCollect
  <2>2. order' = Splice(order, i, k, g)
    <3>1. order' = OrderAfterStep(i, k, g)
      BY <1>2, <1>6
    <3>2. QED
      BY <3>1 DEF OrderAfterStep, Splice
  <2>3. prevTo' = (IF MoreToCollect(i, k) THEN g ELSE NoGen) /\ g < NGensFor /\ gnCursor' = g
        /\ unstable' = unstable \cup ToSet(pages)
    BY <1>2, <1>5, <1>6
  <2>4. QED
    BY <2>1, <2>2, <2>3
<1> HIDE DEF a, ps, ds, table
<1>21. \A h \in Gens : /\ gen'[h].status \in Live <=> (gen[h].status \in Live /\ h \notin from) \/ h = g
                       /\ gen'[h].status \in Live /\ h # g => gen'[h] = gen[h]
                       /\ gen'[h].status = "TO_BE_COLLECTED" <=>
                            gen[h].status = "TO_BE_COLLECTED" /\ h \notin from
                       /\ gen'[h].status # "NONEXISTENT" <=> gen[h].status # "NONEXISTENT" \/ h = g
                       /\ h # g => gen'[h].diskPage = gen[h].diskPage
                       /\ gen[h].status = "COLLECTED_ONCE" /\ h \notin older =>
                            gen'[h].status = "COLLECTED_ONCE"
  <2>1. TAKE h \in Gens
  <2>2. CASE h = g
    BY <1>12, <1>18, <1>19, <2>2 DEF Live
  <2>3. CASE h \in from
    BY <1>18, <1>19, <2>3 DEF Live
  <2>4. CASE h \in older
    <3>1. gen'[h].status = "COLLECTED_TWICE" /\ gen'[h].diskPage = gen[h].diskPage
      BY <1>19, <2>4
    <3>2. h # g /\ h \notin from /\ gen[h].status = "COLLECTED_ONCE"
      BY <1>18, <2>4
    <3>3. QED
      BY <2>4, <3>1, <3>2 DEF Live
  <2>5. CASE h # g /\ h \notin from /\ h \notin older
    <3>1. gen'[h] = gen[h]
      BY <1>19, <2>5
    <3>2. QED
      BY <2>5, <3>1
  <2>6. QED
    BY <2>2, <2>3, <2>4, <2>5
<1>22. TableOK(gen)'
  <2>1. ASSUME NEW h \in Gens PROVE Distinct(gen'[h].page)
    <3>1. Distinct(gen[h].page) /\ Distinct(<<>>)
      BY <1>4 DEF RunningOK, TableOK, Distinct
    <3>2. CASE h = g
      BY <1>11, <1>19, <3>2
    <3>3. CASE h \in from
      BY <1>19, <3>1, <3>3
    <3>4. CASE h \in older
      BY <1>19, <3>1, <3>4
    <3>5. CASE h # g /\ h \notin from /\ h \notin older
      BY <1>19, <3>1, <3>5
    <3>6. QED
      BY <3>2, <3>3, <3>4, <3>5
  <2>2. \A h \in Gens : gen[h].status # "NONEXISTENT" =>
          ToSet(dps) \cap ToSet(gen[h].diskPage) = {}
    <3>1. SUFFICES ASSUME NEW h \in Gens, gen[h].status # "NONEXISTENT",
                          NEW d \in ToSet(dps), d \in ToSet(gen[h].diskPage)
                   PROVE  FALSE
      OBVIOUS
    <3>2. d \in DiskPages /\ diskStatus[d] = "FREE"
      BY <1>7
    <3>3. diskStatus[d] = "ALLOCATED"
      BY <1>4, <3>1, <3>2 DEF RunningOK, DiskOK, Existing
    <3>4. QED
      BY <3>2, <3>3
  <2>3. ASSUME NEW h \in Gens, NEW l \in Gens, h # l,
               gen'[h].status # "NONEXISTENT", gen'[l].status # "NONEXISTENT"
        PROVE  ToSet(gen'[h].diskPage) \cap ToSet(gen'[l].diskPage) = {}
    <3>1. CASE h = g
      BY <1>19, <1>21, <2>2, <2>3, <3>1
    <3>2. CASE l = g
      BY <1>19, <1>21, <2>2, <2>3, <3>2
    <3>3. CASE h # g /\ l # g
      BY <1>4, <1>21, <2>3, <3>3 DEF RunningOK, TableOK
    <3>4. QED
      BY <3>1, <3>2, <3>3
  <2>4. ASSUME NEW h \in Gens, gen'[h].status \in Live, NEW l \in gen'[h].from
        PROVE  gen'[l].status = "COLLECTED_ONCE"
    <3>1. CASE h = g
      BY <1>19, <2>4, <3>1
    <3>2. CASE h # g
      <4>1. gen'[h] = gen[h] /\ gen[h].status \in Live /\ h \notin from
        BY <1>21, <2>4, <3>2
      <4>2. l \in Gens /\ gen[l].status = "COLLECTED_ONCE"
        BY <1>4, <1>12, <2>4, <4>1 DEF RunningOK, TableOK, GenInfo
      <4>3. l \notin older
        <5>1. SUFFICES ASSUME l \in older PROVE FALSE
          OBVIOUS
        <5>2. PICK f \in from : l \in gen[f].from
          BY <1>17, <5>1
        <5>3. f \in Gens /\ gen[f].status \in Live /\ f # h
          BY <1>18, <4>1 DEF Live
        <5>4. gen[f].from \cap gen[h].from = {}
          BY <1>4, <4>1, <5>3 DEF RunningOK, TableOK
        <5>5. QED
          BY <2>4, <4>1, <5>2, <5>4
      <4>4. QED
        BY <1>21, <4>2, <4>3
    <3>3. QED
      BY <3>1, <3>2
  <2>5. ASSUME NEW h \in Gens, NEW l \in Gens, h # l,
               gen'[h].status \in Live, gen'[l].status \in Live
        PROVE  gen'[h].from \cap gen'[l].from = {}
    <3>1. \A m \in Gens : m # g /\ gen'[m].status \in Live => gen'[m].from \cap from = {}
      <4>1. SUFFICES ASSUME NEW m \in Gens, m # g, gen'[m].status \in Live,
                            NEW f \in from, f \in gen'[m].from
                     PROVE  FALSE
        OBVIOUS
      <4>2. gen'[m] = gen[m] /\ gen[m].status \in Live
        BY <1>21, <4>1
      <4>3. gen[f].status = "COLLECTED_ONCE"
        BY <1>4, <4>1, <4>2 DEF RunningOK, TableOK
      <4>4. QED
        BY <1>18, <4>3
    <3>2. CASE h = g
      BY <1>19, <2>5, <3>1, <3>2
    <3>3. CASE l = g
      BY <1>19, <2>5, <3>1, <3>3
    <3>4. CASE h # g /\ l # g
      BY <1>4, <1>21, <2>5, <3>4 DEF RunningOK, TableOK
    <3>5. QED
      BY <3>2, <3>3, <3>4
  <2>6. QED
    BY <1>19, <2>1, <2>3, <2>4, <2>5 DEF TableOK
<1>23. /\ gone \in Seq(Pages) /\ Distinct(gone)
       /\ \A p \in Pages : p \in ToSet(gone) <=> owner[p] \in from
  <2>1. TableOK(gen) /\ OwnerOK(gen, owner) /\ OrderOK(gen, order)
    BY <1>4 DEF RunningOK
  <2>2. /\ gone \in Seq(Pages) /\ Distinct(gone)
        /\ \A p \in Pages : p \in ToSet(gone) <=>
             \E j \in i .. i + k - 1 : p \in ToSet(gen[order[j]].page)
    <3>1. i > 0
      BY <1>15
    <3>2. QED
      BY <1>1, <1>15, <2>1, <3>1, CollectedPages
  <2>3. ASSUME NEW p \in Pages PROVE p \in ToSet(gone) <=> owner[p] \in from
    <3>1. p \in ToSet(gone) <=> \E h \in from : p \in ToSet(gen[h].page)
      BY <1>16, <2>2
    <3>2. \A h \in from : h \in Gens /\ gen[h].status \in Live
      BY <1>18 DEF Live
    <3>3. \A h \in from : p \in ToSet(gen[h].page) <=> owner[p] = h
      BY <2>1, <3>2 DEF OwnerOK
    <3>4. QED
      BY <3>1, <3>3
  <2>4. QED
    BY <2>2, <2>3
<1>24. /\ owner \in [Pages -> Gens \cup {NoGen}] /\ owner' \in [Pages -> Gens \cup {NoGen}]
       /\ NoGen \notin from
       /\ \A p \in Pages : owner'[p] = IF p \in ToSet(pages) THEN g
                                       ELSE IF owner[p] \in from THEN NoGen ELSE owner[p]
  <2>1. owner \in [Pages -> Gens \cup {NoGen}]
    BY <1>4 DEF RunningOK, OwnerOK
  <2>2. NoGen \notin from
    BY <1>12, <1>18
  <2>3. ASSUME NEW p \in Pages
        PROVE  owner'[p] = IF p \in ToSet(pages) THEN g
                           ELSE IF owner[p] \in from THEN NoGen ELSE owner[p]
    <3>1. p \in ToSet(gone) <=> owner[p] \in from
      BY <1>23
    <3>2. p \in ToSet(pages) => p \notin ToSet(gone)
      BY <1>11, <2>2, <3>1
    <3>3. p \in ToSet(pages) => owner'[p] = g
      BY <1>2, <1>6, <3>2
    <3>4. p \notin ToSet(pages) /\ p \in ToSet(gone) => owner'[p] = NoGen
      BY <1>2, <1>6
    <3>5. p \notin ToSet(pages) /\ p \notin ToSet(gone) => owner'[p] = owner[p]
      BY <1>2, <1>6
    <3>6. QED
      BY <3>1, <3>3, <3>4, <3>5
  <2>4. owner' \in [Pages -> Gens \cup {NoGen}]
    <3>1. \A p \in Pages : owner'[p] \in Gens \cup {NoGen}
      BY <1>12, <2>1, <2>3
    <3>2. QED
      BY <1>2, <3>1
  <2>5. QED
    BY <2>1, <2>2, <2>3, <2>4
<1>25. OwnerOK(gen, owner)'
  <2>1. ASSUME NEW p \in Pages, NEW h \in Gens
        PROVE  owner'[p] = h <=> gen'[h].status \in Live /\ p \in ToSet(gen'[h].page)
    <3>1. owner[p] = h <=> gen[h].status \in Live /\ p \in ToSet(gen[h].page)
      BY <1>4 DEF RunningOK, OwnerOK
    <3>2. CASE h = g
      <4>1. owner[p] # g
        BY <1>12, <3>1, <3>2 DEF Live
      <4>2. owner'[p] = g <=> p \in ToSet(pages)
        BY <1>12, <1>24, <4>1
      <4>3. gen'[g].status \in Live /\ gen'[g].page = pages
        BY <1>19 DEF Live
      <4>4. QED
        BY <3>2, <4>2, <4>3
    <3>3. CASE h # g
      <4>1. p \in ToSet(pages) => owner[p] = NoGen
        BY <1>11
      <4>2. owner'[p] = h <=> owner[p] = h /\ h \notin from
        BY <1>12, <1>24, <3>3, <4>1
      <4>3. gen'[h].status \in Live <=> gen[h].status \in Live /\ h \notin from
        BY <1>21, <3>3
      <4>4. gen'[h].status \in Live => gen'[h] = gen[h]
        BY <1>21, <3>3
      <4>5. QED
        BY <3>1, <4>2, <4>3, <4>4
    <3>4. QED
      BY <3>2, <3>3
  <2>2. QED
    BY <1>24, <2>1 DEF OwnerOK
<1>26. PICK o : o = order
  OBVIOUS
<1>27. PICK u : u = order'
  OBVIOUS
<1>28. /\ u \in Seq(Gens) /\ Distinct(u) /\ Len(u) = Len(order) - k + 1
       /\ \A j \in 1 .. i - 1 : u[j] = order[j]
       /\ u[i] = g
       /\ \A j \in i + 1 .. Len(u) : u[j] = order[j + k - 1]
       /\ ToSet(u) = (ToSet(order) \ from) \cup {g}
  <2>1. o \in Seq(Gens) /\ Distinct(o) /\ i \in 1 .. Len(o) /\ k \in 1 .. Len(o) - i + 1
        /\ g \in Gens /\ g \notin ToSet(o)
    BY <1>12, <1>13, <1>14, <1>26
  <2>2. u = Splice(o, i, k, g)
    BY <1>20, <1>26, <1>27
  <2>3. /\ u \in Seq(Gens) /\ Distinct(u) /\ Len(u) = Len(o) - k + 1
        /\ \A j \in 1 .. i - 1 : u[j] = o[j]
        /\ u[i] = g
        /\ \A j \in i + 1 .. Len(u) : u[j] = o[j + k - 1]
        /\ ToSet(u) = (ToSet(o) \ {o[j] : j \in i .. i + k - 1}) \cup {g}
    <3> DEFINE w == Splice(o, i, k, g)
    <3>1. /\ w \in Seq(Gens) /\ Distinct(w) /\ Len(w) = Len(o) - k + 1
          /\ \A j \in 1 .. i - 1 : w[j] = o[j]
          /\ w[i] = g
          /\ \A j \in i + 1 .. Len(w) : w[j] = o[j + k - 1]
          /\ ToSet(w) = (ToSet(o) \ {o[j] : j \in i .. i + k - 1}) \cup {g}
      BY ONLY <2>1, Spliced
    <3>2. u = w
      BY <2>2
    <3> HIDE DEF w
    <3>3. QED
      BY <3>1, <3>2
  <2>4. QED
    BY <1>16, <1>26, <2>3
<1>29. \A j \in i + k .. Len(order) :
         /\ order[j] \in Gens /\ order[j] \notin from /\ gen[order[j]].status = "TO_BE_COLLECTED"
         /\ gen'[order[j]].status = "TO_BE_COLLECTED"
  <2>1. TAKE j \in i + k .. Len(order)
  <2>2. j \in 1 .. Len(order) /\ j \in i .. Len(order) /\ j \notin i .. i + k - 1
    BY <1>14, <1>15
  <2>3. order[j] \notin from
    <3>1. SUFFICES ASSUME NEW l \in i .. i + k - 1, order[l] = order[j] PROVE FALSE
      BY <1>16
    <3>2. l \in 1 .. Len(order) /\ l # j
      BY <1>15, <2>2
    <3>3. QED
      BY <1>14, <2>2, <3>1, <3>2 DEF Distinct
  <2>4. QED
    BY <1>13, <1>14, <1>21, <2>2, <2>3
<1>30. \A j \in 1 .. Len(u) : gen'[u[j]].status = "TO_BE_COLLECTED" <=> j > i
  <2>1. TAKE j \in 1 .. Len(u)
  <2>2. CASE j < i
    <3>1. j \in 1 .. i - 1 /\ j \in 1 .. Len(order)
      BY <1>13, <1>14, <1>15, <2>2
    <3>2. u[j] = order[j] /\ order[j] \in Gens /\ gen[order[j]].status # "TO_BE_COLLECTED"
      BY <1>13, <1>14, <1>28, <3>1
    <3>3. gen'[u[j]].status # "TO_BE_COLLECTED"
      BY <1>21, <3>2
    <3>4. QED
      BY <1>15, <2>2, <3>3
  <2>3. CASE j = i
    BY <1>15, <1>19, <1>28, <2>3
  <2>4. CASE j > i
    <3>1. j \in i + 1 .. Len(u) /\ j + k - 1 \in i + k .. Len(order)
      BY <1>14, <1>15, <1>28, <2>4
    <3>2. QED
      BY <1>28, <1>29, <2>4, <3>1
  <2>5. QED
    BY <1>15, <2>2, <2>3, <2>4
<1>31. OrderOK(gen, order)'
  <2>1. ToSet(u) = {h \in Gens : gen'[h].status \in Live}
    BY <1>12, <1>14, <1>21, <1>28
  <2>2. \A x, y \in 1 .. Len(u) : x < y /\ gen'[u[x]].status = "TO_BE_COLLECTED"
          => gen'[u[y]].status = "TO_BE_COLLECTED"
    <3>1. \A x, y \in 1 .. Len(u) : x < y /\ x > i => y > i
      BY <1>15
    <3>2. QED
      BY <1>30, <3>1
  <2>3. QED
    BY <1>27, <1>28, <2>1, <2>2 DEF OrderOK
<1>32. CollectorOK(gen, order, prevTo, isCollecting)'
  <2>1. isCollecting' \in BOOLEAN /\ isCollecting' = (i + k <= Len(order))
    BY <1>2, <1>20
  <2>2. CASE i + k <= Len(order)
    <3>1. i + k \in i + k .. Len(order) /\ i \in 1 .. Len(u) - 1
          /\ i + 1 \in 1 .. Len(u) /\ i \in 1 .. Len(u) /\ i + 1 > i
      BY <1>14, <1>15, <1>28, <2>2
    <3>2. order[i + k] \in Gens /\ gen'[order[i + k]].status = "TO_BE_COLLECTED"
      BY <1>29, <3>1
    <3>3. prevTo' = g
      BY <1>20, <2>2
    <3>4. gen'[u[i + 1]].status = "TO_BE_COLLECTED" /\ u[i] = g /\ gen'[u[i]].status = "NORMAL"
      BY <1>19, <1>28, <1>30, <3>1
    <3>5. QED
      BY <1>12, <1>27, <2>1, <2>2, <3>1, <3>2, <3>3, <3>4 DEF CollectorOK
  <2>3. CASE ~(i + k <= Len(order))
    <3>1. prevTo' = NoGen
      BY <1>20, <2>3
    <3>2. ASSUME NEW h \in Gens, gen'[h].status = "TO_BE_COLLECTED" PROVE FALSE
      <4>1. h \in ToSet(u)
        BY <1>12, <1>14, <1>19, <1>21, <1>28, <3>2 DEF Live
      <4>2. PICK j \in 1 .. Len(u) : h = u[j]
        BY <1>28, <4>1, Members
      <4>3. j > i
        BY <1>30, <3>2, <4>2
      <4>4. QED
        BY <1>14, <1>15, <1>28, <2>3, <4>3
    <3>3. QED
      BY <2>1, <2>3, <3>1, <3>2 DEF CollectorOK
  <2>4. QED
    BY <2>2, <2>3
<1>33. FreeOK'
  <2>1. PICK back : back = Reverse(gone)
    OBVIOUS
  <2>2. back \in Seq(Pages) /\ Len(back) = Len(gone) /\ ToSet(back) = ToSet(gone) /\ Distinct(back)
        /\ Len(gone) \in Nat
    BY <1>23, <2>1, Reversed
  <2>3. freePages' = back \o rest
    BY <1>2, <1>10, <2>1
  <2>4. ToSet(gone) \subseteq Pages
    BY <1>23, Members
  <2>5. ToSet(back) \cap ToSet(rest) = {}
    <3>1. ASSUME NEW p \in ToSet(gone), p \in ToSet(rest) PROVE FALSE
      <4>1. p \in Pages /\ owner[p] = NoGen /\ owner[p] \in from
        BY <1>11, <1>23, <2>4, <3>1
      <4>2. QED
        BY <1>24, <4>1
    <3>2. QED
      BY <2>2, <3>1
  <2>6. /\ back \o rest \in Seq(Pages) /\ Len(back \o rest) = Len(back) + Len(rest)
        /\ ToSet(back \o rest) = ToSet(back) \cup ToSet(rest) /\ Distinct(back \o rest)
    <3>1. back \in Seq(Pages) /\ rest \in Seq(Pages)
      BY <1>11, <2>2
    <3>2. back \o rest \in Seq(Pages) /\ Len(back \o rest) = Len(back) + Len(rest)
      BY ONLY <3>1, JoinedAt
    <3>3. ToSet(back \o rest) = ToSet(back) \cup ToSet(rest)
      BY ONLY <3>1, Joined
    <3>4. Distinct(back \o rest)
      BY <1>11, <2>2, <2>5, <3>1, Joined
    <3>5. QED
      BY <3>2, <3>3, <3>4
  <2>7. ASSUME NEW p \in Pages
        PROVE  p \in ToSet(back) \cup ToSet(rest) <=> owner'[p] = NoGen
    BY <1>11, <1>12, <1>23, <1>24, <2>2
  <2>8. ToSet(rest) \subseteq Pages
    BY <1>11
  <2>9. ToSet(freePages') = {p \in Pages : owner'[p] = NoGen}
    BY <2>2, <2>3, <2>4, <2>6, <2>7, <2>8
  <2>10. nfree' = Len(freePages')
    <3>1. nfree = Len(freePages) /\ Len(freePages) \in Nat
      BY <1>4 DEF RunningOK, FreeOK
    <3>2. Len(freePages') = Len(gone) + (Len(freePages) - n)
      BY <1>11, <2>2, <2>3, <2>6
    <3>3. nfree' = nfree - n + Len(gone)
      BY <1>2
    <3>4. QED
      BY <2>2, <3>1, <3>2, <3>3
  <2>11. QED
    BY <2>3, <2>6, <2>9, <2>10 DEF FreeOK
<1>34. DiskOK'
  <2>1. ASSUME NEW d \in DiskPages
        PROVE  /\ diskStatus'[d] = "ALLOCATED" <=>
                    \E h \in Gens : gen'[h].status # "NONEXISTENT" /\ d \in ToSet(gen'[h].diskPage)
               /\ diskStatus'[d] # "UNKNOWN"
    <3>1. /\ diskStatus[d] = "ALLOCATED" <=>
               \E h \in Gens : gen[h].status # "NONEXISTENT" /\ d \in ToSet(gen[h].diskPage)
          /\ diskStatus[d] # "UNKNOWN"
      BY <1>4 DEF RunningOK, DiskOK, Existing
    <3>2. CASE d \in ToSet(dps)
      <4>1. diskStatus'[d] = "ALLOCATED"
        BY <1>8, <3>2
      <4>2. gen'[g].status # "NONEXISTENT" /\ d \in ToSet(gen'[g].diskPage)
        BY <1>19, <3>2
      <4>3. QED
        BY <1>12, <4>1, <4>2
    <3>3. CASE d \notin ToSet(dps)
      <4>1. diskStatus'[d] = diskStatus[d]
        BY <1>8, <3>3
      <4>2. d \notin ToSet(gen'[g].diskPage)
        BY <1>19, <3>3
      <4>3. \A h \in Gens : gen'[h].status # "NONEXISTENT" /\ d \in ToSet(gen'[h].diskPage)
              <=> gen[h].status # "NONEXISTENT" /\ d \in ToSet(gen[h].diskPage)
        BY <1>12, <1>21, <4>2
      <4>4. QED
        BY <3>1, <4>1, <4>3
    <3>4. QED
      BY <3>2, <3>3
  <2>2. QED
    BY <2>1 DEF DiskOK, Existing
<1>35. NumbersOK'
  <2>1. ngens \in 1 .. MaxGenerations /\ MaxGenerations \in Nat
        /\ \A h \in Gens : gen[h].status # "NONEXISTENT" => h < ngens
    BY <1>4, GenerationsAssumption DEF RunningOK, NumbersOK
  <2>2. ngens' \in 1 .. MaxGenerations /\ ngens <= ngens' /\ g < ngens'
    BY <1>2, <1>5, <1>20, <2>1
  <2>3. \A h \in Gens : h \in Nat
    BY DEF Gens
  <2>4. ASSUME NEW h \in Gens, gen'[h].status # "NONEXISTENT" PROVE h < ngens'
    <3>1. CASE h = g
      BY <2>2, <3>1
    <3>2. CASE h # g
      <4>1. h < ngens
        BY <1>21, <2>1, <2>4, <3>2
      <4>2. QED
        BY <2>1, <2>2, <2>3, <4>1
    <3>3. QED
      BY <3>1, <3>2
  <2>5. QED
    BY <2>2, <2>4 DEF NumbersOK
<1>36. WritesOK'
  <2>1. unstable = {} /\ stepped
    BY <1>2, <1>4 DEF RunningOK, WritesOK, PhaseOK
  <2>2. unstable' = ToSet(pages)
    BY <1>20, <2>1
  <2>3. \A p \in ToSet(pages) : p \in Pages /\ owner'[p] # NoGen
    BY <1>11, <1>12, <1>24
  <2>4. QED
    BY <1>2, <2>1, <2>2, <2>3 DEF WritesOK
<1>37. PhaseOK'
  <2>1. order' # <<>>
    BY <1>14, <1>15, <1>27, <1>28
  <2>2. ~wasStarted
    BY <1>2, <1>4 DEF RunningOK, PhaseOK
  <2>3. QED
    BY <1>2, <2>1, <2>2 DEF PhaseOK
<1>38. RunningOK'
  BY <1>9, <1>22, <1>25, <1>31, <1>32, <1>33, <1>34, <1>35, <1>36, <1>37 DEF RunningOK
<1>39. gnCursor' \in Nat
  BY <1>12, <1>20 DEF Gens
<1>40. QED
  BY <1>2, <1>4, <1>8, <1>9, <1>38, <1>39 DEF Inv

--------------------------------------------------------------------------------
(* The invariant and what follows from it.                                 *)

LEMMA NextKeepsInv ==
  ASSUME Inv, RecoveredFaithfully, [Next]_vars
  PROVE  Inv'
<1>1. ASSUME NEW n \in 0 .. MaxNewPages, NEW h \in 0 .. MaxNewPages,
             collect_first_generation(n, h)
      PROVE  Inv'
  <2>1. n \in Nat
    BY LimitsAssumption
  <2>2. QED
    BY <1>1, <2>1, CollectFirstKeepsInv
<1>2. ASSUME NEW n \in 0 .. NumberOfPages, NEW again \in BOOLEAN, major_gc_step(n, again)
      PROVE  Inv'
  <2>1. n \in Nat
    BY PagesAssumption
  <2>2. QED
    BY <1>2, <2>1, MajorStepKeepsInv
<1>3. CASE Commit
  BY <1>1, <1>3, WriteRootKeepsInv, StartGroupKeepsInv DEF Commit
<1>4. CASE major_gc
  BY <1>2, <1>4, NoMajorGcKeepsInv, MarkKeepsInv, PrepareStepKeepsInv DEF major_gc
<1>5. CASE recover_db
  BY <1>5, RecoveryStepsKeepInv, FinishRecoveryKeepsInv DEF recover_db
<1>6. CASE NeededPagesIntact /\ Restart
  BY <1>6, RestartKeepsInv
<1>7. CASE UNCHANGED vars
  BY <1>7, StutterKeepsInv
<1>8. QED
  BY <1>3, <1>4, <1>5, <1>6, <1>7 DEF Next

Safe ==
  PagesAccounted /\ CollectionOrder /\ CommittedPagesIntact /\ PagesBeingWrittenStable

LEMMA InvIsSafe ==
  ASSUME Inv
  PROVE  Safe
<1>1. ASSUME Running PROVE PagesAccounted /\ CollectionOrder
  <2>1. RunningOK /\ FreeOK /\ DiskOK /\ TableOK(gen) /\ OwnerOK(gen, owner)
        /\ OrderOK(gen, order) /\ CollectorOK(gen, order, prevTo, isCollecting)
    BY <1>1 DEF Inv, RunningOK
  <2>2. \A g \in Gens : Cardinality(ToSet(gen[g].page)) = Len(gen[g].page)
    <3>1. TAKE g \in Gens
    <3>2. gen[g].page \in Seq(Pages) /\ Distinct(gen[g].page)
      BY <2>1 DEF TableOK, GenInfo
    <3>3. QED
      BY <3>2, DistinctCount
  <2>3. Cardinality(ToSet(freePages)) = Len(freePages)
    BY <2>1, DistinctCount DEF FreeOK
  <2>4. MemoryAccounted
    BY <2>1, <2>2, <2>3 DEF MemoryAccounted, FreeOK, OwnerOK
  <2>5. \A g \in Existing : ToSet(gen[g].diskPage) \subseteq DiskPages
    <3>1. TAKE g \in Existing
    <3>2. gen[g].diskPage \in Seq(DiskPages)
      BY <2>1 DEF TableOK, GenInfo, Existing
    <3>3. QED
      BY <3>2, Members
  <2>6. {d \in DiskPages : diskStatus[d] = "ALLOCATED"}
          = UNION {ToSet(gen[g].diskPage) : g \in Existing}
    BY <2>1, <2>5 DEF DiskOK
  <2>7. \A g, h \in Existing : g # h => ToSet(gen[g].diskPage) \cap ToSet(gen[h].diskPage) = {}
    BY <2>1 DEF TableOK, Existing
  <2>8. DiskAccounted
    BY <2>1, <2>6, <2>7 DEF DiskAccounted, DiskOK
  <2>9. Cardinality(ToSet(order)) = Len(order)
    BY <2>1, DistinctCount DEF OrderOK
  <2>10. CollectionOrder
    BY <2>1, <2>9 DEF CollectionOrder, OrderOK, CollectorOK
  <2>11. QED
    BY <2>4, <2>8, <2>10 DEF PagesAccounted
<1>2. ASSUME ~Running PROVE PagesAccounted /\ CollectionOrder
  BY <1>2 DEF PagesAccounted, MemoryAccounted, DiskAccounted, CollectionOrder
<1>3. CommittedPagesIntact
  BY DEF Inv, SnapOK, CommittedPagesIntact
<1>4. PagesBeingWrittenStable
  <2>1. CASE Running
    <3>1. WritesOK /\ FreeOK
      BY <2>1 DEF Inv, RunningOK
    <3>2. QED
      BY <3>1 DEF WritesOK, FreeOK, PagesBeingWrittenStable
  <2>2. CASE ~Running
    BY <2>2 DEF Inv, Recovering, Running, PagesBeingWrittenStable
  <2>3. QED
    BY <2>1, <2>2
<1>5. QED
  BY <1>1, <1>2, <1>3, <1>4 DEF Safe

================================================================================
