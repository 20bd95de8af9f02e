------------------------------- MODULE IoProofs --------------------------------
(***************************************************************************)
(* io_read_root finds the last root block, and no write ever touches it or *)
(* the pages it refers to, in databases of any size, without load          *)
(* balancing.                                                              *)
(***************************************************************************)
EXTENDS Io, Integers, FiniteSetTheorems, WellFoundedInduction, TLAPS

--------------------------------------------------------------------------------
(* The root blocks of a file, and their time stamps as numbers.            *)

Value(s) == s.hi * StampWord + s.lo
Num(f, p) == Value(StampOf(f, p))
RootsOf(f) == {p \in PageNumbers : disk[f][p].cookie = "ROOT"}
Nums(f) == [p \in RootsOf(f) |-> Num(f, p)]
(* The ones that no pending write will overwrite.                          *)
Surviving(f) == {p \in RootsOf(f) : <<f, p>> \notin pending}

(* Page a comes before page b on the way round from page c.                *)
Before(c, a, b) == (c <= a /\ a < b) \/ (a < b /\ b < c) \/ (b < c /\ c <= a)

(* On the way round the file from page c, the pages of ps are ever newer:  *)
(* their numbers are v.                                                    *)
Ascending(v, ps, c) == \A a, b \in ps : Before(c, a, b) => v[a] < v[b]
After(c, n) == IF c + 1 = n THEN 0 ELSE c + 1

--------------------------------------------------------------------------------
(* The inductive invariant.                                                *)

PageStates == {"ALLOCATED", "ROOT", "FREE", "UNKNOWN"}
Cells == {Unused, Data} \cup {RootBlock(s) : s \in Stamp}
Types ==
  /\ db \in Databases
  /\ phase \in {"running", "leftmost", "range", "mid", "declare", "full", "assert"}
  /\ status \in [Files -> [PageNumbers -> PageStates]]
  /\ nfree \in [Files -> Nat] /\ total \in Nat
  /\ cursor \in [Files -> PageNumbers] /\ fileCursor \in Files
  /\ prevRoot \in DiskPages \cup {NoPage}
  /\ stamp \in Stamp
  /\ search \in Search
  /\ disk \in [Files -> [PageNumbers -> Cells]]
  /\ pending \in SUBSET DiskPages
  /\ newest \in DiskPages \cup {NoPage}
  /\ committed \in SUBSET DiskPages
  /\ roots \in Nat /\ crashes \in Nat

(* The root blocks on disk were written round and round every file, and    *)
(* the last one written is the newest.                                     *)
Rotated == \A f \in Files : \E c \in PageNumbers : Ascending(Nums(f), RootsOf(f), c)
UnusedLast ==
  \A f \in Files : \A q \in PageNumbers : disk[f][q] = Unused => \A p \in RootsOf(f) : p < q
NewestLast ==
  /\ newest = NoPage => \A f \in Files : RootsOf(f) = {}
  /\ newest # NoPage =>
       /\ newest[2] \in RootsOf(newest[1])
       /\ \A f \in Files : \A p \in RootsOf(f) :
            <<f, p>> = newest \/ Num(f, p) < Num(newest[1], newest[2])
  /\ \A f \in Files : \A p \in RootsOf(f) : Num(f, p) > 0
Referred ==
  /\ newest \notin pending \cup committed
  /\ \A t \in committed : disk[t[1]][t[2]] = Data

(* While the program runs: what the state of a page means, and where the   *)
(* cursors are.                                                            *)
Up == phase \in {"running", "full", "assert"}
StatusMeans ==
  /\ prevRoot = newest
  /\ \A t \in DiskPages :
       /\ status[t[1]][t[2]] # "UNKNOWN"
       /\ status[t[1]][t[2]] = "ROOT" <=> t = newest
       /\ status[t[1]][t[2]] = "ALLOCATED" => t \in pending \/ disk[t[1]][t[2]] = Data
       /\ t \in pending => status[t[1]][t[2]] = "ALLOCATED"
CursorsMean ==
  \A f \in Files :
    /\ \/ Ascending(Nums(f), Surviving(f), cursor[f])
       \/ Ascending(Nums(f), Surviving(f), After(cursor[f], NumberOfPages)) /\ cursor[f] \in Surviving(f)
    /\ \A q \in PageNumbers : q < cursor[f] => <<f, q>> \in pending \/ disk[f][q] # Unused
StampNewer == Value(stamp) > 0 /\ \A f \in Files : \A p \in RootsOf(f) : Num(f, p) < Value(stamp)

(* While io_read_root runs: files already searched, ...                    *)
Searching == phase \in {"leftmost", "range", "mid"}
Newest(f, p) == p \in RootsOf(f) /\ \A q \in RootsOf(f) : q = p \/ Num(f, q) < Num(f, p)
Searched(f, c) == IF RootsOf(f) = {} THEN c = 0 ELSE Newest(f, c)
SearchedTo(k, root, rootStamp, cur) ==
  /\ \A f \in Files : IF f < k THEN Searched(f, cur[f]) ELSE cur[f] = 0
  /\ root = NoPage =>
       rootStamp = OldestStamp /\ \A f \in Files : f < k => RootsOf(f) = {}
  /\ root # NoPage =>
       /\ root[1] \in Files /\ root[2] \in RootsOf(root[1])
       /\ rootStamp = StampOf(root[1], root[2])
       /\ \A f \in Files : f < k => \A p \in RootsOf(f) : Num(f, p) <= Value(rootStamp)
FilesSearched == SearchedTo(S.i, S.root, S.rootStamp, cursor)

(* ... the range that holds the newest root block of this file, ...        *)
Leftmost ==
  /\ S.left \in PageNumbers /\ S.right = NumberOfPages /\ ~S.rightValid
  /\ \A p \in RootsOf(S.i) : p >= S.left
InRange ==
  /\ S.left \in RootsOf(S.i) /\ S.left < S.right /\ S.right <= NumberOfPages
  /\ S.rightValid => S.right \in RootsOf(S.i)
  /\ \A p \in RootsOf(S.i) :
       p = S.left \/ (S.left < p /\ p < S.right) \/ Num(S.i, p) < Num(S.i, S.left)

(* ... and the data pages the scan from its middle has met.                *)
NoRootIn(a, b) == \A p \in RootsOf(S.i) : ~(a <= p /\ p <= b)
Scanned ==
  /\ S.firstMid = (S.left + S.right) \div 2
  /\ S.left <= S.mid /\ S.mid < S.right
  /\ S.firstMid = S.left => S.mid = S.left
  /\ S.mid = S.left => S.firstMid = S.left
  /\ S.dir = "RIGHTWARD" /\ S.firstDir = "RIGHTWARD" => S.firstMid <= S.mid /\ NoRootIn(S.firstMid, S.mid - 1)
  /\ S.dir = "LEFTWARD" /\ S.firstDir = "LEFTWARD" => S.mid <= S.firstMid /\ NoRootIn(S.mid + 1, S.firstMid)
  /\ S.dir = "LEFTWARD" /\ S.firstDir = "RIGHTWARD" => S.mid < S.firstMid /\ NoRootIn(S.mid + 1, S.right - 1)
  /\ S.dir = "RIGHTWARD" /\ S.firstDir = "LEFTWARD" => S.firstMid < S.mid /\ NoRootIn(S.left + 1, S.mid - 1)

Recovering ==
  /\ pending = {} /\ newest # NoPage
  /\ Searching =>
       /\ \A f \in Files, p \in PageNumbers : status[f][p] = "UNKNOWN"
       /\ FilesSearched
       /\ phase = "leftmost" => Leftmost
       /\ phase # "leftmost" => InRange
       /\ phase = "mid" => Scanned
  /\ phase = "declare" =>
       /\ prevRoot = newest
       /\ \A t \in DiskPages : status[t[1]][t[2]] = IF t = newest THEN "ROOT" ELSE "UNKNOWN"
       /\ \A f \in Files : Searched(f, cursor[f])
       /\ Num(newest[1], newest[2]) < Value(stamp)

Inv ==
  /\ Types
  /\ Rotated /\ UnusedLast /\ NewestLast /\ Referred
  /\ Up => StatusMeans /\ CursorsMean /\ StampNewer
  /\ ~Up => Recovering

--------------------------------------------------------------------------------
(* Arithmetic.                                                             *)

LEMMA ModSmall ==
  ASSUME NEW n \in Nat \ {0}, NEW y \in Nat, y < n
  PROVE  y % n = y
OBVIOUS

LEMMA ModBig ==
  ASSUME NEW n \in Nat \ {0}, NEW y \in Nat, n <= y, y < 2 * n
  PROVE  y % n = y - n
OBVIOUS

LEMMA SmallestNumber ==
  ASSUME NEW ns \in SUBSET Nat, ns # {}
  PROVE  \E n \in ns : \A m \in ns : n <= m
<1>1. PICK n \in ns : \A m \in ns : ~(<<m, n>> \in OpToRel(<, Nat))
  BY NatLessThanWellFounded, WFMin
<1>2. \A m \in ns : ~(m < n)
  BY <1>1 DEF OpToRel
<1>3. QED
  BY <1>2

LEMMA StampValue ==
  ASSUME NEW s \in Stamp
  PROVE  /\ Value(s) \in Nat
         /\ increment_root_time_stamp(s) \in Stamp
         /\ Value(increment_root_time_stamp(s)) = Value(s) + 1
<1> DEFINE w == StampWord
           h == s.hi
           l == s.lo
           t == increment_root_time_stamp(s)
<1>1. w \in Nat /\ w > 1 /\ h \in Nat /\ l \in Nat /\ l < w
  BY StampWordAssumption DEF Stamp
<1>2. Value(s) = h * w + l
  BY DEF Value
<1>3. CASE l = w - 1
  <2>1. t = [hi |-> h + 1, lo |-> 0]
    BY <1>3 DEF increment_root_time_stamp
  <2>2. t \in Stamp /\ Value(t) = (h + 1) * w + 0
    <3> HIDE DEF t, w, h
    <3>1. QED
      BY <1>1, <2>1 DEF Stamp, Value, w
  <2> HIDE DEF w, h, l, t
  <2>3. (h + 1) * w = h * w + w
    BY <1>1
  <2>4. Value(s) \in Nat
    BY <1>1, <1>2
  <2>5. Value(t) = Value(s) + 1
    BY <1>1, <1>2, <1>3, <2>2, <2>3
  <2>6. QED
    BY <2>2, <2>4, <2>5 DEF t
<1>4. CASE l # w - 1
  <2>1. t = [hi |-> h, lo |-> l + 1]
    BY <1>4 DEF increment_root_time_stamp
  <2>2. t \in Stamp /\ Value(t) = h * w + (l + 1)
    <3> HIDE DEF t, w, h, l
    <3>1. QED
      BY <1>1, <1>4, <2>1 DEF Stamp, Value, w
  <2> HIDE DEF w, h, l, t
  <2>3. QED
    BY <1>1, <1>2, <2>2 DEF t
<1>5. QED
  BY <1>3, <1>4

(* time_stamp_is_newer_than compares the numbers.                          *)
LEMMA NewerIsGreater ==
  ASSUME NEW s \in Stamp, NEW t \in Stamp
  PROVE  time_stamp_is_newer_than(s, t) <=> Value(s) > Value(t)
<1> DEFINE w == StampWord
           h == s.hi
           l == s.lo
           i == t.hi
           m == t.lo
<1>1. w \in Nat /\ w > 1 /\ h \in Nat /\ l \in Nat /\ l < w /\ i \in Nat /\ m \in Nat /\ m < w
  BY StampWordAssumption DEF Stamp
<1>2. Value(s) = h * w + l /\ Value(t) = i * w + m
  BY DEF Value
<1>3. time_stamp_is_newer_than(s, t) <=> h > i \/ (h = i /\ l > m)
  BY DEF time_stamp_is_newer_than
<1> HIDE DEF w, h, l, i, m
<1>4. \A a, b \in Nat : a > b => a * w >= b * w + w
  <2> SUFFICES ASSUME NEW a \in Nat, NEW b \in Nat, a > b PROVE a * w >= b * w + w
    OBVIOUS
  <2>1. PICK k \in Nat : a = b + 1 + k
    <3>1. a - b - 1 \in Nat /\ a = b + 1 + (a - b - 1)
      OBVIOUS
    <3>2. QED
      BY <3>1
  <2>2. a * w = b * w + w + k * w
    BY <1>1, <2>1
  <2>3. k * w \in Nat /\ b * w \in Nat
    BY <1>1
  <2>4. QED
    BY <1>1, <2>2, <2>3
<1>5. h * w \in Nat /\ i * w \in Nat
  BY <1>1
<1>6. CASE h > i
  <2>1. h * w >= i * w + w
    BY <1>1, <1>4, <1>6
  <2>2. QED
    BY <1>1, <1>2, <1>3, <1>5, <1>6, <2>1
<1>7. CASE h = i
  BY <1>1, <1>2, <1>3, <1>5, <1>7
<1>8. CASE i > h
  <2>1. i * w >= h * w + w
    BY <1>1, <1>4, <1>8
  <2>2. QED
    BY <1>1, <1>2, <1>3, <1>5, <1>8, <2>1
<1>9. QED
  BY <1>1, <1>6, <1>7, <1>8

--------------------------------------------------------------------------------
(* Going round a file of n pages; ps are pages with root blocks, v their   *)
(* numbers.                                                                *)

LEMMA AscendingSubset ==
  ASSUME NEW v, NEW ps, NEW qs, qs \subseteq ps, NEW c, Ascending(v, ps, c)
  PROVE  Ascending(v, qs, c)
BY DEF Ascending

LEMMA AscendingSame ==
  ASSUME NEW v, NEW w, NEW ps, NEW c, Ascending(v, ps, c), \A a \in ps : w[a] = v[a]
  PROVE  Ascending(w, ps, c)
BY DEF Ascending

(* Page p is overwritten; from the cursor c to p there is at most one root *)
(* block that survives, and that is the newest one of the file.            *)
LEMMA OverwriteNext ==
  ASSUME NEW n \in Nat \ {0}, NEW ps \in SUBSET (0 .. n - 1), NEW v \in [ps -> Int],
         NEW c \in 0 .. n - 1, NEW p \in 0 .. n - 1,
         Ascending(v, ps, c) \/ (Ascending(v, ps, After(c, n)) /\ c \in ps),
         \A q \in ps : Before(c, q, p) => \A a \in ps : a = q \/ v[a] < v[q]
  PROVE  Ascending(v, ps \ {p}, After(p, n))
<1> SUFFICES ASSUME NEW a \in ps \ {p}, NEW b \in ps \ {p}, Before(After(p, n), a, b)
             PROVE  v[a] < v[b]
  BY DEF Ascending
<1>1. a \in 0 .. n - 1 /\ b \in 0 .. n - 1 /\ a # b /\ v[a] \in Int /\ v[b] \in Int
  BY DEF Before, After
<1>2. Before(c, a, p) => v[b] < v[a]
  BY <1>1
<1>3. Before(c, b, p) => v[a] < v[b]
  BY <1>1
<1>4. CASE Ascending(v, ps, c)
  <2>1. Before(c, a, b) => v[a] < v[b]
    BY <1>4 DEF Ascending
  <2>2. Before(c, b, a) => v[b] < v[a]
    BY <1>4 DEF Ascending
  <2>3. QED
    BY <1>1, <1>2, <1>3, <2>1, <2>2 DEF Before, After
<1>5. CASE Ascending(v, ps, After(c, n)) /\ c \in ps
  <2>1. Before(After(c, n), a, b) => v[a] < v[b]
    BY <1>5 DEF Ascending
  <2>2. Before(After(c, n), b, a) => v[b] < v[a]
    BY <1>5 DEF Ascending
  <2>3. c # p => Before(c, c, p)
    BY DEF Before
  <2>4. c # p => (a = c \/ v[a] < v[c]) /\ (b = c \/ v[b] < v[c])
    BY <1>5, <2>3
  <2>5. v[c] \in Int
    BY <1>5
  <2>6. QED
    BY <1>1, <1>2, <1>3, <2>1, <2>2, <2>4, <2>5 DEF Before, After
<1>6. QED
  BY <1>4, <1>5

(* A root block newer than all is written at p.                            *)
LEMMA WriteNewest ==
  ASSUME NEW n \in Nat \ {0}, NEW ps \in SUBSET (0 .. n - 1), NEW v \in [ps -> Int],
         NEW p \in ps, Ascending(v, ps \ {p}, After(p, n)), \A a \in ps \ {p} : v[a] < v[p]
  PROVE  Ascending(v, ps, After(p, n))
<1> SUFFICES ASSUME NEW a \in ps, NEW b \in ps, Before(After(p, n), a, b)
             PROVE  v[a] < v[b]
  BY DEF Ascending
<1>1. a \in 0 .. n - 1 /\ b \in 0 .. n - 1 /\ a # b /\ v[a] \in Int /\ v[b] \in Int /\ p \in 0 .. n - 1
  BY DEF Before, After
<1>2. a # p
  BY <1>1 DEF Before, After
<1>3. CASE b = p
  BY <1>2, <1>3
<1>4. CASE b # p
  BY <1>2, <1>4 DEF Ascending
<1>5. QED
  BY <1>3, <1>4

(* The way round may start behind the newest root block.                   *)
LEMMA StartBehindNewest ==
  ASSUME NEW n \in Nat \ {0}, NEW ps \in SUBSET (0 .. n - 1), NEW v \in [ps -> Int],
         NEW c \in 0 .. n - 1, Ascending(v, ps, c),
         NEW x \in ps, \A a \in ps : a = x \/ v[a] < v[x]
  PROVE  Ascending(v, ps, After(x, n))
<1> SUFFICES ASSUME NEW a \in ps, NEW b \in ps, Before(After(x, n), a, b)
             PROVE  v[a] < v[b]
  BY DEF Ascending
<1>1. /\ a \in 0 .. n - 1 /\ b \in 0 .. n - 1 /\ x \in 0 .. n - 1
      /\ a # b /\ v[a] \in Int /\ v[b] \in Int /\ v[x] \in Int
  BY DEF Before, After
<1>2. (a = x \/ v[a] < v[x]) /\ (b = x \/ v[b] < v[x])
  OBVIOUS
<1>3. Before(c, x, a) => v[x] < v[a]
  BY DEF Ascending
<1>4. Before(c, x, b) => v[x] < v[b]
  BY DEF Ascending
<1>5. Before(c, a, b) => v[a] < v[b]
  BY DEF Ascending
<1>6. QED
  BY <1>1, <1>2, <1>3, <1>4, <1>5 DEF Before, After

(* A root block m between l and q: if it is newer than l, then what is     *)
(* between l and m is older than m; if it is older, then so is q.          *)
LEMMA BetweenOlder ==
  ASSUME NEW n \in Nat \ {0}, NEW ps \in SUBSET (0 .. n - 1), NEW v \in [ps -> Int],
         NEW c \in 0 .. n - 1, Ascending(v, ps, c),
         NEW l \in ps, NEW q \in ps, NEW m \in ps, l < q, q < m, v[l] < v[m]
  PROVE  v[q] < v[m]
<1>1. /\ l \in 0 .. n - 1 /\ q \in 0 .. n - 1 /\ m \in 0 .. n - 1
      /\ v[l] \in Int /\ v[q] \in Int /\ v[m] \in Int
  OBVIOUS
<1>2. Before(c, q, m) => v[q] < v[m]
  BY DEF Ascending
<1>3. Before(c, m, l) => v[m] < v[l]
  BY DEF Ascending
<1>4. QED
  BY <1>1, <1>2, <1>3 DEF Before

LEMMA BeyondOlder ==
  ASSUME NEW n \in Nat \ {0}, NEW ps \in SUBSET (0 .. n - 1), NEW v \in [ps -> Int],
         NEW c \in 0 .. n - 1, Ascending(v, ps, c),
         NEW l \in ps, NEW m \in ps, NEW q \in ps, l < m, m < q, v[m] < v[l]
  PROVE  v[q] < v[l]
<1>1. /\ l \in 0 .. n - 1 /\ q \in 0 .. n - 1 /\ m \in 0 .. n - 1
      /\ v[l] \in Int /\ v[q] \in Int /\ v[m] \in Int
  OBVIOUS
<1>2. Before(c, l, m) => v[l] < v[m]
  BY DEF Ascending
<1>3. Before(c, q, l) => v[q] < v[l]
  BY DEF Ascending
<1>4. QED
  BY <1>1, <1>2, <1>3 DEF Before

--------------------------------------------------------------------------------
(* The state.                                                              *)

LEMMA Sizes ==
  ASSUME db \in Databases
  PROVE  /\ NumberOfFiles \in Nat \ {0} /\ NumberOfPages \in Nat \ {0}
         /\ 0 \in Files /\ 0 \in PageNumbers
         /\ \A f \in Files : f \in Nat /\ f < NumberOfFiles
         /\ \A p \in PageNumbers : p \in Nat /\ p < NumberOfPages /\ After(p, NumberOfPages) \in PageNumbers
         /\ NoPage \notin DiskPages
<1>1. NumberOfFiles \in Nat \ {0} /\ NumberOfPages \in Nat \ {0}
  BY DatabasesAssumption DEF NumberOfFiles, NumberOfPages
<1> DEFINE n == NumberOfFiles
           m == NumberOfPages
<1> HIDE DEF n, m
<1>2. n \in Nat /\ n > 0 /\ m \in Nat /\ m > 0
  BY <1>1 DEF n, m
<1>3. Files = 0 .. n - 1 /\ PageNumbers = 0 .. m - 1
  BY DEF Files, PageNumbers, n, m
<1>4. 0 \in Files /\ 0 \in PageNumbers /\ \A f \in Files : f \in Nat /\ f < n
  BY <1>2, <1>3
<1>5. \A p \in PageNumbers : p \in Nat /\ p < m /\ After(p, m) \in PageNumbers
  BY <1>2, <1>3 DEF After
<1>6. NoPage \notin DiskPages
  <2>1. NoPage = <<n, m>> /\ n \notin Files
    BY <1>2, <1>3 DEF NoPage, n, m
  <2>2. QED
    BY <2>1 DEF DiskPages
<1>7. QED
  BY <1>1, <1>4, <1>5, <1>6 DEF n, m

LEMMA Pairs ==
  /\ \A t \in DiskPages : t[1] \in Files /\ t[2] \in PageNumbers /\ t = <<t[1], t[2]>>
  /\ \A f \in Files, p \in PageNumbers : <<f, p>> \in DiskPages /\ <<f, p>>[1] = f /\ <<f, p>>[2] = p
BY DEF DiskPages

LEMMA CellFacts ==
  /\ Unused \in Cells /\ Data \in Cells /\ Unused # Data
  /\ Unused.cookie # "ROOT" /\ Data.cookie # "ROOT"
  /\ \A s \in Stamp : /\ RootBlock(s) \in Cells /\ RootBlock(s).cookie = "ROOT"
                      /\ [hi |-> RootBlock(s).hi, lo |-> RootBlock(s).lo] = s
                      /\ RootBlock(s) # Unused /\ RootBlock(s) # Data
  /\ \A c \in Cells : \/ c = Unused \/ c = Data
                      \/ c.cookie = "ROOT" /\ [hi |-> c.hi, lo |-> c.lo] \in Stamp
<1>1. Unused \in Cells /\ Data \in Cells /\ Unused # Data /\ Unused.cookie # "ROOT" /\ Data.cookie # "ROOT"
  <2>1. Unused.cookie = "UNUSED" /\ Data.cookie = "PAGE"
    BY DEF Unused, Data
  <2>2. QED
    BY <2>1 DEF Cells
<1>2. ASSUME NEW s \in Stamp
      PROVE  /\ RootBlock(s) \in Cells /\ RootBlock(s).cookie = "ROOT"
             /\ [hi |-> RootBlock(s).hi, lo |-> RootBlock(s).lo] = s
  <2>1. RootBlock(s) \in Cells
    BY DEF Cells
  <2>2. RootBlock(s).cookie = "ROOT" /\ RootBlock(s).hi = s.hi /\ RootBlock(s).lo = s.lo
    BY DEF RootBlock
  <2>3. s = [hi |-> s.hi, lo |-> s.lo]
    BY DEF Stamp
  <2>4. QED
    BY <2>1, <2>2, <2>3
<1>3. ASSUME NEW c \in Cells, c # Unused, c # Data
      PROVE  c.cookie = "ROOT" /\ [hi |-> c.hi, lo |-> c.lo] \in Stamp
  <2>1. PICK s \in Stamp : c = RootBlock(s)
    BY <1>3 DEF Cells
  <2>2. QED
    BY <1>2, <2>1
<1>4. \A s \in Stamp : RootBlock(s) # Unused /\ RootBlock(s) # Data
  BY <1>1, <1>2
<1>5. QED
  BY <1>1, <1>2, <1>3, <1>4

LEMMA NumTypes ==
  ASSUME db \in Databases, disk \in [Files -> [PageNumbers -> Cells]], NEW f \in Files
  PROVE  /\ RootsOf(f) \in SUBSET (0 .. NumberOfPages - 1) /\ Nums(f) \in [RootsOf(f) -> Int]
         /\ \A p \in PageNumbers : p \in RootsOf(f) <=> disk[f][p] # Unused /\ disk[f][p] # Data
         /\ \A p \in RootsOf(f) : /\ p \in PageNumbers /\ StampOf(f, p) \in Stamp
                                  /\ Num(f, p) \in Nat /\ Nums(f)[p] = Num(f, p)
<1>1. ASSUME NEW p \in PageNumbers
      PROVE  p \in RootsOf(f) <=> disk[f][p] # Unused /\ disk[f][p] # Data
  <2>1. disk[f][p] \in Cells
    OBVIOUS
  <2>2. QED
    BY <2>1, CellFacts DEF RootsOf
<1>2. ASSUME NEW p \in RootsOf(f)
      PROVE  p \in PageNumbers /\ StampOf(f, p) \in Stamp /\ Num(f, p) \in Nat
  <2>1. p \in PageNumbers /\ disk[f][p].cookie = "ROOT"
    BY DEF RootsOf
  <2>2. disk[f][p] \in Cells
    BY <2>1
  <2>3. StampOf(f, p) \in Stamp
    BY <2>1, <2>2, CellFacts DEF StampOf
  <2>4. Num(f, p) \in Nat
    BY <2>3, StampValue DEF Num
  <2>5. QED
    BY <2>1, <2>3, <2>4
<1>3. \A p \in RootsOf(f) : Nums(f)[p] = Num(f, p)
  BY DEF Nums
<1>4. Nums(f) \in [RootsOf(f) -> Int]
  BY <1>2 DEF Nums
<1>5. RootsOf(f) \in SUBSET (0 .. NumberOfPages - 1)
  BY DEF RootsOf, PageNumbers
<1>6. QED
  BY <1>1, <1>2, <1>3, <1>4, <1>5

--------------------------------------------------------------------------------
(* The page that is taken next.                                            *)

LEMMA AheadValue ==
  ASSUME Types, NEW f \in Files, NEW p \in PageNumbers
  PROVE  PagesAhead(f, p) = IF cursor[f] <= p THEN p - cursor[f] ELSE (p + NumberOfPages) - cursor[f]
<1> DEFINE n == NumberOfPages
           c == cursor[f]
           y == p + n - c
<1>1. n \in Nat \ {0} /\ c \in Nat /\ c < n /\ p \in Nat /\ p < n
  BY Sizes DEF Types
<1>2. PagesAhead(f, p) = y % n
  BY DEF PagesAhead
<1> HIDE DEF n, c
<1>3. y \in Nat /\ y < 2 * n /\ (c <= p => n <= y) /\ (~(c <= p) => y < n) /\ y = (p + n) - c
      /\ y - n = p - c
  BY <1>1
<1> HIDE DEF y
<1>4. y % n = IF c <= p THEN y - n ELSE y
  BY <1>1, <1>3, ModSmall, ModBig
<1>5. QED
  BY <1>2, <1>3, <1>4 DEF n, c

(* FirstFree is the first free page on the way round from the cursor.      *)
LEMMA FirstFreePage ==
  ASSUME Types, NEW f \in Files, FreeIn(f) # {}
  PROVE  /\ FirstFree(f) \in FreeIn(f)
         /\ \A q \in PageNumbers : Before(cursor[f], q, FirstFree(f)) => q \notin FreeIn(f)
<1> DEFINE n == NumberOfPages
           c == cursor[f]
           ns == {PagesAhead(f, p) : p \in FreeIn(f)}
           d(p) == IF c <= p THEN p - c ELSE (p + n) - c
<1>1. n \in Nat \ {0} /\ c \in Nat /\ c < n /\ \A p \in PageNumbers : p \in Nat /\ p < n
  BY Sizes DEF Types
<1>2. \A p \in PageNumbers : PagesAhead(f, p) = d(p)
  BY AheadValue
<1>3. FreeIn(f) \subseteq PageNumbers
  BY DEF FreeIn
<1> HIDE DEF n, c
<1>4. \A p \in PageNumbers : d(p) \in Nat
  BY <1>1
<1>5. ns \in SUBSET Nat /\ ns # {}
  BY <1>2, <1>3, <1>4
<1>6. PICK k \in ns : \A m \in ns : k <= m
  BY <1>5, SmallestNumber
<1>7. PICK p \in FreeIn(f) : k = PagesAhead(f, p)
  BY <1>6
<1>8. \A q \in FreeIn(f) : PagesAhead(f, p) <= PagesAhead(f, q)
  BY <1>6, <1>7
<1> DEFINE x == FirstFree(f)
<1>9. x \in FreeIn(f) /\ \A q \in FreeIn(f) : PagesAhead(f, x) <= PagesAhead(f, q)
  BY <1>8 DEF FirstFree
<1> HIDE DEF x
<1>10. ASSUME NEW q \in PageNumbers, Before(c, q, x), q \in FreeIn(f) PROVE FALSE
  <2>1. x \in PageNumbers /\ x \in Nat /\ x < n /\ q \in Nat /\ q < n
    BY <1>1, <1>3, <1>9
  <2>2. PagesAhead(f, x) <= PagesAhead(f, q)
    BY <1>9, <1>10
  <2>3. d(x) <= d(q)
    BY <1>2, <2>1, <2>2
  <2>4. QED
    BY <1>1, <1>10, <2>1, <2>3 DEF Before
<1>11. QED
  BY <1>9, <1>10 DEF x, c

LEMMA FirstFileOf ==
  ASSUME Types, NEW fs \in SUBSET Files, fs # {}
  PROVE  FirstFile(fs) \in fs
<1> DEFINE ns == {FilesAhead(f) : f \in fs}
<1>1. ASSUME NEW f \in Files PROVE FilesAhead(f) \in Nat
  <2> DEFINE n == NumberOfFiles
             c == fileCursor
  <2>1. n \in Nat \ {0} /\ c \in Nat /\ c < n /\ f \in Nat /\ f < n
    BY Sizes DEF Types
  <2>2. FilesAhead(f) = (f + n - c) % n
    BY DEF FilesAhead
  <2> HIDE DEF n, c
  <2>3. f + n - c \in Nat
    BY <2>1
  <2>4. QED
    BY <2>1, <2>2, <2>3
<1>2. ns \in SUBSET Nat /\ ns # {}
  BY <1>1
<1>3. PICK k \in ns : \A m \in ns : k <= m
  BY <1>2, SmallestNumber
<1>4. PICK f \in fs : k = FilesAhead(f)
  BY <1>3
<1>5. \A g \in fs : FilesAhead(f) <= FilesAhead(g)
  BY <1>3, <1>4
<1>6. QED
  BY <1>5 DEF FirstFile

(* Without load balancing a write goes to the first free page of a file.   *)
TakesNext(t) ==
  /\ t \in DiskPages /\ status[t[1]][t[2]] = "FREE"
  /\ \A q \in PageNumbers : Before(cursor[t[1]], q, t[2]) => status[t[1]][q] # "FREE"

LEMMA FirstIsNext ==
  ASSUME Types, NEW f \in Files, FreeIn(f) # {}
  PROVE  TakesNext(<<f, FirstFree(f)>>)
<1>1. /\ FirstFree(f) \in FreeIn(f)
      /\ \A q \in PageNumbers : Before(cursor[f], q, FirstFree(f)) => q \notin FreeIn(f)
  BY FirstFreePage
<1> DEFINE p == FirstFree(f)
<1> HIDE DEF p
<1>2. p \in PageNumbers /\ status[f][p] = "FREE"
  BY <1>1 DEF FreeIn, p
<1>3. \A q \in PageNumbers : Before(cursor[f], q, p) => status[f][q] # "FREE"
  BY <1>1 DEF FreeIn, p
<1>4. <<f, p>> \in DiskPages /\ <<f, p>>[1] = f /\ <<f, p>>[2] = p
  BY <1>2, Pairs
<1>5. TakesNext(<<f, p>>)
  BY <1>2, <1>3, <1>4 DEF TakesNext
<1>6. QED
  BY <1>5 DEF p

LEMMA TargetNext ==
  ASSUME Types, LoadBalancing = FALSE, NEW t \in Targets
  PROVE  TakesNext(t)
<1> DEFINE fs == {f \in WithRoom : FreeIn(f) # {}}
<1>1. fs # {} /\ t = <<FirstFile(fs), FirstFree(FirstFile(fs))>>
  BY DEF Targets
<1>2. fs \in SUBSET Files
  BY DEF WithRoom
<1>3. FirstFile(fs) \in fs
  BY <1>1, <1>2, FirstFileOf
<1>4. PICK f \in Files : f = FirstFile(fs) /\ FreeIn(f) # {}
  BY <1>2, <1>3
<1>5. TakesNext(<<f, FirstFree(f)>>)
  BY <1>4, FirstIsNext
<1> HIDE DEF fs
<1>6. QED
  BY <1>1, <1>4, <1>5

LEMMA RootTargetNext ==
  ASSUME Types, NEW t \in RootTargets
  PROVE  TakesNext(t)
<1> DEFINE fs == {f \in Files : FreeIn(f) # {}}
<1>1. fs # {} /\ t = <<FirstFile(fs), FirstFree(FirstFile(fs))>>
  BY DEF RootTargets
<1>2. FirstFile(fs) \in fs
  BY <1>1, FirstFileOf
<1>3. PICK f \in Files : f = FirstFile(fs) /\ FreeIn(f) # {}
  BY <1>2
<1>4. TakesNext(<<f, FirstFree(f)>>)
  BY <1>3, FirstIsNext
<1> HIDE DEF fs
<1>5. QED
  BY <1>1, <1>3, <1>4

--------------------------------------------------------------------------------
(* What a step leaves as it is.                                            *)

LEMMA DbSame ==
  ASSUME UNCHANGED db
  PROVE  /\ NumberOfFiles' = NumberOfFiles /\ NumberOfPages' = NumberOfPages
         /\ Files' = Files /\ PageNumbers' = PageNumbers /\ DiskPages' = DiskPages
         /\ NoPage' = NoPage /\ Search' = Search
BY DEF NumberOfFiles, NumberOfPages, Files, PageNumbers, DiskPages, NoPage, Search

LEMMA DiskSame ==
  ASSUME UNCHANGED <<db, disk>>
  PROVE  /\ \A f : RootsOf(f)' = RootsOf(f) /\ Nums(f)' = Nums(f)
         /\ \A f, p : Num(f, p)' = Num(f, p) /\ StampOf(f, p)' = StampOf(f, p)
<1>1. ASSUME NEW f, NEW p PROVE Num(f, p)' = Num(f, p) /\ StampOf(f, p)' = StampOf(f, p)
  BY DEF Num, StampOf, Value
<1>2. ASSUME NEW f PROVE RootsOf(f)' = RootsOf(f)
  BY DbSame DEF RootsOf
<1>3. ASSUME NEW f PROVE Nums(f)' = Nums(f)
  BY <1>1, <1>2 DEF Nums
<1>4. QED
  BY <1>1, <1>2, <1>3

(* The parts of the invariant about the disk alone.                        *)
OnDisk == Rotated /\ UnusedLast /\ NewestLast

LEMMA OnDiskSame ==
  ASSUME OnDisk, UNCHANGED <<db, disk, newest>>
  PROVE  OnDisk'
<1>1. Rotated'
  BY DbSame, DiskSame DEF OnDisk, Rotated
<1>2. UnusedLast'
  BY DbSame, DiskSame DEF OnDisk, UnusedLast
<1>3. NewestLast'
  BY DbSame, DiskSame DEF OnDisk, NewestLast
<1>4. QED
  BY <1>1, <1>2, <1>3 DEF OnDisk

LEMMA StopKeepsInv ==
  ASSUME Inv, Up, NEW why \in {"full", "assert"}, Stop(why), UNCHANGED db
  PROVE  Inv'
<1>1. UNCHANGED <<status, nfree, total, cursor, fileCursor, prevRoot, stamp, search,
                  disk, pending, newest, committed, roots, crashes>> /\ phase' = why
  BY DEF Stop, spaceVars, diskVars, ghostVars
<1>2. Types'
  BY <1>1, DbSame DEF Inv, Types
<1>3. OnDisk'
  BY <1>1, OnDiskSame DEF Inv, OnDisk
<1>4. Referred'
  BY <1>1, DbSame DEF Inv, Referred
<1>5. Up'
  BY <1>1 DEF Up
<1>6. StatusMeans'
  BY <1>1, DbSame DEF Inv, StatusMeans
<1>7. CursorsMean'
  <2>1. \A f : Surviving(f)' = Surviving(f)
    BY <1>1, DbSame, DiskSame DEF Surviving
  <2>2. QED
    BY <1>1, <2>1, DbSame, DiskSame DEF Inv, CursorsMean
<1>8. StampNewer'
  BY <1>1, DbSame, DiskSame DEF Inv, StampNewer, Value
<1>9. QED
  BY <1>2, <1>3, <1>4, <1>5, <1>6, <1>7, <1>8 DEF Inv, OnDisk

LEMMA InitInv ==
  ASSUME Init PROVE Inv
<1>1. db \in Databases
  BY DEF Init
<1>2. \A f \in Files : RootsOf(f) = {}
  BY CellFacts DEF Init, RootsOf
<1>3. Types
  <2>1. 0 \in Files /\ 0 \in PageNumbers /\ NumberOfFiles \in Nat \ {0} /\ NumberOfPages \in Nat \ {0}
    BY <1>1, Sizes
  <2>2. total \in Nat
    BY <2>1 DEF Init
  <2>3. OldestStamp \in Stamp /\ stamp \in Stamp
    BY StampWordAssumption DEF Init, Stamp, OldestStamp
  <2>4. search \in Search
    BY <2>1, <2>3 DEF Init, Search, NoSearch, SearchIn
  <2>5. disk \in [Files -> [PageNumbers -> Cells]]
    BY CellFacts DEF Init
  <2>6. status \in [Files -> [PageNumbers -> PageStates]]
    BY DEF Init, PageStates
  <2>7. nfree \in [Files -> Nat] /\ cursor \in [Files -> PageNumbers] /\ fileCursor \in Files
    BY <2>1 DEF Init
  <2>8. QED
    BY <2>2, <2>3, <2>4, <2>5, <2>6, <2>7 DEF Init, Types
<1>4. Rotated
  BY <1>1, <1>2, Sizes DEF Rotated, Ascending
<1>5. UnusedLast /\ NewestLast
  BY <1>2 DEF Init, UnusedLast, NewestLast
<1>6. Referred
  BY DEF Init, Referred
<1>7. Up
  BY DEF Init, Up
<1>8. StatusMeans
  BY <1>1, Sizes, Pairs DEF Init, StatusMeans
<1>9. CursorsMean
  <2>1. \A f \in Files : Surviving(f) = {}
    BY <1>2 DEF Surviving
  <2>2. \A f \in Files : cursor[f] = 0 /\ \A q \in PageNumbers : ~(q < 0)
    <3>1. \A f \in Files : cursor[f] = 0
      BY DEF Init
    <3>2. \A q \in PageNumbers : q \in Nat
      BY <1>1, Sizes
    <3>3. QED
      BY <3>1, <3>2
  <2>3. QED
    BY <2>1, <2>2 DEF CursorsMean, Ascending
<1>10. StampNewer
  <2>1. Value(stamp) = 0 * StampWord + 1
    BY DEF Init, Value
  <2>2. Value(stamp) = 1
    BY <2>1, StampWordAssumption
  <2>3. QED
    BY <1>2, <2>2 DEF StampNewer
<1>11. QED
  BY <1>3, <1>4, <1>5, <1>6, <1>7, <1>8, <1>9, <1>10 DEF Inv

--------------------------------------------------------------------------------
(* io_write_page.                                                          *)

LEMMA NextCursor ==
  ASSUME Types, NEW t \in DiskPages
  PROVE  /\ (t[2] + 1) % NumberOfPages = After(t[2], NumberOfPages)
         /\ After(t[2], NumberOfPages) \in PageNumbers
         /\ (t[1] + 1) % NumberOfFiles \in Files
<1> DEFINE n == NumberOfPages
           m == NumberOfFiles
           p == t[2]
           f == t[1]
<1>1. n \in Nat \ {0} /\ m \in Nat \ {0} /\ p \in Nat /\ p < n /\ f \in Nat /\ f < m
      /\ After(p, n) \in PageNumbers
  BY Sizes, Pairs DEF Types
<1> HIDE DEF n, m, p, f
<1>2. (p + 1) % n = After(p, n)
  <2>1. CASE p + 1 = n
    <3>1. (p + 1) % n = (p + 1) - n
      BY <1>1, <2>1, ModBig
    <3>2. QED
      BY <1>1, <2>1, <3>1 DEF After
  <2>2. CASE p + 1 # n
    <3>1. p + 1 \in Nat /\ p + 1 < n
      BY <1>1, <2>2
    <3>2. (p + 1) % n = p + 1
      BY <1>1, <3>1, ModSmall
    <3>3. QED
      BY <2>2, <3>2 DEF After
  <2>3. QED
    BY <2>1, <2>2
<1>3. (f + 1) % m \in 0 .. m - 1
  BY <1>1
<1>4. QED
  BY <1>1, <1>2, <1>3 DEF n, m, p, f, Files

(* The root blocks that the next write passes by or overwrites.            *)
LEMMA NextPlace ==
  ASSUME Inv, Up, NEW t, TakesNext(t)
  PROVE  /\ Ascending(Nums(t[1]), Surviving(t[1]) \ {t[2]}, After(t[2], NumberOfPages))
         /\ \A q \in PageNumbers : q < t[2] => <<t[1], q>> \in pending \/ disk[t[1]][q] # Unused
<1> DEFINE f == t[1]
           p == t[2]
           n == NumberOfPages
           c == cursor[f]
           ps == Surviving(f)
           v == [a \in ps |-> Nums(f)[a]]
<1>1. t \in DiskPages /\ f \in Files /\ p \in PageNumbers
  BY Pairs DEF TakesNext
<1>2. n \in Nat \ {0} /\ c \in 0 .. n - 1 /\ p \in 0 .. n - 1
  BY <1>1, Sizes DEF Inv, Types, PageNumbers
<1>3. /\ RootsOf(f) \in SUBSET (0 .. n - 1) /\ Nums(f) \in [RootsOf(f) -> Int]
      /\ \A a \in PageNumbers : a \in RootsOf(f) <=> disk[f][a] # Unused /\ disk[f][a] # Data
      /\ \A a \in RootsOf(f) : a \in PageNumbers /\ Nums(f)[a] = Num(f, a)
  <2>1. db \in Databases /\ disk \in [Files -> [PageNumbers -> Cells]]
    BY DEF Inv, Types
  <2>2. QED
    BY <1>1, <2>1, NumTypes
<1>4. ps \in SUBSET (0 .. n - 1) /\ v \in [ps -> Int] /\ ps \subseteq RootsOf(f)
  BY <1>3 DEF Surviving
<1>5. ASSUME NEW q \in PageNumbers, Before(c, q, p)
      PROVE  <<f, q>> \in pending \/ disk[f][q] = Data \/ <<f, q>> = newest
  <2>1. <<f, q>> \in DiskPages /\ <<f, q>>[1] = f /\ <<f, q>>[2] = q
    BY <1>1, Pairs
  <2>2. status[f][q] # "FREE"
    BY <1>5 DEF TakesNext
  <2>3. status[f][q] \in {"ALLOCATED", "ROOT", "FREE", "UNKNOWN"}
    BY <1>1 DEF Inv, Types, PageStates
  <2>4. /\ status[f][q] # "UNKNOWN"
        /\ status[f][q] = "ROOT" => <<f, q>> = newest
        /\ status[f][q] = "ALLOCATED" => <<f, q>> \in pending \/ disk[f][q] = Data
    BY <2>1 DEF Inv, StatusMeans
  <2>5. QED
    BY <2>2, <2>3, <2>4
<1>6. newest # NoPage =>
        /\ newest[2] \in RootsOf(newest[1])
        /\ \A a \in RootsOf(f) : <<f, a>> = newest \/ Num(f, a) < Num(newest[1], newest[2])
  BY <1>1 DEF Inv, NewestLast
<1>7. \A q : <<f, q>> = newest => newest[1] = f /\ newest[2] = q
  OBVIOUS
<1>8. \A q \in PageNumbers : <<f, q>> # NoPage
  BY <1>1, Pairs, Sizes DEF Inv, Types
<1>9. ASSUME NEW q \in ps, Before(c, q, p), NEW a \in ps PROVE a = q \/ v[a] < v[q]
  <2>1. q \in PageNumbers /\ q \in RootsOf(f) /\ a \in RootsOf(f) /\ <<f, q>> \notin pending
    BY <1>3, <1>4 DEF Surviving
  <2>2. <<f, q>> = newest
    BY <1>3, <1>5, <1>9, <2>1
  <2>3. <<f, a>> = newest \/ Num(f, a) < Num(f, q)
    BY <1>6, <1>7, <1>8, <2>1, <2>2
  <2>4. <<f, a>> = newest => a = q
    BY <2>2
  <2>5. v[a] = Num(f, a) /\ v[q] = Num(f, q)
    BY <1>3, <2>1
  <2>6. QED
    BY <2>3, <2>4, <2>5
<1>10. \A a \in ps : v[a] = Nums(f)[a]
  OBVIOUS
<1>11. Ascending(Nums(f), ps, c) \/ (Ascending(Nums(f), ps, After(c, n)) /\ c \in ps)
  BY <1>1 DEF Inv, CursorsMean
<1> HIDE DEF v, ps, n, c
<1>12. Ascending(v, ps, c) \/ (Ascending(v, ps, After(c, n)) /\ c \in ps)
  BY <1>10, <1>11, AscendingSame
<1>13. Ascending(v, ps \ {p}, After(p, n))
  BY <1>2, <1>4, <1>9, <1>12, OverwriteNext
<1>14. Ascending(Nums(f), ps \ {p}, After(p, n))
  BY <1>10, <1>13, AscendingSame
<1>15. ASSUME NEW q \in PageNumbers, q < p PROVE <<f, q>> \in pending \/ disk[f][q] # Unused
  <2>1. CASE q < c
    BY <1>1, <2>1 DEF Inv, CursorsMean, c
  <2>2. CASE ~(q < c)
    <3>1. q \in 0 .. n - 1
      BY DEF PageNumbers, n
    <3>2. Before(c, q, p)
      BY <1>2, <1>15, <2>2, <3>1 DEF Before
    <3>3. <<f, q>> \in pending \/ disk[f][q] = Data \/ <<f, q>> = newest
      BY <1>5, <3>2
    <3>4. <<f, q>> = newest => q \in RootsOf(f)
      BY <1>6, <1>7, <1>8
    <3>5. QED
      BY <1>3, <3>3, <3>4, CellFacts
  <2>3. QED
    BY <2>1, <2>2
<1>16. QED
  BY <1>14, <1>15 DEF ps, n

LEMMA Counts ==
  ASSUME db \in Databases
  PROVE  /\ Word \in Nat \ {0} /\ Word > NumberOfFiles * NumberOfPages + 1
         /\ \A n \in Nat : Inc(n) \in Nat /\ Dec(n) \in Nat
<1> DEFINE w == Word
           a == NumberOfFiles
           b == NumberOfPages
<1>1. w \in Nat /\ w > a * b + 1
  BY WordAssumption DEF NumberOfFiles, NumberOfPages
<1>2. a \in Nat \ {0} /\ b \in Nat \ {0}
  BY Sizes
<1> HIDE DEF w, a, b
<1>3. a * b \in Nat
  BY <1>2
<1>4. w \in Nat \ {0}
  BY <1>1, <1>3
<1>5. \A n \in Nat : (n + 1) % w \in Nat /\ (n + w - 1) % w \in Nat
  <2> SUFFICES ASSUME NEW n \in Nat PROVE (n + 1) % w \in Nat /\ (n + w - 1) % w \in Nat
    OBVIOUS
  <2>1. n + 1 \in Nat /\ n + w - 1 \in Nat
    BY <1>4
  <2>2. QED
    BY <1>4, <2>1
<1>6. QED
  BY <1>1, <1>4, <1>5 DEF w, a, b, Inc, Dec

(* One page's state is set.                                                *)
LEMMA SetStatus ==
  ASSUME NEW st \in [Files -> [PageNumbers -> PageStates]], NEW t \in DiskPages, NEW s \in PageStates
  PROVE  /\ [st EXCEPT ![t[1]][t[2]] = s] \in [Files -> [PageNumbers -> PageStates]]
         /\ \A u \in DiskPages :
              [st EXCEPT ![t[1]][t[2]] = s][u[1]][u[2]] = IF u = t THEN s ELSE st[u[1]][u[2]]
<1> DEFINE new == [st EXCEPT ![t[1]][t[2]] = s]
<1>1. t[1] \in Files /\ t[2] \in PageNumbers /\ t = <<t[1], t[2]>>
  BY Pairs
<1>2. new \in [Files -> [PageNumbers -> PageStates]]
  BY <1>1
<1>3. ASSUME NEW u \in DiskPages PROVE new[u[1]][u[2]] = IF u = t THEN s ELSE st[u[1]][u[2]]
  <2>1. u[1] \in Files /\ u[2] \in PageNumbers /\ u = <<u[1], u[2]>>
    BY Pairs
  <2>2. u = t <=> u[1] = t[1] /\ u[2] = t[2]
    BY <1>1, <2>1
  <2>3. new[u[1]][u[2]] = IF u[1] = t[1] /\ u[2] = t[2] THEN s ELSE st[u[1]][u[2]]
    BY <1>1, <2>1
  <2>4. QED
    BY <2>2, <2>3
<1>4. QED
  BY <1>2, <1>3

LEMMA WritePageKeepsInv ==
  ASSUME Inv, LoadBalancing = FALSE, io_write_page, UNCHANGED db
  PROVE  Inv'
<1>1. PICK t \in Targets :
        /\ status' = [status EXCEPT ![t[1]][t[2]] = "ALLOCATED"]
        /\ Advance(t)
        /\ nfree' = [nfree EXCEPT ![t[1]] = Dec(@)]
        /\ total' = Dec(total)
        /\ pending' = pending \cup {t}
  BY DEF io_write_page
<1>2. phase = "running" /\ UNCHANGED <<phase, prevRoot, stamp, search, disk, newest, committed, roots, crashes>>
  BY DEF io_write_page, ghostVars
<1>3. Types /\ Up
  BY <1>2 DEF Inv, Up
<1>4. TakesNext(t)
  BY <1>3, TargetNext
<1> DEFINE f == t[1]
           p == t[2]
           n == NumberOfPages
<1>5. /\ Ascending(Nums(f), Surviving(f) \ {p}, After(p, n))
      /\ \A q \in PageNumbers : q < p => <<f, q>> \in pending \/ disk[f][q] # Unused
  BY <1>3, <1>4, NextPlace
<1>6. t \in DiskPages /\ f \in Files /\ p \in PageNumbers /\ t = <<f, p>> /\ status[f][p] = "FREE"
  BY <1>4, Pairs DEF TakesNext
<1>7. cursor' = [cursor EXCEPT ![f] = After(p, n)] /\ fileCursor' \in Files /\ After(p, n) \in PageNumbers
  BY <1>1, <1>3, <1>6, NextCursor DEF Advance
<1>8. /\ status' \in [Files -> [PageNumbers -> PageStates]]
      /\ \A u \in DiskPages : status'[u[1]][u[2]] = IF u = t THEN "ALLOCATED" ELSE status[u[1]][u[2]]
  BY <1>1, <1>3, <1>6, SetStatus DEF Types, PageStates
<1>9. Types'
  <2>1. nfree' \in [Files -> Nat] /\ total' \in Nat
    BY <1>1, <1>3, <1>6, Counts DEF Types
  <2>2. cursor' \in [Files -> PageNumbers]
    BY <1>3, <1>7 DEF Types
  <2>3. QED
    BY <1>1, <1>2, <1>3, <1>6, <1>7, <1>8, <2>1, <2>2, DbSame DEF Types
<1>10. OnDisk'
  BY <1>2, OnDiskSame DEF Inv, OnDisk
<1>11. StatusMeans
  BY <1>3 DEF Inv
<1>12. t # newest
  BY <1>6, <1>11 DEF StatusMeans
<1>13. Referred'
  BY <1>1, <1>2, <1>12 DEF Inv, Referred
<1>14. Up'
  BY <1>2 DEF Up
<1>15. StatusMeans'
  <2>1. prevRoot' = newest'
    BY <1>2, <1>11 DEF StatusMeans
  <2>2. ASSUME NEW u \in DiskPages
        PROVE  /\ status'[u[1]][u[2]] # "UNKNOWN"
               /\ status'[u[1]][u[2]] = "ROOT" <=> u = newest
               /\ status'[u[1]][u[2]] = "ALLOCATED" => u \in pending' \/ disk[u[1]][u[2]] = Data
               /\ u \in pending' => status'[u[1]][u[2]] = "ALLOCATED"
    BY <1>1, <1>8, <1>11, <1>12 DEF StatusMeans
  <2>3. QED
    BY <1>2, <2>1, <2>2, DbSame DEF StatusMeans
<1>16. CursorsMean'
  <2>1. \A g : RootsOf(g)' = RootsOf(g) /\ Nums(g)' = Nums(g)
    BY <1>2, DiskSame
  <2>2. ASSUME NEW g \in Files, g = f
        PROVE  /\ Ascending(Nums(g), Surviving(g)', cursor'[g])
               /\ \A q \in PageNumbers : q < cursor'[g] => <<g, q>> \in pending' \/ disk[g][q] # Unused
    <3>1. cursor'[f] = After(p, n)
      BY <1>3, <1>6, <1>7 DEF Types
    <3>2. Surviving(f)' = Surviving(f) \ {p}
      BY <1>1, <1>6, <2>1 DEF Surviving
    <3>3. ASSUME NEW q \in PageNumbers, q < After(p, n)
          PROVE  <<f, q>> \in pending' \/ disk[f][q] # Unused
      <4>1. n \in Nat \ {0} /\ p \in Nat /\ p < n /\ q \in Nat
        BY <1>3, <1>6, Sizes DEF Types
      <4>2. q = p \/ q < p
        BY <3>3, <4>1 DEF After
      <4>3. QED
        BY <1>1, <1>5, <1>6, <4>2
    <3>4. QED
      BY <1>5, <2>2, <3>1, <3>2, <3>3
  <2>3. ASSUME NEW g \in Files, g # f
        PROVE  Surviving(g)' = Surviving(g) /\ cursor'[g] = cursor[g] /\ \A q : <<g, q>> \in pending => <<g, q>> \in pending'
    <3>1. \A q : <<g, q>> # t
      BY <1>6, <2>3
    <3>2. cursor'[g] = cursor[g]
      BY <1>3, <1>6, <1>7, <2>3 DEF Types
    <3>3. QED
      BY <1>1, <2>1, <3>1, <3>2 DEF Surviving
  <2>4. CursorsMean
    BY <1>3 DEF Inv
  <2>5. QED
    <3>1. ASSUME NEW g \in Files
          PROVE /\ \/ Ascending(Nums(g), Surviving(g)', cursor'[g])
                   \/ Ascending(Nums(g), Surviving(g)', After(cursor'[g], NumberOfPages)) /\ cursor'[g] \in Surviving(g)'
                /\ \A q \in PageNumbers : q < cursor'[g] => <<g, q>> \in pending' \/ disk[g][q] # Unused
      <4>1. CASE g = f
        BY <2>2, <4>1
      <4>2. CASE g # f
        BY <2>3, <2>4, <4>2 DEF CursorsMean
      <4>3. QED
        BY <4>1, <4>2
    <3>2. QED
      BY <1>2, <2>1, <3>1, DbSame DEF CursorsMean
<1>17. StampNewer'
  BY <1>2, <1>3, DbSame, DiskSame DEF Inv, StampNewer, Value
<1>18. QED
  BY <1>9, <1>10, <1>13, <1>14, <1>15, <1>16, <1>17 DEF Inv, OnDisk

LEMMA FreePageKeepsInv ==
  ASSUME Inv, NEW t \in DiskPages, io_free_disk_page(t), UNCHANGED db
  PROVE  Inv'
<1>1. /\ phase = "running" /\ pending = {} /\ status[t[1]][t[2]] = "ALLOCATED"
      /\ status' = [status EXCEPT ![t[1]][t[2]] = "FREE"]
      /\ nfree' = [nfree EXCEPT ![t[1]] = Inc(@)] /\ total' = Inc(total)
      /\ UNCHANGED <<phase, cursor, fileCursor, prevRoot, stamp, search, disk, pending,
                     newest, committed, roots, crashes>>
  BY DEF io_free_disk_page, diskVars, ghostVars
<1>2. Types /\ Up
  BY <1>1 DEF Inv, Up
<1>3. /\ status' \in [Files -> [PageNumbers -> PageStates]]
      /\ \A u \in DiskPages : status'[u[1]][u[2]] = IF u = t THEN "FREE" ELSE status[u[1]][u[2]]
  BY <1>1, <1>2, SetStatus DEF Types, PageStates
<1>4. Types'
  <2>1. nfree' \in [Files -> Nat] /\ total' \in Nat
    BY <1>1, <1>2, Counts, Pairs DEF Types
  <2>2. QED
    BY <1>1, <1>2, <1>3, <2>1, DbSame DEF Types
<1>5. OnDisk'
  BY <1>1, OnDiskSame DEF Inv, OnDisk
<1>6. Referred'
  BY <1>1, DbSame DEF Inv, Referred
<1>7. Up'
  BY <1>1 DEF Up
<1>8. StatusMeans'
  <2>1. StatusMeans
    BY <1>2 DEF Inv
  <2>2. t # newest
    BY <1>1, <2>1 DEF StatusMeans
  <2>3. ASSUME NEW u \in DiskPages
        PROVE  /\ status'[u[1]][u[2]] # "UNKNOWN"
               /\ status'[u[1]][u[2]] = "ROOT" <=> u = newest
               /\ status'[u[1]][u[2]] = "ALLOCATED" => u \in pending \/ disk[u[1]][u[2]] = Data
               /\ u \in pending => status'[u[1]][u[2]] = "ALLOCATED"
    BY <1>1, <1>3, <2>1, <2>2 DEF StatusMeans
  <2>4. prevRoot' = newest'
    BY <1>1, <2>1 DEF StatusMeans
  <2>5. QED
    BY <1>1, <2>3, <2>4, DbSame DEF StatusMeans
<1>9. CursorsMean'
  <2>1. \A f : Surviving(f)' = Surviving(f)
    BY <1>1, DbSame, DiskSame DEF Surviving
  <2>2. CursorsMean
    BY <1>2 DEF Inv
  <2>3. QED
    BY <1>1, <2>1, <2>2, DbSame, DiskSame DEF CursorsMean
<1>10. StampNewer'
  BY <1>1, <1>2, DbSame, DiskSame DEF Inv, StampNewer, Value
<1>11. QED
  BY <1>4, <1>5, <1>6, <1>7, <1>8, <1>9, <1>10 DEF Inv, OnDisk

--------------------------------------------------------------------------------
(* io_write_root.                                                          *)

(* The disk after it: the pending writes, and the root block at t.         *)
LEMMA RootDisk ==
  ASSUME Types, NEW t \in DiskPages, UNCHANGED db,
         disk' = [Landed(pending) EXCEPT ![t[1]][t[2]] = RootBlock(stamp)]
  PROVE  /\ disk' \in [Files -> [PageNumbers -> Cells]]
         /\ \A g \in Files, q \in PageNumbers :
              disk'[g][q] = IF <<g, q>> = t THEN RootBlock(stamp)
                            ELSE IF <<g, q>> \in pending THEN Data ELSE disk[g][q]
         /\ \A g \in Files : g # t[1] => RootsOf(g)' = Surviving(g)
         /\ RootsOf(t[1])' = Surviving(t[1]) \cup {t[2]}
         /\ \A g \in Files : \A a \in Surviving(g) :
              <<g, a>> # t => Num(g, a)' = Num(g, a) /\ Nums(g)'[a] = Nums(g)[a]
         /\ Num(t[1], t[2])' = Value(stamp)
<1>1. t[1] \in Files /\ t[2] \in PageNumbers /\ t = <<t[1], t[2]>>
  BY Pairs
<1>2. RootBlock(stamp) \in Cells /\ RootBlock(stamp).cookie = "ROOT"
      /\ [hi |-> RootBlock(stamp).hi, lo |-> RootBlock(stamp).lo] = stamp
  BY CellFacts DEF Types
<1>3. disk \in [Files -> [PageNumbers -> Cells]] /\ Data \in Cells
  BY CellFacts DEF Types
<1> HIDE DEF Cells
<1>4. Landed(pending) \in [Files -> [PageNumbers -> Cells]]
      /\ \A g \in Files, q \in PageNumbers :
           Landed(pending)[g][q] = IF <<g, q>> \in pending THEN Data ELSE disk[g][q]
  BY <1>3 DEF Landed
<1> DEFINE d == Landed(pending)
<1> HIDE DEF d
<1>5. disk' = [d EXCEPT ![t[1]][t[2]] = RootBlock(stamp)] /\ d \in [Files -> [PageNumbers -> Cells]]
  BY <1>4 DEF d
<1>6. disk' \in [Files -> [PageNumbers -> Cells]]
  <2> DEFINE f == t[1]
             p == t[2]
             b == RootBlock(stamp)
  <2> HIDE DEF f, p, b
  <2>1. disk' = [d EXCEPT ![f][p] = b] /\ b \in Cells /\ f \in Files /\ p \in PageNumbers
    BY <1>1, <1>2, <1>5 DEF f, p, b
  <2>2. [d[f] EXCEPT ![p] = b] \in [PageNumbers -> Cells]
    BY <1>5, <2>1
  <2>3. QED
    BY <1>5, <2>1, <2>2
<1>7. ASSUME NEW g \in Files, NEW q \in PageNumbers
      PROVE  disk'[g][q] = IF <<g, q>> = t THEN RootBlock(stamp) ELSE d[g][q]
  <2>1. <<g, q>> = t <=> g = t[1] /\ q = t[2]
    BY <1>1
  <2>2. disk'[g][q] = IF g = t[1] /\ q = t[2] THEN RootBlock(stamp) ELSE d[g][q]
    BY <1>1, <1>5
  <2>3. QED
    BY <2>1, <2>2
<1>8. \A g \in Files, q \in PageNumbers :
        disk'[g][q] = IF <<g, q>> = t THEN RootBlock(stamp)
                      ELSE IF <<g, q>> \in pending THEN Data ELSE disk[g][q]
  BY <1>4, <1>7 DEF d
<1>9. ASSUME NEW g \in Files
      PROVE  RootsOf(g)' = {q \in PageNumbers : <<g, q>> = t \/ q \in Surviving(g)}
  <2>1. RootsOf(g)' = {q \in PageNumbers : disk'[g][q].cookie = "ROOT"}
    BY DbSame DEF RootsOf
  <2>2. \A q \in PageNumbers : disk'[g][q].cookie = "ROOT" <=> <<g, q>> = t \/ q \in Surviving(g)
    BY <1>2, <1>8, CellFacts DEF Surviving, RootsOf
  <2>3. QED
    BY <2>1, <2>2
<1>10. \A g \in Files : Surviving(g) \subseteq PageNumbers
  BY DEF Surviving, RootsOf
<1>11. ASSUME NEW g \in Files, g # t[1] PROVE RootsOf(g)' = Surviving(g)
  <2>1. \A q : <<g, q>> # t
    BY <1>1, <1>11
  <2>2. QED
    BY <1>9, <1>10, <2>1
<1>12. RootsOf(t[1])' = Surviving(t[1]) \cup {t[2]}
  <2>1. \A q : <<t[1], q>> = t <=> q = t[2]
    BY <1>1
  <2>2. QED
    BY <1>1, <1>9, <1>10, <2>1
<1>13. ASSUME NEW g \in Files, NEW a \in Surviving(g), <<g, a>> # t
       PROVE  Num(g, a)' = Num(g, a) /\ Nums(g)'[a] = Nums(g)[a]
  <2>1. a \in PageNumbers /\ a \in RootsOf(g) /\ <<g, a>> \notin pending /\ a \in RootsOf(g)'
    BY <1>9, <1>10 DEF Surviving
  <2>2. disk'[g][a] = disk[g][a]
    BY <1>8, <1>13, <2>1
  <2>3. Num(g, a)' = Num(g, a)
    BY <2>2 DEF Num, StampOf, Value
  <2>4. QED
    BY <2>1, <2>3 DEF Nums
<1>14. Num(t[1], t[2])' = Value(stamp)
  <2>1. disk'[t[1]][t[2]] = RootBlock(stamp)
    BY <1>1, <1>8
  <2>2. StampOf(t[1], t[2])' = stamp
    BY <1>2, <2>1 DEF StampOf
  <2>3. QED
    BY <2>2 DEF Num, Value
<1>15. QED
  BY <1>6, <1>8, <1>11, <1>12, <1>13, <1>14

LEMMA WriteRootKeepsInv ==
  ASSUME Inv, NEW refs \in SUBSET Allocated, io_write_root(refs), UNCHANGED db
  PROVE  Inv'
<1>1. PICK t \in RootTargets :
        /\ status' = IF prevRoot = NoPage THEN [status EXCEPT ![t[1]][t[2]] = "ROOT"]
                     ELSE [[status EXCEPT ![t[1]][t[2]] = "ROOT"] EXCEPT ![prevRoot[1]][prevRoot[2]] = "FREE"]
        /\ nfree' = [f \in Files |-> Plus(IF f = t[1] THEN Dec(nfree[f]) ELSE nfree[f], f, prevRoot)]
        /\ Advance(t)
        /\ disk' = [Landed(pending) EXCEPT ![t[1]][t[2]] = RootBlock(stamp)]
        /\ prevRoot' = t /\ newest' = t
  BY DEF io_write_root
<1>2. /\ phase = "running" /\ total' = TotalAfterRoot /\ pending' = {}
      /\ stamp' = increment_root_time_stamp(stamp)
      /\ committed' = refs /\ roots' = roots + 1 /\ UNCHANGED <<phase, search, crashes>>
  BY DEF io_write_root
<1>3. Types /\ Up /\ StatusMeans /\ CursorsMean /\ StampNewer
  BY <1>2 DEF Inv, Up
<1>4. TakesNext(t)
  BY <1>3, RootTargetNext
<1> DEFINE f == t[1]
           p == t[2]
           n == NumberOfPages
<1>5. /\ Ascending(Nums(f), Surviving(f) \ {p}, After(p, n))
      /\ \A q \in PageNumbers : q < p => <<f, q>> \in pending \/ disk[f][q] # Unused
  BY <1>3, <1>4, NextPlace
<1>6. t \in DiskPages /\ f \in Files /\ p \in PageNumbers /\ t = <<f, p>> /\ status[f][p] = "FREE"
  BY <1>4, Pairs DEF TakesNext
<1>7. cursor' = [cursor EXCEPT ![f] = After(p, n)] /\ fileCursor' \in Files /\ After(p, n) \in PageNumbers
  BY <1>1, <1>3, <1>6, NextCursor DEF Advance
<1>8. /\ disk' \in [Files -> [PageNumbers -> Cells]]
      /\ \A g \in Files, q \in PageNumbers :
           disk'[g][q] = IF <<g, q>> = t THEN RootBlock(stamp)
                         ELSE IF <<g, q>> \in pending THEN Data ELSE disk[g][q]
      /\ \A g \in Files : g # f => RootsOf(g)' = Surviving(g)
      /\ RootsOf(f)' = Surviving(f) \cup {p}
      /\ \A g \in Files : \A a \in Surviving(g) :
           <<g, a>> # t => Num(g, a)' = Num(g, a) /\ Nums(g)'[a] = Nums(g)[a]
      /\ Num(f, p)' = Value(stamp)
  BY <1>1, <1>3, <1>6, RootDisk
<1>9. prevRoot = newest /\ (newest # NoPage => newest \in DiskPages) /\ t # newest /\ t \notin pending
  BY <1>3, <1>6, Sizes DEF StatusMeans, Types
<1>10. /\ status' \in [Files -> [PageNumbers -> PageStates]]
       /\ \A u \in DiskPages : status'[u[1]][u[2]] = IF u = t THEN "ROOT" ELSE
                               IF u = newest THEN "FREE" ELSE status[u[1]][u[2]]
  <2> DEFINE taken == [status EXCEPT ![t[1]][t[2]] = "ROOT"]
  <2>1. /\ taken \in [Files -> [PageNumbers -> PageStates]]
        /\ \A u \in DiskPages : taken[u[1]][u[2]] = IF u = t THEN "ROOT" ELSE status[u[1]][u[2]]
    BY <1>3, <1>6, SetStatus DEF Types, PageStates
  <2>2. status' = IF newest = NoPage THEN taken ELSE [taken EXCEPT ![newest[1]][newest[2]] = "FREE"]
    BY <1>1, <1>9
  <2> HIDE DEF taken
  <2>3. CASE newest = NoPage
    BY <1>3, <2>1, <2>2, <2>3, Sizes DEF Types
  <2>4. CASE newest # NoPage
    <3>1. /\ [taken EXCEPT ![newest[1]][newest[2]] = "FREE"] \in [Files -> [PageNumbers -> PageStates]]
          /\ \A u \in DiskPages : [taken EXCEPT ![newest[1]][newest[2]] = "FREE"][u[1]][u[2]]
                                  = IF u = newest THEN "FREE" ELSE taken[u[1]][u[2]]
      BY <1>9, <2>1, <2>4, SetStatus DEF PageStates
    <3>2. QED
      BY <1>9, <2>1, <2>2, <2>4, <3>1
  <2>5. QED
    BY <2>3, <2>4
<1>11. stamp \in Stamp /\ stamp' \in Stamp /\ Value(stamp) \in Nat /\ Value(stamp') = Value(stamp) + 1
  BY <1>2, <1>3, StampValue DEF Types
<1>12. Types'
  <2>1. nfree' \in [Files -> Nat]
    <3>1. \A k \in Nat : Inc(k) \in Nat /\ Dec(k) \in Nat
      BY <1>3, Counts DEF Types
    <3>2. \A g \in Files : nfree[g] \in Nat
      BY <1>3 DEF Types
    <3>3. \A g \in Files : Plus(IF g = t[1] THEN Dec(nfree[g]) ELSE nfree[g], g, prevRoot) \in Nat
      BY <3>1, <3>2 DEF Plus
    <3>4. QED
      BY <1>1, <3>3
  <2>2. total' \in Nat
    BY <1>2, <1>3, Counts DEF Types, TotalAfterRoot
  <2>3. cursor' \in [Files -> PageNumbers]
    BY <1>3, <1>7 DEF Types
  <2>4. committed' \in SUBSET DiskPages
    BY <1>2 DEF Allocated
  <2>5. phase' = "running" /\ search' \in Search' /\ roots' \in Nat /\ crashes' \in Nat
    BY <1>2, <1>3, DbSame DEF Types
  <2>6. QED
    BY <1>1, <1>2, <1>3, <1>6, <1>7, <1>8, <1>10, <1>11, <2>1, <2>2, <2>3, <2>4, <2>5, DbSame DEF Types
<1>13. \A g \in Files : Surviving(g) \subseteq RootsOf(g) /\ RootsOf(g) \subseteq PageNumbers
  BY DEF Surviving, RootsOf
(* A root block on disk is the new one or was there before. *)
<1>14. ASSUME NEW g \in Files, NEW a \in RootsOf(g)', <<g, a>> # t
       PROVE  a \in Surviving(g) /\ Num(g, a)' = Num(g, a) /\ Num(g, a) < Value(stamp) /\ Num(g, a) > 0
  <2>1. a \in Surviving(g)
    BY <1>6, <1>8, <1>14
  <2>2. QED
    BY <1>3, <1>8, <1>13, <1>14, <2>1 DEF StampNewer, Inv, NewestLast
<1>15. Ascending(Nums(f)', RootsOf(f)', After(p, n))
  <2> DEFINE ps == RootsOf(f)'
             v == Nums(f)'
  <2>1. ps \ {p} = Surviving(f) \ {p}
    BY <1>8
  <2>2. \A a \in Surviving(f) \ {p} : v[a] = Nums(f)[a]
    BY <1>6, <1>8
  <2>3. Ascending(v, ps \ {p}, After(p, n))
    BY <1>5, <2>1, <2>2, AscendingSame
  <2>4. n \in Nat \ {0} /\ db' \in Databases /\ p \in ps
    BY <1>3, <1>8, Sizes DEF Types
  <2>5. /\ ps \in SUBSET (0 .. n - 1) /\ v \in [ps -> Int]
        /\ \A a \in ps : v[a] = Num(f, a)'
    <3>1. ps \in SUBSET (0 .. n - 1)
      BY <1>6, <1>8, <1>13 DEF PageNumbers
    <3>2. v = [a \in ps |-> Num(f, a)']
      BY DEF Nums
    <3>3. ASSUME NEW a \in ps PROVE Num(f, a)' \in Nat
      <4>1. CASE a = p
        BY <1>8, <1>11, <4>1
      <4>2. CASE a # p
        <5>1. a \in Surviving(f) /\ <<f, a>> # t
          BY <1>6, <1>8, <4>2
        <5>2. Num(f, a)' = Num(f, a) /\ a \in RootsOf(f)
          BY <1>6, <1>8, <1>13, <5>1
        <5>3. QED
          BY <1>3, <1>6, <5>2, NumTypes DEF Types
      <4>3. QED
        BY <4>1, <4>2
    <3>4. QED
      BY <3>1, <3>2, <3>3
  <2>6. \A a \in ps \ {p} : v[a] < v[p]
    <3> SUFFICES ASSUME NEW a \in ps \ {p} PROVE v[a] < v[p]
      OBVIOUS
    <3>1. <<f, a>> # t
      BY <1>6
    <3>2. v[a] = Num(f, a)' /\ v[p] = Value(stamp)
      BY <1>8, <2>4, <2>5
    <3>3. QED
      BY <1>6, <1>14, <3>1, <3>2
  <2> HIDE DEF ps, v
  <2>7. QED
    <3>1. Ascending(v, ps, After(p, n))
      BY <2>3, <2>4, <2>5, <2>6, WriteNewest
    <3>2. QED
      BY <3>1 DEF v, ps
(* In the other files the root blocks overwritten are gone. *)
<1>16. ASSUME NEW g \in Files, g # f, NEW c, Ascending(Nums(g), Surviving(g), c)
       PROVE  Ascending(Nums(g)', RootsOf(g)', c)
  <2>1. \A a \in Surviving(g) : Nums(g)'[a] = Nums(g)[a]
    BY <1>6, <1>8, <1>16
  <2>2. Ascending(Nums(g)', Surviving(g), c)
    BY <1>16, <2>1, AscendingSame
  <2>3. QED
    BY <1>8, <1>16, <2>2
<1>17. Rotated'
  <2>1. ASSUME NEW g \in Files PROVE \E c \in PageNumbers : Ascending(Nums(g)', RootsOf(g)', c)
    <3>1. CASE g = f
      BY <1>7, <1>15, <3>1
    <3>2. CASE g # f
      <4>1. PICK c \in PageNumbers : Ascending(Nums(g), RootsOf(g), c)
        BY DEF Inv, Rotated
      <4>2. Ascending(Nums(g), Surviving(g), c)
        BY <1>13, <4>1, AscendingSubset
      <4>3. QED
        BY <1>16, <3>2, <4>2
    <3>3. QED
      BY <3>1, <3>2
  <2>2. QED
    BY <2>1, DbSame DEF Rotated
(* Before the cursors every page was written. *)
<1>18. ASSUME NEW g \in Files, NEW q \in PageNumbers, disk'[g][q] = Unused
       PROVE  disk[g][q] = Unused /\ <<g, q>> \notin pending /\ <<g, q>> # t /\ (g = f => p < q)
  <2>1. disk[g][q] = Unused /\ <<g, q>> \notin pending /\ <<g, q>> # t
    BY <1>8, <1>11, <1>18, CellFacts
  <2>2. g = f => ~(q < p) /\ q # p
    BY <1>5, <1>6, <2>1
  <2>3. p \in Nat /\ q \in Nat
    BY <1>3, <1>6, Sizes DEF Types
  <2>4. QED
    BY <2>1, <2>2, <2>3
<1>19. UnusedLast'
  <2>1. ASSUME NEW g \in Files, NEW q \in PageNumbers, disk'[g][q] = Unused, NEW a \in RootsOf(g)'
        PROVE  a < q
    <3>1. CASE <<g, a>> = t
      BY <1>6, <1>18, <2>1, <3>1
    <3>2. CASE <<g, a>> # t
      BY <1>13, <1>14, <1>18, <2>1, <3>2 DEF Inv, UnusedLast
    <3>3. QED
      BY <3>1, <3>2
  <2>2. QED
    BY <2>1, DbSame DEF UnusedLast
<1>20. NewestLast'
  <2>1. newest' # NoPage' /\ newest' = t
    BY <1>1, <1>3, <1>6, Sizes, DbSame DEF Types
  <2>2. p \in RootsOf(f)'
    BY <1>8
  <2>3. ASSUME NEW g \in Files, NEW a \in RootsOf(g)'
        PROVE  (<<g, a>> = t \/ Num(g, a)' < Num(f, p)') /\ Num(g, a)' > 0
    <3>1. CASE <<g, a>> = t
      <4>1. g = f /\ a = p
        BY <1>6, <3>1
      <4>2. QED
        BY <1>3, <1>8, <3>1, <4>1 DEF StampNewer
    <3>2. CASE <<g, a>> # t
      BY <1>8, <1>14, <3>2
    <3>3. QED
      BY <3>1, <3>2
  <2>4. QED
    BY <2>1, <2>2, <2>3, DbSame DEF NewestLast
<1>21. ASSUME NEW u \in DiskPages, status[u[1]][u[2]] = "ALLOCATED"
       PROVE  u # t /\ u # newest /\ disk'[u[1]][u[2]] = Data
  <2>1. u # t /\ u # newest /\ (u \in pending \/ disk[u[1]][u[2]] = Data)
    BY <1>3, <1>6, <1>21 DEF StatusMeans
  <2>2. u[1] \in Files /\ u[2] \in PageNumbers /\ u = <<u[1], u[2]>>
    BY Pairs
  <2>3. QED
    BY <1>8, <2>1, <2>2
<1>22. Referred'
  BY <1>1, <1>2, <1>21 DEF Allocated, Referred
<1>23. Up'
  BY <1>2, SMTT(40) DEF Up
<1>24. StatusMeans'
  <2>1. ASSUME NEW u \in DiskPages
        PROVE  /\ status'[u[1]][u[2]] # "UNKNOWN"
               /\ status'[u[1]][u[2]] = "ROOT" <=> u = t
               /\ status'[u[1]][u[2]] = "ALLOCATED" => disk'[u[1]][u[2]] = Data
    <3>1. /\ status[u[1]][u[2]] # "UNKNOWN"
          /\ status[u[1]][u[2]] = "ROOT" <=> u = newest
      BY <1>3 DEF StatusMeans
    <3>2. QED
      BY <1>9, <1>10, <1>21, <3>1
  <2>2. QED
    BY <1>1, <1>2, <2>1, DbSame DEF StatusMeans
<1>25. CursorsMean'
  <2>1. \A g : Surviving(g)' = RootsOf(g)'
    BY <1>2 DEF Surviving
  <2>2. ASSUME NEW g \in Files
        PROVE /\ \/ Ascending(Nums(g)', RootsOf(g)', cursor'[g])
                 \/ Ascending(Nums(g)', RootsOf(g)', After(cursor'[g], n)) /\ cursor'[g] \in RootsOf(g)'
              /\ \A q \in PageNumbers : q < cursor'[g] => disk'[g][q] # Unused
    <3>1. CASE g = f
      <4>1. cursor'[f] = After(p, n)
        BY <1>3, <1>6, <1>7 DEF Types
      <4>2. \A q \in PageNumbers : q < After(p, n) => ~(p < q)
        <5>1. n \in Nat \ {0} /\ p \in Nat /\ p < n /\ \A q \in PageNumbers : q \in Nat
          BY <1>3, <1>6, Sizes DEF Types
        <5>2. QED
          BY <5>1 DEF After
      <4>3. QED
        BY <1>15, <1>18, <3>1, <4>1, <4>2, ZenonT(60)
    <3>2. CASE g # f
      <4>1. cursor'[g] = cursor[g]
        BY <1>3, <1>6, <1>7, <3>2 DEF Types
      <4>2. /\ \/ Ascending(Nums(g), Surviving(g), cursor[g])
               \/ Ascending(Nums(g), Surviving(g), After(cursor[g], n)) /\ cursor[g] \in Surviving(g)
            /\ \A q \in PageNumbers : q < cursor[g] => <<g, q>> \in pending \/ disk[g][q] # Unused
        BY <1>3 DEF CursorsMean
      <4>3. Surviving(g) = RootsOf(g)'
        BY <1>8, <3>2
      <4>4. QED
        BY <1>16, <1>18, <3>2, <4>1, <4>2, <4>3
    <3>3. QED
      BY <3>1, <3>2
  <2>3. QED
    BY <2>1, <2>2, DbSame DEF CursorsMean
<1>26. StampNewer'
  <2>1. Value(stamp)' = Value(stamp')
    BY DEF Value
  <2>2. ASSUME NEW g \in Files, NEW a \in RootsOf(g)' PROVE Num(g, a)' < Value(stamp')
    <3>1. CASE <<g, a>> = t
      <4>1. g = f /\ a = p
        BY <1>6, <3>1
      <4>2. Num(g, a)' = Value(stamp)
        BY <1>8, <4>1
      <4>3. QED
        BY <1>11, <4>2
    <3>2. CASE <<g, a>> # t
      <4>1. Num(g, a)' = Num(g, a) /\ Num(g, a) < Value(stamp) /\ Num(g, a) \in Nat
        <5>1. a \in RootsOf(g)
          BY <1>13, <1>14, <3>2
        <5>2. QED
          BY <1>3, <1>14, <3>2, <5>1, NumTypes DEF Types
      <4>2. QED
        BY <1>11, <4>1
    <3>3. QED
      BY <3>1, <3>2
  <2>3. QED
    BY <1>3, <1>11, <2>1, <2>2, DbSame DEF StampNewer
<1>27. QED
  BY <1>12, <1>17, <1>19, <1>20, <1>22, <1>23, <1>24, <1>25, <1>26 DEF Inv

--------------------------------------------------------------------------------
(* A crash.                                                                *)

LEMMA RestartKeepsInv ==
  ASSUME Inv, Restart, UNCHANGED db
  PROVE  Inv'
<1>1. PICK done \in SUBSET pending : disk' = Landed(done)
  BY DEF Restart
<1>2. /\ newest # NoPage /\ pending' = {}
      /\ status' = [f \in Files |-> [p \in PageNumbers |-> "UNKNOWN"]]
      /\ nfree' = [f \in Files |-> 0] /\ total' = 0
      /\ cursor' = [f \in Files |-> 0] /\ fileCursor' = 0
      /\ prevRoot' = NoPage /\ stamp' = [hi |-> 0, lo |-> 1]
      /\ search' = NoSearch /\ phase' = "leftmost"
      /\ crashes' = crashes + 1 /\ UNCHANGED <<newest, committed, roots>>
  BY DEF Restart
<1>3. Types /\ OnDisk /\ Referred
  BY DEF Inv, OnDisk
<1>4. \A f \in Files, p \in PageNumbers :
        disk'[f][p] = IF <<f, p>> \in done THEN Data ELSE disk[f][p]
  BY <1>1 DEF Landed
<1>5. disk' \in [Files -> [PageNumbers -> Cells]]
  <2>1. disk \in [Files -> [PageNumbers -> Cells]] /\ Data \in Cells
    BY <1>3, CellFacts DEF Types
  <2> HIDE DEF Cells
  <2>2. QED
    BY <1>1, <2>1 DEF Landed
<1>6. ASSUME NEW f \in Files, NEW p \in RootsOf(f)'
      PROVE  p \in RootsOf(f) /\ Num(f, p)' = Num(f, p) /\ Nums(f)'[p] = Nums(f)[p]
  <2>1. p \in PageNumbers /\ disk'[f][p].cookie = "ROOT"
    BY DbSame DEF RootsOf
  <2>2. disk'[f][p] = disk[f][p]
    BY <1>4, <2>1, CellFacts
  <2>3. Num(f, p)' = Num(f, p)
    BY <2>2 DEF Num, StampOf, Value
  <2>4. p \in RootsOf(f)
    BY <2>1, <2>2 DEF RootsOf
  <2>5. QED
    BY <2>3, <2>4 DEF Nums
<1>7. Types'
  <2>1. 0 \in Files /\ 0 \in PageNumbers /\ NumberOfPages \in Nat
    BY <1>3, Sizes DEF Types
  <2>2. OldestStamp \in Stamp /\ stamp' \in Stamp
    BY <1>2, StampWordAssumption DEF Stamp, OldestStamp
  <2>3. search' \in Search
    BY <1>2, <2>1, <2>2 DEF Search, NoSearch, SearchIn
  <2>4. status' \in [Files -> [PageNumbers -> PageStates]] /\ nfree' \in [Files -> Nat]
        /\ cursor' \in [Files -> PageNumbers] /\ fileCursor' \in Files
    BY <1>2, <2>1 DEF PageStates
  <2>5. QED
    <3>1. crashes' \in Nat /\ roots' \in Nat /\ total' \in Nat
      BY <1>2, <1>3 DEF Types
    <3>2. db' \in Databases /\ newest' \in DiskPages \cup {NoPage} /\ committed' \in SUBSET DiskPages
          /\ pending' \in SUBSET DiskPages /\ prevRoot' \in DiskPages \cup {NoPage}
      BY <1>2, <1>3 DEF Types
    <3>3. QED
      BY <1>2, <1>5, <2>2, <2>3, <2>4, <3>1, <3>2, DbSame DEF Types
<1>8. Rotated'
  <2>1. ASSUME NEW f \in Files PROVE \E c \in PageNumbers : Ascending(Nums(f)', RootsOf(f)', c)
    <3>1. PICK c \in PageNumbers : Ascending(Nums(f), RootsOf(f), c)
      BY <1>3 DEF OnDisk, Rotated
    <3>2. RootsOf(f)' \subseteq RootsOf(f)
      BY <1>6
    <3>3. Ascending(Nums(f), RootsOf(f)', c)
      BY <3>1, <3>2, AscendingSubset
    <3>4. Ascending(Nums(f)', RootsOf(f)', c)
      BY <1>6, <3>3, AscendingSame
    <3>5. QED
      BY <3>4
  <2>2. QED
    BY <2>1, DbSame DEF Rotated
<1>9. UnusedLast'
  <2>1. \A f \in Files, q \in PageNumbers : disk'[f][q] = Unused => disk[f][q] = Unused
    BY <1>4, CellFacts
  <2>2. QED
    BY <1>3, <1>6, <2>1, DbSame DEF OnDisk, UnusedLast
<1>10. NewestLast'
  <2>1. newest \in DiskPages /\ newest \notin done
    BY <1>2, <1>3 DEF Types, Referred
  <2>2. newest[1] \in Files /\ newest[2] \in PageNumbers /\ newest = <<newest[1], newest[2]>>
    BY <2>1, Pairs
  <2>3. newest[2] \in RootsOf(newest[1])
    BY <1>2, <1>3 DEF OnDisk, NewestLast
  <2>4. disk'[newest[1]][newest[2]] = disk[newest[1]][newest[2]]
    BY <1>4, <2>1, <2>2
  <2>5. newest[2] \in RootsOf(newest[1])'
    BY <1>2, <2>2, <2>3, <2>4, DbSame DEF RootsOf
  <2>6. Num(newest[1], newest[2])' = Num(newest[1], newest[2])
    BY <1>2, <2>4 DEF Num, StampOf, Value
  <2>7. ASSUME NEW f \in Files, NEW p \in RootsOf(f)'
        PROVE  (<<f, p>> = newest \/ Num(f, p)' < Num(newest[1], newest[2])') /\ Num(f, p)' > 0
    BY <1>2, <1>3, <1>6, <2>6 DEF OnDisk, NewestLast
  <2>8. QED
    BY <1>2, <2>5, <2>7, DbSame DEF NewestLast
<1>11. Referred'
  <2>1. \A t \in committed : t[1] \in Files /\ t[2] \in PageNumbers
    BY <1>3, Pairs DEF Types
  <2>2. QED
    BY <1>2, <1>3, <1>4, <2>1 DEF Referred
<1>12. Recovering'
  <2>1. S' = NoSearch
    BY <1>2 DEF S
  <2>2. NoSearch.i = 0 /\ NoSearch.left = 0 /\ NoSearch.right = NumberOfPages /\ NoSearch.rightValid = FALSE
        /\ NoSearch.root = NoPage /\ NoSearch.rootStamp = OldestStamp
    BY DEF NoSearch, SearchIn
  <2>3. 0 \in PageNumbers /\ \A f \in Files : ~(f < 0) /\ cursor'[f] = 0
    BY <1>2, <1>3, Sizes DEF Types
  <2>4. \A f \in Files : \A p \in RootsOf(f)' : p >= 0
    BY <1>3, <1>6, Sizes DEF Types, RootsOf
  <2>5. FilesSearched'
    BY <1>2, <2>1, <2>2, <2>3, DbSame DEF FilesSearched, SearchedTo, OldestStamp
  <2>6. 0 \in Files
    BY <1>3, Sizes DEF Types
  <2>7. Leftmost'
    BY <2>1, <2>2, <2>3, <2>4, <2>6, DbSame DEF Leftmost
  <2>8. \A f \in Files', p \in PageNumbers' : status'[f][p] = "UNKNOWN"
    BY <1>2, DbSame
  <2>9. QED
    BY <1>2, <2>5, <2>7, <2>8, DbSame DEF Recovering, Searching
<1>13. ~Up'
  BY <1>2 DEF Up
<1>14. QED
  BY <1>7, <1>8, <1>9, <1>10, <1>11, <1>12, <1>13 DEF Inv

--------------------------------------------------------------------------------
(* io_read_root.                                                           *)

(* A step of the search in one file.                                       *)
LEMMA SearchStepKeepsInv ==
  ASSUME Inv, Searching, UNCHANGED <<db, spaceVars, stamp, diskVars, ghostVars>>,
         Searching', search' \in Search,
         S'.i = S.i, S'.root = S.root, S'.rootStamp = S.rootStamp,
         phase' = "leftmost" => Leftmost',
         phase' # "leftmost" => InRange',
         phase' = "mid" => Scanned'
  PROVE  Inv'
<1>1. UNCHANGED <<db, status, nfree, total, cursor, fileCursor, prevRoot, stamp,
                  disk, pending, newest, committed, roots, crashes>>
  BY DEF spaceVars, diskVars, ghostVars
<1>2. phase' \in {"leftmost", "range", "mid"} /\ phase \in {"leftmost", "range", "mid"}
  BY DEF Searching
<1>3. Types'
  BY <1>1, <1>2, DbSame DEF Inv, Types
<1>4. OnDisk'
  BY <1>1, OnDiskSame DEF Inv, OnDisk
<1>5. Referred'
  BY <1>1, DbSame DEF Inv, Referred
<1>6. ~Up' /\ ~Up
  BY <1>2 DEF Up
<1>7. Recovering
  BY <1>6 DEF Inv
<1>8. FilesSearched'
  <2>1. FilesSearched
    BY <1>7 DEF Recovering
  <2>2. \A f, p : Num(f, p)' = Num(f, p) /\ StampOf(f, p)' = StampOf(f, p) /\ RootsOf(f)' = RootsOf(f)
    BY <1>1, DiskSame
  <2>3. \A s : Value(s)' = Value(s)
    BY DEF Value
  <2>4. \A f, c : Searched(f, c)' <=> Searched(f, c)
    BY <2>2 DEF Searched, Newest
  <2>5. SearchedTo(S.i, S.root, S.rootStamp, cursor)
    BY <2>1 DEF FilesSearched
  <2>6. SearchedTo(S.i, S.root, S.rootStamp, cursor)'
    BY <1>1, <2>2, <2>4, <2>5, DbSame DEF SearchedTo, OldestStamp, Value
  <2>7. QED
    BY <2>6 DEF FilesSearched
<1>9. Recovering'
  BY <1>1, <1>2, <1>7, <1>8, DbSame DEF Recovering, Searching
<1>10. QED
  BY <1>3, <1>4, <1>5, <1>6, <1>9 DEF Inv, OnDisk

(* The search in one file is over.                                         *)
LEMMA NextFileKeepsInv ==
  ASSUME Inv, Searching, UNCHANGED db, NEW r \in DiskPages \cup {NoPage}, NEW ts \in Stamp,
         NEW cur \in [Files -> PageNumbers], NextFile(r, ts, cur), SearchedTo(S.i + 1, r, ts, cur)
  PROVE  Inv'
<1>1. UNCHANGED <<total, fileCursor, disk, pending, newest, committed, roots, crashes>> /\ cursor' = cur
  BY DEF NextFile, diskVars, ghostVars
<1>2. phase \in {"leftmost", "range", "mid"} /\ ~Up
  BY DEF Searching, Up
<1>3. Types /\ OnDisk /\ Referred /\ Recovering
  BY <1>2 DEF Inv, OnDisk
<1>4. OnDisk'
  BY <1>1, <1>3, OnDiskSame
<1>5. Referred'
  BY <1>1, <1>3, DbSame DEF Referred
<1>6. S.i \in Files /\ S.i \in Nat /\ NumberOfFiles \in Nat \ {0} /\ NumberOfPages \in Nat
      /\ \A f \in Files : f \in Nat /\ f < NumberOfFiles
  BY <1>3, Sizes DEF Types, S, Search
<1>7. pending = {} /\ newest # NoPage /\ \A f \in Files, p \in PageNumbers : status[f][p] = "UNKNOWN"
  BY <1>3 DEF Recovering
<1>8. \A f, p : Num(f, p)' = Num(f, p) /\ StampOf(f, p)' = StampOf(f, p) /\ RootsOf(f)' = RootsOf(f)
  BY <1>1, DiskSame
<1>9. \A f, c : Searched(f, c)' <=> Searched(f, c)
  BY <1>8 DEF Searched, Newest
<1>10. CASE S.i < NumberOfFiles - 1
  <2>1. /\ phase' = "leftmost" /\ search' = SearchIn(S.i + 1, r, ts)
        /\ UNCHANGED <<status, nfree, prevRoot, stamp>>
    BY <1>10 DEF NextFile
  <2>2. S.i + 1 \in Files
    BY <1>6, <1>10 DEF Files
  <2>3. /\ S'.i = S.i + 1 /\ S'.left = 0 /\ S'.right = NumberOfPages /\ S'.rightValid = FALSE
        /\ S'.root = r /\ S'.rootStamp = ts
    BY <2>1 DEF S, SearchIn
  <2>4. search' \in Search
    BY <1>6, <2>1, <2>2 DEF SearchIn, Search
  <2>5. Types'
    BY <1>1, <1>3, <2>1, <2>4, DbSame DEF Types
  <2>6. ~Up'
    BY <2>1 DEF Up
  <2>7. FilesSearched'
    <3>1. SearchedTo(S.i, S.root, S.rootStamp, cursor)'
      BY <1>1, <1>8, <1>9, <2>3, DbSame DEF SearchedTo, OldestStamp, Value
    <3>2. QED
      BY <3>1 DEF FilesSearched
  <2>8. Leftmost'
    <3>1. \A f \in Files : \A p \in RootsOf(f) : p >= 0
      BY <1>3, Sizes DEF Types, RootsOf
    <3>2. 0 \in PageNumbers
      BY <1>3, Sizes DEF Types
    <3>3. QED
      BY <1>8, <2>2, <2>3, <3>1, <3>2, DbSame DEF Leftmost
  <2>9. Recovering'
    BY <1>1, <1>7, <2>1, <2>7, <2>8, DbSame DEF Recovering, Searching
  <2>10. QED
    BY <1>4, <1>5, <2>5, <2>6, <2>9 DEF Inv, OnDisk
<1>11. CASE ~(S.i < NumberOfFiles - 1)
  <2>1. /\ phase' = "declare" /\ search' = NoSearch /\ prevRoot' = r
        /\ status' = [status EXCEPT ![r[1]][r[2]] = "ROOT"]
        /\ nfree' = [nfree EXCEPT ![r[1]] = Dec(@)]
        /\ stamp' = increment_root_time_stamp(StampOf(r[1], r[2]))
    BY <1>11 DEF NextFile
  <2>2. \A f \in Files : f < S.i + 1
    BY <1>6, <1>11
  <2>3. newest \in DiskPages /\ newest[1] \in Files /\ newest[2] \in RootsOf(newest[1])
        /\ newest = <<newest[1], newest[2]>>
    BY <1>3, <1>7, Pairs DEF Types, OnDisk, NewestLast
  <2>4. r # NoPage
    BY <2>2, <2>3 DEF SearchedTo
  <2>5. r \in DiskPages /\ r[1] \in Files /\ r[2] \in RootsOf(r[1]) /\ r = <<r[1], r[2]>>
        /\ ts = StampOf(r[1], r[2])
    BY <2>4, Pairs DEF SearchedTo
  <2>6. Num(newest[1], newest[2]) <= Num(r[1], r[2])
    BY <2>2, <2>3, <2>4, <2>5 DEF SearchedTo, Num
  <2>7. <<r[1], r[2]>> = newest \/ Num(r[1], r[2]) < Num(newest[1], newest[2])
    BY <1>3, <1>7, <2>5 DEF OnDisk, NewestLast
  <2>8. Num(newest[1], newest[2]) \in Nat /\ Num(r[1], r[2]) \in Nat
    BY <1>3, <2>3, <2>5, NumTypes DEF Types
  <2>9. r = newest
    BY <2>5, <2>6, <2>7, <2>8
  <2>10. stamp' \in Stamp /\ Value(stamp') = Num(newest[1], newest[2]) + 1
    BY <2>1, <2>5, <2>9, StampValue DEF Num
  <2>11. /\ status' \in [Files -> [PageNumbers -> PageStates]]
         /\ \A u \in DiskPages : status'[u[1]][u[2]] = IF u = r THEN "ROOT" ELSE status[u[1]][u[2]]
    BY <1>3, <2>1, <2>5, SetStatus DEF Types, PageStates
  <2>12. Types'
    <3>1. nfree' \in [Files -> Nat]
      BY <1>3, <2>1, <2>5, Counts DEF Types
    <3>2. OldestStamp \in Stamp /\ 0 \in Files
      BY <1>3, Sizes, StampWordAssumption DEF Types, Stamp, OldestStamp
    <3>3. search' \in Search
      BY <1>6, <2>1, <3>2 DEF NoSearch, SearchIn, Search
    <3>4. QED
      BY <1>1, <1>3, <2>1, <2>10, <2>11, <3>1, <3>3, DbSame DEF Types
  <2>13. ~Up' /\ ~Searching'
    BY <2>1 DEF Up, Searching
  <2>14. \A f \in Files : Searched(f, cur[f])
    BY <2>2 DEF SearchedTo
  <2>15. \A u \in DiskPages : status'[u[1]][u[2]] = IF u = newest THEN "ROOT" ELSE "UNKNOWN"
    BY <1>7, <2>9, <2>11, Pairs
  <2>16. Num(newest[1], newest[2])' = Num(newest[1], newest[2])
    BY <1>1 DEF Num, StampOf, Value
  <2>17. Recovering'
    <3>1. \A f \in Files' : Searched(f, cursor[f])'
      BY <1>1, <1>9, <2>14, DbSame
    <3>2. Num(newest[1], newest[2])' < Value(stamp)'
      BY <2>8, <2>10, <2>16 DEF Value
    <3>3. QED
      BY <1>1, <1>7, <2>1, <2>9, <2>13, <2>15, <3>1, <3>2, DbSame DEF Recovering
  <2>18. QED
    BY <1>4, <1>5, <2>12, <2>13, <2>17 DEF Inv, OnDisk
<1>12. QED
  BY <1>10, <1>11

LEMMA SearchFacts ==
  ASSUME Inv, Searching
  PROVE  /\ Types /\ FilesSearched
         /\ S \in Search /\ S.i \in Files /\ S.left \in Nat /\ S.right \in Nat /\ S.mid \in Nat
         /\ S.firstMid \in Nat /\ S.dir \in {"LEFTWARD", "RIGHTWARD"}
         /\ S.firstDir \in {"LEFTWARD", "RIGHTWARD"} /\ S.rightValid \in BOOLEAN
         /\ S.root \in DiskPages \cup {NoPage} /\ S.rootStamp \in Stamp
         /\ NumberOfPages \in Nat \ {0}
         /\ \A p \in RootsOf(S.i) : p \in Nat /\ p < NumberOfPages /\ Num(S.i, p) \in Nat /\ StampOf(S.i, p) \in Stamp
         /\ \A p \in PageNumbers : p \in RootsOf(S.i) <=> On(p) # Unused /\ On(p) # Data
         /\ PageNumbers = 0 .. NumberOfPages - 1
<1>1. Types /\ FilesSearched
  BY DEF Searching, Inv, Up, Recovering
<1>2. /\ S \in Search /\ S.i \in Files /\ S.left \in Nat /\ S.right \in Nat /\ S.mid \in Nat
      /\ S.firstMid \in Nat /\ S.dir \in {"LEFTWARD", "RIGHTWARD"}
      /\ S.firstDir \in {"LEFTWARD", "RIGHTWARD"} /\ S.rightValid \in BOOLEAN
      /\ S.root \in DiskPages \cup {NoPage} /\ S.rootStamp \in Stamp
  BY <1>1 DEF Types, Search, S
<1>3. NumberOfPages \in Nat \ {0} /\ \A p \in PageNumbers : p \in Nat /\ p < NumberOfPages
  BY <1>1, Sizes DEF Types
<1>4. \A p \in RootsOf(S.i) : p \in PageNumbers /\ Num(S.i, p) \in Nat /\ StampOf(S.i, p) \in Stamp
  BY <1>1, <1>2, NumTypes DEF Types
<1>5. \A p \in PageNumbers : p \in RootsOf(S.i) <=> disk[S.i][p] # Unused /\ disk[S.i][p] # Data
  BY <1>1, <1>2, NumTypes DEF Types
<1>6. QED
  BY <1>1, <1>2, <1>3, <1>4, <1>5 DEF On, PageNumbers

(* found_newest_root_in_this_file, with no root block between the ends.    *)
LEMMA FoundKeepsInv ==
  ASSUME Inv, Searching, UNCHANGED db, InRange, FoundInFile, NoRootIn(S.left + 1, S.right - 1)
  PROVE  Inv'
<1> DEFINE i == S.i
           l == S.left
           ls == StampOf(i, l)
           rs == StampOf(i, S.right)
<1>1. /\ i \in Files /\ l \in Nat /\ S.right \in Nat /\ S.root \in DiskPages \cup {NoPage} /\ S.rootStamp \in Stamp
      /\ l \in RootsOf(i) /\ l < S.right /\ (S.rightValid => S.right \in RootsOf(i))
      /\ \A p \in RootsOf(i) : p \in Nat /\ Num(i, p) \in Nat /\ StampOf(i, p) \in Stamp
  BY SearchFacts DEF InRange
<1>2. \A p \in RootsOf(i) : p = l \/ Num(i, p) < Num(i, l)
  <2> SUFFICES ASSUME NEW p \in RootsOf(i) PROVE p = l \/ Num(i, p) < Num(i, l)
    OBVIOUS
  <2>1. ~(l + 1 <= p /\ p <= S.right - 1)
    BY DEF NoRootIn
  <2>2. ~(l < p /\ p < S.right)
    BY <1>1, <2>1
  <2>3. QED
    BY <2>2 DEF InRange
<1>3. ls \in Stamp /\ Value(ls) = Num(i, l) /\ Value(ls) \in Nat
  BY <1>1 DEF Num
<1>4. ~(S.rightValid /\ time_stamp_is_newer_than(rs, ls))
  <2> SUFFICES ASSUME S.rightValid PROVE ~time_stamp_is_newer_than(rs, ls)
    OBVIOUS
  <2>1. S.right \in RootsOf(i) /\ rs \in Stamp /\ Value(rs) = Num(i, S.right) /\ Value(rs) \in Nat
    BY <1>1 DEF Num
  <2>2. Value(rs) < Value(ls)
    BY <1>1, <1>2, <1>3, <2>1
  <2>3. QED
    BY <1>3, <2>1, <2>2, NewerIsGreater
<1> DEFINE better == time_stamp_is_newer_than(ls, S.rootStamp)
           rr == IF better THEN <<i, l>> ELSE S.root
           tt == IF better THEN ls ELSE S.rootStamp
           cc == [cursor EXCEPT ![i] = l]
<1>5. NextFile(rr, tt, cc)
  BY <1>4 DEF FoundInFile
<1>6. l \in PageNumbers /\ <<i, l>> \in DiskPages /\ <<i, l>>[1] = i /\ <<i, l>>[2] = l /\ <<i, l>> # NoPage
  <2>1. l \in PageNumbers
    BY <1>1 DEF RootsOf
  <2>2. NoPage \notin DiskPages
    BY Sizes, SearchFacts DEF Types
  <2> HIDE DEF i, l
  <2>3. i \in Files
    BY <1>1 DEF i
  <2>4. <<i, l>> \in DiskPages /\ <<i, l>>[1] = i /\ <<i, l>>[2] = l
    BY <2>1, <2>3, Pairs
  <2>5. QED
    BY <2>1, <2>2, <2>4
<1>7. cursor \in [Files -> PageNumbers] /\ \A f \in Files : f \in Nat
  BY Sizes, SearchFacts DEF Types
<1>8. rr \in DiskPages \cup {NoPage} /\ tt \in Stamp /\ cc \in [Files -> PageNumbers]
  BY <1>1, <1>3, <1>6, <1>7
<1>9. better <=> Value(ls) > Value(S.rootStamp)
  BY <1>1, <1>3, NewerIsGreater
<1>10. Value(S.rootStamp) \in Nat
  BY <1>1, StampValue
<1>11. SearchedTo(i, S.root, S.rootStamp, cursor)
  BY SearchFacts DEF FilesSearched
<1>12. Num(i, l) > 0
  BY <1>1 DEF Inv, NewestLast
<1>13. \A f \in Files : f < i + 1 <=> f < i \/ f = i
  BY <1>1, <1>7
<1>14. \A f \in Files : IF f < i + 1 THEN Searched(f, cc[f]) ELSE cc[f] = 0
  <2>1. Newest(i, l) /\ RootsOf(i) # {}
    BY <1>1, <1>2 DEF Newest
  <2>2. Searched(i, cc[i])
    BY <1>1, <1>7, <2>1 DEF Searched
  <2>3. \A f \in Files : f # i => cc[f] = cursor[f]
    BY <1>7
  <2> HIDE DEF cc, i
  <2>4. QED
    BY <1>11, <1>13, <2>2, <2>3 DEF SearchedTo
<1>15. Value(tt) \in Nat /\ Value(S.rootStamp) <= Value(tt) /\ Num(i, l) <= Value(tt)
  BY <1>3, <1>9, <1>10
<1>16. ASSUME NEW f \in Files, f < i, NEW p \in RootsOf(f) PROVE Num(f, p) <= Value(tt)
  <2>1. S.root # NoPage /\ Num(f, p) <= Value(S.rootStamp)
    BY <1>11, <1>16 DEF SearchedTo
  <2>2. Num(f, p) \in Nat
    BY NumTypes, SearchFacts DEF Types
  <2>3. QED
    BY <1>10, <1>15, <2>1, <2>2
<1>17. ASSUME NEW f \in Files, f < i + 1, NEW p \in RootsOf(f) PROVE Num(f, p) <= Value(tt)
  <2>1. CASE f < i
    BY <1>16, <2>1
  <2>2. CASE f = i
    <3>1. Num(i, p) \in Nat /\ Num(i, l) \in Nat /\ Num(i, p) <= Num(i, l)
      BY <1>1, <1>2, <2>2
    <3>2. QED
      BY <1>15, <2>2, <3>1
  <2>3. QED
    BY <1>13, <1>17, <2>1, <2>2
<1>18. rr # NoPage /\ rr[1] \in Files /\ rr[2] \in RootsOf(rr[1]) /\ tt = StampOf(rr[1], rr[2])
  <2>1. CASE better
    <3>1. rr = <<i, l>> /\ tt = ls
      BY <2>1
    <3> HIDE DEF rr, tt, i, l
    <3>2. rr[1] = i /\ rr[2] = l
      BY <1>6, <3>1
    <3>3. QED
      BY <1>1, <1>6, <3>1, <3>2 DEF i, l
  <2>2. CASE ~better
    <3>1. Value(ls) <= Value(S.rootStamp) /\ Value(ls) > 0
      BY <1>3, <1>9, <1>10, <1>12, <2>2
    <3>2. S.root # NoPage
      <4>1. Value(OldestStamp) = 0 * StampWord + 0
        BY DEF Value, OldestStamp
      <4>2. Value(OldestStamp) = 0
        BY <4>1, StampWordAssumption
      <4>3. QED
        BY <1>3, <1>11, <3>1, <4>2 DEF SearchedTo
    <3>3. rr = S.root /\ tt = S.rootStamp
      BY <2>2
    <3>4. QED
      BY <1>11, <3>2, <3>3 DEF SearchedTo
  <2>3. QED
    BY <2>1, <2>2
<1> HIDE DEF rr, tt, cc
<1>19. SearchedTo(i + 1, rr, tt, cc)
  BY <1>14, <1>17, <1>18 DEF SearchedTo
<1>20. PICK r \in DiskPages \cup {NoPage}, ts \in Stamp, cur \in [Files -> PageNumbers] :
         r = rr /\ ts = tt /\ cur = cc
  BY <1>8
<1>21. NextFile(r, ts, cur) /\ SearchedTo(S.i + 1, r, ts, cur)
  BY <1>5, <1>19, <1>20
<1>22. QED
  BY <1>21, NextFileKeepsInv

LEMMA LeftmostKeepsInv ==
  ASSUME Inv, SearchLeftmost, UNCHANGED db
  PROVE  Inv'
<1>1. phase = "leftmost" /\ Searching
  BY DEF SearchLeftmost, Searching
<1>2. /\ S.left \in PageNumbers /\ S.right = NumberOfPages /\ ~S.rightValid
      /\ \A p \in RootsOf(S.i) : p >= S.left
  BY <1>1 DEF Inv, Up, Recovering, Leftmost
<1>3. /\ S \in Search /\ S.i \in Files /\ S.left \in Nat /\ NumberOfPages \in Nat \ {0}
      /\ \A p \in RootsOf(S.i) : p \in Nat /\ p < NumberOfPages
  BY <1>1, SearchFacts
<1>4. S.left < NumberOfPages
  BY <1>1, <1>2, Sizes, SearchFacts DEF Types
<1>5. S.left \in RootsOf(S.i) <=> On(S.left).cookie = "ROOT"
  BY <1>2 DEF RootsOf, On
<1>6. CASE On(S.left).cookie = "ROOT"
  <2>1. phase' = "range" /\ search' = S /\ UNCHANGED <<db, spaceVars, stamp, diskVars, ghostVars>>
    BY <1>6 DEF SearchLeftmost, searching
  <2>2. S' = S
    BY <2>1 DEF S
  <2>3. disk' = disk
    BY <2>1 DEF diskVars
  <2>4. InRange
    BY <1>2, <1>3, <1>4, <1>5, <1>6 DEF InRange
  <2>5. InRange'
    BY <2>2, <2>3, <2>4, DbSame, DiskSame DEF InRange
  <2>6. Searching' /\ search' \in Search
    BY <1>3, <2>1 DEF Searching
  <2>7. QED
    BY <1>1, <2>1, <2>2, <2>5, <2>6, SearchStepKeepsInv
<1>7. CASE On(S.left).cookie # "ROOT" /\ (S.left + 1 = NumberOfPages \/ On(S.left) = Unused)
  <2>1. NextFile(S.root, S.rootStamp, cursor)
    BY <1>7 DEF SearchLeftmost
  <2>2. RootsOf(S.i) = {}
    <3> SUFFICES ASSUME NEW p \in RootsOf(S.i) PROVE FALSE
      OBVIOUS
    <3>1. p >= S.left /\ p \in Nat /\ p < NumberOfPages /\ p # S.left
      BY <1>2, <1>3, <1>5, <1>7
    <3>2. On(S.left) = Unused => p < S.left
      BY <1>2, <1>3 DEF Inv, UnusedLast, On
    <3>3. QED
      BY <1>3, <1>7, <3>1, <3>2
  <2>3. SearchedTo(S.i, S.root, S.rootStamp, cursor)
    BY <1>1, SearchFacts DEF FilesSearched
  <2>4. \A f \in Files : f \in Nat
    BY <1>1, Sizes, SearchFacts DEF Types
  <2>5. \A f \in Files : f < S.i + 1 <=> f < S.i \/ f = S.i
    BY <1>3, <2>4
  <2>6. ~(S.i < S.i) /\ cursor[S.i] = 0
    BY <1>3, <2>3, <2>4 DEF SearchedTo
  <2>7. SearchedTo(S.i + 1, S.root, S.rootStamp, cursor)
    BY <2>2, <2>3, <2>5, <2>6 DEF SearchedTo, Searched
  <2>8. PICK r \in DiskPages \cup {NoPage}, ts \in Stamp, cur \in [Files -> PageNumbers] :
          r = S.root /\ ts = S.rootStamp /\ cur = cursor
    BY <1>1, SearchFacts DEF Types
  <2>9. NextFile(r, ts, cur) /\ SearchedTo(S.i + 1, r, ts, cur)
    BY <2>1, <2>7, <2>8
  <2>10. QED
    BY <1>1, <2>9, NextFileKeepsInv
<1>8. CASE On(S.left).cookie # "ROOT" /\ ~(S.left + 1 = NumberOfPages \/ On(S.left) = Unused)
  <2>1. /\ phase' = "leftmost" /\ search' = [S EXCEPT !.left = @ + 1]
        /\ UNCHANGED <<db, spaceVars, stamp, diskVars, ghostVars>>
    BY <1>8 DEF SearchLeftmost, searching
  <2>2. disk' = disk
    BY <2>1 DEF diskVars
  <2>3. search' \in Search
    BY <1>3, <2>1 DEF Search
  <2>4. /\ S'.i = S.i /\ S'.root = S.root /\ S'.rootStamp = S.rootStamp /\ S'.left = S.left + 1
        /\ S'.right = S.right /\ S'.rightValid = S.rightValid
    BY <1>3, <2>1 DEF Search, S
  <2>5. S.left + 1 \in PageNumbers
    BY <1>3, <1>4, <1>8 DEF PageNumbers
  <2>6. \A p \in RootsOf(S.i) : p >= S.left + 1
    BY <1>2, <1>3, <1>5, <1>8
  <2>7. Leftmost'
    BY <1>2, <2>2, <2>4, <2>5, <2>6, DbSame, DiskSame DEF Leftmost
  <2>8. Searching'
    BY <2>1 DEF Searching
  <2>9. QED
    BY <1>1, <2>1, <2>3, <2>4, <2>7, <2>8, SearchStepKeepsInv
<1>9. QED
  BY <1>6, <1>7, <1>8

LEMMA HalveKeepsInv ==
  ASSUME Inv, HalveRange, UNCHANGED db
  PROVE  Inv'
<1>1. phase = "range" /\ Searching
  BY DEF HalveRange, Searching
<1>2. InRange
  BY <1>1 DEF Inv, Up, Recovering, Searching
<1> DEFINE l == S.left
           r == S.right
           m == (l + r) \div 2
<1>3. S \in Search /\ l \in Nat /\ r \in Nat /\ l < r
  BY <1>1, <1>2, SearchFacts DEF InRange
<1>4. /\ phase' = "mid" /\ search' = [S EXCEPT !.firstDir = S.dir, !.firstMid = m, !.mid = m]
      /\ UNCHANGED <<db, spaceVars, stamp, diskVars, ghostVars>>
  BY <1>3 DEF HalveRange, searching
<1>5. m \in Nat /\ l <= m /\ m < r
  <2> HIDE DEF l, r
  <2>1. QED
    BY <1>3
<1> HIDE DEF m
<1>6. /\ search' \in Search
      /\ S'.i = S.i /\ S'.root = S.root /\ S'.rootStamp = S.rootStamp
      /\ S'.left = l /\ S'.right = r /\ S'.rightValid = S.rightValid
      /\ S'.mid = m /\ S'.firstMid = m /\ S'.dir = S.dir /\ S'.firstDir = S.dir
  BY <1>3, <1>4, <1>5 DEF Search, S
<1>7. disk' = disk
  BY <1>4 DEF diskVars
<1>8. InRange'
  BY <1>2, <1>6, <1>7, DbSame, DiskSame DEF InRange
<1>9. \A p \in RootsOf(S.i) : p \in Nat
  BY <1>1, SearchFacts
<1>10. \A p \in Nat : ~(m <= p /\ p <= m - 1) /\ ~(m + 1 <= p /\ p <= m)
  BY <1>5
<1>11. Scanned'
  <2>1. S'.firstMid = (S'.left + S'.right) \div 2
    BY <1>6 DEF m
  <2>2. m <= m
    BY <1>5
  <2>3. NoRootIn(S.firstMid, S.mid - 1)' /\ NoRootIn(S.mid + 1, S.firstMid)'
    BY <1>6, <1>7, <1>9, <1>10, DiskSame DEF NoRootIn
  <2>4. QED
    BY <1>5, <1>6, <2>1, <2>2, <2>3 DEF Scanned
<1>12. Searching'
  BY <1>4 DEF Searching
<1>13. QED
  BY <1>1, <1>4, <1>6, <1>8, <1>11, <1>12, SearchStepKeepsInv

(* The scan over data pages.                                               *)
LEMMA ScanKeepsInv ==
  ASSUME Inv, phase = "mid", ScanOn, S.mid # S.left, On(S.mid) = Data, UNCHANGED db
  PROVE  Inv'
<1>1. Searching /\ InRange /\ Scanned
  BY DEF Searching, Inv, Up, Recovering
<1> DEFINE i == S.i
           l == S.left
           r == S.right
           m == S.mid
           k == S.firstMid
<1>2. /\ S \in Search /\ l \in Nat /\ r \in Nat /\ m \in Nat /\ k \in Nat
      /\ S.dir \in {"LEFTWARD", "RIGHTWARD"} /\ S.firstDir \in {"LEFTWARD", "RIGHTWARD"}
      /\ NumberOfPages \in Nat
      /\ \A p \in RootsOf(i) : p \in Nat
  BY <1>1, SearchFacts
<1>3. l < r /\ r <= NumberOfPages
  BY <1>1 DEF InRange
<1>4. l < m /\ m < r /\ k = (l + r) \div 2 /\ k # l
  BY <1>1, <1>2 DEF Scanned
<1>5. l < k /\ k < r
  <2> HIDE DEF l, r, k
  <2>1. QED
    BY <1>2, <1>3, <1>4
<1>6. m \notin RootsOf(i)
  <2>1. m \in PageNumbers
    BY <1>2, <1>3, <1>4 DEF PageNumbers
  <2>2. QED
    BY <1>1, <2>1, SearchFacts
<1>7. /\ S.dir = "RIGHTWARD" /\ S.firstDir = "RIGHTWARD" => k <= m /\ NoRootIn(k, m - 1)
      /\ S.dir = "LEFTWARD" /\ S.firstDir = "LEFTWARD" => m <= k /\ NoRootIn(m + 1, k)
      /\ S.dir = "LEFTWARD" /\ S.firstDir = "RIGHTWARD" => m < k /\ NoRootIn(m + 1, r - 1)
      /\ S.dir = "RIGHTWARD" /\ S.firstDir = "LEFTWARD" => k < m /\ NoRootIn(l + 1, m - 1)
  BY <1>1 DEF Scanned
(* The page of the scan has no root block either. *)
<1>8. /\ S.dir = "RIGHTWARD" /\ S.firstDir = "RIGHTWARD" => k <= m /\ NoRootIn(k, m)
      /\ S.dir = "LEFTWARD" /\ S.firstDir = "LEFTWARD" => m <= k /\ NoRootIn(m, k)
      /\ S.dir = "LEFTWARD" /\ S.firstDir = "RIGHTWARD" => m < k /\ NoRootIn(m, r - 1)
      /\ S.dir = "RIGHTWARD" /\ S.firstDir = "LEFTWARD" => k < m /\ NoRootIn(l + 1, m)
  <2> HIDE DEF i, l, r, m, k
  <2>1. \A a \in Nat : NoRootIn(a, m - 1) => NoRootIn(a, m)
    BY <1>2, <1>6 DEF NoRootIn, i
  <2>2. \A b \in Int : NoRootIn(m + 1, b) => NoRootIn(m, b)
    BY <1>2, <1>6 DEF NoRootIn, i
  <2>3. l + 1 \in Nat /\ r - 1 \in Int /\ k \in Int
    BY <1>2
  <2>4. QED
    BY <1>2, <1>7, <2>1, <2>2, <2>3
(* A step that moves the scan. *)
<1>9. ASSUME NEW x \in Nat, NEW d \in {"LEFTWARD", "RIGHTWARD"},
             searching("mid", [S EXCEPT !.mid = x, !.dir = d]), l < x, x < r,
             d = "RIGHTWARD" /\ S.firstDir = "RIGHTWARD" => k <= x /\ NoRootIn(k, x - 1),
             d = "LEFTWARD" /\ S.firstDir = "LEFTWARD" => x <= k /\ NoRootIn(x + 1, k),
             d = "LEFTWARD" /\ S.firstDir = "RIGHTWARD" => x < k /\ NoRootIn(x + 1, r - 1),
             d = "RIGHTWARD" /\ S.firstDir = "LEFTWARD" => k < x /\ NoRootIn(l + 1, x - 1)
      PROVE  Inv'
  <2>1. /\ phase' = "mid" /\ search' = [S EXCEPT !.mid = x, !.dir = d]
        /\ UNCHANGED <<db, spaceVars, stamp, diskVars, ghostVars>>
    BY <1>9 DEF searching
  <2>2. /\ search' \in Search
        /\ S'.i = i /\ S'.root = S.root /\ S'.rootStamp = S.rootStamp
        /\ S'.left = l /\ S'.right = r /\ S'.rightValid = S.rightValid
        /\ S'.mid = x /\ S'.firstMid = k /\ S'.dir = d /\ S'.firstDir = S.firstDir
    BY <1>2, <2>1 DEF Search, S
  <2>3. disk' = disk /\ Searching'
    BY <2>1 DEF diskVars, Searching
  <2>4. InRange'
    BY <1>1, <2>2, <2>3, DbSame, DiskSame DEF InRange
  <2>5. \A a, b : NoRootIn(a, b)' <=> NoRootIn(a, b)
    BY <2>2, <2>3, DiskSame DEF NoRootIn
  <2>6. Scanned'
    <3>1. /\ d = "RIGHTWARD" /\ S.firstDir = "RIGHTWARD" => NoRootIn(S.firstMid, S.mid - 1)'
          /\ d = "LEFTWARD" /\ S.firstDir = "LEFTWARD" => NoRootIn(S.mid + 1, S.firstMid)'
          /\ d = "LEFTWARD" /\ S.firstDir = "RIGHTWARD" => NoRootIn(S.mid + 1, S.right - 1)'
          /\ d = "RIGHTWARD" /\ S.firstDir = "LEFTWARD" => NoRootIn(S.left + 1, S.mid - 1)'
      BY <1>9, <2>2, <2>3, DiskSame DEF NoRootIn
    <3>2. l <= x /\ x # l
      BY <1>2, <1>9
    <3> HIDE DEF i, l, r, m, k
    <3>3. QED
      BY <1>4, <1>9, <2>2, <3>1, <3>2 DEF Scanned
  <2>7. QED
    BY <1>1, <2>1, <2>2, <2>3, <2>4, <2>6, SearchStepKeepsInv DEF i
<1>10. S.dir = "RIGHTWARD" \/ S.dir = "LEFTWARD"
  BY <1>2
<1>11. [S EXCEPT !.mid = m] = S /\ \A x : [S EXCEPT !.mid = x] = [S EXCEPT !.mid = x, !.dir = S.dir]
  BY <1>2 DEF Search
<1>12. CASE S.dir = "RIGHTWARD"
  <2>1. /\ m + 1 # r => searching("mid", [S EXCEPT !.mid = m + 1])
        /\ m + 1 = r /\ (S.firstDir # "RIGHTWARD" \/ k - 1 = l) => FoundInFile
        /\ m + 1 = r /\ ~(S.firstDir # "RIGHTWARD" \/ k - 1 = l) =>
             searching("mid", [S EXCEPT !.mid = k - 1, !.dir = "LEFTWARD"])
    BY <1>12, SMTT(40) DEF ScanOn, Opposite
  <2>2. CASE m + 1 # r
    <3>1. searching("mid", [S EXCEPT !.mid = m + 1, !.dir = "RIGHTWARD"])
      BY <1>11, <1>12, <2>1, <2>2
    <3> HIDE DEF i, l, r, m, k
    <3>2. m + 1 \in Nat /\ l < m + 1 /\ m + 1 < r /\ (m + 1) - 1 = m /\ (k <= m => k <= m + 1) /\ (k < m => k < m + 1)
      BY <1>2, <1>4, <2>2
    <3>3. /\ S.firstDir = "RIGHTWARD" => k <= m + 1 /\ NoRootIn(k, (m + 1) - 1)
          /\ S.firstDir = "LEFTWARD" => k < m + 1 /\ NoRootIn(l + 1, (m + 1) - 1)
      BY <1>8, <1>12, <3>2
    <3>4. QED
      BY <1>9, <3>1, <3>2, <3>3
  <2>3. CASE m + 1 = r /\ (S.firstDir # "RIGHTWARD" \/ k - 1 = l)
    <3>1. m = r - 1
      <4> HIDE DEF m, r
      <4>1. QED
        BY <1>2, <2>3
    <3>2. NoRootIn(l + 1, r - 1)
      <4>1. CASE S.firstDir = "LEFTWARD"
        BY <1>8, <1>12, <3>1, <4>1
      <4>2. CASE S.firstDir = "RIGHTWARD"
        <5>1. k = l + 1
          <6> HIDE DEF k, l
          <6>1. QED
            BY <1>2, <2>3, <4>2
        <5>2. QED
          BY <1>8, <1>12, <3>1, <4>2, <5>1
      <4>3. QED
        BY <1>2, <4>1, <4>2
    <3>3. QED
      BY <1>1, <2>1, <2>3, <3>2, FoundKeepsInv
  <2>4. CASE m + 1 = r /\ ~(S.firstDir # "RIGHTWARD" \/ k - 1 = l)
    <3>1. searching("mid", [S EXCEPT !.mid = k - 1, !.dir = "LEFTWARD"]) /\ S.firstDir = "RIGHTWARD"
      BY <2>1, <2>4
    <3>2. k <= m /\ NoRootIn(k, m)
      BY <1>8, <1>12, <3>1
    <3> HIDE DEF i, l, r, m, k
    <3>3. k - 1 \in Nat /\ l < k - 1 /\ k - 1 < r /\ k - 1 < k /\ (k - 1) + 1 = k /\ m = r - 1
      BY <1>2, <1>5, <2>4
    <3>4. NoRootIn((k - 1) + 1, r - 1)
      BY <3>2, <3>3
    <3>5. QED
      BY <1>9, <3>1, <3>3, <3>4
  <2>5. QED
    BY <2>2, <2>3, <2>4
<1>13. CASE S.dir = "LEFTWARD"
  <2>1. /\ m - 1 # l => searching("mid", [S EXCEPT !.mid = m - 1])
        /\ m - 1 = l /\ (S.firstDir # "LEFTWARD" \/ k + 1 = r) => FoundInFile
        /\ m - 1 = l /\ ~(S.firstDir # "LEFTWARD" \/ k + 1 = r) =>
             searching("mid", [S EXCEPT !.mid = k + 1, !.dir = "RIGHTWARD"])
    BY <1>13, SMTT(40) DEF ScanOn, Opposite
  <2>2. CASE m - 1 # l
    <3>1. searching("mid", [S EXCEPT !.mid = m - 1, !.dir = "LEFTWARD"])
      BY <1>11, <1>13, <2>1, <2>2
    <3> HIDE DEF i, l, r, m, k
    <3>2. m - 1 \in Nat /\ l < m - 1 /\ m - 1 < r /\ (m - 1) + 1 = m /\ (m <= k => m - 1 <= k) /\ (m < k => m - 1 < k)
      BY <1>2, <1>4, <2>2
    <3>3. /\ S.firstDir = "LEFTWARD" => m - 1 <= k /\ NoRootIn((m - 1) + 1, k)
          /\ S.firstDir = "RIGHTWARD" => m - 1 < k /\ NoRootIn((m - 1) + 1, r - 1)
      BY <1>8, <1>13, <3>2
    <3>4. QED
      BY <1>9, <3>1, <3>2, <3>3
  <2>3. CASE m - 1 = l /\ (S.firstDir # "LEFTWARD" \/ k + 1 = r)
    <3>1. m = l + 1
      <4> HIDE DEF m, l
      <4>1. QED
        BY <1>2, <2>3
    <3>2. NoRootIn(l + 1, r - 1)
      <4>1. CASE S.firstDir = "RIGHTWARD"
        BY <1>8, <1>13, <3>1, <4>1
      <4>2. CASE S.firstDir = "LEFTWARD"
        <5>1. k = r - 1
          <6> HIDE DEF k, r
          <6>1. QED
            BY <1>2, <2>3, <4>2
        <5>2. QED
          BY <1>8, <1>13, <3>1, <4>2, <5>1
      <4>3. QED
        BY <1>2, <4>1, <4>2
    <3>3. QED
      BY <1>1, <2>1, <2>3, <3>2, FoundKeepsInv
  <2>4. CASE m - 1 = l /\ ~(S.firstDir # "LEFTWARD" \/ k + 1 = r)
    <3>1. searching("mid", [S EXCEPT !.mid = k + 1, !.dir = "RIGHTWARD"]) /\ S.firstDir = "LEFTWARD"
      BY <2>1, <2>4
    <3>2. m <= k /\ NoRootIn(m, k)
      BY <1>8, <1>13, <3>1
    <3> HIDE DEF i, l, r, m, k
    <3>3. k + 1 \in Nat /\ l < k + 1 /\ k + 1 < r /\ k < k + 1 /\ (k + 1) - 1 = k /\ m = l + 1
      BY <1>2, <1>5, <2>4
    <3>4. NoRootIn(l + 1, (k + 1) - 1)
      BY <3>2, <3>3
    <3>5. QED
      BY <1>9, <3>1, <3>3, <3>4
  <2>5. QED
    BY <2>2, <2>3, <2>4
<1>14. QED
  BY <1>10, <1>12, <1>13

(* A new end of the range.                                                 *)
LEMMA NarrowKeepsInv ==
  ASSUME Inv, Searching, UNCHANGED <<db, spaceVars, stamp, diskVars, ghostVars>>,
         phase' = "range", search' \in Search, S'.i = S.i, S'.root = S.root, S'.rootStamp = S.rootStamp,
         S'.left \in RootsOf(S.i), S'.left < S'.right, S'.right <= NumberOfPages,
         S'.rightValid => S'.right \in RootsOf(S.i),
         \A p \in RootsOf(S.i) :
            p = S'.left \/ (S'.left < p /\ p < S'.right) \/ Num(S.i, p) < Num(S.i, S'.left)
  PROVE  Inv'
<1>1. disk' = disk /\ Searching'
  BY DEF diskVars, Searching
<1>2. \A f : RootsOf(f)' = RootsOf(f)
  BY <1>1, DiskSame
<1>3. \A p : Num(S.i, p)' = Num(S.i, p)
  BY <1>1 DEF Num, StampOf, Value
<1>4. Num(S.i, S.left)' = Num(S.i, S'.left)
  BY <1>1 DEF Num, StampOf, Value
<1>5. RootsOf(S.i)' = RootsOf(S.i)
  BY <1>1, DbSame DEF RootsOf
<1>6. InRange'
  BY <1>3, <1>4, <1>5, DbSame DEF InRange
<1>7. QED
  BY <1>1, <1>6, SearchStepKeepsInv

LEMMA NarrowToUnusedKeepsInv ==
  ASSUME Inv, phase = "mid", NarrowToUnused, S.mid # S.left, On(S.mid) = Unused, UNCHANGED db
  PROVE  Inv'
<1>1. Searching /\ InRange /\ Scanned
  BY DEF Searching, Inv, Up, Recovering
<1>2. /\ S \in Search /\ S.i \in Files /\ S.left \in Nat /\ S.right \in Nat /\ S.mid \in Nat /\ NumberOfPages \in Nat
      /\ \A p \in RootsOf(S.i) : p \in Nat
  BY <1>1, SearchFacts
<1>3. /\ S.left \in RootsOf(S.i) /\ S.right <= NumberOfPages
      /\ \A p \in RootsOf(S.i) :
           p = S.left \/ (S.left < p /\ p < S.right) \/ Num(S.i, p) < Num(S.i, S.left)
  BY <1>1 DEF InRange
<1>4. S.left < S.mid /\ S.mid < S.right
  BY <1>1, <1>2 DEF Scanned
<1>5. S.mid \in PageNumbers
  BY <1>2, <1>3, <1>4 DEF PageNumbers
<1>6. \A p \in RootsOf(S.i) : p < S.mid
  BY <1>2, <1>5 DEF Inv, UnusedLast, On
<1>7. /\ phase' = "range" /\ search' = [S EXCEPT !.right = S.mid, !.rightValid = FALSE]
      /\ UNCHANGED <<db, spaceVars, stamp, diskVars, ghostVars>>
  BY DEF NarrowToUnused, searching
<1>8. /\ search' \in Search /\ S'.i = S.i /\ S'.root = S.root /\ S'.rootStamp = S.rootStamp
      /\ S'.left = S.left /\ S'.right = S.mid /\ S'.rightValid = FALSE
  BY <1>2, <1>7 DEF Search, S
<1>9. S.mid <= NumberOfPages
  BY <1>2, <1>3, <1>4
<1>10. QED
  BY <1>1, <1>3, <1>4, <1>6, <1>7, <1>8, <1>9, NarrowKeepsInv

LEMMA NarrowToRootKeepsInv ==
  ASSUME Inv, phase = "mid", NarrowToRoot, S.mid # S.left, On(S.mid) # Unused, On(S.mid) # Data, UNCHANGED db
  PROVE  Inv'
<1>1. Searching /\ InRange /\ Scanned
  BY DEF Searching, Inv, Up, Recovering
<1> DEFINE i == S.i
           l == S.left
           r == S.right
           m == S.mid
           n == NumberOfPages
           ps == RootsOf(i)
           v == Nums(i)
<1>2. /\ S \in Search /\ i \in Files /\ l \in Nat /\ r \in Nat /\ m \in Nat /\ n \in Nat \ {0}
      /\ \A p \in ps : p \in Nat /\ Num(i, p) \in Nat /\ StampOf(i, p) \in Stamp
  BY <1>1, SearchFacts
<1>3. /\ l \in ps /\ r <= n
      /\ \A p \in ps : p = l \/ (l < p /\ p < r) \/ Num(i, p) < Num(i, l)
  BY <1>1 DEF InRange
<1>4. l < m /\ m < r /\ m <= n
  BY <1>1, <1>2, <1>3 DEF Scanned
<1>5. m \in ps
  <2>1. m \in PageNumbers
    BY <1>2, <1>3, <1>4 DEF PageNumbers
  <2>2. QED
    BY <1>1, <2>1, SearchFacts
<1>6. /\ ps \in SUBSET (0 .. n - 1) /\ v \in [ps -> Int]
      /\ \A p \in ps : v[p] = Num(i, p)
  BY <1>1, <1>2, NumTypes, SearchFacts DEF Types
<1>7. PICK c \in 0 .. n - 1 : Ascending(v, ps, c)
  BY <1>2 DEF Inv, Rotated, PageNumbers
<1>8. time_stamp_is_newer_than(StampOf(i, m), StampOf(i, l)) <=> Num(i, m) > Num(i, l)
  BY <1>2, <1>3, <1>5, NewerIsGreater DEF Num
<1>9. UNCHANGED <<db, spaceVars, stamp, diskVars, ghostVars>> /\ phase' = "range"
  BY DEF NarrowToRoot, searching
<1>10. CASE Num(i, m) > Num(i, l)
  <2>1. search' = [S EXCEPT !.left = S.mid, !.dir = Opposite(@)]
    BY <1>8, <1>10 DEF NarrowToRoot, searching
  <2>2. /\ search' \in Search /\ S'.i = S.i /\ S'.root = S.root /\ S'.rootStamp = S.rootStamp
        /\ S'.left = m /\ S'.right = r /\ S'.rightValid = S.rightValid
    BY <1>2, <2>1 DEF Search, S, Opposite
  <2>3. S.rightValid => r \in ps
    BY <1>1 DEF InRange
  <2>4. ASSUME NEW p \in ps PROVE p = m \/ (m < p /\ p < r) \/ Num(i, p) < Num(i, m)
    <3>1. CASE p = l
      BY <1>10, <3>1
    <3>2. CASE Num(i, p) < Num(i, l)
      BY <1>2, <1>3, <1>5, <1>10, <3>2
    <3>3. CASE l < p /\ p < r /\ p < m
      <4> HIDE DEF ps, v, n, l, m
      <4>1. v[l] < v[m]
        BY <1>2, <1>3, <1>5, <1>6, <1>10
      <4>2. v[p] < v[m]
        BY <1>2, <1>3, <1>5, <1>6, <1>7, <3>3, <4>1, BetweenOlder
      <4>3. QED
        BY <1>5, <1>6, <4>2
    <3>4. CASE l < p /\ p < r /\ ~(p < m)
      BY <1>2, <3>4
    <3>5. QED
      BY <1>3, <3>1, <3>2, <3>3, <3>4
  <2>5. QED
    BY <1>1, <1>3, <1>4, <1>5, <1>9, <2>2, <2>3, <2>4, NarrowKeepsInv
<1>11. CASE ~(Num(i, m) > Num(i, l))
  <2>1. search' = [S EXCEPT !.right = S.mid, !.rightValid = TRUE, !.dir = Opposite(@)]
    BY <1>8, <1>11 DEF NarrowToRoot, searching
  <2>2. /\ search' \in Search /\ S'.i = S.i /\ S'.root = S.root /\ S'.rootStamp = S.rootStamp
        /\ S'.left = l /\ S'.right = m /\ S'.rightValid = TRUE
    BY <1>2, <2>1 DEF Search, S, Opposite
  <2>3. Num(i, m) < Num(i, l)
    <3>1. Before(c, l, m) \/ Before(c, m, l)
      <4> HIDE DEF ps, v, n, l, m
      <4>1. QED
        BY <1>2, <1>4, <1>7 DEF Before
    <3>2. v[l] < v[m] \/ v[m] < v[l]
      BY <1>3, <1>5, <1>7, <3>1 DEF Ascending
    <3>3. QED
      BY <1>2, <1>3, <1>5, <1>6, <1>11, <3>2
  <2>4. ASSUME NEW p \in ps PROVE p = l \/ (l < p /\ p < m) \/ Num(i, p) < Num(i, l)
    <3>1. CASE p = l \/ Num(i, p) < Num(i, l) \/ p = m
      BY <2>3, <3>1
    <3>2. CASE l < p /\ p < r /\ m < p
      <4> HIDE DEF ps, v, n, l, m
      <4>1. v[m] < v[l]
        BY <1>2, <1>3, <1>5, <1>6, <2>3
      <4>2. v[p] < v[l]
        BY <1>2, <1>3, <1>4, <1>5, <1>6, <1>7, <3>2, <4>1, BeyondOlder
      <4>3. QED
        BY <1>3, <1>6, <4>2
    <3>3. CASE l < p /\ p < r /\ ~(m < p) /\ p # m
      BY <1>2, <3>3
    <3>4. QED
      BY <1>3, <3>1, <3>2, <3>3
  <2>5. QED
    BY <1>1, <1>3, <1>4, <1>5, <1>9, <2>2, <2>4, NarrowKeepsInv
<1>12. QED
  BY <1>10, <1>11

LEMMA ProbeKeepsInv ==
  ASSUME Inv, ProbeMid, UNCHANGED db
  PROVE  Inv'
<1>1. phase = "mid" /\ Searching
  BY DEF ProbeMid, Searching
<1>2. InRange /\ Scanned
  BY <1>1 DEF Searching, Inv, Up, Recovering
<1>3. CASE S.mid = S.left
  <2>1. FoundInFile
    BY <1>3 DEF ProbeMid
  <2> DEFINE l == S.left
             r == S.right
  <2>2. l \in Nat /\ r \in Nat /\ l < r /\ l = (l + r) \div 2
    BY <1>1, <1>2, <1>3, SearchFacts DEF InRange, Scanned
  <2>3. r = l + 1
    <3> HIDE DEF l, r
    <3>1. QED
      BY <2>2
  <2>4. \A p \in RootsOf(S.i) : p \in Nat
    BY <1>1, SearchFacts
  <2>5. NoRootIn(l + 1, r - 1)
    BY <2>2, <2>3, <2>4 DEF NoRootIn
  <2>6. QED
    BY <1>1, <1>2, <2>1, <2>5, FoundKeepsInv
<1>4. CASE S.mid # S.left /\ On(S.mid) = Data
  BY <1>1, <1>4, ScanKeepsInv, CellFacts DEF ProbeMid
<1>5. CASE S.mid # S.left /\ On(S.mid) = Unused
  BY <1>1, <1>5, NarrowToUnusedKeepsInv, CellFacts DEF ProbeMid
<1>6. CASE S.mid # S.left /\ On(S.mid) # Data /\ On(S.mid) # Unused
  BY <1>1, <1>6, NarrowToRootKeepsInv DEF ProbeMid
<1>7. QED
  BY <1>3, <1>4, <1>5, <1>6

--------------------------------------------------------------------------------
(* io_declare_unallocated_pages_free.                                      *)

LEMMA FinitePages ==
  ASSUME Types
  PROVE  /\ IsFiniteSet(DiskPages)
         /\ \A ts \in SUBSET DiskPages : IsFiniteSet(ts) /\ Cardinality(ts) \in Nat
         /\ \A ps \in SUBSET PageNumbers : IsFiniteSet(ps) /\ Cardinality(ps) \in Nat
<1>1. NumberOfFiles \in Nat /\ NumberOfPages \in Nat
  BY Sizes DEF Types
<1>2. IsFiniteSet(Files) /\ IsFiniteSet(PageNumbers)
  BY <1>1, FS_Interval DEF Files, PageNumbers
<1>3. IsFiniteSet(DiskPages)
  BY <1>2, FS_Product DEF DiskPages
<1>4. ASSUME NEW ts \in SUBSET DiskPages PROVE IsFiniteSet(ts) /\ Cardinality(ts) \in Nat
  BY <1>3, FS_Subset, FS_CardinalityType
<1>5. ASSUME NEW ps \in SUBSET PageNumbers PROVE IsFiniteSet(ps) /\ Cardinality(ps) \in Nat
  BY <1>2, FS_Subset, FS_CardinalityType
<1>6. QED
  BY <1>3, <1>4, <1>5

LEMMA DeclareKeepsInv ==
  ASSUME Inv, io_declare_unallocated_pages_free, UNCHANGED db
  PROVE  Inv'
<1> DEFINE unknown(f) == {p \in PageNumbers : status[f][p] = "UNKNOWN" /\ <<f, p>> \notin committed}
           gained == Cardinality({t \in DiskPages : t[2] \in unknown(t[1])})
<1>1. /\ phase = "declare" /\ phase' = "running"
      /\ status' = [f \in Files |-> [p \in PageNumbers |->
           IF <<f, p>> \in committed THEN "ALLOCATED"
           ELSE IF p \in unknown(f) THEN "FREE" ELSE status[f][p]]]
      /\ nfree' = [f \in Files |-> (nfree[f] + Cardinality(unknown(f))) % Word]
      /\ total' = (total + gained) % Word
      /\ UNCHANGED <<cursor, fileCursor, prevRoot, stamp, search, disk, pending, newest, committed, roots, crashes>>
  BY DEF io_declare_unallocated_pages_free, diskVars, ghostVars
<1>2. Types /\ OnDisk /\ Referred /\ ~Up /\ Recovering
  BY <1>1 DEF Inv, OnDisk, Up
<1>3. /\ pending = {} /\ newest # NoPage /\ prevRoot = newest
      /\ \A t \in DiskPages : status[t[1]][t[2]] = IF t = newest THEN "ROOT" ELSE "UNKNOWN"
      /\ \A f \in Files : Searched(f, cursor[f])
      /\ Num(newest[1], newest[2]) < Value(stamp)
  BY <1>1, <1>2 DEF Recovering
<1>4. ASSUME NEW t \in DiskPages
      PROVE  status'[t[1]][t[2]] = IF t \in committed THEN "ALLOCATED" ELSE IF t = newest THEN "ROOT" ELSE "FREE"
  <2>1. t[1] \in Files /\ t[2] \in PageNumbers /\ t = <<t[1], t[2]>>
    BY Pairs
  <2>2. status'[t[1]][t[2]] = IF t \in committed THEN "ALLOCATED"
                              ELSE IF t[2] \in unknown(t[1]) THEN "FREE" ELSE status[t[1]][t[2]]
    BY <1>1, <2>1
  <2>3. t[2] \in unknown(t[1]) <=> status[t[1]][t[2]] = "UNKNOWN" /\ t \notin committed
    BY <2>1
  <2>4. QED
    BY <1>3, <2>2, <2>3
<1>5. Types'
  <2>1. Word \in Nat \ {0}
    BY <1>2, Counts DEF Types
  <2>2. \A f \in Files : unknown(f) \in SUBSET PageNumbers
    OBVIOUS
  <2>3. \A f \in Files : Cardinality(unknown(f)) \in Nat /\ nfree[f] \in Nat
    BY <1>2, <2>2, FinitePages DEF Types
  <2>4. gained \in Nat /\ total \in Nat
    BY <1>2, FinitePages DEF Types
  <2> HIDE DEF unknown, gained
  <2>5. nfree' \in [Files -> Nat]
    <3>1. \A f \in Files : (nfree[f] + Cardinality(unknown(f))) % Word \in Nat
      BY <2>1, <2>3
    <3>2. QED
      BY <1>1, <3>1
  <2>6. total' \in Nat
    BY <1>1, <2>1, <2>4
  <2>7. status' \in [Files -> [PageNumbers -> PageStates]]
    <3>1. \A f \in Files, p \in PageNumbers : status[f][p] \in PageStates
      BY <1>2 DEF Types
    <3>2. "ALLOCATED" \in PageStates /\ "FREE" \in PageStates
      BY DEF PageStates
    <3> HIDE DEF PageStates
    <3>3. QED
      BY <1>1, <3>1, <3>2
  <2>8. QED
    BY <1>1, <1>2, <2>5, <2>6, <2>7, DbSame DEF Types
<1>6. OnDisk'
  BY <1>1, <1>2, OnDiskSame
<1>7. Referred'
  BY <1>1, <1>2, DbSame DEF Referred
<1>8. Up'
  BY <1>1 DEF Up
<1>9. StatusMeans'
  <2>1. newest \notin committed /\ \A t \in committed : disk[t[1]][t[2]] = Data
    BY <1>2 DEF Referred
  <2>2. ASSUME NEW t \in DiskPages
        PROVE  /\ status'[t[1]][t[2]] # "UNKNOWN"
               /\ status'[t[1]][t[2]] = "ROOT" <=> t = newest
               /\ status'[t[1]][t[2]] = "ALLOCATED" => disk[t[1]][t[2]] = Data
    BY <1>4, <2>1
  <2>3. QED
    BY <1>1, <1>3, <2>2, DbSame DEF StatusMeans
<1>10. CursorsMean'
  <2>1. \A f : Surviving(f)' = RootsOf(f) /\ Nums(f)' = Nums(f)
    BY <1>1, <1>3, DiskSame DEF Surviving
  <2>2. ASSUME NEW f \in Files
        PROVE /\ \/ Ascending(Nums(f), RootsOf(f), cursor[f])
                 \/ Ascending(Nums(f), RootsOf(f), After(cursor[f], NumberOfPages)) /\ cursor[f] \in RootsOf(f)
              /\ \A q \in PageNumbers : q < cursor[f] => disk[f][q] # Unused
    <3>1. NumberOfPages \in Nat \ {0} /\ \A q \in PageNumbers : q \in Nat
      BY <1>2, Sizes DEF Types
    <3>2. CASE RootsOf(f) = {}
      <4>1. cursor[f] = 0
        BY <1>3, <3>2 DEF Searched
      <4>2. QED
        BY <3>1, <3>2, <4>1 DEF Ascending
    <3>3. CASE RootsOf(f) # {}
      <4> DEFINE n == NumberOfPages
                 ps == RootsOf(f)
                 v == Nums(f)
                 x == cursor[f]
      <4>1. x \in ps /\ \A q \in ps : q = x \/ Num(f, q) < Num(f, x)
        BY <1>3, <3>3 DEF Searched, Newest
      <4>2. /\ ps \in SUBSET (0 .. n - 1) /\ v \in [ps -> Int]
            /\ \A q \in ps : q \in PageNumbers /\ v[q] = Num(f, q)
        BY <1>2, NumTypes DEF Types
      <4>3. PICK c \in 0 .. n - 1 : Ascending(v, ps, c)
        BY <1>2 DEF OnDisk, Rotated, PageNumbers
      <4>4. \A a \in ps : a = x \/ v[a] < v[x]
        BY <4>1, <4>2
      <4>5. ASSUME NEW q \in PageNumbers, q < x PROVE disk[f][q] # Unused
        <5>1. disk[f][q] = Unused => x < q
          BY <1>2, <4>1 DEF OnDisk, UnusedLast
        <5>2. x \in Nat /\ q \in Nat
          BY <3>1, <4>1, <4>2
        <5>3. QED
          BY <4>5, <5>1, <5>2
      <4> HIDE DEF n, ps, v, x
      <4>6. n \in Nat \ {0}
        BY <3>1 DEF n
      <4>7. Ascending(v, ps, After(x, n))
        BY <4>1, <4>2, <4>3, <4>4, <4>6, StartBehindNewest
      <4>8. QED
        BY <4>1, <4>5, <4>7 DEF n, ps, v, x
    <3>4. QED
      BY <3>2, <3>3
  <2>3. QED
    BY <1>1, <1>3, <2>1, <2>2, DbSame DEF CursorsMean
<1>11. StampNewer'
  <2>1. Value(stamp)' = Value(stamp) /\ \A f, p : Num(f, p)' = Num(f, p) /\ RootsOf(f)' = RootsOf(f)
    BY <1>1, DiskSame DEF Value
  <2>2. Value(stamp) \in Nat
    BY <1>2, StampValue DEF Types
  <2>3. newest[1] \in Files /\ newest[2] \in RootsOf(newest[1])
    BY <1>2, <1>3, Pairs DEF Types, OnDisk, NewestLast
  <2>4. \A f \in Files : \A p \in RootsOf(f) : Num(f, p) \in Nat
    BY <1>2, NumTypes DEF Types
  <2>5. Value(stamp) > 0
    BY <1>3, <2>2, <2>3, <2>4
  <2>6. \A f \in Files : \A p \in RootsOf(f) : Num(f, p) < Value(stamp)
    <3> SUFFICES ASSUME NEW f \in Files, NEW p \in RootsOf(f) PROVE Num(f, p) < Value(stamp)
      OBVIOUS
    <3>1. <<f, p>> = newest \/ Num(f, p) < Num(newest[1], newest[2])
      BY <1>2, <1>3 DEF OnDisk, NewestLast
    <3>2. <<f, p>> = newest => f = newest[1] /\ p = newest[2]
      OBVIOUS
    <3>3. Num(f, p) <= Num(newest[1], newest[2])
      BY <2>3, <2>4, <3>1, <3>2
    <3>4. QED
      BY <1>3, <2>2, <2>3, <2>4, <3>3
  <2>7. QED
    BY <2>1, <2>5, <2>6, DbSame DEF StampNewer
<1>12. QED
  BY <1>5, <1>6, <1>7, <1>8, <1>9, <1>10, <1>11 DEF Inv, OnDisk

--------------------------------------------------------------------------------
(* The theorems.                                                           *)

LEMMA StutterKeepsInv ==
  ASSUME Inv, UNCHANGED vars
  PROVE  Inv'
<1>1. UNCHANGED <<db, phase, status, nfree, total, cursor, fileCursor, prevRoot, stamp, search,
                  disk, pending, newest, committed, roots, crashes>>
  BY DEF vars, spaceVars, diskVars, ghostVars
<1>2. Types' /\ OnDisk' /\ Referred' /\ (Up' <=> Up)
  BY <1>1, DbSame, OnDiskSame DEF Inv, Types, OnDisk, Referred, Up
<1>3. CASE Up
  <2>1. StatusMeans' /\ StampNewer'
    BY <1>1, <1>3, DbSame, DiskSame DEF Inv, StatusMeans, StampNewer, Value
  <2>2. \A f : Surviving(f)' = Surviving(f)
    BY <1>1, DbSame, DiskSame DEF Surviving
  <2>3. CursorsMean'
    BY <1>1, <1>3, <2>2, DbSame, DiskSame DEF Inv, CursorsMean
  <2>4. QED
    BY <1>2, <1>3, <2>1, <2>3 DEF Inv, OnDisk
<1>4. CASE Searching
  <2>1. S' = S /\ Searching' /\ search' \in Search
    BY <1>1, <1>4, SearchFacts DEF S, Searching
  <2>2. Recovering
    BY <1>4 DEF Inv, Up, Searching
  <2>3. Leftmost => Leftmost'
    BY <1>1, <2>1, DbSame, DiskSame DEF Leftmost
  <2>4. InRange => InRange'
    BY <1>1, <2>1, DbSame, DiskSame DEF InRange
  <2>5. Scanned => Scanned'
    BY <1>1, <2>1, DbSame, DiskSame DEF Scanned, NoRootIn
  <2>6. QED
    BY <1>1, <1>4, <2>1, <2>2, <2>3, <2>4, <2>5, SearchStepKeepsInv DEF Recovering, spaceVars, diskVars, ghostVars
<1>5. CASE phase = "declare"
  <2>1. Recovering
    BY <1>5 DEF Inv, Up
  <2>2. \A f, c : Searched(f, c)' <=> Searched(f, c)
    BY <1>1, DiskSame DEF Searched, Newest
  <2>3. \A f \in Files' : Searched(f, cursor[f])'
    BY <1>1, <1>5, <2>1, <2>2, DbSame DEF Recovering
  <2>4. Num(newest[1], newest[2])' = Num(newest[1], newest[2]) /\ Value(stamp)' = Value(stamp)
    BY <1>1 DEF Num, StampOf, Value
  <2>5. Recovering'
    BY <1>1, <1>5, <2>1, <2>3, <2>4, DbSame DEF Recovering, Searching
  <2>6. QED
    BY <1>1, <1>2, <1>5, <2>5 DEF Inv, OnDisk, Up
<1>6. QED
  BY <1>3, <1>4, <1>5 DEF Up, Searching, Inv, Types

LEMMA StepKeepsInv ==
  ASSUME LoadBalancing = FALSE, Inv, [Next]_vars
  PROVE  Inv'
<1>1. CASE UNCHANGED vars
  BY <1>1, StutterKeepsInv
<1>2. CASE Client /\ UNCHANGED db
  <2>1. CASE io_write_page
    BY <1>2, <2>1, WritePageKeepsInv
  <2>2. CASE WriteFull \/ WriteAsserts \/ RootFull
    <3>1. Up /\ \E why \in {"full", "assert"} : Stop(why)
      BY <2>2 DEF WriteFull, WriteAsserts, RootFull, Up
    <3>2. QED
      BY <1>2, <3>1, StopKeepsInv
  <2>3. CASE \E refs \in SUBSET Allocated : io_write_root(refs)
    BY <1>2, <2>3, WriteRootKeepsInv
  <2>4. CASE \E t \in DiskPages : io_free_disk_page(t)
    BY <1>2, <2>4, FreePageKeepsInv
  <2>5. QED
    BY <1>2, <2>1, <2>2, <2>3, <2>4 DEF Client
<1>3. CASE Restart /\ UNCHANGED db
  BY <1>3, RestartKeepsInv
<1>4. CASE Recovery /\ UNCHANGED db
  <2>1. CASE SearchLeftmost
    BY <1>4, <2>1, LeftmostKeepsInv
  <2>2. CASE HalveRange
    BY <1>4, <2>2, HalveKeepsInv
  <2>3. CASE ProbeMid
    BY <1>4, <2>3, ProbeKeepsInv
  <2>4. CASE io_declare_unallocated_pages_free
    BY <1>4, <2>4, DeclareKeepsInv
  <2>5. QED
    BY <1>4, <2>1, <2>2, <2>3, <2>4 DEF Recovery, io_read_root
<1>5. QED
  BY <1>1, <1>2, <1>3, <1>4 DEF Next

(* The root blocks on disk keep their order round every file, and the      *)
(* states of the pages, the cursors and the search mean what Inv says.     *)
THEOREM InvHolds ==
  ASSUME LoadBalancing = FALSE PROVE Spec => []Inv
<1>1. Init => Inv
  BY InitInv
<1>2. Inv /\ [Next]_vars => Inv'
  BY StepKeepsInv
<1>3. QED
  BY <1>1, <1>2, PTL DEF Spec

(* io_read_root finds the last root block, in a database of any number of  *)
(* files and pages, after any number of writes, root blocks and crashes.   *)
THEOREM RootFoundSafe ==
  ASSUME LoadBalancing = FALSE PROVE Spec => []NewestRootFound
<1>1. Inv => NewestRootFound
  BY DEF Inv, Recovering, Up, NewestRootFound
<1>2. QED
  BY <1>1, InvHolds, PTL

(* No write is ever directed at the last root block, although the client   *)
(* may give back any page with data, those it refers to included, and      *)
(* these hold data whatever is written (io_write_root, io.c:531-617).      *)
THEOREM RootUntouchedSafe ==
  ASSUME LoadBalancing = FALSE PROVE Spec => []LastRootUntouched
<1>1. ASSUME Inv PROVE LastRootUntouched
  <2>1. newest # NoPage => disk[newest[1]][newest[2]].cookie = "ROOT"
    BY <1>1 DEF Inv, NewestLast, RootsOf
  <2>2. QED
    BY <1>1, <2>1 DEF Inv, Referred, LastRootUntouched
<1>2. QED
  BY <1>1, InvHolds, PTL

--------------------------------------------------------------------------------
(* The counters of free pages: ts are the free pages, nf and tot counters. *)

FreePages == {t \in DiskPages : status[t[1]][t[2]] = "FREE"}
InFile(ts, f) == {p \in PageNumbers : <<f, p>> \in ts}
Near(x, n) == x = n \/ x = Dec(n)
CountersOf(ts, nf, tot) ==
  tot = Cardinality(ts) /\ \A f \in Files : Near(nf[f], Cardinality(InFile(ts, f)))

(* After a crash the counters are zero; then that of the file with the     *)
(* root block is decremented, although the page was not counted as free.   *)
Counted ==
  /\ Up => CountersOf(FreePages, nfree, total)
  /\ phase = "assert" => \A f \in Files : Cardinality(InFile(FreePages, f)) <= 2
  /\ ~Up => total = 0
  /\ Searching => \A f \in Files : nfree[f] = 0
  /\ phase = "declare" => \A f \in Files : nfree[f] = IF f = newest[1] THEN Dec(0) ELSE 0

LEMMA FreeInFile ==
  ASSUME NEW f \in Files
  PROVE  FreeIn(f) = InFile(FreePages, f)
<1>1. \A p \in PageNumbers : <<f, p>> \in FreePages <=> status[f][p] = "FREE"
  BY Pairs DEF FreePages
<1>2. QED
  BY <1>1 DEF FreeIn, InFile

LEMMA IncDec ==
  ASSUME db \in Databases
  PROVE  /\ \A n \in Nat : n + 1 < Word => Inc(n) = n + 1 /\ Dec(n + 1) = n
         /\ Dec(0) = Word - 1 /\ Inc(Dec(0)) = 0
<1> DEFINE w == Word
<1>1. w \in Nat \ {0}
  BY Counts
<1> HIDE DEF w
<1>2. ASSUME NEW n \in Nat, n + 1 < w PROVE (n + 1) % w = n + 1 /\ ((n + 1) + w - 1) % w = n
  <2>1. (n + 1) % w = n + 1
    BY <1>1, <1>2, ModSmall
  <2> DEFINE y == (n + 1) + w - 1
  <2>2. y \in Nat /\ w <= y /\ y < 2 * w /\ y - w = n
    BY <1>1, <1>2
  <2> HIDE DEF y
  <2>3. y % w = n
    BY <1>1, <2>2, ModBig
  <2>4. QED
    BY <2>1, <2>3 DEF y
<1>3. (0 + w - 1) % w = w - 1
  <2>1. w - 1 \in Nat /\ w - 1 < w /\ 0 + w - 1 = w - 1
    BY <1>1
  <2>2. QED
    BY <1>1, <2>1, ModSmall
<1>4. ((w - 1) + 1) % w = 0
  <2>1. (w - 1) + 1 = w
    BY <1>1
  <2>2. w % w = w - w
    BY <1>1, ModBig
  <2>3. QED
    BY <1>1, <2>1, <2>2
<1>5. QED
  BY <1>2, <1>3, <1>4 DEF Inc, Dec, w

LEMMA NearSteps ==
  ASSUME db \in Databases, NEW n \in Nat, n + 1 < Word, NEW x
  PROVE  /\ Near(x, n + 1) => Near(Dec(x), n)
         /\ Near(x, n) => Near(Inc(x), n + 1)
<1>1. Inc(n) = n + 1 /\ Dec(n + 1) = n
  BY IncDec
<1>2. ASSUME Near(x, n + 1) PROVE Near(Dec(x), n)
  BY <1>1, <1>2 DEF Near
<1>3. ASSUME Near(x, n) PROVE Near(Inc(x), n + 1)
  <2>1. CASE x = n
    BY <1>1, <2>1 DEF Near
  <2>2. CASE x = Dec(n) /\ n = 0
    <3>1. Inc(x) = 0 /\ Dec(n + 1) = 0
      BY <1>1, <2>2, IncDec
    <3>2. QED
      BY <3>1 DEF Near
  <2>3. CASE x = Dec(n) /\ n # 0
    <3>1. PICK k \in Nat : n = k + 1
      <4>1. n - 1 \in Nat /\ n = (n - 1) + 1
        BY <2>3
      <4>2. QED
        BY <4>1
    <3>2. Word \in Nat
      BY Counts
    <3>3. k + 1 < Word
      BY <3>1, <3>2
    <3>4. Dec(k + 1) = k /\ Inc(k) = k + 1
      BY <3>3, IncDec
    <3>5. Inc(x) = n
      BY <2>3, <3>1, <3>4
    <3>6. QED
      BY <1>1, <3>5 DEF Near
  <2>4. QED
    BY <1>3, <2>1, <2>2, <2>3 DEF Near
<1>4. QED
  BY <1>2, <1>3

(* No count reaches the number of values of a word.                        *)
LEMMA CountBounds ==
  ASSUME Types
  PROVE  /\ Cardinality(DiskPages) = NumberOfFiles * NumberOfPages
         /\ Cardinality(PageNumbers) = NumberOfPages
         /\ \A ts \in SUBSET DiskPages : Cardinality(ts) + 1 < Word
         /\ \A ts, f : Cardinality(InFile(ts, f)) \in Nat /\ Cardinality(InFile(ts, f)) + 1 < Word
<1> DEFINE a == NumberOfFiles
           b == NumberOfPages
<1>1. a \in Nat \ {0} /\ b \in Nat \ {0} /\ Word \in Nat /\ Word > a * b + 1
  BY Sizes, Counts DEF Types
<1>2. Cardinality(Files) = a /\ Cardinality(PageNumbers) = b /\ IsFiniteSet(Files) /\ IsFiniteSet(PageNumbers)
  <2> HIDE DEF a, b
  <2>1. Files = 0 .. a - 1 /\ PageNumbers = 0 .. b - 1
    BY DEF Files, PageNumbers, a, b
  <2>2. 0 \in Int /\ a - 1 \in Int /\ b - 1 \in Int
    BY <1>1
  <2>3. /\ IsFiniteSet(0 .. a - 1) /\ Cardinality(0 .. a - 1) = IF 0 > a - 1 THEN 0 ELSE a - 1 - 0 + 1
        /\ IsFiniteSet(0 .. b - 1) /\ Cardinality(0 .. b - 1) = IF 0 > b - 1 THEN 0 ELSE b - 1 - 0 + 1
    BY <2>2, FS_Interval
  <2>4. QED
    BY <1>1, <2>1, <2>3
<1>3. Cardinality(DiskPages) = a * b /\ IsFiniteSet(DiskPages)
  BY <1>2, FS_Product DEF DiskPages
<1> HIDE DEF a, b
<1>4. a * b \in Nat /\ b <= a * b
  BY <1>1
<1>5. ASSUME NEW ts \in SUBSET DiskPages PROVE Cardinality(ts) + 1 < Word
  <2>1. Cardinality(ts) <= a * b /\ Cardinality(ts) \in Nat
    BY <1>3, FS_Subset, FinitePages
  <2>2. QED
    BY <1>1, <1>4, <2>1
<1>6. ASSUME NEW ts, NEW f
      PROVE  Cardinality(InFile(ts, f)) \in Nat /\ Cardinality(InFile(ts, f)) + 1 < Word
  <2>1. InFile(ts, f) \in SUBSET PageNumbers
    BY DEF InFile
  <2>2. Cardinality(InFile(ts, f)) <= b /\ Cardinality(InFile(ts, f)) \in Nat
    BY <1>2, <2>1, FS_Subset, FinitePages
  <2>3. QED
    BY <1>1, <1>4, <2>1, <2>2
<1>7. QED
  BY <1>2, <1>3, <1>5, <1>6 DEF a, b

(* A free page is taken, or a page given back.                             *)
LEMMA TakeOne ==
  ASSUME Types, NEW ts \in SUBSET DiskPages, NEW t \in ts, NEW nf \in [Files -> Nat], NEW tot,
         CountersOf(ts, nf, tot)
  PROVE  CountersOf(ts \ {t}, [nf EXCEPT ![t[1]] = Dec(@)], Dec(tot))
<1> DEFINE n == Cardinality(ts \ {t})
           new == [nf EXCEPT ![t[1]] = Dec(@)]
<1>1. db \in Databases /\ t \in DiskPages /\ t[1] \in Files /\ t[2] \in PageNumbers /\ t = <<t[1], t[2]>>
  BY Pairs DEF Types
<1>2. n \in Nat /\ Cardinality(ts) = n + 1
  <2>1. IsFiniteSet(ts) /\ Cardinality(ts) \in Nat /\ n \in Nat
    BY FinitePages
  <2>2. n = Cardinality(ts) - 1
    BY <2>1, FS_RemoveElement
  <2>3. QED
    BY <2>1, <2>2
<1>3. n + 1 < Word
  <2>1. Cardinality(ts) + 1 < Word /\ Word \in Nat
    BY <1>1, CountBounds, Counts
  <2>2. QED
    BY <1>2, <2>1
<1>4. Dec(tot) = n
  BY <1>1, <1>2, <1>3, IncDec DEF CountersOf
<1>5. ASSUME NEW f \in Files PROVE Near(new[f], Cardinality(InFile(ts \ {t}, f)))
  <2>1. Near(nf[f], Cardinality(InFile(ts, f)))
    BY DEF CountersOf
  <2>2. CASE f = t[1]
    <3> DEFINE ps == InFile(ts, f)
               m == Cardinality(ps \ {t[2]})
    <3>1. InFile(ts \ {t}, f) = ps \ {t[2]} /\ t[2] \in ps
      BY <1>1, <2>2 DEF InFile
    <3>2. ps \in SUBSET PageNumbers /\ ps \ {t[2]} \in SUBSET PageNumbers
      BY DEF InFile
    <3>3. IsFiniteSet(ps) /\ Cardinality(ps) \in Nat /\ m \in Nat
      BY <3>2, FinitePages
    <3>4. m = Cardinality(ps) - 1
      <4> DEFINE x == t[2]
      <4> HIDE DEF ps, x
      <4>1. Cardinality(ps \ {x}) = Cardinality(ps) - 1
        BY <3>1, <3>3, FS_RemoveElement, ZenonT(60) DEF x
      <4>2. QED
        BY <4>1 DEF x
    <3>5. Cardinality(ps) + 1 < Word /\ Word \in Nat
      BY <1>1, CountBounds, Counts
    <3>6. new[f] = Dec(nf[f])
      BY <2>2
    <3> HIDE DEF m, ps
    <3>7. Cardinality(ps) = m + 1 /\ m + 1 < Word
      BY <3>3, <3>4, <3>5
    <3>8. Near(nf[f], m + 1)
      BY <2>1, <3>7 DEF ps
    <3>9. Near(Dec(nf[f]), m)
      BY <1>1, <3>3, <3>7, <3>8, NearSteps
    <3>10. QED
      BY <3>1, <3>6, <3>9 DEF m
  <2>3. CASE f # t[1]
    <3>1. InFile(ts \ {t}, f) = InFile(ts, f)
      BY <1>1, <2>3 DEF InFile
    <3>2. new[f] = nf[f]
      BY <2>3
    <3>3. QED
      BY <2>1, <3>1, <3>2
  <2>4. QED
    BY <2>2, <2>3
<1>6. QED
  BY <1>4, <1>5 DEF CountersOf

LEMMA GiveOne ==
  ASSUME Types, NEW ts \in SUBSET DiskPages, NEW t \in DiskPages \ ts, NEW nf \in [Files -> Nat], NEW tot,
         CountersOf(ts, nf, tot)
  PROVE  CountersOf(ts \cup {t}, [nf EXCEPT ![t[1]] = Inc(@)], Inc(tot))
<1> DEFINE n == Cardinality(ts)
           new == [nf EXCEPT ![t[1]] = Inc(@)]
<1>1. db \in Databases /\ t \in DiskPages /\ t[1] \in Files /\ t[2] \in PageNumbers /\ t = <<t[1], t[2]>>
  BY Pairs DEF Types
<1>2. n \in Nat /\ n + 1 < Word /\ Cardinality(ts \cup {t}) = n + 1
  BY CountBounds, FinitePages, FS_AddElement
<1>3. Inc(tot) = n + 1
  BY <1>1, <1>2, IncDec DEF CountersOf
<1>4. ASSUME NEW f \in Files PROVE Near(new[f], Cardinality(InFile(ts \cup {t}, f)))
  <2>1. Near(nf[f], Cardinality(InFile(ts, f)))
    BY DEF CountersOf
  <2>2. CASE f = t[1]
    <3> DEFINE ps == InFile(ts, f)
               m == Cardinality(ps)
    <3>1. InFile(ts \cup {t}, f) = ps \cup {t[2]} /\ t[2] \notin ps
      BY <1>1, <2>2 DEF InFile
    <3>2. ps \in SUBSET PageNumbers
      BY DEF InFile
    <3>3. IsFiniteSet(ps) /\ m \in Nat
      BY <3>2, FinitePages
    <3>4. Cardinality(ps \cup {t[2]}) = m + 1
      BY <3>1, <3>3, FS_AddElement
    <3>5. m + 1 < Word
      BY CountBounds
    <3>6. new[f] = Inc(nf[f])
      BY <2>2
    <3> HIDE DEF m
    <3>7. Near(Inc(nf[f]), m + 1)
      BY <1>1, <2>1, <3>3, <3>5, NearSteps DEF m
    <3>8. QED
      BY <3>1, <3>4, <3>6, <3>7
  <2>3. CASE f # t[1]
    <3>1. InFile(ts \cup {t}, f) = InFile(ts, f)
      BY <1>1, <2>3 DEF InFile
    <3>2. new[f] = nf[f]
      BY <2>3
    <3>3. QED
      BY <2>1, <3>1, <3>2
  <2>4. QED
    BY <2>2, <2>3
<1>5. QED
  BY <1>2, <1>3, <1>4 DEF CountersOf

LEMMA InitCounted ==
  ASSUME Init, Inv PROVE Counted
<1>1. Types /\ Up /\ phase = "running"
  BY DEF Inv, Init, Up
<1>2. FreePages = DiskPages
  BY Pairs DEF Init, FreePages
<1>3. \A f \in Files : InFile(DiskPages, f) = PageNumbers
  BY Pairs DEF InFile
<1>4. CountersOf(FreePages, nfree, total)
  BY <1>1, <1>2, <1>3, CountBounds DEF Init, CountersOf, Near
<1>5. QED
  BY <1>1, <1>4 DEF Counted, Searching

LEMMA WritePageCounted ==
  ASSUME Inv, Counted, LoadBalancing = FALSE, io_write_page, UNCHANGED db
  PROVE  Counted'
<1>1. PICK t \in Targets :
        /\ status' = [status EXCEPT ![t[1]][t[2]] = "ALLOCATED"]
        /\ nfree' = [nfree EXCEPT ![t[1]] = Dec(@)]
        /\ total' = Dec(total)
  BY DEF io_write_page
<1>2. phase = "running" /\ phase' = "running"
  BY DEF io_write_page
<1>3. Types /\ CountersOf(FreePages, nfree, total)
  BY <1>2 DEF Inv, Counted, Up
<1>4. t \in DiskPages /\ status[t[1]][t[2]] = "FREE"
  BY <1>3, TargetNext DEF TakesNext
<1>5. \A u \in DiskPages : status'[u[1]][u[2]] = IF u = t THEN "ALLOCATED" ELSE status[u[1]][u[2]]
  BY <1>1, <1>3, <1>4, SetStatus DEF Types, PageStates
<1>6. FreePages' = FreePages \ {t} /\ t \in FreePages
  BY <1>4, <1>5, DbSame DEF FreePages
<1>7. FreePages \in SUBSET DiskPages /\ nfree \in [Files -> Nat]
  BY <1>3 DEF FreePages, Types
<1>8. CountersOf(FreePages \ {t}, nfree', total')
  BY <1>1, <1>3, <1>6, <1>7, TakeOne
<1>9. CountersOf(FreePages, nfree, total)'
  BY <1>6, <1>8, DbSame DEF CountersOf, InFile, Near, Dec
<1>10. QED
  BY <1>2, <1>9 DEF Counted, Up, Searching

LEMMA FreePageCounted ==
  ASSUME Inv, Counted, NEW t \in DiskPages, io_free_disk_page(t), UNCHANGED db
  PROVE  Counted'
<1>1. /\ phase = "running" /\ phase' = "running" /\ status[t[1]][t[2]] = "ALLOCATED"
      /\ status' = [status EXCEPT ![t[1]][t[2]] = "FREE"]
      /\ nfree' = [nfree EXCEPT ![t[1]] = Inc(@)] /\ total' = Inc(total)
  BY DEF io_free_disk_page
<1>2. Types /\ CountersOf(FreePages, nfree, total)
  BY <1>1 DEF Inv, Counted, Up
<1>3. \A u \in DiskPages : status'[u[1]][u[2]] = IF u = t THEN "FREE" ELSE status[u[1]][u[2]]
  BY <1>1, <1>2, SetStatus DEF Types, PageStates
<1>4. FreePages' = FreePages \cup {t} /\ t \in DiskPages \ FreePages
  BY <1>1, <1>3, DbSame DEF FreePages
<1>5. FreePages \in SUBSET DiskPages /\ nfree \in [Files -> Nat]
  BY <1>2 DEF FreePages, Types
<1>6. CountersOf(FreePages \cup {t}, nfree', total')
  BY <1>1, <1>2, <1>4, <1>5, GiveOne
<1>7. CountersOf(FreePages, nfree, total)'
  BY <1>4, <1>6, DbSame DEF CountersOf, InFile, Near, Dec
<1>8. QED
  BY <1>1, <1>7 DEF Counted, Up, Searching

LEMMA WriteRootCounted ==
  ASSUME Inv, Counted, NEW refs, io_write_root(refs), UNCHANGED db
  PROVE  Counted'
<1>1. PICK t \in RootTargets :
        /\ status' = IF prevRoot = NoPage THEN [status EXCEPT ![t[1]][t[2]] = "ROOT"]
                     ELSE [[status EXCEPT ![t[1]][t[2]] = "ROOT"] EXCEPT ![prevRoot[1]][prevRoot[2]] = "FREE"]
        /\ nfree' = [f \in Files |-> Plus(IF f = t[1] THEN Dec(nfree[f]) ELSE nfree[f], f, prevRoot)]
  BY DEF io_write_root
<1>2. phase = "running" /\ phase' = "running" /\ total # 0 /\ total' = TotalAfterRoot
  BY DEF io_write_root
<1>3. Types /\ StatusMeans /\ CountersOf(FreePages, nfree, total)
  BY <1>2 DEF Inv, Counted, Up
<1>4. t \in DiskPages /\ status[t[1]][t[2]] = "FREE" /\ t \in FreePages
  BY <1>3, RootTargetNext DEF TakesNext, FreePages
<1> DEFINE taken == [status EXCEPT ![t[1]][t[2]] = "ROOT"]
           nf == [nfree EXCEPT ![t[1]] = Dec(@)]
           fs == FreePages \ {t}
           old == prevRoot
<1>5. /\ taken \in [Files -> [PageNumbers -> PageStates]]
      /\ \A u \in DiskPages : taken[u[1]][u[2]] = IF u = t THEN "ROOT" ELSE status[u[1]][u[2]]
  BY <1>3, <1>4, SetStatus DEF Types, PageStates
<1>6. FreePages \in SUBSET DiskPages /\ nfree \in [Files -> Nat] /\ t[1] \in Files
  BY <1>3, <1>4, Pairs DEF FreePages, Types
<1>7. CountersOf(fs, nf, Dec(total))
  BY <1>3, <1>4, <1>6, TakeOne
<1>8. fs \in SUBSET DiskPages /\ nf \in [Files -> Nat]
  BY <1>3, <1>6, Counts DEF Types
<1>9. \A u \in DiskPages : u \in fs <=> taken[u[1]][u[2]] = "FREE"
  BY <1>5 DEF FreePages
<1>10. \A f \in Files : nf[f] = IF f = t[1] THEN Dec(nfree[f]) ELSE nfree[f]
  BY <1>6
<1> HIDE DEF taken, nf, fs, old
<1>11. /\ status' = IF old = NoPage THEN taken ELSE [taken EXCEPT ![old[1]][old[2]] = "FREE"]
       /\ nfree' = [f \in Files |-> Plus(nf[f], f, old)]
  BY <1>1, <1>10 DEF taken, old
<1>12. CASE old = NoPage
  <2>1. FreePages' = fs
    BY <1>8, <1>9, <1>11, <1>12, DbSame DEF FreePages
  <2>2. total' = Dec(total)
    BY <1>2, <1>12 DEF TotalAfterRoot, old
  <2>3. nfree' = nf
    BY <1>8, <1>11, <1>12 DEF Plus
  <2>4. CountersOf(FreePages, nfree, total)'
    BY <1>7, <2>1, <2>2, <2>3, DbSame DEF CountersOf, InFile, Near, Dec
  <2>5. QED
    BY <1>2, <2>4 DEF Counted, Up, Searching
<1>13. CASE old # NoPage
  <2>1. old \in DiskPages /\ old[1] \in Files /\ status[old[1]][old[2]] = "ROOT" /\ old # t
    <3>1. old \in DiskPages /\ old = newest
      BY <1>3, <1>13 DEF Types, StatusMeans, old
    <3>2. QED
      BY <1>3, <1>4, <3>1, Pairs DEF StatusMeans
  <2>2. \A u \in DiskPages : status'[u[1]][u[2]] = IF u = old THEN "FREE" ELSE taken[u[1]][u[2]]
    BY <1>5, <1>11, <1>13, <2>1, SetStatus DEF PageStates
  <2>3. FreePages' = fs \cup {old} /\ old \in DiskPages \ fs
    <3>1. taken[old[1]][old[2]] = "ROOT"
      BY <1>5, <2>1
    <3>2. old \notin fs
      BY <1>9, <2>1, <3>1
    <3>3. FreePages' = {u \in DiskPages : status'[u[1]][u[2]] = "FREE"}
      BY DbSame DEF FreePages
    <3>4. QED
      BY <1>8, <1>9, <2>1, <2>2, <3>2, <3>3
  <2>4. nfree' = [nf EXCEPT ![old[1]] = Inc(@)]
    BY <1>8, <1>11, <1>13, <2>1 DEF Plus
  <2>5. total' = Inc(Dec(total))
    <3>1. total \in Nat /\ total # 0 /\ total + 1 < Word /\ Word \in Nat /\ db \in Databases
      BY <1>2, <1>3, <1>6, CountBounds, Counts, FinitePages DEF CountersOf, Types
    <3>2. PICK k \in Nat : total = k + 1
      <4>1. total - 1 \in Nat /\ total = (total - 1) + 1
        BY <3>1
      <4>2. QED
        BY <4>1
    <3>3. k + 1 < Word
      BY <3>1, <3>2
    <3>4. Inc(Dec(total)) = total
      BY <3>1, <3>2, <3>3, IncDec
    <3>5. QED
      BY <1>2, <1>13, <3>4 DEF TotalAfterRoot, old
  <2>6. CountersOf(fs \cup {old}, nfree', total')
    BY <1>3, <1>7, <1>8, <2>3, <2>4, <2>5, GiveOne
  <2>7. CountersOf(FreePages, nfree, total)'
    BY <2>3, <2>6, DbSame DEF CountersOf, InFile, Near, Dec
  <2>8. QED
    BY <1>2, <2>7 DEF Counted, Up, Searching
<1>14. QED
  BY <1>12, <1>13

(* io_write_page gives up only if no file has more than two free pages.    *)
LEMMA AssertCounted ==
  ASSUME Inv, Counted, LoadBalancing = FALSE, phase = "running", Targets = {}, NEW f \in Files
  PROVE  Cardinality(InFile(FreePages, f)) <= 2
<1> DEFINE fs == {g \in WithRoom : FreeIn(g) # {}}
           n == Cardinality(InFile(FreePages, f))
<1>1. fs = {}
  BY DEF Targets
<1>2. Types /\ db \in Databases /\ CountersOf(FreePages, nfree, total)
  BY DEF Inv, Types, Counted, Up
<1>3. nfree[f] \in Nat /\ (nfree[f] > 1 => FreeIn(f) = {})
  BY <1>1, <1>2 DEF WithRoom, Types
<1>4. n \in Nat /\ n + 1 < Word /\ Word \in Nat
  BY <1>2, CountBounds, Counts
<1>5. FreeIn(f) = {} => n = 0
  BY FreeInFile, FS_EmptySet
<1>6. Near(nfree[f], n)
  BY <1>2 DEF CountersOf
<1> HIDE DEF n
<1>7. SUFFICES ASSUME n > 2 PROVE FALSE
  BY <1>4 DEF n
<1>8. PICK k \in Nat : n = k + 1
  <2>1. n - 1 \in Nat /\ n = (n - 1) + 1
    BY <1>4, <1>7
  <2>2. QED
    BY <2>1
<1>9. k + 1 < Word
  BY <1>4, <1>8
<1>10. Dec(n) = k
  BY <1>2, <1>8, <1>9, IncDec
<1>11. nfree[f] = n \/ nfree[f] = k
  BY <1>6, <1>10 DEF Near
<1>12. nfree[f] > 1 /\ n # 0
  BY <1>4, <1>7, <1>8, <1>11
<1>13. QED
  BY <1>3, <1>5, <1>12

(* The search leaves the counters alone until it is over.                  *)
LEMMA SearchCounters ==
  ASSUME io_read_root
  PROVE  /\ Searching /\ UNCHANGED <<total, newest>>
         /\ \/ Searching' /\ UNCHANGED nfree
            \/ phase' = "declare" /\ nfree' = [nfree EXCEPT ![prevRoot'[1]] = Dec(@)]
<1> DEFINE Effect == /\ UNCHANGED <<total, newest>>
                     /\ \/ Searching' /\ UNCHANGED nfree
                        \/ phase' = "declare" /\ nfree' = [nfree EXCEPT ![prevRoot'[1]] = Dec(@)]
<1>1. Searching
  BY DEF io_read_root, SearchLeftmost, HalveRange, ProbeMid, Searching
<1>2. ASSUME NEW r, NEW ts, NEW cur, NextFile(r, ts, cur) PROVE Effect
  BY <1>2 DEF NextFile, ghostVars, Searching
<1>3. ASSUME NEW next \in {"leftmost", "range", "mid"}, NEW s, searching(next, s) PROVE Effect
  BY <1>3 DEF searching, spaceVars, ghostVars, Searching
<1> HIDE DEF Effect
<1>4. FoundInFile => Effect
  BY <1>2 DEF FoundInFile
<1>5. SearchLeftmost => Effect
  BY <1>2, <1>3 DEF SearchLeftmost
<1>6. HalveRange => Effect
  BY <1>3, <1>4 DEF HalveRange
<1>7. ScanOn => Effect
  BY <1>3, <1>4 DEF ScanOn
<1>8. NarrowToRoot => Effect
  BY <1>3 DEF NarrowToRoot
<1>9. NarrowToUnused => Effect
  BY <1>3 DEF NarrowToUnused
<1>10. ProbeMid => Effect
  BY <1>4, <1>7, <1>8, <1>9 DEF ProbeMid
<1>11. Effect
  BY <1>5, <1>6, <1>10 DEF io_read_root
<1>12. QED
  BY <1>1, <1>11 DEF Effect

LEMMA ReadRootCounted ==
  ASSUME Inv, Inv', Counted, io_read_root, UNCHANGED db
  PROVE  Counted'
<1>1. Searching /\ UNCHANGED <<total, newest>>
  BY SearchCounters
<1>2. ~Up
  BY <1>1 DEF Searching, Up
<1>3. total = 0 /\ \A f \in Files : nfree[f] = 0
  BY <1>1, <1>2 DEF Counted
<1>4. CASE Searching' /\ UNCHANGED nfree
  BY <1>1, <1>3, <1>4, DbSame DEF Counted, Searching, Up
<1>5. CASE phase' = "declare" /\ nfree' = [nfree EXCEPT ![prevRoot'[1]] = Dec(@)]
  <2>1. prevRoot' = newest
    BY <1>1, <1>5 DEF Inv, Up, Recovering
  <2>2. nfree \in [Files -> Nat]
    BY DEF Inv, Types
  <2>3. \A f \in Files : nfree'[f] = IF f = newest[1] THEN Dec(0) ELSE 0
    BY <1>3, <1>5, <2>1, <2>2
  <2>4. \A f \in Files : nfree'[f] = (IF f = newest[1] THEN Dec(0) ELSE 0)'
    BY <1>1, <2>3 DEF Dec
  <2>5. QED
    BY <1>1, <1>3, <1>5, <2>4, DbSame DEF Counted, Searching, Up
<1>6. QED
  BY <1>4, <1>5, SearchCounters

LEMMA DeclareCounted ==
  ASSUME Inv, Counted, io_declare_unallocated_pages_free, UNCHANGED db
  PROVE  Counted'
<1> DEFINE unknown(f) == {p \in PageNumbers : status[f][p] = "UNKNOWN" /\ <<f, p>> \notin committed}
           us == {t \in DiskPages : t[2] \in unknown(t[1])}
<1>1. /\ phase = "declare" /\ phase' = "running"
      /\ status' = [f \in Files |-> [p \in PageNumbers |->
           IF <<f, p>> \in committed THEN "ALLOCATED"
           ELSE IF p \in unknown(f) THEN "FREE" ELSE status[f][p]]]
      /\ nfree' = [f \in Files |-> (nfree[f] + Cardinality(unknown(f))) % Word]
      /\ total' = (total + Cardinality(us)) % Word
  BY DEF io_declare_unallocated_pages_free
<1>2. Types /\ ~Up /\ Recovering
  BY <1>1 DEF Inv, Up
<1>3. total = 0 /\ \A f \in Files : nfree[f] = IF f = newest[1] THEN Dec(0) ELSE 0
  BY <1>1, <1>2 DEF Counted
<1>4. \A t \in DiskPages : status[t[1]][t[2]] # "FREE"
  BY <1>1, <1>2 DEF Recovering
<1>5. FreePages' = us
  <2>1. ASSUME NEW t \in DiskPages PROVE status'[t[1]][t[2]] = "FREE" <=> t[2] \in unknown(t[1])
    <3>1. t[1] \in Files /\ t[2] \in PageNumbers /\ t = <<t[1], t[2]>>
      BY Pairs
    <3>2. status'[t[1]][t[2]] = IF t \in committed THEN "ALLOCATED"
                                ELSE IF t[2] \in unknown(t[1]) THEN "FREE" ELSE status[t[1]][t[2]]
      BY <1>1, <3>1
    <3>3. t[2] \in unknown(t[1]) => t \notin committed
      BY <3>1
    <3>4. QED
      BY <1>4, <3>2, <3>3
  <2>2. QED
    BY <2>1, DbSame DEF FreePages
<1>6. \A f \in Files : InFile(us, f) = unknown(f)
  <2> SUFFICES ASSUME NEW f \in Files PROVE InFile(us, f) = unknown(f)
    OBVIOUS
  <2>1. \A p \in PageNumbers : <<f, p>> \in us <=> p \in unknown(f)
    BY Pairs
  <2>2. QED
    BY <2>1 DEF InFile
<1>7. us \in SUBSET DiskPages
  OBVIOUS
<1> HIDE DEF unknown, us
<1>8. Word \in Nat \ {0} /\ Cardinality(us) \in Nat /\ Cardinality(us) + 1 < Word
  BY <1>2, <1>7, CountBounds, Counts, FinitePages DEF Types
<1>9. total' = Cardinality(us)
  <2> DEFINE n == Cardinality(us)
  <2> HIDE DEF n
  <2>1. n \in Nat /\ n < Word /\ 0 + n = n
    BY <1>8 DEF n
  <2>2. n % Word = n
    BY <1>8, <2>1, ModSmall
  <2>3. QED
    BY <1>1, <1>3, <2>1, <2>2 DEF n
<1>10. ASSUME NEW f \in Files PROVE Near(nfree'[f], Cardinality(InFile(us, f)))
  <2> DEFINE n == Cardinality(InFile(us, f))
  <2>1. n \in Nat /\ n + 1 < Word
    BY <1>2, CountBounds
  <2>2. nfree'[f] = (nfree[f] + n) % Word
    BY <1>1, <1>6
  <2> HIDE DEF n
  <2>3. CASE f # newest[1]
    <3>1. 0 + n = n /\ n < Word
      BY <1>8, <2>1
    <3>2. n % Word = n
      BY <1>8, <2>1, <3>1, ModSmall
    <3>3. nfree'[f] = n
      BY <1>3, <2>2, <2>3, <3>1, <3>2
    <3>4. QED
      BY <3>3 DEF Near, n
  <2>4. CASE f = newest[1]
    <3>1. nfree[f] = Word - 1
      BY <1>2, <1>3, <2>4, IncDec DEF Types
    <3>2. (Word - 1) + n = n + Word - 1
      BY <1>8, <2>1
    <3>3. nfree'[f] = Dec(n)
      BY <2>2, <3>1, <3>2 DEF Dec
    <3>4. QED
      BY <3>3 DEF Near, n
  <2>5. QED
    BY <2>3, <2>4
<1>11. CountersOf(us, nfree', total')
  BY <1>9, <1>10 DEF CountersOf
<1>12. CountersOf(FreePages, nfree, total)'
  BY <1>5, <1>11, DbSame DEF CountersOf, InFile, Near, Dec
<1>13. QED
  BY <1>1, <1>12 DEF Counted, Up, Searching

LEMMA StepCounted ==
  ASSUME LoadBalancing = FALSE, Inv, Inv', Counted, [Next]_vars
  PROVE  Counted'
<1>1. ASSUME UNCHANGED <<db, status, nfree, total>> PROVE
        /\ CountersOf(FreePages, nfree, total)' <=> CountersOf(FreePages, nfree, total)
        /\ \A f : InFile(FreePages, f)' = InFile(FreePages, f)
  <2>1. FreePages' = FreePages
    BY <1>1, DbSame DEF FreePages
  <2>2. \A f : InFile(FreePages, f)' = InFile(FreePages, f)
    BY <1>1, <2>1, DbSame DEF InFile
  <2>3. QED
    BY <1>1, <2>1, <2>2, DbSame DEF CountersOf, Near, Dec
<1>2. CASE UNCHANGED vars
  <2>1. UNCHANGED <<db, phase, status, nfree, total, newest>>
    BY <1>2 DEF vars, spaceVars, ghostVars
  <2>2. QED
    BY <1>1, <2>1, DbSame DEF Counted, Up, Searching, Dec
<1>3. CASE Client /\ UNCHANGED db
  <2>1. CASE io_write_page
    BY <1>3, <2>1, WritePageCounted
  <2>2. CASE WriteFull \/ WriteAsserts \/ RootFull
    <3>1. phase = "running" /\ UNCHANGED <<status, nfree, total>>
          /\ (phase' = "full" \/ (phase' = "assert" /\ Targets = {}))
      BY <2>2 DEF WriteFull, WriteAsserts, RootFull, Stop, spaceVars
    <3>2. CountersOf(FreePages, nfree, total)'
      BY <1>1, <1>3, <3>1 DEF Counted, Up
    <3>3. Targets = {} => \A f \in Files : Cardinality(InFile(FreePages, f)) <= 2
      BY <3>1, AssertCounted
    <3>4. phase' = "assert" => \A f \in Files' : Cardinality(InFile(FreePages, f))' <= 2
      BY <1>1, <1>3, <3>1, <3>3, DbSame
    <3>5. QED
      BY <3>1, <3>2, <3>4 DEF Counted, Up, Searching
  <2>3. CASE \E refs \in SUBSET Allocated : io_write_root(refs)
    BY <1>3, <2>3, WriteRootCounted
  <2>4. CASE \E t \in DiskPages : io_free_disk_page(t)
    BY <1>3, <2>4, FreePageCounted
  <2>5. QED
    BY <1>3, <2>1, <2>2, <2>3, <2>4 DEF Client
<1>4. CASE Restart /\ UNCHANGED db
  <2>1. phase' = "leftmost" /\ total' = 0 /\ nfree' = [f \in Files |-> 0]
    BY <1>4 DEF Restart
  <2>2. QED
    BY <1>4, <2>1, DbSame DEF Counted, Up, Searching
<1>5. CASE Recovery /\ UNCHANGED db
  BY <1>5, ReadRootCounted, DeclareCounted DEF Recovery
<1>6. QED
  BY <1>2, <1>3, <1>4, <1>5 DEF Next

(* The counters of free pages agree with the states of the pages, whatever *)
(* is written, freed and recovered; the counter of a file is at most one   *)
(* too low, and an assertion of io_write_page fails only when every file   *)
(* has at most two free pages.                                             *)
THEOREM FreePagesSafe ==
  ASSUME LoadBalancing = FALSE PROVE Spec => []FreePagesCounted
<1>1. Init /\ Inv => Counted
  BY InitCounted
<1>2. Inv /\ Inv' /\ Counted /\ [Next]_vars => Counted'
  BY StepCounted
<1>3. ASSUME Inv, Counted PROVE FreePagesCounted
  <2> SUFFICES ASSUME phase \in {"running", "assert"}
               PROVE  /\ total = Cardinality(FreePages)
                      /\ {t \in DiskPages : status[t[1]][t[2]] = "ROOT"} = {newest} \ {NoPage}
                      /\ \A f \in Files : LET n == Cardinality(FreeIn(f)) IN
                           /\ nfree[f] \in {n, Dec(n)}
                           /\ n > 2 => phase # "assert"
    BY DEF FreePagesCounted, FreePages
  <2>1. Types /\ StatusMeans /\ CountersOf(FreePages, nfree, total)
        /\ (phase = "assert" => \A f \in Files : Cardinality(InFile(FreePages, f)) <= 2)
    BY <1>3 DEF Inv, Counted, Up
  <2>2. {t \in DiskPages : status[t[1]][t[2]] = "ROOT"} = {newest} \ {NoPage}
    <3>1. NoPage \notin DiskPages /\ newest \in DiskPages \cup {NoPage}
      BY <2>1, Sizes DEF Types
    <3>2. \A t \in DiskPages : status[t[1]][t[2]] = "ROOT" <=> t = newest
      BY <2>1 DEF StatusMeans
    <3>3. QED
      BY <3>1, <3>2
  <2>3. ASSUME NEW f \in Files
        PROVE  LET n == Cardinality(FreeIn(f)) IN nfree[f] \in {n, Dec(n)} /\ (n > 2 => phase # "assert")
    <3> DEFINE n == Cardinality(FreeIn(f))
    <3>1. n = Cardinality(InFile(FreePages, f)) /\ n \in Nat
      BY <2>1, FreeInFile, CountBounds
    <3> HIDE DEF n
    <3>2. Near(nfree[f], n) /\ (phase = "assert" => n <= 2)
      BY <2>1, <3>1 DEF CountersOf
    <3>3. QED
      BY <3>1, <3>2 DEF Near, n
  <2>4. QED
    BY <2>1, <2>2, <2>3 DEF CountersOf
<1>4. QED
  BY <1>1, <1>2, <1>3, InvHolds, PTL DEF Spec

(* Without load balancing io_write_page only ever takes free pages, as     *)
(* io.h says; with it, TLC finds a page that was not free.                 *)
THEOREM OnlyFreeSafe ==
  ASSUME LoadBalancing = FALSE PROVE Spec => OnlyFreePagesTaken
<1>1. ASSUME Inv, [Next]_vars, NEW t \in pending' \ pending
      PROVE  status[t[1]][t[2]] = "FREE"
  <2>1. Types
    BY <1>1 DEF Inv
  <2>2. CASE io_write_page
    <3>1. t \in Targets
      BY <1>1, <2>2 DEF io_write_page
    <3>2. QED
      BY <2>1, <3>1, TargetNext DEF TakesNext
  <2>3. CASE ~io_write_page
    <3>1. pending' = pending \/ pending' = {}
      <4>1. ASSUME NEW why, Stop(why) PROVE pending' = pending
        BY <4>1 DEF Stop, diskVars
      <4>2. ASSUME NEW refs, io_write_root(refs) PROVE pending' = {}
        BY <4>2 DEF io_write_root
      <4>3. ASSUME NEW u, io_free_disk_page(u) PROVE pending' = pending
        BY <4>3 DEF io_free_disk_page, diskVars
      <4>4. Restart => pending' = {}
        BY DEF Restart
      <4>5. io_declare_unallocated_pages_free => pending' = pending
        BY DEF io_declare_unallocated_pages_free, diskVars
      <4>6. ASSUME NEW r, NEW ts, NEW cur, NextFile(r, ts, cur) PROVE pending' = pending
        BY <4>6 DEF NextFile, diskVars
      <4>7. ASSUME NEW next, NEW s, searching(next, s) PROVE pending' = pending
        BY <4>7 DEF searching, diskVars
      <4>8. FoundInFile => pending' = pending
        BY <4>6 DEF FoundInFile
      <4>9. SearchLeftmost => pending' = pending
        BY <4>6, <4>7 DEF SearchLeftmost
      <4>10. HalveRange => pending' = pending
        BY <4>7, <4>8 DEF HalveRange
      <4>11. ScanOn => pending' = pending
        BY <4>7, <4>8 DEF ScanOn
      <4>12. NarrowToRoot \/ NarrowToUnused => pending' = pending
        BY <4>7 DEF NarrowToRoot, NarrowToUnused
      <4>13. ProbeMid => pending' = pending
        BY <4>8, <4>11, <4>12 DEF ProbeMid
      <4>14. Recovery => pending' = pending
        BY <4>5, <4>9, <4>10, <4>13 DEF Recovery, io_read_root
      <4>15. Client => pending' = pending \/ pending' = {}
        BY <2>3, <4>1, <4>2, <4>3 DEF Client, WriteFull, WriteAsserts, RootFull
      <4>16. UNCHANGED vars => pending' = pending
        BY DEF vars, diskVars
      <4>17. QED
        BY <1>1, <4>4, <4>14, <4>15, <4>16 DEF Next
    <3>2. QED
      BY <1>1, <3>1
  <2>4. QED
    BY <2>2, <2>3
<1>2. Inv /\ [Next]_vars => [\A t \in pending' \ pending : status[t[1]][t[2]] = "FREE"]_vars
  BY <1>1
<1>3. QED
  BY <1>2, InvHolds, PTL DEF Spec, OnlyFreePagesTaken

================================================================================
