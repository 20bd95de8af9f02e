------------------------------- MODULE ShadesLog -------------------------------
(***************************************************************************)
(* What the pinfo lists of the storage manager describe while the program  *)
(* runs: a history of the generations made, whatever the sizes of memory,  *)
(* disk and generations.                                                   *)
(*                                                                         *)
(* No variable holds this history (a log): the invariant of recovery says  *)
(* that the state is one that some log explains.                           *)
(***************************************************************************)
EXTENDS ShadesProofs

--------------------------------------------------------------------------------
(* A log h.  Its events 1 .. h.m are the generations described by pinfos;  *)
(* h.ev[j] is a pinfo without its link, h.ptr[j] the address of the cell.  *)
(* An event that is committed but not described yet is h.ev[h.m + 1].      *)
(* Events h.a + 1 .. h.b are the base list, h.b + 1 .. h.c the list after  *)
(* it, if there are three, and h.c + 1 .. h.m the newest one; a log with   *)
(* one list has b = c = m.  Event h.coll[j] is the one made by the step    *)
(* that collected event j, or 0; a step started at position h.pos[j].      *)
(* h.ord[j] and h.pt[j] are the live generations and the collector's       *)
(* position after event j, and h.up[j] are the new generations since.      *)
Event == [gn : Gens, nfrom : Nat, page : Seq(Pages), diskPage : Seq(DiskPages)]
Index == Nat
Log ==
  [m : Nat, a : Nat, b : Nat, c : Nat, ev : [Index -> Event], ptr : [Index -> Ptr],
   coll : [Index -> Nat], pos : [Index -> Nat], ord : [Index -> Seq(Gens)],
   up : [Index -> Seq(Gens)], pt : [Index -> Gens \cup {NoGen}]]

New(h, j) == h.ev[j].nfrom = 0
Start(h, j) == IF j <= h.b THEN h.a ELSE IF j <= h.c THEN h.b ELSE h.c
First(h, j) == j = h.b + 1 \/ j = h.c + 1
Gone(h, e, j) == h.coll[e] # 0 /\ h.coll[e] <= j

(* The generation of event e after event j.                                *)
StatusAt(h, e, j) ==
  IF Gone(h, e, j)
  THEN IF Gone(h, h.coll[e], j) THEN "COLLECTED_TWICE" ELSE "COLLECTED_ONCE"
  ELSE IF e <= Start(h, j) THEN "TO_BE_COLLECTED" ELSE "NORMAL"
FromAt(h, e, j) ==
  IF Gone(h, e, j) THEN {}
  ELSE {h.ev[x].gn : x \in {z \in h.a + 1 .. h.m : h.coll[z] = e}}
InfoAt(h, e, j) ==
  [status |-> StatusAt(h, e, j),
   page |-> IF Gone(h, e, j) THEN <<>> ELSE h.ev[e].page,
   diskPage |-> h.ev[e].diskPage,
   from |-> FromAt(h, e, j)]

(* One list, or the current list and one or two before it.                 *)
LogShape(h) ==
  \/ h.a = 0 /\ h.b = h.m /\ h.c = h.m
  \/ h.a < h.b /\ h.b <= h.c /\ h.c < h.m

(* The events up to n: they share no numbers and no disk pages, and no     *)
(* memory page with what was in memory when they were made.                *)
LogEvents(h, n) ==
  /\ \A j \in h.a + 1 .. n : Len(h.ev[j].page) = Len(h.ev[j].diskPage) /\ Distinct(h.ev[j].page)
  /\ \A i, j \in h.a + 1 .. n : h.ev[i].gn = h.ev[j].gn => i = j
  /\ \A i, j \in h.a + 1 .. n :
       i # j => ToSet(h.ev[i].diskPage) \cap ToSet(h.ev[j].diskPage) = {}
  /\ \A i, j \in h.a + 1 .. n :
       i < j /\ (h.coll[i] = 0 \/ h.coll[i] >= j)
         => ToSet(h.ev[i].page) \cap ToSet(h.ev[j].page) = {}
  /\ \A j \in h.a + 1 .. n : h.c = h.m \/ First(h, j) => New(h, j)

(* What a step collects was announced when its list was begun, and a list  *)
(* is begun when nothing announced is left.                                *)
LogColl(h) ==
  /\ \A e \in Index : h.a < e /\ h.coll[e] # 0 =>
       h.coll[e] <= h.m /\ ~New(h, h.coll[e]) /\ e <= Start(h, h.coll[e])
  /\ h.b < h.c => \A e \in h.a + 1 .. h.b : Gone(h, e, h.c)

(* The live generations after event j; those of j's list are the new ones, *)
(* youngest first, and then the collected ones, oldest first.              *)
Before(h, x, y) == IF New(h, x) THEN New(h, y) => y < x ELSE ~New(h, y) /\ x < y
OrdAt(h, j) ==
  /\ Distinct(h.ord[j])
  /\ \A q \in 1 .. Len(h.ord[j]) :
       \E e \in h.a + 1 .. j : h.ord[j][q] = h.ev[e].gn /\ ~Gone(h, e, j)
  /\ \A e \in h.a + 1 .. j :
       ~Gone(h, e, j) => \E q \in 1 .. Len(h.ord[j]) : h.ord[j][q] = h.ev[e].gn
  /\ \A q, s \in 1 .. Len(h.ord[j]), x, y \in Start(h, j) + 1 .. j :
       q < s /\ h.ord[j][q] = h.ev[x].gn /\ h.ord[j][s] = h.ev[y].gn => Before(h, x, y)
LogOrd(h) == \A j \in h.b .. h.m : OrdAt(h, j)

(* Event j.                                                                *)
NewStep(h, j) ==
  /\ h.ord[j] = <<h.ev[j].gn>> \o h.ord[j - 1]
  /\ h.pt[j] = h.pt[j - 1]
  /\ First(h, j) => h.ord[j - 1] # <<>>
CollectStep(h, j) ==
  LET o == h.ord[j - 1]
      i == h.pos[j]
      k == h.ev[j].nfrom IN
  /\ i \in 1 .. Len(o) /\ k \in 1 .. Len(o) - i + 1
  /\ \A q \in 1 .. Len(o), e \in h.a + 1 .. j - 1 :
       o[q] = h.ev[e].gn => (i <= q <=> e <= Start(h, j))
  /\ \A e \in h.a + 1 .. j - 1 :
       h.coll[e] = j <=> \E q \in i .. i + k - 1 : o[q] = h.ev[e].gn
  /\ h.ord[j] = Splice(o, i, k, h.ev[j].gn)
  /\ h.pt[j - 1] = NoGen \/ (1 < i /\ h.pt[j - 1] = o[i - 1])
  /\ h.pt[j] = IF i + k <= Len(o) THEN h.ev[j].gn ELSE NoGen
LogSteps(h) ==
  \A j \in h.b + 1 .. h.m : IF New(h, j) THEN NewStep(h, j) ELSE CollectStep(h, j)

LogUp(h) ==
  /\ h.up[h.m] = <<>>
  /\ \A j \in h.b + 1 .. h.m :
       h.up[j - 1] = IF New(h, j) THEN Append(h.up[j], h.ev[j].gn) ELSE h.up[j]

(* Nothing had been started to be collected when a list was begun.         *)
LogPt(h) == h.pt[h.b] = NoGen /\ h.pt[h.c] = NoGen

LogOK(h) ==
  h \in Log /\ LogShape(h) /\ LogColl(h) /\ LogOrd(h) /\ LogSteps(h) /\ LogUp(h) /\ LogPt(h)

--------------------------------------------------------------------------------
(* The log and the state.                                                  *)

(* The pinfo of event j, and the list fields of the root block.            *)
Cell(h, j) ==
  [gn |-> h.ev[j].gn, nfrom |-> h.ev[j].nfrom, page |-> h.ev[j].page,
   diskPage |-> h.ev[j].diskPage,
   prev |-> IF j = h.a + 1 \/ First(h, j) THEN NullPtr ELSE h.ptr[j - 1]]
ListsOf(h) ==
  [list |-> IF h.m = 0 THEN NullPtr ELSE h.ptr[h.m],
   prev |-> IF h.c = h.m THEN NullPtr ELSE h.ptr[h.c],
   prevPrev |-> IF h.b = h.c THEN NullPtr ELSE h.ptr[h.b]]

(* The cell of event j is in a page of the next new generation, event k.   *)
NextNew(h, j, k) ==
  /\ k \in j + 1 .. h.m + 1 /\ New(h, k)
  /\ \A x \in j + 1 .. k - 1 : ~New(h, x)
CellOnDisk(h, j, pages) ==
  \E k \in j + 1 .. h.m + 1 :
    /\ NextNew(h, j, k)
    /\ \E i \in 1 .. Len(h.ev[k].page), x \in pages :
         /\ h.ev[k].page[i] = h.ptr[j].page /\ h.ev[k].diskPage[i] = x[1]
         /\ h.ptr[j].slot \in DOMAIN x[2].pinfos
         /\ x[2].pinfos[h.ptr[j].slot] = Cell(h, j)

(* A table with the generations of a log: after event j, and as the later  *)
(* ones up to n were made.                                                 *)
TableAt(t, h, j, n) ==
  /\ \A e \in h.a + 1 .. j : t[h.ev[e].gn] = InfoAt(h, e, j)
  /\ \A e \in j + 1 .. n : t[h.ev[e].gn] = InfoOf(h.ev[e])
  /\ \A g \in Gens : (\A e \in h.a + 1 .. n : h.ev[e].gn # g) => t[g] = NoInfo

(* While the program runs.  Last commit's generation is pending until it   *)
(* is described.                                                           *)
Pending == phase \in {"collected", "committed"}
UnmarkedGen == [g \in Gens |-> [gen[g] EXCEPT !.status = Unmarked(@)]]
DiskNow == {<<d, disk[d]>> : d \in DiskPages}
MemOK ==
  \A g \in Gens : gen[g].status \in Live =>
    /\ Len(gen[g].page) = Len(gen[g].diskPage)
    /\ \A i \in 1 .. Len(gen[g].page) : mem[gen[g].page[i]] = disk[gen[g].diskPage[i]]

PendingLog(h) ==
  /\ LogEvents(h, h.m + 1) /\ New(h, h.m + 1)
  /\ TableAt(UnmarkedGen, h, h.m, h.m + 1)
  /\ order = <<h.ev[h.m + 1].gn>> \o h.ord[h.m]
  /\ gen[order[1]] = InfoOf(h.ev[h.m + 1])
  /\ \A j \in h.a + 1 .. h.m : CellOnDisk(h, j, DiskNow)
DescribedLog(h) ==
  /\ LogEvents(h, h.m)
  /\ TableAt(UnmarkedGen, h, h.m, h.m)
  /\ order = h.ord[h.m]
  /\ h.m = 0 => pinfos = <<>> /\ phase = "mutator"
  /\ h.m > 0 => \E n \in h.a + 1 .. h.m :
       /\ New(h, n) /\ \A j \in n + 1 .. h.m : ~New(h, j)
       /\ \A j \in h.a + 1 .. n - 1 : CellOnDisk(h, j, DiskNow) /\ h.ptr[j].page # FirstGeneration
       /\ pinfos = [j \in 1 .. h.m - n + 1 |-> Cell(h, n + j - 1)]
       /\ \A j \in n .. h.m : h.ptr[j] = [page |-> FirstGeneration, slot |-> j - n + 1]
RunLog(h) ==
  /\ LogOK(h)
  /\ IF Pending THEN PendingLog(h) ELSE DescribedLog(h)
  /\ wasStarted => isCollecting /\ \A e \in h.a + 1 .. h.m :
       ~Gone(h, e, h.m) => gen[h.ev[e].gn].status = "TO_BE_COLLECTED"
  /\ lists = ListsOf(h)
  /\ prevTo = h.pt[h.m]

(* The log of the last commit, from which recovery has to rebuild snap.    *)
SnapLog(h) ==
  /\ LogOK(h) /\ LogEvents(h, h.m + 1)
  /\ root.lists = ListsOf(h)
  /\ h.ev[h.m + 1] = [gn |-> root.gn, nfrom |-> 0, page |-> root.page, diskPage |-> root.diskPage]
  /\ TableAt(snap.gen, h, h.m, h.m + 1)
  /\ snap.order = <<root.gn>> \o h.ord[h.m]
  /\ snap.prevTo = h.pt[h.m]
  /\ \A j \in h.a + 1 .. h.m + 1 : \A i \in 1 .. Len(h.ev[j].diskPage) :
       \E x \in needs : x[1] = h.ev[j].diskPage[i]
  /\ \A j \in h.a + 1 .. h.m : CellOnDisk(h, j, needs)
  /\ \A j \in h.a + 1 .. h.m : h.ptr[j].page \in Pages
  /\ DOMAIN snap.mem = {p \in Pages : snap.owner[p] # NoGen}
  /\ \A j \in h.a + 1 .. h.m + 1 : ~Gone(h, j, h.m) =>
       \A i \in 1 .. Len(h.ev[j].page) :
         <<h.ev[j].diskPage[i], snap.mem[h.ev[j].page[i]]>> \in needs
  /\ \A x \in needs : x = <<x[1], x[2]>> /\ x[1] \in DiskPages

--------------------------------------------------------------------------------
(* Logs.                                                                   *)

LEMMA LogTypes ==
  ASSUME NEW h \in Log
  PROVE  /\ h.m \in Nat /\ h.a \in Nat /\ h.b \in Nat /\ h.c \in Nat
         /\ h.ev \in [Nat -> Event] /\ h.ptr \in [Nat -> Ptr]
         /\ h.coll \in [Nat -> Nat] /\ h.pos \in [Nat -> Nat]
         /\ h.ord \in [Nat -> Seq(Gens)] /\ h.up \in [Nat -> Seq(Gens)]
         /\ h.pt \in [Nat -> Gens \cup {NoGen}]
BY DEF Log, Index

LEMMA EventTypes ==
  ASSUME NEW h \in Log, NEW j \in Nat
  PROVE  /\ h.ev[j].gn \in Gens /\ h.ev[j].nfrom \in Nat
         /\ h.ev[j].page \in Seq(Pages) /\ h.ev[j].diskPage \in Seq(DiskPages)
         /\ h.ptr[j] \in Ptr /\ h.coll[j] \in Nat /\ h.pos[j] \in Nat
         /\ h.ord[j] \in Seq(Gens) /\ h.up[j] \in Seq(Gens) /\ h.pt[j] \in Gens \cup {NoGen}
BY LogTypes DEF Event

(* Records of the generation table.                                        *)
LEMMA SameInfo ==
  ASSUME NEW x \in GenInfo, NEW y \in GenInfo,
         x.status = y.status, x.page = y.page, x.diskPage = y.diskPage, x.from = y.from
  PROVE  x = y
BY DEF GenInfo

LEMMA OnceInfo ==
  ASSUME NEW x \in GenInfo
  PROVE  /\ [x EXCEPT !.status = "COLLECTED_ONCE", !.page = <<>>, !.from = {}] \in GenInfo
         /\ [x EXCEPT !.status = "COLLECTED_ONCE", !.page = <<>>, !.from = {}] =
              [status |-> "COLLECTED_ONCE", page |-> <<>>, diskPage |-> x.diskPage, from |-> {}]
<1> DEFINE y == [x EXCEPT !.status = "COLLECTED_ONCE", !.page = <<>>, !.from = {}]
           z == [status |-> "COLLECTED_ONCE", page |-> <<>>, diskPage |-> x.diskPage, from |-> {}]
<1>1. "COLLECTED_ONCE" \in GenStatus /\ <<>> \in Seq(Pages) /\ {} \in SUBSET Gens
  BY DEF GenStatus
<1>2. y \in GenInfo /\ z \in GenInfo
  BY <1>1 DEF GenInfo
<1>3. y.status = z.status /\ y.page = z.page /\ y.diskPage = z.diskPage /\ y.from = z.from
  BY DEF GenInfo
<1>4. QED
  BY <1>2, <1>3, SameInfo

LEMMA InfoType ==
  ASSUME NEW h \in Log, NEW e \in Nat, NEW j \in Nat
  PROVE  InfoAt(h, e, j) \in GenInfo /\ InfoOf(h.ev[e]) \in GenInfo
<1>1. StatusAt(h, e, j) \in GenStatus /\ "NORMAL" \in GenStatus
  BY DEF StatusAt, GenStatus
<1>2. FromAt(h, e, j) \in SUBSET Gens
  <2>1. h.a \in Nat /\ h.m \in Nat
    BY LogTypes
  <2>2. QED
    BY <2>1, EventTypes DEF FromAt
<1>3. h.ev[e].page \in Seq(Pages) /\ h.ev[e].diskPage \in Seq(DiskPages)
  BY EventTypes
<1>4. QED
  BY <1>1, <1>2, <1>3 DEF InfoAt, InfoOf, GenInfo

LEMMA StartRange ==
  ASSUME NEW h \in Log, LogShape(h), NEW j \in Nat
  PROVE  /\ Start(h, j) \in Nat /\ h.a <= Start(h, j) /\ Start(h, j) <= h.c
         /\ h.a <= h.b /\ h.b <= h.c /\ h.c <= h.m
         /\ j <= h.b => Start(h, j) = h.a
         /\ h.b < j => h.b <= Start(h, j) /\ Start(h, j) < j
         /\ h.a < j => Start(h, j) < j
BY LogTypes DEF LogShape, Start

(* Only marked generations are collected: those of the base list in the    *)
(* list after it, those of that one in the newest.                         *)
LEMMA CollRange ==
  ASSUME NEW h \in Log, LogShape(h), LogColl(h), NEW e \in Nat, h.a < e, h.coll[e] # 0
  PROVE  /\ h.coll[e] \in Nat /\ h.coll[e] <= h.m /\ h.b < h.coll[e] /\ e < h.coll[e]
         /\ e <= h.c /\ ~New(h, h.coll[e])
         /\ h.b < e => h.c < h.coll[e]
         /\ h.coll[h.coll[e]] # 0 => e <= h.b
<1>t. h.m \in Nat /\ h.a \in Nat /\ h.b \in Nat /\ h.c \in Nat /\ h.coll[e] \in Nat
  BY LogTypes, EventTypes
<1>x. PICK x \in Nat : x = h.coll[e]
  BY <1>t
<1>1. /\ x <= h.m /\ ~New(h, x) /\ e <= Start(h, x)
  BY <1>x DEF LogColl, Index
<1>s. /\ Start(h, x) \in Nat /\ h.a <= Start(h, x) /\ Start(h, x) <= h.c
      /\ h.a <= h.b /\ h.b <= h.c /\ h.c <= h.m
      /\ x <= h.b => Start(h, x) = h.a
      /\ h.b < x => h.b <= Start(h, x) /\ Start(h, x) < x
      /\ h.a < x => Start(h, x) < x
  BY StartRange
<1>2. h.b < x
  BY <1>1, <1>s, <1>t
<1>3. h.b < e => h.c < x
  BY <1>1, <1>2, <1>t DEF Start
<1>4. e < x /\ e <= h.c
  BY <1>1, <1>2, <1>s, <1>t
<1>5. ASSUME h.coll[x] # 0 PROVE e <= h.b
  <2>1. h.coll[x] \in Nat /\ x <= Start(h, h.coll[x])
    BY <1>2, <1>s, <1>t, <1>5, EventTypes DEF LogColl, Index
  <2>2. Start(h, h.coll[x]) <= h.c /\ Start(h, h.coll[x]) \in Nat
    BY <2>1, StartRange
  <2>3. QED
    BY <1>3, <1>t, <2>1, <2>2
<1>6. QED
  BY <1>1, <1>2, <1>3, <1>4, <1>5, <1>x

(* A generation that is not collected, not marked, and made of first       *)
(* generations or in the base list, is as it was made.                     *)
LEMMA FreshInfo ==
  ASSUME NEW h \in Log, LogShape(h), LogColl(h), NEW e \in Nat, NEW j \in Nat,
         h.a < e, ~Gone(h, e, j), Start(h, j) < e, New(h, e) \/ e <= h.b
  PROVE  InfoAt(h, e, j) = InfoOf(h.ev[e])
<1>0. h.a \in Nat /\ h.m \in Nat /\ h.b \in Nat
  BY LogTypes
<1>1. StatusAt(h, e, j) = "NORMAL"
  BY LogTypes, StartRange DEF StatusAt
<1>2. ASSUME NEW z \in h.a + 1 .. h.m, h.coll[z] = e PROVE FALSE
  <2>1. z \in Nat /\ h.a < z /\ h.coll[z] # 0
    BY <1>0, <1>2
  <2>2. h.b < h.coll[z] /\ ~New(h, h.coll[z])
    BY <2>1, CollRange
  <2>3. QED
    BY <1>2, <2>2, LogTypes
<1>3. FromAt(h, e, j) = {}
  BY <1>2 DEF FromAt
<1>4. QED
  BY <1>1, <1>3 DEF InfoAt, InfoOf

LEMMA BaseInfo ==
  ASSUME NEW h \in Log, LogShape(h), LogColl(h), NEW e \in h.a + 1 .. h.b
  PROVE  InfoAt(h, e, h.b) = InfoOf(h.ev[e]) /\ ~Gone(h, e, h.b)
<1>1. e \in Nat /\ h.a < e /\ h.b \in Nat /\ h.a \in Nat /\ e <= h.b
  BY LogTypes
<1>2. ~Gone(h, e, h.b)
  <2>1. SUFFICES ASSUME Gone(h, e, h.b) PROVE FALSE
    OBVIOUS
  <2>2. h.coll[e] # 0 /\ h.coll[e] <= h.b
    BY <2>1 DEF Gone
  <2>3. h.b < h.coll[e] /\ h.coll[e] \in Nat
    BY <1>1, <2>2, CollRange
  <2>4. QED
    BY <1>1, <2>2, <2>3
<1>3. Start(h, h.b) < e
  BY <1>1, StartRange
<1>4. QED
  BY <1>1, <1>2, <1>3, FreshInfo

(* Event j changes what is collected only if it is a collection.           *)
LEMMA GoneSame ==
  ASSUME NEW h \in Log, LogShape(h), LogColl(h), NEW j \in h.b + 1 .. h.m,
         NEW e \in Nat, h.a < e, h.coll[e] # j
  PROVE  Gone(h, e, j) <=> Gone(h, e, j - 1)
<1>0. h.b \in Nat /\ h.m \in Nat
  BY LogTypes
<1>1. h.coll[e] \in Nat /\ j \in Nat /\ j >= 1
  BY <1>0, EventTypes
<1>2. QED
  BY <1>1 DEF Gone

LEMMA StartSame ==
  ASSUME NEW h \in Log, LogShape(h), NEW j \in h.b + 1 .. h.m
  PROVE  /\ ~First(h, j) => Start(h, j) = Start(h, j - 1)
         /\ First(h, j) => Start(h, j) = j - 1
<1>1. /\ h.m \in Nat /\ h.a \in Nat /\ h.b \in Nat /\ h.c \in Nat
      /\ h.b <= h.c /\ j \in Nat
  BY LogTypes, StartRange
<1>2. QED
  BY <1>1 DEF Start, First

LEMMA NewInfo ==
  ASSUME NEW h \in Log, LogShape(h), LogColl(h), NEW j \in h.b + 1 .. h.m, New(h, j),
         NEW e \in h.a + 1 .. j - 1
  PROVE  /\ Gone(h, e, j) <=> Gone(h, e, j - 1)
         /\ ~First(h, j) => InfoAt(h, e, j) = InfoAt(h, e, j - 1)
         /\ First(h, j) /\ Gone(h, e, j - 1) => InfoAt(h, e, j) = InfoAt(h, e, j - 1)
         /\ First(h, j) /\ ~Gone(h, e, j - 1) =>
              InfoAt(h, e, j) = [InfoAt(h, e, j - 1) EXCEPT !.status = "TO_BE_COLLECTED"]
         /\ First(h, j) => StatusAt(h, e, j - 1) # "COLLECTED_TWICE"
<1>1. /\ h.m \in Nat /\ h.a \in Nat /\ h.b \in Nat /\ h.c \in Nat /\ h.b <= h.c
      /\ j \in Nat /\ e \in Nat /\ h.a < e /\ e < j /\ h.a <= h.b
  BY LogTypes, StartRange
<1>2. /\ h.coll[e] \in Nat
      /\ h.coll[e] # 0 => /\ h.b < h.coll[e] /\ e < h.coll[e] /\ ~New(h, h.coll[e])
                          /\ h.b < e => h.c < h.coll[e]
                          /\ h.coll[h.coll[e]] # 0 => e <= h.b
  BY <1>1, CollRange, EventTypes
<1>3. /\ h.coll[e] # 0 /\ h.coll[h.coll[e]] # 0 =>
           h.c < h.coll[h.coll[e]] /\ ~New(h, h.coll[h.coll[e]])
  <2>1. SUFFICES ASSUME h.coll[e] # 0, h.coll[h.coll[e]] # 0
                 PROVE  h.c < h.coll[h.coll[e]] /\ ~New(h, h.coll[h.coll[e]])
    OBVIOUS
  <2>2. PICK x \in Nat : x = h.coll[e]
    BY <1>2
  <2>3. h.b < x /\ h.a < x
    BY <1>1, <1>2, <2>1, <2>2
  <2>4. QED
    BY <2>1, <2>2, <2>3, CollRange
<1>4. h.coll[e] # j /\ (h.coll[e] # 0 => h.coll[h.coll[e]] # j)
  BY <1>1, <1>2, <1>3
<1>5. Gone(h, e, j) <=> Gone(h, e, j - 1)
  BY <1>1, <1>4, GoneSame
<1>6. h.coll[e] # 0 => (Gone(h, h.coll[e], j) <=> Gone(h, h.coll[e], j - 1))
  BY <1>1, <1>2, <1>4, GoneSame
<1>7. FromAt(h, e, j) = FromAt(h, e, j - 1)
  BY <1>5 DEF FromAt
<1>8. Gone(h, e, j - 1) => h.coll[e] # 0
  BY DEF Gone
<1>9. CASE ~First(h, j)
  <2>1. StatusAt(h, e, j) = StatusAt(h, e, j - 1)
    BY <1>5, <1>6, <1>8, <1>9, StartSame DEF StatusAt
  <2>2. QED
    BY <1>5, <1>7, <1>9, <2>1 DEF InfoAt
<1>10. CASE First(h, j)
  <2>1. Start(h, j) = j - 1
    BY <1>10, StartSame
  <2>2. Gone(h, e, j - 1) => StatusAt(h, e, j) = StatusAt(h, e, j - 1)
    BY <1>5, <1>6, <1>8 DEF StatusAt
  <2>3. ~Gone(h, e, j - 1) => StatusAt(h, e, j) = "TO_BE_COLLECTED"
    BY <1>1, <1>5, <2>1 DEF StatusAt
  <2>4. StatusAt(h, e, j - 1) # "COLLECTED_TWICE"
    <3>1. SUFFICES ASSUME Gone(h, e, j - 1), Gone(h, h.coll[e], j - 1) PROVE FALSE
      BY DEF StatusAt
    <3>2. h.coll[e] # 0 /\ h.coll[h.coll[e]] # 0 /\ h.coll[h.coll[e]] <= j - 1 /\ h.coll[e] <= j - 1
      BY <3>1 DEF Gone
    <3>3. h.c < h.coll[h.coll[e]] /\ h.coll[h.coll[e]] \in Nat
      BY <1>2, <1>3, <3>2, EventTypes
    <3>4. j - 1 = h.b \/ j - 1 = h.c
      BY <1>1, <1>10 DEF First
    <3>5. QED
      BY <1>1, <3>2, <3>3, <3>4
  <2>5. Gone(h, e, j - 1) => InfoAt(h, e, j) = InfoAt(h, e, j - 1)
    BY <1>5, <1>7, <2>2 DEF InfoAt
  <2>6. ~Gone(h, e, j - 1) =>
          InfoAt(h, e, j) = [InfoAt(h, e, j - 1) EXCEPT !.status = "TO_BE_COLLECTED"]
    BY <1>5, <1>7, <2>3 DEF InfoAt
  <2>7. QED
    BY <1>5, <1>10, <2>4, <2>5, <2>6
<1>11. QED
  BY <1>5, <1>9, <1>10

(* What event j, a collection, changes.                                    *)
LEMMA CollectInfo ==
  ASSUME NEW h \in Log, LogShape(h), LogColl(h), NEW j \in h.b + 1 .. h.m, ~First(h, j),
         NEW e \in h.a + 1 .. j - 1
  PROVE  /\ h.coll[e] = j =>
              /\ InfoAt(h, e, j) = [status |-> "COLLECTED_ONCE", page |-> <<>>,
                                  diskPage |-> h.ev[e].diskPage, from |-> {}]
              /\ ~Gone(h, e, j - 1) /\ Gone(h, e, j)
         /\ h.coll[e] # j => (Gone(h, e, j) <=> Gone(h, e, j - 1))
         /\ h.coll[e] # j /\ h.coll[e] # 0 /\ h.coll[h.coll[e]] = j =>
              InfoAt(h, e, j) = [status |-> "COLLECTED_TWICE", page |-> <<>>,
                                 diskPage |-> h.ev[e].diskPage, from |-> {}]
         /\ h.coll[e] # j /\ (h.coll[e] = 0 \/ h.coll[h.coll[e]] # j) =>
              InfoAt(h, e, j) = InfoAt(h, e, j - 1)
<1>1. /\ h.m \in Nat /\ h.a \in Nat /\ h.b \in Nat /\ h.c \in Nat /\ h.b <= h.c
      /\ j \in Nat /\ e \in Nat /\ h.a < e /\ e < j /\ h.a <= h.b /\ h.b < j
  <2>1. h.m \in Nat /\ h.a \in Nat /\ h.b \in Nat /\ h.c \in Nat
    BY LogTypes
  <2>2. QED
    BY <2>1, StartRange
<1>2. PICK x \in Nat : x = h.coll[e]
  BY <1>1, EventTypes
<1>3. PICK y \in Nat : y = h.coll[x]
  BY EventTypes
<1>4. x # 0 => h.b < x /\ e < x /\ h.a < x
  BY <1>1, <1>2, CollRange
<1>5. x # 0 /\ y # 0 => x < y
  BY <1>3, <1>4, CollRange
<1>6. h.coll[j] # 0 => j < h.coll[j] /\ h.coll[j] \in Nat
  BY <1>1, CollRange
<1>7. Start(h, j) = Start(h, j - 1)
  BY StartSame
<1>8. x # j => (Gone(h, e, j) <=> Gone(h, e, j - 1))
  BY <1>1, <1>2, GoneSame
<1>9. x # 0 /\ y # j => (Gone(h, x, j) <=> Gone(h, x, j - 1))
  BY <1>3, <1>4, GoneSame
<1>10. CASE x = j
  <2>1. ~Gone(h, e, j - 1) /\ Gone(h, e, j)
    BY <1>1, <1>2, <1>10 DEF Gone
  <2>2. ~Gone(h, x, j)
    BY <1>1, <1>6, <1>10 DEF Gone
  <2>3. StatusAt(h, e, j) = "COLLECTED_ONCE" /\ FromAt(h, e, j) = {}
    BY <1>2, <2>1, <2>2 DEF StatusAt, FromAt
  <2>4. InfoAt(h, e, j) = [status |-> "COLLECTED_ONCE", page |-> <<>>,
                        diskPage |-> h.ev[e].diskPage, from |-> {}]
    BY <2>1, <2>3 DEF InfoAt
  <2>5. QED
    BY <1>1, <1>2, <1>10, <2>1, <2>4
<1>11. CASE x # j /\ x # 0 /\ y = j
  <2>1. Gone(h, e, j) /\ Gone(h, e, j - 1)
    BY <1>1, <1>2, <1>5, <1>11 DEF Gone
  <2>2. Gone(h, x, j)
    BY <1>1, <1>3, <1>11 DEF Gone
  <2>3. StatusAt(h, e, j) = "COLLECTED_TWICE" /\ FromAt(h, e, j) = {} /\ FromAt(h, e, j - 1) = {}
    BY <1>2, <2>1, <2>2 DEF StatusAt, FromAt
  <2>4. InfoAt(h, e, j) = [status |-> "COLLECTED_TWICE", page |-> <<>>,
                                 diskPage |-> h.ev[e].diskPage, from |-> {}]
    BY <2>1, <2>3 DEF InfoAt
  <2>5. QED
    BY <1>2, <1>3, <1>11, <2>1, <2>4
<1>12. CASE x # j /\ (x = 0 \/ y # j)
  <2>1. Gone(h, e, j) <=> Gone(h, e, j - 1)
    BY <1>8, <1>12
  <2>2. Gone(h, e, j) => x # 0
    BY <1>2 DEF Gone
  <2>3. StatusAt(h, e, j) = StatusAt(h, e, j - 1)
    BY <1>2, <1>7, <1>9, <1>12, <2>1, <2>2 DEF StatusAt
  <2>4. FromAt(h, e, j) = FromAt(h, e, j - 1)
    BY <2>1 DEF FromAt
  <2>5. InfoAt(h, e, j) = InfoAt(h, e, j - 1)
    BY <2>1, <2>3, <2>4 DEF InfoAt
  <2>6. QED
    BY <1>2, <1>3, <1>12, <2>1, <2>5
<1>13. QED
  BY <1>10, <1>11, <1>12

LEMMA MadeInfo ==
  ASSUME NEW h \in Log, LogShape(h), LogColl(h), NEW j \in h.b + 1 .. h.m
  PROVE  /\ InfoAt(h, j, j) =
              [InfoOf(h.ev[j]) EXCEPT
                 !.from = {h.ev[x].gn : x \in {z \in h.a + 1 .. h.m : h.coll[z] = j}}]
         /\ ~Gone(h, j, j)
<1>1. /\ h.m \in Nat /\ h.a \in Nat /\ h.b \in Nat
      /\ j \in Nat /\ h.a <= h.b /\ h.a < j
  <2>1. h.m \in Nat /\ h.a \in Nat /\ h.b \in Nat /\ h.c \in Nat
    BY LogTypes
  <2>2. QED
    BY <2>1, StartRange
<1>2. h.coll[j] # 0 => j < h.coll[j] /\ h.coll[j] \in Nat
  BY <1>1, CollRange
<1>3. ~Gone(h, j, j)
  BY <1>1, <1>2 DEF Gone
<1>4. Start(h, j) < j /\ Start(h, j) \in Nat
  BY <1>1, StartRange
<1>5. StatusAt(h, j, j) = "NORMAL"
  BY <1>1, <1>3, <1>4 DEF StatusAt
<1>6. FromAt(h, j, j) = {h.ev[x].gn : x \in {z \in h.a + 1 .. h.m : h.coll[z] = j}}
  BY <1>3 DEF FromAt
<1> DEFINE F == {h.ev[x].gn : x \in {z \in h.a + 1 .. h.m : h.coll[z] = j}}
<1> HIDE DEF F
<1>7. FromAt(h, j, j) = F
  BY <1>6 DEF F
<1>8. InfoAt(h, j, j) = [InfoOf(h.ev[j]) EXCEPT !.from = F]
  BY <1>3, <1>5, <1>7 DEF InfoAt, InfoOf
<1>9. QED
  BY <1>3, <1>8 DEF F

(* Two logs that agree up to event j.                                      *)
LEMMA InfoKept ==
  ASSUME NEW h \in Log, NEW r \in Log, NEW j \in Nat, NEW e \in Nat,
         h.a <= r.a, h.m <= r.m, r.a < e, e <= j, j <= h.m,
         r.ev[e] = h.ev[e],
         \A z \in Nat : r.a < z /\ z <= j => r.ev[z].gn = h.ev[z].gn,
         \A z \in Nat : r.a < z => r.coll[z] = h.coll[z] \/ (h.coll[z] = 0 /\ j < r.coll[z]),
         \A z \in Nat : h.a < z /\ h.coll[z] # 0 => z < h.coll[z],
         \A z \in h.a + 1 .. r.a : h.coll[z] = e => Gone(h, e, j),
         Start(r, j) = Start(h, j)
  PROVE  InfoAt(r, e, j) = InfoAt(h, e, j) /\ (Gone(r, e, j) <=> Gone(h, e, j))
<1>1. /\ h.m \in Nat /\ h.a \in Nat /\ r.m \in Nat /\ r.a \in Nat
      /\ \A z \in Nat : h.coll[z] \in Nat /\ r.coll[z] \in Nat
  BY LogTypes, EventTypes
<1>2. \A z \in Nat : r.a < z => (Gone(r, z, j) <=> Gone(h, z, j))
  BY <1>1 DEF Gone
<1>3. h.coll[e] # 0 => r.coll[e] = h.coll[e] /\ e < h.coll[e]
  BY <1>1
<1>4. Gone(h, e, j) => (Gone(r, r.coll[e], j) <=> Gone(h, h.coll[e], j))
  <2>1. SUFFICES ASSUME Gone(h, e, j) PROVE Gone(r, h.coll[e], j) <=> Gone(h, h.coll[e], j)
    BY <1>3 DEF Gone
  <2>2. h.coll[e] \in Nat /\ r.a < h.coll[e]
    BY <1>1, <1>3, <2>1 DEF Gone
  <2>3. QED
    BY <1>2, <2>2
<1>5. StatusAt(r, e, j) = StatusAt(h, e, j)
  BY <1>2, <1>4 DEF StatusAt
<1>6. FromAt(r, e, j) = FromAt(h, e, j)
  <2>1. CASE Gone(h, e, j)
    BY <1>2, <2>1 DEF FromAt
  <2>2. CASE ~Gone(h, e, j)
    <3> DEFINE R == {z \in r.a + 1 .. r.m : r.coll[z] = e}
               H == {z \in h.a + 1 .. h.m : h.coll[z] = e}
    <3>1. ASSUME NEW z \in R PROVE z \in H /\ r.ev[z].gn = h.ev[z].gn
      <4>1. z \in Nat /\ r.a < z /\ r.coll[z] = e /\ h.a < z
        BY <1>1
      <4>2. h.coll[z] = e
        BY <1>1, <4>1
      <4>3. z < e
        BY <1>1, <4>1, <4>2
      <4>4. QED
        BY <1>1, <4>1, <4>2, <4>3
    <3>2. ASSUME NEW z \in H PROVE z \in R
      <4>1. z \in Nat /\ h.a < z /\ h.coll[z] = e /\ z <= h.m
        BY <1>1
      <4>2. z < e
        BY <1>1, <4>1
      <4>3. r.a < z
        BY <1>1, <2>2, <4>1
      <4>4. r.coll[z] = e
        BY <1>1, <4>1, <4>3
      <4>5. QED
        BY <1>1, <4>1, <4>3, <4>4
    <3>3. {r.ev[x].gn : x \in R} = {h.ev[x].gn : x \in H}
      BY <3>1, <3>2
    <3>4. QED
      BY <1>2, <2>2, <3>3 DEF FromAt
  <2>3. QED
    BY <2>1, <2>2
<1>7. QED
  BY <1>2, <1>5, <1>6 DEF InfoAt

--------------------------------------------------------------------------------
(* A log with one more event: the one that was pending, ...                *)
NewLog(h, r) ==
  /\ r.m = h.m + 1 /\ r.ev = h.ev /\ r.coll = h.coll
  /\ \A j \in 0 .. h.m : /\ r.ord[j] = h.ord[j] /\ r.pt[j] = h.pt[j] /\ r.ptr[j] = h.ptr[j]
                         /\ r.pos[j] = h.pos[j]
                         /\ r.up[j] = <<h.ev[h.m + 1].gn>> \o h.up[j]
  /\ r.ord[h.m + 1] = <<h.ev[h.m + 1].gn>> \o h.ord[h.m]
  /\ r.pt[h.m + 1] = h.pt[h.m] /\ r.up[h.m + 1] = <<>>
  /\ r.ptr[h.m + 1] = [page |-> FirstGeneration, slot |-> 1]

(* ... of the same lists, or with the lists of r.                          *)
Compatible(h, r) ==
  /\ LogShape(r) /\ h.a <= r.a /\ h.b <= r.b
  /\ \A j \in r.b .. h.m : Start(r, j) = Start(h, j)
  /\ \A j \in r.b + 1 .. h.m : First(r, j) <=> First(h, j)
  /\ \A e \in h.a + 1 .. r.a : Gone(h, e, r.b)
  /\ r.b < r.c => \A e \in r.a + 1 .. r.b : Gone(h, e, r.c)
  /\ \A e \in Nat : r.a < e /\ h.coll[e] # 0 => r.b <= h.coll[e]

LEMMA Pushed ==
  ASSUME NEW S, NEW g \in S, NEW s \in Seq(S)
  PROVE  /\ <<g>> \o s \in Seq(S) /\ Len(<<g>> \o s) = Len(s) + 1
         /\ (<<g>> \o s)[1] = g
         /\ \A q \in 2 .. Len(s) + 1 : (<<g>> \o s)[q] = s[q - 1]
         /\ \A q \in 1 .. Len(s) : (<<g>> \o s)[q + 1] = s[q]
         /\ ToSet(<<g>> \o s) = {g} \cup ToSet(s)
         /\ Distinct(s) /\ g \notin ToSet(s) => Distinct(<<g>> \o s)
<1>1. /\ <<g>> \in Seq(S) /\ ToSet(<<g>>) = {g} /\ Distinct(<<g>>)
  BY Single
<1>2. PICK u : u = <<g>> \o s
  OBVIOUS
<1>3. /\ u \in Seq(S) /\ Len(u) = Len(s) + 1 /\ Len(s) \in Nat /\ u[1] = g
      /\ \A q \in 2 .. Len(s) + 1 : u[q] = s[q - 1]
      /\ \A q \in 1 .. Len(s) : u[q + 1] = s[q]
  BY <1>2
<1>4. ToSet(u) = {g} \cup ToSet(s)
  <2>1. PICK v : v = <<g>>
    OBVIOUS
  <2>2. v \in Seq(S) /\ s \in Seq(S)
    BY <1>1, <2>1
  <2>3. ToSet(v \o s) = ToSet(v) \cup ToSet(s)
    BY ONLY <2>2, Joined
  <2>4. QED
    BY ONLY <1>1, <1>2, <2>1, <2>3, Zenon
<1>5. Distinct(s) /\ g \notin ToSet(s) => Distinct(u)
  <2>1. ToSet(<<g>>) \cap ToSet(s) = {} /\ Distinct(<<g>>) /\ Distinct(s) => Distinct(u)
    BY <1>1, <1>2, Joined
  <2>2. QED
    BY <1>1, <2>1
<1>6. QED
  BY ONLY <1>2, <1>3, <1>4, <1>5

(* Sequences with the same elements.                                       *)
LEMMA SameSeq ==
  ASSUME NEW S, NEW u \in Seq(S), NEW v \in Seq(S), Len(u) = Len(v),
         \A i \in 1 .. Len(u) : u[i] = v[i]
  PROVE  u = v
OBVIOUS

LEMMA PushedAppend ==
  ASSUME NEW S, NEW g \in S, NEW s \in Seq(S), NEW x \in S
  PROVE  /\ <<g>> \o Append(s, x) = Append(<<g>> \o s, x)
         /\ <<g>> \o <<>> = <<g>> /\ <<g>> = Append(<<>>, g)
OBVIOUS

LEMMA NewLogEvents ==
  ASSUME NEW h \in Log, NEW r \in Log, LogShape(h), LogEvents(h, h.m + 1), New(h, h.m + 1),
         NewLog(h, r), Compatible(h, r), r.c = r.m => h.c = h.m
  PROVE  LogEvents(r, r.m)
<1>1. /\ r.m = h.m + 1 /\ r.ev = h.ev /\ r.coll = h.coll /\ h.a <= r.a /\ r.b <= r.c
      /\ h.m \in Nat /\ h.a \in Nat /\ r.a \in Nat /\ r.b \in Nat /\ r.c \in Nat /\ r.a <= r.b
  BY LogTypes, StartRange DEF NewLog, Compatible
<1>2. \A j \in r.a + 1 .. r.m : j \in h.a + 1 .. h.m + 1
  BY <1>1
<1>3. ASSUME NEW j \in r.a + 1 .. r.m, r.c = r.m \/ First(r, j)
      PROVE  New(r, j)
  <2>1. CASE j = h.m + 1
    BY <1>1, <2>1 DEF New
  <2>2. CASE r.c = r.m
    BY <1>1, <1>2, <2>2 DEF LogEvents, New
  <2>3. CASE j # h.m + 1 /\ First(r, j)
    <3>1. j \in r.b + 1 .. h.m
      BY <1>1, <2>3 DEF First
    <3>2. First(h, j)
      BY <2>3, <3>1 DEF Compatible
    <3>3. QED
      BY <1>1, <1>2, <3>2 DEF LogEvents, New
  <2>4. QED
    BY <1>3, <2>1, <2>2, <2>3
<1>4. QED
  BY <1>1, <1>2, <1>3 DEF LogEvents

LEMMA NewLogColl ==
  ASSUME NEW h \in Log, NEW r \in Log, LogShape(h), LogColl(h),
         NewLog(h, r), Compatible(h, r)
  PROVE  LogColl(r)
<1>1. /\ r.m = h.m + 1 /\ r.ev = h.ev /\ r.coll = h.coll /\ h.a <= r.a
      /\ h.m \in Nat /\ h.a \in Nat /\ r.a \in Nat /\ r.b \in Nat /\ r.c \in Nat
  BY LogTypes DEF NewLog, Compatible
<1>2. ASSUME NEW e \in Nat, r.a < e, r.coll[e] # 0
      PROVE  r.coll[e] <= r.m /\ ~New(r, r.coll[e]) /\ e <= Start(r, r.coll[e])
  <2>1. h.a < e /\ h.coll[e] # 0
    BY <1>1, <1>2
  <2>2. h.coll[e] <= h.m /\ ~New(h, h.coll[e]) /\ e <= Start(h, h.coll[e])
    BY <2>1 DEF LogColl, Index
  <2>3. h.coll[e] \in r.b .. h.m /\ h.coll[e] \in Nat
    BY <1>1, <1>2, <2>2, EventTypes DEF Compatible
  <2>4. Start(r, h.coll[e]) = Start(h, h.coll[e])
    BY <2>3 DEF Compatible
  <2>5. QED
    BY <1>1, <2>2, <2>3, <2>4 DEF New
<1>3. ASSUME r.b < r.c, NEW e \in r.a + 1 .. r.b PROVE Gone(r, e, r.c)
  BY <1>1, <1>3 DEF Compatible, Gone
<1>4. QED
  BY <1>2, <1>3 DEF LogColl, Index

LEMMA NewLogUp ==
  ASSUME NEW h \in Log, NEW r \in Log, LogShape(h), LogUp(h), New(h, h.m + 1),
         NewLog(h, r), Compatible(h, r)
  PROVE  LogUp(r)
<1> DEFINE g == h.ev[h.m + 1].gn
<1>1. /\ r.m = h.m + 1 /\ r.ev = h.ev /\ h.b <= r.b
      /\ h.m \in Nat /\ h.b \in Nat /\ r.b \in Nat /\ g \in Gens
      /\ r.up[h.m + 1] = <<>>
  BY LogTypes, EventTypes DEF NewLog, Compatible
<1>2. \A j \in 0 .. h.m : r.up[j] = <<g>> \o h.up[j]
  BY DEF NewLog
<1> HIDE DEF g
<1>3. ASSUME NEW j \in r.b + 1 .. h.m
      PROVE  r.up[j - 1] = IF New(r, j) THEN Append(r.up[j], r.ev[j].gn) ELSE r.up[j]
  <2>1. j \in h.b + 1 .. h.m /\ j - 1 \in 0 .. h.m /\ j \in 0 .. h.m /\ j \in Nat
    BY <1>1
  <2>2. h.up[j - 1] = IF New(h, j) THEN Append(h.up[j], h.ev[j].gn) ELSE h.up[j]
    BY <2>1 DEF LogUp
  <2>3. h.up[j] \in Seq(Gens) /\ h.ev[j].gn \in Gens
    BY <2>1, EventTypes
  <2>4. <<g>> \o Append(h.up[j], h.ev[j].gn) = Append(<<g>> \o h.up[j], h.ev[j].gn)
    <3>1. PICK u, x : u = h.up[j] /\ x = h.ev[j].gn
      OBVIOUS
    <3>2. u \in Seq(Gens) /\ x \in Gens /\ g \in Gens
      BY <1>1, <2>3, <3>1
    <3>3. <<g>> \o Append(u, x) = Append(<<g>> \o u, x)
      BY ONLY <3>2
    <3>4. QED
      BY ONLY <3>1, <3>3, Zenon
  <2>5. New(r, j) <=> New(h, j)
    BY <1>1 DEF New
  <2>6. QED
    BY <1>1, <1>2, <2>1, <2>2, <2>4, <2>5
<1>4. r.up[h.m] = <<g>> /\ <<g>> = Append(<<>>, g)
  BY <1>1, <1>2, PushedAppend DEF LogUp
<1>5. New(r, h.m + 1) /\ r.ev[h.m + 1].gn = g
  BY <1>1 DEF New, g
<1>6. ASSUME NEW j \in r.b + 1 .. r.m
      PROVE  r.up[j - 1] = IF New(r, j) THEN Append(r.up[j], r.ev[j].gn) ELSE r.up[j]
  <2>1. CASE j = h.m + 1
    <3>1. j - 1 = h.m /\ r.up[j] = <<>>
      BY <1>1, <2>1
    <3>2. QED
      BY ONLY <1>4, <1>5, <2>1, <3>1, Zenon
  <2>2. CASE j # h.m + 1
    <3>1. j \in r.b + 1 .. h.m
      BY ONLY <1>1, <2>2, j \in r.b + 1 .. r.m
    <3>2. QED
      BY ONLY <1>3, <3>1
  <2>3. QED
    BY ONLY <2>1, <2>2
<1>7. QED
  BY <1>1, <1>6 DEF LogUp

(* The last event is live, and so is what was live before it.              *)
LEMMA NewLogLast ==
  ASSUME NEW h \in Log, NEW r \in Log, LogShape(h), LogColl(h), LogOrd(h),
         LogEvents(h, h.m + 1), New(h, h.m + 1), NewLog(h, r), Compatible(h, r),
         Start(r, h.m + 1) = Start(h, h.m) \/ Start(r, h.m + 1) = h.m
  PROVE  OrdAt(r, h.m + 1)
<1> DEFINE j == h.m + 1
           g == h.ev[j].gn
           o == h.ord[h.m]
           u == r.ord[j]
<1>1. /\ r.m = j /\ r.ev = h.ev /\ r.coll = h.coll /\ h.a <= r.a
      /\ h.m \in Nat /\ h.a \in Nat /\ r.a \in Nat /\ h.b \in Nat /\ r.b \in Nat
      /\ r.b <= j /\ r.a <= r.b
      /\ h.b <= h.m /\ j \in Nat
      /\ g \in Gens /\ o \in Seq(Gens) /\ h.a <= h.b /\ r.a < j /\ h.a < j
  <2>1. /\ h.m \in Nat /\ h.a \in Nat /\ r.a \in Nat /\ h.b \in Nat /\ r.b \in Nat /\ r.c \in Nat
        /\ h.c \in Nat /\ j \in Nat
    BY LogTypes
  <2>2. r.m = j /\ r.ev = h.ev /\ r.coll = h.coll /\ h.a <= r.a
    BY DEF NewLog, Compatible
  <2>3. g \in Gens /\ o \in Seq(Gens)
    BY <2>1, EventTypes
  <2>4. r.b <= j /\ r.a <= r.b /\ r.a < j
    BY <2>1, <2>2 DEF Compatible, LogShape
  <2>5. h.b <= h.m /\ h.a <= h.b
    BY <2>1 DEF LogShape
  <2>6. QED
    BY <2>1, <2>2, <2>3, <2>4, <2>5
<1>2. u = <<g>> \o o
  BY DEF NewLog
<1>3. /\ Distinct(o)
      /\ \A q \in 1 .. Len(o) : \E e \in h.a + 1 .. h.m : o[q] = h.ev[e].gn /\ ~Gone(h, e, h.m)
      /\ \A e \in h.a + 1 .. h.m :
           ~Gone(h, e, h.m) => \E q \in 1 .. Len(o) : o[q] = h.ev[e].gn
      /\ \A q, s \in 1 .. Len(o), x, y \in Start(h, h.m) + 1 .. h.m :
           q < s /\ o[q] = h.ev[x].gn /\ o[s] = h.ev[y].gn => Before(h, x, y)
  <2>1. h.m \in h.b .. h.m
    BY <1>1
  <2>2. QED
    BY <2>1 DEF LogOrd, OrdAt
<1>4. \A x, y \in h.a + 1 .. j : h.ev[x].gn = h.ev[y].gn => x = y
  BY DEF LogEvents
<1>5. ASSUME NEW e \in Nat, r.a < e PROVE Gone(r, e, j) <=> Gone(h, e, h.m)
  <2>1. h.a < e /\ h.coll[e] \in Nat
    BY <1>1, <1>5, EventTypes
  <2>2. h.coll[e] # 0 => h.coll[e] <= h.m
    BY <2>1 DEF LogColl, Index
  <2>3. QED
    BY <1>1, <2>1, <2>2 DEF Gone
<1>6. ASSUME NEW e \in h.a + 1 .. r.a PROVE Gone(h, e, h.m)
  <2>1. e \in Nat /\ h.a < e /\ h.coll[e] \in Nat
    BY <1>1, EventTypes
  <2>2. h.coll[e] # 0 => h.coll[e] <= h.m
    BY <2>1 DEF LogColl, Index
  <2>3. Gone(h, e, r.b)
    BY <1>6 DEF Compatible
  <2>4. QED
    BY <1>1, <2>1, <2>2, <2>3 DEF Gone
<1>7. ~Gone(r, j, j)
  <2>1. h.coll[j] # 0 => h.coll[j] <= h.m /\ j < h.coll[j] /\ h.coll[j] \in Nat
    BY <1>1, CollRange
  <2>2. QED
    BY <1>1, <2>1 DEF Gone
<1>8. ASSUME NEW q \in 1 .. Len(o)
      PROVE  \E e \in r.a + 1 .. h.m : o[q] = h.ev[e].gn /\ ~Gone(h, e, h.m)
  <2>1. PICK e \in h.a + 1 .. h.m : o[q] = h.ev[e].gn /\ ~Gone(h, e, h.m)
    BY <1>3
  <2>2. e \in r.a + 1 .. h.m
    BY <1>1, <1>6, <2>1
  <2>3. QED
    BY <2>1, <2>2
<1>9. /\ u \in Seq(Gens) /\ Len(u) = Len(o) + 1 /\ Len(o) \in Nat
      /\ u[1] = g /\ \A q \in 2 .. Len(o) + 1 : u[q] = o[q - 1]
      /\ \A q \in 1 .. Len(o) : u[q + 1] = o[q]
      /\ Distinct(o) /\ g \notin ToSet(o) => Distinct(u)
  <2>1. g \in Gens /\ o \in Seq(Gens) /\ Len(o) \in Nat
    BY <1>1
  <2>2. /\ <<g>> \o o \in Seq(Gens) /\ Len(<<g>> \o o) = Len(o) + 1
        /\ (<<g>> \o o)[1] = g
        /\ \A q \in 2 .. Len(o) + 1 : (<<g>> \o o)[q] = o[q - 1]
        /\ \A q \in 1 .. Len(o) : (<<g>> \o o)[q + 1] = o[q]
        /\ Distinct(o) /\ g \notin ToSet(o) => Distinct(<<g>> \o o)
    BY ONLY <2>1, Pushed
  <2>3. QED
    BY ONLY <1>2, <2>1, <2>2
<1> HIDE DEF j, g, o, u
<1>10. \A q \in 1 .. Len(o) : o[q] # g
  <2>1. j \in h.a + 1 .. j /\ \A e \in h.a + 1 .. h.m : e \in h.a + 1 .. j /\ e # j
    BY <1>1 DEF j
  <2>2. g = h.ev[j].gn
    BY DEF g
  <2>3. QED
    BY <1>3, <1>4, <2>1, <2>2
<1>11. Distinct(u)
  <2>1. g \notin ToSet(o)
    BY <1>1, <1>10, Members
  <2>2. QED
    BY <1>3, <1>9, <2>1
<1>12. ASSUME NEW q \in 1 .. Len(u)
       PROVE  \E e \in r.a + 1 .. j : u[q] = r.ev[e].gn /\ ~Gone(r, e, j)
  <2>1. CASE q = 1
    <3>1. j \in r.a + 1 .. j
      BY <1>1
    <3>2. u[q] = r.ev[j].gn
      BY <1>1, <1>9, <2>1 DEF g
    <3>3. QED
      BY <1>7, <3>1, <3>2
  <2>2. CASE q # 1
    <3>1. q - 1 \in 1 .. Len(o) /\ u[q] = o[q - 1]
      BY <1>9, <2>2
    <3>2. PICK e \in r.a + 1 .. h.m : o[q - 1] = h.ev[e].gn /\ ~Gone(h, e, h.m)
      BY <1>8, <3>1
    <3>3. e \in r.a + 1 .. j /\ e \in Nat /\ r.a < e
      BY <1>1 DEF j
    <3>4. ~Gone(r, e, j)
      BY <1>5, <3>2, <3>3
    <3>5. QED
      BY <1>1, <3>1, <3>2, <3>3, <3>4
  <2>3. QED
    BY <2>1, <2>2
<1>13. ASSUME NEW e \in r.a + 1 .. j, ~Gone(r, e, j)
       PROVE  \E q \in 1 .. Len(u) : u[q] = r.ev[e].gn
  <2>1. CASE e = j
    <3>1. 1 \in 1 .. Len(u) /\ u[1] = r.ev[e].gn
      BY <1>1, <1>9, <2>1 DEF g
    <3>2. QED
      BY <3>1
  <2>2. CASE e # j
    <3>1. e \in h.a + 1 .. h.m /\ e \in Nat /\ r.a < e
      BY <1>1, <2>2 DEF j
    <3>2. ~Gone(h, e, h.m)
      BY <1>5, <1>13, <3>1
    <3>3. PICK q \in 1 .. Len(o) : o[q] = h.ev[e].gn
      BY <1>3, <3>1, <3>2
    <3>4. q + 1 \in 1 .. Len(u) /\ u[q + 1] = o[q]
      BY <1>9
    <3>5. QED
      BY <1>1, <3>3, <3>4
  <2>3. QED
    BY <2>1, <2>2
<1>14. ASSUME NEW q \in 1 .. Len(u), NEW s \in 1 .. Len(u),
              NEW x \in Start(r, j) + 1 .. j, NEW y \in Start(r, j) + 1 .. j,
              q < s, u[q] = r.ev[x].gn, u[s] = r.ev[y].gn
       PROVE  Before(r, x, y)
  <2>1. /\ Start(r, j) \in Nat /\ r.a <= Start(r, j)
    BY <1>1, StartRange DEF Compatible
  <2>2. /\ x \in Nat /\ y \in Nat /\ x \in h.a + 1 .. j /\ y \in h.a + 1 .. j
        /\ s - 1 \in 1 .. Len(o) /\ u[s] = o[s - 1] /\ x <= j /\ y <= j
    <3>1. x \in Nat /\ y \in Nat /\ x \in h.a + 1 .. j /\ y \in h.a + 1 .. j /\ x <= j /\ y <= j
      BY <1>1, <2>1
    <3>2. s - 1 \in 1 .. Len(o) /\ s \in 2 .. Len(o) + 1
      BY <1>9, <1>14
    <3>3. QED
      BY <1>9, <3>1, <3>2
  <2>3. y # j
    <3>1. SUFFICES ASSUME y = j PROVE FALSE
      OBVIOUS
    <3>2. o[s - 1] = g
      BY <1>1, <1>14, <2>2, <3>1 DEF g
    <3>3. QED
      BY <1>10, <2>2, <3>2
  <2>4. y < j /\ y <= h.m
    <3>1. y < j
      BY ONLY <1>1, <2>2, <2>3
    <3>2. QED
      BY <1>1, <2>2, <3>1 DEF j
  <2>5. CASE q = 1
    <3>1. h.ev[x].gn = h.ev[j].gn /\ j \in h.a + 1 .. j
      <4>1. j \in h.a + 1 .. j
        BY <1>1
      <4>2. QED
        BY <1>1, <1>9, <1>14, <2>5, <4>1 DEF g
    <3>2. x = j
      BY <1>4, <2>2, <3>1
    <3>3. New(r, x)
      BY <1>1, <3>2 DEF New, j
    <3>4. QED
      BY <2>4, <3>2, <3>3 DEF Before
  <2>6. CASE q # 1
    <3>1. q - 1 \in 1 .. Len(o) /\ u[q] = o[q - 1] /\ q - 1 < s - 1
      BY <1>9, <1>14, <2>6
    <3>2. x # j
      <4>1. SUFFICES ASSUME x = j PROVE FALSE
        OBVIOUS
      <4>2. o[q - 1] = g
        BY <1>1, <1>14, <3>1, <4>1 DEF g
      <4>3. QED
        BY <1>10, <3>1, <4>2
    <3>3. x <= h.m
      BY <1>1, <2>2, <3>2 DEF j
    <3>4. CASE Start(r, j) = h.m
      BY <1>1, <2>1, <2>2, <3>3, <3>4
    <3>5. CASE Start(r, j) = Start(h, h.m)
      <4>1. x \in Start(h, h.m) + 1 .. h.m /\ y \in Start(h, h.m) + 1 .. h.m
        BY <1>1, <2>1, <2>4, <3>3, <3>5
      <4>2. Before(h, x, y)
        BY <1>1, <1>3, <1>14, <2>2, <3>1, <4>1
      <4>3. QED
        BY <1>1, <4>2 DEF Before, New
    <3>6. QED
      BY <3>4, <3>5 DEF j
  <2>7. QED
    BY <2>5, <2>6
<1>15. QED
  BY <1>11, <1>12, <1>13, <1>14 DEF OrdAt, j, u

LEMMA NewLogOrd ==
  ASSUME NEW h \in Log, NEW r \in Log, LogShape(h), LogColl(h), LogOrd(h),
         LogEvents(h, h.m + 1), New(h, h.m + 1), NewLog(h, r), Compatible(h, r),
         Start(r, h.m + 1) = Start(h, h.m) \/ Start(r, h.m + 1) = h.m
  PROVE  LogOrd(r)
<1>1. /\ r.m = h.m + 1 /\ r.ev = h.ev /\ r.coll = h.coll /\ h.a <= r.a /\ h.b <= r.b
  BY DEF NewLog, Compatible
<1>2. /\ h.m \in Nat /\ h.a \in Nat /\ r.a \in Nat /\ h.b \in Nat /\ r.b \in Nat
  BY LogTypes
<1>3. ASSUME NEW j \in r.b .. h.m
      PROVE  OrdAt(r, j)
  <2>1. PICK o : o = h.ord[j]
    OBVIOUS
  <2>2. j \in h.b .. h.m /\ j \in 0 .. h.m /\ j \in Nat
    BY <1>1, <1>2
  <2>3. r.ord[j] = o /\ Start(r, j) = Start(h, j)
    BY <2>1, <2>2 DEF NewLog, Compatible
  <2>4. /\ Distinct(o)
        /\ \A q \in 1 .. Len(o) : \E e \in h.a + 1 .. j : o[q] = h.ev[e].gn /\ ~Gone(h, e, j)
        /\ \A e \in h.a + 1 .. j : ~Gone(h, e, j) => \E q \in 1 .. Len(o) : o[q] = h.ev[e].gn
        /\ \A q, s \in 1 .. Len(o), x, y \in Start(h, j) + 1 .. j :
             q < s /\ o[q] = h.ev[x].gn /\ o[s] = h.ev[y].gn => Before(h, x, y)
    BY <2>1, <2>2 DEF LogOrd, OrdAt
  <2>5. \A e \in Nat : Gone(r, e, j) <=> Gone(h, e, j)
    BY <1>1 DEF Gone
  <2>6. ASSUME NEW e \in h.a + 1 .. r.a PROVE Gone(h, e, j)
    <3>1. Gone(h, e, r.b) /\ h.coll[e] \in Nat
      BY <1>2, <2>6, EventTypes DEF Compatible
    <3>2. QED
      BY <1>2, <2>2, <3>1 DEF Gone
  <2>7. ASSUME NEW q \in 1 .. Len(o)
        PROVE  \E e \in r.a + 1 .. j : o[q] = r.ev[e].gn /\ ~Gone(r, e, j)
    <3>1. PICK e \in h.a + 1 .. j : o[q] = h.ev[e].gn /\ ~Gone(h, e, j)
      BY <2>4
    <3>2. e \in r.a + 1 .. j /\ e \in Nat
      BY <1>2, <2>2, <2>6, <3>1
    <3>3. QED
      BY <1>1, <2>5, <3>1, <3>2
  <2>8. ASSUME NEW e \in r.a + 1 .. j, ~Gone(r, e, j)
        PROVE  \E q \in 1 .. Len(o) : o[q] = r.ev[e].gn
    <3>1. e \in h.a + 1 .. j /\ e \in Nat
      BY <1>1, <1>2, <2>2
    <3>2. QED
      BY <1>1, <2>4, <2>5, <2>8, <3>1
  <2>9. \A x, y : Before(r, x, y) <=> Before(h, x, y)
    BY <1>1 DEF Before, New
  <2>10. QED
    BY <1>1, <2>3, <2>4, <2>7, <2>8, <2>9 DEF OrdAt
<1>4. OrdAt(r, h.m + 1)
  BY NewLogLast
<1>5. ASSUME NEW j \in r.b .. r.m PROVE j \in r.b .. h.m \/ j = h.m + 1
  BY <1>1, <1>2
<1>6. QED
  BY <1>3, <1>4, <1>5 DEF LogOrd

LEMMA NewLogSteps ==
  ASSUME NEW h \in Log, NEW r \in Log, LogShape(h), LogSteps(h), New(h, h.m + 1),
         NewLog(h, r), Compatible(h, r), First(r, h.m + 1) => h.ord[h.m] # <<>>
  PROVE  LogSteps(r)
<1>1. /\ r.m = h.m + 1 /\ r.ev = h.ev /\ r.coll = h.coll /\ h.a <= r.a /\ h.b <= r.b
  BY DEF NewLog, Compatible
<1>2. /\ h.m \in Nat /\ h.a \in Nat /\ r.a \in Nat /\ h.b \in Nat /\ r.b \in Nat
  BY LogTypes
<1>3. ASSUME NEW j \in r.b + 1 .. h.m
      PROVE  IF New(r, j) THEN NewStep(r, j) ELSE CollectStep(r, j)
  <2>1. j \in h.b + 1 .. h.m /\ j \in 0 .. h.m /\ j - 1 \in 0 .. h.m /\ j \in Nat
    BY <1>1, <1>2
  <2>2. /\ r.ord[j] = h.ord[j] /\ r.ord[j - 1] = h.ord[j - 1] /\ r.pt[j] = h.pt[j]
        /\ r.pt[j - 1] = h.pt[j - 1] /\ r.pos[j] = h.pos[j]
    BY <2>1 DEF NewLog
  <2>3. First(r, j) <=> First(h, j)
    BY <1>3 DEF Compatible
  <2>4. Start(r, j) = Start(h, j)
    BY <1>2, <1>3 DEF Compatible
  <2>5. IF New(h, j) THEN NewStep(h, j) ELSE CollectStep(h, j)
    BY <2>1 DEF LogSteps
  <2>6. CASE New(h, j)
    <3>1. NewStep(r, j)
      BY <1>1, <2>2, <2>3, <2>5, <2>6 DEF NewStep
    <3>2. QED
      BY <1>1, <2>6, <3>1 DEF New
  <2>7. CASE ~New(h, j)
    <3>1. \A e \in r.a + 1 .. j - 1 : e \in h.a + 1 .. j - 1
      BY <1>1, <1>2, <2>1
    <3>2. CollectStep(r, j)
      BY <1>1, <2>2, <2>4, <2>5, <2>7, <3>1 DEF CollectStep
    <3>3. QED
      BY <1>1, <2>7, <3>2 DEF New
  <2>8. QED
    BY <2>6, <2>7
<1>4. New(r, h.m + 1) /\ NewStep(r, h.m + 1)
  <2>1. PICK n : n = h.m + 1
    OBVIOUS
  <2>2. n - 1 = h.m /\ h.m \in 0 .. h.m
    BY <1>2, <2>1
  <2>3. r.ord[h.m] = h.ord[h.m] /\ r.pt[h.m] = h.pt[h.m]
    BY <2>2 DEF NewLog
  <2>4. r.ord[n] = <<h.ev[n].gn>> \o h.ord[h.m] /\ r.pt[n] = h.pt[h.m]
    BY <2>1 DEF NewLog
  <2>5. NewStep(r, n)
    BY <1>1, <2>1, <2>2, <2>3, <2>4, Zenon DEF NewStep
  <2>6. QED
    BY <1>1, <2>1, <2>5 DEF New
<1>5. ASSUME NEW j \in r.b + 1 .. r.m PROVE j \in r.b + 1 .. h.m \/ j = h.m + 1
  BY <1>1, <1>2
<1>6. QED
  BY <1>3, <1>4, <1>5 DEF LogSteps

(* The cells of the log stay where they are.                               *)
SameCells(h, r) ==
  \A j \in r.a + 1 .. h.m : (j = r.a + 1 \/ First(r, j)) <=> (j = h.a + 1 \/ First(h, j))

LEMMA NewLogCells ==
  ASSUME NEW h \in Log, NEW r \in Log, NewLog(h, r), h.a <= r.a, SameCells(h, r),
         NEW j \in r.a + 1 .. h.m
  PROVE  /\ Cell(r, j) = Cell(h, j) /\ r.ptr[j] = h.ptr[j]
         /\ \A R : CellOnDisk(h, j, R) => CellOnDisk(r, j, R)
<1>1. /\ r.m = h.m + 1 /\ r.ev = h.ev
      /\ h.m \in Nat /\ r.a \in Nat /\ j \in Nat /\ j \in 0 .. h.m /\ j - 1 \in 0 .. h.m
  <2>1. h.m \in Nat /\ r.a \in Nat
    BY LogTypes
  <2>2. QED
    BY <2>1 DEF NewLog
<1>2. r.ptr[j] = h.ptr[j] /\ r.ptr[j - 1] = h.ptr[j - 1]
  BY <1>1 DEF NewLog
<1>3. Cell(r, j) = Cell(h, j)
  BY <1>1, <1>2 DEF Cell, SameCells
<1>4. ASSUME NEW R, CellOnDisk(h, j, R) PROVE CellOnDisk(r, j, R)
  <2>1. PICK k \in j + 1 .. h.m + 1 :
          /\ NextNew(h, j, k)
          /\ \E i \in 1 .. Len(h.ev[k].page), x \in R :
               /\ h.ev[k].page[i] = h.ptr[j].page /\ h.ev[k].diskPage[i] = x[1]
               /\ h.ptr[j].slot \in DOMAIN x[2].pinfos
               /\ x[2].pinfos[h.ptr[j].slot] = Cell(h, j)
    BY <1>4 DEF CellOnDisk
  <2>2. k \in j + 1 .. r.m + 1
    BY <1>1
  <2>3. NextNew(r, j, k)
    BY <1>1, <2>1, <2>2 DEF NextNew, New
  <2>4. QED
    BY <1>1, <1>2, <1>3, <2>1, <2>2, <2>3 DEF CellOnDisk
<1>5. QED
  BY <1>2, <1>3, <1>4

LEMMA NewLogExists ==
  ASSUME NEW h \in Log, NEW a \in Nat, NEW b \in Nat, NEW c \in Nat
  PROVE  \E r \in Log : NewLog(h, r) /\ r.a = a /\ r.b = b /\ r.c = c
<1>0. PICK m \in Nat : m = h.m
  BY LogTypes
<1>1. /\ h.m \in Nat /\ h.ev \in [Nat -> Event] /\ h.ptr \in [Nat -> Ptr]
      /\ h.coll \in [Nat -> Nat] /\ h.pos \in [Nat -> Nat]
      /\ h.ord \in [Nat -> Seq(Gens)] /\ h.up \in [Nat -> Seq(Gens)]
      /\ h.pt \in [Nat -> Gens \cup {NoGen}]
  BY LogTypes
<1>2. PICK n \in Nat : n = m + 1
  OBVIOUS
<1>3. PICK g \in Gens : g = h.ev[n].gn
  BY EventTypes
<1>4. PICK o \in Seq(Gens) : o = <<g>> \o h.ord[h.m]
  <2>1. h.ord[h.m] \in Seq(Gens)
    BY <1>1
  <2>2. <<g>> \o h.ord[h.m] \in Seq(Gens)
    BY <2>1, Pushed
  <2>3. QED
    BY <2>2
<1>5. PICK x \in Ptr : x = [page |-> FirstGeneration, slot |-> 1]
  BY DEF Ptr
<1>6. PICK up \in [Nat -> Seq(Gens)] :
        up = [j \in Nat |-> IF j <= m THEN <<g>> \o h.up[j] ELSE <<>>]
  <2>1. \A j \in Nat : h.up[j] \in Seq(Gens)
    BY <1>1
  <2>2. \A j \in Nat : <<g>> \o h.up[j] \in Seq(Gens)
    BY <2>1, Pushed
  <2>3. \A j \in Nat : (IF j <= m THEN <<g>> \o h.up[j] ELSE <<>>) \in Seq(Gens)
    BY ONLY <2>2
  <2>4. QED
    BY ONLY <2>3
<1>7. PICK ptr \in [Nat -> Ptr] : ptr = [h.ptr EXCEPT ![n] = x]
  BY <1>1
<1>8. PICK ord \in [Nat -> Seq(Gens)] : ord = [h.ord EXCEPT ![n] = o]
  BY <1>1
<1>9. PICK pt \in [Nat -> Gens \cup {NoGen}] : pt = [h.pt EXCEPT ![n] = h.pt[h.m]]
  BY <1>1
<1> DEFINE r == [m |-> n, a |-> a, b |-> b, c |-> c, ev |-> h.ev, ptr |-> ptr,
                 coll |-> h.coll, pos |-> h.pos, ord |-> ord, up |-> up, pt |-> pt]
<1>10. r \in Log
  BY <1>1 DEF Log, Index
<1>11. /\ r.m = n /\ r.a = a /\ r.b = b /\ r.c = c /\ r.ev = h.ev /\ r.ptr = ptr
       /\ r.coll = h.coll /\ r.pos = h.pos /\ r.ord = ord /\ r.up = up /\ r.pt = pt
  OBVIOUS
<1> HIDE DEF r
<1>12. ASSUME NEW j \in 0 .. m
       PROVE  /\ r.ord[j] = h.ord[j] /\ r.pt[j] = h.pt[j] /\ r.ptr[j] = h.ptr[j]
              /\ r.pos[j] = h.pos[j] /\ r.up[j] = <<g>> \o h.up[j]
  <2>1. j \in Nat /\ j # n /\ j <= m
    BY <1>2
  <2>2. r.ord[j] = h.ord[j] /\ r.pt[j] = h.pt[j] /\ r.ptr[j] = h.ptr[j]
    <3>1. ord[j] = h.ord[j]
      BY <1>1, <1>8, <2>1
    <3>2. pt[j] = h.pt[j]
      BY <1>1, <1>9, <2>1
    <3>3. ptr[j] = h.ptr[j]
      BY <1>1, <1>7, <2>1
    <3>4. QED
      BY ONLY <1>11, <3>1, <3>2, <3>3, Zenon
  <2>3. r.up[j] = <<g>> \o h.up[j]
    BY <1>6, <1>11, <2>1
  <2>4. QED
    BY <1>11, <2>2, <2>3
<1>13. r.ord[n] = o /\ r.pt[n] = h.pt[h.m] /\ r.ptr[n] = x
  <2>1. ord[n] = o
    BY <1>1, <1>8
  <2>2. pt[n] = h.pt[h.m]
    BY <1>1, <1>9
  <2>3. ptr[n] = x
    BY <1>1, <1>7
  <2>4. QED
    BY ONLY <1>11, <2>1, <2>2, <2>3, Zenon
<1>14. r.up[n] = <<>>
  <2>1. ~(n <= m)
    BY <1>2
  <2>2. QED
    BY <1>6, <1>11, <2>1
<1>15. NewLog(h, r)
  BY ONLY <1>0, <1>2, <1>3, <1>4, <1>5, <1>11, <1>12, <1>13, <1>14, Zenon DEF NewLog
<1>16. QED
  BY <1>10, <1>11, <1>15

(* The pending event is described in the newest list.                      *)
LEMMA NextLog ==
  ASSUME NEW h \in Log, LogOK(h), LogEvents(h, h.m + 1), New(h, h.m + 1)
  PROVE  \E r \in Log :
           /\ NewLog(h, r) /\ LogOK(r) /\ LogEvents(r, r.m) /\ SameCells(h, r)
           /\ r.a = h.a
           /\ r.b = (IF h.c = h.m THEN h.m + 1 ELSE h.b)
           /\ r.c = (IF h.c = h.m THEN h.m + 1 ELSE h.c)
           /\ \A e \in h.a + 1 .. h.m : InfoAt(r, e, r.m) = InfoAt(h, e, h.m)
           /\ InfoAt(r, r.m, r.m) = InfoOf(r.ev[r.m])
<1>0. LogShape(h) /\ LogColl(h) /\ LogOrd(h) /\ LogSteps(h) /\ LogUp(h)
  BY DEF LogOK
<1>1. /\ h.m \in Nat /\ h.a \in Nat /\ h.b \in Nat /\ h.c \in Nat
      /\ h.a <= h.b /\ h.b <= h.c /\ h.c <= h.m
  <2>1. h.m \in Nat /\ h.a \in Nat /\ h.b \in Nat /\ h.c \in Nat
    BY LogTypes
  <2>2. QED
    BY <1>0, <2>1, StartRange
<1>2. PICK r \in Log : /\ NewLog(h, r) /\ r.a = h.a
                       /\ r.b = (IF h.c = h.m THEN h.m + 1 ELSE h.b)
                       /\ r.c = (IF h.c = h.m THEN h.m + 1 ELSE h.c)
  <2>1. PICK b \in Nat : b = (IF h.c = h.m THEN h.m + 1 ELSE h.b)
    BY <1>1
  <2>2. PICK c \in Nat : c = (IF h.c = h.m THEN h.m + 1 ELSE h.c)
    BY <1>1
  <2>3. PICK a \in Nat : a = h.a
    BY <1>1
  <2>4. PICK r \in Log : NewLog(h, r) /\ r.a = a /\ r.b = b /\ r.c = c
    BY ONLY NewLogExists, h \in Log, a \in Nat, b \in Nat, c \in Nat
  <2>5. QED
    BY <2>1, <2>2, <2>3, <2>4
<1>3. r.m = h.m + 1 /\ r.ev = h.ev /\ r.coll = h.coll
  BY <1>2 DEF NewLog
<1>4. LogShape(r)
  BY <1>0, <1>1, <1>2, <1>3 DEF LogShape
<1>5. h.c = h.m => h.a = 0 /\ h.b = h.m
  BY <1>0, <1>1 DEF LogShape
<1>6. Start(r, h.m + 1) = Start(h, h.m)
  BY <1>1, <1>2, <1>5 DEF Start
<1>7. ASSUME NEW j \in r.b .. h.m PROVE Start(r, j) = Start(h, j)
  BY <1>1, <1>2, <1>7 DEF Start
<1>8. ASSUME NEW j \in r.b + 1 .. h.m PROVE First(r, j) <=> First(h, j)
  BY <1>1, <1>2, <1>8 DEF First
<1>9. ASSUME NEW e \in Nat, r.a < e, h.coll[e] # 0 PROVE r.b <= h.coll[e]
  <2>1. h.coll[e] \in Nat /\ h.coll[e] <= h.m /\ h.b < h.coll[e]
    BY <1>0, <1>2, <1>9, CollRange
  <2>2. h.c # h.m
    BY <1>1, <1>5, <2>1
  <2>3. QED
    BY <1>1, <1>2, <2>1, <2>2
<1>10. r.b < r.c => \A e \in r.a + 1 .. r.b : Gone(h, e, r.c)
  <2>1. r.b < r.c => h.b < h.c /\ r.b = h.b /\ r.c = h.c
    BY <1>1, <1>2
  <2>2. QED
    BY <1>0, <1>2, <2>1 DEF LogColl
<1>11. Compatible(h, r)
  <2>1. \A e \in h.a + 1 .. r.a : Gone(h, e, r.b)
    BY <1>1, <1>2
  <2>2. h.a <= r.a /\ h.b <= r.b
    BY <1>1, <1>2
  <2>3. QED
    BY <1>4, <1>7, <1>8, <1>9, <1>10, <2>1, <2>2 DEF Compatible
<1>12. ~First(r, h.m + 1)
  BY <1>1, <1>2 DEF First
<1>13. LogEvents(r, r.m)
  <2>1. r.c = r.m => h.c = h.m
    BY <1>1, <1>2, <1>3
  <2>2. QED
    BY <1>0, <1>2, <1>11, <2>1, NewLogEvents
<1>14. LogColl(r)
  BY <1>0, <1>2, <1>11, NewLogColl
<1>15. LogOrd(r)
  BY <1>0, <1>2, <1>6, <1>11, NewLogOrd
<1>16. LogSteps(r)
  BY <1>0, <1>2, <1>11, <1>12, NewLogSteps
<1>17. LogUp(r)
  BY <1>0, <1>2, <1>11, NewLogUp
<1>18. SameCells(h, r)
  BY <1>1, <1>2, <1>5 DEF SameCells, First
<1>19. ASSUME NEW e \in h.a + 1 .. h.m PROVE InfoAt(r, e, r.m) = InfoAt(h, e, h.m)
  <2>1. CASE h.c = h.m
    <3>1. e \in h.a + 1 .. h.b /\ h.b = h.m /\ e \in r.a + 1 .. r.b /\ r.b = r.m
      BY <1>1, <1>2, <1>3, <1>5, <2>1
    <3>2. InfoAt(h, e, h.m) = InfoOf(h.ev[e])
      BY <1>0, <3>1, BaseInfo
    <3>3. InfoAt(r, e, r.m) = InfoOf(r.ev[e])
      BY <1>4, <1>14, <3>1, BaseInfo
    <3>4. QED
      BY <1>3, <3>2, <3>3
  <2>2. CASE h.c # h.m
    <3>1. r.b = h.b /\ r.c = h.c
      BY <1>2, <2>2
    <3>2. /\ e \in Nat /\ h.a <= r.a /\ h.m <= r.m /\ r.a < e /\ e <= h.m
          /\ Start(r, h.m) = Start(h, h.m) /\ r.ev[e] = h.ev[e]
      BY <1>1, <1>2, <1>3, <1>7, <3>1
    <3>3. \A z \in Nat : h.a < z /\ h.coll[z] # 0 => z < h.coll[z]
      BY <1>0, CollRange
    <3>4. \A z \in h.a + 1 .. r.a : h.coll[z] = e => Gone(h, e, h.m)
      BY <1>1, <1>2
    <3>5. InfoAt(r, e, h.m) = InfoAt(h, e, h.m)
      BY <1>1, <1>3, <3>2, <3>3, <3>4, InfoKept
    <3>6. r.m \in r.b + 1 .. r.m /\ New(r, r.m) /\ e \in r.a + 1 .. r.m - 1 /\ r.m - 1 = h.m
      BY <1>1, <1>2, <1>3, <3>1 DEF New
    <3>7. ~First(r, r.m)
      BY <1>3, <1>12
    <3>8. InfoAt(r, e, r.m) = InfoAt(r, e, r.m - 1)
      BY <1>4, <1>14, <3>6, <3>7, NewInfo
    <3>9. QED
      BY <3>5, <3>6, <3>8
  <2>3. QED
    BY <2>1, <2>2
<1>20. InfoAt(r, r.m, r.m) = InfoOf(r.ev[r.m])
  <2>1. r.m \in Nat /\ r.a < r.m /\ New(r, r.m)
    BY <1>1, <1>2, <1>3 DEF New
  <2>2. ~Gone(r, r.m, r.m)
    <3>1. r.coll[r.m] # 0 => r.m < r.coll[r.m] /\ r.coll[r.m] \in Nat
      BY <1>4, <1>14, <2>1, CollRange
    <3>2. QED
      BY <2>1, <3>1 DEF Gone
  <2>3. Start(r, r.m) < r.m
    BY <1>4, <2>1, StartRange
  <2>4. QED
    BY <1>4, <1>14, <2>1, <2>2, <2>3, FreshInfo
<1>x. LogPt(r)
  <2>1. h.pt[h.b] = NoGen /\ h.pt[h.c] = NoGen
    BY DEF LogOK, LogPt
  <2>2. r.pt[h.m + 1] = h.pt[h.m] /\ \A j \in 0 .. h.m : r.pt[j] = h.pt[j]
    BY <1>2 DEF NewLog
  <2>3. h.b \in 0 .. h.m /\ h.c \in 0 .. h.m
    BY <1>1
  <2>4. QED
    BY ONLY <1>2, <2>1, <2>2, <2>3 DEF LogPt
<1>21. LogOK(r)
  BY <1>4, <1>14, <1>15, <1>16, <1>17, <1>x DEF LogOK
<1>22. QED
  BY <1>2, <1>13, <1>18, <1>19, <1>20, <1>21

(* The newest event is as it was made, if it is new.                       *)
LEMMA LastInfo ==
  ASSUME NEW r \in Log, LogShape(r), LogColl(r), r.a < r.m, New(r, r.m)
  PROVE  InfoAt(r, r.m, r.m) = InfoOf(r.ev[r.m]) /\ ~Gone(r, r.m, r.m)
<1>1. r.m \in Nat
  BY LogTypes
<1>2. ~Gone(r, r.m, r.m)
  <2>1. r.coll[r.m] # 0 => r.m < r.coll[r.m] /\ r.coll[r.m] \in Nat
    BY <1>1, CollRange
  <2>2. QED
    BY <1>1, <2>1 DEF Gone
<1>3. Start(r, r.m) < r.m
  BY <1>1, StartRange
<1>4. QED
  BY <1>1, <1>2, <1>3, FreshInfo

(* The pending event begins a new list, because everything announced is    *)
(* collected.                                                              *)
LEMMA FirstLog ==
  ASSUME NEW h \in Log, LogOK(h), LogEvents(h, h.m + 1), New(h, h.m + 1),
         h.ord[h.m] # <<>>, h.pt[h.m] = NoGen,
         \A e \in h.a + 1 .. h.m : ~Gone(h, e, h.m) => Start(h, h.m) < e
  PROVE  \E r \in Log :
           /\ NewLog(h, r) /\ LogOK(r) /\ LogEvents(r, r.m) /\ SameCells(h, r)
           /\ r.a = (IF h.b < h.c THEN h.b ELSE h.a) /\ r.b = h.c /\ r.c = h.m
           /\ h.a <= r.a /\ r.a < r.b
           /\ \A e \in h.a + 1 .. r.a : StatusAt(h, e, h.m) = "COLLECTED_TWICE"
           /\ \A e \in r.a + 1 .. h.m :
                /\ StatusAt(h, e, h.m) # "COLLECTED_TWICE"
                /\ Gone(h, e, h.m) => InfoAt(r, e, r.m) = InfoAt(h, e, h.m)
                /\ ~Gone(h, e, h.m) =>
                     InfoAt(r, e, r.m) = [InfoAt(h, e, h.m) EXCEPT !.status = "TO_BE_COLLECTED"]
           /\ InfoAt(r, r.m, r.m) = InfoOf(r.ev[r.m])
<1>0. LogShape(h) /\ LogColl(h) /\ LogOrd(h) /\ LogSteps(h) /\ LogUp(h)
  BY DEF LogOK
<1>1. /\ h.m \in Nat /\ h.a \in Nat /\ h.b \in Nat /\ h.c \in Nat
      /\ h.a <= h.b /\ h.b <= h.c /\ h.c <= h.m
  <2>1. h.m \in Nat /\ h.a \in Nat /\ h.b \in Nat /\ h.c \in Nat
    BY LogTypes
  <2>2. QED
    BY <1>0, <2>1, StartRange
<1>2. h.a < h.m
  <2>1. h.m \in h.b .. h.m
    BY <1>1
  <2>2. OrdAt(h, h.m)
    BY <1>0, <2>1 DEF LogOrd
  <2>3. PICK o \in Seq(Gens) : o = h.ord[h.m]
    BY <1>1, EventTypes
  <2>4. 1 \in 1 .. Len(o)
    BY <2>3
  <2>5. PICK e \in h.a + 1 .. h.m : o[1] = h.ev[e].gn
    BY <2>2, <2>3, <2>4 DEF OrdAt
  <2>6. QED
    BY <1>1
<1>3. h.b < h.c => h.a < h.b /\ h.c < h.m
  BY <1>0, <1>1 DEF LogShape
<1>4. h.b = h.c => h.a < h.b
  BY <1>0, <1>1, <1>2 DEF LogShape
<1>5. PICK r \in Log : /\ NewLog(h, r) /\ r.a = (IF h.b < h.c THEN h.b ELSE h.a)
                       /\ r.b = h.c /\ r.c = h.m
  <2>1. PICK a \in Nat : a = (IF h.b < h.c THEN h.b ELSE h.a)
    BY <1>1
  <2>2. PICK b \in Nat : b = h.c
    BY <1>1
  <2>3. PICK c \in Nat : c = h.m
    BY <1>1
  <2>4. PICK r \in Log : NewLog(h, r) /\ r.a = a /\ r.b = b /\ r.c = c
    BY ONLY NewLogExists, h \in Log, a \in Nat, b \in Nat, c \in Nat
  <2>5. QED
    BY <2>1, <2>2, <2>3, <2>4
<1>6. r.m = h.m + 1 /\ r.ev = h.ev /\ r.coll = h.coll
  BY <1>5 DEF NewLog
<1>7. h.a <= r.a /\ r.a < r.b /\ h.b <= r.b /\ r.a \in Nat
  BY <1>1, <1>3, <1>4, <1>5
<1>8. LogShape(r)
  BY <1>1, <1>5, <1>6, <1>7 DEF LogShape
<1>9. ASSUME NEW j \in r.b .. h.m PROVE Start(r, j) = Start(h, j)
  BY <1>1, <1>3, <1>5, <1>9 DEF Start
<1>10. ASSUME NEW j \in r.b + 1 .. h.m PROVE First(r, j) <=> First(h, j)
  BY <1>1, <1>5, <1>10 DEF First
<1>11. Start(h, h.m) = (IF h.c < h.m THEN h.c ELSE h.a)
  BY <1>0, <1>1, <1>3 DEF Start, LogShape
<1>12. \A e \in h.a + 1 .. r.a : h.b < h.c /\ Gone(h, e, r.b)
  BY <1>0, <1>1, <1>5 DEF LogColl
<1>13. h.c < h.m => \A e \in h.a + 1 .. h.c : Gone(h, e, h.m)
  BY <1>1, <1>11
<1>14. r.b < r.c => \A e \in r.a + 1 .. r.b : Gone(h, e, r.c)
  BY <1>1, <1>5, <1>7, <1>13
<1>15. ASSUME NEW e \in Nat, r.a < e, h.coll[e] # 0 PROVE r.b <= h.coll[e]
  <2>1. /\ h.coll[e] \in Nat /\ h.b < h.coll[e] /\ (h.b < e => h.c < h.coll[e])
    BY <1>0, <1>1, <1>7, <1>15, CollRange
  <2>2. QED
    BY <1>1, <1>5, <1>15, <2>1
<1>16. Compatible(h, r)
  BY <1>7, <1>8, <1>9, <1>10, <1>12, <1>14, <1>15 DEF Compatible
<1>17. Start(r, h.m + 1) = h.m /\ First(r, h.m + 1)
  BY <1>1, <1>5 DEF Start, First
<1>18. LogEvents(r, r.m)
  <2>1. r.c = r.m => h.c = h.m
    BY <1>1, <1>5, <1>6
  <2>2. QED
    BY <1>0, <1>5, <1>16, <2>1, NewLogEvents
<1>19. LogColl(r)
  BY <1>0, <1>5, <1>16, NewLogColl
<1>20. LogOrd(r)
  BY <1>0, <1>5, <1>16, <1>17, NewLogOrd
<1>21. LogSteps(r)
  BY <1>0, <1>5, <1>16, NewLogSteps
<1>22. LogUp(r)
  BY <1>0, <1>5, <1>16, NewLogUp
<1>23. SameCells(h, r)
  BY <1>0, <1>1, <1>3, <1>5 DEF SameCells, First, LogShape
<1>24. ASSUME NEW e \in r.a + 1 .. h.m
       PROVE  /\ StatusAt(h, e, h.m) # "COLLECTED_TWICE"
              /\ Gone(h, e, h.m) => InfoAt(r, e, r.m) = InfoAt(h, e, h.m)
              /\ ~Gone(h, e, h.m) =>
                   InfoAt(r, e, r.m) = [InfoAt(h, e, h.m) EXCEPT !.status = "TO_BE_COLLECTED"]
  <2>1. /\ e \in Nat /\ h.a <= r.a /\ h.m <= r.m /\ r.a < e /\ e <= h.m /\ h.m <= h.m
        /\ r.ev[e] = h.ev[e]
    BY <1>1, <1>6, <1>7
  <2>2. Start(r, h.m) = Start(h, h.m)
    BY <1>1, <1>5, <1>9
  <2>3. \A z \in Nat : h.a < z /\ h.coll[z] # 0 => z < h.coll[z]
    BY <1>0, CollRange
  <2>4. ASSUME NEW z \in h.a + 1 .. r.a, h.coll[z] = e PROVE Gone(h, e, h.m)
    <3>1. h.b < h.c /\ Gone(h, z, r.b)
      BY <1>12
    <3>2. e <= h.c
      BY <1>5, <2>4, <3>1 DEF Gone
    <3>3. e \in h.a + 1 .. h.c
      BY <1>1, <1>7, <2>1, <3>2
    <3>4. QED
      BY <1>3, <1>13, <3>1, <3>3
  <2>5. InfoAt(r, e, h.m) = InfoAt(h, e, h.m) /\ (Gone(r, e, h.m) <=> Gone(h, e, h.m))
    BY <1>1, <1>6, <2>1, <2>2, <2>3, <2>4, InfoKept
  <2>6. r.m \in r.b + 1 .. r.m /\ New(r, r.m) /\ e \in r.a + 1 .. r.m - 1 /\ r.m - 1 = h.m
    BY <1>1, <1>5, <1>6 DEF New
  <2>7. First(r, r.m)
    BY <1>6, <1>17
  <2>8. /\ Gone(r, e, h.m) => InfoAt(r, e, r.m) = InfoAt(r, e, h.m)
        /\ ~Gone(r, e, h.m) =>
             InfoAt(r, e, r.m) = [InfoAt(r, e, h.m) EXCEPT !.status = "TO_BE_COLLECTED"]
        /\ StatusAt(r, e, h.m) # "COLLECTED_TWICE"
    BY <1>8, <1>19, <2>6, <2>7, NewInfo
  <2>9. StatusAt(h, e, h.m) = StatusAt(r, e, h.m)
    <3>1. InfoAt(r, e, h.m).status = StatusAt(r, e, h.m) /\ InfoAt(h, e, h.m).status = StatusAt(h, e, h.m)
      BY DEF InfoAt
    <3>2. QED
      BY <2>5, <3>1
  <2>10. QED
    BY <2>5, <2>8, <2>9
<1>25. ASSUME NEW e \in h.a + 1 .. r.a PROVE StatusAt(h, e, h.m) = "COLLECTED_TWICE"
  <2>1. h.b < h.c /\ Gone(h, e, r.b) /\ e \in Nat /\ h.a < e
    BY <1>1, <1>7, <1>12
  <2>2. PICK x \in Nat : x = h.coll[e]
    BY <2>1, EventTypes
  <2>3. x # 0 /\ x <= h.c /\ e < x
    BY <1>0, <1>5, <2>1, <2>2, CollRange DEF Gone
  <2>4. x \in h.a + 1 .. h.c
    BY <1>1, <2>1, <2>3
  <2>5. Gone(h, x, h.m) /\ h.c < h.m
    BY <1>3, <1>13, <2>1, <2>4
  <2>6. Gone(h, e, h.m)
    BY <1>1, <2>2, <2>3, <2>5 DEF Gone
  <2>7. QED
    BY <2>2, <2>5, <2>6 DEF StatusAt
<1>26. InfoAt(r, r.m, r.m) = InfoOf(r.ev[r.m])
  <2>1. r.a < r.m /\ New(r, r.m)
    BY <1>1, <1>5, <1>6, <1>7 DEF New
  <2>2. QED
    BY <1>8, <1>19, <2>1, LastInfo
<1>x. LogPt(r)
  <2>1. h.pt[h.c] = NoGen
    BY DEF LogOK, LogPt
  <2>2. \A j \in 0 .. h.m : r.pt[j] = h.pt[j]
    BY <1>5 DEF NewLog
  <2>3. h.m \in 0 .. h.m /\ h.c \in 0 .. h.m
    BY <1>1
  <2>4. QED
    BY ONLY <1>5, <2>1, <2>2, <2>3, h.pt[h.m] = NoGen DEF LogPt
<1>27. LogOK(r)
  BY <1>8, <1>19, <1>20, <1>21, <1>22, <1>x DEF LogOK
<1>28. QED
  BY <1>5, <1>7, <1>18, <1>23, <1>24, <1>25, <1>26, <1>27

--------------------------------------------------------------------------------
(* ... or one that a step of the collector made of the k generations at    *)
(* position i of the live ones.                                            *)
CanCollect(h, i, k, ev) ==
  /\ LogOK(h) /\ LogEvents(h, h.m) /\ h.c < h.m
  /\ i \in 1 .. Len(h.ord[h.m]) /\ k \in 1 .. Len(h.ord[h.m]) - i + 1
  /\ \A q \in 1 .. Len(h.ord[h.m]), e \in h.a + 1 .. h.m :
       h.ord[h.m][q] = h.ev[e].gn => (i <= q <=> e <= Start(h, h.m))
  /\ h.pt[h.m] = NoGen \/ (1 < i /\ h.pt[h.m] = h.ord[h.m][i - 1])
  /\ ev \in Event /\ ev.nfrom = k /\ Len(ev.page) = Len(ev.diskPage) /\ Distinct(ev.page)
  /\ \A e \in h.a + 1 .. h.m :
       /\ h.ev[e].gn # ev.gn
       /\ ToSet(h.ev[e].diskPage) \cap ToSet(ev.diskPage) = {}
       /\ ~Gone(h, e, h.m) => ToSet(h.ev[e].page) \cap ToSet(ev.page) = {}
CollectLog(h, r, i, k, ev, x) ==
  /\ r.m = h.m + 1 /\ r.a = h.a /\ r.b = h.b /\ r.c = h.c
  /\ \A j \in 0 .. h.m : /\ r.ev[j] = h.ev[j] /\ r.ptr[j] = h.ptr[j] /\ r.pos[j] = h.pos[j]
                         /\ r.ord[j] = h.ord[j] /\ r.pt[j] = h.pt[j] /\ r.up[j] = h.up[j]
  /\ r.ev[h.m + 1] = ev /\ r.ptr[h.m + 1] = x /\ r.pos[h.m + 1] = i
  /\ r.ord[h.m + 1] = Splice(h.ord[h.m], i, k, ev.gn)
  /\ r.pt[h.m + 1] = (IF i + k <= Len(h.ord[h.m]) THEN ev.gn ELSE NoGen)
  /\ r.up[h.m + 1] = <<>>
  /\ \A e \in Nat :
       r.coll[e] = IF /\ e \in h.a + 1 .. h.m
                      /\ \E q \in i .. i + k - 1 : h.ord[h.m][q] = h.ev[e].gn
                   THEN h.m + 1 ELSE h.coll[e]

LEMMA CollectLogFacts ==
  ASSUME NEW h \in Log, NEW r \in Log, NEW i, NEW k, NEW ev, NEW x,
         CanCollect(h, i, k, ev), CollectLog(h, r, i, k, ev, x)
  PROVE  /\ h.m \in Nat /\ h.a \in Nat /\ h.b \in Nat /\ h.c \in Nat
         /\ h.a < h.b /\ h.b <= h.c /\ h.c < h.m
         /\ h.ord[h.m] \in Seq(Gens) /\ i \in Nat /\ k \in Nat /\ i >= 1 /\ k >= 1
         /\ i + k - 1 <= Len(h.ord[h.m]) /\ Len(h.ord[h.m]) \in Nat
         /\ Start(h, h.m) = h.c /\ LogShape(r)
         /\ \A j \in Nat : Start(r, j) = Start(h, j) /\ (First(r, j) <=> First(h, j))
         /\ \A e \in h.a + 1 .. h.m, q \in 1 .. Len(h.ord[h.m]) :
              h.ord[h.m][q] = h.ev[e].gn => h.coll[e] = 0
         /\ \A e \in Nat : h.coll[e] \in Nat /\ r.coll[e] \in Nat
         /\ \A e \in Nat : h.a < e => r.coll[e] = h.coll[e] \/ (h.coll[e] = 0 /\ r.coll[e] = h.m + 1)
         /\ \A e \in Nat : h.a < e /\ h.coll[e] # 0 => h.coll[e] <= h.m /\ e < h.coll[e]
<1>0. LogShape(h) /\ LogColl(h) /\ LogOrd(h) /\ LogSteps(h) /\ LogUp(h) /\ LogEvents(h, h.m)
  BY DEF LogOK, CanCollect
<1>1. /\ h.m \in Nat /\ h.a \in Nat /\ h.b \in Nat /\ h.c \in Nat
  BY LogTypes
<1>2. h.a < h.b /\ h.b <= h.c /\ h.c < h.m
  BY <1>0, <1>1 DEF CanCollect, LogShape
<1>3. r.m = h.m + 1 /\ r.a = h.a /\ r.b = h.b /\ r.c = h.c
  BY DEF CollectLog
<1>4. LogShape(r)
  BY <1>1, <1>2, <1>3 DEF LogShape
<1>5. PICK o \in Seq(Gens) : o = h.ord[h.m]
  BY <1>1, EventTypes
<1>6. i \in 1 .. Len(o) /\ k \in 1 .. Len(o) - i + 1
  BY <1>5 DEF CanCollect
<1>7. i \in Nat /\ k \in Nat /\ i >= 1 /\ k >= 1 /\ i + k - 1 <= Len(o) /\ Len(o) \in Nat
  <2>1. Len(o) \in Nat
    OBVIOUS
  <2>2. QED
    BY <1>6, <2>1
<1>8. Start(h, h.m) = h.c
  BY <1>1, <1>2 DEF Start
<1>9. \A j \in Nat : Start(r, j) = Start(h, j) /\ (First(r, j) <=> First(h, j))
  BY <1>3 DEF Start, First
<1>10. \A e \in Nat : h.a < e /\ h.coll[e] # 0 => h.coll[e] <= h.m /\ e < h.coll[e]
  BY <1>0, CollRange
<1>11. \A e \in Nat : h.coll[e] \in Nat /\ r.coll[e] \in Nat
  BY EventTypes
<1>12. ASSUME NEW e \in h.a + 1 .. h.m, NEW q \in 1 .. Len(o), o[q] = h.ev[e].gn
       PROVE  h.coll[e] = 0
  <2>1. h.m \in h.b .. h.m
    BY <1>1, <1>2
  <2>2. OrdAt(h, h.m)
    BY <1>0, <2>1 DEF LogOrd
  <2>3. PICK y \in h.a + 1 .. h.m : o[q] = h.ev[y].gn /\ ~Gone(h, y, h.m)
    BY <1>5, <2>2 DEF OrdAt
  <2>4. y = e
    BY <1>0, <1>12, <2>3 DEF LogEvents
  <2>5. e \in Nat /\ h.a < e
    BY <1>1
  <2>6. QED
    BY <1>10, <2>3, <2>4, <2>5 DEF Gone
<1>13. ASSUME NEW e \in Nat, h.a < e
       PROVE  r.coll[e] = h.coll[e] \/ (h.coll[e] = 0 /\ r.coll[e] = h.m + 1)
  <2>1. r.coll[e] = IF /\ e \in h.a + 1 .. h.m
                       /\ \E q \in i .. i + k - 1 : o[q] = h.ev[e].gn
                    THEN h.m + 1 ELSE h.coll[e]
    BY <1>5 DEF CollectLog
  <2>2. ASSUME e \in h.a + 1 .. h.m, NEW q \in i .. i + k - 1, o[q] = h.ev[e].gn
        PROVE  h.coll[e] = 0
    <3>1. q \in 1 .. Len(o)
      BY <1>7
    <3>2. QED
      BY <1>12, <2>2, <3>1
  <2>3. QED
    BY <2>1, <2>2
<1>14. QED
  BY <1>1, <1>2, <1>4, <1>5, <1>7, <1>8, <1>9, <1>10, <1>11, <1>12, <1>13

LEMMA CollectLogColl ==
  ASSUME NEW h \in Log, NEW r \in Log, NEW i, NEW k, NEW ev, NEW x,
         CanCollect(h, i, k, ev), CollectLog(h, r, i, k, ev, x)
  PROVE  LogColl(r)
<1>0. LogColl(h)
  BY DEF LogOK, CanCollect
<1>1. /\ h.m \in Nat /\ h.a \in Nat /\ h.b \in Nat /\ h.c \in Nat
      /\ h.a < h.b /\ h.b <= h.c /\ h.c < h.m
      /\ i \in Nat /\ k \in Nat /\ i >= 1 /\ k >= 1
      /\ i + k - 1 <= Len(h.ord[h.m]) /\ Len(h.ord[h.m]) \in Nat
      /\ Start(h, h.m) = h.c
  BY CollectLogFacts
<1>2. /\ \A j \in Nat : Start(r, j) = Start(h, j) /\ (First(r, j) <=> First(h, j))
      /\ \A e \in Nat : h.coll[e] \in Nat /\ r.coll[e] \in Nat
      /\ \A e \in Nat : h.a < e => r.coll[e] = h.coll[e] \/ (h.coll[e] = 0 /\ r.coll[e] = h.m + 1)
      /\ \A e \in Nat : h.a < e /\ h.coll[e] # 0 => h.coll[e] <= h.m /\ e < h.coll[e]
  BY CollectLogFacts
<1>3. r.m = h.m + 1 /\ r.a = h.a /\ r.b = h.b /\ r.c = h.c
  BY DEF CollectLog
<1>4. ASSUME NEW e \in Nat, h.a < e, r.coll[e] # 0
      PROVE  r.coll[e] <= r.m /\ ~New(r, r.coll[e]) /\ e <= Start(r, r.coll[e])
  <2>1. CASE h.coll[e] # 0
    <3>1. r.coll[e] = h.coll[e]
      BY <1>2, <1>4, <2>1
    <3>2. h.coll[e] <= h.m /\ ~New(h, h.coll[e]) /\ e <= Start(h, h.coll[e])
      BY <1>0, <1>4, <2>1 DEF LogColl, Index
    <3>3. h.coll[e] \in 0 .. h.m
      BY <1>1, <1>2, <3>2
    <3>4. r.ev[h.coll[e]] = h.ev[h.coll[e]]
      BY <3>3 DEF CollectLog
    <3>5. ~New(r, h.coll[e])
      BY <3>2, <3>4 DEF New
    <3>6. Start(r, h.coll[e]) = Start(h, h.coll[e])
      BY <1>2
    <3>7. r.coll[e] <= r.m
      BY <1>1, <1>3, <3>1, <3>3
    <3>8. QED
      BY <3>1, <3>2, <3>5, <3>6, <3>7
  <2>2. CASE h.coll[e] = 0
    <3>1. r.coll[e] = h.m + 1
      BY <1>2, <1>4, <2>2
    <3>2. e \in h.a + 1 .. h.m /\ \E q \in i .. i + k - 1 : h.ord[h.m][q] = h.ev[e].gn
      <4>1. r.coll[e] # h.coll[e]
        BY <1>1, <2>2, <3>1
      <4>2. QED
        BY <4>1 DEF CollectLog
    <3>3. PICK q \in i .. i + k - 1 : h.ord[h.m][q] = h.ev[e].gn
      BY <3>2
    <3>4. q \in 1 .. Len(h.ord[h.m]) /\ i <= q
      BY <1>1
    <3>5. e <= h.c
      BY <1>1, <3>2, <3>3, <3>4 DEF CanCollect
    <3>6. r.ev[h.m + 1].nfrom = k
      BY DEF CollectLog, CanCollect
    <3>7. ~New(r, h.m + 1)
      BY <1>1, <3>6 DEF New
    <3>8. Start(r, h.m + 1) = h.c
      BY <1>1, <1>3 DEF Start
    <3>9. QED
      BY <1>3, <3>1, <3>5, <3>7, <3>8, <1>1
  <2>3. QED
    BY <2>1, <2>2
<1>5. ASSUME h.b < h.c, NEW e \in h.a + 1 .. h.b PROVE Gone(r, e, h.c)
  <2>1. Gone(h, e, h.c) /\ e \in Nat /\ h.a < e
    BY <1>0, <1>1, <1>5 DEF LogColl
  <2>2. QED
    BY <1>2, <2>1 DEF Gone
<1>6. QED
  BY <1>3, <1>4, <1>5 DEF LogColl, Index

LEMMA CollectLogEvents ==
  ASSUME NEW h \in Log, NEW r \in Log, NEW i, NEW k, NEW ev, NEW x,
         CanCollect(h, i, k, ev), CollectLog(h, r, i, k, ev, x)
  PROVE  LogEvents(r, r.m)
<1>0. LogEvents(h, h.m)
  BY DEF CanCollect
<1>1. /\ h.m \in Nat /\ h.a \in Nat /\ h.b \in Nat /\ h.c \in Nat
      /\ h.a < h.b /\ h.b <= h.c /\ h.c < h.m
  BY CollectLogFacts
<1>2. /\ \A j \in Nat : (First(r, j) <=> First(h, j))
      /\ \A e \in Nat : h.coll[e] \in Nat /\ r.coll[e] \in Nat
      /\ \A e \in Nat : h.a < e => r.coll[e] = h.coll[e] \/ (h.coll[e] = 0 /\ r.coll[e] = h.m + 1)
      /\ \A e \in Nat : h.a < e /\ h.coll[e] # 0 => h.coll[e] <= h.m /\ e < h.coll[e]
  BY CollectLogFacts
<1>3. r.m = h.m + 1 /\ r.a = h.a /\ r.b = h.b /\ r.c = h.c /\ r.ev[h.m + 1] = ev
  BY DEF CollectLog
<1>4. \A j \in h.a + 1 .. r.m : j \in Nat /\ h.a < j /\ (j = h.m + 1 \/ (j \in h.a + 1 .. h.m /\ j < h.m + 1))
  BY <1>1, <1>3
<1>5. \A j \in h.a + 1 .. h.m : r.ev[j] = h.ev[j]
  <2>1. \A j \in h.a + 1 .. h.m : j \in 0 .. h.m
    BY <1>1
  <2>2. QED
    BY <2>1 DEF CollectLog
<1>6. /\ Len(ev.page) = Len(ev.diskPage) /\ Distinct(ev.page)
      /\ \A e \in h.a + 1 .. h.m :
           /\ h.ev[e].gn # ev.gn
           /\ ToSet(h.ev[e].diskPage) \cap ToSet(ev.diskPage) = {}
           /\ ~Gone(h, e, h.m) => ToSet(h.ev[e].page) \cap ToSet(ev.page) = {}
  BY DEF CanCollect
<1>7. ASSUME NEW j \in h.a + 1 .. r.m
      PROVE  Len(r.ev[j].page) = Len(r.ev[j].diskPage) /\ Distinct(r.ev[j].page)
  <2>1. CASE j = h.m + 1
    BY <1>3, <1>6, <2>1
  <2>2. CASE j \in h.a + 1 .. h.m
    BY <1>0, <1>5, <2>2 DEF LogEvents
  <2>3. QED
    BY <1>4, <2>1, <2>2
<1>8. ASSUME NEW y \in h.a + 1 .. r.m, NEW z \in h.a + 1 .. r.m, r.ev[y].gn = r.ev[z].gn
      PROVE  y = z
  <2>1. CASE y \in h.a + 1 .. h.m /\ z \in h.a + 1 .. h.m
    BY <1>0, <1>5, <1>8, <2>1 DEF LogEvents
  <2>2. CASE y = h.m + 1 \/ z = h.m + 1
    BY <1>3, <1>4, <1>5, <1>6, <1>8, <2>2
  <2>3. QED
    BY <1>4, <2>1, <2>2
<1>9. ASSUME NEW y \in h.a + 1 .. r.m, NEW z \in h.a + 1 .. r.m, y # z
      PROVE  ToSet(r.ev[y].diskPage) \cap ToSet(r.ev[z].diskPage) = {}
  <2>1. CASE y \in h.a + 1 .. h.m /\ z \in h.a + 1 .. h.m
    BY <1>0, <1>5, <1>9, <2>1 DEF LogEvents
  <2>2. CASE y = h.m + 1 \/ z = h.m + 1
    BY <1>3, <1>4, <1>5, <1>6, <1>9, <2>2
  <2>3. QED
    BY <1>4, <2>1, <2>2
<1>10. ASSUME NEW y \in h.a + 1 .. r.m, NEW z \in h.a + 1 .. r.m, y < z,
              r.coll[y] = 0 \/ r.coll[y] >= z
       PROVE  ToSet(r.ev[y].page) \cap ToSet(r.ev[z].page) = {}
  <2>1. y \in h.a + 1 .. h.m /\ y \in Nat /\ z \in Nat /\ h.a < y
    BY <1>1, <1>4, <1>10
  <2>2. h.coll[y] = 0 \/ h.coll[y] >= z
    BY <1>1, <1>2, <1>10, <2>1
  <2>3. CASE z \in h.a + 1 .. h.m
    BY <1>0, <1>5, <1>10, <2>1, <2>2, <2>3 DEF LogEvents
  <2>4. CASE z = h.m + 1
    <3>1. h.coll[y] = 0
      BY <1>1, <1>2, <2>1, <2>2, <2>4
    <3>2. ~Gone(h, y, h.m)
      BY <3>1 DEF Gone
    <3>3. QED
      BY <1>3, <1>5, <1>6, <2>1, <2>4, <3>2
  <2>5. QED
    BY <1>4, <2>3, <2>4
<1>11. ASSUME NEW j \in h.a + 1 .. r.m, r.c = r.m \/ First(r, j) PROVE New(r, j)
  <2>1. First(h, j) /\ j \in Nat
    BY <1>1, <1>2, <1>3, <1>4, <1>11
  <2>2. j \in h.a + 1 .. h.m
    BY <1>1, <1>4, <2>1 DEF First
  <2>3. QED
    BY <1>0, <1>5, <2>1, <2>2 DEF LogEvents, New
<1>12. QED
  BY <1>3, <1>7, <1>8, <1>9, <1>10, <1>11 DEF LogEvents

LEMMA CollectLogUp ==
  ASSUME NEW h \in Log, NEW r \in Log, NEW i, NEW k, NEW ev, NEW x,
         CanCollect(h, i, k, ev), CollectLog(h, r, i, k, ev, x)
  PROVE  LogUp(r)
<1>0. LogUp(h)
  BY DEF LogOK, CanCollect
<1>1. /\ h.m \in Nat /\ h.b \in Nat /\ h.b <= h.m /\ k >= 1 /\ k \in Nat
  <2>1. h.m \in Nat /\ h.b \in Nat /\ h.c \in Nat /\ h.b <= h.c /\ h.c < h.m /\ k >= 1 /\ k \in Nat
    BY CollectLogFacts
  <2>2. QED
    BY <2>1
<1>2. r.m = h.m + 1 /\ r.b = h.b /\ r.up[h.m + 1] = <<>> /\ r.ev[h.m + 1].nfrom = k
  BY DEF CollectLog, CanCollect
<1>3. \A j \in 0 .. h.m : r.ev[j] = h.ev[j] /\ r.up[j] = h.up[j]
  BY DEF CollectLog
<1>4. ASSUME NEW j \in h.b + 1 .. h.m
      PROVE  r.up[j - 1] = IF New(r, j) THEN Append(r.up[j], r.ev[j].gn) ELSE r.up[j]
  <2>1. j \in 0 .. h.m /\ j - 1 \in 0 .. h.m
    BY <1>1
  <2>2. h.up[j - 1] = IF New(h, j) THEN Append(h.up[j], h.ev[j].gn) ELSE h.up[j]
    BY <1>0 DEF LogUp
  <2>3. New(r, j) <=> New(h, j)
    BY <1>3, <2>1 DEF New
  <2>4. r.up[j - 1] = h.up[j - 1] /\ r.up[j] = h.up[j] /\ r.ev[j] = h.ev[j]
    BY <1>3, <2>1
  <2>5. QED
    BY <2>2, <2>3, <2>4
<1>5. ~New(r, h.m + 1)
  BY <1>1, <1>2 DEF New
<1>6. r.up[h.m] = <<>>
  BY <1>0, <1>1, <1>3 DEF LogUp
<1>7. ASSUME NEW j \in h.b + 1 .. r.m
      PROVE  r.up[j - 1] = IF New(r, j) THEN Append(r.up[j], r.ev[j].gn) ELSE r.up[j]
  <2>1. j \in h.b + 1 .. h.m \/ (j = h.m + 1 /\ j - 1 = h.m)
    BY <1>1, <1>2
  <2>2. CASE j = h.m + 1 /\ j - 1 = h.m
    BY <1>2, <1>5, <1>6, <2>2
  <2>3. QED
    BY <1>4, <2>1, <2>2
<1>8. QED
  BY <1>2, <1>7 DEF LogUp

LEMMA CollectLogSteps ==
  ASSUME NEW h \in Log, NEW r \in Log, NEW i, NEW k, NEW ev, NEW x,
         CanCollect(h, i, k, ev), CollectLog(h, r, i, k, ev, x)
  PROVE  LogSteps(r)
<1>0. LogSteps(h)
  BY DEF LogOK, CanCollect
<1>1. /\ h.m \in Nat /\ h.a \in Nat /\ h.b \in Nat /\ h.c \in Nat
      /\ h.a < h.b /\ h.b <= h.c /\ h.c < h.m /\ k >= 1 /\ k \in Nat /\ Start(h, h.m) = h.c
  BY CollectLogFacts
<1>2. /\ \A j \in Nat : Start(r, j) = Start(h, j) /\ (First(r, j) <=> First(h, j))
      /\ \A e \in Nat : h.coll[e] \in Nat /\ r.coll[e] \in Nat
      /\ \A e \in Nat : h.a < e => r.coll[e] = h.coll[e] \/ (h.coll[e] = 0 /\ r.coll[e] = h.m + 1)
      /\ \A e \in Nat : h.a < e /\ h.coll[e] # 0 => h.coll[e] <= h.m /\ e < h.coll[e]
  BY CollectLogFacts
<1>3. /\ r.m = h.m + 1 /\ r.a = h.a /\ r.b = h.b /\ r.c = h.c
      /\ r.ev[h.m + 1] = ev /\ ev.nfrom = k
  BY DEF CollectLog, CanCollect
<1>4. \A j \in 0 .. h.m : /\ r.ev[j] = h.ev[j] /\ r.pos[j] = h.pos[j]
                          /\ r.ord[j] = h.ord[j] /\ r.pt[j] = h.pt[j]
  BY DEF CollectLog
<1>5. ASSUME NEW j \in h.b + 1 .. h.m
      PROVE  IF New(r, j) THEN NewStep(r, j) ELSE CollectStep(r, j)
  <2>1. j \in 0 .. h.m /\ j - 1 \in 0 .. h.m /\ j \in Nat
    BY <1>1
  <2>2. /\ r.ord[j] = h.ord[j] /\ r.ord[j - 1] = h.ord[j - 1] /\ r.pt[j] = h.pt[j]
        /\ r.pt[j - 1] = h.pt[j - 1] /\ r.pos[j] = h.pos[j] /\ r.ev[j] = h.ev[j]
    BY <1>4, <2>1
  <2>3. (First(r, j) <=> First(h, j)) /\ Start(r, j) = Start(h, j) /\ (New(r, j) <=> New(h, j))
    BY <1>2, <2>1, <2>2 DEF New
  <2>4. IF New(h, j) THEN NewStep(h, j) ELSE CollectStep(h, j)
    BY <1>0 DEF LogSteps
  <2>5. CASE New(h, j)
    BY <2>2, <2>3, <2>4, <2>5 DEF NewStep
  <2>6. CASE ~New(h, j)
    <3>1. \A e \in h.a + 1 .. j - 1 : /\ r.ev[e] = h.ev[e]
                                      /\ r.coll[e] = j <=> h.coll[e] = j
      <4>1. \A e \in h.a + 1 .. j - 1 : e \in 0 .. h.m /\ e \in Nat /\ h.a < e /\ j # 0 /\ j # h.m + 1
        BY <1>1, <2>1
      <4>2. QED
        BY <1>2, <1>4, <4>1
    <3>2. CollectStep(r, j)
      <4>1. PICK u, p, n, t : u = h.ord[j - 1] /\ p = h.pos[j] /\ n = h.ev[j].nfrom /\ t = h.pt[j - 1]
        OBVIOUS
      <4>2. /\ p \in 1 .. Len(u) /\ n \in 1 .. Len(u) - p + 1
            /\ \A q \in 1 .. Len(u), e \in h.a + 1 .. j - 1 :
                 u[q] = h.ev[e].gn => (p <= q <=> e <= Start(h, j))
            /\ \A e \in h.a + 1 .. j - 1 :
                 h.coll[e] = j <=> \E q \in p .. p + n - 1 : u[q] = h.ev[e].gn
            /\ h.ord[j] = Splice(u, p, n, h.ev[j].gn)
            /\ t = NoGen \/ (1 < p /\ t = u[p - 1])
            /\ h.pt[j] = IF p + n <= Len(u) THEN h.ev[j].gn ELSE NoGen
        BY <2>4, <2>6, <4>1 DEF CollectStep
      <4>3. /\ \A q \in 1 .. Len(u), e \in r.a + 1 .. j - 1 :
                 u[q] = r.ev[e].gn => (p <= q <=> e <= Start(r, j))
            /\ \A e \in r.a + 1 .. j - 1 :
                 r.coll[e] = j <=> \E q \in p .. p + n - 1 : u[q] = r.ev[e].gn
        <5>1. r.a = h.a
          BY <1>3
        <5>2. ASSUME NEW q \in 1 .. Len(u), NEW e \in r.a + 1 .. j - 1, u[q] = r.ev[e].gn
              PROVE  p <= q <=> e <= Start(r, j)
          <6>1. e \in h.a + 1 .. j - 1 /\ u[q] = h.ev[e].gn
            <7>1. e \in h.a + 1 .. j - 1
              BY ONLY <5>1, e \in r.a + 1 .. j - 1, Zenon
            <7>2. r.ev[e] = h.ev[e]
              BY ONLY <3>1, <7>1, Zenon
            <7>3. QED
              BY <5>2, <7>1, <7>2
          <6>2. QED
            BY <2>3, <4>2, <6>1
        <5>3. ASSUME NEW e \in r.a + 1 .. j - 1
              PROVE  r.coll[e] = j <=> \E q \in p .. p + n - 1 : u[q] = r.ev[e].gn
          <6>1. e \in h.a + 1 .. j - 1
            BY ONLY <5>1, e \in r.a + 1 .. j - 1, Zenon
          <6>2. (r.coll[e] = j <=> h.coll[e] = j) /\ r.ev[e] = h.ev[e]
            BY ONLY <3>1, <6>1, Zenon
          <6>3. h.coll[e] = j <=> \E q \in p .. p + n - 1 : u[q] = h.ev[e].gn
            BY ONLY <4>2, <6>1, Zenon
          <6>4. QED
            BY ONLY <6>2, <6>3, Zenon
        <5>4. QED
          BY <5>2, <5>3
      <4>4. r.ord[j - 1] = u /\ r.pos[j] = p /\ r.ev[j].nfrom = n /\ r.pt[j - 1] = t
        BY <2>2, <4>1
      <4>5. QED
        BY ONLY <2>2, <4>2, <4>3, <4>4, Zenon DEF CollectStep
    <3>3. QED
      BY <2>3, <2>6, <3>2
  <2>7. QED
    BY <2>5, <2>6
<1>6. CollectStep(r, h.m + 1)
  <2>1. PICK n \in Nat : n = h.m + 1
    BY <1>1
  <2>2. n - 1 = h.m /\ h.m \in 0 .. h.m
    BY <1>1, <2>1
  <2>3. PICK o : o = h.ord[h.m]
    OBVIOUS
  <2>4. /\ r.ord[n - 1] = o /\ r.pt[n - 1] = h.pt[h.m] /\ r.pos[n] = i /\ r.ev[n] = ev
        /\ r.ord[n] = Splice(o, i, k, ev.gn)
        /\ r.pt[n] = (IF i + k <= Len(o) THEN ev.gn ELSE NoGen)
    <3>1. r.ord[n - 1] = o /\ r.pt[n - 1] = h.pt[h.m]
      BY <1>4, <2>2, <2>3
    <3>2. /\ r.pos[n] = i /\ r.ev[n] = ev
          /\ r.ord[n] = Splice(o, i, k, ev.gn)
          /\ r.pt[n] = (IF i + k <= Len(o) THEN ev.gn ELSE NoGen)
      BY ONLY <2>1, <2>3, CollectLog(h, r, i, k, ev, x), Zenon DEF CollectLog
    <3>3. QED
      BY <3>1, <3>2
  <2>5. /\ i \in 1 .. Len(o) /\ k \in 1 .. Len(o) - i + 1
        /\ \A q \in 1 .. Len(o), e \in h.a + 1 .. h.m :
             o[q] = h.ev[e].gn => (i <= q <=> e <= Start(h, h.m))
        /\ h.pt[h.m] = NoGen \/ (1 < i /\ h.pt[h.m] = o[i - 1])
    BY <2>3 DEF CanCollect
  <2>6. \A e \in h.a + 1 .. h.m : r.ev[e] = h.ev[e] /\ e \in Nat /\ h.a < e
    <3>1. \A e \in h.a + 1 .. h.m : e \in 0 .. h.m /\ e \in Nat /\ h.a < e
      BY <1>1
    <3>2. QED
      BY <1>4, <3>1
  <2>7. ASSUME NEW e \in h.a + 1 .. h.m
        PROVE  r.coll[e] = n <=> \E q \in i .. i + k - 1 : o[q] = h.ev[e].gn
    <3>1. r.coll[e] = IF \E q \in i .. i + k - 1 : o[q] = h.ev[e].gn THEN n ELSE h.coll[e]
      BY <2>1, <2>3, <2>6 DEF CollectLog
    <3>2. h.coll[e] # n
      BY <1>1, <1>2, <2>1, <2>6
    <3>3. QED
      BY <3>1, <3>2
  <2>8. Start(r, n) = Start(h, h.m)
    BY <1>1, <1>3, <2>1 DEF Start
  <2>9. CollectStep(r, n)
    <3>1. /\ \A q \in 1 .. Len(o), e \in r.a + 1 .. n - 1 :
               o[q] = r.ev[e].gn => (i <= q <=> e <= Start(r, n))
          /\ \A e \in r.a + 1 .. n - 1 :
               r.coll[e] = n <=> \E q \in i .. i + k - 1 : o[q] = r.ev[e].gn
      BY ONLY <1>3, <2>2, <2>5, <2>6, <2>7, <2>8, Zenon
    <3>2. r.ev[n].nfrom = k /\ r.ev[n].gn = ev.gn
      BY <1>3, <2>4
    <3>3. QED
      BY ONLY <2>4, <2>5, <3>1, <3>2, Zenon DEF CollectStep
  <2>10. QED
    BY <2>1, <2>9
<1>7. ~New(r, h.m + 1)
  BY <1>1, <1>3 DEF New
<1>8. \A j \in h.b + 1 .. r.m : j \in h.b + 1 .. h.m \/ j = h.m + 1
  BY <1>1, <1>3
<1>9. QED
  BY <1>3, <1>5, <1>6, <1>7, <1>8 DEF LogSteps

(* The generations live after the step.                                    *)
LEMMA CollectLogLast ==
  ASSUME NEW h \in Log, NEW r \in Log, NEW i, NEW k, NEW ev, NEW x,
         CanCollect(h, i, k, ev), CollectLog(h, r, i, k, ev, x)
  PROVE  OrdAt(r, h.m + 1)
<1>1. /\ h.m \in Nat /\ h.a \in Nat /\ h.b \in Nat /\ h.c \in Nat
      /\ h.a < h.b /\ h.b <= h.c /\ h.c < h.m /\ Start(h, h.m) = h.c
  BY CollectLogFacts
<1>2. /\ \A e \in Nat : h.coll[e] \in Nat /\ r.coll[e] \in Nat
      /\ \A e \in Nat : h.a < e => r.coll[e] = h.coll[e] \/ (h.coll[e] = 0 /\ r.coll[e] = h.m + 1)
      /\ \A e \in Nat : h.a < e /\ h.coll[e] # 0 => h.coll[e] <= h.m /\ e < h.coll[e]
  BY CollectLogFacts
<1>3. PICK m \in Nat : m = h.m
  BY <1>1
<1>4. PICK n \in Nat : n = m + 1
  OBVIOUS
<1>5. PICK o \in Seq(Gens) : o = h.ord[m]
  BY <1>3, EventTypes
<1>6. PICK g \in Gens : g = ev.gn
  BY DEF CanCollect, Event
<1>7. i \in 1 .. Len(o) /\ k \in 1 .. Len(o) - i + 1
  BY <1>3, <1>5 DEF CanCollect
<1>8. /\ Distinct(o)
      /\ \A q \in 1 .. Len(o) : \E e \in h.a + 1 .. m : o[q] = h.ev[e].gn /\ ~Gone(h, e, m)
      /\ \A e \in h.a + 1 .. m : ~Gone(h, e, m) => \E q \in 1 .. Len(o) : o[q] = h.ev[e].gn
      /\ \A q, s \in 1 .. Len(o), y, z \in Start(h, m) + 1 .. m :
           q < s /\ o[q] = h.ev[y].gn /\ o[s] = h.ev[z].gn => Before(h, y, z)
  <2>1. h.m \in h.b .. h.m
    BY <1>1
  <2>2. OrdAt(h, m)
    BY <1>3, <2>1 DEF LogOrd, LogOK, CanCollect
  <2>3. QED
    BY <1>5, <2>2 DEF OrdAt
<1>9. \A e \in h.a + 1 .. m : h.ev[e].gn # g
  BY <1>3, <1>6 DEF CanCollect
<1>10. g \notin ToSet(o)
  BY <1>8, <1>9, Members
<1>11. PICK u : u = Splice(o, i, k, g)
  OBVIOUS
<1>12. /\ u \in Seq(Gens) /\ Distinct(u) /\ Len(u) = Len(o) - k + 1
       /\ \A j \in 1 .. i - 1 : u[j] = o[j]
       /\ u[i] = g
       /\ \A j \in i + 1 .. Len(u) : u[j] = o[j + k - 1]
  <2>1. PICK N \in Nat : N = Len(o)
    BY <1>5
  <2>2. i \in 1 .. Len(o) /\ k \in 1 .. Len(o) - i + 1 /\ g \in Gens /\ o \in Seq(Gens)
    BY <1>7
  <2>3. QED
    <3>1. Distinct(o)
      BY <1>8
    <3>2. LET v == Splice(o, i, k, g) IN
          /\ v \in Seq(Gens) /\ Distinct(v) /\ Len(v) = Len(o) - k + 1
          /\ \A j \in 1 .. i - 1 : v[j] = o[j]
          /\ v[i] = g
          /\ \A j \in i + 1 .. Len(v) : v[j] = o[j + k - 1]
      BY ONLY <1>10, <2>2, <3>1, Spliced
    <3>3. QED
      BY ONLY <1>11, <3>2, Zenon
<1>13. /\ i \in Nat /\ k \in Nat /\ i >= 1 /\ k >= 1 /\ i + k - 1 <= Len(o) /\ Len(o) \in Nat
  <2>1. Len(o) \in Nat
    OBVIOUS
  <2>2. QED
    BY <1>7, <2>1
<1>14. /\ r.ord[n] = u /\ r.ev[n].gn = g /\ r.ev[n].nfrom = k
       /\ \A e \in h.a + 1 .. m : r.ev[e] = h.ev[e]
  <2>1. r.ord[n] = u /\ r.ev[n] = ev /\ ev.nfrom = k
    BY <1>3, <1>4, <1>5, <1>6, <1>11 DEF CollectLog, CanCollect
  <2>2. \A e \in h.a + 1 .. m : e \in 0 .. h.m
    BY <1>1, <1>3
  <2>3. \A e \in h.a + 1 .. m : r.ev[e] = h.ev[e]
    BY <2>2 DEF CollectLog
  <2>4. QED
    BY <1>6, <2>1, <2>3
<1>15. r.a = h.a /\ Start(r, n) = h.c
  BY <1>1, <1>3, <1>4 DEF CollectLog, Start
<1>16. ASSUME NEW e \in h.a + 1 .. m
       PROVE  Gone(r, e, n) <=> Gone(h, e, m) \/ \E q \in i .. i + k - 1 : o[q] = h.ev[e].gn
  <2>1. e \in Nat /\ h.a < e
    BY <1>1
  <2>2. r.coll[e] = IF \E q \in i .. i + k - 1 : o[q] = h.ev[e].gn THEN n ELSE h.coll[e]
    BY <1>3, <1>4, <1>5, <1>16, <2>1 DEF CollectLog
  <2>3. CASE \E q \in i .. i + k - 1 : o[q] = h.ev[e].gn
    BY <1>4, <2>2, <2>3 DEF Gone
  <2>4. CASE ~\E q \in i .. i + k - 1 : o[q] = h.ev[e].gn
    <3>1. r.coll[e] = h.coll[e]
      BY <2>2, <2>4
    <3>2. h.coll[e] # 0 => h.coll[e] <= m
      BY <1>2, <1>3, <2>1
    <3>3. h.coll[e] \in Nat
      BY <1>2, <2>1
    <3>4. QED
      BY <1>4, <2>4, <3>1, <3>2, <3>3 DEF Gone
  <2>5. QED
    BY <2>3, <2>4
<1>17. ~Gone(r, n, n)
  <2>1. h.a < n
    BY <1>1, <1>3, <1>4
  <2>2. r.coll[n] = h.coll[n]
    BY <1>1, <1>3, <1>4 DEF CollectLog
  <2>3. h.coll[n] # 0 => h.coll[n] <= m /\ n < h.coll[n]
    BY <1>2, <1>3, <2>1
  <2>4. h.coll[n] \in Nat
    BY <1>2
  <2>5. QED
    BY <1>4, <2>2, <2>3, <2>4 DEF Gone
<1>18. \A q, s \in 1 .. Len(o) : o[q] = o[s] => q = s
  BY <1>8 DEF Distinct
<1>19. ASSUME NEW q \in 1 .. Len(o), q < i \/ i + k <= q
       PROVE  \E e \in h.a + 1 .. m : o[q] = h.ev[e].gn /\ ~Gone(r, e, n)
  <2>1. PICK e \in h.a + 1 .. m : o[q] = h.ev[e].gn /\ ~Gone(h, e, m)
    BY <1>8
  <2>2. ASSUME NEW s \in i .. i + k - 1, o[s] = h.ev[e].gn PROVE FALSE
    <3>1. s \in 1 .. Len(o) /\ s # q
      BY <1>13, <1>19
    <3>2. QED
      BY <1>18, <2>1, <2>2, <3>1
  <2>3. QED
    BY <1>16, <2>1, <2>2
<1>20. ASSUME NEW q \in 1 .. Len(u)
       PROVE  /\ q < i => q \in 1 .. Len(o) /\ u[q] = o[q]
              /\ q = i => u[q] = g
              /\ i < q => /\ q + k - 1 \in 1 .. Len(o) /\ i + k <= q + k - 1
                          /\ u[q] = o[q + k - 1]
  <2>1. q \in Nat /\ q >= 1 /\ q <= Len(o) - k + 1
    BY <1>12, <1>13
  <2>2. q < i => q \in 1 .. Len(o) /\ q \in 1 .. i - 1
    BY <1>13, <2>1
  <2>3. i < q => q + k - 1 \in 1 .. Len(o) /\ i + k <= q + k - 1 /\ q \in i + 1 .. Len(u)
    BY <1>12, <1>13, <2>1
  <2>4. QED
    BY <1>12, <2>2, <2>3
<1>21. n \in r.a + 1 .. n /\ \A e \in h.a + 1 .. m : e \in r.a + 1 .. n /\ e # n
  <2>1. m \in Nat /\ h.a \in Nat /\ h.a < m
    BY <1>1, <1>3
  <2>2. QED
    BY <1>4, <1>15, <2>1
<1>22. \A e \in r.a + 1 .. n : e = n \/ e \in h.a + 1 .. m
  BY <1>1, <1>4, <1>15
<1>23. ASSUME NEW q \in 1 .. Len(u)
       PROVE  \E e \in r.a + 1 .. n : u[q] = r.ev[e].gn /\ ~Gone(r, e, n)
  <2>0. q \in Nat
    BY <1>12
  <2>1. CASE q = i
    <3>1. u[q] = r.ev[n].gn
      BY <1>12, <1>14, <2>1
    <3>2. QED
      BY <1>17, <1>21, <3>1
  <2>2. CASE q < i
    <3>1. q \in 1 .. Len(o) /\ u[q] = o[q]
      BY <1>20, <2>2
    <3>2. PICK e \in h.a + 1 .. m : o[q] = h.ev[e].gn /\ ~Gone(r, e, n)
      BY <1>19, <2>2, <3>1
    <3>3. QED
      BY <1>14, <1>21, <3>1, <3>2
  <2>3. CASE i < q
    <3>1. PICK s \in 1 .. Len(o) : i + k <= s /\ u[q] = o[s]
      BY <1>20, <2>3
    <3>2. PICK e \in h.a + 1 .. m : o[s] = h.ev[e].gn /\ ~Gone(r, e, n)
      BY <1>19, <3>1
    <3>3. QED
      BY <1>14, <1>21, <3>1, <3>2
  <2>4. QED
    BY <1>13, <2>0, <2>1, <2>2, <2>3
<1>24. ASSUME NEW e \in r.a + 1 .. n, ~Gone(r, e, n)
       PROVE  \E q \in 1 .. Len(u) : u[q] = r.ev[e].gn
  <2>1. CASE e = n
    <3>1. i \in 1 .. Len(u)
      BY <1>12, <1>13
    <3>2. QED
      BY <1>12, <1>14, <2>1, <3>1
  <2>2. CASE e \in h.a + 1 .. m
    <3>1. ~Gone(h, e, m) /\ ~\E q \in i .. i + k - 1 : o[q] = h.ev[e].gn
      BY <1>16, <1>24, <2>2
    <3>2. PICK q \in 1 .. Len(o) : o[q] = h.ev[e].gn
      BY <1>8, <2>2, <3>1
    <3>3. q < i \/ i + k <= q
      BY <1>13, <3>1, <3>2
    <3>4. CASE q < i
      <4>1. q \in 1 .. Len(u) /\ q \in 1 .. i - 1
        BY <1>12, <1>13, <3>4
      <4>2. QED
        BY <1>12, <1>14, <2>2, <3>2, <4>1
    <3>5. CASE i + k <= q
      <4>1. PICK s \in i + 1 .. Len(u) : s + k - 1 = q
        <5>1. q - k + 1 \in i + 1 .. Len(u) /\ q - k + 1 + k - 1 = q
          BY <1>12, <1>13, <3>5
        <5>2. QED
          BY <5>1
      <4>2. u[s] = o[q] /\ s \in 1 .. Len(u)
        BY <1>12, <1>13, <4>1
      <4>3. QED
        BY <1>14, <2>2, <3>2, <4>2
    <3>6. QED
      BY <3>3, <3>4, <3>5
  <2>3. QED
    BY <1>22, <2>1, <2>2
<1>25. ASSUME NEW q \in 1 .. Len(o), NEW e \in h.a + 1 .. m, o[q] = h.ev[e].gn, h.c < e
       PROVE  q < i
  <2>1. i <= q <=> e <= h.c
    BY <1>1, <1>3, <1>5, <1>25 DEF CanCollect
  <2>2. q \in Nat /\ e \in Nat
    BY <1>1
  <2>3. QED
    BY <1>1, <1>13, <1>25, <2>1, <2>2
<1>26. ASSUME NEW q \in 1 .. Len(u), NEW s \in 1 .. Len(u),
              NEW y \in Start(r, n) + 1 .. n, NEW z \in Start(r, n) + 1 .. n,
              q < s, u[q] = r.ev[y].gn, u[s] = r.ev[z].gn
       PROVE  Before(r, y, z)
  <2>1. /\ y \in Nat /\ z \in Nat /\ h.c < y /\ h.c < z /\ y <= n /\ z <= n
        /\ q \in Nat /\ s \in Nat
        /\ (y = n \/ y \in h.a + 1 .. m) /\ (z = n \/ z \in h.a + 1 .. m)
    <3>1. y \in Nat /\ z \in Nat /\ h.c < y /\ h.c < z /\ y <= n /\ z <= n
      BY <1>1, <1>15
    <3>2. q \in Nat /\ s \in Nat
      BY <1>12
    <3>3. (y = n \/ y \in h.a + 1 .. m) /\ (z = n \/ z \in h.a + 1 .. m)
      BY <1>1, <1>4, <3>1
    <3>4. QED
      BY <3>1, <3>2, <3>3
  <2>2. ASSUME NEW p \in 1 .. Len(u), NEW e \in h.a + 1 .. m, h.c < e, u[p] = r.ev[e].gn
        PROVE  p < i /\ p \in 1 .. Len(o) /\ o[p] = h.ev[e].gn
    <3>0. p \in Nat
      BY <1>12
    <3>1. CASE p = i
      BY <1>9, <1>12, <1>14, <2>2, <3>1
    <3>2. CASE i < p
      <4>1. PICK s1 \in 1 .. Len(o) : i + k <= s1 /\ u[p] = o[s1]
        BY <1>20, <3>2
      <4>2. s1 < i
        BY <1>14, <1>25, <2>2, <4>1
      <4>3. s1 \in Nat
        BY <1>13
      <4>4. QED
        BY <1>13, <4>1, <4>2, <4>3
    <3>3. CASE p < i
      BY <1>14, <1>20, <2>2, <3>3
    <3>4. QED
      BY <1>13, <3>0, <3>1, <3>2, <3>3
  <2>3. ASSUME NEW p \in 1 .. Len(u), u[p] = r.ev[n].gn PROVE p = i
    <3>1. i \in 1 .. Len(u) /\ u[i] = u[p]
      BY <1>12, <1>13, <1>14, <2>3
    <3>2. QED
      BY <1>12, <3>1 DEF Distinct
  <2>4. y # n
    <3>1. SUFFICES ASSUME y = n PROVE FALSE
      OBVIOUS
    <3>2. q = i
      BY <1>26, <2>3, <3>1
    <3>3. CASE z = n
      <4>1. s = i
        BY <1>26, <2>3, <3>3
      <4>2. QED
        BY <1>13, <1>26, <3>2, <4>1
    <3>4. CASE z \in h.a + 1 .. m
      <4>1. s < i
        BY <1>26, <2>1, <2>2, <3>4
      <4>2. QED
        BY <1>13, <1>26, <2>1, <3>2, <4>1
    <3>5. QED
      BY <2>1, <3>3, <3>4
  <2>5. y \in h.a + 1 .. m /\ y <= m
    BY <1>4, <2>1, <2>4
  <2>6. q < i /\ q \in 1 .. Len(o) /\ o[q] = h.ev[y].gn
    BY <1>26, <2>1, <2>2, <2>5
  <2>7. CASE z = n
    <3>1. ~New(r, z)
      BY <1>13, <1>14, <2>7 DEF New
    <3>2. y < z
      BY <1>4, <2>5, <2>1, <2>7
    <3>3. QED
      BY <3>1, <3>2 DEF Before
  <2>8. CASE z \in h.a + 1 .. m
    <3>1. s < i /\ s \in 1 .. Len(o) /\ o[s] = h.ev[z].gn
      BY <1>26, <2>1, <2>2, <2>8
    <3>2. y \in Start(h, m) + 1 .. m /\ z \in Start(h, m) + 1 .. m
      BY <1>1, <1>3, <2>1, <2>5, <2>8
    <3>3. Before(h, y, z)
      BY <1>8, <1>26, <2>6, <3>1, <3>2
    <3>4. r.ev[y] = h.ev[y] /\ r.ev[z] = h.ev[z]
      BY <1>14, <2>5, <2>8
    <3>5. QED
      BY <3>3, <3>4 DEF Before, New
  <2>9. QED
    BY <2>1, <2>7, <2>8
<1>27. OrdAt(r, n)
  BY ONLY <1>12, <1>14, <1>23, <1>24, <1>26 DEF OrdAt
<1>28. QED
  BY <1>3, <1>4, <1>27

LEMMA CollectLogOrd ==
  ASSUME NEW h \in Log, NEW r \in Log, NEW i, NEW k, NEW ev, NEW x,
         CanCollect(h, i, k, ev), CollectLog(h, r, i, k, ev, x)
  PROVE  LogOrd(r)
<1>0. LogOrd(h)
  BY DEF LogOK, CanCollect
<1>1. /\ h.m \in Nat /\ h.a \in Nat /\ h.b \in Nat /\ h.c \in Nat
      /\ h.a < h.b /\ h.b <= h.c /\ h.c < h.m
  BY CollectLogFacts
<1>2. /\ \A e \in Nat : h.coll[e] \in Nat /\ r.coll[e] \in Nat
      /\ \A e \in Nat : h.a < e => r.coll[e] = h.coll[e] \/ (h.coll[e] = 0 /\ r.coll[e] = h.m + 1)
      /\ \A j \in Nat : Start(r, j) = Start(h, j)
  BY CollectLogFacts
<1>3. r.m = h.m + 1 /\ r.a = h.a /\ r.b = h.b
  BY DEF CollectLog
<1>4. ASSUME NEW j \in h.b .. h.m PROVE OrdAt(r, j)
  <2>1. PICK o : o = h.ord[j]
    OBVIOUS
  <2>2. j \in 0 .. h.m /\ j \in Nat /\ j <= h.m
    BY <1>1
  <2>3. r.ord[j] = o /\ Start(r, j) = Start(h, j)
    BY <1>2, <2>1, <2>2 DEF CollectLog
  <2>4. /\ Distinct(o)
        /\ \A q \in 1 .. Len(o) : \E e \in h.a + 1 .. j : o[q] = h.ev[e].gn /\ ~Gone(h, e, j)
        /\ \A e \in h.a + 1 .. j : ~Gone(h, e, j) => \E q \in 1 .. Len(o) : o[q] = h.ev[e].gn
        /\ \A q, s \in 1 .. Len(o), y, z \in Start(h, j) + 1 .. j :
             q < s /\ o[q] = h.ev[y].gn /\ o[s] = h.ev[z].gn => Before(h, y, z)
    BY <1>0, <2>1 DEF LogOrd, OrdAt
  <2>5. ASSUME NEW e \in h.a + 1 .. j
        PROVE  r.ev[e] = h.ev[e] /\ (Gone(r, e, j) <=> Gone(h, e, j))
    <3>1. e \in 0 .. h.m /\ e \in Nat /\ h.a < e
      BY <1>1, <2>2
    <3>2. Gone(r, e, j) <=> Gone(h, e, j)
      BY <1>1, <1>2, <2>2, <3>1 DEF Gone
    <3>3. QED
      BY <3>1, <3>2 DEF CollectLog
  <2>6. \A q \in 1 .. Len(o) : \E e \in r.a + 1 .. j : o[q] = r.ev[e].gn /\ ~Gone(r, e, j)
    BY <1>3, <2>4, <2>5
  <2>7. \A e \in r.a + 1 .. j : ~Gone(r, e, j) => \E q \in 1 .. Len(o) : o[q] = r.ev[e].gn
    BY <1>3, <2>4, <2>5
  <2>8. ASSUME NEW q \in 1 .. Len(o), NEW s \in 1 .. Len(o),
               NEW y \in Start(r, j) + 1 .. j, NEW z \in Start(r, j) + 1 .. j,
               q < s, o[q] = r.ev[y].gn, o[s] = r.ev[z].gn
        PROVE  Before(r, y, z)
    <3>1. Start(h, j) \in Nat /\ h.a <= Start(h, j)
      BY <2>2, StartRange DEF LogOK, CanCollect
    <3>2. y \in h.a + 1 .. j /\ z \in h.a + 1 .. j
      BY <1>1, <2>2, <2>3, <3>1
    <3>3. r.ev[y] = h.ev[y] /\ r.ev[z] = h.ev[z]
      BY <2>5, <3>2
    <3>4. Before(h, y, z)
      BY <2>3, <2>4, <2>8, <3>3
    <3>5. QED
      BY <3>3, <3>4 DEF Before, New
  <2>9. QED
    BY ONLY <2>3, <2>4, <2>6, <2>7, <2>8 DEF OrdAt
<1>5. OrdAt(r, h.m + 1)
  BY CollectLogLast
<1>6. \A j \in r.b .. r.m : j \in h.b .. h.m \/ j = h.m + 1
  BY <1>1, <1>3
<1>7. QED
  BY <1>4, <1>5, <1>6 DEF LogOrd

(* mark_generation_collected_once and twice, on a table t.                 *)
Merged(info, from) == [info EXCEPT !.from = from]
Once(info) == [info EXCEPT !.status = "COLLECTED_ONCE", !.page = <<>>, !.from = {}]
Again(info) == [info EXCEPT !.status = "COLLECTED_TWICE"]
CollectedIn(t, from, to) ==
  [g \in Gens |->
     CASE g = to    -> Merged(t[g], from)
       [] g \in from -> Once(t[g])
       [] g \in UNION {t[f].from : f \in from} -> Again(t[g])
       [] OTHER      -> t[g]]

LEMMA TwiceInfo ==
  ASSUME NEW y \in GenInfo, y.page = <<>>, y.from = {}
  PROVE  [y EXCEPT !.status = "COLLECTED_TWICE"] =
           [status |-> "COLLECTED_TWICE", page |-> <<>>, diskPage |-> y.diskPage, from |-> {}]
<1> DEFINE u == [y EXCEPT !.status = "COLLECTED_TWICE"]
           z == [status |-> "COLLECTED_TWICE", page |-> <<>>, diskPage |-> y.diskPage, from |-> {}]
<1>1. "COLLECTED_TWICE" \in GenStatus /\ <<>> \in Seq(Pages) /\ {} \in SUBSET Gens
  BY DEF GenStatus
<1>2. u \in GenInfo /\ z \in GenInfo
  BY <1>1 DEF GenInfo
<1>3. u.status = z.status /\ u.page = z.page /\ u.diskPage = z.diskPage /\ u.from = z.from
  BY DEF GenInfo
<1>4. QED
  BY <1>2, <1>3, SameInfo

(* Event j, a step of the collector, does this to the table.               *)
LEMMA CollectTable ==
  ASSUME NEW r \in Log, LogOK(r), NEW n \in r.m .. r.m + 1, LogEvents(r, n),
         NEW j \in r.b + 1 .. r.m, ~New(r, j), NEW t, TableAt(t, r, j - 1, n)
  PROVE  LET from == {r.ord[j - 1][q] : q \in r.pos[j] .. r.pos[j] + r.ev[j].nfrom - 1} IN
         TableAt(CollectedIn(t, from, r.ev[j].gn), r, j, n)
<1>0. LogShape(r) /\ LogColl(r) /\ LogOrd(r) /\ LogSteps(r)
  BY DEF LogOK
<1>1. /\ r.m \in Nat /\ r.a \in Nat /\ r.b \in Nat /\ r.a <= r.b
  <2>1. r.m \in Nat /\ r.a \in Nat /\ r.b \in Nat /\ r.c \in Nat
    BY LogTypes
  <2>2. QED
    BY <1>0, <2>1, StartRange
<1>2. /\ n \in Nat /\ r.m <= n /\ j \in Nat /\ r.b < j /\ j <= r.m /\ r.a < j /\ j <= n
      /\ j - 1 \in Nat /\ r.b <= j - 1
  BY <1>1
<1>3. PICK o \in Seq(Gens) : o = r.ord[j - 1]
  BY <1>2, EventTypes
<1>4. PICK i : i = r.pos[j]
  OBVIOUS
<1>5. PICK k : k = r.ev[j].nfrom
  OBVIOUS
<1>6. PICK to : to = r.ev[j].gn
  OBVIOUS
<1>7. /\ i \in 1 .. Len(o) /\ k \in 1 .. Len(o) - i + 1
      /\ \A e \in r.a + 1 .. j - 1 :
           r.coll[e] = j <=> \E q \in i .. i + k - 1 : o[q] = r.ev[e].gn
  <2>1. CollectStep(r, j)
    BY <1>0 DEF LogSteps
  <2>2. QED
    BY <1>3, <1>4, <1>5, <2>1 DEF CollectStep
<1>8. \A q \in 1 .. Len(o) : \E e \in r.a + 1 .. j - 1 : o[q] = r.ev[e].gn
  <2>1. j - 1 \in r.b .. r.m
    BY <1>1, <1>2
  <2>2. OrdAt(r, j - 1)
    BY <1>0, <2>1 DEF LogOrd
  <2>3. QED
    BY <1>3, <2>2 DEF OrdAt
<1>9. \A q \in i .. i + k - 1 : q \in 1 .. Len(o)
  <2>1. Len(o) \in Nat
    BY <1>3
  <2>2. QED
    BY <1>7, <2>1
<1>10. \A y, z \in r.a + 1 .. n : r.ev[y].gn = r.ev[z].gn => y = z
  BY DEF LogEvents
<1>11. /\ \A e \in r.a + 1 .. j - 1 : t[r.ev[e].gn] = InfoAt(r, e, j - 1)
       /\ \A e \in j .. n : t[r.ev[e].gn] = InfoOf(r.ev[e])
       /\ \A g \in Gens : (\A e \in r.a + 1 .. n : r.ev[e].gn # g) => t[g] = NoInfo
  <2>1. j - 1 + 1 = j
    BY <1>2
  <2>2. QED
    BY <2>1 DEF TableAt
<1>12. \A e \in r.a + 1 .. j - 1 : e \in Nat /\ r.a < e /\ e < j /\ e \in r.a + 1 .. n
  BY <1>1, <1>2
<1>13. j \in r.a + 1 .. n /\ j \in j .. n
  BY <1>1, <1>2
<1>14. \A e \in Nat : r.a < e /\ r.coll[e] # 0 => e < r.coll[e] /\ r.coll[e] \in Nat
  BY <1>0, CollRange
<1>15. ~First(r, j)
  BY <1>13 DEF LogEvents, New
<1> DEFINE from == {o[q] : q \in i .. i + k - 1}
           older == UNION {t[f].from : f \in from}
<1>16. \A e \in r.a + 1 .. j - 1 : r.ev[e].gn \in from <=> r.coll[e] = j
  BY <1>7
<1>17. ASSUME NEW f \in from
       PROVE  \E e \in r.a + 1 .. j - 1 : f = r.ev[e].gn /\ r.coll[e] = j
  <2>1. PICK q \in i .. i + k - 1 : f = o[q]
    OBVIOUS
  <2>2. PICK e \in r.a + 1 .. j - 1 : o[q] = r.ev[e].gn
    BY <1>8, <1>9
  <2>3. QED
    BY <1>7, <2>1, <2>2
<1>18. ASSUME NEW e \in r.a + 1 .. j - 1, r.coll[e] = j
       PROVE  t[r.ev[e].gn].from = {r.ev[z].gn : z \in {y \in r.a + 1 .. r.m : r.coll[y] = e}}
  <2>1. ~Gone(r, e, j - 1)
    BY <1>2, <1>18 DEF Gone
  <2>2. t[r.ev[e].gn].from = FromAt(r, e, j - 1)
    <3>1. t[r.ev[e].gn] = InfoAt(r, e, j - 1)
      BY <1>11
    <3>2. InfoAt(r, e, j - 1).from = FromAt(r, e, j - 1)
      BY DEF InfoAt
    <3>3. QED
      BY <3>1, <3>2
  <2>3. QED
    BY <2>1, <2>2 DEF FromAt
<1> HIDE DEF from
<1>19. ASSUME NEW g \in older
       PROVE  \E e \in r.a + 1 .. j - 1 : /\ g = r.ev[e].gn /\ r.coll[e] # 0 /\ r.coll[e] # j
                                          /\ r.coll[r.coll[e]] = j
  <2>1. PICK f \in from : g \in t[f].from
    OBVIOUS
  <2>2. PICK e1 \in r.a + 1 .. j - 1 : f = r.ev[e1].gn /\ r.coll[e1] = j
    BY <1>17
  <2>3. PICK z \in r.a + 1 .. r.m : r.coll[z] = e1 /\ g = r.ev[z].gn
    <3>1. g \in {r.ev[z].gn : z \in {y \in r.a + 1 .. r.m : r.coll[y] = e1}}
      BY <1>18, <2>1, <2>2
    <3>2. QED
      BY <3>1
  <2>4. e1 \in Nat /\ e1 # 0 /\ e1 < j /\ z \in Nat /\ r.a < z
    BY <1>1, <1>12
  <2>5. z < e1
    BY <1>14, <2>3, <2>4
  <2>6. z \in r.a + 1 .. j - 1
    BY <1>1, <1>2, <2>4, <2>5
  <2>7. e1 # j
    BY <1>2, <2>4
  <2>8. QED
    BY <2>2, <2>3, <2>4, <2>6, <2>7
<1>20. ASSUME NEW e \in r.a + 1 .. j - 1, r.coll[e] # 0, r.coll[r.coll[e]] = j
       PROVE  r.ev[e].gn \in older
  <2>1. PICK e1 \in Nat : e1 = r.coll[e]
    BY <1>12, <1>14, <1>20
  <2>2. e < e1 /\ e1 # 0
    BY <1>12, <1>14, <1>20, <2>1
  <2>3. r.a < e1 /\ r.coll[e1] = j
    BY <1>1, <1>12, <1>20, <2>1, <2>2
  <2>4. e1 < j
    BY <1>2, <1>14, <2>3
  <2>5. e1 \in r.a + 1 .. j - 1
    BY <1>1, <1>2, <2>3, <2>4
  <2>6. r.ev[e1].gn \in from
    BY <1>16, <2>3, <2>5
  <2>7. e \in r.a + 1 .. r.m
    BY <1>1, <1>2, <1>12
  <2>8. r.ev[e].gn \in t[r.ev[e1].gn].from
    <3>1. r.ev[e].gn \in {r.ev[z].gn : z \in {y \in r.a + 1 .. r.m : r.coll[y] = e1}}
      BY <2>1, <2>7
    <3>2. t[r.ev[e1].gn].from = {r.ev[z].gn : z \in {y \in r.a + 1 .. r.m : r.coll[y] = e1}}
      BY <1>18, <2>3, <2>5
    <3>3. QED
      BY <3>1, <3>2
  <2>9. QED
    BY <2>6, <2>8
<1> HIDE DEF older
<1> DEFINE u == CollectedIn(t, from, to)
<1>21. \A g \in Gens : u[g] =
         CASE g = to    -> Merged(t[g], from)
           [] g \in from -> Once(t[g])
           [] g \in older -> Again(t[g])
           [] OTHER      -> t[g]
  BY DEF CollectedIn, older
<1> HIDE DEF u
<1>22. \A e \in Nat : r.ev[e].gn \in Gens
  BY EventTypes
<1>d. to \notin from /\ to \notin older /\ \A g \in from : g \notin older
  <2>1. \A e \in r.a + 1 .. j - 1 : r.ev[e].gn # to /\ e \in r.a + 1 .. n
    BY <1>6, <1>10, <1>12, <1>13
  <2>2. to \notin from
    BY <1>17, <2>1
  <2>3. to \notin older
    BY <1>19, <2>1
  <2>4. ASSUME NEW g \in from, g \in older PROVE FALSE
    <3>1. PICK e \in r.a + 1 .. j - 1 : g = r.ev[e].gn /\ r.coll[e] = j
      BY <1>17
    <3>2. PICK z \in r.a + 1 .. j - 1 : g = r.ev[z].gn /\ r.coll[z] # j
      BY <1>19, <2>4
    <3>3. z = e
      BY <1>10, <2>1, <3>1, <3>2
    <3>4. QED
      BY <3>1, <3>2, <3>3
  <2>5. QED
    BY <2>2, <2>3, <2>4
<1>23. ASSUME NEW e \in r.a + 1 .. j - 1
       PROVE  u[r.ev[e].gn] = InfoAt(r, e, j)
  <2>1. r.ev[e].gn \in Gens /\ r.ev[e].gn # to /\ t[r.ev[e].gn] = InfoAt(r, e, j - 1)
    <3>1. e # j /\ e \in r.a + 1 .. n
      BY <1>2, <1>12
    <3>2. QED
      BY <1>6, <1>10, <1>11, <1>12, <1>13, <1>22, <3>1
  <2>2. PICK v \in GenInfo : v = InfoAt(r, e, j - 1)
    BY <1>2, <1>12, InfoType
  <2>3. v.diskPage = r.ev[e].diskPage /\ (Gone(r, e, j - 1) => v.page = <<>> /\ v.from = {})
    BY <2>2 DEF InfoAt, FromAt
  <2>4. CASE r.coll[e] = j
    <3>1. u[r.ev[e].gn] = Once(v)
      <4>1. PICK g : g = r.ev[e].gn
        OBVIOUS
      <4>2. g \in Gens /\ g # to /\ g \in from /\ t[g] = v
        BY <1>16, <2>1, <2>2, <2>4, <4>1
      <4>3. QED
        BY <1>21, <1>d, <4>1, <4>2
    <3>2. InfoAt(r, e, j) = [status |-> "COLLECTED_ONCE", page |-> <<>>,
                             diskPage |-> v.diskPage, from |-> {}]
      BY <1>0, <1>15, <2>3, <2>4, CollectInfo
    <3>3. QED
      BY <3>1, <3>2, OnceInfo DEF Once
  <2>5. CASE r.coll[e] # j /\ r.coll[e] # 0 /\ r.coll[r.coll[e]] = j
    <3>1. r.ev[e].gn \notin from /\ r.ev[e].gn \in older
      BY <1>16, <1>20, <2>5
    <3>2. u[r.ev[e].gn] = Again(v)
      BY <1>21, <2>1, <2>2, <3>1
    <3>3. Gone(r, e, j - 1)
      <4>1. PICK y \in Nat : y = r.coll[e]
        BY <1>12, <1>14, <2>5
      <4>2. r.a < y
        BY <1>1, <1>12, <1>14, <2>5, <4>1
      <4>3. y < j
        BY <1>2, <1>14, <2>5, <4>1, <4>2
      <4>4. QED
        BY <1>2, <2>5, <4>1, <4>3 DEF Gone
    <3>4. InfoAt(r, e, j) = [status |-> "COLLECTED_TWICE", page |-> <<>>,
                             diskPage |-> v.diskPage, from |-> {}]
      BY <1>0, <1>15, <2>3, <2>5, CollectInfo
    <3>5. QED
      BY <2>3, <3>2, <3>3, <3>4, TwiceInfo DEF Again
  <2>6. CASE r.coll[e] # j /\ (r.coll[e] = 0 \/ r.coll[r.coll[e]] # j)
    <3>1. r.ev[e].gn \notin from
      BY <1>16, <2>6
    <3>2. r.ev[e].gn \notin older
      <4>1. SUFFICES ASSUME r.ev[e].gn \in older PROVE FALSE
        OBVIOUS
      <4>2. PICK z \in r.a + 1 .. j - 1 :
              /\ r.ev[e].gn = r.ev[z].gn /\ r.coll[z] # 0 /\ r.coll[z] # j
              /\ r.coll[r.coll[z]] = j
        BY <1>19, <4>1
      <4>3. z = e
        BY <1>10, <1>12, <4>2
      <4>4. QED
        BY <2>6, <4>2, <4>3
    <3>3. u[r.ev[e].gn] = InfoAt(r, e, j - 1)
      BY <1>21, <2>1, <3>1, <3>2
    <3>4. InfoAt(r, e, j) = InfoAt(r, e, j - 1)
      BY <1>0, <1>15, <2>6, CollectInfo
    <3>5. QED
      BY <3>3, <3>4
  <2>7. QED
    BY <2>4, <2>5, <2>6
<1>24. u[r.ev[j].gn] = InfoAt(r, j, j)
  <2>1. u[to] = Merged(t[to], from)
    <3>1. to \in Gens
      BY <1>2, <1>6, <1>22
    <3>2. QED
      BY <1>21, <1>d, <3>1
  <2>2. t[to] = InfoOf(r.ev[j])
    BY <1>6, <1>11, <1>13
  <2>3. from = {r.ev[z].gn : z \in {y \in r.a + 1 .. r.m : r.coll[y] = j}}
    <3>1. ASSUME NEW y \in r.a + 1 .. r.m, r.coll[y] = j PROVE r.ev[y].gn \in from
      <4>1. y \in Nat /\ r.a < y /\ j # 0
        BY <1>1, <1>2
      <4>2. y < j
        BY <1>14, <3>1, <4>1
      <4>3. y \in r.a + 1 .. j - 1
        BY <1>1, <1>2, <4>1, <4>2
      <4>4. QED
        BY <1>16, <3>1, <4>3
    <3>2. ASSUME NEW f \in from PROVE \E y \in r.a + 1 .. r.m : r.coll[y] = j /\ f = r.ev[y].gn
      <4>1. PICK e \in r.a + 1 .. j - 1 : f = r.ev[e].gn /\ r.coll[e] = j
        BY <1>17
      <4>2. e \in r.a + 1 .. r.m
        BY <1>1, <1>2, <1>12
      <4>3. QED
        BY <4>1, <4>2
    <3>3. QED
      BY <3>1, <3>2
  <2>4. QED
    BY <1>0, <1>6, <2>1, <2>2, <2>3, MadeInfo DEF Merged
<1>25. ASSUME NEW e \in r.a + 1 .. j PROVE u[r.ev[e].gn] = InfoAt(r, e, j)
  <2>1. e = j \/ e \in r.a + 1 .. j - 1
    BY <1>1, <1>2
  <2>2. QED
    BY <1>23, <1>24, <2>1
<1>26. ASSUME NEW g \in Gens, \A e \in r.a + 1 .. j : r.ev[e].gn # g
       PROVE  u[g] = t[g]
  <2>1. j \in r.a + 1 .. j /\ \A e \in r.a + 1 .. j - 1 : e \in r.a + 1 .. j
    BY <1>1, <1>2
  <2>2. g # to /\ g \notin from /\ g \notin older
    BY <1>6, <1>17, <1>19, <1>26, <2>1
  <2>3. QED
    BY <1>21, <2>2
<1>27. ASSUME NEW e \in j + 1 .. n PROVE u[r.ev[e].gn] = InfoOf(r.ev[e])
  <2>1. e \in Nat /\ e \in j .. n /\ e \in r.a + 1 .. n
    BY <1>1, <1>2
  <2>2. \A z \in r.a + 1 .. j : z \in r.a + 1 .. n /\ z # e
    BY <1>1, <1>2
  <2>3. u[r.ev[e].gn] = t[r.ev[e].gn]
    BY <1>10, <1>22, <1>26, <2>1, <2>2
  <2>4. QED
    BY <1>11, <2>1, <2>3
<1>28. ASSUME NEW g \in Gens, \A e \in r.a + 1 .. n : r.ev[e].gn # g PROVE u[g] = NoInfo
  <2>1. \A e \in r.a + 1 .. j : e \in r.a + 1 .. n
    BY <1>1, <1>2
  <2>2. QED
    BY <1>11, <1>26, <1>28, <2>1
<1>29. TableAt(u, r, j, n)
  BY ONLY <1>25, <1>27, <1>28 DEF TableAt
<1>30. QED
  BY ONLY <1>3, <1>4, <1>5, <1>6, <1>29, Zenon DEF u, from

LEMMA CollectLogExists ==
  ASSUME NEW h \in Log, NEW i \in Nat, NEW k, NEW ev \in Event, NEW x \in Ptr,
         h.ord[h.m] \in Seq(Gens), Splice(h.ord[h.m], i, k, ev.gn) \in Seq(Gens)
  PROVE  \E r \in Log : CollectLog(h, r, i, k, ev, x)
<1>0. PICK m \in Nat : m = h.m
  BY LogTypes
<1>1. /\ h.ev \in [Nat -> Event] /\ h.ptr \in [Nat -> Ptr]
      /\ h.coll \in [Nat -> Nat] /\ h.pos \in [Nat -> Nat]
      /\ h.ord \in [Nat -> Seq(Gens)] /\ h.up \in [Nat -> Seq(Gens)]
      /\ h.pt \in [Nat -> Gens \cup {NoGen}]
      /\ h.a \in Nat /\ h.b \in Nat /\ h.c \in Nat
  BY LogTypes
<1>2. PICK n \in Nat : n = m + 1
  OBVIOUS
<1>3. PICK o \in Seq(Gens) : o = Splice(h.ord[h.m], i, k, ev.gn)
  OBVIOUS
<1>4. PICK p \in Gens \cup {NoGen} : p = (IF i + k <= Len(h.ord[h.m]) THEN ev.gn ELSE NoGen)
  BY DEF Event
<1>5. PICK evs \in [Nat -> Event] : evs = [h.ev EXCEPT ![n] = ev]
  BY <1>1
<1>6. PICK ptr \in [Nat -> Ptr] : ptr = [h.ptr EXCEPT ![n] = x]
  BY <1>1
<1>7. PICK ord \in [Nat -> Seq(Gens)] : ord = [h.ord EXCEPT ![n] = o]
  BY <1>1
<1>8. PICK pt \in [Nat -> Gens \cup {NoGen}] : pt = [h.pt EXCEPT ![n] = p]
  BY <1>1
<1>9. PICK up \in [Nat -> Seq(Gens)] : up = [h.up EXCEPT ![n] = <<>>]
  <2>0. <<>> \in Seq(Gens)
    OBVIOUS
  <2>1. PICK z \in Seq(Gens) : z = <<>>
    BY <2>0, Zenon
  <2>2. [h.up EXCEPT ![n] = z] \in [Nat -> Seq(Gens)]
    BY <1>1
  <2>3. QED
    BY <2>1, <2>2
<1>10. PICK pos \in [Nat -> Nat] : pos = [h.pos EXCEPT ![n] = i]
  BY <1>1
<1>11. PICK coll \in [Nat -> Nat] :
         coll = [e \in Nat |-> IF /\ e \in h.a + 1 .. h.m
                                  /\ \E q \in i .. i + k - 1 : h.ord[h.m][q] = h.ev[e].gn
                               THEN n ELSE h.coll[e]]
  BY <1>1
<1> DEFINE r == [m |-> n, a |-> h.a, b |-> h.b, c |-> h.c, ev |-> evs, ptr |-> ptr,
                 coll |-> coll, pos |-> pos, ord |-> ord, up |-> up, pt |-> pt]
<1>12. r \in Log
  BY <1>1 DEF Log, Index
<1>13. /\ r.m = n /\ r.a = h.a /\ r.b = h.b /\ r.c = h.c /\ r.ev = evs /\ r.ptr = ptr
       /\ r.coll = coll /\ r.pos = pos /\ r.ord = ord /\ r.up = up /\ r.pt = pt
  OBVIOUS
<1> HIDE DEF r
<1>14. ASSUME NEW j \in 0 .. m
       PROVE  /\ r.ev[j] = h.ev[j] /\ r.ptr[j] = h.ptr[j] /\ r.pos[j] = h.pos[j]
              /\ r.ord[j] = h.ord[j] /\ r.pt[j] = h.pt[j] /\ r.up[j] = h.up[j]
  <2>1. j \in Nat /\ j # n
    BY <1>2
  <2>2. ord[j] = h.ord[j]
    BY <1>1, <1>7, <2>1
  <2>3. pt[j] = h.pt[j]
    BY <1>1, <1>8, <2>1
  <2>4. ptr[j] = h.ptr[j]
    BY <1>1, <1>6, <2>1
  <2>5. evs[j] = h.ev[j]
    BY <1>1, <1>5, <2>1
  <2>6. up[j] = h.up[j]
    BY <1>1, <1>9, <2>1
  <2>7. pos[j] = h.pos[j]
    BY <1>1, <1>10, <2>1
  <2>8. QED
    BY ONLY <1>13, <2>2, <2>3, <2>4, <2>5, <2>6, <2>7, Zenon
<1>15. /\ r.ev[n] = ev /\ r.ptr[n] = x /\ r.pos[n] = i
       /\ r.ord[n] = o /\ r.pt[n] = p /\ r.up[n] = <<>>
  <2>2. ord[n] = o
    BY <1>1, <1>7
  <2>3. pt[n] = p
    BY <1>1, <1>8
  <2>4. ptr[n] = x
    BY <1>1, <1>6
  <2>5. evs[n] = ev
    BY <1>1, <1>5
  <2>6. up[n] = <<>>
    BY <1>1, <1>9
  <2>7. pos[n] = i
    BY <1>1, <1>10
  <2>8. QED
    BY ONLY <1>13, <2>2, <2>3, <2>4, <2>5, <2>6, <2>7, Zenon
<1>16. \A e \in Nat :
         r.coll[e] = IF /\ e \in h.a + 1 .. h.m
                        /\ \E q \in i .. i + k - 1 : h.ord[h.m][q] = h.ev[e].gn
                     THEN n ELSE h.coll[e]
  BY <1>11, <1>13
<1>17. CollectLog(h, r, i, k, ev, x)
  BY ONLY <1>0, <1>2, <1>3, <1>4, <1>13, <1>14, <1>15, <1>16, Zenon DEF CollectLog
<1>18. QED
  BY <1>12, <1>17

LEMMA CollectedLog ==
  ASSUME NEW h \in Log, NEW i, NEW k, NEW ev, NEW x \in Ptr, CanCollect(h, i, k, ev)
  PROVE  \E r \in Log :
           /\ CollectLog(h, r, i, k, ev, x) /\ LogOK(r) /\ LogEvents(r, r.m)
           /\ \A e \in h.a + 1 .. h.m : InfoAt(r, e, h.m) = InfoAt(h, e, h.m)
           /\ \A j \in h.a + 1 .. h.m : Cell(r, j) = Cell(h, j)
<1>1. h.ord[h.m] \in Seq(Gens) /\ h.m \in Nat
  BY LogTypes, EventTypes
<1>2. PICK o \in Seq(Gens) : o = h.ord[h.m]
  BY <1>1
<1>3. i \in Nat /\ k \in Nat /\ i \in 1 .. Len(o) /\ k \in 1 .. Len(o) - i + 1
  <2>1. i \in 1 .. Len(o) /\ k \in 1 .. Len(o) - i + 1
    BY <1>2 DEF CanCollect
  <2>2. Len(o) \in Nat
    OBVIOUS
  <2>3. QED
    BY <2>1, <2>2
<1>4. ev \in Event
  BY DEF CanCollect
<1>5. PICK g \in Gens : g = ev.gn
  BY <1>4 DEF Event
<1>6. Distinct(o) /\ g \notin ToSet(o)
  <2>0. /\ h.m \in Nat /\ h.b \in Nat /\ h.b <= h.m
    <3>1. h.m \in Nat /\ h.b \in Nat /\ h.c \in Nat
      BY LogTypes
    <3>2. QED
      BY <3>1 DEF CanCollect, LogOK, LogShape
  <2>1. h.m \in h.b .. h.m
    BY <2>0
  <2>2. OrdAt(h, h.m)
    BY <2>1 DEF LogOrd, LogOK, CanCollect
  <2>3. Distinct(o) /\ \A q \in 1 .. Len(o) : \E e \in h.a + 1 .. h.m : o[q] = h.ev[e].gn
    BY <1>2, <2>2 DEF OrdAt
  <2>4. \A e \in h.a + 1 .. h.m : h.ev[e].gn # g
    BY <1>5 DEF CanCollect
  <2>5. QED
    BY <2>3, <2>4, Members
<1>7. Splice(o, i, k, g) \in Seq(Gens)
  <2>1. LET v == Splice(o, i, k, g) IN v \in Seq(Gens)
    BY ONLY <1>3, <1>6, o \in Seq(Gens), g \in Gens, Spliced
  <2>2. QED
    BY <2>1
<1>8. PICK r \in Log : CollectLog(h, r, i, k, ev, x)
  <2>1. Splice(h.ord[h.m], i, k, ev.gn) \in Seq(Gens)
    BY ONLY <1>2, <1>5, <1>7, Zenon
  <2>2. QED
    BY <1>1, <1>3, <1>4, <2>1, CollectLogExists
<1>x. LogPt(r)
  <2>1. h.pt[h.b] = NoGen /\ h.pt[h.c] = NoGen
    BY DEF CanCollect, LogOK, LogPt
  <2>2. r.b = h.b /\ r.c = h.c /\ \A j \in 0 .. h.m : r.pt[j] = h.pt[j]
    BY <1>8 DEF CollectLog
  <2>3. h.b \in 0 .. h.m /\ h.c \in 0 .. h.m
    BY <1>8, CollectLogFacts
  <2>4. QED
    BY ONLY <2>1, <2>2, <2>3 DEF LogPt
<1>9. LogOK(r) /\ LogEvents(r, r.m)
  BY <1>8, <1>x, CollectLogFacts, CollectLogColl, CollectLogOrd, CollectLogSteps, CollectLogUp,
     CollectLogEvents DEF LogOK
<1>10. /\ h.m \in Nat /\ h.a \in Nat /\ h.b \in Nat /\ h.c \in Nat
       /\ h.a < h.b /\ h.b <= h.c /\ h.c < h.m
  BY <1>8, CollectLogFacts
<1>11. /\ r.m = h.m + 1 /\ r.a = h.a /\ r.b = h.b /\ r.c = h.c
       /\ \A j \in 0 .. h.m : r.ev[j] = h.ev[j] /\ r.ptr[j] = h.ptr[j]
  BY <1>8 DEF CollectLog
<1>12. ASSUME NEW e \in h.a + 1 .. h.m PROVE InfoAt(r, e, h.m) = InfoAt(h, e, h.m)
  <2>1. /\ e \in Nat /\ h.a <= r.a /\ h.m <= r.m /\ r.a < e /\ e <= h.m /\ h.m <= h.m
        /\ e \in 0 .. h.m
    BY <1>10, <1>11
  <2>2. r.ev[e] = h.ev[e]
    BY <1>11, <2>1
  <2>3. ASSUME NEW z \in Nat, r.a < z, z <= h.m PROVE r.ev[z].gn = h.ev[z].gn
    <3>1. z \in 0 .. h.m
      BY <1>10, <2>3
    <3>2. QED
      BY <1>11, <3>1
  <2>4. \A z \in Nat : r.a < z => r.coll[z] = h.coll[z] \/ (h.coll[z] = 0 /\ h.m < r.coll[z])
    <3>1. \A z \in Nat : h.a < z => r.coll[z] = h.coll[z] \/ (h.coll[z] = 0 /\ r.coll[z] = h.m + 1)
      BY <1>8, CollectLogFacts
    <3>2. QED
      BY <1>10, <1>11, <3>1
  <2>5. \A z \in Nat : h.a < z /\ h.coll[z] # 0 => z < h.coll[z]
    BY <1>8, CollectLogFacts
  <2>6. \A z \in h.a + 1 .. r.a : h.coll[z] = e => Gone(h, e, h.m)
    BY <1>10, <1>11
  <2>7. Start(r, h.m) = Start(h, h.m)
    BY <1>8, <1>10, CollectLogFacts
  <2>8. QED
    BY <1>10, <2>1, <2>2, <2>3, <2>4, <2>5, <2>6, <2>7, InfoKept
<1>13. ASSUME NEW j \in h.a + 1 .. h.m PROVE Cell(r, j) = Cell(h, j)
  <2>1. j \in 0 .. h.m /\ j - 1 \in 0 .. h.m /\ j \in Nat
    BY <1>10
  <2>2. First(r, j) <=> First(h, j)
    BY <1>8, <2>1, CollectLogFacts
  <2>3. r.ev[j] = h.ev[j] /\ r.ptr[j - 1] = h.ptr[j - 1]
    BY <1>11, <2>1
  <2>4. QED
    BY <1>11, <2>2, <2>3 DEF Cell
<1>14. QED
  BY <1>8, <1>9, <1>12, <1>13

(* A cell stays where it is while the pages of the events up to n do.      *)
LEMMA CellKept ==
  ASSUME NEW h \in Log, NEW r \in Log, NEW j \in Nat, NEW n \in Nat, NEW R, NEW S,
         j < n, n <= h.m + 1, n <= r.m + 1, New(h, n),
         \A z \in j .. n : r.ev[z] = h.ev[z], r.ptr[j] = h.ptr[j], Cell(r, j) = Cell(h, j),
         CellOnDisk(h, j, R),
         \A z \in j + 1 .. n, x \in R : x[1] \in ToSet(h.ev[z].diskPage) => x \in S,
         \A z \in j + 1 .. n : Len(h.ev[z].page) = Len(h.ev[z].diskPage)
  PROVE  CellOnDisk(r, j, S)
<1>0. h.m \in Nat /\ r.m \in Nat
  BY LogTypes
<1>1. PICK k \in j + 1 .. h.m + 1 :
        /\ NextNew(h, j, k)
        /\ \E i \in 1 .. Len(h.ev[k].page), x \in R :
             /\ h.ev[k].page[i] = h.ptr[j].page /\ h.ev[k].diskPage[i] = x[1]
             /\ h.ptr[j].slot \in DOMAIN x[2].pinfos
             /\ x[2].pinfos[h.ptr[j].slot] = Cell(h, j)
  BY DEF CellOnDisk
<1>2. k \in Nat /\ k <= n
  <2>1. SUFFICES ASSUME k > n PROVE FALSE
    BY <1>0
  <2>2. n \in j + 1 .. k - 1
    BY <1>0, <2>1
  <2>3. QED
    BY <1>1, <2>2 DEF NextNew
<1>3. k \in j + 1 .. n /\ k \in j .. n /\ k \in j + 1 .. r.m + 1 /\ r.ev[k] = h.ev[k]
  <2>1. k \in j + 1 .. n /\ k \in j .. n /\ k \in j + 1 .. r.m + 1
    BY <1>0, <1>2
  <2>2. QED
    BY <2>1
<1>4. NextNew(r, j, k)
  <2>1. \A x \in j + 1 .. k - 1 : x \in j .. n
    BY <1>0, <1>2
  <2>2. QED
    BY <1>1, <1>3, <2>1 DEF NextNew, New
<1>5. PICK i \in 1 .. Len(h.ev[k].page), x \in R :
        /\ h.ev[k].page[i] = h.ptr[j].page /\ h.ev[k].diskPage[i] = x[1]
        /\ h.ptr[j].slot \in DOMAIN x[2].pinfos
        /\ x[2].pinfos[h.ptr[j].slot] = Cell(h, j)
  BY <1>1
<1>6. x \in S
  <2>1. PICK s \in Seq(DiskPages) : s = h.ev[k].diskPage
    BY <1>2, EventTypes
  <2>2. i \in 1 .. Len(s)
    BY <1>3, <2>1
  <2>3. x[1] \in ToSet(s)
    BY <1>5, <2>1, <2>2, Members
  <2>4. QED
    BY <1>3, <2>1, <2>3
<1>7. /\ r.ev[k].page[i] = r.ptr[j].page /\ r.ev[k].diskPage[i] = x[1]
      /\ r.ptr[j].slot \in DOMAIN x[2].pinfos
      /\ x[2].pinfos[r.ptr[j].slot] = Cell(r, j)
  BY ONLY <1>3, <1>5, r.ptr[j] = h.ptr[j], Cell(r, j) = Cell(h, j), Zenon
<1>8. i \in 1 .. Len(r.ev[k].page)
  BY <1>3
<1>9. QED
  BY ONLY <1>3, <1>4, <1>6, <1>7, <1>8, Zenon DEF CellOnDisk

--------------------------------------------------------------------------------
(* Commits and collections keep the log and the state together.            *)

LEMMA PutAt ==
  ASSUME NEW f, NEW n \in Nat, NEW s, DOMAIN s = 1 .. n, \A i, j \in 1 .. n : s[i] = s[j] => i = j,
         NEW values, NEW i \in 1 .. n, s[i] \in DOMAIN f
  PROVE  Put(f, s, values)[s[i]] = values[i]
<1>1. (CHOOSE j \in DOMAIN s : s[j] = s[i]) = i
  <2>1. \E j \in DOMAIN s : s[j] = s[i]
    OBVIOUS
  <2>2. QED
    BY <2>1
<1>2. QED
  BY <1>1 DEF Put

LEMMA NewDiskPagesDistinct ==
  ASSUME Inv, NEW n \in Nat, DiskHasRoomFor(n)
  PROVE  /\ NewDiskPages(n) \in Seq(DiskPages) /\ DOMAIN NewDiskPages(n) = 1 .. n
         /\ Len(NewDiskPages(n)) = n /\ Distinct(NewDiskPages(n))
<1> DEFINE N == NumberOfDiskPages
           key == [d \in FreeDisk |-> Distance(d)]
<1>1. N \in Nat /\ N > 0 /\ diskCursor \in 0 .. N - 1 /\ FreeDisk \subseteq 0 .. N - 1
      /\ FreeDisk \subseteq DiskPages
  BY PagesAssumption DEF Inv, DiskPages, FreeDisk
<1>2. \A d \in FreeDisk : Distance(d) = IF d < diskCursor THEN d + N - diskCursor
                                        ELSE d - diskCursor
  <2>1. TAKE d \in FreeDisk
  <2>2. d \in 0 .. N - 1
    BY <1>1
  <2>3. Distance(d) = (d + N - diskCursor) % N
    BY DEF Distance
  <2> HIDE DEF N
  <2>4. QED
    BY <1>1, <2>2, <2>3, ModCircle
<1>3. key \in [FreeDisk -> Nat] /\ \A x, y \in FreeDisk : key[x] = key[y] => x = y
  <2> HIDE DEF N
  <2>1. \A d \in FreeDisk : Distance(d) \in Nat
    BY <1>1, <1>2
  <2>2. \A x, y \in FreeDisk : Distance(x) = Distance(y) => x = y
    BY <1>1, <1>2
  <2>3. QED
    BY <2>1, <2>2
<1>4. IsFiniteSet(FreeDisk) /\ Cardinality(FreeDisk) \in Nat
  <2>1. IsFiniteSet(0 .. N - 1)
    <3>1. 0 \in Int /\ N - 1 \in Int
      BY <1>1
    <3>2. QED
      BY <3>1, FS_Interval
  <2>2. QED
    BY <1>1, <2>1, FS_Subset, FS_CardinalityType
<1>5. ASSUME NEW k \in 1 .. n
      PROVE  Cardinality({e \in FreeDisk : Distance(e) < Distance(NthFreeDisk(k))}) = k - 1
  <2>1. k \in 1 .. Cardinality(FreeDisk)
    BY <1>4 DEF DiskHasRoomFor
  <2>2. \E x \in FreeDisk : Cardinality({y \in FreeDisk : key[y] < key[x]}) = k - 1
    <3> HIDE DEF key
    <3>1. PICK S : S = FreeDisk
      OBVIOUS
    <3>2. PICK f : f = key
      OBVIOUS
    <3>3. IsFiniteSet(S) /\ f \in [S -> Nat] /\ k \in 1 .. Cardinality(S)
          /\ \A x, y \in S : f[x] = f[y] => x = y
      BY <1>3, <1>4, <2>1, <3>1, <3>2
    <3>4. \E x \in S : Cardinality({y \in S : f[y] < f[x]}) = k - 1
      BY ONLY <3>3, RankExists
    <3>5. QED
      BY <3>1, <3>2, <3>4
  <2>3. \A x \in FreeDisk : {y \in FreeDisk : key[y] < key[x]}
                            = {y \in FreeDisk : Distance(y) < Distance(x)}
    OBVIOUS
  <2>4. \E x \in FreeDisk : Cardinality({y \in FreeDisk : Distance(y) < Distance(x)}) = k - 1
    BY <2>2, <2>3
  <2>5. QED
    BY <2>4 DEF NthFreeDisk
<1>6. ASSUME NEW i \in 1 .. n, NEW j \in 1 .. n, NthFreeDisk(i) = NthFreeDisk(j) PROVE i = j
  <2>1. PICK S, T : /\ S = {e \in FreeDisk : Distance(e) < Distance(NthFreeDisk(i))}
                    /\ T = {e \in FreeDisk : Distance(e) < Distance(NthFreeDisk(j))}
    OBVIOUS
  <2>2. S = T
    BY <1>6, <2>1
  <2>3. Cardinality(S) = i - 1 /\ Cardinality(T) = j - 1
    BY <1>5, <2>1
  <2>4. i - 1 = j - 1
    BY <2>2, <2>3
  <2>5. QED
    BY <2>4
<1>7. NewDiskPages(n) \in Seq(DiskPages) /\ DOMAIN NewDiskPages(n) = 1 .. n
  BY NewDiskPagesFree
<1>8. Len(NewDiskPages(n)) = n
  BY <1>7
<1>9. Distinct(NewDiskPages(n))
  BY <1>6, <1>8 DEF Distinct, NewDiskPages
<1>10. QED
  BY <1>7, <1>8, <1>9

(* finish_gc: the new pages are on disk as they are in memory, and nothing *)
(* that was in use changed.                                                *)
LEMMA Written ==
  ASSUME Inv, Running, DOMAIN mem = Pages, NEW n \in Nat, NEW contents, DiskHasRoomFor(n),
         n <= Len(freePages), WritePages(n, contents), mem' = Put(mem, NewPages(n), contents)
  PROVE  LET pages == NewPages(n)
             dps == NewDiskPages(n) IN
         /\ pages \in Seq(Pages) /\ Len(pages) = n /\ Distinct(pages)
         /\ dps \in Seq(DiskPages) /\ Len(dps) = n /\ Distinct(dps)
         /\ DOMAIN mem' = Pages
         /\ \A i \in 1 .. n : mem'[pages[i]] = contents[i] /\ disk'[dps[i]] = contents[i]
         /\ \A p \in Pages : p \notin ToSet(pages) => mem'[p] = mem[p]
         /\ \A g \in Existing : \A d \in ToSet(gen[g].diskPage) :
              d \in DiskPages /\ disk'[d] = disk[d] /\ d \notin ToSet(dps)
         /\ \A g \in Gens : gen[g].status \in Live => ToSet(gen[g].page) \cap ToSet(pages) = {}
<1>0. PICK pages, dps : pages = NewPages(n) /\ dps = NewDiskPages(n)
  OBVIOUS
<1>1. FreeOK /\ OwnerOK(gen, owner) /\ DiskOK /\ TableOK(gen) /\ DOMAIN disk = DiskPages
  BY DEF Inv, RunningOK
<1>2. /\ pages \in Seq(Pages) /\ Len(pages) = n /\ DOMAIN pages = 1 .. n /\ Distinct(pages)
      /\ \A p \in ToSet(pages) : p \in Pages /\ owner[p] = NoGen
  BY <1>0, <1>1, FreePagesTaken
<1>3. /\ dps \in Seq(DiskPages) /\ DOMAIN dps = 1 .. n /\ Len(dps) = n /\ Distinct(dps)
      /\ ToSet(dps) \subseteq FreeDisk
  BY <1>0, NewDiskPagesDistinct, NewDiskPagesFree
<1>4. DOMAIN mem' = Pages /\ \A p \in Pages : p \notin ToSet(pages) => mem'[p] = mem[p]
  BY <1>0, PutFunction
<1>5. \A d \in DiskPages : d \notin ToSet(dps) => disk'[d] = disk[d]
  BY <1>0, PagesWritten
<1>6. ASSUME NEW i \in 1 .. n PROVE mem'[pages[i]] = contents[i] /\ disk'[dps[i]] = contents[i]
  <2>1. \A x, y \in 1 .. n : (pages[x] = pages[y] => x = y) /\ (dps[x] = dps[y] => x = y)
    BY <1>2, <1>3 DEF Distinct
  <2>2. pages[i] \in DOMAIN mem /\ dps[i] \in DOMAIN disk
    BY <1>1, <1>2, <1>3
  <2>3. Put(mem, pages, contents)[pages[i]] = contents[i]
    BY <1>2, <2>1, <2>2, PutAt
  <2>4. disk' = Put(disk, dps, contents)
    BY <1>0 DEF WritePages
  <2>5. Put(disk, dps, contents)[dps[i]] = contents[i]
    BY <1>3, <2>1, <2>2, PutAt
  <2>6. QED
    BY <1>0, <2>3, <2>4, <2>5
<1>7. ASSUME NEW g \in Existing, NEW d \in ToSet(gen[g].diskPage)
      PROVE  d \in DiskPages /\ disk'[d] = disk[d] /\ d \notin ToSet(dps)
  <2>1. gen[g].diskPage \in Seq(DiskPages)
    BY <1>1 DEF TableOK, GenInfo, Existing
  <2>2. d \in DiskPages
    BY <2>1, Members
  <2>3. diskStatus[d] = "ALLOCATED"
    BY <1>1, <2>2 DEF DiskOK
  <2>4. d \notin ToSet(dps)
    BY <1>3, <2>3 DEF FreeDisk
  <2>5. QED
    BY <1>5, <2>2, <2>4
<1>8. ASSUME NEW g \in Gens, gen[g].status \in Live
      PROVE  ToSet(gen[g].page) \cap ToSet(pages) = {}
  <2>1. ASSUME NEW p \in ToSet(pages), p \in ToSet(gen[g].page) PROVE FALSE
    <3>1. owner[p] = g /\ g # NoGen
      BY <1>1, <1>2, <1>8, <2>1, GenerationsAssumption DEF OwnerOK, NoGen, Gens
    <3>2. QED
      BY <1>2, <2>1, <3>1
  <2>2. QED
    BY <2>1
<1>9. QED
  BY <1>0, <1>2, <1>3, <1>4, <1>6, <1>7, <1>8

(* What the log of the last commit says does not change while it is the    *)
(* last one.                                                               *)
LEMMA SnapLogKept ==
  ASSUME NEW h, SnapLog(h), UNCHANGED <<root, snap, needs>>
  PROVE  SnapLog(h)'
BY DEF SnapLog

(* Logs that differ in their cells and in what is not described yet.       *)
SameLog(h, r) ==
  /\ r.m = h.m /\ r.a = h.a /\ r.b = h.b /\ r.c = h.c /\ r.coll = h.coll /\ r.pos = h.pos
  /\ r.ord = h.ord /\ r.pt = h.pt /\ r.up = h.up
  /\ \A j \in 0 .. h.m : r.ev[j] = h.ev[j]

LEMMA SameLogOK ==
  ASSUME NEW h \in Log, NEW r \in Log, SameLog(h, r), LogOK(h)
  PROVE  /\ LogOK(r)
         /\ \A e \in h.a + 1 .. h.m, j \in Nat : InfoAt(r, e, j) = InfoAt(h, e, j)
<1>1. /\ h.m \in Nat /\ h.a \in Nat /\ h.b \in Nat /\ h.c \in Nat
      /\ h.a <= h.b /\ h.b <= h.c /\ h.c <= h.m
  <2>1. h.m \in Nat /\ h.a \in Nat /\ h.b \in Nat /\ h.c \in Nat
    BY LogTypes
  <2>2. QED
    BY <2>1, StartRange DEF LogOK
<1>2. LogShape(h) /\ LogColl(h) /\ LogOrd(h) /\ LogSteps(h) /\ LogUp(h)
  BY DEF LogOK
<1>3. LogShape(r)
  BY <1>2 DEF LogShape, SameLog
<1>4. \A j : Start(r, j) = Start(h, j) /\ (First(r, j) <=> First(h, j))
  BY DEF SameLog, Start, First
<1>5. \A e, j : Gone(r, e, j) <=> Gone(h, e, j)
  BY DEF SameLog, Gone
<1>6. \A j \in 0 .. h.m : r.ev[j] = h.ev[j] /\ (New(r, j) <=> New(h, j))
  BY DEF SameLog, New
<1>7. LogColl(r)
  <2>1. ASSUME NEW e \in Nat, r.a < e, r.coll[e] # 0
        PROVE  r.coll[e] <= r.m /\ ~New(r, r.coll[e]) /\ e <= Start(r, r.coll[e])
    <3>1. h.coll[e] <= h.m /\ ~New(h, h.coll[e]) /\ e <= Start(h, h.coll[e])
      BY <1>2, <2>1 DEF LogColl, Index, SameLog
    <3>2. h.coll[e] \in 0 .. h.m
      BY <1>1, <3>1, EventTypes
    <3>3. QED
      BY <1>4, <1>6, <3>1, <3>2 DEF SameLog
  <2>2. r.b < r.c => \A e \in r.a + 1 .. r.b : Gone(r, e, r.c)
    BY <1>2, <1>5 DEF LogColl, SameLog
  <2>3. QED
    BY <2>1, <2>2 DEF LogColl, Index
<1>8. ASSUME NEW j \in h.b .. h.m PROVE OrdAt(r, j)
  <2>1. PICK o : o = h.ord[j]
    OBVIOUS
  <2>2. r.ord[j] = o /\ r.a = h.a /\ Start(r, j) = Start(h, j)
    BY <1>4, <2>1 DEF SameLog
  <2>3. /\ Distinct(o)
        /\ \A q \in 1 .. Len(o) : \E e \in h.a + 1 .. j : o[q] = h.ev[e].gn /\ ~Gone(h, e, j)
        /\ \A e \in h.a + 1 .. j : ~Gone(h, e, j) => \E q \in 1 .. Len(o) : o[q] = h.ev[e].gn
        /\ \A q, s \in 1 .. Len(o), x, y \in Start(h, j) + 1 .. j :
             q < s /\ o[q] = h.ev[x].gn /\ o[s] = h.ev[y].gn => Before(h, x, y)
    BY <1>2, <2>1 DEF LogOrd, OrdAt
  <2>4. \A e \in h.a + 1 .. j : r.ev[e] = h.ev[e]
    <3>1. \A e \in h.a + 1 .. j : e \in 0 .. h.m
      BY <1>1
    <3>2. QED
      BY <1>6, <3>1
  <2>5. \A q \in 1 .. Len(o) : \E e \in r.a + 1 .. j : o[q] = r.ev[e].gn /\ ~Gone(r, e, j)
    BY <1>5, <2>2, <2>3, <2>4
  <2>6. \A e \in r.a + 1 .. j : ~Gone(r, e, j) => \E q \in 1 .. Len(o) : o[q] = r.ev[e].gn
    BY <1>5, <2>2, <2>3, <2>4
  <2>7. ASSUME NEW q \in 1 .. Len(o), NEW s \in 1 .. Len(o),
               NEW x \in Start(r, j) + 1 .. j, NEW y \in Start(r, j) + 1 .. j,
               q < s, o[q] = r.ev[x].gn, o[s] = r.ev[y].gn
        PROVE  Before(r, x, y)
    <3>0. j \in Nat
      BY <1>1
    <3>1. Start(h, j) \in Nat
      BY <1>2, <3>0, StartRange
    <3>2. x \in 0 .. h.m /\ y \in 0 .. h.m
      BY <1>1, <2>2, <3>1
    <3>3. Before(h, x, y)
      BY <1>6, <2>2, <2>3, <2>7, <3>2
    <3>4. QED
      BY <1>6, <3>2, <3>3 DEF Before
  <2>8. QED
    BY ONLY <2>2, <2>3, <2>5, <2>6, <2>7 DEF OrdAt
<1>9. LogOrd(r)
  BY <1>8 DEF LogOrd, SameLog
<1>10. ASSUME NEW j \in h.b + 1 .. h.m
       PROVE  IF New(r, j) THEN NewStep(r, j) ELSE CollectStep(r, j)
  <2>1. j \in 0 .. h.m /\ r.ev[j] = h.ev[j] /\ (New(r, j) <=> New(h, j))
    <3>1. j \in 0 .. h.m
      BY <1>1
    <3>2. QED
      BY <1>6, <3>1
  <2>2. IF New(h, j) THEN NewStep(h, j) ELSE CollectStep(h, j)
    BY <1>2 DEF LogSteps
  <2>3. NewStep(h, j) => NewStep(r, j)
    BY <1>4, <2>1 DEF NewStep, SameLog
  <2>4. ASSUME CollectStep(h, j) PROVE CollectStep(r, j)
    <3>1. \A e \in h.a + 1 .. j - 1 : r.ev[e] = h.ev[e]
      <4>1. \A e \in h.a + 1 .. j - 1 : e \in 0 .. h.m
        BY <1>1
      <4>2. QED
        BY <1>6, <4>1
    <3>2. PICK o, i, k, g, t :
            /\ o = h.ord[j - 1] /\ i = h.pos[j] /\ k = h.ev[j].nfrom /\ g = h.ev[j].gn
            /\ t = h.pt[j - 1]
      OBVIOUS
    <3>3. /\ o = r.ord[j - 1] /\ i = r.pos[j] /\ k = r.ev[j].nfrom /\ g = r.ev[j].gn
          /\ t = r.pt[j - 1] /\ r.ord[j] = h.ord[j] /\ r.pt[j] = h.pt[j]
          /\ r.a = h.a /\ r.coll = h.coll
      BY <2>1, <3>2 DEF SameLog
    <3>4. /\ i \in 1 .. Len(o) /\ k \in 1 .. Len(o) - i + 1
          /\ h.ord[j] = Splice(o, i, k, g)
          /\ t = NoGen \/ (1 < i /\ t = o[i - 1])
          /\ h.pt[j] = IF i + k <= Len(o) THEN g ELSE NoGen
      BY <2>4, <3>2 DEF CollectStep
    <3>5. /\ \A q \in 1 .. Len(o), e \in h.a + 1 .. j - 1 :
               o[q] = h.ev[e].gn => (i <= q <=> e <= Start(h, j))
          /\ \A e \in h.a + 1 .. j - 1 :
               h.coll[e] = j <=> \E q \in i .. i + k - 1 : o[q] = h.ev[e].gn
      BY <2>4, <3>2 DEF CollectStep
    <3>6. \A q \in 1 .. Len(o), e \in r.a + 1 .. j - 1 :
            o[q] = r.ev[e].gn => (i <= q <=> e <= Start(r, j))
      <4>1. TAKE q \in 1 .. Len(o), e \in r.a + 1 .. j - 1
      <4>2. r.ev[e] = h.ev[e] /\ e \in h.a + 1 .. j - 1
        BY ONLY <3>1, <3>3, e \in r.a + 1 .. j - 1, Zenon
      <4>3. Start(r, j) = Start(h, j)
        BY <1>4
      <4>4. o[q] = h.ev[e].gn => (i <= q <=> e <= Start(h, j))
        BY ONLY <3>5, <4>2, q \in 1 .. Len(o), Zenon
      <4>5. QED
        BY ONLY <4>2, <4>3, <4>4
    <3>7. \A e \in r.a + 1 .. j - 1 :
            r.coll[e] = j <=> \E q \in i .. i + k - 1 : o[q] = r.ev[e].gn
      <4>1. TAKE e \in r.a + 1 .. j - 1
      <4>2. r.ev[e] = h.ev[e] /\ r.coll[e] = h.coll[e] /\ e \in h.a + 1 .. j - 1
        BY ONLY <3>1, <3>3, e \in r.a + 1 .. j - 1, Zenon
      <4>3. h.coll[e] = j <=> \E q \in i .. i + k - 1 : o[q] = h.ev[e].gn
        BY <3>5, <4>2
      <4>4. QED
        BY ONLY <4>2, <4>3, Zenon
    <3>8. QED
      BY ONLY <3>3, <3>4, <3>6, <3>7, Zenon DEF CollectStep
  <2>5. QED
    BY <2>1, <2>2, <2>3, <2>4
<1>11. LogSteps(r)
  BY <1>10 DEF LogSteps, SameLog
<1>12. LogUp(r)
  <2>1. \A j \in h.b + 1 .. h.m : j \in 0 .. h.m
    BY <1>1
  <2>2. QED
    BY <1>2, <1>6, <2>1 DEF LogUp, SameLog
<1>13. ASSUME NEW e \in h.a + 1 .. h.m, NEW j \in Nat PROVE InfoAt(r, e, j) = InfoAt(h, e, j)
  <2>1. \A z \in h.a + 1 .. h.m : z \in 0 .. h.m
    BY <1>1
  <2>2. StatusAt(r, e, j) = StatusAt(h, e, j)
    BY <1>4, <1>5 DEF StatusAt, SameLog
  <2>3. FromAt(r, e, j) = FromAt(h, e, j)
    <3>1. CASE Gone(h, e, j)
      BY <1>5, <3>1 DEF FromAt
    <3>2. CASE ~Gone(h, e, j)
      <4>1. FromAt(r, e, j) = {r.ev[x].gn : x \in {z \in h.a + 1 .. h.m : h.coll[z] = e}}
        BY <1>5, <3>2 DEF FromAt, SameLog
      <4>2. FromAt(h, e, j) = {h.ev[x].gn : x \in {z \in h.a + 1 .. h.m : h.coll[z] = e}}
        BY <3>2 DEF FromAt
      <4>3. \A x \in {z \in h.a + 1 .. h.m : h.coll[z] = e} : r.ev[x] = h.ev[x]
        BY <1>6, <2>1
      <4>4. QED
        BY <4>1, <4>2, <4>3
    <3>3. QED
      BY <3>1, <3>2
  <2>4. QED
    BY <1>5, <1>6, <2>1, <2>2, <2>3 DEF InfoAt
<1>14. QED
  <2>1. LogPt(r)
    BY DEF LogOK, LogPt, SameLog
  <2>2. QED
    BY <1>3, <1>7, <1>9, <1>11, <1>12, <1>13, <2>1 DEF LogOK

Relocated(ptr, page) == IF ptr.page = FirstGeneration THEN [ptr EXCEPT !.page = page] ELSE ptr

LEMMA PendLog ==
  ASSUME NEW h \in Log, NEW ev \in Event, NEW page \in Pages \cup {FirstGeneration}
  PROVE  \E r \in Log : /\ SameLog(h, r) /\ r.ev[h.m + 1] = ev
                        /\ \A j \in Nat : r.ptr[j] = Relocated(h.ptr[j], page)
<1>0. PICK n \in Nat : n = h.m + 1
  <2>1. h.m \in Nat
    BY LogTypes
  <2>2. QED
    BY <2>1
<1>1. /\ h.ev \in [Nat -> Event] /\ h.ptr \in [Nat -> Ptr]
      /\ h.coll \in [Nat -> Nat] /\ h.pos \in [Nat -> Nat]
      /\ h.ord \in [Nat -> Seq(Gens)] /\ h.up \in [Nat -> Seq(Gens)]
      /\ h.pt \in [Nat -> Gens \cup {NoGen}]
      /\ h.m \in Nat /\ h.a \in Nat /\ h.b \in Nat /\ h.c \in Nat
  BY LogTypes
<1>2. PICK evs \in [Nat -> Event] : evs = [h.ev EXCEPT ![n] = ev]
  BY <1>1
<1>3. \A p \in Ptr : Relocated(p, page) \in Ptr
  <2>1. TAKE p \in Ptr
  <2>2. [p EXCEPT !.page = page] \in Ptr
    BY DEF Ptr
  <2>3. QED
    BY <2>2 DEF Relocated
<1>4. PICK ptr \in [Nat -> Ptr] : ptr = [j \in Nat |-> Relocated(h.ptr[j], page)]
  BY <1>1, <1>3
<1> DEFINE r == [m |-> h.m, a |-> h.a, b |-> h.b, c |-> h.c, ev |-> evs, ptr |-> ptr,
                 coll |-> h.coll, pos |-> h.pos, ord |-> h.ord, up |-> h.up, pt |-> h.pt]
<1>5. r \in Log
  BY <1>1 DEF Log, Index
<1>6. /\ r.m = h.m /\ r.a = h.a /\ r.b = h.b /\ r.c = h.c /\ r.ev = evs /\ r.ptr = ptr
      /\ r.coll = h.coll /\ r.pos = h.pos /\ r.ord = h.ord /\ r.up = h.up /\ r.pt = h.pt
  OBVIOUS
<1> HIDE DEF r
<1>7. \A j \in 0 .. h.m : r.ev[j] = h.ev[j]
  <2>1. \A j \in 0 .. h.m : j \in Nat /\ j # n
    BY <1>0, <1>1
  <2>2. \A j \in Nat : j # n => evs[j] = h.ev[j]
    BY <1>1, <1>2
  <2>3. QED
    BY <1>6, <2>1, <2>2
<1>8. r.ev[n] = ev /\ \A j \in Nat : r.ptr[j] = Relocated(h.ptr[j], page)
  BY <1>1, <1>2, <1>4, <1>6
<1>9. SameLog(h, r)
  BY ONLY <1>6, <1>7, Zenon DEF SameLog
<1>10. QED
  BY <1>0, <1>5, <1>8, <1>9

(* The generation table says of a generation on disk what the log says.    *)
LEMMA UnmarkedTable ==
  ASSUME gen \in [Gens -> GenInfo], wasStarted \in BOOLEAN, NEW g \in Gens
  PROVE  /\ UnmarkedGen[g] = [gen[g] EXCEPT !.status = Unmarked(@)]
         /\ UnmarkedGen[g].page = gen[g].page /\ UnmarkedGen[g].diskPage = gen[g].diskPage
         /\ UnmarkedGen[g].from = gen[g].from
         /\ UnmarkedGen[g].status \in Live <=> gen[g].status \in Live
         /\ UnmarkedGen[g].status = "NONEXISTENT" <=> gen[g].status = "NONEXISTENT"
         /\ UnmarkedGen[g].status = "COLLECTED_TWICE" <=> gen[g].status = "COLLECTED_TWICE"
         /\ ~wasStarted => UnmarkedGen[g] = gen[g]
         /\ UnmarkedGen[g].status = "TO_BE_COLLECTED" =>
              ~wasStarted /\ gen[g].status = "TO_BE_COLLECTED"
BY DEF UnmarkedGen, Unmarked, GenInfo, Live

LEMMA StatusFacts ==
  ASSUME NEW h, NEW e, NEW j
  PROVE  /\ StatusAt(h, e, j) \in Live <=> ~Gone(h, e, j)
         /\ StatusAt(h, e, j) # "NONEXISTENT"
         /\ InfoAt(h, e, j).status = StatusAt(h, e, j)
         /\ InfoAt(h, e, j).diskPage = h.ev[e].diskPage
         /\ ~Gone(h, e, j) => InfoAt(h, e, j).page = h.ev[e].page
         /\ InfoOf(h.ev[e]).status = "NORMAL" /\ InfoOf(h.ev[e]).diskPage = h.ev[e].diskPage
         /\ InfoOf(h.ev[e]).page = h.ev[e].page
BY DEF StatusAt, Live, InfoAt, InfoOf

LEMMA LogGens ==
  ASSUME NEW h \in Log, gen \in [Gens -> GenInfo], wasStarted \in BOOLEAN,
         NEW j \in Nat, NEW n \in Nat, TableAt(UnmarkedGen, h, j, n)
  PROVE  /\ \A e \in h.a + 1 .. n :
              /\ h.ev[e].gn \in Existing /\ gen[h.ev[e].gn].diskPage = h.ev[e].diskPage
              /\ gen[h.ev[e].gn].status \in Live <=> (j < e \/ ~Gone(h, e, j))
              /\ gen[h.ev[e].gn].status \in Live => gen[h.ev[e].gn].page = h.ev[e].page
         /\ \A g \in Existing : \E e \in h.a + 1 .. n : h.ev[e].gn = g
<1>1. h.a \in Nat
  BY LogTypes
<1>2. ASSUME NEW e \in h.a + 1 .. n
      PROVE  /\ h.ev[e].gn \in Existing /\ gen[h.ev[e].gn].diskPage = h.ev[e].diskPage
             /\ gen[h.ev[e].gn].status \in Live <=> (j < e \/ ~Gone(h, e, j))
             /\ gen[h.ev[e].gn].status \in Live => gen[h.ev[e].gn].page = h.ev[e].page
  <2>1. e \in Nat /\ (e \in h.a + 1 .. j \/ e \in j + 1 .. n) /\ (e \in h.a + 1 .. j <=> ~(j < e))
    BY <1>1
  <2>2. PICK g \in Gens : g = h.ev[e].gn
    BY <2>1, EventTypes
  <2>3. CASE e \in h.a + 1 .. j
    <3>1. UnmarkedGen[g] = InfoAt(h, e, j)
      BY <2>2, <2>3 DEF TableAt
    <3>2. PICK x : x = InfoAt(h, e, j)
      OBVIOUS
    <3>3. /\ UnmarkedGen[g].page = gen[g].page /\ UnmarkedGen[g].diskPage = gen[g].diskPage
          /\ UnmarkedGen[g].status \in Live <=> gen[g].status \in Live
          /\ UnmarkedGen[g].status = "NONEXISTENT" <=> gen[g].status = "NONEXISTENT"
      BY ONLY gen \in [Gens -> GenInfo], wasStarted \in BOOLEAN, g \in Gens, UnmarkedTable
    <3>4. /\ x.status \in Live <=> ~Gone(h, e, j)
          /\ x.status # "NONEXISTENT" /\ x.diskPage = h.ev[e].diskPage
          /\ ~Gone(h, e, j) => x.page = h.ev[e].page
      BY ONLY <3>2, StatusFacts
    <3>5. ~(j < e) /\ UnmarkedGen[g] = x
      BY <2>1, <2>3, <3>1, <3>2
    <3>6. QED
      BY ONLY <2>2, <3>3, <3>4, <3>5, g \in Gens, Zenon DEF Existing
  <2>4. CASE e \in j + 1 .. n
    <3>1. UnmarkedGen[g] = InfoOf(h.ev[e])
      BY <2>2, <2>4 DEF TableAt
    <3>2. j < e /\ "NORMAL" \in Live /\ "NORMAL" # "NONEXISTENT"
      BY <2>4 DEF Live
    <3>3. /\ UnmarkedGen[g].page = gen[g].page /\ UnmarkedGen[g].diskPage = gen[g].diskPage
          /\ UnmarkedGen[g].status \in Live <=> gen[g].status \in Live
          /\ UnmarkedGen[g].status = "NONEXISTENT" <=> gen[g].status = "NONEXISTENT"
      BY ONLY gen \in [Gens -> GenInfo], wasStarted \in BOOLEAN, g \in Gens, UnmarkedTable
    <3>4. /\ InfoOf(h.ev[e]).status = "NORMAL" /\ InfoOf(h.ev[e]).diskPage = h.ev[e].diskPage
          /\ InfoOf(h.ev[e]).page = h.ev[e].page
      BY ONLY StatusFacts
    <3>5. QED
      BY ONLY <2>2, <3>1, <3>2, <3>3, <3>4, g \in Gens, Zenon DEF Existing
  <2>5. QED
    BY <2>1, <2>3, <2>4
<1>3. ASSUME NEW g \in Existing PROVE \E e \in h.a + 1 .. n : h.ev[e].gn = g
  <2>1. g \in Gens /\ gen[g].status # "NONEXISTENT"
    BY DEF Existing
  <2>2. UnmarkedGen[g] # NoInfo
    <3>1. UnmarkedGen[g].status # "NONEXISTENT"
      BY <2>1, UnmarkedTable
    <3>2. NoInfo.status = "NONEXISTENT"
      BY DEF NoInfo
    <3>3. QED
      BY <3>1, <3>2
  <2>3. QED
    BY <2>1, <2>2 DEF TableAt
<1>4. QED
  BY <1>2, <1>3

(* Memory and disk agree on the pages of the live generations, the new one *)
(* included.                                                               *)
LEMMA MemKept ==
  ASSUME Inv, Running, DOMAIN mem = Pages, MemOK, NEW n \in Nat, NEW contents,
         DiskHasRoomFor(n), n <= Len(freePages), WritePages(n, contents),
         mem' = Put(mem, NewPages(n), contents),
         NEW to,
         \A g \in Gens : gen'[g].status \in Live =>
           IF g = to THEN gen'[g].page = NewPages(n) /\ gen'[g].diskPage = NewDiskPages(n)
           ELSE /\ gen[g].status \in Live /\ gen'[g].page = gen[g].page
                /\ gen'[g].diskPage = gen[g].diskPage
  PROVE  MemOK'
<1>0. PICK pages, dps : pages = NewPages(n) /\ dps = NewDiskPages(n)
  OBVIOUS
<1>1. /\ pages \in Seq(Pages) /\ Len(pages) = n
      /\ dps \in Seq(DiskPages) /\ Len(dps) = n
      /\ \A i \in 1 .. n : mem'[pages[i]] = contents[i] /\ disk'[dps[i]] = contents[i]
      /\ \A p \in Pages : p \notin ToSet(pages) => mem'[p] = mem[p]
      /\ \A g \in Existing : \A d \in ToSet(gen[g].diskPage) :
           d \in DiskPages /\ disk'[d] = disk[d] /\ d \notin ToSet(dps)
      /\ \A g \in Gens : gen[g].status \in Live => ToSet(gen[g].page) \cap ToSet(pages) = {}
  BY <1>0, Written
<1>2. ASSUME NEW g \in Gens, gen'[g].status \in Live
      PROVE  /\ Len(gen'[g].page) = Len(gen'[g].diskPage)
             /\ \A i \in 1 .. Len(gen'[g].page) :
                  mem'[gen'[g].page[i]] = disk'[gen'[g].diskPage[i]]
  <2>1. CASE g = to
    <3>1. gen'[g].page = pages /\ gen'[g].diskPage = dps
      BY <1>0, <1>2, <2>1
    <3>2. QED
      BY <1>1, <3>1
  <2>2. CASE g # to
    <3>1. /\ gen[g].status \in Live /\ gen'[g].page = gen[g].page
          /\ gen'[g].diskPage = gen[g].diskPage
      BY <1>2, <2>2
    <3>2. PICK ps, ds : ps = gen[g].page /\ ds = gen[g].diskPage
      OBVIOUS
    <3>3. ps \in Seq(Pages) /\ ds \in Seq(DiskPages)
      BY <3>2 DEF Inv, RunningOK, TableOK, GenInfo
    <3>4. Len(ps) = Len(ds) /\ \A i \in 1 .. Len(ps) : mem[ps[i]] = disk[ds[i]]
      BY <3>1, <3>2 DEF MemOK
    <3>5. g \in Existing
      BY <3>1 DEF Existing, Live
    <3>6. ASSUME NEW i \in 1 .. Len(ps) PROVE mem'[ps[i]] = disk'[ds[i]]
      <4>1. ps[i] \in ToSet(ps) /\ ps[i] \in Pages
        BY <3>3, Members
      <4>2. ds[i] \in ToSet(ds)
        BY <3>3, <3>4, Members
      <4>3. mem'[ps[i]] = mem[ps[i]]
        BY <1>1, <3>1, <3>2, <4>1
      <4>4. disk'[ds[i]] = disk[ds[i]]
        BY <1>1, <3>2, <3>5, <4>2
      <4>5. QED
        BY <3>4, <4>3, <4>4
    <3>7. QED
      BY <3>1, <3>2, <3>4, <3>6
  <2>3. QED
    BY <2>1, <2>2
<1>3. QED
  BY <1>2 DEF MemOK

(* Disk pages of the generations on disk stay, so cells do.                *)
LEMMA DiskKept ==
  ASSUME Inv, Running, DOMAIN mem = Pages, NEW n \in Nat, NEW contents,
         DiskHasRoomFor(n), n <= Len(freePages), WritePages(n, contents),
         mem' = Put(mem, NewPages(n), contents),
         NEW g \in Existing, NEW x \in DiskNow, x[1] \in ToSet(gen[g].diskPage)
  PROVE  x \in DiskNow'
<1>1. PICK d \in DiskPages : x = <<d, disk[d]>>
  BY DEF DiskNow
<1>2. d \in ToSet(gen[g].diskPage)
  BY <1>1
<1>3. disk'[d] = disk[d]
  BY <1>2, Written
<1>4. QED
  BY <1>1, <1>3 DEF DiskNow

(* A generation appended to the events.                                    *)
LEMMA EventsAppended ==
  ASSUME NEW h \in Log, NEW r \in Log, SameLog(h, r), LogOK(h), LogEvents(h, h.m),
         New(r, h.m + 1), Len(r.ev[h.m + 1].page) = Len(r.ev[h.m + 1].diskPage),
         Distinct(r.ev[h.m + 1].page),
         \A e \in h.a + 1 .. h.m :
           /\ h.ev[e].gn # r.ev[h.m + 1].gn
           /\ ToSet(h.ev[e].diskPage) \cap ToSet(r.ev[h.m + 1].diskPage) = {}
           /\ ~Gone(h, e, h.m) => ToSet(h.ev[e].page) \cap ToSet(r.ev[h.m + 1].page) = {}
  PROVE  LogEvents(r, h.m + 1)
<1>1. PICK m \in Nat, a \in Nat : m = h.m /\ a = h.a
  BY LogTypes
<1>2. r.a = a /\ r.m = m /\ r.b = h.b /\ r.c = h.c /\ r.coll = h.coll
  BY <1>1 DEF SameLog
<1>3. \A j \in a + 1 .. m : r.ev[j] = h.ev[j] /\ (New(r, j) <=> New(h, j))
  <2>1. \A j \in a + 1 .. m : j \in 0 .. m
    OBVIOUS
  <2>2. QED
    BY <1>1, <2>1 DEF SameLog, New
<1>4. \A j \in a + 1 .. m + 1 : j \in a + 1 .. m \/ j = m + 1
  OBVIOUS
<1>5. /\ \A j \in a + 1 .. m : Len(h.ev[j].page) = Len(h.ev[j].diskPage) /\ Distinct(h.ev[j].page)
      /\ \A i, j \in a + 1 .. m : h.ev[i].gn = h.ev[j].gn => i = j
      /\ \A i, j \in a + 1 .. m :
           i # j => ToSet(h.ev[i].diskPage) \cap ToSet(h.ev[j].diskPage) = {}
      /\ \A i, j \in a + 1 .. m :
           i < j /\ (h.coll[i] = 0 \/ h.coll[i] >= j)
             => ToSet(h.ev[i].page) \cap ToSet(h.ev[j].page) = {}
      /\ \A j \in a + 1 .. m : h.c = h.m \/ First(h, j) => New(h, j)
  BY <1>1 DEF LogEvents
<1>6. \A j : First(r, j) <=> First(h, j)
  BY <1>2 DEF First
<1>7. \A j \in r.a + 1 .. m + 1 : Len(r.ev[j].page) = Len(r.ev[j].diskPage) /\ Distinct(r.ev[j].page)
  BY <1>1, <1>2, <1>3, <1>4, <1>5
<1>8. \A i, j \in r.a + 1 .. m + 1 : r.ev[i].gn = r.ev[j].gn => i = j
  BY <1>1, <1>2, <1>3, <1>4, <1>5
<1>9. ASSUME NEW i \in a + 1 .. m + 1, NEW j \in a + 1 .. m + 1, i # j
      PROVE  ToSet(r.ev[i].diskPage) \cap ToSet(r.ev[j].diskPage) = {}
  <2>1. \A e \in a + 1 .. m : ToSet(r.ev[e].diskPage) \cap ToSet(r.ev[m + 1].diskPage) = {}
    BY <1>1, <1>3
  <2>2. CASE i \in a + 1 .. m /\ j \in a + 1 .. m
    BY <1>3, <1>5, <1>9, <2>2
  <2>3. CASE i \in a + 1 .. m /\ j = m + 1
    BY <2>1, <2>3
  <2>4. CASE i = m + 1 /\ j \in a + 1 .. m
    BY <2>1, <2>4
  <2>5. QED
    BY <1>4, <1>9, <2>2, <2>3, <2>4
<1>10. ASSUME NEW i \in a + 1 .. m + 1, NEW j \in a + 1 .. m + 1, i < j,
              h.coll[i] = 0 \/ h.coll[i] >= j
       PROVE  ToSet(r.ev[i].page) \cap ToSet(r.ev[j].page) = {}
  <2>1. i \in a + 1 .. m /\ i \in Nat /\ h.a < i
    BY <1>1, <1>10
  <2>2. CASE j \in a + 1 .. m
    BY <1>3, <1>5, <1>10, <2>1, <2>2
  <2>3. CASE j = m + 1
    <3>1. h.coll[i] \in Nat
      BY <2>1, EventTypes
    <3>2. h.coll[i] # 0 => h.coll[i] <= m
      BY <1>1, <2>1 DEF LogOK, LogColl, Index
    <3>3. h.coll[i] = 0
      BY <1>10, <2>3, <3>1, <3>2
    <3>4. ~Gone(h, i, h.m)
      BY <3>3 DEF Gone
    <3>5. QED
      BY <1>1, <1>3, <2>1, <2>3, <3>4
  <2>4. QED
    BY <1>4, <2>2, <2>3
<1>11. \A j \in r.a + 1 .. m + 1 : r.c = r.m \/ First(r, j) => New(r, j)
  BY <1>1, <1>2, <1>3, <1>4, <1>5, <1>6
<1>12. QED
  BY ONLY <1>1, <1>2, <1>7, <1>8, <1>9, <1>10, <1>11, Zenon DEF LogEvents

(* collect_first_generation: the pinfos move to a page of the new          *)
(* generation.                                                             *)
LEMMA CollectFirstReplay ==
  ASSUME Inv, DOMAIN mem = Pages, MemOK, NEW h \in Log, RunLog(h),
         NEW n \in Nat, NEW holder, collect_first_generation(n, holder)
  PROVE  DOMAIN mem' = Pages /\ MemOK' /\ \E r \in Log : RunLog(r)'
<1> DEFINE moved(ptr) == IF ptr.page = FirstGeneration
                         THEN [ptr EXCEPT !.page = NewPages(n)[holder]] ELSE ptr
           cells == [i \in DOMAIN pinfos |-> [pinfos[i] EXCEPT !.prev = moved(@)]]
<1>0. PICK g, pages, dps, contents :
        /\ g = AllocatedGen /\ pages = NewPages(n) /\ dps = NewDiskPages(n)
        /\ contents = Filled(n, holder, cells)
  OBVIOUS
<1>1. /\ phase = "mutator" /\ phase' = "collected"
      /\ holder \in 1 .. n \/ (n = 0 /\ holder = 0 /\ pinfos = <<>>)
      /\ n <= Len(freePages) /\ DiskHasRoomFor(n)
      /\ NGensFor <= MaxGenerations
      /\ gen' = [gen EXCEPT ![g] = [status |-> "NORMAL", page |-> pages,
                                    diskPage |-> dps, from |-> {}]]
      /\ order' = <<g>> \o order
      /\ mem' = Put(mem, NewPages(n), contents) /\ WritePages(n, contents)
      /\ lists' = [lists EXCEPT !.list = moved(@)]
      /\ isCollecting' = isCollecting /\ wasStarted' = wasStarted /\ prevTo' = prevTo
  BY <1>0 DEF collect_first_generation, allocate_generation, insert_generation_after, gcVars
<1>2. /\ Running /\ RunningOK /\ gen \in [Gens -> GenInfo] /\ wasStarted \in BOOLEAN
      /\ order \in Seq(Gens)
  BY <1>1 DEF Running, Inv, RunningOK, TableOK, OrderOK
<1>3. g \in Gens /\ gen[g].status = "NONEXISTENT"
  BY <1>0, <1>1, <1>2, AllocatedGenFree
<1>4. /\ pages \in Seq(Pages) /\ Len(pages) = n /\ Distinct(pages)
      /\ dps \in Seq(DiskPages) /\ Len(dps) = n
      /\ DOMAIN mem' = Pages
      /\ \A i \in 1 .. n : disk'[dps[i]] = contents[i]
      /\ \A x \in Existing : \A d \in ToSet(gen[x].diskPage) : d \notin ToSet(dps)
      /\ \A x \in Gens : gen[x].status \in Live => ToSet(gen[x].page) \cap ToSet(pages) = {}
  <2>1. /\ DiskHasRoomFor(n) /\ n <= Len(freePages) /\ WritePages(n, contents)
        /\ mem' = Put(mem, NewPages(n), contents)
    BY <1>1
  <2>2. Running
    BY <1>2
  <2>3. LET u == NewPages(n)
            v == NewDiskPages(n) IN
        /\ u \in Seq(Pages) /\ Len(u) = n /\ Distinct(u)
        /\ v \in Seq(DiskPages) /\ Len(v) = n
        /\ DOMAIN mem' = Pages
        /\ \A i \in 1 .. n : disk'[v[i]] = contents[i]
        /\ \A x \in Existing : \A d \in ToSet(gen[x].diskPage) : d \notin ToSet(v)
        /\ \A x \in Gens : gen[x].status \in Live => ToSet(gen[x].page) \cap ToSet(u) = {}
    BY ONLY Inv, DOMAIN mem = Pages, n \in Nat, <2>1, <2>2, Written
  <2>4. QED
    BY ONLY <1>0, <2>3, Zenon
<1>5. PICK ev : ev = [gn |-> g, nfrom |-> 0, page |-> pages, diskPage |-> dps]
  OBVIOUS
<1>6. ev \in Event /\ ev.gn = g /\ ev.nfrom = 0 /\ ev.page = pages /\ ev.diskPage = dps
  BY <1>3, <1>4, <1>5 DEF Event
<1>7. \A x \in Gens : x # g => gen'[x] = gen[x] /\ UnmarkedGen'[x] = UnmarkedGen[x]
  BY <1>1, <1>2 DEF UnmarkedGen, Unmarked
<1>8. gen'[g] = InfoOf(ev) /\ UnmarkedGen'[g] = InfoOf(ev)
  <2>1. gen'[g] = InfoOf(ev)
    BY <1>1, <1>2, <1>3, <1>6 DEF InfoOf
  <2>2. UnmarkedGen'[g] = [gen'[g] EXCEPT !.status =
          IF wasStarted /\ @ = "TO_BE_COLLECTED" THEN "NORMAL" ELSE @]
    BY <1>1, <1>3 DEF UnmarkedGen, Unmarked
  <2>3. UnmarkedGen'[g] = InfoOf(ev)
    BY <2>1, <2>2 DEF InfoOf
  <2>4. QED
    BY <2>1, <2>3
<1>9. /\ LogOK(h) /\ DescribedLog(h) /\ lists = ListsOf(h) /\ prevTo = h.pt[h.m]
      /\ LogEvents(h, h.m) /\ TableAt(UnmarkedGen, h, h.m, h.m) /\ order = h.ord[h.m]
  BY <1>1 DEF RunLog, Pending, DescribedLog
<1>10. /\ h.m \in Nat /\ h.a \in Nat /\ h.b \in Nat /\ h.c \in Nat
       /\ h.a <= h.b /\ h.b <= h.c /\ h.c <= h.m
  <2>1. h.m \in Nat /\ h.a \in Nat /\ h.b \in Nat /\ h.c \in Nat
    BY LogTypes
  <2>2. QED
    BY <1>9, <2>1, StartRange DEF LogOK
<1>11. ASSUME NEW e \in h.a + 1 .. h.m
       PROVE  /\ h.ev[e].gn \in Existing /\ h.ev[e].gn \in Gens /\ h.ev[e].gn # g
              /\ gen[h.ev[e].gn].diskPage = h.ev[e].diskPage
              /\ ~Gone(h, e, h.m) => /\ gen[h.ev[e].gn].status \in Live
                                     /\ gen[h.ev[e].gn].page = h.ev[e].page
  <2>1. e \in h.a + 1 .. h.m /\ ~(h.m < e)
    BY <1>10
  <2>2. /\ h.ev[e].gn \in Existing
        /\ gen[h.ev[e].gn].diskPage = h.ev[e].diskPage
        /\ ~Gone(h, e, h.m) => /\ gen[h.ev[e].gn].status \in Live
                               /\ gen[h.ev[e].gn].page = h.ev[e].page
    BY <1>2, <1>9, <1>10, <2>1, LogGens
  <2>3. QED
    BY <1>3, <2>2 DEF Existing
<1>12. PICK page \in Pages \cup {FirstGeneration} : n > 0 => page = pages[holder]
  <2>1. CASE n = 0
    BY <2>1
  <2>2. CASE n > 0
    <3>1. holder \in 1 .. Len(pages)
      BY <1>1, <1>4, <2>2
    <3>2. pages[holder] \in Pages
      BY <1>4, <3>1
    <3>3. QED
      BY <3>2
  <2>3. QED
    BY <2>1, <2>2
<1>13. PICK r \in Log : /\ SameLog(h, r) /\ r.ev[h.m + 1] = ev
                        /\ \A j \in Nat : r.ptr[j] = Relocated(h.ptr[j], page)
  BY <1>6, <1>12, PendLog
<1>14. /\ LogOK(r)
       /\ \A e \in h.a + 1 .. h.m, j \in Nat : InfoAt(r, e, j) = InfoAt(h, e, j)
  BY <1>9, <1>13, SameLogOK
<1>15. /\ r.m = h.m /\ r.a = h.a /\ r.b = h.b /\ r.c = h.c /\ r.ord = h.ord /\ r.pt = h.pt
       /\ \A j \in h.a + 1 .. h.m : r.ev[j] = h.ev[j]
       /\ \A e, j : Gone(r, e, j) <=> Gone(h, e, j)
       /\ \A j : First(r, j) <=> First(h, j)
  <2>1. \A j \in h.a + 1 .. h.m : j \in 0 .. h.m
    BY <1>10
  <2>2. QED
    BY <1>13, <2>1 DEF SameLog, Gone, First
<1>16. New(r, h.m + 1)
  BY <1>6, <1>13 DEF New
<1>17. LogEvents(r, h.m + 1)
  <2>1. ASSUME NEW e \in h.a + 1 .. h.m
        PROVE  /\ h.ev[e].gn # ev.gn
               /\ ToSet(h.ev[e].diskPage) \cap ToSet(ev.diskPage) = {}
               /\ ~Gone(h, e, h.m) => ToSet(h.ev[e].page) \cap ToSet(ev.page) = {}
    BY <1>4, <1>6, <1>11
  <2>2. Len(ev.page) = Len(ev.diskPage) /\ Distinct(ev.page)
    BY <1>4, <1>6
  <2>3. QED
    BY ONLY <1>9, <1>13, <1>16, <2>1, <2>2, h \in Log, r \in Log, EventsAppended
<1>18. TableAt(UnmarkedGen', r, h.m, h.m + 1)
  <2>1. ASSUME NEW e \in r.a + 1 .. h.m PROVE UnmarkedGen'[r.ev[e].gn] = InfoAt(r, e, h.m)
    <3>1. UnmarkedGen[h.ev[e].gn] = InfoAt(h, e, h.m)
      BY <1>9, <1>15 DEF TableAt
    <3>2. QED
      BY <1>7, <1>10, <1>11, <1>14, <1>15, <3>1
  <2>2. \A e \in h.m + 1 .. h.m + 1 : UnmarkedGen'[r.ev[e].gn] = InfoOf(r.ev[e])
    BY <1>6, <1>8, <1>10, <1>13
  <2>3. ASSUME NEW x \in Gens, \A e \in r.a + 1 .. h.m + 1 : r.ev[e].gn # x
        PROVE  UnmarkedGen'[x] = NoInfo
    <3>1. h.m + 1 \in r.a + 1 .. h.m + 1 /\ \A e \in h.a + 1 .. h.m : e \in r.a + 1 .. h.m + 1
      BY <1>10, <1>15
    <3>2. x # g
      BY <1>6, <1>13, <2>3, <3>1
    <3>3. \A e \in h.a + 1 .. h.m : h.ev[e].gn # x
      BY <1>15, <2>3, <3>1
    <3>4. UnmarkedGen[x] = NoInfo
      BY <1>9, <3>3 DEF TableAt
    <3>5. QED
      BY <1>7, <3>2, <3>4
  <2>4. QED
    BY <2>1, <2>2, <2>3 DEF TableAt
<1>19. /\ order' = <<r.ev[r.m + 1].gn>> \o r.ord[r.m]
       /\ gen'[order'[1]] = InfoOf(r.ev[r.m + 1])
  <2>1. order'[1] = g
    BY <1>1, <1>2, <1>3, Pushed
  <2>2. QED
    BY <1>1, <1>6, <1>8, <1>9, <1>13, <1>15, <2>1
<1>20. ASSUME h.m > 0
       PROVE  /\ n > 0 /\ holder \in 1 .. n /\ page = pages[holder]
              /\ \E x \in h.a + 1 .. h.m :
                   /\ New(h, x) /\ \A j \in x + 1 .. h.m : ~New(h, j)
                   /\ \A j \in h.a + 1 .. x - 1 :
                        CellOnDisk(h, j, DiskNow) /\ h.ptr[j].page # FirstGeneration
                   /\ pinfos = [j \in 1 .. h.m - x + 1 |-> Cell(h, x + j - 1)]
                   /\ \A j \in x .. h.m : h.ptr[j] = [page |-> FirstGeneration, slot |-> j - x + 1]
  <2>1. PICK x \in h.a + 1 .. h.m :
          /\ New(h, x) /\ \A j \in x + 1 .. h.m : ~New(h, j)
          /\ \A j \in h.a + 1 .. x - 1 :
               CellOnDisk(h, j, DiskNow) /\ h.ptr[j].page # FirstGeneration
          /\ pinfos = [j \in 1 .. h.m - x + 1 |-> Cell(h, x + j - 1)]
          /\ \A j \in x .. h.m : h.ptr[j] = [page |-> FirstGeneration, slot |-> j - x + 1]
    BY <1>9, <1>20 DEF DescribedLog
  <2>2. 1 \in DOMAIN pinfos
    BY <1>10, <2>1
  <2>3. pinfos # <<>>
    BY <2>2
  <2>4. n > 0 /\ holder \in 1 .. n
    BY <1>1, <2>3
  <2>5. QED
    BY <1>12, <2>1, <2>4
<1>21. ASSUME NEW j \in h.a + 1 .. h.m
       PROVE  /\ Cell(r, j) = [Cell(h, j) EXCEPT !.prev = Relocated(@, page)]
              /\ r.ptr[j] = Relocated(h.ptr[j], page)
  <2>1. j \in Nat /\ j - 1 \in Nat /\ j \in h.a + 1 .. h.m
    BY <1>10
  <2>2. r.ptr[j] = Relocated(h.ptr[j], page) /\ r.ptr[j - 1] = Relocated(h.ptr[j - 1], page)
    BY <1>13, <2>1
  <2>3. Relocated(NullPtr, page) = NullPtr
    BY PagesAssumption DEF Relocated, NullPtr, Nil, FirstGeneration
  <2>4. r.ev[j] = h.ev[j] /\ r.a = h.a /\ (First(r, j) <=> First(h, j))
    BY <1>15
  <2>5. QED
    BY <2>2, <2>3, <2>4 DEF Cell
<1>22. ASSUME NEW j \in h.a + 1 .. h.m PROVE CellOnDisk(r, j, DiskNow')
  <2>0. j \in Nat /\ h.m > 0
    BY <1>10
  <2>1. PICK x \in h.a + 1 .. h.m :
          /\ New(h, x) /\ \A z \in x + 1 .. h.m : ~New(h, z)
          /\ \A z \in h.a + 1 .. x - 1 :
               CellOnDisk(h, z, DiskNow) /\ h.ptr[z].page # FirstGeneration
          /\ pinfos = [z \in 1 .. h.m - x + 1 |-> Cell(h, x + z - 1)]
          /\ \A z \in x .. h.m : h.ptr[z] = [page |-> FirstGeneration, slot |-> z - x + 1]
    BY <1>20, <2>0
  <2>2. n > 0 /\ holder \in 1 .. n /\ page = pages[holder]
    BY <1>20, <2>0
  <2>x. x \in Nat /\ h.a < x /\ x <= h.m
    BY <1>10
  <2>3. CASE j < x
    <3>1. CellOnDisk(h, j, DiskNow) /\ h.ptr[j].page # FirstGeneration
      BY <1>10, <2>0, <2>1, <2>3, <2>x
    <3>2. r.ptr[j] = h.ptr[j]
      BY <1>21, <3>1 DEF Relocated
    <3>3. Cell(r, j) = Cell(h, j)
      <4>1. r.ev[j] = h.ev[j] /\ r.a = h.a /\ (First(r, j) <=> First(h, j))
        BY <1>15
      <4>2. CASE j = h.a + 1 \/ First(h, j)
        BY <4>1, <4>2 DEF Cell
      <4>3. CASE ~(j = h.a + 1 \/ First(h, j))
        <5>1. j - 1 \in h.a + 1 .. x - 1 /\ j - 1 \in Nat
          BY <1>10, <2>0, <2>3, <2>x, <4>3
        <5>2. h.ptr[j - 1].page # FirstGeneration
          BY <2>1, <5>1
        <5>3. r.ptr[j - 1] = h.ptr[j - 1]
          BY <1>13, <5>1, <5>2 DEF Relocated
        <5>4. QED
          BY <4>1, <5>3 DEF Cell
      <4>4. QED
        BY <4>2, <4>3
    <3>4. /\ x <= h.m + 1 /\ x <= r.m + 1
      BY <1>10, <1>15, <2>x
    <3>5. \A z \in j .. x : z \in h.a + 1 .. h.m
      BY <1>10, <2>0, <2>x
    <3>6. \A z \in j + 1 .. x : z \in h.a + 1 .. h.m
      BY <1>10, <2>0, <2>x
    <3>7. \A z \in j .. x : r.ev[z] = h.ev[z]
      BY <1>15, <3>5
    <3>8. \A z \in j + 1 .. x : Len(h.ev[z].page) = Len(h.ev[z].diskPage)
      BY <1>9, <3>6 DEF LogEvents
    <3>9. ASSUME NEW z \in j + 1 .. x, NEW y \in DiskNow, y[1] \in ToSet(h.ev[z].diskPage)
          PROVE  y \in DiskNow'
      <4>1. h.ev[z].gn \in Existing /\ gen[h.ev[z].gn].diskPage = h.ev[z].diskPage
        BY <1>11, <3>6
      <4>2. PICK f \in Existing : f = h.ev[z].gn
        BY <4>1
      <4>3. y[1] \in ToSet(gen[f].diskPage)
        BY <3>9, <4>1, <4>2
      <4>4. QED
        BY ONLY Inv, <1>1, <1>2, DOMAIN mem = Pages, n \in Nat, <4>3, f \in Existing,
                y \in DiskNow, DiskKept
    <3>10. QED
      BY ONLY <2>0, <2>1, <2>3, <2>x, <3>1, <3>2, <3>3, <3>4, <3>7, <3>8, <3>9,
              h \in Log, r \in Log, CellKept
  <2>4. CASE x <= j
    <3>1. NextNew(r, j, h.m + 1)
      <4>1. h.m + 1 \in j + 1 .. r.m + 1
        BY <1>10, <1>15, <2>0
      <4>2. \A z \in j + 1 .. (h.m + 1) - 1 : z \in x + 1 .. h.m /\ z \in h.a + 1 .. h.m
        BY <1>10, <2>0, <2>4, <2>x
      <4>3. \A z \in j + 1 .. (h.m + 1) - 1 : ~New(r, z)
        <5>1. TAKE z \in j + 1 .. (h.m + 1) - 1
        <5>2. ~New(h, z) /\ r.ev[z] = h.ev[z]
          BY <1>15, <2>1, <4>2
        <5>3. QED
          BY <5>2 DEF New
      <4>4. QED
        BY ONLY <1>16, <4>1, <4>3, Zenon DEF NextNew
    <3>2. PICK s : s = j - x + 1
      OBVIOUS
    <3>3. s \in 1 .. h.m - x + 1 /\ x + s - 1 = j
      BY <1>10, <2>0, <2>4, <2>x, <3>2
    <3>4. h.ptr[j] = [page |-> FirstGeneration, slot |-> s]
      BY <1>10, <2>0, <2>1, <2>4, <2>x, <3>2
    <3>5. r.ptr[j].page = pages[holder] /\ r.ptr[j].slot = s
      <4>1. r.ptr[j] = Relocated([page |-> FirstGeneration, slot |-> s], pages[holder])
        BY <1>21, <2>2, <3>4
      <4>2. QED
        BY ONLY <4>1 DEF Relocated
    <3>6. s \in DOMAIN pinfos /\ pinfos[s] = Cell(h, j)
      BY <2>1, <3>3
    <3>7. s \in DOMAIN cells /\ cells[s] = Cell(r, j)
      <4>1. cells[s] = [Cell(h, j) EXCEPT !.prev = moved(@)]
        BY <3>6
      <4>2. moved(Cell(h, j).prev) = Relocated(Cell(h, j).prev, page)
        BY <1>0, <2>2 DEF Relocated
      <4>3. [Cell(h, j) EXCEPT !.prev = moved(@)] = [Cell(h, j) EXCEPT !.prev = Relocated(@, page)]
        BY <4>2
      <4>4. QED
        BY <1>21, <3>6, <4>1, <4>3
    <3> HIDE DEF cells, moved
    <3>8. contents[holder].pinfos = cells
      BY <1>0, <2>2 DEF Filled
    <3>9. PICK y : y = <<dps[holder], disk'[dps[holder]]>>
      OBVIOUS
    <3>10. y \in DiskNow' /\ y[1] = dps[holder] /\ y[2].pinfos = cells
      <4>1. dps[holder] \in DiskPages
        BY <1>4, <2>2
      <4>2. disk'[dps[holder]] = contents[holder]
        BY <1>4, <2>2
      <4>3. y \in DiskNow'
        BY <3>9, <4>1 DEF DiskNow
      <4>4. QED
        BY <3>8, <3>9, <4>2, <4>3
    <3>11. /\ r.ev[h.m + 1].page[holder] = r.ptr[j].page /\ r.ev[h.m + 1].diskPage[holder] = y[1]
           /\ r.ptr[j].slot \in DOMAIN y[2].pinfos /\ y[2].pinfos[r.ptr[j].slot] = Cell(r, j)
      BY ONLY <1>6, <1>13, <3>5, <3>7, <3>10, Zenon
    <3>12. holder \in 1 .. Len(r.ev[h.m + 1].page) /\ h.m + 1 \in j + 1 .. r.m + 1
      BY <1>4, <1>6, <1>10, <1>13, <1>15, <2>0, <2>2
    <3>13. QED
      BY ONLY <3>1, <3>10, <3>11, <3>12, Zenon DEF CellOnDisk
  <2>5. QED
    BY <2>0, <2>3, <2>4, <2>x
<1>23. lists' = ListsOf(r)
  <2>1. moved(lists.list) = (IF h.m = 0 THEN NullPtr ELSE r.ptr[h.m])
    <3>1. CASE h.m = 0
      <4>1. lists.list = NullPtr
        BY <1>9, <3>1 DEF ListsOf
      <4>2. NullPtr.page # FirstGeneration
        BY PagesAssumption DEF NullPtr, Nil, FirstGeneration
      <4>3. QED
        BY <3>1, <4>1, <4>2
    <3>2. CASE h.m # 0
      <4>1. h.m > 0
        BY <1>10, <3>2
      <4>2. page = pages[holder]
        BY <1>20, <4>1
      <4>3. lists.list = h.ptr[h.m]
        BY <1>9, <3>2 DEF ListsOf
      <4>4. r.ptr[h.m] = Relocated(h.ptr[h.m], page)
        BY <1>10, <1>13
      <4>5. QED
        BY <1>0, <3>2, <4>2, <4>3, <4>4 DEF Relocated
    <3>3. QED
      BY <3>1, <3>2
  <2>2. ASSUME NEW j \in {h.b, h.c}, h.a < j, j < h.m, First(h, j + 1)
        PROVE  r.ptr[j] = h.ptr[j]
    <3>0. j \in Nat /\ h.m > 0
      BY <1>10, <2>2
    <3>1. PICK x \in h.a + 1 .. h.m :
            /\ New(h, x) /\ \A z \in x + 1 .. h.m : ~New(h, z)
            /\ \A z \in h.a + 1 .. x - 1 : h.ptr[z].page # FirstGeneration
      BY <1>20, <3>0
    <3>2. New(h, j + 1)
      <4>1. j + 1 \in h.a + 1 .. h.m
        BY <1>10, <2>2, <3>0
      <4>2. QED
        BY <1>9, <2>2, <4>1 DEF LogEvents
    <3>3. j < x
      <4>1. SUFFICES ASSUME x <= j PROVE FALSE
        BY <1>10, <3>0
      <4>2. j + 1 \in x + 1 .. h.m
        BY <1>10, <2>2, <3>0, <4>1
      <4>3. QED
        BY <3>1, <3>2, <4>2
    <3>4. h.ptr[j].page # FirstGeneration
      <4>1. j \in h.a + 1 .. x - 1
        BY <1>10, <2>2, <3>0, <3>3
      <4>2. QED
        BY <3>1, <4>1
    <3>5. QED
      BY <1>13, <3>0, <3>4 DEF Relocated
  <2>3. h.c # h.m => r.ptr[h.c] = h.ptr[h.c]
    <3>1. ASSUME h.c # h.m PROVE h.a < h.c /\ h.c < h.m /\ First(h, h.c + 1)
      <4>1. h.a < h.b
        BY <1>9, <1>10, <3>1 DEF LogOK, LogShape
      <4>2. QED
        BY <1>10, <3>1, <4>1 DEF First
    <3>2. QED
      BY <2>2, <3>1
  <2>4. h.b # h.c => r.ptr[h.b] = h.ptr[h.b]
    <3>1. ASSUME h.b # h.c PROVE h.a < h.b /\ h.b < h.m /\ First(h, h.b + 1)
      BY <1>9, <1>10, <3>1 DEF LogOK, LogShape, First
    <3>2. QED
      BY <2>2, <3>1
  <2>5. lists = ListsOf(h)
    BY <1>9
  <2>6. lists' = [list |-> moved(lists.list), prev |-> lists.prev, prevPrev |-> lists.prevPrev]
    BY <1>1, <2>5 DEF ListsOf
  <2>7. /\ lists.prev = (IF h.c = h.m THEN NullPtr ELSE h.ptr[h.c])
        /\ lists.prevPrev = (IF h.b = h.c THEN NullPtr ELSE h.ptr[h.b])
    BY <2>5 DEF ListsOf
  <2>8. lists.prev = (IF h.c = h.m THEN NullPtr ELSE r.ptr[h.c])
    BY <2>3, <2>7
  <2>9. lists.prevPrev = (IF h.b = h.c THEN NullPtr ELSE r.ptr[h.b])
    BY <2>4, <2>7
  <2> HIDE DEF moved
  <2>10. QED
    BY ONLY <1>15, <2>1, <2>6, <2>8, <2>9, Zenon DEF ListsOf
<1>24. MemOK'
  <2>1. \A x \in Gens : gen'[x].status \in Live =>
           IF x = g THEN gen'[x].page = NewPages(n) /\ gen'[x].diskPage = NewDiskPages(n)
           ELSE /\ gen[x].status \in Live /\ gen'[x].page = gen[x].page
                /\ gen'[x].diskPage = gen[x].diskPage
    BY <1>0, <1>6, <1>7, <1>8 DEF InfoOf
  <2>2. QED
    BY <1>1, <1>2, <2>1, MemKept
<1>25. wasStarted' => isCollecting' /\ \A e \in r.a + 1 .. r.m :
         ~Gone(r, e, r.m) => gen'[r.ev[e].gn].status = "TO_BE_COLLECTED"
  <2>1. ASSUME wasStarted PROVE isCollecting /\ \A e \in h.a + 1 .. h.m :
          ~Gone(h, e, h.m) => gen[h.ev[e].gn].status = "TO_BE_COLLECTED"
    BY <2>1 DEF RunLog
  <2>2. QED
    BY <1>1, <1>7, <1>11, <1>15, <2>1
<1>26. RunLog(r)'
  <2>1. PendingLog(r)'
    BY <1>15, <1>16, <1>17, <1>18, <1>19, <1>22 DEF PendingLog
  <2>2. prevTo' = r.pt[r.m]
    BY <1>1, <1>9, <1>15
  <2>3. Pending'
    BY <1>1 DEF Pending
  <2>4. QED
    BY <1>14, <1>23, <1>25, <2>1, <2>2, <2>3 DEF RunLog
<1>27. QED
  BY <1>4, <1>24, <1>26

(* Steps that leave generations and disk alone.                            *)
LEMMA RunLogKept ==
  ASSUME NEW h, RunLog(h),
         UNCHANGED <<gen, order, pinfos, lists, wasStarted, isCollecting, prevTo, disk>>,
         Pending' <=> Pending, phase # "mutator" \/ phase' = "mutator"
  PROVE  RunLog(h)'
<1>1. UnmarkedGen' = UnmarkedGen /\ DiskNow' = DiskNow
  BY DEF UnmarkedGen, Unmarked, DiskNow
<1>2. PendingLog(h) => PendingLog(h)'
  BY <1>1 DEF PendingLog
<1>3. DescribedLog(h) => DescribedLog(h)'
  <2>1. SUFFICES ASSUME DescribedLog(h) PROVE DescribedLog(h)'
    OBVIOUS
  <2>2. LogEvents(h, h.m) /\ TableAt(UnmarkedGen', h, h.m, h.m) /\ order' = h.ord[h.m]
    BY <1>1, <2>1 DEF DescribedLog
  <2>3. h.m = 0 => pinfos' = <<>> /\ phase' = "mutator"
    BY <2>1 DEF DescribedLog
  <2>4. h.m > 0 => \E n \in h.a + 1 .. h.m :
           /\ New(h, n) /\ \A j \in n + 1 .. h.m : ~New(h, j)
           /\ \A j \in h.a + 1 .. n - 1 : CellOnDisk(h, j, DiskNow') /\ h.ptr[j].page # FirstGeneration
           /\ pinfos' = [j \in 1 .. h.m - n + 1 |-> Cell(h, n + j - 1)]
           /\ \A j \in n .. h.m : h.ptr[j] = [page |-> FirstGeneration, slot |-> j - n + 1]
    <3>1. pinfos' = pinfos
      OBVIOUS
    <3>2. QED
      BY ONLY <1>1, <2>1, <3>1, Zenon DEF DescribedLog
  <2>5. QED
    BY ONLY <2>2, <2>3, <2>4, Zenon DEF DescribedLog
<1>4. QED
  BY <1>2, <1>3 DEF RunLog

LEMMA MemSame ==
  ASSUME MemOK, UNCHANGED <<mem, disk>>,
         \A g \in Gens : gen'[g].status \in Live =>
           gen[g].status \in Live /\ gen'[g].page = gen[g].page /\ gen'[g].diskPage = gen[g].diskPage
  PROVE  MemOK'
<1>1. ASSUME NEW g \in Gens, gen'[g].status \in Live
      PROVE  /\ Len(gen'[g].page) = Len(gen'[g].diskPage)
             /\ \A i \in 1 .. Len(gen'[g].page) :
                  mem'[gen'[g].page[i]] = disk'[gen'[g].diskPage[i]]
  BY <1>1 DEF MemOK
<1>2. QED
  BY <1>1 DEF MemOK

(* The address of a pinfo cell on disk is a memory page.                   *)
LEMMA CellPage ==
  ASSUME NEW h \in Log, NEW j \in h.a + 1 .. h.m, NEW R, CellOnDisk(h, j, R)
  PROVE  h.ptr[j].page \in Pages
<1>1. h.a \in Nat /\ h.m \in Nat
  BY LogTypes
<1>2. PICK k \in j + 1 .. h.m + 1 : \E i \in 1 .. Len(h.ev[k].page) :
        h.ev[k].page[i] = h.ptr[j].page
  BY DEF CellOnDisk
<1>3. k \in Nat
  BY <1>1
<1>4. PICK ps \in Seq(Pages) : ps = h.ev[k].page
  BY <1>3, EventTypes
<1>5. QED
  BY <1>2, <1>4

(* io_write_root: this log is the one to recover from.                     *)
LEMMA WriteRootReplay ==
  ASSUME Inv, DOMAIN mem = Pages, MemOK, NEW h \in Log, RunLog(h), io_write_root
  PROVE  DOMAIN mem' = Pages /\ MemOK' /\ RunLog(h)' /\ SnapLog(h)' /\ root'.exists
<1>1. /\ phase = "collected" /\ phase' = "committed"
      /\ root' = [exists |-> TRUE, lists |-> lists, gn |-> order[1],
                  page |-> gen[order[1]].page, diskPage |-> gen[order[1]].diskPage]
      /\ snap' = Snapshot /\ needs' = ContentsOf(Existing)
      /\ gen' = gen /\ order' = order /\ mem' = mem /\ disk' = disk /\ owner' = owner
      /\ pinfos' = pinfos /\ lists' = lists /\ wasStarted' = wasStarted
      /\ isCollecting' = isCollecting /\ prevTo' = prevTo
  BY DEF io_write_root, heapVars, gcVars, diskVars
<1>2. Running /\ RunningOK /\ Pending /\ Pending'
  BY <1>1 DEF Running, Pending, Inv
<1>3. RunLog(h)'
  BY <1>1, <1>2, RunLogKept
<1>4. MemOK'
  BY <1>1, MemSame
<1>5. /\ LogOK(h) /\ lists = ListsOf(h) /\ prevTo = h.pt[h.m]
      /\ LogEvents(h, h.m + 1) /\ New(h, h.m + 1)
      /\ TableAt(UnmarkedGen, h, h.m, h.m + 1)
      /\ order = <<h.ev[h.m + 1].gn>> \o h.ord[h.m]
      /\ gen[order[1]] = InfoOf(h.ev[h.m + 1])
      /\ \A j \in h.a + 1 .. h.m : CellOnDisk(h, j, DiskNow)
  BY <1>2 DEF RunLog, PendingLog
<1>6. /\ gen \in [Gens -> GenInfo] /\ wasStarted \in BOOLEAN /\ order \in Seq(Gens)
      /\ OwnerOK(gen, owner)
  BY <1>2 DEF Inv, RunningOK, TableOK, OrderOK
<1>7. h.m \in Nat /\ h.a \in Nat
  BY LogTypes
<1>8. ASSUME NEW j \in h.a + 1 .. h.m + 1
      PROVE  /\ j \in Nat
             /\ h.ev[j].gn \in Existing /\ gen[h.ev[j].gn].diskPage = h.ev[j].diskPage
             /\ ~Gone(h, j, h.m) => gen[h.ev[j].gn].status \in Live
             /\ gen[h.ev[j].gn].status \in Live => gen[h.ev[j].gn].page = h.ev[j].page
             /\ Len(h.ev[j].page) = Len(h.ev[j].diskPage)
  <2>1. h.m + 1 \in Nat
    BY <1>7
  <2>2. /\ h.ev[j].gn \in Existing /\ gen[h.ev[j].gn].diskPage = h.ev[j].diskPage
        /\ gen[h.ev[j].gn].status \in Live <=> (h.m < j \/ ~Gone(h, j, h.m))
        /\ gen[h.ev[j].gn].status \in Live => gen[h.ev[j].gn].page = h.ev[j].page
    BY ONLY h \in Log, <1>5, <1>6, <1>7, <2>1, j \in h.a + 1 .. h.m + 1, LogGens
  <2>3. j \in Nat
    BY <1>7
  <2>4. Len(h.ev[j].page) = Len(h.ev[j].diskPage)
    BY <1>5 DEF LogEvents
  <2>5. QED
    BY <2>2, <2>3, <2>4
<1>9. ASSUME NEW j \in h.a + 1 .. h.m + 1, NEW i \in 1 .. Len(h.ev[j].diskPage)
      PROVE  <<h.ev[j].diskPage[i], disk[h.ev[j].diskPage[i]]>> \in needs'
  <2>1. PICK g \in Existing : g = h.ev[j].gn
    BY <1>8
  <2>2. PICK ds \in Seq(DiskPages) : ds = gen[g].diskPage
    BY <1>6, <2>1 DEF GenInfo, Existing
  <2>3. i \in DOMAIN ds /\ ds = h.ev[j].diskPage
    BY <1>8, <2>1, <2>2
  <2>4. <<ds[i], disk[ds[i]]>> \in ContentsOf(Existing)
    <3>1. <<ds[i], disk[ds[i]]>> \in {<<gen[g].diskPage[x], disk[gen[g].diskPage[x]]>> :
                                       x \in DOMAIN gen[g].diskPage}
      BY <2>2, <2>3
    <3>2. QED
      BY ONLY <3>1, g \in Existing DEF ContentsOf
  <2>5. QED
    BY <1>1, <2>3, <2>4
<1>10. ASSUME NEW x \in needs' PROVE x = <<x[1], x[2]>> /\ x[1] \in DiskPages
  <2>1. PICK g \in Existing : x \in {<<gen[g].diskPage[i], disk[gen[g].diskPage[i]]>> :
                                       i \in DOMAIN gen[g].diskPage}
    BY <1>1 DEF ContentsOf
  <2>2. PICK ds \in Seq(DiskPages) : ds = gen[g].diskPage
    BY <1>6, <2>1 DEF GenInfo, Existing
  <2>3. PICK i \in DOMAIN ds : x = <<ds[i], disk[ds[i]]>>
    BY <2>1, <2>2
  <2>4. QED
    BY <2>2, <2>3
<1>11. ASSUME NEW j \in h.a + 1 .. h.m PROVE CellOnDisk(h, j, needs')
  <2>1. j \in Nat /\ j < h.m + 1 /\ h.m + 1 \in Nat /\ h.m + 1 <= h.m + 1
    BY <1>7
  <2>2. \A z \in j + 1 .. h.m + 1 : z \in h.a + 1 .. h.m + 1
    BY <1>7
  <2>3. ASSUME NEW z \in j + 1 .. h.m + 1, NEW x \in DiskNow, x[1] \in ToSet(h.ev[z].diskPage)
        PROVE  x \in needs'
    <3>1. PICK d \in DiskPages : x = <<d, disk[d]>>
      BY DEF DiskNow
    <3>2. z \in Nat /\ z \in h.a + 1 .. h.m + 1
      BY <1>8, <2>2
    <3>3. PICK ds \in Seq(DiskPages) : ds = h.ev[z].diskPage
      BY <3>2, EventTypes
    <3>4. PICK i \in 1 .. Len(ds) : ds[i] = d
      BY <2>3, <3>1, <3>3, Members
    <3>5. QED
      BY <1>9, <3>1, <3>2, <3>3, <3>4
  <2>4. CellOnDisk(h, j, DiskNow)
    BY <1>5
  <2>5. \A z \in j + 1 .. h.m + 1 : Len(h.ev[z].page) = Len(h.ev[z].diskPage)
    BY <1>8, <2>2
  <2>6. New(h, h.m + 1)
    BY <1>5
  <2>7. QED
    BY ONLY h \in Log, <2>1, <2>3, <2>4, <2>5, <2>6, CellKept
<1>12. ASSUME NEW j \in h.a + 1 .. h.m + 1, ~Gone(h, j, h.m), NEW i \in 1 .. Len(h.ev[j].page)
       PROVE  <<h.ev[j].diskPage[i], snap'.mem[h.ev[j].page[i]]>> \in needs'
  <2>1. PICK g \in Gens : g = h.ev[j].gn
    BY <1>8 DEF Existing
  <2>2. gen[g].status \in Live /\ gen[g].page = h.ev[j].page /\ gen[g].diskPage = h.ev[j].diskPage
    BY <1>8, <1>12, <2>1
  <2>3. PICK ps \in Seq(Pages) : ps = h.ev[j].page
    BY <1>8, EventTypes
  <2>4. ps[i] \in Pages /\ ps[i] \in ToSet(ps)
    BY <2>3, Members
  <2>5. owner[ps[i]] = g /\ g # NoGen
    <3>1. ps[i] \in ToSet(gen[g].page)
      BY <2>2, <2>3, <2>4
    <3>2. owner[ps[i]] = g
      BY <1>6, <2>2, <2>4, <3>1 DEF OwnerOK
    <3>3. QED
      BY <3>2, GenerationsAssumption DEF NoGen, Gens
  <2>6. snap'.mem[ps[i]] = mem[ps[i]]
    BY <1>1, <2>4, <2>5 DEF Snapshot
  <2>7. mem[ps[i]] = disk[h.ev[j].diskPage[i]]
    BY <2>2, <2>3 DEF MemOK
  <2>8. i \in 1 .. Len(h.ev[j].diskPage)
    BY <1>8
  <2>9. QED
    BY <1>9, <2>3, <2>6, <2>7, <2>8
<1>13. h.ev[h.m + 1] = [gn |-> root'.gn, nfrom |-> 0, page |-> root'.page, diskPage |-> root'.diskPage]
  <2>1. PICK v \in Event : v = h.ev[h.m + 1]
    BY <1>7, LogTypes
  <2>2. order[1] = v.gn
    <3>1. v.gn \in Gens /\ h.ord[h.m] \in Seq(Gens)
      BY <1>7, <2>1, EventTypes DEF Event
    <3>2. QED
      BY <1>5, <2>1, <3>1, Pushed
  <2>3. gen[order[1]].page = v.page /\ gen[order[1]].diskPage = v.diskPage /\ v.nfrom = 0
    BY <1>5, <2>1 DEF InfoOf, New
  <2>4. QED
    BY <1>1, <2>1, <2>2, <2>3 DEF Event
<1>14. /\ TableAt(snap'.gen, h, h.m, h.m + 1)
       /\ snap'.order = <<root'.gn>> \o h.ord[h.m] /\ snap'.prevTo = h.pt[h.m]
       /\ DOMAIN snap'.mem = {p \in Pages : snap'.owner[p] # NoGen}
  <2>1. snap'.gen = UnmarkedGen /\ snap'.order = order /\ snap'.prevTo = prevTo
    BY <1>1 DEF Snapshot, UnmarkedGen
  <2>2. root'.gn = h.ev[h.m + 1].gn
    BY <1>13
  <2>3. DOMAIN snap'.mem = {p \in Pages : snap'.owner[p] # NoGen}
    BY <1>1 DEF Snapshot
  <2>4. QED
    BY <1>5, <2>1, <2>2, <2>3
<1>15. \A j \in h.a + 1 .. h.m + 1 : \A i \in 1 .. Len(h.ev[j].diskPage) :
         \E x \in needs' : x[1] = h.ev[j].diskPage[i]
  <2>1. TAKE j \in h.a + 1 .. h.m + 1
  <2>x. TAKE i \in 1 .. Len(h.ev[j].diskPage)
  <2>2. <<h.ev[j].diskPage[i], disk[h.ev[j].diskPage[i]]>>[1] = h.ev[j].diskPage[i]
    OBVIOUS
  <2>3. QED
    BY <1>9, <2>2
<1>16. root'.lists = ListsOf(h)
  BY <1>1, <1>5
<1>17. \A j \in h.a + 1 .. h.m : h.ptr[j].page \in Pages
  BY <1>5, CellPage
<1>18. SnapLog(h)'
  BY <1>5, <1>10, <1>11, <1>12, <1>13, <1>14, <1>15, <1>16, <1>17 DEF SnapLog
<1>19. QED
  BY <1>1, <1>3, <1>4, <1>18

LEMMA NoMajorGcReplay ==
  ASSUME DOMAIN mem = Pages, MemOK, NEW h \in Log, RunLog(h), NoMajorGc \/ PrepareStep
  PROVE  DOMAIN mem' = Pages /\ MemOK' /\ RunLog(h)'
<1>1. /\ phase = "major" /\ phase' \in {"mutator", "step"}
      /\ gen' = gen /\ order' = order /\ mem' = mem /\ disk' = disk
      /\ pinfos' = pinfos /\ lists' = lists /\ wasStarted' = wasStarted
      /\ isCollecting' = isCollecting /\ prevTo' = prevTo
  BY DEF NoMajorGc, PrepareStep, heapVars, gcVars, diskVars
<1>2. ~Pending /\ ~Pending'
  BY <1>1 DEF Pending
<1>3. RunLog(h)'
  BY <1>1, <1>2, RunLogKept
<1>4. MemOK'
  BY <1>1, MemSame
<1>5. QED
  BY <1>1, <1>3, <1>4

LEMMA Remarked ==
  ASSUME NEW x \in GenInfo, NEW status \in GenStatus
  PROVE  [[x EXCEPT !.status = status] EXCEPT !.status = x.status] = x
<1>1. PICK u : u = [x EXCEPT !.status = status]
  OBVIOUS
<1>2. u \in GenInfo /\ u.page = x.page /\ u.diskPage = x.diskPage /\ u.from = x.from
  BY <1>1 DEF GenInfo
<1>3. PICK v : v = [u EXCEPT !.status = x.status]
  OBVIOUS
<1>4. /\ v \in GenInfo /\ v.status = x.status /\ v.page = u.page /\ v.diskPage = u.diskPage
      /\ v.from = u.from
  BY <1>2, <1>3 DEF GenInfo
<1>5. v = x
  BY <1>2, <1>4, SameInfo
<1>6. QED
  BY <1>1, <1>3, <1>5

(* mark_major_gc_generations: an announced collection does not count yet.  *)
LEMMA MarkReplay ==
  ASSUME Inv, DOMAIN mem = Pages, MemOK, NEW h \in Log, RunLog(h), mark_major_gc_generations
  PROVE  DOMAIN mem' = Pages /\ MemOK' /\ RunLog(h)'
<1>1. /\ phase = "major" /\ phase' = "mutator" /\ ~isCollecting
      /\ gen' = [g \in Gens |-> IF g \in ToSet(order)
                                THEN [gen[g] EXCEPT !.status = "TO_BE_COLLECTED"] ELSE gen[g]]
      /\ isCollecting' = TRUE /\ wasStarted' = TRUE
      /\ order' = order /\ mem' = mem /\ disk' = disk
      /\ pinfos' = pinfos /\ lists' = lists /\ prevTo' = prevTo
  BY DEF mark_major_gc_generations, diskVars
<1>2. /\ ~Pending /\ ~Pending' /\ Running /\ RunningOK
  BY <1>1 DEF Pending, Running, Inv
<1>3. /\ gen \in [Gens -> GenInfo] /\ ~wasStarted /\ wasStarted \in BOOLEAN
      /\ ToSet(order) = {g \in Gens : gen[g].status \in Live}
      /\ \A g \in Gens : gen[g].status # "TO_BE_COLLECTED"
  BY <1>1, <1>2 DEF Inv, RunningOK, TableOK, PhaseOK, OrderOK, CollectorOK
<1>4. ASSUME NEW g \in Gens
      PROVE  /\ UnmarkedGen'[g] = gen[g] /\ UnmarkedGen[g] = gen[g]
             /\ gen[g].status \in Live =>
                  gen'[g] = [gen[g] EXCEPT !.status = "TO_BE_COLLECTED"]
             /\ gen[g].status \notin Live => gen'[g] = gen[g]
             /\ gen'[g].page = gen[g].page /\ gen'[g].diskPage = gen[g].diskPage
             /\ gen'[g].status \in Live <=> gen[g].status \in Live
  <2>0. gen[g] \in GenInfo /\ gen[g].status # "TO_BE_COLLECTED"
    BY <1>3
  <2>1. UnmarkedGen[g] = gen[g]
    BY <1>3, UnmarkedTable
  <2>2. UnmarkedGen'[g] = [gen'[g] EXCEPT !.status = IF @ = "TO_BE_COLLECTED" THEN "NORMAL" ELSE @]
    BY <1>1 DEF UnmarkedGen, Unmarked
  <2>3. CASE gen[g].status \in Live
    <3>1. gen'[g] = [gen[g] EXCEPT !.status = "TO_BE_COLLECTED"] /\ gen[g].status = "NORMAL"
      BY <1>1, <1>3, <2>3 DEF Live
    <3>2. gen'[g].status = "TO_BE_COLLECTED"
      BY <2>0, <3>1 DEF GenInfo
    <3>3. UnmarkedGen'[g] = gen[g]
      <4>1. UnmarkedGen'[g] = [gen'[g] EXCEPT !.status = "NORMAL"]
        BY <2>2, <3>2
      <4>2. QED
        <5>1. "TO_BE_COLLECTED" \in GenStatus
          BY DEF GenStatus
        <5>2. UnmarkedGen'[g] = [[gen[g] EXCEPT !.status = "TO_BE_COLLECTED"] EXCEPT !.status = gen[g].status]
          BY <3>1, <4>1
        <5>3. QED
          BY <2>0, <5>1, <5>2, Remarked
    <3>4. gen'[g].page = gen[g].page /\ gen'[g].diskPage = gen[g].diskPage
      BY <2>0, <3>1 DEF GenInfo
    <3>5. QED
      BY <2>1, <2>3, <3>1, <3>2, <3>3, <3>4 DEF Live
  <2>4. CASE gen[g].status \notin Live
    <3>1. gen'[g] = gen[g]
      BY <1>1, <1>3, <2>4
    <3>2. UnmarkedGen'[g] = gen[g]
      BY <2>0, <2>2, <3>1 DEF GenInfo
    <3>3. QED
      BY <2>1, <2>4, <3>1, <3>2
  <2>5. QED
    BY <2>3, <2>4
<1>5. MemOK'
  BY <1>1, <1>4, MemSame
<1>6. /\ LogOK(h) /\ DescribedLog(h) /\ lists = ListsOf(h) /\ prevTo = h.pt[h.m]
      /\ LogEvents(h, h.m) /\ TableAt(UnmarkedGen, h, h.m, h.m) /\ order = h.ord[h.m]
  BY <1>2 DEF RunLog, DescribedLog
<1>7. h.m \in Nat /\ h.a \in Nat
  BY LogTypes
<1>8. ASSUME NEW e \in h.a + 1 .. h.m, ~Gone(h, e, h.m)
      PROVE  gen'[h.ev[e].gn].status = "TO_BE_COLLECTED"
  <2>1. h.ev[e].gn \in Existing /\ (gen[h.ev[e].gn].status \in Live <=> (h.m < e \/ ~Gone(h, e, h.m)))
    BY <1>3, <1>6, <1>7, LogGens
  <2>2. PICK g \in Gens : g = h.ev[e].gn
    BY <2>1 DEF Existing
  <2>3. gen'[g] = [gen[g] EXCEPT !.status = "TO_BE_COLLECTED"]
    BY <1>4, <1>8, <2>1, <2>2
  <2>4. gen[g] \in GenInfo
    BY <1>3
  <2>5. QED
    BY <2>2, <2>3, <2>4 DEF GenInfo
<1>9. TableAt(UnmarkedGen', h, h.m, h.m)
  <2>1. UnmarkedGen' = UnmarkedGen
    BY <1>4 DEF UnmarkedGen
  <2>2. QED
    BY <1>6, <2>1
<1>10. DescribedLog(h)'
  <2>1. DiskNow' = DiskNow /\ pinfos' = pinfos
    BY <1>1 DEF DiskNow
  <2>2. h.m = 0 => pinfos' = <<>> /\ phase' = "mutator"
    BY <1>1, <1>6 DEF DescribedLog
  <2>3. order' = h.ord[h.m]
    BY <1>1, <1>6
  <2>4. h.m > 0 => \E n \in h.a + 1 .. h.m :
           /\ New(h, n) /\ \A j \in n + 1 .. h.m : ~New(h, j)
           /\ \A j \in h.a + 1 .. n - 1 : CellOnDisk(h, j, DiskNow') /\ h.ptr[j].page # FirstGeneration
           /\ pinfos' = [j \in 1 .. h.m - n + 1 |-> Cell(h, n + j - 1)]
           /\ \A j \in n .. h.m : h.ptr[j] = [page |-> FirstGeneration, slot |-> j - n + 1]
    BY ONLY <1>6, <2>1, Zenon DEF DescribedLog
  <2>5. QED
    BY ONLY <1>6, <1>9, <2>2, <2>3, <2>4, Zenon DEF DescribedLog
<1>11. QED
  BY <1>1, <1>2, <1>5, <1>6, <1>8, <1>10 DEF RunLog

(* StartGroup: the generation just committed is described, in a new list   *)
(* if a collection was announced before.                                   *)
LEMMA DescribedNow ==
  ASSUME NEW h \in Log, NEW r \in Log, NewLog(h, r), SameCells(h, r), LogOK(r),
         LogEvents(r, r.m), h.m \in Nat, r.a \in Nat, h.a <= r.a, r.a <= h.m,
         r.m = h.m + 1, New(r, r.m),
         \A j \in r.a + 1 .. h.m : CellOnDisk(h, j, DiskNow),
         disk' = disk, pinfos' = <<Cell(r, r.m)>>, order' = r.ord[r.m],
         TableAt(UnmarkedGen', r, r.m, r.m)
  PROVE  DescribedLog(r)'
<1>1. DiskNow' = DiskNow
  BY DEF DiskNow
<1>2. r.m \in r.a + 1 .. r.m /\ \A j \in r.m + 1 .. r.m : FALSE
  OBVIOUS
<1>3. ASSUME NEW j \in r.a + 1 .. r.m - 1
      PROVE  CellOnDisk(r, j, DiskNow') /\ r.ptr[j].page # FirstGeneration
  <2>1. j \in r.a + 1 .. h.m /\ j \in h.a + 1 .. h.m
    <3>1. h.a \in Nat
      BY LogTypes
    <3>2. QED
      BY <3>1
  <2>2. CellOnDisk(r, j, DiskNow) /\ r.ptr[j] = h.ptr[j]
    BY <2>1, NewLogCells
  <2>3. CellOnDisk(h, j, DiskNow)
    BY <2>1
  <2>4. h.ptr[j].page \in Pages
    BY <2>1, <2>3, CellPage
  <2>5. QED
    BY <1>1, <2>2, <2>4, PagesAssumption DEF Pages, FirstGeneration
<1>4. pinfos' = [j \in 1 .. r.m - r.m + 1 |-> Cell(r, r.m + j - 1)]
  <2>1. PICK c : c = Cell(r, r.m)
    OBVIOUS
  <2>2. PICK n \in Nat : n = r.m
    OBVIOUS
  <2>3. n - n + 1 = 1 /\ \A j \in 1 .. 1 : n + j - 1 = n
    BY <2>2
  <2>4. [j \in 1 .. n - n + 1 |-> Cell(r, n + j - 1)] = [j \in 1 .. 1 |-> c]
    BY <2>1, <2>2, <2>3
  <2>5. <<c>> = [j \in 1 .. 1 |-> c]
    OBVIOUS
  <2>6. QED
    BY <2>1, <2>2, <2>4, <2>5
<1>5. \A j \in r.m .. r.m : r.ptr[j] = [page |-> FirstGeneration, slot |-> j - r.m + 1]
  <2>1. r.ptr[r.m] = [page |-> FirstGeneration, slot |-> 1]
    BY DEF NewLog
  <2>2. \A j \in r.m .. r.m : j = r.m /\ j - r.m + 1 = 1
    OBVIOUS
  <2>3. QED
    BY <2>1, <2>2
<1>6. r.m # 0
  OBVIOUS
<1>7. \E n \in r.a + 1 .. r.m :
        /\ New(r, n) /\ \A j \in n + 1 .. r.m : ~New(r, j)
        /\ \A j \in r.a + 1 .. n - 1 : CellOnDisk(r, j, DiskNow') /\ r.ptr[j].page # FirstGeneration
        /\ pinfos' = [j \in 1 .. r.m - n + 1 |-> Cell(r, n + j - 1)]
        /\ \A j \in n .. r.m : r.ptr[j] = [page |-> FirstGeneration, slot |-> j - n + 1]
  <2>1. \A j \in r.m + 1 .. r.m : ~New(r, j)
    BY <1>2
  <2>2. New(r, r.m)
    OBVIOUS
  <2>3. QED
    BY ONLY <1>2, <1>3, <1>4, <1>5, <2>1, <2>2, Zenon
<1>8. QED
  BY ONLY <1>6, <1>7, LogEvents(r, r.m), order' = r.ord[r.m], TableAt(UnmarkedGen', r, r.m, r.m),
          Zenon DEF DescribedLog

LEMMA StartGroupReplay ==
  ASSUME Inv, DOMAIN mem = Pages, MemOK, NEW h \in Log, RunLog(h), StartGroup
  PROVE  DOMAIN mem' = Pages /\ MemOK' /\ \E r \in Log : RunLog(r)'
<1>0. PICK y, ls : /\ y = order[1]
                   /\ ls = (IF wasStarted
                            THEN [list |-> NullPtr, prev |-> lists.list, prevPrev |-> lists.prev]
                            ELSE lists)
  OBVIOUS
<1>1. /\ phase = "committed" /\ phase' = "major"
      /\ gen' = (IF wasStarted THEN Purged ELSE gen)
      /\ wasStarted' = FALSE
      /\ pinfos' = Logged(<<>>, ls, y, 0, gen[y].page, gen[y].diskPage)
      /\ lists' = [ls EXCEPT !.list = LogPtr(<<>>)]
      /\ order' = order /\ mem' = mem /\ disk' = disk /\ prevTo' = prevTo
      /\ isCollecting' = isCollecting
  BY <1>0 DEF StartGroup
<1>2. Running /\ RunningOK /\ Pending /\ ~Pending'
  BY <1>1 DEF Running, Pending, Inv
<1>3. /\ LogOK(h) /\ lists = ListsOf(h) /\ prevTo = h.pt[h.m]
      /\ LogEvents(h, h.m + 1) /\ New(h, h.m + 1)
      /\ TableAt(UnmarkedGen, h, h.m, h.m + 1)
      /\ order = <<h.ev[h.m + 1].gn>> \o h.ord[h.m]
      /\ gen[order[1]] = InfoOf(h.ev[h.m + 1])
      /\ \A j \in h.a + 1 .. h.m : CellOnDisk(h, j, DiskNow)
      /\ wasStarted => isCollecting /\ \A e \in h.a + 1 .. h.m :
           ~Gone(h, e, h.m) => gen[h.ev[e].gn].status = "TO_BE_COLLECTED"
  BY <1>2 DEF RunLog, PendingLog
<1>4. /\ gen \in [Gens -> GenInfo] /\ wasStarted \in BOOLEAN /\ order \in Seq(Gens)
      /\ OrderOK(gen, order)
      /\ isCollecting => \E g \in Gens : gen[g].status = "TO_BE_COLLECTED"
  BY <1>2 DEF Inv, RunningOK, TableOK, OrderOK, CollectorOK
<1>5. LogShape(h) /\ LogColl(h)
  BY <1>3 DEF LogOK
<1>6. /\ h.m \in Nat /\ h.a \in Nat /\ h.b \in Nat /\ h.c \in Nat
      /\ h.a <= h.b /\ h.b <= h.c /\ h.c <= h.m /\ h.m + 1 \in Nat
  <2>1. h.m \in Nat /\ h.a \in Nat /\ h.b \in Nat /\ h.c \in Nat
    BY LogTypes
  <2>2. QED
    BY <1>5, <2>1, StartRange
<1>7. PICK ev \in Event : ev = h.ev[h.m + 1]
  BY <1>6, LogTypes
<1>8. y = ev.gn /\ y \in Gens /\ gen[y] = InfoOf(ev) /\ ev.nfrom = 0
  <2>1. ev.gn \in Gens /\ h.ord[h.m] \in Seq(Gens)
    BY <1>6, <1>7, EventTypes DEF Event
  <2>2. order[1] = ev.gn
    BY <1>3, <1>7, <2>1, Pushed
  <2>3. QED
    BY <1>0, <1>3, <1>7, <2>1, <2>2 DEF New
<1>9. pinfos' = <<[gn |-> ev.gn, nfrom |-> 0, page |-> ev.page, diskPage |-> ev.diskPage,
                   prev |-> ls.list]>>
      /\ lists' = [list |-> [page |-> FirstGeneration, slot |-> 1], prev |-> ls.prev,
                   prevPrev |-> ls.prevPrev]
  <2>1. ls = [list |-> ls.list, prev |-> ls.prev, prevPrev |-> ls.prevPrev]
    BY <1>0, <1>3 DEF ListsOf
  <2>2. LogPtr(<<>>) = [page |-> FirstGeneration, slot |-> 1]
    BY DEF LogPtr
  <2>3. lists' = [list |-> LogPtr(<<>>), prev |-> ls.prev, prevPrev |-> ls.prevPrev]
    BY <1>1, <2>1
  <2>4. gen[y].page = ev.page /\ gen[y].diskPage = ev.diskPage
    BY <1>8 DEF InfoOf
  <2>5. pinfos' = Append(<<>>, [gn |-> ev.gn, nfrom |-> 0, page |-> ev.page,
                               diskPage |-> ev.diskPage, prev |-> ls.list])
    BY ONLY <1>1, <1>8, <2>4, Zenon DEF Logged
  <2>6. PICK x : x = [gn |-> ev.gn, nfrom |-> 0, page |-> ev.page,
                      diskPage |-> ev.diskPage, prev |-> ls.list]
    OBVIOUS
  <2>7. Append(<<>>, x) = <<x>>
    OBVIOUS
  <2>8. QED
    BY ONLY <2>2, <2>3, <2>5, <2>6, <2>7, Zenon
<1>10. \A g \in Gens : gen'[g] = gen[g] \/ gen'[g] = NoInfo
  BY <1>1, <1>4 DEF Purged
<1>11. MemOK'
  <2>1. \A g \in Gens : gen'[g].status \in Live =>
          gen[g].status \in Live /\ gen'[g].page = gen[g].page /\ gen'[g].diskPage = gen[g].diskPage
    BY <1>10 DEF NoInfo, Live
  <2>2. QED
    BY <1>1, <2>1, MemSame
<1>12. ASSUME NEW r \in Log, NewLog(h, r), SameCells(h, r), LogOK(r), LogEvents(r, r.m),
              h.a <= r.a, r.a <= h.m, TableAt(UnmarkedGen', r, r.m, r.m),
              ls = [list |-> IF r.m = r.a + 1 \/ First(r, r.m) THEN NullPtr ELSE h.ptr[h.m],
                    prev |-> IF r.c = h.m + 1 THEN NullPtr ELSE h.ptr[r.c],
                    prevPrev |-> IF r.b = r.c THEN NullPtr ELSE h.ptr[r.b]],
              r.c = h.m + 1 \/ r.c <= h.m, r.b = r.c \/ r.b <= h.m
       PROVE  RunLog(r)'
  <2>1. /\ r.m = h.m + 1 /\ r.ev = h.ev /\ r.a \in Nat /\ r.b \in Nat /\ r.c \in Nat
        /\ \A j \in 0 .. h.m : r.ptr[j] = h.ptr[j]
        /\ r.ptr[h.m + 1] = [page |-> FirstGeneration, slot |-> 1]
        /\ r.ord[h.m + 1] = <<h.ev[h.m + 1].gn>> \o h.ord[h.m]
        /\ r.pt[h.m + 1] = h.pt[h.m]
    <3>1. r.a \in Nat /\ r.b \in Nat /\ r.c \in Nat
      BY LogTypes
    <3>2. NewLog(h, r)
      BY <1>12
    <3>3. QED
      BY ONLY <3>1, <3>2, Zenon DEF NewLog
  <2>2. r.ptr[r.m - 1] = h.ptr[h.m]
    <3>1. r.m - 1 = h.m /\ h.m \in 0 .. h.m
      BY <1>6, <2>1
    <3>2. QED
      BY <2>1, <3>1, Zenon
  <2>3. pinfos' = <<Cell(r, r.m)>>
    <3>1. ls.list = (IF r.m = r.a + 1 \/ First(r, r.m) THEN NullPtr ELSE h.ptr[h.m])
      BY <1>12
    <3>2. QED
      BY <1>7, <1>8, <1>9, <2>1, <2>2, <3>1 DEF Cell
  <2>4. \A j \in r.a + 1 .. h.m : CellOnDisk(h, j, DiskNow)
    <3>1. \A j \in r.a + 1 .. h.m : j \in h.a + 1 .. h.m
      BY <1>6, <1>12, <2>1
    <3>2. QED
      BY <1>3, <3>1
  <2>5. New(r, r.m) /\ order' = r.ord[r.m]
    BY <1>1, <1>3, <2>1 DEF New
  <2>6. DescribedLog(r)'
    BY ONLY h \in Log, r \in Log, <1>1, <1>6, <1>12, <2>1, <2>3, <2>4, <2>5, DescribedNow
  <2>7. lists' = ListsOf(r)
    <3>1. r.m # 0
      BY <1>6, <2>1
    <3>2. ls.prev = (IF r.c = r.m THEN NullPtr ELSE r.ptr[r.c])
      <4>1. r.c # h.m + 1 => r.c \in 0 .. h.m
        BY <1>6, <1>12, <2>1
      <4>2. QED
        BY <1>12, <2>1, <4>1
    <3>3. ls.prevPrev = (IF r.b = r.c THEN NullPtr ELSE r.ptr[r.b])
      <4>1. r.b # r.c => r.b \in 0 .. h.m
        BY <1>6, <1>12, <2>1
      <4>2. QED
        BY <1>12, <2>1, <4>1
    <3>4. QED
      BY ONLY <1>9, <2>1, <3>1, <3>2, <3>3, Zenon DEF ListsOf
  <2>8. prevTo' = r.pt[r.m]
    BY <1>1, <1>3, <2>1
  <2>9. QED
    BY ONLY <1>1, <1>2, <1>12, <2>6, <2>7, <2>8, Zenon DEF RunLog
<1>13. CASE ~wasStarted
  <2>1. PICK r \in Log :
           /\ NewLog(h, r) /\ LogOK(r) /\ LogEvents(r, r.m) /\ SameCells(h, r)
           /\ r.a = h.a
           /\ r.b = (IF h.c = h.m THEN h.m + 1 ELSE h.b)
           /\ r.c = (IF h.c = h.m THEN h.m + 1 ELSE h.c)
           /\ \A e \in h.a + 1 .. h.m : InfoAt(r, e, r.m) = InfoAt(h, e, h.m)
           /\ InfoAt(r, r.m, r.m) = InfoOf(r.ev[r.m])
    BY <1>3, NextLog
  <2>2. r.m = h.m + 1 /\ r.ev = h.ev
    BY <2>1 DEF NewLog
  <2>3. UnmarkedGen' = UnmarkedGen
    BY <1>1, <1>13 DEF UnmarkedGen, Unmarked
  <2>4. TableAt(UnmarkedGen', r, r.m, r.m)
    <3>1. ASSUME NEW e \in r.a + 1 .. r.m PROVE UnmarkedGen[r.ev[e].gn] = InfoAt(r, e, r.m)
      <4>1. CASE e = r.m
        <5>1. e \in h.m + 1 .. h.m + 1
          BY <1>6, <2>2, <4>1
        <5>2. UnmarkedGen[h.ev[e].gn] = InfoOf(h.ev[e])
          BY <1>3, <5>1 DEF TableAt
        <5>3. QED
          BY <2>1, <2>2, <4>1, <5>2
      <4>2. CASE e # r.m
        <5>1. e \in h.a + 1 .. h.m
          BY <1>6, <2>1, <2>2, <4>2
        <5>2. UnmarkedGen[h.ev[e].gn] = InfoAt(h, e, h.m)
          BY <1>3, <5>1 DEF TableAt
        <5>3. QED
          BY <2>1, <2>2, <5>1, <5>2
      <4>3. QED
        BY <4>1, <4>2
    <3>2. \A e \in r.m + 1 .. r.m : FALSE
      BY <1>6, <2>2
    <3>3. \A g \in Gens : (\A e \in r.a + 1 .. r.m : r.ev[e].gn # g) => UnmarkedGen[g] = NoInfo
      BY <1>3, <2>1, <2>2 DEF TableAt
    <3>4. QED
      BY ONLY <2>3, <3>1, <3>2, <3>3, Zenon DEF TableAt
  <2>5. ls = [list |-> IF r.m = r.a + 1 \/ First(r, r.m) THEN NullPtr ELSE h.ptr[h.m],
              prev |-> IF r.c = h.m + 1 THEN NullPtr ELSE h.ptr[r.c],
              prevPrev |-> IF r.b = r.c THEN NullPtr ELSE h.ptr[r.b]]
    <3>1. ls = [list |-> IF h.m = 0 THEN NullPtr ELSE h.ptr[h.m],
                prev |-> IF h.c = h.m THEN NullPtr ELSE h.ptr[h.c],
                prevPrev |-> IF h.b = h.c THEN NullPtr ELSE h.ptr[h.b]]
      BY <1>0, <1>3, <1>13 DEF ListsOf
    <3>2. r.m = r.a + 1 \/ First(r, r.m) <=> h.m = 0
      BY <1>5, <1>6, <2>1, <2>2 DEF LogShape, First
    <3>3. (r.c = h.m + 1 <=> h.c = h.m) /\ (h.c # h.m => r.c = h.c)
      BY <1>6, <2>1
    <3>4. (r.b = r.c <=> h.b = h.c) /\ (h.b # h.c => r.b = h.b)
      BY <1>5, <1>6, <2>1 DEF LogShape
    <3>5. QED
      BY ONLY <3>1, <3>2, <3>3, <3>4, Zenon
  <2>6. /\ h.a <= r.a /\ r.a <= h.m
        /\ r.c = h.m + 1 \/ r.c <= h.m
        /\ r.b = r.c \/ r.b <= h.m
    BY <1>6, <2>1
  <2>7. RunLog(r)'
    BY ONLY <1>12, <2>1, <2>4, <2>5, <2>6, r \in Log
  <2>8. QED
    BY <1>1, <1>11, <2>7
<1>14. CASE wasStarted
  <2>1. h.ord[h.m] # <<>>
    <3>1. PICK g \in Gens : gen[g].status = "TO_BE_COLLECTED"
      BY <1>3, <1>4, <1>14
    <3>2. PICK q \in 1 .. Len(order) : order[q] = g
      BY <1>4, <3>1, Members DEF OrderOK, Live
    <3>3. order[1] # g
      BY <1>0, <1>8, <3>1 DEF InfoOf
    <3>4. SUFFICES ASSUME h.ord[h.m] = <<>> PROVE FALSE
      OBVIOUS
    <3>5. Len(order) = 1
      <4>1. order = <<ev.gn>> \o <<>>
        BY <1>3, <1>7, <3>4
      <4>2. QED
        BY <1>8, <4>1
    <3>6. QED
      BY <3>2, <3>3, <3>5
  <2>2. ASSUME NEW e \in h.a + 1 .. h.m, ~Gone(h, e, h.m) PROVE Start(h, h.m) < e
    <3>1. e \in Nat /\ Start(h, h.m) \in Nat
      BY <1>5, <1>6, StartRange
    <3>2. PICK g \in Gens : g = h.ev[e].gn
      BY <3>1, EventTypes
    <3>3. UnmarkedGen[g] = InfoAt(h, e, h.m)
      BY <1>3, <3>2 DEF TableAt
    <3>4. UnmarkedGen[g].status # "TO_BE_COLLECTED"
      BY <1>4, <1>14, UnmarkedTable
    <3>5. StatusAt(h, e, h.m) # "TO_BE_COLLECTED"
      BY <3>3, <3>4, StatusFacts
    <3>6. QED
      BY <2>2, <3>1, <3>5 DEF StatusAt
  <2>3. PICK r \in Log :
           /\ NewLog(h, r) /\ LogOK(r) /\ LogEvents(r, r.m) /\ SameCells(h, r)
           /\ r.a = (IF h.b < h.c THEN h.b ELSE h.a) /\ r.b = h.c /\ r.c = h.m
           /\ h.a <= r.a /\ r.a < r.b
           /\ \A e \in h.a + 1 .. r.a : StatusAt(h, e, h.m) = "COLLECTED_TWICE"
           /\ \A e \in r.a + 1 .. h.m :
                /\ StatusAt(h, e, h.m) # "COLLECTED_TWICE"
                /\ Gone(h, e, h.m) => InfoAt(r, e, r.m) = InfoAt(h, e, h.m)
                /\ ~Gone(h, e, h.m) =>
                     InfoAt(r, e, r.m) = [InfoAt(h, e, h.m) EXCEPT !.status = "TO_BE_COLLECTED"]
           /\ InfoAt(r, r.m, r.m) = InfoOf(r.ev[r.m])
    <3>1. h.pt[h.m] = NoGen
      BY <1>2, <1>3, <1>14 DEF RunningOK, PhaseOK
    <3>2. QED
      BY <1>3, <2>1, <2>2, <3>1, FirstLog
  <2>4. /\ r.m = h.m + 1 /\ r.ev = h.ev /\ r.a \in Nat /\ r.b \in Nat
        /\ r.a < h.m /\ r.b <= h.m
    <3>1. r.m = h.m + 1 /\ r.ev = h.ev /\ r.a \in Nat /\ r.b \in Nat
      BY <2>3, LogTypes DEF NewLog
    <3>2. QED
      BY <1>6, <2>3, <3>1
  <2>5. \A g \in Gens : UnmarkedGen'[g] = (IF gen[g].status = "COLLECTED_TWICE" THEN NoInfo ELSE gen[g])
    <3>1. TAKE g \in Gens
    <3>2. Purged[g] = (IF gen[g].status = "COLLECTED_TWICE" THEN NoInfo ELSE gen[g])
      BY DEF Purged, Twice
    <3>3. Purged[g] \in GenInfo
      BY <1>4, <3>2 DEF NoInfo, GenInfo, GenStatus
    <3>4. UnmarkedGen'[g] = [gen'[g] EXCEPT !.status = @]
      BY <1>1 DEF UnmarkedGen, Unmarked
    <3>5. PICK x \in GenInfo : x = Purged[g]
      BY <3>3
    <3>6. UnmarkedGen'[g] = [x EXCEPT !.status = x.status]
      BY <1>1, <1>14, <3>4, <3>5
    <3>7. [x EXCEPT !.status = x.status] = x
      BY DEF GenInfo
    <3>8. QED
      BY <3>2, <3>5, <3>6, <3>7
  <2>6. ASSUME NEW e \in h.a + 1 .. h.m, NEW g \in Gens, g = h.ev[e].gn
        PROVE  /\ Gone(h, e, h.m) => gen[g] = InfoAt(h, e, h.m)
               /\ ~Gone(h, e, h.m) =>
                    gen[g] = [InfoAt(h, e, h.m) EXCEPT !.status = "TO_BE_COLLECTED"]
               /\ InfoAt(h, e, h.m).status = StatusAt(h, e, h.m)
    <3>0. e \in Nat /\ gen[g] \in GenInfo
      BY <1>4, <1>6
    <3>1. UnmarkedGen[g] = InfoAt(h, e, h.m)
      BY <1>3, <2>6 DEF TableAt
    <3>2. UnmarkedGen[g] = [gen[g] EXCEPT !.status = Unmarked(@)]
      BY DEF UnmarkedGen
    <3>3. InfoAt(h, e, h.m).status = StatusAt(h, e, h.m)
          /\ (StatusAt(h, e, h.m) \in Live <=> ~Gone(h, e, h.m))
      BY StatusFacts
    <3>4. ASSUME Gone(h, e, h.m) PROVE gen[g] = InfoAt(h, e, h.m)
      <4>1. gen[g].status \notin Live
        <5>1. UnmarkedGen[g].status \in Live <=> gen[g].status \in Live
          BY ONLY <1>4, g \in Gens, UnmarkedTable
        <5>2. QED
          BY ONLY <3>1, <3>3, <3>4, <5>1, Zenon
      <4>2. Unmarked(gen[g].status) = gen[g].status
        BY <4>1 DEF Unmarked, Live
      <4>3. UnmarkedGen[g] = gen[g]
        BY <3>0, <3>2, <4>2 DEF GenInfo
      <4>4. QED
        BY <3>1, <4>3
    <3>5. ASSUME ~Gone(h, e, h.m)
          PROVE  gen[g] = [InfoAt(h, e, h.m) EXCEPT !.status = "TO_BE_COLLECTED"]
      <4>1. gen[g].status = "TO_BE_COLLECTED"
        BY <1>3, <1>14, <2>6, <3>5
      <4>2. Unmarked(gen[g].status) = "NORMAL"
        BY <1>14, <4>1 DEF Unmarked
      <4>3. UnmarkedGen[g] = [gen[g] EXCEPT !.status = "NORMAL"]
        BY <3>2, <4>2
      <4>4. "NORMAL" \in GenStatus
        BY DEF GenStatus
      <4>5. [[gen[g] EXCEPT !.status = "NORMAL"] EXCEPT !.status = gen[g].status] = gen[g]
        BY <3>0, <4>4, Remarked
      <4>6. QED
        BY <3>1, <4>1, <4>3, <4>5
    <3>6. QED
      BY <3>3, <3>4, <3>5
  <2>7. TableAt(UnmarkedGen', r, r.m, r.m)
    <3>1. ASSUME NEW e \in r.a + 1 .. r.m PROVE UnmarkedGen'[r.ev[e].gn] = InfoAt(r, e, r.m)
      <4>0. e \in Nat /\ h.ev[e] = r.ev[e]
        BY <1>6, <2>4
      <4>1. PICK g \in Gens : g = h.ev[e].gn
        BY <4>0, EventTypes
      <4>2. CASE e = r.m
        <5>1. gen[g] = InfoOf(r.ev[r.m]) /\ gen[g].status = "NORMAL"
          BY <1>7, <1>8, <2>4, <4>0, <4>1, <4>2 DEF InfoOf
        <5>2. UnmarkedGen'[g] = gen[g]
          BY <2>5, <5>1
        <5>3. QED
          BY <2>3, <4>0, <4>1, <4>2, <5>1, <5>2
      <4>3. CASE e # r.m
        <5>1. e \in r.a + 1 .. h.m /\ e \in h.a + 1 .. h.m
          BY <1>6, <2>3, <2>4, <4>3
        <5>2. /\ Gone(h, e, h.m) => gen[g] = InfoAt(h, e, h.m)
              /\ ~Gone(h, e, h.m) =>
                   gen[g] = [InfoAt(h, e, h.m) EXCEPT !.status = "TO_BE_COLLECTED"]
              /\ InfoAt(h, e, h.m).status = StatusAt(h, e, h.m)
          BY <2>6, <4>1, <5>1
        <5>3. /\ StatusAt(h, e, h.m) # "COLLECTED_TWICE"
              /\ Gone(h, e, h.m) => InfoAt(r, e, r.m) = InfoAt(h, e, h.m)
              /\ ~Gone(h, e, h.m) =>
                   InfoAt(r, e, r.m) = [InfoAt(h, e, h.m) EXCEPT !.status = "TO_BE_COLLECTED"]
          BY <2>3, <5>1
        <5>4. gen[g] = InfoAt(r, e, r.m)
          BY ONLY <5>2, <5>3, Zenon
        <5>5. gen[g].status # "COLLECTED_TWICE"
          <6>1. CASE Gone(h, e, h.m)
            BY ONLY <5>2, <5>3, <6>1, Zenon
          <6>2. CASE ~Gone(h, e, h.m)
            <7>1. gen[g].status = "TO_BE_COLLECTED"
              BY <1>3, <1>14, <4>1, <5>1, <6>2
            <7>2. QED
              BY <7>1
          <6>3. QED
            BY <6>1, <6>2
        <5>6. QED
          BY <2>5, <4>0, <4>1, <5>4, <5>5
      <4>4. QED
        BY <4>2, <4>3
    <3>2. \A e \in r.m + 1 .. r.m : FALSE
      BY <1>6, <2>4
    <3>3. ASSUME NEW g \in Gens, \A e \in r.a + 1 .. r.m : r.ev[e].gn # g
          PROVE  UnmarkedGen'[g] = NoInfo
      <4>1. CASE \E e \in h.a + 1 .. h.m + 1 : h.ev[e].gn = g
        <5>1. PICK e \in h.a + 1 .. h.m + 1 : h.ev[e].gn = g
          BY <4>1
        <5>2. e \in h.a + 1 .. r.a /\ e \in h.a + 1 .. h.m
          <6>1. e \notin r.a + 1 .. r.m
            BY <2>4, <3>3, <5>1
          <6>2. QED
            BY <1>6, <2>3, <2>4, <6>1
        <5>3. StatusAt(h, e, h.m) = "COLLECTED_TWICE"
          BY <2>3, <5>2
        <5>4. Gone(h, e, h.m)
          BY <5>3 DEF StatusAt
        <5>5. gen[g].status = "COLLECTED_TWICE"
          BY <2>6, <5>1, <5>2, <5>3, <5>4
        <5>6. QED
          BY <2>5, <5>5
      <4>2. CASE \A e \in h.a + 1 .. h.m + 1 : h.ev[e].gn # g
        <5>1. UnmarkedGen[g] = NoInfo
          BY <1>3, <4>2 DEF TableAt
        <5>2. NoInfo.status = "NONEXISTENT"
          BY DEF NoInfo
        <5>3. gen[g].status = "NONEXISTENT"
          BY <1>4, <5>1, <5>2, UnmarkedTable
        <5>4. UnmarkedGen[g] = gen[g]
          <6>1. gen[g] \in GenInfo /\ Unmarked(gen[g].status) = gen[g].status
            BY <1>4, <5>3 DEF Unmarked
          <6>2. UnmarkedGen[g] = [gen[g] EXCEPT !.status = gen[g].status]
            BY <6>1 DEF UnmarkedGen
          <6>3. QED
            BY <6>1, <6>2 DEF GenInfo
        <5>5. QED
          BY <2>5, <5>1, <5>3, <5>4
      <4>3. QED
        BY <4>1, <4>2
    <3>4. QED
      BY ONLY <3>1, <3>2, <3>3, Zenon DEF TableAt
  <2>8. ls = [list |-> IF r.m = r.a + 1 \/ First(r, r.m) THEN NullPtr ELSE h.ptr[h.m],
              prev |-> IF r.c = h.m + 1 THEN NullPtr ELSE h.ptr[r.c],
              prevPrev |-> IF r.b = r.c THEN NullPtr ELSE h.ptr[r.b]]
    <3>1. ls = [list |-> NullPtr, prev |-> IF h.m = 0 THEN NullPtr ELSE h.ptr[h.m],
                prevPrev |-> IF h.c = h.m THEN NullPtr ELSE h.ptr[h.c]]
      BY <1>0, <1>3, <1>14 DEF ListsOf
    <3>2. First(r, r.m) /\ h.m # 0 /\ r.c # h.m + 1 /\ r.c = h.m /\ (r.b = r.c <=> h.c = h.m)
      <4>1. r.c = h.m /\ r.b = h.c /\ r.m = h.m + 1 /\ r.a < h.m
        BY <2>3, <2>4
      <4>2. QED
        BY <1>6, <2>4, <4>1 DEF First
    <3>3. r.b = h.c
      BY <2>3
    <3>4. QED
      BY ONLY <3>1, <3>2, <3>3, Zenon
  <2>9. /\ h.a <= r.a /\ r.a <= h.m
        /\ r.c = h.m + 1 \/ r.c <= h.m
        /\ r.b = r.c \/ r.b <= h.m
    BY <1>6, <2>3, <2>4
  <2>10. RunLog(r)'
    BY ONLY <1>12, <2>3, <2>7, <2>8, <2>9, r \in Log
  <2>11. QED
    BY <1>1, <1>11, <2>10
<1>15. QED
  BY <1>4, <1>13, <1>14

LEMMA AppendIs ==
  ASSUME NEW S, NEW u \in Seq(S), NEW c \in S
  PROVE  Append(u, c) = [j \in 1 .. Len(u) + 1 |-> IF j = Len(u) + 1 THEN c ELSE u[j]]
<1> DEFINE v == [j \in 1 .. Len(u) + 1 |-> IF j = Len(u) + 1 THEN c ELSE u[j]]
<1>1. Len(u) \in Nat /\ \A j \in 1 .. Len(u) : u[j] \in S
  OBVIOUS
<1>2. \A j \in 1 .. Len(u) + 1 : (IF j = Len(u) + 1 THEN c ELSE u[j]) \in S
  BY <1>1
<1>3. v \in Seq(S) /\ Len(v) = Len(u) + 1
  BY <1>1, <1>2
<1>4. PICK w : w = Append(u, c)
  OBVIOUS
<1>5. /\ w \in Seq(S) /\ Len(w) = Len(u) + 1
      /\ \A j \in 1 .. Len(u) : w[j] = u[j]
      /\ w[Len(u) + 1] = c
  BY <1>4
<1>6. \A j \in 1 .. Len(w) : w[j] = v[j]
  BY <1>1, <1>5
<1> HIDE DEF v
<1>7. w = v
  BY ONLY <1>3, <1>5, <1>6, SameSeq
<1>8. QED
  BY <1>4, <1>7 DEF v

(* The generations a step collects.                                        *)
Merging(i, k) == {order[j] : j \in i .. i + k - 1}

(* A step of the collector, with the table t that has the new generation.  *)
LEMMA CollectedOnceIn ==
  ASSUME gen \in [Gens -> GenInfo], NEW t, NEW i, NEW k, NEW to \in Gens,
         NEW from, from = Merging(i, k),
         \A g \in Gens : g # to => t[g] = gen[g],
         from \subseteq Gens, to \notin from,
         \A f, g \in from : g \notin gen[f].from,
         \A f \in from : to \notin gen[f].from
  PROVE  /\ CollectedOnce(t, i, k, to) = CollectedIn(t, from, to)
         /\ CollectedIn(t, from, to)[to] = Merged(t[to], from)
         /\ \A g \in from : CollectedIn(t, from, to)[g] = Once(gen[g])
         /\ \A g \in Gens : \A f \in from : g \in gen[f].from =>
              CollectedIn(t, from, to)[g] = Again(gen[g])
         /\ \A g \in Gens : g # to /\ g \notin from /\ (\A f \in from : g \notin gen[f].from) =>
              CollectedIn(t, from, to)[g] = gen[g]
<1>1. PICK older : older = UNION {gen[g].from : g \in from}
  OBVIOUS
<1>2. older = UNION {t[f].from : f \in from}
  <2>1. \A f \in from : t[f] = gen[f]
    OBVIOUS
  <2>2. QED
    BY <1>1, <2>1
<1>3. /\ to \notin older /\ \A g \in from : g \notin older
      /\ \A g : g \in older <=> \E f \in from : g \in gen[f].from
  BY <1>1
<1> DEFINE u == CollectedIn(t, from, to)
           v == CollectedOnce(t, i, k, to)
           F == {order[j] : j \in i .. i + k - 1}
           O == UNION {gen[g].from : g \in F}
           P == UNION {t[f].from : f \in from}
<1>4. u = [g \in Gens |->
             CASE g = to    -> Merged(t[g], from)
               [] g \in from -> Once(t[g])
               [] g \in P   -> Again(t[g])
               [] OTHER     -> t[g]]
  BY DEF CollectedIn
<1>5. v = [g \in Gens |->
             CASE g = to -> [t[g] EXCEPT !.from = F]
               [] g \in F -> [gen[g] EXCEPT !.status = "COLLECTED_ONCE", !.page = <<>>, !.from = {}]
               [] g \in O -> [gen[g] EXCEPT !.status = "COLLECTED_TWICE"]
               [] OTHER  -> t[g]]
  BY DEF CollectedOnce
<1>6. F = from
  BY DEF Merging
<1>7. O = older /\ P = older
  BY <1>1, <1>2, <1>6
<1> HIDE DEF u, v, F, O, P
<1>8. u[to] = Merged(t[to], from) /\ v[to] = Merged(t[to], from)
  BY ONLY <1>3, <1>4, <1>5, <1>6, <1>7, to \in Gens, to \notin from DEF Merged
<1>9. ASSUME NEW g \in Gens, g \in from PROVE u[g] = Once(gen[g]) /\ v[g] = Once(gen[g])
  <2>1. g # to /\ g \notin older /\ t[g] = gen[g]
    BY <1>3, <1>9
  <2>2. QED
    BY ONLY <1>4, <1>5, <1>6, <1>7, <1>9, <2>1, g \in Gens DEF Once
<1>10. ASSUME NEW g \in Gens, g \in older PROVE u[g] = Again(gen[g]) /\ v[g] = Again(gen[g])
  <2>1. g # to /\ g \notin from /\ t[g] = gen[g]
    BY <1>3, <1>10
  <2>2. QED
    BY ONLY <1>4, <1>5, <1>6, <1>7, <1>10, <2>1, g \in Gens DEF Again
<1>11. ASSUME NEW g \in Gens, g # to, g \notin from, g \notin older
       PROVE  u[g] = gen[g] /\ v[g] = gen[g]
  <2>1. t[g] = gen[g]
    BY <1>11
  <2>2. QED
    BY ONLY <1>4, <1>5, <1>6, <1>7, <1>11, <2>1, g \in Gens
<1>12. \A g \in Gens : u[g] = v[g]
  BY <1>8, <1>9, <1>10, <1>11
<1>13. u = v
  BY ONLY <1>4, <1>5, <1>12
<1>14. QED
  BY ONLY <1>3, <1>8, <1>9, <1>10, <1>11, <1>13, from \subseteq Gens DEF u, v

LEMMA NotMarked ==
  ASSUME gen \in [Gens -> GenInfo], wasStarted = FALSE
  PROVE  UnmarkedGen = gen
<1>1. \A g \in Gens : UnmarkedGen[g] = gen[g]
  BY UnmarkedTable, wasStarted = FALSE
<1>2. UnmarkedGen = [g \in Gens |-> UnmarkedGen[g]]
  BY DEF UnmarkedGen
<1>3. QED
  BY <1>1, <1>2

(* Where a step starts and what it may collect.                            *)
LEMMA StepCollects ==
  ASSUME Inv, NEW h \in Log, RunLog(h), phase = "step", NEW i, i = FirstFrom, NEW k, k = FromCount(i)
  PROVE  /\ i \in 1 .. Len(h.ord[h.m]) /\ k \in 1 .. Len(h.ord[h.m]) - i + 1 /\ h.c < h.m
         /\ \A q \in 1 .. Len(h.ord[h.m]), e \in h.a + 1 .. h.m :
              h.ord[h.m][q] = h.ev[e].gn => (i <= q <=> e <= Start(h, h.m))
         /\ h.pt[h.m] = NoGen \/ (1 < i /\ h.pt[h.m] = h.ord[h.m][i - 1])
         /\ MoreToCollect(i, k) <=> i + k <= Len(order)
<1>1. Running /\ RunningOK /\ ~Pending
  BY DEF Running, Inv, Pending
<1>2. /\ LogOK(h) /\ prevTo = h.pt[h.m]
      /\ LogEvents(h, h.m) /\ TableAt(UnmarkedGen, h, h.m, h.m) /\ order = h.ord[h.m]
  BY <1>1 DEF RunLog, DescribedLog
<1>3. /\ gen \in [Gens -> GenInfo] /\ wasStarted = FALSE /\ order \in Seq(Gens) /\ Len(order) \in Nat
      /\ ToSet(order) = {g \in Gens : gen[g].status \in Live}
      /\ CollectorOK(gen, order, prevTo, isCollecting)
  BY <1>1 DEF Inv, RunningOK, TableOK, OrderOK, PhaseOK
<1>4. UnmarkedGen = gen
  BY <1>3, NotMarked
<1>5. /\ i \in 1 .. Len(order) /\ k \in 1 .. Len(order) - i + 1
      /\ \A j \in i .. Len(order) : gen[order[j]].status = "TO_BE_COLLECTED"
      /\ \A j \in 1 .. i - 1 : gen[order[j]].status # "TO_BE_COLLECTED"
  BY <1>1, StepRange
<1>6. /\ h.m \in Nat /\ h.a \in Nat /\ h.b \in Nat /\ h.c \in Nat
  BY LogTypes
<1>7. ASSUME NEW q \in 1 .. Len(order), NEW e \in h.a + 1 .. h.m, order[q] = h.ev[e].gn
      PROVE  i <= q <=> e <= Start(h, h.m)
  <2>1. order[q] \in Gens /\ gen[order[q]].status \in Live
    BY <1>3, Members
  <2>2. gen[order[q]] = InfoAt(h, e, h.m)
    BY <1>2, <1>4, <1>7 DEF TableAt
  <2>3. StatusAt(h, e, h.m) \in Live /\ gen[order[q]].status = StatusAt(h, e, h.m)
    BY <2>1, <2>2, StatusFacts
  <2>4. ~Gone(h, e, h.m)
    BY <2>3, StatusFacts
  <2>5. gen[order[q]].status = (IF e <= Start(h, h.m) THEN "TO_BE_COLLECTED" ELSE "NORMAL")
    BY <2>3, <2>4 DEF StatusAt
  <2>6. i <= q <=> gen[order[q]].status = "TO_BE_COLLECTED"
    BY <1>3, <1>5
  <2>7. QED
    BY <2>5, <2>6
<1>8. h.c < h.m
  <2>1. h.b \in Nat /\ h.c <= h.m /\ h.b <= h.c /\ h.b \in h.b .. h.m /\ h.m \in h.b .. h.m
    BY <1>2, <1>6, StartRange DEF LogOK
  <2>2. OrdAt(h, h.m)
    BY <1>2, <2>1 DEF LogOK, LogOrd
  <2>3. PICK e \in h.a + 1 .. h.m : order[i] = h.ev[e].gn
    BY <1>2, <1>5, <2>2 DEF OrdAt
  <2>4. e <= Start(h, h.m)
    BY <1>3, <1>5, <1>7, <2>3
  <2>5. h.c # h.m
    BY <1>2, <1>6, <2>1, <2>3, <2>4 DEF LogOK, LogShape, Start
  <2>6. QED
    BY <1>6, <2>1, <2>5
<1>9. h.pt[h.m] = NoGen \/ (1 < i /\ h.pt[h.m] = h.ord[h.m][i - 1])
  <2>1. SUFFICES ASSUME prevTo # NoGen PROVE 1 < i /\ prevTo = order[i - 1]
    BY <1>2
  <2>2. PICK s \in 1 .. Len(order) - 1 :
          /\ order[s] = prevTo /\ gen[order[s]].status = "NORMAL"
          /\ gen[order[s + 1]].status = "TO_BE_COLLECTED"
    BY <1>3, <2>1 DEF CollectorOK
  <2>3. ~(i <= s) /\ i <= s + 1
    BY <1>3, <1>5, <2>2
  <2>4. s = i - 1 /\ 1 < i
    BY <1>3, <1>5, <2>3
  <2>5. QED
    BY <2>2, <2>4
<1>10. MoreToCollect(i, k) <=> i + k <= Len(order)
  <2>1. i + k <= Len(order) => i + k \in i .. Len(order)
    BY <1>3, <1>5
  <2>2. QED
    BY <1>5, <2>1 DEF MoreToCollect
<1>11. QED
  BY ONLY <1>2, <1>5, <1>7, <1>8, <1>9, <1>10

(* Every action of the running program has a log to show.  A step of the   *)
(* collector adds an event and a pinfo in the first generation.            *)
LEMMA MajorStepReplay ==
  ASSUME Inv, DOMAIN mem = Pages, MemOK, NEW h \in Log, RunLog(h),
         NEW n \in Nat, NEW again \in BOOLEAN, major_gc_step(n, again)
  PROVE  DOMAIN mem' = Pages /\ MemOK' /\ \E r \in Log : RunLog(r)'
<1>0. PICK i, k, g, pages, dps, contents, table, from :
        /\ i = FirstFrom /\ k = FromCount(i)
        /\ g = AllocatedGen /\ pages = NewPages(n) /\ dps = NewDiskPages(n)
        /\ contents = Filled(n, 0, <<>>)
        /\ table = [gen EXCEPT ![g] = [status |-> "NORMAL", page |-> pages,
                                       diskPage |-> dps, from |-> {}]]
        /\ from = {order[j] : j \in i .. i + k - 1}
  OBVIOUS
<1>1. /\ phase = "step" /\ phase' \in {"major", "mutator"}
      /\ n <= Len(freePages) /\ DiskHasRoomFor(n)
      /\ NGensFor <= MaxGenerations
      /\ gen' = CollectedOnce(table, i, k, g)
      /\ order' = OrderAfterStep(i, k, g)
      /\ mem' = Put(mem, NewPages(n), contents) /\ WritePages(n, contents)
      /\ pinfos' = Logged(pinfos, lists, g, k, pages, dps)
      /\ lists' = [lists EXCEPT !.list = LogPtr(pinfos)]
      /\ prevTo' = (IF MoreToCollect(i, k) THEN g ELSE NoGen)
      /\ wasStarted' = wasStarted
  BY <1>0 DEF major_gc_step, allocate_generation
<1>2. /\ Running /\ RunningOK /\ gen \in [Gens -> GenInfo] /\ wasStarted = FALSE
      /\ order \in Seq(Gens) /\ Len(order) \in Nat /\ ~Pending /\ ~Pending'
      /\ ToSet(order) = {x \in Gens : gen[x].status \in Live}
      /\ \A x \in Gens : gen[x].status \in Live =>
           \A y \in gen[x].from : gen[y].status = "COLLECTED_ONCE"
  <2>1. Running /\ ~Pending /\ ~Pending'
    BY <1>1 DEF Running, Pending
  <2>2. RunningOK /\ wasStarted \in BOOLEAN
    BY <2>1 DEF Inv
  <2>3. gen \in [Gens -> GenInfo] /\ wasStarted = FALSE
    BY <1>1, <2>2 DEF RunningOK, TableOK, PhaseOK
  <2>4. /\ order \in Seq(Gens) /\ Len(order) \in Nat
        /\ ToSet(order) = {x \in Gens : gen[x].status \in Live}
    BY <2>2 DEF RunningOK, OrderOK
  <2>5. \A x \in Gens : gen[x].status \in Live =>
          \A y \in gen[x].from : gen[y].status = "COLLECTED_ONCE"
    BY <2>2 DEF RunningOK, TableOK
  <2>6. QED
    BY ONLY <2>1, <2>2, <2>3, <2>4, <2>5
<1>3. g \in Gens /\ gen[g].status = "NONEXISTENT"
  <2>1. Running /\ NGensFor <= MaxGenerations
    BY <1>1, <1>2
  <2>2. QED
    BY ONLY <1>0, <2>1, Inv, AllocatedGenFree
<1>4. /\ pages \in Seq(Pages) /\ Len(pages) = n /\ Distinct(pages)
      /\ dps \in Seq(DiskPages) /\ Len(dps) = n
      /\ DOMAIN mem' = Pages
      /\ \A x \in Existing : \A d \in ToSet(gen[x].diskPage) : d \notin ToSet(dps)
      /\ \A x \in Gens : gen[x].status \in Live => ToSet(gen[x].page) \cap ToSet(pages) = {}
  <2>1. /\ DiskHasRoomFor(n) /\ n <= Len(freePages) /\ WritePages(n, contents)
        /\ mem' = Put(mem, NewPages(n), contents)
    BY <1>1
  <2>2. Running
    BY <1>2
  <2>3. LET u == NewPages(n)
            v == NewDiskPages(n) IN
        /\ u \in Seq(Pages) /\ Len(u) = n /\ Distinct(u)
        /\ v \in Seq(DiskPages) /\ Len(v) = n
        /\ DOMAIN mem' = Pages
        /\ \A x \in Existing : \A d \in ToSet(gen[x].diskPage) : d \notin ToSet(v)
        /\ \A x \in Gens : gen[x].status \in Live => ToSet(gen[x].page) \cap ToSet(u) = {}
    BY ONLY Inv, DOMAIN mem = Pages, n \in Nat, <2>1, <2>2, Written
  <2>4. QED
    BY ONLY <1>0, <2>3, Zenon
<1>5. /\ LogOK(h) /\ DescribedLog(h) /\ lists = ListsOf(h) /\ prevTo = h.pt[h.m]
      /\ LogEvents(h, h.m) /\ TableAt(UnmarkedGen, h, h.m, h.m) /\ order = h.ord[h.m]
  BY <1>2 DEF RunLog, DescribedLog
<1>6. /\ h.m \in Nat /\ h.a \in Nat /\ h.b \in Nat /\ h.c \in Nat
      /\ h.a <= h.b /\ h.b <= h.c /\ h.c <= h.m
  <2>1. h.m \in Nat /\ h.a \in Nat /\ h.b \in Nat /\ h.c \in Nat
    BY LogTypes
  <2>2. QED
    BY <1>5, <2>1, StartRange DEF LogOK
<1>7. /\ i \in 1 .. Len(order) /\ k \in 1 .. Len(order) - i + 1 /\ h.c < h.m
      /\ \A q \in 1 .. Len(h.ord[h.m]), e \in h.a + 1 .. h.m :
           h.ord[h.m][q] = h.ev[e].gn => (i <= q <=> e <= Start(h, h.m))
      /\ h.pt[h.m] = NoGen \/ (1 < i /\ h.pt[h.m] = h.ord[h.m][i - 1])
      /\ MoreToCollect(i, k) <=> i + k <= Len(order)
  BY <1>0, <1>1, <1>5, StepCollects
<1>8. PICK ev : ev = [gn |-> g, nfrom |-> k, page |-> pages, diskPage |-> dps]
  OBVIOUS
<1>9. /\ ev \in Event /\ ev.gn = g /\ ev.nfrom = k /\ ev.page = pages /\ ev.diskPage = dps
      /\ k \in Nat /\ k # 0
  <2>1. k \in Nat /\ k # 0
    BY <1>2, <1>7
  <2>2. QED
    BY <1>3, <1>4, <1>8, <2>1 DEF Event
<1>10. /\ table[g] = InfoOf(ev) /\ \A x \in Gens : x # g => table[x] = gen[x]
  BY <1>0, <1>2, <1>3, <1>9 DEF InfoOf
<1>11. /\ from \subseteq Gens /\ \A x \in from : gen[x].status \in Live
  <2>1. \A q \in i .. i + k - 1 : q \in 1 .. Len(order)
    BY <1>2, <1>7
  <2>2. \A q \in i .. i + k - 1 : order[q] \in Gens /\ gen[order[q]].status \in Live
    BY <1>2, <2>1, Members
  <2>3. QED
    BY <1>0, <2>2
<1>12. /\ g \notin from
       /\ \A x, y \in from : y \notin gen[x].from
       /\ \A x \in from : g \notin gen[x].from
  BY <1>2, <1>3, <1>11 DEF Live
<1>13. /\ gen' = CollectedIn(table, from, g)
       /\ gen'[g] = Merged(InfoOf(ev), from)
       /\ \A x \in from : gen'[x] = Once(gen[x])
       /\ \A x \in Gens : \A f \in from : x \in gen[f].from => gen'[x] = Again(gen[x])
       /\ \A x \in Gens : x # g /\ x \notin from /\ (\A f \in from : x \notin gen[f].from) =>
            gen'[x] = gen[x]
  <2>1. /\ gen \in [Gens -> GenInfo] /\ from = Merging(i, k)
        /\ \A x \in Gens : x # g => table[x] = gen[x]
    BY <1>0, <1>2, <1>10 DEF Merging
  <2>2. /\ CollectedOnce(table, i, k, g) = CollectedIn(table, from, g)
        /\ CollectedIn(table, from, g)[g] = Merged(table[g], from)
        /\ \A x \in from : CollectedIn(table, from, g)[x] = Once(gen[x])
        /\ \A x \in Gens : \A f \in from : x \in gen[f].from =>
             CollectedIn(table, from, g)[x] = Again(gen[x])
        /\ \A x \in Gens : x # g /\ x \notin from /\ (\A f \in from : x \notin gen[f].from) =>
             CollectedIn(table, from, g)[x] = gen[x]
    <3>1. /\ g \in Gens /\ from \subseteq Gens /\ g \notin from
          /\ \A f, x \in from : x \notin gen[f].from
          /\ \A f \in from : g \notin gen[f].from
      BY <1>3, <1>11, <1>12
    <3>2. QED
      BY ONLY <2>1, <3>1, CollectedOnceIn
  <2>3. gen' = CollectedIn(table, from, g)
    BY <1>1, <2>2
  <2>4. QED
    BY ONLY <1>10, <2>2, <2>3, Zenon
<1>14. ASSUME NEW x \in Gens, gen'[x].status \in Live, x # g PROVE gen'[x] = gen[x]
  <2>1. x \notin from
    <3>1. ASSUME x \in from PROVE FALSE
      <4>1. gen'[x].status = "COLLECTED_ONCE"
        BY <1>2, <1>13, <3>1 DEF Once, GenInfo
      <4>2. QED
        BY <1>14, <4>1 DEF Live
    <3>2. QED
      BY <3>1
  <2>2. ASSUME NEW f \in from, x \in gen[f].from PROVE FALSE
    <3>1. gen'[x] = Again(gen[x])
      BY <1>13, <2>2
    <3>2. gen'[x].status = "COLLECTED_TWICE"
      BY <1>2, <3>1 DEF Again, GenInfo
    <3>3. QED
      BY <1>14, <3>2 DEF Live
  <2>3. QED
    BY <1>13, <1>14, <2>1, <2>2
<1>15. MemOK'
  <2>1. \A x \in Gens : gen'[x].status \in Live =>
          IF x = g THEN gen'[x].page = NewPages(n) /\ gen'[x].diskPage = NewDiskPages(n)
          ELSE /\ gen[x].status \in Live /\ gen'[x].page = gen[x].page
               /\ gen'[x].diskPage = gen[x].diskPage
    <3>1. gen'[g].page = pages /\ gen'[g].diskPage = dps
      BY <1>9, <1>13 DEF Merged, InfoOf
    <3>2. QED
      BY <1>0, <1>14, <3>1
  <2>2. Running /\ DiskHasRoomFor(n) /\ n <= Len(freePages) /\ WritePages(n, contents)
        /\ mem' = Put(mem, NewPages(n), contents)
    BY <1>1, <1>2
  <2>3. QED
    BY ONLY Inv, DOMAIN mem = Pages, MemOK, n \in Nat, <2>1, <2>2, MemKept
<1>16. ASSUME NEW e \in h.a + 1 .. h.m
       PROVE  /\ h.ev[e].gn \in Existing /\ h.ev[e].gn \in Gens /\ h.ev[e].gn # g
              /\ gen[h.ev[e].gn].diskPage = h.ev[e].diskPage
              /\ ~Gone(h, e, h.m) => /\ gen[h.ev[e].gn].status \in Live
                                     /\ gen[h.ev[e].gn].page = h.ev[e].page
  <2>1. e \in h.a + 1 .. h.m /\ ~(h.m < e)
    BY <1>6
  <2>x. wasStarted \in BOOLEAN
    BY <1>2
  <2>2. /\ h.ev[e].gn \in Existing
        /\ gen[h.ev[e].gn].diskPage = h.ev[e].diskPage
        /\ ~Gone(h, e, h.m) => /\ gen[h.ev[e].gn].status \in Live
                               /\ gen[h.ev[e].gn].page = h.ev[e].page
    BY <1>2, <1>5, <1>6, <2>1, <2>x, LogGens
  <2>3. QED
    BY <1>3, <2>2 DEF Existing
<1>17. CanCollect(h, i, k, ev)
  <2>1. ASSUME NEW e \in h.a + 1 .. h.m
        PROVE  /\ h.ev[e].gn # ev.gn
               /\ ToSet(h.ev[e].diskPage) \cap ToSet(ev.diskPage) = {}
               /\ ~Gone(h, e, h.m) => ToSet(h.ev[e].page) \cap ToSet(ev.page) = {}
    BY <1>4, <1>9, <1>16
  <2>2. Len(ev.page) = Len(ev.diskPage) /\ Distinct(ev.page)
    BY <1>4, <1>9
  <2>3. QED
    BY ONLY <1>5, <1>7, <1>9, <2>1, <2>2 DEF CanCollect
<1>23. PICK s \in h.a + 1 .. h.m :
         /\ New(h, s) /\ \A j \in s + 1 .. h.m : ~New(h, j)
         /\ \A j \in h.a + 1 .. s - 1 : CellOnDisk(h, j, DiskNow) /\ h.ptr[j].page # FirstGeneration
         /\ pinfos = [j \in 1 .. h.m - s + 1 |-> Cell(h, s + j - 1)]
         /\ \A j \in s .. h.m : h.ptr[j] = [page |-> FirstGeneration, slot |-> j - s + 1]
  <2>1. h.m > 0
    BY <1>6, <1>7
  <2>2. QED
    BY <1>5, <2>1 DEF DescribedLog
<1>24. s \in Nat /\ h.a < s /\ s <= h.m
  BY <1>6
<1>27. Len(pinfos) = h.m - s + 1 /\ Len(pinfos) \in Nat
  <2>1. PICK l \in Nat : l = h.m - s + 1
    BY <1>6, <1>24
  <2>2. PICK u : u = [j \in 1 .. l |-> Cell(h, s + j - 1)]
    OBVIOUS
  <2>3. Len(u) = l
    BY <2>2
  <2>4. QED
    BY <1>23, <2>1, <2>2, <2>3
<1>18. PICK x \in Ptr : x = LogPtr(pinfos)
  <2>1. Len(pinfos) + 1 \in Nat
    BY <1>27
  <2>2. QED
    BY <2>1 DEF LogPtr, Ptr
<1>19. PICK r \in Log :
         /\ CollectLog(h, r, i, k, ev, x) /\ LogOK(r) /\ LogEvents(r, r.m)
         /\ \A e \in h.a + 1 .. h.m : InfoAt(r, e, h.m) = InfoAt(h, e, h.m)
         /\ \A j \in h.a + 1 .. h.m : Cell(r, j) = Cell(h, j)
  BY ONLY <1>17, h \in Log, x \in Ptr, CollectedLog
<1>20. /\ r.m = h.m + 1 /\ r.a = h.a /\ r.b = h.b /\ r.c = h.c
       /\ \A j \in h.a + 1 .. h.m : r.ev[j] = h.ev[j] /\ r.ptr[j] = h.ptr[j]
       /\ r.ev[h.m + 1] = ev /\ r.ptr[h.m + 1] = x /\ r.pos[h.m + 1] = i
       /\ r.ord[h.m] = order
       /\ r.ord[h.m + 1] = Splice(order, i, k, g)
       /\ r.pt[h.m + 1] = (IF i + k <= Len(order) THEN g ELSE NoGen)
  <2>1. \A j \in h.a + 1 .. h.m : j \in 0 .. h.m
    BY <1>6
  <2>2. h.m \in 0 .. h.m
    BY <1>6
  <2>3. CollectLog(h, r, i, k, ev, x)
    BY <1>19
  <2>4. QED
    BY ONLY <1>5, <1>9, <2>1, <2>2, <2>3, Zenon DEF CollectLog
<1>21. TableAt(gen', r, r.m, r.m)
  <2>1. TableAt(table, r, h.m, r.m)
    <3>1. UnmarkedGen = gen
      BY <1>2, NotMarked
    <3>2. ASSUME NEW e \in r.a + 1 .. h.m PROVE table[r.ev[e].gn] = InfoAt(r, e, h.m)
      <4>1. gen[h.ev[e].gn] = InfoAt(h, e, h.m)
        BY <1>5, <1>20, <3>1 DEF TableAt
      <4>2. QED
        BY <1>10, <1>16, <1>19, <1>20, <4>1
    <3>3. \A e \in h.m + 1 .. r.m : table[r.ev[e].gn] = InfoOf(r.ev[e])
      BY <1>6, <1>9, <1>10, <1>20
    <3>4. ASSUME NEW y \in Gens, \A e \in r.a + 1 .. r.m : r.ev[e].gn # y PROVE table[y] = NoInfo
      <4>1. h.m + 1 \in r.a + 1 .. r.m /\ \A e \in h.a + 1 .. h.m : e \in r.a + 1 .. r.m
        BY <1>6, <1>20
      <4>2. y # g
        BY <1>9, <1>20, <3>4, <4>1
      <4>3. \A e \in h.a + 1 .. h.m : h.ev[e].gn # y
        BY <1>20, <3>4, <4>1
      <4>4. gen[y] = NoInfo
        BY <1>5, <3>1, <4>3 DEF TableAt
      <4>5. QED
        BY <1>10, <4>2, <4>4
    <3>5. QED
      BY <3>2, <3>3, <3>4 DEF TableAt
  <2>2. r.m \in r.m .. r.m + 1 /\ r.m \in r.b + 1 .. r.m /\ r.m - 1 = h.m /\ ~New(r, r.m)
    <3>1. r.m = h.m + 1 /\ r.b = h.b /\ r.ev[r.m] = ev
      BY <1>20
    <3>2. ~New(r, r.m)
      BY ONLY <1>9, <3>1 DEF New
    <3>3. QED
      BY ONLY <1>6, <3>1, <3>2
  <2>3. LogOK(r) /\ LogEvents(r, r.m) /\ TableAt(table, r, r.m - 1, r.m)
    BY <1>19, <2>1, <2>2
  <2>4. LET F == {r.ord[r.m - 1][q] : q \in r.pos[r.m] .. r.pos[r.m] + r.ev[r.m].nfrom - 1} IN
        TableAt(CollectedIn(table, F, r.ev[r.m].gn), r, r.m, r.m)
    BY ONLY r \in Log, <2>2, <2>3, CollectTable
  <2>5. /\ r.ord[r.m - 1] = order /\ r.pos[r.m] = i /\ r.ev[r.m].nfrom = k /\ r.ev[r.m].gn = g
    BY <1>9, <1>20, <2>2
  <2>6. TableAt(CollectedIn(table, from, g), r, r.m, r.m)
    BY ONLY <1>0, <2>4, <2>5
  <2>7. QED
    BY <1>13, <2>6
<1>22. TableAt(UnmarkedGen', r, r.m, r.m)
  <2>1. /\ \A e \in r.a + 1 .. r.m : r.ev[e].gn \in Gens /\ InfoAt(r, e, r.m) \in GenInfo
        /\ NoInfo \in GenInfo
    <3>1. \A e \in r.a + 1 .. r.m : e \in Nat
      BY <1>6, <1>20
    <3>2. r.m \in Nat
      BY <1>6, <1>20
    <3>3. NoInfo \in GenInfo
      <4>1. <<>> \in Seq(Pages) /\ <<>> \in Seq(DiskPages) /\ {} \in SUBSET Gens
        OBVIOUS
      <4>2. QED
        BY <4>1 DEF NoInfo, GenInfo, GenStatus
    <3>4. ASSUME NEW e \in r.a + 1 .. r.m PROVE r.ev[e].gn \in Gens /\ InfoAt(r, e, r.m) \in GenInfo
      <4>1. e \in Nat
        BY <3>1
      <4>2. QED
        BY <3>2, <4>1, EventTypes, InfoType
    <3>5. QED
      BY <3>3, <3>4
  <2>2. ASSUME NEW y \in Gens, gen'[y] \in GenInfo PROVE UnmarkedGen'[y] = gen'[y]
    <3>1. PICK z \in GenInfo : z = gen'[y]
      BY <2>2
    <3>2. UnmarkedGen'[y] = [z EXCEPT !.status = z.status]
      BY <1>1, <1>2, <3>1 DEF UnmarkedGen, Unmarked
    <3>3. QED
      BY <3>1, <3>2 DEF GenInfo
  <2>3. \A e \in r.a + 1 .. r.m : UnmarkedGen'[r.ev[e].gn] = InfoAt(r, e, r.m)
    <3>1. TAKE e \in r.a + 1 .. r.m
    <3>2. gen'[r.ev[e].gn] = InfoAt(r, e, r.m)
      BY <1>21 DEF TableAt
    <3>3. QED
      BY <2>1, <2>2, <3>2
  <2>4. \A e \in r.m + 1 .. r.m : FALSE
    BY <1>6, <1>20
  <2>5. \A y \in Gens : (\A e \in r.a + 1 .. r.m : r.ev[e].gn # y) => UnmarkedGen'[y] = NoInfo
    <3>1. \A y \in Gens : (\A e \in r.a + 1 .. r.m : r.ev[e].gn # y) => gen'[y] = NoInfo
      BY <1>21 DEF TableAt
    <3>2. QED
      BY <2>1, <2>2, <3>1
  <2>6. QED
    BY ONLY <2>3, <2>4, <2>5, Zenon DEF TableAt
<1>25. New(r, s) /\ \A j \in s + 1 .. r.m : ~New(r, j)
  <2>1. New(r, s)
    BY <1>20, <1>23 DEF New
  <2>2. ASSUME NEW j \in s + 1 .. r.m PROVE ~New(r, j)
    <3>1. CASE j = h.m + 1
      BY <1>9, <1>20, <3>1 DEF New
    <3>2. CASE j # h.m + 1
      <4>1. j \in s + 1 .. h.m /\ j \in h.a + 1 .. h.m
        BY <1>6, <1>20, <1>24, <3>2
      <4>2. QED
        BY <1>20, <1>23, <4>1 DEF New
    <3>3. QED
      BY <3>1, <3>2
  <2>3. QED
    BY <2>1, <2>2
<1>26. ASSUME NEW j \in h.a + 1 .. s - 1
       PROVE  CellOnDisk(r, j, DiskNow') /\ r.ptr[j].page # FirstGeneration
  <2>1. j \in Nat /\ j < s /\ j \in h.a + 1 .. h.m /\ s <= h.m + 1 /\ s <= r.m + 1
    BY <1>6, <1>20, <1>24
  <2>2. CellOnDisk(h, j, DiskNow) /\ r.ptr[j] = h.ptr[j] /\ r.ptr[j].page # FirstGeneration
    BY <1>20, <1>23, <2>1
  <2>3. Cell(r, j) = Cell(h, j)
    BY <1>19, <2>1
  <2>4. (\A z \in j .. s : z \in h.a + 1 .. h.m) /\ (\A z \in j + 1 .. s : z \in h.a + 1 .. h.m)
    BY <1>6, <1>24, <2>1
  <2>5. \A z \in j .. s : r.ev[z] = h.ev[z]
    BY <1>20, <2>4
  <2>6. \A z \in j + 1 .. s : Len(h.ev[z].page) = Len(h.ev[z].diskPage)
    BY <1>5, <2>4 DEF LogEvents
  <2>7. ASSUME NEW z \in j + 1 .. s, NEW y \in DiskNow, y[1] \in ToSet(h.ev[z].diskPage)
        PROVE  y \in DiskNow'
    <3>1. h.ev[z].gn \in Existing /\ gen[h.ev[z].gn].diskPage = h.ev[z].diskPage
      BY <1>16, <2>4
    <3>2. PICK f \in Existing : f = h.ev[z].gn
      BY <3>1
    <3>3. y[1] \in ToSet(gen[f].diskPage)
      BY <2>7, <3>1, <3>2
    <3>4. Running /\ DiskHasRoomFor(n) /\ n <= Len(freePages) /\ WritePages(n, contents)
          /\ mem' = Put(mem, NewPages(n), contents)
      BY <1>1, <1>2
    <3>5. QED
      BY ONLY Inv, <3>4, DOMAIN mem = Pages, n \in Nat, <3>3, f \in Existing, y \in DiskNow, DiskKept
  <2>8. New(h, s) /\ s \in Nat
    BY <1>23, <1>24
  <2>9. CellOnDisk(r, j, DiskNow')
    BY ONLY <2>1, <2>2, <2>3, <2>5, <2>6, <2>7, <2>8, h \in Log, r \in Log, CellKept
  <2>10. QED
    BY <2>2, <2>9
<1>28. x = [page |-> FirstGeneration, slot |-> h.m - s + 2]
  BY <1>6, <1>18, <1>24, <1>27 DEF LogPtr
<1>29. lists = [list |-> h.ptr[h.m], prev |-> h.ptr[h.c],
                prevPrev |-> IF h.b = h.c THEN NullPtr ELSE h.ptr[h.b]]
  <2>1. h.m # 0 /\ h.c # h.m
    BY <1>6, <1>7
  <2>2. QED
    BY <1>5, <2>1 DEF ListsOf
<1>30. Cell(r, r.m) = [gn |-> g, nfrom |-> k, page |-> pages, diskPage |-> dps, prev |-> h.ptr[h.m]]
  <2>0. h.c < h.m /\ r.m = h.m + 1 /\ r.a = h.a /\ r.b = h.b /\ r.c = h.c
    BY <1>7, <1>20
  <2>1. r.m # r.a + 1 /\ ~First(r, r.m) /\ r.m - 1 = h.m
    BY ONLY <1>6, <2>0 DEF First
  <2>2. r.ptr[h.m] = h.ptr[h.m]
    <3>1. h.m \in h.a + 1 .. h.m
      BY <1>6, <1>7
    <3>2. QED
      BY <1>20, <3>1
  <2>3. QED
    BY <1>9, <1>20, <2>1, <2>2 DEF Cell
<1>31. pinfos' = [j \in 1 .. r.m - s + 1 |-> Cell(r, s + j - 1)]
  <2>1. PICK c : c = Cell(r, r.m)
    OBVIOUS
  <2>2. pinfos' = Append(pinfos, c)
    BY ONLY <1>1, <1>29, <1>30, <2>1 DEF Logged
  <2>3. PICK u : u = [j \in 1 .. h.m - s + 1 |-> Cell(h, s + j - 1)]
    OBVIOUS
  <2>4. PICK l \in Nat : l = h.m - s + 1
    BY <1>6, <1>24
  <2>5. u = pinfos /\ u = [j \in 1 .. l |-> Cell(h, s + j - 1)]
    BY <1>23, <2>3, <2>4
  <2>6. Append(u, c) = [j \in 1 .. l + 1 |-> IF j = l + 1 THEN c ELSE u[j]]
    <3>1. PICK S : S = {u[j] : j \in 1 .. l} \cup {c}
      OBVIOUS
    <3>2. \A j \in 1 .. l : u[j] \in S /\ u[j] = Cell(h, s + j - 1)
      BY <2>5, <3>1
    <3>3. c \in S
      BY <3>1
    <3>4. u \in Seq(S) /\ Len(u) = l
      BY ONLY <2>5, <3>2, l \in Nat
    <3>5. QED
      BY ONLY <3>3, <3>4, AppendIs
  <2>7. ASSUME NEW j \in 1 .. l + 1
        PROVE  (IF j = l + 1 THEN c ELSE u[j]) = Cell(r, s + j - 1)
    <3>1. CASE j = l + 1
      <4>1. s + j - 1 = r.m
        BY <1>6, <1>20, <1>24, <2>4, <3>1
      <4>2. QED
        BY <2>1, <3>1, <4>1
    <3>2. CASE j # l + 1
      <4>1. j \in 1 .. l /\ s + j - 1 \in h.a + 1 .. h.m
        BY <1>6, <1>24, <2>4, <3>2
      <4>2. u[j] = Cell(h, s + j - 1)
        BY <2>5, <4>1
      <4>3. QED
        BY <1>19, <3>2, <4>1, <4>2
    <3>3. QED
      BY <3>1, <3>2
  <2>8. r.m - s + 1 = l + 1
    BY <1>6, <1>20, <1>24, <2>4
  <2>9. QED
    BY ONLY <2>2, <2>5, <2>6, <2>7, <2>8
<1>32. ASSUME NEW j \in s .. r.m PROVE r.ptr[j] = [page |-> FirstGeneration, slot |-> j - s + 1]
  <2>1. CASE j = r.m
    <3>1. j - s + 1 = h.m - s + 2
      BY <1>6, <1>20, <1>24, <2>1
    <3>2. QED
      BY <1>20, <1>28, <2>1, <3>1
  <2>2. CASE j # r.m
    <3>1. j \in s .. h.m /\ j \in h.a + 1 .. h.m
      BY <1>6, <1>20, <1>24, <2>2
    <3>2. QED
      BY <1>20, <1>23, <3>1
  <2>3. QED
    BY <2>1, <2>2
<1>33. DescribedLog(r)'
  <2>1. order' = r.ord[r.m]
    BY <1>1, <1>20 DEF OrderAfterStep, Splice
  <2>2. r.m # 0 /\ s \in r.a + 1 .. r.m
    BY <1>6, <1>20, <1>24
  <2>3. \A j \in r.a + 1 .. s - 1 : CellOnDisk(r, j, DiskNow') /\ r.ptr[j].page # FirstGeneration
    BY <1>20, <1>26
  <2>4. LogEvents(r, r.m)
    BY <1>19
  <2>5. \E t \in r.a + 1 .. r.m :
          /\ New(r, t) /\ \A j \in t + 1 .. r.m : ~New(r, j)
          /\ \A j \in r.a + 1 .. t - 1 : CellOnDisk(r, j, DiskNow') /\ r.ptr[j].page # FirstGeneration
          /\ pinfos' = [j \in 1 .. r.m - t + 1 |-> Cell(r, t + j - 1)]
          /\ \A j \in t .. r.m : r.ptr[j] = [page |-> FirstGeneration, slot |-> j - t + 1]
    BY ONLY <1>25, <1>31, <1>32, <2>2, <2>3, Zenon
  <2>6. QED
    BY ONLY <1>22, <2>1, <2>2, <2>4, <2>5, Zenon DEF DescribedLog
<1>34. lists' = ListsOf(r)
  <2>1. lists' = [list |-> x, prev |-> h.ptr[h.c],
                  prevPrev |-> IF h.b = h.c THEN NullPtr ELSE h.ptr[h.b]]
    BY <1>1, <1>18, <1>29
  <2>2. h.c \in h.a + 1 .. h.m /\ h.b \in h.a + 1 .. h.m /\ r.m # 0 /\ r.c # r.m
    <3>1. h.a < h.b
      BY <1>5, <1>6, <1>7 DEF LogOK, LogShape
    <3>2. QED
      <4>1. h.c < h.m /\ r.m = h.m + 1 /\ r.c = h.c
        BY <1>7, <1>20
      <4>2. QED
        BY ONLY <1>6, <3>1, <4>1
  <2>3. r.ptr[r.m] = x /\ r.ptr[r.c] = h.ptr[h.c] /\ r.ptr[r.b] = h.ptr[h.b]
    BY <1>20, <2>2
  <2>4. QED
    BY ONLY <1>20, <2>1, <2>2, <2>3, Zenon DEF ListsOf
<1>35. prevTo' = r.pt[r.m]
  BY <1>1, <1>7, <1>20
<1>36. RunLog(r)'
  <2>1. LogOK(r) /\ ~Pending' /\ wasStarted' = FALSE
    BY <1>1, <1>2, <1>19
  <2>2. QED
    BY ONLY <1>33, <1>34, <1>35, <2>1, Zenon DEF RunLog
<1>37. QED
  BY <1>4, <1>15, <1>36

================================================================================
